------------------------ MODULE MC_AssistantActions ------------------------
(* AssistantActions for TLC: proposals and requests are interchangeable. *)
EXTENDS AssistantActions, TLC

Symmetry == Permutations(Actions) \cup Permutations(Requests)
=============================================================================
