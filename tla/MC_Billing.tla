----------------------------- MODULE MC_Billing -----------------------------
(* Two processes and two administrators, interchangeable. *)
EXTENDS Billing, TLC

Symmetry == Permutations(Handlers) \cup Permutations(Admins)
=============================================================================
