---------------------------- MODULE MC_WhatsApp ----------------------------
(* WhatsApp for TLC: proposals, messages, processes and browsers are each      *)
(* interchangeable.                                                            *)
EXTENDS WhatsApp, TLC

Symmetry ==
    Permutations(Actions) \cup Permutations(Messages)
        \cup Permutations(Processes) \cup Permutations(Requests \ Processes)
=============================================================================
