------------------------- MODULE MC_QuoteLifecycle -------------------------
(* QuoteLifecycle for TLC: quotes and requests are interchangeable. *)
EXTENDS QuoteLifecycle, TLC

Symmetry == Permutations(Quotes) \cup Permutations(Requests)
=============================================================================
