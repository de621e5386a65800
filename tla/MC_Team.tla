------------------------------ MODULE MC_Team ------------------------------
(* Requests are interchangeable, and so are the users apart from the founder. *)
EXTENDS Team, TLC

Symmetry == Permutations(Requests) \cup Permutations(Users \ {Founder})
=============================================================================
