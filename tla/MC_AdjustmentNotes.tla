------------------------- MODULE MC_AdjustmentNotes -------------------------
(* AdjustmentNotes for TLC: an invoice of two lines, worth 1 and 2, and the  *)
(* contents that make both ceilings bind.                                    *)
EXTENDS AdjustmentNotes, TLC

CONSTANTS a, b

MCLines == {a, b}
MCLineTotal == a :> 1 @@ b :> 2

Note(t, x, y, z) == [type |-> t, lines |-> (a :> x @@ b :> y), free |-> z]

MCContents == {Note("credit", 1, 0, 0), Note("credit", 1, 1, 0), Note("credit", 0, 0, 2),
               Note("debit", 0, 0, 2)}

Symmetry == Permutations(Notes) \cup Permutations(Requests)
=============================================================================
