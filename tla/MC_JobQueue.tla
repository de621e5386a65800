----------------------------- MODULE MC_JobQueue -----------------------------
(* Instances of JobQueue for TLC: workers are interchangeable. *)
EXTENDS JobQueue, TLC

WorkerSymmetry == Permutations(Workers)
==============================================================================
