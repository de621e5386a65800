------------------------------ MODULE JobLedger ------------------------------
(***************************************************************************)
(* What the job queue promises its callers, without leases, batches,       *)
(* sessions or polling: a submitted job is open until one worker holds it; *)
(* only its holder finishes or fails it; it is taken away only from a      *)
(* holder that is gone; each failure or loss counts, and MaxAttempts of    *)
(* them, or the holder's verdict, fail it for good.                        *)
(***************************************************************************)
EXTENDS Naturals

CONSTANTS Jobs, Workers, None, MaxAttempts

VARIABLES stage, holder, failures

lvars == <<stage, holder, failures>>

Init ==
    /\ stage = [j \in Jobs |-> "absent"]
    /\ holder = [j \in Jobs |-> None]
    /\ failures = [j \in Jobs |-> 0]

Submit(j) ==
    /\ stage[j] = "absent"
    /\ stage' = [stage EXCEPT ![j] = "open"]
    /\ UNCHANGED <<holder, failures>>

Take(w, j) ==
    /\ stage[j] = "open" /\ holder[j] = None
    /\ stage' = [stage EXCEPT ![j] = "held"]
    /\ holder' = [holder EXCEPT ![j] = w]
    /\ UNCHANGED failures

Finish(w, j) ==
    /\ stage[j] = "held" /\ holder[j] = w
    /\ stage' = [stage EXCEPT ![j] = "done"]
    /\ holder' = [holder EXCEPT ![j] = None]
    /\ UNCHANGED failures

Fail(w, j) ==
    /\ stage[j] = "held" /\ holder[j] = w
    /\ failures' = [failures EXCEPT ![j] = @ + 1]
    /\ \/ stage' = [stage EXCEPT ![j] = "failed"]
       \/ failures[j] + 1 < MaxAttempts /\ stage' = [stage EXCEPT ![j] = "open"]
    /\ holder' = [holder EXCEPT ![j] = None]

(* A worker is gone, and lets go of everything. *)
Vanish(w) ==
    /\ holder' = [j \in Jobs |-> IF holder[j] = w THEN None ELSE holder[j]]
    /\ UNCHANGED <<stage, failures>>

(* Work that nobody holds any more is put back, or given up. *)
Reclaim(S) ==
    /\ \A j \in S : stage[j] = "held" /\ holder[j] = None
    /\ failures' = [j \in Jobs |-> IF j \in S THEN failures[j] + 1 ELSE failures[j]]
    /\ stage' = [j \in Jobs |-> IF j \notin S THEN stage[j]
                                ELSE IF failures[j] + 1 >= MaxAttempts THEN "failed"
                                ELSE "open"]
    /\ UNCHANGED holder

Next ==
    \/ \E j \in Jobs : Submit(j)
    \/ \E w \in Workers, j \in Jobs : Take(w, j) \/ Finish(w, j) \/ Fail(w, j)
    \/ \E w \in Workers : Vanish(w)
    \/ \E S \in SUBSET Jobs : Reclaim(S)

Spec == Init /\ [][Next]_lvars
=============================================================================
