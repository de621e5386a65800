--------------------------- MODULE JobQueueProofs ---------------------------
(***************************************************************************)
(* Proofs about JobQueue, for every set of jobs and workers and every      *)
(* bound.  Safety of ownership is proved for the queue as its comments     *)
(* assume it is run: a lease outlives its worker's batch.  What the table  *)
(* says of owners and finished rows, the budget of invocations and the     *)
(* refinement also assume that no administrator cancels a job.             *)
(***************************************************************************)
EXTENDS JobQueue, TLAPS

(* A worker that is inside run_claimed_job is working on some job: TypeOK is *)
(* not inductive without it.                                                 *)
BusyHasJob == \A w \in Workers : pc[w] \in Busy => cur[w] \in Jobs

TypeInv == TypeOK /\ BusyHasJob

(* The session state of an idle worker is typed. *)
LEMMA NoSnapTyped == NoSnap \in Snaps
BY DEF NoSnap, Snaps

(* An empty table, and workers between polls, satisfy the type invariant. *)
LEMMA TypeInvInit == Init => TypeInv
BY QueueConstants, NoSnapTyped
   DEF Init, TypeInv, TypeOK, BusyHasJob, Statuses, Places, Busy

(* What completing a job writes is typed. *)
LEMMA ResultTyped ==
    ASSUME NEW s \in Snaps PROVE ResultStatus(s) \in Statuses \ {"absent"}
BY DEF ResultStatus, Statuses, Terminal, Claimable

(* Every step of the queue preserves the type invariant. *)
LEMMA TypeInvNext == TypeInv /\ [Next]_vars => TypeInv'
<1> SUFFICES ASSUME TypeInv, [Next]_vars PROVE TypeInv'
  OBVIOUS
<1> USE DEF TypeInv, TypeOK, BusyHasJob
<1>1. ASSUME NEW j \in Jobs, Enqueue(j) PROVE TypeInv'
  BY <1>1 DEF Enqueue, wrk, Statuses, Claimable
<1>2. ASSUME NEW j \in Jobs, CancelCheck(j) \/ CancelCommit(j) PROVE TypeInv'
  BY <1>2 DEF CancelCheck, CancelCommit, row, wrk, Statuses, Terminal
<1>3. ASSUME NEW j \in Jobs, NEW k \in Jobs, AdminRetry(j, k) PROVE TypeInv'
  BY <1>3 DEF AdminRetry, wrk, Statuses, Claimable
<1>4. ASSUME NEW j \in Jobs, BecomeDue(j) \/ LeaseLapses(j) PROVE TypeInv'
  BY <1>4 DEF BecomeDue, LeaseLapses, wrk
<1>5. ASSUME NEW w \in Workers, Crash(w) PROVE TypeInv'
  BY <1>5, NoSnapTyped, QueueConstants DEF Crash, row, Places, Busy
<1>6. ASSUME NEW w \in Workers, Shutdown(w) \/ Restart(w) PROVE TypeInv'
  BY <1>6 DEF Shutdown, Restart, row, Places, Busy
<1>7. ASSUME NEW w \in Workers, Recover(w) PROVE TypeInv'
  BY <1>7 DEF Recover, Abandoned, RecoveredStatus, Statuses, Terminal, Claimable, Places, Busy
<1>8. ASSUME NEW w \in Workers, Scan(w) \/ EndClaim(w) PROVE TypeInv'
  BY <1>8 DEF Scan, EndClaim, row, Places, Busy
<1>9. ASSUME NEW w \in Workers, CallHandler(w) PROVE TypeInv'
  <2>1. pc[w] = "marked" /\ cur[w] \in Jobs
    BY <1>9 DEF CallHandler, Busy
  <2>2. snap' \in [Workers -> Snaps]
    BY <1>9, <2>1 DEF CallHandler, Snaps
  <2>3. QED
    BY <1>9, <2>1, <2>2 DEF CallHandler, row, Places, Busy
<1>10. ASSUME NEW w \in Workers, NEW o \in Outcomes, HandlerReturns(w, o) PROVE TypeInv'
  <2>1. pc[w] = "handling" /\ cur[w] \in Jobs
    BY <1>10 DEF HandlerReturns, Busy
  <2>2. snap' \in [Workers -> Snaps]
    BY <1>10, <2>1 DEF HandlerReturns, Snaps
  <2>3. QED
    BY <1>10, <2>1, <2>2 DEF HandlerReturns, row, Places, Busy
<1>11. ASSUME NEW w \in Workers, Complete(w) PROVE TypeInv'
  <2>1. pc[w] = "returned" /\ cur[w] \in Jobs /\ snap[w] \in Snaps
    BY <1>11 DEF Complete, Busy
  <2>2. status' \in [Jobs -> Statuses]
    BY <1>11, <2>1, ResultTyped DEF Complete, Flushed
  <2>3. attempts' \in [Jobs -> Nat]
    BY <1>11, <2>1 DEF Complete, Snaps
  <2>4. pc' \in [Workers -> Places] /\ cur' \in [Workers -> Jobs \cup {None}]
        /\ batch' \in [Workers -> SUBSET Jobs] /\ snap' \in [Workers -> Snaps]
    BY <1>11, NoSnapTyped DEF Complete, Places
  <2>5. claimedBy' \in [Jobs -> Workers \cup {None}] /\ lease' \in [Jobs -> {"none", "live", "lapsed"}]
        /\ due' \in [Jobs -> BOOLEAN]
    BY <1>11 DEF Complete
  <2>6. BusyHasJob'
    BY <1>11 DEF Complete, Busy
  <2>7. UNCHANGED <<cand, cancelling, runs, handled, outages>>
    BY <1>11 DEF Complete
  <2>8. QED
    BY <2>2, <2>3, <2>4, <2>5, <2>6, <2>7
<1>12. ASSUME NEW w \in Workers, NEW j \in Jobs, Claim(w, j) \/ LoseRace(w, j) PROVE TypeInv'
  <2>1. CASE Claim(w, j)
    <3>1. "claimed" \in Statuses /\ "claiming" \in Places
      BY DEF Statuses, Owned, Places
    <3>2. TypeOK'
      BY <2>1, <3>1 DEF Claim
    <3>3. QED
      BY <2>1, <3>2 DEF Claim, Busy
  <2>2. CASE LoseRace(w, j)
    BY <2>2 DEF LoseRace, row, Places, Busy
  <2>3. QED
    BY <1>12, <2>1, <2>2
<1>13. ASSUME NEW w \in Workers, NEW j \in Jobs, MarkStarted(w, j) PROVE TypeInv'
  BY <1>13 DEF MarkStarted, Statuses, Owned, Places, Busy
<1>14. CASE UNCHANGED vars
  BY <1>14 DEF vars, row, wrk
<1>15. QED
  BY <1>1, <1>2, <1>3, <1>4, <1>5, <1>6, <1>7, <1>8, <1>9, <1>10, <1>11, <1>12, <1>13, <1>14
     DEF Next, WorkerStep, AdminStep, Outage, Passage

(* Every variable keeps its type, whether or not leases lapse under live     *)
(* workers and administrators cancel.                                        *)
THEOREM TypeCorrect == Spec => []TypeOK
<1>1. TypeInv => TypeOK
  BY DEF TypeInv
<1>2. QED
  BY <1>1, TypeInvInit, TypeInvNext, PTL DEF Spec
-----------------------------------------------------------------------------
(* Ownership. *)

(* A worker's batch is empty until it claims; in it, the job being run is    *)
(* marked running and the others are still claimed.                          *)
Placement == \A w \in Workers :
    /\ pc[w] \in {"idle", "swept", "scanned", "down"} => batch[w] = {}
    /\ pc[w] \in Busy => cur[w] \in batch[w] /\ status[cur[w]] = "running"
    /\ \A j \in batch[w] : (pc[w] \in Busy /\ j = cur[w]) \/ status[j] = "claimed"

(* The inductive invariant of ownership.  OwnershipIsRecorded alone is not   *)
(* inductive: without Placement a completion could touch a row that is not   *)
(* in the worker's batch.                                                    *)
OwnerInv == TypeInv /\ cancelling = {} /\ Placement /\ OwnershipIsRecorded

(* Nobody owns anything at first. *)
LEMMA OwnerInvInit == Init => OwnerInv
BY TypeInvInit DEF Init, OwnerInv, Placement, OwnershipIsRecorded, Busy

(* A job is in one batch at most, because its row names one owner. *)
LEMMA OneBatch ==
    ASSUME OwnerInv, NEW v \in Workers, NEW w \in Workers, NEW j \in batch[v], j \in batch[w]
    PROVE  v = w
BY DEF OwnerInv, OwnershipIsRecorded

(* Every step keeps the table right about ownership: a claim takes a row    *)
(* nobody owns, and recovery takes none whose owner is alive.                *)
LEMMA OwnerInvNext ==
    ASSUME LeaseCoversBatch, ~AdminCancels
    PROVE  OwnerInv /\ [Next]_vars => OwnerInv'
<1> SUFFICES ASSUME OwnerInv, [Next]_vars PROVE OwnerInv'
  OBVIOUS
<1>t. TypeInv' /\ TypeInv
  BY TypeInvNext DEF OwnerInv
<1>q. ASSUME cancelling' = {}, Placement', OwnershipIsRecorded' PROVE OwnerInv'
  BY <1>t, <1>q DEF OwnerInv
<1> USE DEF Placement, OwnershipIsRecorded
<1>1. ASSUME NEW j \in Jobs, Enqueue(j) PROVE OwnerInv'
  BY <1>1, <1>t, <1>q DEF Enqueue, wrk, OwnerInv, TypeInv, TypeOK, Owned
<1>2. ASSUME NEW j \in Jobs, CancelCheck(j) \/ CancelCommit(j) PROVE OwnerInv'
  BY <1>2 DEF CancelCheck, CancelCommit, OwnerInv
<1>3. ASSUME NEW j \in Jobs, NEW k \in Jobs, AdminRetry(j, k) PROVE OwnerInv'
  BY <1>3, <1>t, <1>q DEF AdminRetry, wrk, OwnerInv, TypeInv, TypeOK, Owned
<1>4. ASSUME NEW j \in Jobs, BecomeDue(j) \/ LeaseLapses(j) PROVE OwnerInv'
  BY <1>4, <1>t, <1>q DEF BecomeDue, LeaseLapses, wrk, OwnerInv, TypeInv, TypeOK
<1>5. ASSUME NEW w \in Workers, Crash(w) PROVE OwnerInv'
  BY <1>5, <1>t, <1>q DEF Crash, row, Busy, OwnerInv, TypeInv, TypeOK
<1>6. ASSUME NEW w \in Workers, Shutdown(w) \/ Restart(w) PROVE OwnerInv'
  BY <1>6, <1>t, <1>q DEF Shutdown, Restart, row, Busy, OwnerInv, TypeInv, TypeOK
<1>7. ASSUME NEW w \in Workers, Recover(w) PROVE OwnerInv'
  <2>1. \A v \in Workers : \A j \in batch[v] : j \in Jobs /\ j \notin Abandoned
    BY <1>t DEF Abandoned, OwnerInv, TypeInv, TypeOK
  <2>2. \A v \in Workers : \A j \in batch[v] :
          status'[j] = status[j] /\ claimedBy'[j] = claimedBy[j] /\ lease'[j] = lease[j]
    BY <1>7, <2>1 DEF Recover
  <2>6. batch' = batch /\ cur' = cur /\ cancelling' = cancelling
        /\ pc[w] = "idle" /\ pc' = [pc EXCEPT ![w] = "swept"]
    BY <1>7 DEF Recover
  <2>3. cancelling' = {} /\ OwnershipIsRecorded'
    BY <2>2, <2>6 DEF OwnerInv
  <2>4. Placement'
    BY <2>2, <2>6, <1>t DEF OwnerInv, TypeInv, TypeOK, Busy
  <2>5. QED
    BY <2>3, <2>4, <1>q
<1>8. ASSUME NEW w \in Workers, Scan(w) \/ EndClaim(w) PROVE OwnerInv'
  BY <1>8, <1>t, <1>q DEF Scan, EndClaim, row, Busy, OwnerInv, TypeInv, TypeOK
<1>9. ASSUME NEW w \in Workers, CallHandler(w) PROVE OwnerInv'
  BY <1>9, <1>t, <1>q DEF CallHandler, row, Busy, OwnerInv, TypeInv, TypeOK
<1>10. ASSUME NEW w \in Workers, NEW o \in Outcomes, HandlerReturns(w, o) PROVE OwnerInv'
  BY <1>10, <1>t, <1>q DEF HandlerReturns, row, Busy, OwnerInv, TypeInv, TypeOK
<1>11. ASSUME NEW w \in Workers, Complete(w) PROVE OwnerInv'
  <2>1. pc[w] = "returned" /\ cur[w] \in batch[w]
    BY <1>11 DEF Complete, OwnerInv, Busy
  <2>2. \A v \in Workers : batch'[v] = batch[v] \ {cur[w]}
    BY <1>11, <1>t, <2>1, OneBatch DEF Complete, TypeInv, TypeOK
  <2>3. \A j \in Jobs \ {cur[w]} :
          status'[j] = status[j] /\ claimedBy'[j] = claimedBy[j] /\ lease'[j] = lease[j]
    BY <1>11, <1>t DEF Complete, TypeInv, TypeOK
  <2>4. \A v \in Workers : batch[v] \subseteq Jobs
    BY <1>t DEF TypeInv, TypeOK
  <2>5. OwnershipIsRecorded'
    BY <2>2, <2>3, <2>4 DEF OwnerInv
  <2>6. cancelling' = {}
    BY <1>11 DEF Complete, OwnerInv
  <2>7. \A v \in Workers \ {w} : pc'[v] = pc[v] /\ cur'[v] = cur[v]
    BY <1>11, <1>t DEF Complete, TypeInv, TypeOK
  <2>8. pc'[w] = IF batch[w] = {cur[w]} THEN "idle" ELSE "batch"
    BY <1>11, <1>t DEF Complete, TypeInv, TypeOK
  <2>9. ASSUME NEW v \in Workers, v # w, pc[v] \in Busy
        PROVE  cur[v] \in Jobs /\ cur[v] # cur[w]
    BY <2>1, <2>9, <2>4, OneBatch DEF OwnerInv
  <2>10. Placement'
    BY <2>1, <2>2, <2>3, <2>4, <2>7, <2>8, <2>9 DEF OwnerInv, Busy
  <2>11. QED
    BY <2>5, <2>6, <2>10, <1>q
<1>12. ASSUME NEW w \in Workers, NEW j \in Jobs, Claim(w, j) PROVE OwnerInv'
  <2>1. \A v \in Workers : j \notin batch[v]
    BY <1>12 DEF Claim, CanClaim, Available, Claimable, Owned, OwnerInv
  <2>2. QED
    BY <1>12, <2>1, <1>t, <1>q
       DEF Claim, Claiming, Busy, Owned, OwnerInv, TypeInv, TypeOK
<1>13. ASSUME NEW w \in Workers, NEW j \in Jobs, LoseRace(w, j) PROVE OwnerInv'
  BY <1>13, <1>t, <1>q DEF LoseRace, Claiming, row, Busy, OwnerInv, TypeInv, TypeOK
<1>14. ASSUME NEW w \in Workers, NEW j \in Jobs, MarkStarted(w, j) PROVE OwnerInv'
  <2>1. \A v \in Workers \ {w} : j \notin batch[v]
    BY <1>14, OneBatch DEF MarkStarted
  <2>2. pc[w] = "batch" /\ j \in batch[w]
    BY <1>14 DEF MarkStarted
  <2>3. cancelling' = {} /\ OwnershipIsRecorded'
    BY <1>14, <1>t DEF MarkStarted, Owned, OwnerInv, TypeInv, TypeOK
  <2>4. Placement'
    BY <1>14, <2>1, <2>2, <1>t DEF MarkStarted, Busy, OwnerInv, TypeInv, TypeOK
  <2>5. QED
    BY <2>3, <2>4, <1>q
<1>15. CASE UNCHANGED vars
  BY <1>15, <1>t, <1>q DEF vars, row, wrk, OwnerInv
<1>16. QED
  BY <1>1, <1>2, <1>3, <1>4, <1>5, <1>6, <1>7, <1>8, <1>9, <1>10, <1>11, <1>12, <1>13, <1>14,
     <1>15 DEF Next, WorkerStep, AdminStep, Outage, Passage

(* While leases cover batches and nobody cancels, a job in a live worker's   *)
(* batch is owned by it in the table, under a lease that has not passed.     *)
THEOREM OwnershipRecorded ==
    ASSUME LeaseCoversBatch, ~AdminCancels
    PROVE  Spec => []OwnershipIsRecorded
<1>1. OwnerInv => OwnershipIsRecorded
  BY DEF OwnerInv
<1>2. OwnerInv /\ [Next]_vars => OwnerInv'
  BY OwnerInvNext
<1>3. QED
  BY <1>1, <1>2, OwnerInvInit, PTL DEF Spec

(* A terminal row belongs to no batch and carries no claim, so nothing that  *)
(* writes rows reaches it.                                                   *)
THEOREM TerminalFinal ==
    ASSUME LeaseCoversBatch, ~AdminCancels
    PROVE  Spec => TerminalIsFinal
<1> DEFINE Kept == \A j \in Jobs : status[j] \in Terminal =>
                       status'[j] = status[j] /\ attempts'[j] = attempts[j]
<1>1. OwnerInv /\ [Next]_vars => Kept
  <2> SUFFICES ASSUME OwnerInv, [Next]_vars, NEW t \in Jobs, status[t] \in Terminal
               PROVE  status'[t] = status[t] /\ attempts'[t] = attempts[t]
    OBVIOUS
  <2> USE DEF OwnerInv, TypeInv, TypeOK, Terminal
  <2>1. \A w \in Workers : t \notin batch[w]
    BY DEF OwnershipIsRecorded, Owned
  <2>2. ASSUME NEW j \in Jobs, Enqueue(j) \/ BecomeDue(j) \/ LeaseLapses(j)
        PROVE  status'[t] = status[t] /\ attempts'[t] = attempts[t]
    BY <2>2 DEF Enqueue, BecomeDue, LeaseLapses
  <2>3. ASSUME NEW j \in Jobs, CancelCheck(j) \/ CancelCommit(j) \/ \E k \in Jobs : AdminRetry(j, k)
        PROVE  status'[t] = status[t] /\ attempts'[t] = attempts[t]
    BY <2>3 DEF CancelCheck, CancelCommit, AdminRetry, row
  <2>4. ASSUME NEW w \in Workers, Outage(w)
        PROVE  status'[t] = status[t] /\ attempts'[t] = attempts[t]
    BY <2>4 DEF Outage, Crash, Shutdown, Restart, row
  <2>5. ASSUME NEW w \in Workers, Recover(w)
        PROVE  status'[t] = status[t] /\ attempts'[t] = attempts[t]
    <3>1. t \notin Abandoned
      BY DEF Abandoned, Owned
    <3>2. QED
      BY <2>5, <3>1 DEF Recover
  <2>6. ASSUME NEW w \in Workers, Complete(w)
        PROVE  status'[t] = status[t] /\ attempts'[t] = attempts[t]
    <3>1. cur[w] \in batch[w]
      BY <2>6 DEF Complete, Placement, Busy
    <3>2. QED
      BY <2>1, <2>6, <3>1 DEF Complete
  <2>7. ASSUME NEW w \in Workers, NEW j \in Jobs, Claim(w, j) \/ MarkStarted(w, j)
        PROVE  status'[t] = status[t] /\ attempts'[t] = attempts[t]
    BY <2>1, <2>7 DEF Claim, CanClaim, Available, Claimable, MarkStarted
  <2>8. ASSUME NEW w \in Workers,
               Scan(w) \/ EndClaim(w) \/ CallHandler(w) \/ (\E j \in Jobs : LoseRace(w, j))
               \/ \E o \in Outcomes : HandlerReturns(w, o)
        PROVE  status'[t] = status[t] /\ attempts'[t] = attempts[t]
    BY <2>8 DEF Scan, EndClaim, CallHandler, LoseRace, HandlerReturns, row
  <2>9. CASE UNCHANGED vars
    BY <2>9 DEF vars, row
  <2>10. QED
    BY <2>2, <2>3, <2>4, <2>5, <2>6, <2>7, <2>8, <2>9
       DEF Next, WorkerStep, AdminStep, Passage
<1>2. OwnerInv /\ [Next]_vars => OwnerInv'
  BY OwnerInvNext
<1>3. OwnerInv /\ [Next]_vars => [Kept]_vars
  BY <1>1
<1>4. Spec => [][Kept]_vars
  BY <1>2, <1>3, OwnerInvInit, PTL DEF Spec
<1>5. QED
  BY <1>4 DEF TerminalIsFinal

-----------------------------------------------------------------------------
(* Holding a job, administrators' cancels included.  A cancel writes the     *)
(* status alone, whatever the row is by then, so a held row may say          *)
(* cancelled; claimed_by and the lease still tell the truth.                 *)
Held == \A w \in Workers : \A j \in batch[w] :
    status[j] \in Owned \cup {"cancelled"} /\ claimedBy[j] = w /\ lease[j] = "live"

(* A worker inside run_claimed_job has that job in its batch, and loaded its *)
(* row with an owner and a status that no result of complete_job equals.     *)
Loaded(s) == s.status \in Owned \cup {"cancelled", "unloaded"} /\ s.owned

Sessions == \A w \in Workers :
    /\ pc[w] \in Busy => cur[w] \in batch[w]
    /\ pc[w] \in {"handling", "returned"} => Loaded(snap[w])
    /\ pc[w] = "returned" => snap[w].outcome \in Outcomes

(* Neither ExclusiveOwnership nor AbandonedIsRecoverable is inductive: the    *)
(* first needs the claim each batch was taken by, the second that completing *)
(* a row, which clears its lease, also takes it out of claimed and running.  *)
HeldInv == TypeInv /\ Held /\ Sessions /\ \A j \in Jobs : status[j] \in Owned => lease[j] # "none"

(* A row loaded with an owner, and with no result of complete_job, is such.  *)
LEMMA LoadedWhen ==
    ASSUME NEW s \in Owned \cup {"cancelled", "unloaded"}, NEW a, NEW b \in BOOLEAN, b
    PROVE  Loaded([status |-> s, attempts |-> a, owned |-> b, outcome |-> "none"])
BY DEF Loaded

(* Nobody holds anything at first. *)
LEMMA HeldInvInit == Init => HeldInv
BY TypeInvInit DEF Init, HeldInv, Held, Sessions, Busy, Owned

(* Every step keeps claims, batches and leases together: a claim takes a row *)
(* of no batch, recovery takes none that is held, and a completed row is     *)
(* neither claimed nor running.                                              *)
LEMMA HeldInvNext ==
    ASSUME LeaseCoversBatch
    PROVE  HeldInv /\ [Next]_vars => HeldInv'
<1> SUFFICES ASSUME HeldInv, [Next]_vars PROVE HeldInv'
  OBVIOUS
<1>t. TypeInv' /\ TypeInv
  BY TypeInvNext DEF HeldInv
<1> DEFINE Leased == \A j \in Jobs : status[j] \in Owned => lease[j] # "none"
<1>q. ASSUME Held', Sessions', Leased' PROVE HeldInv'
  BY <1>t, <1>q DEF HeldInv
<1>o. ASSUME NEW v \in Workers, NEW w \in Workers, NEW j \in batch[v], j \in batch[w] PROVE v = w
  BY <1>o DEF HeldInv, Held
<1> USE DEF Held, Sessions, HeldInv, TypeInv, TypeOK, Owned, Busy
<1>1. ASSUME NEW j \in Jobs, Enqueue(j) PROVE HeldInv'
  BY <1>1, <1>t, <1>q DEF Enqueue, wrk
<1>2. ASSUME NEW j \in Jobs, CancelCheck(j) \/ CancelCommit(j) PROVE HeldInv'
  BY <1>2, <1>t, <1>q DEF CancelCheck, CancelCommit, row, wrk
<1>3. ASSUME NEW j \in Jobs, NEW k \in Jobs, AdminRetry(j, k) PROVE HeldInv'
  BY <1>3, <1>t, <1>q DEF AdminRetry, wrk
<1>4. ASSUME NEW j \in Jobs, BecomeDue(j) \/ LeaseLapses(j) PROVE HeldInv'
  BY <1>4, <1>t, <1>q DEF BecomeDue, LeaseLapses, wrk
<1>5. ASSUME NEW w \in Workers, Outage(w) PROVE HeldInv'
  BY <1>5, <1>t, <1>q DEF Outage, Crash, Shutdown, Restart, row
<1>6. ASSUME NEW w \in Workers, Recover(w) PROVE HeldInv'
  <2>1. \A v \in Workers : \A j \in batch[v] : j \in Jobs /\ j \notin Abandoned
    BY <1>t DEF Abandoned
  <2>2. \A j \in Jobs \ Abandoned :
          status'[j] = status[j] /\ claimedBy'[j] = claimedBy[j] /\ lease'[j] = lease[j]
    BY <1>6 DEF Recover
  <2>3. \A j \in Abandoned : j \in Jobs /\ status'[j] \notin Owned
    BY <1>6 DEF Recover, RecoveredStatus, Abandoned
  <2>4. batch' = batch /\ cur' = cur /\ snap' = snap
        /\ pc[w] = "idle" /\ pc' = [pc EXCEPT ![w] = "swept"]
    BY <1>6 DEF Recover
  <2>5. Held' /\ Leased'
    BY <2>1, <2>2, <2>3, <2>4
  <2>6. Sessions'
    BY <2>4, <1>t
  <2>7. QED
    BY <2>5, <2>6, <1>q
<1>7. ASSUME NEW w \in Workers, Scan(w) \/ EndClaim(w) PROVE HeldInv'
  BY <1>7, <1>t, <1>q DEF Scan, EndClaim, row
<1>8. ASSUME NEW w \in Workers, CallHandler(w) PROVE HeldInv'
  <2>1. pc[w] = "marked" /\ cur[w] \in batch[w] /\ cur[w] \in Jobs
    BY <1>8, <1>t DEF CallHandler
  <2>2. claimedBy[cur[w]] # None /\ status[cur[w]] \in Owned \cup {"cancelled"}
    BY <2>1, QueueConstants
  <2>3. Loaded(snap[w])'
    <3>1. (claimedBy[cur[w]] # None) \in BOOLEAN
      OBVIOUS
    <3>2. Loaded([status |-> status[cur[w]], attempts |-> attempts[cur[w]],
                  owned |-> claimedBy[cur[w]] # None, outcome |-> "none"])
      BY <2>2, <3>1, LoadedWhen
    <3>3. snap'[w] = [status |-> status[cur[w]], attempts |-> attempts[cur[w]],
                      owned |-> claimedBy[cur[w]] # None, outcome |-> "none"]
      BY <1>8, <1>t DEF CallHandler
    <3>4. QED
      BY <3>2, <3>3
  <2>4. status' = status /\ claimedBy' = claimedBy /\ lease' = lease /\ batch' = batch
        /\ cur' = cur /\ pc' = [pc EXCEPT ![w] = "handling"]
        /\ \A v \in Workers \ {w} : snap'[v] = snap[v]
    BY <1>8, <1>t DEF CallHandler, row
  <2>5. Held' /\ Leased'
    BY <2>4
  <2>6. Sessions'
    BY <2>1, <2>3, <2>4, <1>t
  <2>7. QED
    BY <2>5, <2>6, <1>q
<1>9. ASSUME NEW w \in Workers, NEW o \in Outcomes, HandlerReturns(w, o) PROVE HeldInv'
  <2>0. Loaded(snap[w])'
    BY <1>9, <1>t DEF HandlerReturns, Loaded
  <2>1. snap'[w].outcome = o /\ \A v \in Workers \ {w} : snap'[v] = snap[v]
    BY <1>9, <1>t DEF HandlerReturns
  <2>2. status' = status /\ claimedBy' = claimedBy /\ lease' = lease /\ batch' = batch
        /\ cur' = cur /\ pc[w] = "handling" /\ pc' = [pc EXCEPT ![w] = "returned"]
    BY <1>9 DEF HandlerReturns, row
  <2>3. Held' /\ Leased'
    BY <2>2
  <2>4. Sessions'
    BY <2>0, <2>1, <2>2, <1>t
  <2>5. QED
    BY <2>3, <2>4, <1>q
<1>10. ASSUME NEW w \in Workers, Complete(w) PROVE HeldInv'
  <2>0. PICK c \in Jobs : c = cur[w]
    BY <1>10, <1>t DEF Complete, BusyHasJob
  <2>1. c \in batch[w] /\ Loaded(snap[w])
        /\ snap[w].outcome \in Outcomes /\ pc[w] = "returned"
    BY <1>10, <2>0 DEF Complete
  <2>2. status'[c] = ResultStatus(snap[w]) /\ status'[c] \notin Owned
    BY <1>10, <1>t, <2>0, <2>1 DEF Complete, Flushed, ResultStatus, Loaded
  <2>3. \A j \in Jobs \ {c} :
          status'[j] = status[j] /\ claimedBy'[j] = claimedBy[j] /\ lease'[j] = lease[j]
    BY <1>10, <1>t, <2>0 DEF Complete
  <2>4. \A v \in Workers : batch'[v] = batch[v] \ {c} /\ batch[v] \subseteq Jobs
    BY <1>10, <1>t, <2>0, <2>1, <1>o DEF Complete
  <2>5. /\ \A v \in Workers \ {w} : pc'[v] = pc[v] /\ cur'[v] = cur[v] /\ snap'[v] = snap[v]
        /\ pc'[w] \in {"idle", "batch"}
    BY <1>10, <1>t DEF Complete
  <2>6. \A v \in Workers \ {w} : pc[v] \in Busy => cur[v] # c
    BY <2>1, <1>o
  <2>7. Held' /\ Leased'
    BY <2>2, <2>3, <2>4
  <2>8. Sessions'
    BY <2>4, <2>5, <2>6
  <2>9. QED
    BY <2>7, <2>8, <1>q
<1>11. ASSUME NEW w \in Workers, NEW j \in Jobs, Claim(w, j) PROVE HeldInv'
  <2>1. \A v \in Workers : j \notin batch[v]
    BY <1>11 DEF Claim, CanClaim, Available, Claimable
  <2>2. QED
    BY <1>11, <2>1, <1>t, <1>q DEF Claim, Claiming
<1>12. ASSUME NEW w \in Workers, NEW j \in Jobs, LoseRace(w, j) PROVE HeldInv'
  BY <1>12, <1>t, <1>q DEF LoseRace, Claiming, row
<1>13. ASSUME NEW w \in Workers, NEW j \in Jobs, MarkStarted(w, j) PROVE HeldInv'
  BY <1>13, <1>t, <1>q DEF MarkStarted
<1>14. CASE UNCHANGED vars
  BY <1>14, <1>t, <1>q DEF vars, row, wrk
<1>15. QED
  BY <1>1, <1>2, <1>3, <1>4, <1>5, <1>6, <1>7, <1>8, <1>9, <1>10, <1>11, <1>12, <1>13, <1>14
     DEF Next, WorkerStep, AdminStep, Passage

(* No two workers hold the same job, cancels included, while a lease outlives *)
(* its worker's batch ...                                                    *)
THEOREM ExclusiveOwner ==
    ASSUME LeaseCoversBatch
    PROVE  Spec => []ExclusiveOwnership
<1>1. HeldInv => ExclusiveOwnership
  BY DEF HeldInv, Held, ExclusiveOwnership
<1>2. HeldInv /\ [Next]_vars => HeldInv'
  BY HeldInvNext
<1>3. QED
  BY <1>1, <1>2, HeldInvInit, PTL DEF Spec

(* ... and a row whose owner is gone carries the lease recovery needs.       *)
THEOREM AbandonedRecoverable ==
    ASSUME LeaseCoversBatch
    PROVE  Spec => []AbandonedIsRecoverable
<1>1. HeldInv => AbandonedIsRecoverable
  BY DEF HeldInv, AbandonedIsRecoverable
<1>2. HeldInv /\ [Next]_vars => HeldInv'
  BY HeldInvNext
<1>3. QED
  BY <1>1, <1>2, HeldInvInit, PTL DEF Spec
-----------------------------------------------------------------------------
(* Success.  A worker that is about to report success has had the job's      *)
(* handler succeed.                                                          *)
Reported == \A w \in Workers :
    pc[w] = "returned" /\ snap[w].outcome = "succeeded" => cur[w] \in handled

SuccessInv == TypeInv /\ Reported /\ SuccessWasHandled

(* Only Complete writes succeeded, and only over an outcome that says so:    *)
(* with or without lapsing leases and cancels.                               *)
LEMMA SuccessInvNext == SuccessInv /\ [Next]_vars => SuccessInv'
<1> SUFFICES ASSUME SuccessInv, [Next]_vars PROVE Reported' /\ SuccessWasHandled'
  BY TypeInvNext DEF SuccessInv
<1>t. TypeInv' /\ TypeInv
  BY TypeInvNext DEF SuccessInv
<1> USE DEF SuccessInv, Reported, SuccessWasHandled, TypeInv, TypeOK
<1>1. ASSUME NEW j \in Jobs, Enqueue(j) \/ BecomeDue(j) \/ LeaseLapses(j)
      PROVE  Reported' /\ SuccessWasHandled'
  BY <1>1, <1>t DEF Enqueue, BecomeDue, LeaseLapses, wrk
<1>2. ASSUME NEW j \in Jobs, AdminStep(j) PROVE Reported' /\ SuccessWasHandled'
  BY <1>2, <1>t DEF AdminStep, CancelCheck, CancelCommit, AdminRetry, row, wrk
<1>3. ASSUME NEW w \in Workers, Outage(w) PROVE Reported' /\ SuccessWasHandled'
  BY <1>3, <1>t DEF Outage, Crash, Shutdown, Restart, row
<1>4. ASSUME NEW w \in Workers, Recover(w) PROVE Reported' /\ SuccessWasHandled'
  BY <1>4, <1>t DEF Recover, RecoveredStatus
<1>5. ASSUME NEW w \in Workers, Scan(w) \/ EndClaim(w) PROVE Reported' /\ SuccessWasHandled'
  BY <1>5, <1>t DEF Scan, EndClaim, row
<1>6. ASSUME NEW w \in Workers, CallHandler(w) PROVE Reported' /\ SuccessWasHandled'
  BY <1>6, <1>t DEF CallHandler, row
<1>7. ASSUME NEW w \in Workers, NEW o \in Outcomes, HandlerReturns(w, o)
      PROVE  Reported' /\ SuccessWasHandled'
  <2>1. snap'[w].outcome = o /\ \A v \in Workers \ {w} : snap'[v] = snap[v]
    BY <1>7, <1>t DEF HandlerReturns
  <2>2. handled' = IF o = "succeeded" THEN handled \cup {cur[w]} ELSE handled
    BY <1>7 DEF HandlerReturns
  <2>3. status' = status /\ cur' = cur /\ \A v \in Workers \ {w} : pc'[v] = pc[v]
    BY <1>7, <1>t DEF HandlerReturns, row
  <2>4. QED
    BY <2>1, <2>2, <2>3
<1>8. ASSUME NEW w \in Workers, Complete(w) PROVE Reported' /\ SuccessWasHandled'
  <2>0. PICK c \in Jobs : c = cur[w]
    BY <1>8, <1>t DEF Complete, BusyHasJob, Busy
  <2>1. status'[c] = status[c]
        \/ status'[c] = ResultStatus(snap[w])
    BY <1>8, <1>t, <2>0 DEF Complete, Flushed
  <2>2. ResultStatus(snap[w]) = "succeeded" => c \in handled
    BY <1>8, <2>0 DEF Complete, ResultStatus
  <2>3. handled' = handled /\ \A j \in Jobs \ {c} : status'[j] = status[j]
    BY <1>8, <1>t, <2>0 DEF Complete
  <2>4. SuccessWasHandled'
    BY <2>1, <2>2, <2>3
  <2>5. \A v \in Workers \ {w} : pc'[v] = pc[v] /\ cur'[v] = cur[v] /\ snap'[v] = snap[v]
    BY <1>8, <1>t DEF Complete
  <2>6. pc'[w] \in {"idle", "batch"}
    BY <1>8, <1>t DEF Complete
  <2>7. QED
    BY <2>3, <2>4, <2>5, <2>6
<1>9. ASSUME NEW w \in Workers, NEW j \in Jobs, Claim(w, j) \/ LoseRace(w, j) \/ MarkStarted(w, j)
      PROVE  Reported' /\ SuccessWasHandled'
  BY <1>9, <1>t DEF Claim, LoseRace, MarkStarted, row
<1>10. CASE UNCHANGED vars
  BY <1>10 DEF vars, row, wrk
<1>11. QED
  BY <1>1, <1>2, <1>3, <1>4, <1>5, <1>6, <1>7, <1>8, <1>9, <1>10 DEF Next, WorkerStep, Passage

(* A row that says succeeded had its handler succeed, whether or not leases  *)
(* lapse under live workers and administrators cancel.                       *)
THEOREM SuccessHandled == Spec => []SuccessWasHandled
<1>1. Init => SuccessInv
  BY TypeInvInit DEF Init, SuccessInv, Reported, SuccessWasHandled
<1>2. SuccessInv => SuccessWasHandled
  BY DEF SuccessInv
<1>3. QED
  BY <1>1, <1>2, SuccessInvNext, PTL DEF Spec
-----------------------------------------------------------------------------
(* The budget of handler invocations. *)

(* Each handler invocation is paid for by an attempt, but for the one in     *)
(* progress or the one that succeeded; and what a session holds of the row   *)
(* it is about to complete is still what the table says.                     *)
Accurate(s, j) == s.attempts = attempts[j] /\ s.status \in {"running", "unloaded"} /\ s.owned

Budget ==
    /\ \A j \in Jobs :
         /\ attempts[j] <= MaxAttempts
         /\ status[j] # "permanently_failed" => attempts[j] < MaxAttempts
         /\ status[j] \in {"running", "succeeded"} => runs[j] <= attempts[j] + 1
         /\ status[j] \notin {"running", "succeeded"} => runs[j] <= attempts[j]
    /\ \A w \in Workers :
         /\ pc[w] = "marked" => runs[cur[w]] <= attempts[cur[w]]
         /\ pc[w] \in {"handling", "returned"} => Accurate(snap[w], cur[w])
         /\ pc[w] = "returned" => snap[w].outcome \in Outcomes

BudgetInv == OwnerInv /\ Budget

(* No handler has run at first. *)
LEMMA BudgetInvInit == Init => BudgetInv
BY OwnerInvInit, QueueConstants DEF BudgetInv, Budget, Init

(* Every handler invocation is paid for by an attempt, counted when the job  *)
(* completes or is recovered.                                                *)
LEMMA BudgetInvNext ==
    ASSUME LeaseCoversBatch, ~AdminCancels
    PROVE  BudgetInv /\ [Next]_vars => BudgetInv'
<1> SUFFICES ASSUME BudgetInv, [Next]_vars PROVE Budget'
  BY OwnerInvNext DEF BudgetInv
<1>t. TypeInv /\ TypeInv' /\ Placement /\ OwnershipIsRecorded /\ OwnerInv
  BY TypeInvNext DEF BudgetInv, OwnerInv
<1>m. MaxAttempts \in Nat \ {0}
  BY QueueConstants
<1> USE DEF BudgetInv, Budget, Accurate, TypeInv, TypeOK, BusyHasJob
<1>1. ASSUME NEW j \in Jobs, Enqueue(j) PROVE Budget'
  BY <1>1, <1>t DEF Enqueue, wrk
<1>2. ASSUME NEW j \in Jobs, CancelCheck(j) \/ CancelCommit(j) PROVE Budget'
  BY <1>2 DEF CancelCheck, CancelCommit, OwnerInv
<1>3. ASSUME NEW j \in Jobs, NEW k \in Jobs, AdminRetry(j, k) PROVE Budget'
  BY <1>3, <1>t DEF AdminRetry, wrk
<1>4. ASSUME NEW j \in Jobs, BecomeDue(j) \/ LeaseLapses(j) PROVE Budget'
  BY <1>4, <1>t DEF BecomeDue, LeaseLapses, wrk
<1>5. ASSUME NEW w \in Workers, Outage(w) PROVE Budget'
  BY <1>5, <1>t DEF Outage, Crash, Shutdown, Restart, row
<1>7. ASSUME NEW w \in Workers, Recover(w) PROVE Budget'
  <2>1. \A v \in Workers : \A j \in batch[v] : j \in Jobs /\ j \notin Abandoned
    BY <1>t DEF Abandoned, OwnershipIsRecorded
  <2>2. \A j \in Jobs : /\ j \notin Abandoned => attempts'[j] = attempts[j] /\ status'[j] = status[j]
                        /\ j \in Abandoned => /\ attempts'[j] = attempts[j] + 1
                                             /\ status'[j] = RecoveredStatus(j)
    BY <1>7 DEF Recover
  <2>3. runs' = runs /\ cur' = cur /\ snap' = snap /\ pc[w] = "idle"
        /\ pc' = [pc EXCEPT ![w] = "swept"]
    BY <1>7 DEF Recover
  <2>4. \A j \in Abandoned : status[j] \in Owned
    BY DEF Abandoned
  <2>5. ASSUME NEW j \in Jobs
        PROVE  /\ attempts'[j] <= MaxAttempts
               /\ status'[j] # "permanently_failed" => attempts'[j] < MaxAttempts
               /\ status'[j] \in {"running", "succeeded"} => runs'[j] <= attempts'[j] + 1
               /\ status'[j] \notin {"running", "succeeded"} => runs'[j] <= attempts'[j]
    BY <2>2, <2>3, <2>4, <1>t, <1>m DEF RecoveredStatus, Owned
  <2>6. ASSUME NEW v \in Workers
        PROVE  /\ pc'[v] = "marked" => runs'[cur'[v]] <= attempts'[cur'[v]]
               /\ pc'[v] \in {"handling", "returned"} => Accurate(snap[v], cur[v])'
               /\ pc'[v] = "returned" => snap'[v].outcome \in Outcomes
    BY <2>1, <2>2, <2>3, <1>t DEF Placement, Busy
  <2>7. QED
    BY <2>5, <2>6
<1>8. ASSUME NEW w \in Workers, Scan(w) \/ EndClaim(w) PROVE Budget'
  BY <1>8, <1>t DEF Scan, EndClaim, row
<1>9. ASSUME NEW w \in Workers, CallHandler(w) PROVE Budget'
  <2>1. cur[w] \in batch[w] /\ status[cur[w]] = "running" /\ cur[w] \in Jobs
    BY <1>9, <1>t DEF CallHandler, Placement, Busy
  <2>2. \A v \in Workers \ {w} : pc[v] \in Busy => cur[v] # cur[w]
    BY <2>1, <1>t, OneBatch DEF Placement
  <2>3. claimedBy[cur[w]] # None
    BY <2>1, <1>t, QueueConstants DEF OwnershipIsRecorded
  <2>4. Accurate(snap[w], cur[w])'
    BY <1>9, <1>t, <2>1, <2>3 DEF CallHandler, row
  <2>5. pc[w] = "marked" /\ pc' = [pc EXCEPT ![w] = "handling"]
        /\ runs' = [runs EXCEPT ![cur[w]] = @ + 1] /\ runs[cur[w]] <= attempts[cur[w]]
        /\ attempts' = attempts /\ status' = status /\ cur' = cur
        /\ \A v \in Workers \ {w} : snap'[v] = snap[v]
    BY <1>9, <1>t DEF CallHandler, row
  <2>6. QED
    BY <1>t, <2>1, <2>2, <2>4, <2>5 DEF Busy
<1>10. ASSUME NEW w \in Workers, NEW o \in Outcomes, HandlerReturns(w, o) PROVE Budget'
  BY <1>10, <1>t DEF HandlerReturns, row, Busy
<1>11. ASSUME NEW w \in Workers, Complete(w) PROVE Budget'
  <2>1. pc[w] = "returned" /\ cur[w] \in batch[w] /\ status[cur[w]] = "running" /\ cur[w] \in Jobs
        /\ Accurate(snap[w], cur[w]) /\ snap[w].outcome \in Outcomes
    BY <1>11, <1>t DEF Complete, Placement, Busy
  <2>2. \A v \in Workers \ {w} : pc[v] \in Busy => cur[v] # cur[w]
    BY <2>1, <1>t, OneBatch DEF Placement
  <2>3. \A j \in Jobs \ {cur[w]} : status'[j] = status[j] /\ attempts'[j] = attempts[j]
    BY <1>11, <1>t DEF Complete
  <2>4. /\ attempts'[cur[w]] = IF snap[w].outcome = "succeeded" THEN attempts[cur[w]]
                                                             ELSE attempts[cur[w]] + 1
        /\ status'[cur[w]] = ResultStatus(snap[w])
    BY <1>11, <1>t, <2>1 DEF Complete, Flushed, ResultStatus
  <2>5. runs' = runs /\ pc'[w] \in {"idle", "batch"}
        /\ \A v \in Workers \ {w} : pc'[v] = pc[v] /\ cur'[v] = cur[v] /\ snap'[v] = snap[v]
    BY <1>11, <1>t DEF Complete
  <2>6. ASSUME NEW j \in Jobs
        PROVE  /\ attempts'[j] <= MaxAttempts
               /\ status'[j] # "permanently_failed" => attempts'[j] < MaxAttempts
               /\ status'[j] \in {"running", "succeeded"} => runs'[j] <= attempts'[j] + 1
               /\ status'[j] \notin {"running", "succeeded"} => runs'[j] <= attempts'[j]
    <3>1. CASE j # cur[w]
      BY <3>1, <2>3, <2>5, <1>t
    <3>2. CASE j = cur[w]
      <4>1. runs[j] <= attempts[j] + 1 /\ attempts[j] + 1 <= MaxAttempts
            /\ attempts[j] \in Nat /\ runs[j] \in Nat
        BY <3>2, <2>1, <1>t, <1>m
      <4>2. QED
        BY <3>2, <4>1, <2>1, <2>4, <2>5, <1>m DEF ResultStatus, Outcomes
    <3>3. QED
      BY <3>1, <3>2
  <2>7. ASSUME NEW v \in Workers
        PROVE  /\ pc'[v] = "marked" => runs'[cur'[v]] <= attempts'[cur'[v]]
               /\ pc'[v] \in {"handling", "returned"} => Accurate(snap[v], cur[v])'
               /\ pc'[v] = "returned" => snap'[v].outcome \in Outcomes
    BY <2>2, <2>3, <2>5, <1>t DEF Busy
  <2>8. QED
    BY <2>6, <2>7
<1>12. ASSUME NEW w \in Workers, NEW j \in Jobs, Claim(w, j) PROVE Budget'
  BY <1>12, <1>t DEF Claim, CanClaim, Available, Claimable
<1>13. ASSUME NEW w \in Workers, NEW j \in Jobs, LoseRace(w, j) PROVE Budget'
  BY <1>13, <1>t DEF LoseRace, row
<1>14. ASSUME NEW w \in Workers, NEW j \in Jobs, MarkStarted(w, j) PROVE Budget'
  <2>1. status[j] = "claimed" /\ pc[w] = "batch"
    BY <1>14, <1>t DEF MarkStarted, Placement, Busy
  <2>2. QED
    BY <1>14, <1>t, <2>1 DEF MarkStarted
<1>15. CASE UNCHANGED vars
  BY <1>15 DEF vars, row, wrk
<1>16. QED
  BY <1>1, <1>2, <1>3, <1>4, <1>5, <1>7, <1>8, <1>9, <1>10, <1>11, <1>12, <1>13, <1>14, <1>15
     DEF Next, WorkerStep, AdminStep, Passage

(* max_attempts bounds the handler invocations of a row over its whole life. *)
THEOREM RunsBounded ==
    ASSUME LeaseCoversBatch, ~AdminCancels
    PROVE  Spec => []RunsWithinAttempts
<1>1. BudgetInv => RunsWithinAttempts
  BY QueueConstants DEF BudgetInv, Budget, RunsWithinAttempts, OwnerInv, TypeInv, TypeOK
<1>2. BudgetInv /\ [Next]_vars => BudgetInv'
  BY BudgetInvNext
<1>3. QED
  BY <1>1, <1>2, BudgetInvInit, PTL DEF Spec
-----------------------------------------------------------------------------
(* Refinement: JobQueue implements JobLedger under the same assumptions.  The  *)
(* initial state maps to the ledger's, and every step maps to a step of the    *)
(* ledger or leaves it unchanged.                                              *)

stageOf == [j \in Jobs |-> Stage(status[j])]
holderOf == [j \in Jobs |-> Holder(j)]

(* The holder of a job is the worker whose batch it is in. *)
LEMMA HolderIs ==
    ASSUME OwnerInv, NEW w \in Workers, NEW j \in batch[w] PROVE Holder(j) = w
BY OneBatch DEF Holder

(* The same, after a step. *)
LEMMA HolderIsNext ==
    ASSUME OwnerInv', NEW w \in Workers, NEW j \in batch'[w] PROVE Holder(j)' = w
BY DEF Holder, OwnerInv, OwnershipIsRecorded

(* A job in no batch has no holder. *)
LEMMA NoHolder ==
    ASSUME NEW j, \A w \in Workers : j \notin batch[w] PROVE Holder(j) = None
BY DEF Holder

(* The same, after a step. *)
LEMMA NoHolderNext ==
    ASSUME NEW j, \A w \in Workers : j \notin batch'[w] PROVE Holder(j)' = None
BY DEF Holder

(* A job in the same batches has the same holder. *)
LEMMA SameHolder ==
    ASSUME batch' = batch, NEW j PROVE Holder(j)' = Holder(j)
BY DEF Holder

(* What the stages of the statuses are. *)
LEMMA Stages ==
    /\ Stage("absent") = "absent"
    /\ Stage("pending") = "open"
    /\ Stage("retry_scheduled") = "open"
    /\ Stage("claimed") = "held"
BY DEF Stage, Claimable, Owned

(* The queue starts where the ledger starts. *)
LEMMA RefinesInit == Init => Ledger!Init
<1> SUFFICES ASSUME Init PROVE Ledger!Init
  OBVIOUS
<1>1. \A j \in Jobs : Holder(j) = None
  BY NoHolder DEF Init
<1>2. \A j \in Jobs : Stage(status[j]) = "absent"
  BY Stages DEF Init
<1>3. QED
  BY <1>1, <1>2 DEF Init, Ledger!Init

(* A handler that did not succeed leaves the job failed or waiting. *)
LEMMA LostResult ==
    ASSUME NEW s \in Snaps, s.outcome \in Outcomes, s.outcome # "succeeded"
    PROVE  \/ ResultStatus(s) = "permanently_failed"
           \/ ResultStatus(s) = "retry_scheduled" /\ s.attempts + 1 < MaxAttempts
BY QueueConstants DEF ResultStatus, Outcomes, Snaps

(* Every step of the queue is a step of the ledger or changes none of it. *)
LEMMA RefinesNext ==
    ASSUME LeaseCoversBatch, ~AdminCancels, BudgetInv, BudgetInv', [Next]_vars
    PROVE  [Ledger!Next]_(Ledger!lvars)
<1>t. TypeInv /\ TypeInv' /\ OwnerInv /\ OwnerInv'
  BY DEF BudgetInv, OwnerInv
<1>m. MaxAttempts \in Nat \ {0}
  BY QueueConstants
<1>s. ASSUME \A j \in Jobs : Stage(status'[j]) = Stage(status[j]), batch' = batch, attempts' = attempts
      PROVE  UNCHANGED Ledger!lvars
  BY <1>s, SameHolder DEF Ledger!lvars
<1> USE DEF TypeInv, TypeOK
<1>n. ASSUME NEW k \in Jobs, status[k] = "absent", status' = [status EXCEPT ![k] = "pending"],
             batch' = batch, attempts' = attempts
      PROVE  Ledger!Submit(k)
  <2>1. \A j \in Jobs : Stage(status'[j]) = IF j = k THEN "open" ELSE Stage(status[j])
    BY <1>n, <1>t, Stages
  <2>2. Stage(status[k]) = "absent"
    BY <1>n, Stages
  <2>3. QED
    BY <1>n, <2>1, <2>2, SameHolder DEF Ledger!Submit
<1>1. ASSUME NEW j \in Jobs, Enqueue(j) PROVE Ledger!Submit(j)
  BY <1>1, <1>n DEF Enqueue, wrk
<1>2. ASSUME NEW j \in Jobs, CancelCheck(j) \/ CancelCommit(j) PROVE FALSE
  BY <1>2, <1>t DEF CancelCheck, CancelCommit, OwnerInv
<1>3. ASSUME NEW j \in Jobs, NEW k \in Jobs, AdminRetry(j, k) PROVE Ledger!Submit(k)
  BY <1>3, <1>n DEF AdminRetry, wrk
<1>4. ASSUME NEW j \in Jobs, BecomeDue(j) \/ LeaseLapses(j) PROVE UNCHANGED Ledger!lvars
  BY <1>4, <1>s DEF BecomeDue, LeaseLapses, wrk
<1>5. ASSUME NEW w \in Workers, Crash(w) PROVE Ledger!Vanish(w)
  <2>1. status' = status /\ attempts' = attempts /\ batch' = [batch EXCEPT ![w] = {}]
    BY <1>5 DEF Crash, row
  <2>2. ASSUME NEW j \in Jobs PROVE Holder(j)' = IF Holder(j) = w THEN None ELSE Holder(j)
    <3>1. CASE j \in batch[w]
      <4>1. \A v \in Workers : j \notin batch'[v]
        BY <2>1, <3>1, <1>t, OneBatch
      <4>2. QED
        BY <3>1, <4>1, <1>t, HolderIs, NoHolderNext
    <3>2. CASE j \notin batch[w]
      <4>1. \A v \in Workers : j \in batch'[v] <=> j \in batch[v]
        BY <2>1, <3>2, <1>t
      <4>2. Holder(j)' = Holder(j)
        <5>1. CASE \E v \in Workers : j \in batch[v]
          BY <5>1, <4>1, <1>t, HolderIs, HolderIsNext
        <5>2. CASE \A v \in Workers : j \notin batch[v]
          BY <5>2, <4>1, NoHolder, NoHolderNext
        <5>3. QED
          BY <5>1, <5>2
      <4>3. Holder(j) # w
        <5>1. CASE \E v \in Workers : j \in batch[v]
          BY <5>1, <3>2, <1>t, HolderIs
        <5>2. CASE \A v \in Workers : j \notin batch[v]
          BY <5>2, NoHolder, QueueConstants
        <5>3. QED
          BY <5>1, <5>2
      <4>4. QED
        BY <4>2, <4>3
    <3>3. QED
      BY <3>1, <3>2
  <2>3. QED
    BY <2>1, <2>2 DEF Ledger!Vanish
<1>6. ASSUME NEW w \in Workers, Shutdown(w) \/ Restart(w) PROVE UNCHANGED Ledger!lvars
  BY <1>6, <1>s DEF Shutdown, Restart, row
<1>7. ASSUME NEW w \in Workers, Recover(w) PROVE Ledger!Reclaim(Abandoned)
  <2>1. ASSUME NEW j \in Abandoned
        PROVE  j \in Jobs /\ Stage(status[j]) = "held" /\ Holder(j) = None
    <3>1. \A v \in Workers : j \notin batch[v]
      BY <1>t DEF Abandoned, OwnerInv, OwnershipIsRecorded
    <3>2. QED
      BY <3>1, NoHolder DEF Abandoned, Stage, Owned, Claimable
  <2>2. batch' = batch
    BY <1>7 DEF Recover
  <2>3. attempts' = [j \in Jobs |-> IF j \in Abandoned THEN attempts[j] + 1 ELSE attempts[j]]
    BY <1>7 DEF Recover
  <2>4. ASSUME NEW j \in Jobs
        PROVE  Stage(status'[j]) = IF j \notin Abandoned THEN Stage(status[j])
                                   ELSE IF attempts[j] + 1 >= MaxAttempts THEN "failed"
                                   ELSE "open"
    BY <1>7 DEF Recover, RecoveredStatus, Stage, Claimable, Owned
  <2>5. QED
    BY <2>1, <2>2, <2>3, <2>4, SameHolder DEF Ledger!Reclaim
<1>8. ASSUME NEW w \in Workers, Scan(w) \/ EndClaim(w) \/ CallHandler(w) PROVE UNCHANGED Ledger!lvars
  BY <1>8, <1>s DEF Scan, EndClaim, CallHandler, row
<1>10. ASSUME NEW w \in Workers, NEW o \in Outcomes, HandlerReturns(w, o)
       PROVE  UNCHANGED Ledger!lvars
  BY <1>10, <1>s DEF HandlerReturns, row
<1>11. ASSUME NEW w \in Workers, Complete(w)
       PROVE  \E j \in Jobs : Ledger!Finish(w, j) \/ Ledger!Fail(w, j)
  <2>0. PICK c \in Jobs : c = cur[w]
    BY <1>11, <1>t DEF Complete, BusyHasJob, Busy
  <2>1. c \in batch[w] /\ status[c] = "running" /\ c \in Jobs
        /\ Accurate(snap[w], c) /\ snap[w].outcome \in Outcomes
    BY <1>11, <1>t, <2>0 DEF Complete, OwnerInv, Placement, Busy, BudgetInv, Budget
  <2>2. status' = [status EXCEPT ![c] = ResultStatus(snap[w])]
        /\ attempts' = [attempts EXCEPT ![c] = IF snap[w].outcome = "succeeded" THEN @ ELSE @ + 1]
        /\ batch' = [batch EXCEPT ![w] = @ \ {c}]
    BY <1>11, <2>0, <2>1 DEF Complete, Flushed, ResultStatus, Accurate
  <2>3. Holder(c) = w /\ Holder(c)' = None
    <3>1. \A v \in Workers : c \notin batch'[v]
      BY <2>1, <2>2, <1>t, OneBatch
    <3>2. QED
      BY <3>1, <2>1, <1>t, HolderIs, NoHolderNext
  <2>4. ASSUME NEW j \in Jobs, j # c PROVE Holder(j)' = Holder(j)
    <3>1. \A v \in Workers : j \in batch'[v] <=> j \in batch[v]
      BY <2>2, <2>4, <1>t
    <3>2. CASE \E v \in Workers : j \in batch[v]
      BY <3>1, <3>2, <1>t, HolderIs, HolderIsNext
    <3>3. CASE \A v \in Workers : j \notin batch[v]
      BY <3>1, <3>3, NoHolder, NoHolderNext
    <3>4. QED
      BY <3>2, <3>3
  <2>5. holderOf' = [holderOf EXCEPT ![c] = None]
    BY <2>1, <2>3, <2>4 DEF holderOf
  <2>6. Stage(status[c]) = "held"
    BY <2>1 DEF Stage, Claimable, Owned
  <2>7. CASE snap[w].outcome = "succeeded"
    <3>1. stageOf' = [stageOf EXCEPT ![c] = "done"] /\ attempts' = attempts
      BY <2>1, <2>2, <2>7, <1>t DEF stageOf, ResultStatus, Stage, Claimable, Owned
    <3>2. QED
      BY <2>1, <2>3, <2>5, <2>6, <3>1 DEF Ledger!Finish, stageOf, holderOf
  <2>8. CASE snap[w].outcome # "succeeded"
    <3>1. attempts' = [attempts EXCEPT ![c] = @ + 1]
      BY <2>2, <2>8
    <3>2. \/ stageOf' = [stageOf EXCEPT ![c] = "failed"]
          \/ attempts[c] + 1 < MaxAttempts /\ stageOf' = [stageOf EXCEPT ![c] = "open"]
      <4>1. \/ ResultStatus(snap[w]) = "permanently_failed"
            \/ ResultStatus(snap[w]) = "retry_scheduled" /\ attempts[c] + 1 < MaxAttempts
        BY <2>1, <2>8, <1>t, LostResult DEF Accurate
      <4>2. QED
        BY <4>1, <2>1, <2>2, <1>t DEF stageOf, Stage, Claimable, Owned
    <3>3. QED
      BY <2>1, <2>3, <2>5, <2>6, <3>1, <3>2 DEF Ledger!Fail, stageOf, holderOf
  <2>9. QED
    BY <2>7, <2>8
<1>12. ASSUME NEW w \in Workers, NEW j \in Jobs, Claim(w, j) PROVE Ledger!Take(w, j)
  <2>1. status[j] \in Claimable /\ status' = [status EXCEPT ![j] = "claimed"]
        /\ attempts' = attempts /\ batch' = [batch EXCEPT ![w] = @ \cup {j}]
    BY <1>12 DEF Claim, CanClaim, Available
  <2>2. \A v \in Workers : j \notin batch[v]
    BY <2>1, <1>t DEF Claimable, Owned, OwnerInv, OwnershipIsRecorded
  <2>3. Holder(j) = None /\ Holder(j)' = w
    BY <2>1, <2>2, <1>t, NoHolder, HolderIsNext
  <2>4. ASSUME NEW k \in Jobs, k # j PROVE Holder(k)' = Holder(k)
    <3>1. \A v \in Workers : k \in batch'[v] <=> k \in batch[v]
      BY <2>1, <2>4, <1>t
    <3>2. CASE \E v \in Workers : k \in batch[v]
      BY <3>1, <3>2, <1>t, HolderIs, HolderIsNext
    <3>3. CASE \A v \in Workers : k \notin batch[v]
      BY <3>1, <3>3, NoHolder, NoHolderNext
    <3>4. QED
      BY <3>2, <3>3
  <2>5. \A k \in Jobs : Stage(status'[k]) = IF k = j THEN "held" ELSE Stage(status[k])
    BY <2>1, <1>t, Stages
  <2>6. Stage(status[j]) = "open"
    BY <2>1, Stages DEF Claimable
  <2>7. stageOf' = [stageOf EXCEPT ![j] = "held"]
    BY <2>5 DEF stageOf
  <2>8. holderOf' = [holderOf EXCEPT ![j] = w]
    BY <2>3, <2>4 DEF holderOf
  <2>9. QED
    BY <2>1, <2>3, <2>6, <2>7, <2>8 DEF Ledger!Take, stageOf, holderOf
<1>13. ASSUME NEW w \in Workers, NEW j \in Jobs, LoseRace(w, j) PROVE UNCHANGED Ledger!lvars
  BY <1>13, <1>s DEF LoseRace, row
<1>14. ASSUME NEW w \in Workers, NEW j \in Jobs, MarkStarted(w, j) PROVE UNCHANGED Ledger!lvars
  <2>1. status[j] \in Owned
    BY <1>14, <1>t DEF MarkStarted, OwnerInv, OwnershipIsRecorded
  <2>2. QED
    BY <1>14, <1>s, <1>t, <2>1 DEF MarkStarted, Stage, Owned, Claimable
<1>15. CASE UNCHANGED vars
  BY <1>15, <1>s DEF vars, row, wrk
<1>16. QED
  <2>2. ASSUME NEW w \in Workers, Complete(w) PROVE Ledger!Next
    BY <1>11, <2>2 DEF Ledger!Next
  <2>3. ASSUME NEW w \in Workers, Recover(w) PROVE Ledger!Next
    BY <1>7, <2>3 DEF Ledger!Next, Abandoned
  <2>4. ASSUME NEW w \in Workers, NEW j \in Jobs, Claim(w, j) PROVE Ledger!Next
    BY <1>12, <2>4 DEF Ledger!Next
  <2>5. ASSUME NEW w \in Workers, Crash(w) PROVE Ledger!Next
    BY <1>5, <2>5 DEF Ledger!Next
  <2>6. ASSUME NEW j \in Jobs, Enqueue(j) \/ \E k \in Jobs : AdminRetry(k, j) PROVE Ledger!Next
    BY <1>1, <1>3, <2>6 DEF Ledger!Next
  <2>7. QED
    BY <1>2, <1>4, <1>6, <1>8, <1>10, <1>13, <1>14, <1>15, <2>2, <2>3, <2>4, <2>5, <2>6
       DEF Next, WorkerStep, AdminStep, Outage, Passage

(* The queue keeps the ledger's promises. *)
THEOREM QueueImplementsLedger ==
    ASSUME LeaseCoversBatch, ~AdminCancels
    PROVE  Spec => LedgerSpec
<1>1. BudgetInv /\ [Next]_vars => BudgetInv'
  BY BudgetInvNext
<1>2. BudgetInv /\ BudgetInv' /\ [Next]_vars => [Ledger!Next]_(Ledger!lvars)
  BY RefinesNext
<1>3. QED
  BY <1>1, <1>2, BudgetInvInit, RefinesInit, PTL DEF Spec, LedgerSpec, Ledger!Spec
=============================================================================
