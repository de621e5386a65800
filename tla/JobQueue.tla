------------------------------ MODULE JobQueue ------------------------------
(***************************************************************************)
(* The durable job queue: the background_jobs table, the worker processes  *)
(* that poll it (app/jobs/worker.py over                                   *)
(* app/services/background_jobs.py) and the platform administrator's       *)
(* retry and cancel endpoints (app/routers/platform_admin.py).             *)
(*                                                                         *)
(* One action is one database transaction, or the part of one that other   *)
(* sessions can tell apart.  Time is abstracted: available_at and          *)
(* lease_expires_at matter only by whether they have passed, so "the job   *)
(* becomes due" and "the lease lapses" are steps of the environment.       *)
(*                                                                         *)
(* mark_started and complete_job write through the ORM, without a WHERE on *)
(* status or claimed_by.  The identity map decides what such a write       *)
(* contains: a column assigned the value it was loaded with is not part of *)
(* the UPDATE (Flushed).                                                   *)
(***************************************************************************)
EXTENDS Naturals, FiniteSets

CONSTANTS
    Jobs,             \* rows of background_jobs (a row not yet inserted is "absent")
    Workers,          \* worker processes
    None,             \* SQL NULL, and "no job"
    CommittingJobs,   \* jobs whose handler commits (webhook.*, financial report);
                      \* the others leave that to complete_job
    MaxAttempts,      \* BackgroundJob.max_attempts
    BatchSize,        \* WORKER_BATCH_SIZE
    LeaseCoversBatch, \* TRUE: a lease never lapses under a worker that is alive
    AdminCancels,     \* TRUE: administrators use the cancel endpoint
    MaxOutages,       \* bound on worker crashes and shutdowns together
    MaxRuns           \* bound on the handler invocations of one job

ASSUME QueueConstants ==
    /\ None \notin Jobs \cup Workers
    /\ CommittingJobs \subseteq Jobs
    /\ MaxAttempts \in Nat \ {0}
    /\ BatchSize \in Nat \ {0}
    /\ LeaseCoversBatch \in BOOLEAN
    /\ AdminCancels \in BOOLEAN
    /\ MaxOutages \in Nat
    /\ MaxRuns \in Nat

VARIABLES
    status,     \* the row's status
    attempts,   \* the row's attempts
    claimedBy,  \* the row's claimed_by
    lease,      \* the row's lease_expires_at: none, in the future, in the past
    due,        \* available_at <= now
    pc,         \* where each worker is in its loop
    cand,       \* candidate_ids left to try in claim_jobs
    batch,      \* the claimed jobs a worker has not completed yet
    cur,        \* the job run_claimed_job is working on
    snap,       \* what the worker's session holds of cur's row, and the result
    cancelling, \* cancel requests that passed their status check
    runs,       \* history: handler invocations of each job
    handled,    \* history: jobs of which some handler invocation succeeded
    outages     \* worker crashes and shutdowns so far

row == <<status, attempts, claimedBy, lease, due>>
wrk == <<pc, cand, batch, cur, snap>>
vars == <<row, wrk, cancelling, runs, handled, outages>>

Claimable == {"pending", "retry_scheduled"}   \* also _JOB_CANCELLABLE_STATUSES
Owned     == {"claimed", "running"}
Terminal  == {"succeeded", "permanently_failed", "cancelled"}
Retryable == {"permanently_failed", "cancelled"}   \* _JOB_RETRYABLE_STATUSES
Outcomes  == {"succeeded", "retry", "permanently_failed"}

(* snap: status and attempts as loaded, owned unless claimed_by and the lease  *)
(* were loaded as NULL, and the handler's outcome.                             *)
NoSnap == [status |-> "unloaded", attempts |-> 0, owned |-> TRUE, outcome |-> "none"]

(* What the database holds after the ORM flushes `new` over an attribute     *)
(* loaded as `loaded`: equal values are not part of the UPDATE.               *)
Flushed(loaded, new, stored) == IF loaded = new THEN stored ELSE new

(* Rows under the FOR UPDATE SKIP LOCKED of a worker that has scanned and not *)
(* yet committed its first claim.                                             *)
LockedByOther(w, j) == \E v \in Workers \ {w} : pc[v] = "scanned" /\ j \in cand[v]
Locked(j) == \E v \in Workers : pc[v] = "scanned" /\ j \in cand[v]

Init ==
    /\ status = [j \in Jobs |-> "absent"]
    /\ attempts = [j \in Jobs |-> 0]
    /\ claimedBy = [j \in Jobs |-> None]
    /\ lease = [j \in Jobs |-> "none"]
    /\ due = [j \in Jobs |-> FALSE]
    /\ pc = [w \in Workers |-> "idle"]
    /\ cand = [w \in Workers |-> {}]
    /\ batch = [w \in Workers |-> {}]
    /\ cur = [w \in Workers |-> None]
    /\ snap = [w \in Workers |-> NoSnap]
    /\ cancelling = {}
    /\ runs = [j \in Jobs |-> 0]
    /\ handled = {}
    /\ outages = 0

-----------------------------------------------------------------------------
(* The producers and the administrator. *)

(* enqueue_job, committed by its caller; available_at may be in the future. *)
Enqueue(j) ==
    /\ status[j] = "absent"
    /\ status' = [status EXCEPT ![j] = "pending"]
    /\ \E d \in BOOLEAN : due' = [due EXCEPT ![j] = d]
    /\ UNCHANGED <<attempts, claimedBy, lease, wrk, cancelling, runs, handled, outages>>

(* Mutant: the retry puts the dead row back into the queue. *)
AdminRetryInPlace(j, k) ==
    /\ status[j] \in Retryable
    /\ status' = [status EXCEPT ![j] = "pending"]
    /\ due' = [due EXCEPT ![j] = TRUE]
    /\ UNCHANGED <<attempts, claimedBy, lease, wrk, cancelling, runs, handled, outages>>

(* retry_platform_background_job: a new row for a dead one, the old untouched. *)
AdminRetry(j, k) ==
    /\ status[j] \in Retryable
    /\ status[k] = "absent"
    /\ status' = [status EXCEPT ![k] = "pending"]
    /\ due' = [due EXCEPT ![k] = TRUE]
    /\ UNCHANGED <<attempts, claimedBy, lease, wrk, cancelling, runs, handled, outages>>

(* cancel_platform_background_job: the check on the status it read ...       *)
CancelCheck(j) ==
    /\ AdminCancels
    /\ status[j] \in Claimable
    /\ cancelling' = cancelling \cup {j}
    /\ UNCHANGED <<row, wrk, runs, handled, outages>>

(* ... and the write, of the status alone and whatever the row is by now.    *)
CancelCommit(j) ==
    /\ j \in cancelling
    /\ ~Locked(j)
    /\ cancelling' = cancelling \ {j}
    /\ status' = [status EXCEPT ![j] = "cancelled"]
    /\ UNCHANGED <<attempts, claimedBy, lease, due, wrk, runs, handled, outages>>

-----------------------------------------------------------------------------
(* The worker's loop. *)

(* Mutants: the sweep takes live leases too; it forgets the running ones. *)
AbandonedOrNot == {j \in Jobs : status[j] \in Owned}
AbandonedClaims == {j \in Jobs : status[j] = "claimed" /\ lease[j] = "lapsed"}

(* The rows recover_abandoned_jobs matches ... *)
Abandoned == {j \in Jobs : status[j] \in Owned /\ lease[j] = "lapsed"}

(* Mutants: a recovered row is left running, or never counted as exhausted. *)
RecoveredAsRunning(j) == IF status[j] = "running" THEN "running" ELSE "pending"
RecoveredForever(j) == "pending"

(* ... and what it makes of each. *)
RecoveredStatus(j) ==
    IF attempts[j] + 1 >= MaxAttempts THEN "permanently_failed" ELSE "pending"

(* recover_abandoned_jobs: one UPDATE over every abandoned row. *)

Recover(w) ==
    /\ pc[w] = "idle"
    /\ attempts' = [j \in Jobs |-> IF j \in Abandoned THEN attempts[j] + 1 ELSE attempts[j]]
    /\ status' = [j \in Jobs |->
                    IF j \in Abandoned THEN RecoveredStatus(j) ELSE status[j]]
    /\ due' = [j \in Jobs |-> due[j] /\ (j \in Abandoned => RecoveredStatus(j) # "pending")]
    /\ claimedBy' = [j \in Jobs |-> IF j \in Abandoned THEN None ELSE claimedBy[j]]
    /\ lease' = [j \in Jobs |-> IF j \in Abandoned THEN "none" ELSE lease[j]]
    /\ pc' = [pc EXCEPT ![w] = "swept"]
    /\ UNCHANGED <<cand, batch, cur, snap, cancelling, runs, handled, outages>>

(* The WHERE of the candidate SELECT. *)
Available(j) == status[j] \in Claimable /\ due[j]

(* Mutant: the claim trusts the candidate SELECT. *)
TrustScan(j) == due[j]

(* The WHERE of the claiming UPDATE: the same conditions, checked again. *)
CanClaim(j) == Available(j)

(* claim_jobs, the candidate SELECT; an empty one ends the iteration. *)
Scan(w) ==
    /\ pc[w] = "swept"
    /\ LET found == {j \in Jobs : Available(j) /\ ~Locked(j)}
       IN  /\ cand' = [cand EXCEPT ![w] = found]
           /\ pc' = [pc EXCEPT ![w] = IF found = {} THEN "idle" ELSE "scanned"]
    /\ UNCHANGED <<row, batch, cur, snap, cancelling, runs, handled, outages>>

Claiming(w) == pc[w] \in {"scanned", "claiming"}
BatchFull(w) == Cardinality(batch[w]) >= BatchSize

(* claim_jobs, one candidate: the conditional UPDATE matched and committed ... *)
Claim(w, j) ==
    /\ Claiming(w)
    /\ j \in cand[w] /\ ~BatchFull(w) /\ ~LockedByOther(w, j)
    /\ CanClaim(j)
    /\ status' = [status EXCEPT ![j] = "claimed"]
    /\ claimedBy' = [claimedBy EXCEPT ![j] = w]
    /\ lease' = [lease EXCEPT ![j] = "live"]
    /\ batch' = [batch EXCEPT ![w] = @ \cup {j}]
    /\ cand' = [cand EXCEPT ![w] = @ \ {j}]
    /\ pc' = [pc EXCEPT ![w] = "claiming"]
    /\ UNCHANGED <<attempts, due, cur, snap, cancelling, runs, handled, outages>>

(* ... or matched no row: another session changed it since the SELECT. *)
LoseRace(w, j) ==
    /\ Claiming(w)
    /\ j \in cand[w] /\ ~BatchFull(w) /\ ~LockedByOther(w, j)
    /\ ~CanClaim(j)
    /\ cand' = [cand EXCEPT ![w] = @ \ {j}]
    /\ pc' = [pc EXCEPT ![w] = "claiming"]
    /\ UNCHANGED <<row, batch, cur, snap, cancelling, runs, handled, outages>>

(* claim_jobs returns: to the batch, or to the next poll if it is empty. *)
EndClaim(w) ==
    /\ pc[w] = "claiming"
    /\ cand[w] = {} \/ BatchFull(w)
    /\ cand' = [cand EXCEPT ![w] = {}]
    /\ pc' = [pc EXCEPT ![w] = IF batch[w] = {} THEN "idle" ELSE "batch"]
    /\ UNCHANGED <<row, batch, cur, snap, cancelling, runs, handled, outages>>

(* mark_started: unconditional. *)
MarkStarted(w, j) ==
    /\ pc[w] = "batch"
    /\ j \in batch[w] /\ ~Locked(j)
    /\ status' = [status EXCEPT ![j] = "running"]
    /\ cur' = [cur EXCEPT ![w] = j]
    /\ pc' = [pc EXCEPT ![w] = "marked"]
    /\ UNCHANGED <<attempts, claimedBy, lease, due, cand, batch, snap, cancelling,
                   runs, handled, outages>>

(* run_claimed_job reads job.job_type: the commit expired the object, so this  *)
(* loads the whole row; then it calls the handler.                             *)
CallHandler(w) ==
    /\ pc[w] = "marked"
    /\ runs[cur[w]] < MaxRuns
    /\ snap' = [snap EXCEPT ![w] = [status |-> status[cur[w]], attempts |-> attempts[cur[w]],
                                    owned |-> claimedBy[cur[w]] # None, outcome |-> "none"]]
    /\ runs' = [runs EXCEPT ![cur[w]] = @ + 1]
    /\ pc' = [pc EXCEPT ![w] = "handling"]
    /\ UNCHANGED <<row, cand, batch, cur, cancelling, handled, outages>>

(* The handler returns its JobResult (an exception it raises counts as         *)
(* "retry").  If it committed, the row was expired again: complete_job assigns *)
(* over unloaded attributes, and loads attempts afresh to increment it.        *)
HandlerReturns(w, o) ==
    /\ pc[w] = "handling"
    /\ snap' = [snap EXCEPT ![w] =
                 IF cur[w] \in CommittingJobs
                 THEN [status |-> "unloaded", attempts |-> attempts[cur[w]],
                       owned |-> TRUE, outcome |-> o]
                 ELSE [status |-> @.status, attempts |-> @.attempts,
                       owned |-> @.owned, outcome |-> o]]
    /\ handled' = IF o = "succeeded" THEN handled \cup {cur[w]} ELSE handled
    /\ pc' = [pc EXCEPT ![w] = "returned"]
    /\ UNCHANGED <<row, cand, batch, cur, cancelling, runs, outages>>

(* Mutants: an outcome written as the status; a retry past max_attempts; a    *)
(* handler's own giving up taken for success.                                  *)
OutcomeAsStatus(s) == s.outcome
RetryForever(s) == IF s.outcome = "retry" THEN "retry_scheduled" ELSE s.outcome
NotRetryIsSuccess(s) == IF s.outcome = "retry" THEN "retry_scheduled" ELSE "succeeded"

(* complete_job: the status it computes ... *)
ResultStatus(s) ==
    IF s.outcome = "succeeded" THEN "succeeded"
    ELSE IF s.outcome = "permanently_failed" \/ s.attempts + 1 >= MaxAttempts
         THEN "permanently_failed"
    ELSE "retry_scheduled"

(* ... and its write; the job leaves the worker's batch. *)
Complete(w) ==
    /\ pc[w] = "returned"
    /\ ~Locked(cur[w])
    /\ LET j == cur[w]  s == snap[w]  new == ResultStatus(snap[w])
       IN  /\ status' = [status EXCEPT ![j] = Flushed(s.status, new, @)]
           /\ attempts' = [attempts EXCEPT ![j] =
                             IF s.outcome = "succeeded" THEN @ ELSE s.attempts + 1]
           /\ claimedBy' = [claimedBy EXCEPT ![j] = IF s.owned THEN None ELSE @]
           /\ lease' = [lease EXCEPT ![j] = IF s.owned THEN "none" ELSE @]
           /\ due' = [due EXCEPT ![j] = @ /\ new # "retry_scheduled"]
           /\ batch' = [batch EXCEPT ![w] = @ \ {j}]
           /\ pc' = [pc EXCEPT ![w] = IF batch[w] = {j} THEN "idle" ELSE "batch"]
    /\ cur' = [cur EXCEPT ![w] = None]
    /\ snap' = [snap EXCEPT ![w] = NoSnap]
    /\ UNCHANGED <<cand, cancelling, runs, handled, outages>>

-----------------------------------------------------------------------------
(* Outages and time. *)

(* The process dies, or a handler leaves the session unusable so that         *)
(* complete_job itself raises: everything but the table is lost.              *)
Crash(w) ==
    /\ pc[w] # "down"
    /\ outages < MaxOutages
    /\ outages' = outages + 1
    /\ pc' = [pc EXCEPT ![w] = "down"]
    /\ cand' = [cand EXCEPT ![w] = {}]
    /\ batch' = [batch EXCEPT ![w] = {}]
    /\ cur' = [cur EXCEPT ![w] = None]
    /\ snap' = [snap EXCEPT ![w] = NoSnap]
    /\ UNCHANGED <<row, cancelling, runs, handled>>

(* SIGTERM: the flag is read between iterations, never inside a batch. *)
Shutdown(w) ==
    /\ pc[w] = "idle"
    /\ outages < MaxOutages
    /\ outages' = outages + 1
    /\ pc' = [pc EXCEPT ![w] = "down"]
    /\ UNCHANGED <<row, cand, batch, cur, snap, cancelling, runs, handled>>

Restart(w) ==
    /\ pc[w] = "down"
    /\ pc' = [pc EXCEPT ![w] = "idle"]
    /\ UNCHANGED <<row, cand, batch, cur, snap, cancelling, runs, handled, outages>>

BecomeDue(j) ==
    /\ status[j] # "absent" /\ ~due[j]
    /\ due' = [due EXCEPT ![j] = TRUE]
    /\ UNCHANGED <<status, attempts, claimedBy, lease, wrk, cancelling, runs, handled, outages>>

LeaseLapses(j) ==
    /\ lease[j] = "live"
    /\ LeaseCoversBatch => \A w \in Workers : j \notin batch[w]
    /\ lease' = [lease EXCEPT ![j] = "lapsed"]
    /\ UNCHANGED <<status, attempts, claimedBy, due, wrk, cancelling, runs, handled, outages>>

-----------------------------------------------------------------------------
WorkerStep(w) ==
    \/ Recover(w) \/ Scan(w) \/ EndClaim(w) \/ CallHandler(w) \/ Complete(w)
    \/ \E j \in Jobs : Claim(w, j) \/ LoseRace(w, j) \/ MarkStarted(w, j)
    \/ \E o \in Outcomes : HandlerReturns(w, o)

AdminStep(j) ==
    \/ CancelCheck(j) \/ CancelCommit(j)
    \/ \E k \in Jobs : AdminRetry(j, k)

Outage(w) == Crash(w) \/ Shutdown(w) \/ Restart(w)

Passage(j) == BecomeDue(j) \/ LeaseLapses(j)

Next ==
    \/ \E j \in Jobs : Enqueue(j) \/ AdminStep(j) \/ Passage(j)
    \/ \E w \in Workers : WorkerStep(w) \/ Outage(w)

Spec == Init /\ [][Next]_vars

(* The worker loop never waits for anything but row locks, the platform       *)
(* restarts a worker that exits, and the clock advances.                      *)
Fairness ==
    /\ \A w \in Workers : WF_vars(WorkerStep(w)) /\ WF_vars(Restart(w))
    /\ \A j \in Jobs : WF_vars(BecomeDue(j)) /\ WF_vars(LeaseLapses(j))

FairSpec == Spec /\ Fairness
-----------------------------------------------------------------------------
(* Correctness. *)

Statuses == {"absent"} \cup Claimable \cup Owned \cup Terminal
Busy == {"marked", "handling", "returned"}
Places == {"idle", "swept", "scanned", "claiming", "batch", "down"} \cup Busy
Snaps == [status : Statuses \cup {"unloaded"}, attempts : Nat, owned : BOOLEAN,
          outcome : Outcomes \cup {"none"}]

(* Every variable keeps its type. *)
TypeOK ==
    /\ status \in [Jobs -> Statuses]
    /\ attempts \in [Jobs -> Nat]
    /\ claimedBy \in [Jobs -> Workers \cup {None}]
    /\ lease \in [Jobs -> {"none", "live", "lapsed"}]
    /\ due \in [Jobs -> BOOLEAN]
    /\ pc \in [Workers -> Places]
    /\ cand \in [Workers -> SUBSET Jobs]
    /\ batch \in [Workers -> SUBSET Jobs]
    /\ cur \in [Workers -> Jobs \cup {None}]
    /\ snap \in [Workers -> Snaps]
    /\ cancelling \in SUBSET Jobs
    /\ runs \in [Jobs -> Nat]
    /\ handled \in SUBSET Jobs
    /\ outages \in Nat

(* No two workers hold the same job: the promise of claim_jobs ("never        *)
(* stolen, never double-owned").                                              *)
ExclusiveOwnership ==
    \A v, w \in Workers : v # w => batch[v] \cap batch[w] = {}

(* claimed_by and lease_expires_at are the truth about ownership: a job in a  *)
(* live worker's batch is owned by that worker in the table, under a lease    *)
(* that has not passed.                                                       *)
OwnershipIsRecorded ==
    \A w \in Workers : \A j \in batch[w] :
        status[j] \in Owned /\ claimedBy[j] = w /\ lease[j] = "live"

(* A row left owned by no live worker carries a lease, without which          *)
(* recover_abandoned_jobs ("the only recovery mechanism for a worker that     *)
(* crashed") would never return it to the queue.                              *)
AbandonedIsRecoverable ==
    \A j \in Jobs :
        status[j] \in Owned /\ (\A w \in Workers : j \notin batch[w]) => lease[j] # "none"

(* max_attempts bounds the handler invocations of a row over its whole life,  *)
(* crashes and recoveries included.                                           *)
RunsWithinAttempts == \A j \in Jobs : runs[j] <= MaxAttempts

(* A row that says succeeded had its handler succeed. *)
SuccessWasHandled == \A j \in Jobs : status[j] = "succeeded" => j \in handled

(* A terminal row is never touched again: a retry is a new row. *)
TerminalIsFinal ==
    [][\A j \in Jobs : status[j] \in Terminal =>
          status'[j] = status[j] /\ attempts'[j] = attempts[j]]_vars

(* Every enqueued job is eventually settled, whatever crashes on the way. *)
EveryJobSettles == \A j \in Jobs : status[j] # "absent" ~> status[j] \in Terminal

-----------------------------------------------------------------------------
(* The ledger of leased work this queue implements while leases cover a       *)
(* batch: a row's progress, and the live worker whose batch it is in.         *)
Holder(j) ==
    IF \E w \in Workers : j \in batch[w] THEN CHOOSE w \in Workers : j \in batch[w] ELSE None

Stage(s) ==
    CASE s = "absent"            -> "absent"
      [] s \in Claimable         -> "open"
      [] s \in Owned             -> "held"
      [] s = "succeeded"         -> "done"
      [] OTHER                   -> "failed"

Ledger == INSTANCE JobLedger WITH
    stage <- [j \in Jobs |-> Stage(status[j])],
    holder <- [j \in Jobs |-> Holder(j)],
    failures <- attempts

(* The queue implements the ledger. *)
LedgerSpec == Ledger!Spec
=============================================================================
