------------------------- MODULE WebhookDeliveries -------------------------
(***************************************************************************)
(* The deliveries of one webhook event to one endpoint: the append-only    *)
(* webhook_deliveries rows, the webhook.deliver and webhook.retry handlers *)
(* (app/jobs/handlers/webhook.py over app/services/webhook_deliveries.py), *)
(* a manual resend and the endpoint's switch.  Deliveries of other events  *)
(* and endpoints share nothing with these, not even an idempotency key.    *)
(*                                                                         *)
(* Jobs run on the queue as JobLedger specifies it (JobQueue is shown to   *)
(* implement it): a job may run again whenever its worker was lost, up to  *)
(* JobAttempts times.  A job is named by its idempotency key, of which the *)
(* table has at most one row: <<"deliver", row>> or <<"retry", attempt>>.  *)
(* A worker's uncommitted row is part of its own state.                    *)
(***************************************************************************)
EXTENDS Naturals, Sequences

CONSTANTS
    Workers, None,
    MaxDeliveryAttempts, \* MAX_WEBHOOK_DELIVERY_ATTEMPTS
    JobAttempts,         \* JobDefinition.max_attempts of the two handlers
    MaxRows,             \* bound: no resend once there are this many rows
    MaxResends,          \* bound on resends
    MaxOutages           \* bound on crashes and unexpected exceptions together

Jobs == ({"deliver"} \X (1..MaxRows)) \cup ({"retry"} \X (2..(MaxDeliveryAttempts + 1)))

ASSUME WebhookConstants ==
    /\ None \notin Workers \cup Jobs
    /\ MaxDeliveryAttempts \in Nat \ {0}
    /\ JobAttempts \in Nat \ {0}
    /\ MaxRows \in Nat \ {0}
    /\ MaxResends \in Nat
    /\ MaxOutages \in Nat

VARIABLES
    stage, holder, failures, \* the queue's ledger
    enabled,   \* the endpoint's enabled flag (an archived one stays disabled)
    rows,      \* committed webhook_deliveries, in order of insertion
    work,      \* what each worker is doing
    posts,     \* history: requests sent by the executions of each job
    refused,   \* history: a retry found its endpoint unavailable
    outages    \* crashes and unexpected exceptions so far

Queue == INSTANCE JobLedger WITH MaxAttempts <- JobAttempts

ledger == <<stage, holder, failures>>
vars == <<ledger, enabled, rows, work, posts, refused, outages>>

(* How deliver_webhook's request ends: 2xx; 5xx, 408, 425, 429, a timeout or a *)
(* refused connection; any other status, or a target that assert_public_url    *)
(* refuses, one whose name does not resolve at that moment included.           *)
Answers == {"succeeded", "transient", "final"}

(* work: where the handler is; the job; the delivery's row, 0 while it is not   *)
(* committed; its attempt number; the result.                                   *)
Idle == [at |-> "idle", job |-> None, row |-> 0, attempt |-> 0, result |-> "none"]

(* The handler has returned; what it worked on no longer matters. *)
Over(j) == [Idle EXCEPT !.at = "over", !.job = j]

Manual(r) == r.trigger = "manual_resend"

Delivery(n, t, s) == [attempt |-> n, trigger |-> t, state |-> s]

Init ==
    /\ Queue!Init
    /\ enabled = TRUE
    /\ rows = <<>>
    /\ work = [w \in Workers |-> Idle]
    /\ posts = [j \in Jobs |-> 0]
    /\ refused = FALSE
    /\ outages = 0

-----------------------------------------------------------------------------
(* The organization: an event, a manual resend, the endpoint's switch. *)

(* record_webhook_event: the pending delivery and its job in one transaction. *)
Emit ==
    /\ rows = <<>> /\ enabled
    /\ rows' = <<Delivery(1, "automatic", "pending")>>
    /\ Queue!Submit(<<"deliver", 1>>)
    /\ UNCHANGED <<enabled, work, posts, refused, outages>>

(* resend_delivery: of any row, whatever its state and the endpoint's. *)
Resend(d) ==
    /\ Len(rows) < MaxRows
    /\ Len(SelectSeq(rows, Manual)) < MaxResends
    /\ rows' = Append(rows, Delivery(rows[d].attempt + 1, "manual_resend", "pending"))
    /\ Queue!Submit(<<"deliver", Len(rows) + 1>>)
    /\ UNCHANGED <<enabled, work, posts, refused, outages>>

(* set_endpoint_enabled; archive_endpoint disables for good. *)
Switch ==
    /\ enabled' = ~enabled
    /\ UNCHANGED <<ledger, rows, work, posts, refused, outages>>

-----------------------------------------------------------------------------
(* The handlers. *)

(* Mutant: the guard on attempted_at is dropped. *)
AlwaysUnattempted(d) == TRUE

(* attempted_at is NULL. *)
Unattempted(d) == rows[d].state = "pending"

(* Mutant: an attempted delivery is taken for handled. *)
NothingToFinish(j) == Over(j)

(* deliver_webhook returns an attempted row at once, for _finish to look at. *)
AlreadyAttempted(j) == [Idle EXCEPT !.at = "recorded", !.job = j,
                                    !.attempt = rows[j[2]].attempt, !.result = rows[j[2]].state]

(* A job is claimed and its handler called; what lies between, and another job  *)
(* claimed with it, is JobQueue's subject.                                      *)
Take(w, j) == work[w].at = "idle" /\ Queue!Take(w, j)

(* handle_webhook_deliver: deliver_webhook up to the request.                  *)
BeginDelivery(w, j) ==
    /\ j[1] = "deliver"
    /\ Take(w, j)
    /\ work' = [work EXCEPT ![w] =
                 IF Unattempted(j[2])
                 THEN [at |-> "posting", job |-> j, row |-> j[2],
                       attempt |-> rows[j[2]].attempt, result |-> "none"]
                 ELSE AlreadyAttempted(j)]
    /\ UNCHANGED <<enabled, rows, posts, refused, outages>>

(* handle_webhook_retry and create_next_delivery_attempt: the next row is only *)
(* flushed.  The failed row is never mutated, so it is never found succeeded.  *)
BeginRetry(w, j) ==
    /\ j[1] = "retry"
    /\ Take(w, j)
    /\ work' = [work EXCEPT ![w] =
                 IF enabled THEN [at |-> "posting", job |-> j, row |-> 0,
                                  attempt |-> j[2], result |-> "none"]
                 ELSE Over(j)]
    /\ refused' = (refused \/ ~enabled)
    /\ UNCHANGED <<enabled, rows, posts, outages>>

(* Mutant: a transient answer is tried again on the spot. *)
RepeatTransient(a) == IF a = "transient" THEN "posting" ELSE "answered"

(* One request per call of deliver_webhook, whatever the answer. *)
AfterAnswer(a) == "answered"

(* The request has been answered, or has timed out, or was refused.           *)
Post(w, a) ==
    /\ work[w].at = "posting"
    /\ work' = [work EXCEPT ![w].at = AfterAnswer(a), ![w].result = a]
    /\ posts' = [posts EXCEPT ![work[w].job] = @ + 1]
    /\ UNCHANGED <<ledger, enabled, rows, refused, outages>>

(* deliver_webhook's commit: of the pending row, or of the row the retry made. *)
Record(w) ==
    /\ work[w].at = "answered"
    /\ rows' = IF work[w].row = 0
               THEN Append(rows, Delivery(work[w].attempt, "automatic_retry", work[w].result))
               ELSE [rows EXCEPT ![work[w].row].state = work[w].result]
    /\ work' = [work EXCEPT ![w].at = "recorded", ![w].row = 0]
    /\ UNCHANGED <<ledger, enabled, posts, refused, outages>>

(* Mutant: the ceiling is off by one. *)
RetryDueAtCeiling(w) == work[w].result = "transient" /\ work[w].attempt <= MaxDeliveryAttempts

(* _finish: whether the next attempt is due ... *)
RetryDue(w) == work[w].result = "transient" /\ work[w].attempt < MaxDeliveryAttempts
NextRetry(w) == <<"retry", work[w].attempt + 1>>

(* ... enqueue_job finds no job under the key, inserts one and flushes later. *)
LookUpKey(w) ==
    /\ work[w].at = "recorded"
    /\ work' = [work EXCEPT ![w] =
                 IF RetryDue(w) /\ stage[NextRetry(w)] = "absent"
                 THEN [@ EXCEPT !.at = "inserting", !.result = "none"] ELSE Over(work[w].job)]
    /\ UNCHANGED <<ledger, enabled, rows, posts, refused, outages>>

InsertRetry(w) ==
    /\ work[w].at = "inserting"
    /\ Queue!Submit(NextRetry(w))
    /\ work' = [work EXCEPT ![w] = Over(work[w].job)]
    /\ UNCHANGED <<enabled, rows, posts, refused, outages>>

(* Another session has committed the key since: the flush raises, the session  *)
(* is unusable, complete_job raises as well, and the worker process exits.     *)
InsertCollides(w) ==
    /\ work[w].at = "inserting"
    /\ stage[NextRetry(w)] # "absent"
    /\ Queue!Vanish(w)
    /\ work' = [work EXCEPT ![w] = Idle]
    /\ UNCHANGED <<enabled, rows, posts, refused, outages>>

(* complete_job: for both handlers the job has succeeded, whatever the answer. *)
Return(w) ==
    /\ work[w].at = "over"
    /\ Queue!Finish(w, work[w].job)
    /\ work' = [work EXCEPT ![w] = Idle]
    /\ UNCHANGED <<enabled, rows, posts, refused, outages>>

-----------------------------------------------------------------------------
(* What goes wrong. *)

(* An exception deliver_webhook does not catch, before the answer is recorded: *)
(* complete_job commits the job's retry, and the flushed row with it.          *)
Raise(w) ==
    /\ work[w].at \in {"posting", "answered"}
    /\ outages < MaxOutages
    /\ outages' = outages + 1
    /\ Queue!Fail(w, work[w].job)
    /\ stage'[work[w].job] = IF failures[work[w].job] + 1 < JobAttempts THEN "open" ELSE "failed"
    /\ rows' = IF work[w].row = 0
               THEN Append(rows, Delivery(work[w].attempt, "automatic_retry", "pending"))
               ELSE rows
    /\ work' = [work EXCEPT ![w] = Idle]
    /\ UNCHANGED <<enabled, posts, refused>>

(* A worker dies, and what it has not committed with it; another takes over.   *)
Crash(w) ==
    /\ work[w].at # "idle"
    /\ outages < MaxOutages
    /\ outages' = outages + 1
    /\ Queue!Vanish(w)
    /\ work' = [work EXCEPT ![w] = Idle]
    /\ UNCHANGED <<enabled, rows, posts, refused>>

(* Mutant: recovery passes over the job that has been lost before. *)
LostOnce == {j \in Jobs : stage[j] = "held" /\ holder[j] = None /\ failures[j] = 0}

(* Jobs whose worker is gone and whose lease will lapse. *)
Lost == {j \in Jobs : stage[j] = "held" /\ holder[j] = None}

Recover ==
    /\ Lost # {}
    /\ Queue!Reclaim(Lost)
    /\ UNCHANGED <<enabled, rows, work, posts, refused, outages>>

-----------------------------------------------------------------------------
Organization ==
    \/ Emit
    \/ \E d \in DOMAIN rows : Resend(d)
    \/ Switch

Handle(w) ==
    \/ \E j \in Jobs : BeginDelivery(w, j) \/ BeginRetry(w, j)
    \/ \E a \in Answers : Post(w, a)
    \/ Record(w) \/ LookUpKey(w) \/ InsertRetry(w) \/ InsertCollides(w) \/ Return(w)

Fault(w) == Raise(w) \/ Crash(w)

Next ==
    \/ Organization
    \/ Recover
    \/ \E w \in Workers : Handle(w) \/ Fault(w)

Spec == Init /\ [][Next]_vars

(* A worker polls, requests time out, and recovery is part of every poll.      *)
Fairness ==
    /\ \A w \in Workers : WF_vars(Handle(w))
    /\ WF_vars(Recover)

FairSpec == Spec /\ Fairness

-----------------------------------------------------------------------------
(* Correctness. *)

States == {"pending"} \cup Answers
Rows == [attempt : Nat \ {0}, trigger : {"automatic", "automatic_retry", "manual_resend"},
         state : States]
Places == {"idle", "posting", "answered", "recorded", "inserting", "over"}

(* Every variable keeps its type; attempts are numbered from 1 and automatic   *)
(* ones stop at the ceiling; a busy worker holds the job it works on.          *)
TypeOK ==
    /\ stage \in [Jobs -> {"absent", "open", "held", "done", "failed"}]
    /\ holder \in [Jobs -> Workers \cup {None}]
    /\ failures \in [Jobs -> Nat]
    /\ enabled \in BOOLEAN
    /\ rows \in Seq(Rows)
    /\ \A d \in DOMAIN rows : rows[d].trigger = "automatic_retry" =>
                               rows[d].attempt \in 2..MaxDeliveryAttempts
    /\ work \in [Workers -> [at : Places, job : Jobs \cup {None}, row : Nat, attempt : Nat,
                             result : Answers \cup {"none"}]]
    /\ posts \in [Jobs -> Nat]
    /\ refused \in BOOLEAN
    /\ outages \in Nat
    /\ \A w \in Workers :
         IF work[w].at = "idle" THEN \A j \in Jobs : holder[j] # w
         ELSE work[w].job \in Jobs /\ stage[work[w].job] = "held" /\ holder[work[w].job] = w

(* The job whose execution made, or is to make, the outcome of a row. *)
JobOf(d) == IF rows[d].trigger = "automatic_retry" THEN <<"retry", rows[d].attempt>>
            ELSE <<"deliver", d>>

(* What ends a chain at row d, failed for a transient reason: the next attempt *)
(* exists as a job, or the job at work on this one is not over yet, or it was  *)
(* given up, or an execution of it ended otherwise.                            *)
Continued(d) ==
    \/ stage[<<"retry", rows[d].attempt + 1>>] # "absent"
    \/ stage[JobOf(d)] # "done"
    \/ rows[d].trigger = "automatic_retry" /\
         (refused \/ \E e \in DOMAIN rows : JobOf(e) = JobOf(d)
                                              /\ rows[e].state \in {"succeeded", "final"})

(* No delivery is forgotten: an announced or resent one that is pending has a  *)
(* job that is not done, and a transient failure below the ceiling is always   *)
(* followed up, whatever crashes between recording it and enqueueing the next  *)
(* attempt, and whoever else asks for the same attempt.                        *)
NothingForgotten ==
    \A d \in DOMAIN rows :
        /\ rows[d].state = "pending" /\ rows[d].trigger # "automatic_retry"
             => stage[JobOf(d)] \in {"open", "held", "failed"}
        /\ rows[d].state = "transient" /\ rows[d].attempt < MaxDeliveryAttempts
             => Continued(d)

(* The receiver sees a job's delivery again only because an execution of the   *)
(* job was lost, and never more often than the job may run.                    *)
RepeatsNeedLosses ==
    \A j \in Jobs : posts[j] <= failures[j] + 1 /\ posts[j] <= JobAttempts

(* History is append-only: a row with an outcome is never written again, no    *)
(* row disappears.                                                             *)
OutcomesAreFinal ==
    [][\A d \in DOMAIN rows :
         d \in DOMAIN rows' /\ (rows[d].state # "pending" => rows'[d] = rows[d])]_vars

(* The chain of attempts ends, whatever the receiver answers and whoever is    *)
(* lost on the way: again and again no delivery job is left to run.            *)
ChainEnds == []<>(\A j \in Jobs : stage[j] \notin {"open", "held"})
=============================================================================
