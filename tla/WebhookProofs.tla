---------------------------- MODULE WebhookProofs ----------------------------
(***************************************************************************)
(* What WebhookDeliveries.tla promises, for any number of workers, resends *)
(* and outages and any ceilings.  A job is in one worker's hands, who      *)
(* alone touches the rows it stands for (Held, Handling); each request is  *)
(* paid for by an execution that was lost or is the last (Paid); and a job *)
(* is over only when what it stands for has been followed up (Resolved).   *)
(***************************************************************************)
EXTENDS WebhookDeliveries, SequenceTheorems, TLAPS

(* A worker that holds a job works on it, and on no other. *)
Held == \A j \in Jobs, w \in Workers :
           holder[j] = w => stage[j] = "held" /\ work[w].at # "idle" /\ work[w].job = j

(* Jobs are there for the rows they are to deliver, and for no attempt beyond  *)
(* the ceiling; an announced or resent row has its job.                        *)
Present ==
    /\ \A j \in Jobs : stage[j] # "absent" =>
          IF j[1] = "deliver"
          THEN j[2] \in DOMAIN rows /\ rows[j[2]].trigger # "automatic_retry"
          ELSE j[2] <= MaxDeliveryAttempts
    /\ \A d \in DOMAIN rows : rows[d].trigger # "automatic_retry" =>
          d <= MaxRows /\ stage[<<"deliver", d>>] # "absent"

(* What a handler knows of the rows its job stands for. *)
Attempted(w) ==
    LET k == work[w]
    IN  IF k.job[1] = "deliver"
        THEN rows[k.job[2]].state # "pending" /\ rows[k.job[2]].attempt = k.attempt
        ELSE k.attempt = k.job[2]
Handling(w) ==
    LET k == work[w]
    IN  /\ k.at \in {"posting", "answered"} =>
              IF k.job[1] = "deliver"
              THEN k.row = k.job[2] /\ rows[k.row].state = "pending"
                      /\ k.attempt = rows[k.row].attempt
              ELSE k.row = 0 /\ k.attempt = k.job[2]
        /\ k.at \in {"answered", "recorded"} => k.result \in Answers
        /\ k.at \in {"recorded", "inserting"} => Attempted(w)
        /\ k.at = "recorded" =>
              \E d \in DOMAIN rows : JobOf(d) = k.job /\ rows[d].state = k.result
        /\ k.at = "inserting" => k.attempt < MaxDeliveryAttempts

TypeInv ==
    /\ TypeOK
    /\ Held /\ Present
    /\ \A w \in Workers : Handling(w)

(* The requests of a job are paid for: by executions that failed, and by one   *)
(* that is past its request.                                                   *)
Posting(j) == \E w \in Workers : work[w].at = "posting" /\ work[w].job = j
Answered(j) == stage[j] \in {"held", "done"} /\ ~Posting(j)
Paid(j) ==
    /\ failures[j] <= JobAttempts
    /\ stage[j] # "failed" => failures[j] < JobAttempts
    /\ posts[j] <= failures[j] + (IF Answered(j) THEN 1 ELSE 0)

(* What a job stands for has been attempted, and followed up. *)
FollowedUp(d) ==
    \/ stage[<<"retry", rows[d].attempt + 1>>] # "absent"
    \/ rows[d].trigger = "automatic_retry" /\
         (refused \/ \E e \in DOMAIN rows : JobOf(e) = JobOf(d)
                                              /\ rows[e].state \in {"succeeded", "final"})
Resolved(j) ==
    \A d \in DOMAIN rows : JobOf(d) = j =>
        /\ rows[d].trigger # "automatic_retry" => rows[d].state # "pending"
        /\ rows[d].state = "transient" /\ rows[d].attempt < MaxDeliveryAttempts => FollowedUp(d)
Closed(j) == stage[j] = "done" \/ \E w \in Workers : work[w].at = "over" /\ work[w].job = j

IInv ==
    /\ TypeInv
    /\ \A j \in Jobs : Paid(j)
    /\ \A j \in Jobs : Closed(j) => Resolved(j)
-----------------------------------------------------------------------------
(* Jobs and rows. *)

(* A job delivers a row or retries an attempt. *)
LEMMA JobShape ==
    ASSUME NEW j \in Jobs
    PROVE  \/ j[1] = "deliver" /\ j[2] \in 1..MaxRows /\ j = <<"deliver", j[2]>>
           \/ j[1] = "retry" /\ j[2] \in 2..(MaxDeliveryAttempts + 1) /\ j = <<"retry", j[2]>>
BY DEF Jobs

(* Every delivery and every attempt within the bounds has its job. *)
LEMMA JobExists ==
    /\ \A d \in 1..MaxRows : <<"deliver", d>> \in Jobs
    /\ \A n \in 2..(MaxDeliveryAttempts + 1) : <<"retry", n>> \in Jobs
BY DEF Jobs

(* Rows are rows, each with the job it is the outcome of. *)
LEMMA RowsTyped ==
    ASSUME TypeInv
    PROVE  /\ Len(rows) \in Nat /\ DOMAIN rows = 1..Len(rows)
           /\ \A d \in DOMAIN rows : d \in Nat /\ rows[d] \in Rows /\ JobOf(d) \in Jobs
<1>1. rows \in Seq(Rows) BY DEF TypeInv, TypeOK
<1>2. /\ Len(rows) \in Nat /\ DOMAIN rows = 1..Len(rows)
      /\ \A d \in DOMAIN rows : rows[d] \in Rows
    BY <1>1, LenProperties, ElementOfSeq
<1>3. ASSUME NEW d \in DOMAIN rows PROVE JobOf(d) \in Jobs
  <2>1. CASE rows[d].trigger = "automatic_retry"
    <3>1. rows[d].attempt \in 2..(MaxDeliveryAttempts + 1)
        BY <2>1, WebhookConstants DEF TypeInv, TypeOK
    <3> QED BY <2>1, <3>1, JobExists DEF JobOf
  <2>2. CASE rows[d].trigger # "automatic_retry"
    <3>1. d <= MaxRows BY <2>2 DEF TypeInv, Present
    <3>2. d \in 1..MaxRows BY <1>2, <3>1, WebhookConstants
    <3> QED BY <2>2, <3>2, JobExists DEF JobOf
  <2> QED BY <2>1, <2>2
<1> QED BY <1>2, <1>3

(* One row more. *)
LEMMA RowAppended ==
    ASSUME TypeInv, NEW r \in Rows, rows' = Append(rows, r)
    PROVE  /\ rows' \in Seq(Rows) /\ DOMAIN rows' = 1..(Len(rows) + 1)
           /\ \A d \in DOMAIN rows : rows'[d] = rows[d]
           /\ rows'[Len(rows) + 1] = r
           /\ DOMAIN rows \subseteq DOMAIN rows' /\ Len(rows') = Len(rows) + 1
<1>1. rows \in Seq(Rows) BY DEF TypeInv, TypeOK
<1>2. /\ rows' \in Seq(Rows) /\ Len(rows') = Len(rows) + 1
      /\ \A d \in 1..Len(rows) : rows'[d] = rows[d]
      /\ rows'[Len(rows) + 1] = r
    BY <1>1, AppendProperties
<1>3. DOMAIN rows' = 1..Len(rows') BY <1>2, LenProperties
<1> QED BY <1>2, <1>3, RowsTyped

(* One row's state written. *)
LEMMA RowWritten ==
    ASSUME TypeInv, NEW d \in DOMAIN rows, NEW s \in States,
           rows' = [rows EXCEPT ![d].state = s]
    PROVE  /\ rows' \in Seq(Rows) /\ DOMAIN rows' = DOMAIN rows
           /\ \A e \in DOMAIN rows : e # d => rows'[e] = rows[e]
           /\ rows'[d] \in Rows /\ rows'[d].state = s
           /\ rows'[d].attempt = rows[d].attempt /\ rows'[d].trigger = rows[d].trigger
<1>1. /\ rows[d] \in Rows /\ Len(rows) \in Nat /\ DOMAIN rows = 1..Len(rows)
      /\ rows \in [1..Len(rows) -> Rows]
    BY RowsTyped, LenProperties DEF TypeInv, TypeOK
<1>2. [rows[d] EXCEPT !.state = s] \in Rows BY <1>1 DEF Rows
<1>3. rows' \in [1..Len(rows) -> Rows] BY <1>1, <1>2
<1>4. rows' \in Seq(Rows) BY <1>1, <1>3, SeqDef
<1>5. rows'[d] = [rows[d] EXCEPT !.state = s] BY <1>1
<1> QED BY <1>1, <1>2, <1>4, <1>5 DEF Rows

-----------------------------------------------------------------------------
(* What a step does to the rows, and to whose. *)

(* A worker's job is held, by it alone, and is not closed before it is over. *)
LEMMA Working ==
    ASSUME TypeInv, NEW w \in Workers, work[w].at # "idle"
    PROVE  /\ work[w].job \in Jobs /\ stage[work[w].job] = "held"
           /\ holder[work[w].job] = w
           /\ \A v \in Workers : work[v].at # "idle" /\ work[v].job = work[w].job => v = w
           /\ work[w].at # "over" => ~Closed(work[w].job)
<1>1. \A v \in Workers : work[v].at # "idle" =>
          work[v].job \in Jobs /\ stage[work[v].job] = "held" /\ holder[work[v].job] = v
    BY DEF TypeInv, TypeOK
<1>2. \A v \in Workers : work[v].at # "idle" /\ work[v].job = work[w].job => v = w
    BY <1>1
<1>3. work[w].at # "over" => ~Closed(work[w].job)
    BY <1>1, <1>2 DEF Closed
<1> QED BY <1>1, <1>2, <1>3

(* The row a delivery job is for, and the attempts a retry is for. *)
LEMMA WorkingOn ==
    ASSUME TypeInv, NEW w \in Workers, work[w].at # "idle"
    PROVE  \/ /\ work[w].job = <<"deliver", work[w].job[2]>> /\ work[w].job[1] = "deliver"
              /\ work[w].job[2] \in DOMAIN rows
              /\ rows[work[w].job[2]].trigger # "automatic_retry"
           \/ /\ work[w].job = <<"retry", work[w].job[2]>> /\ work[w].job[1] = "retry"
              /\ work[w].job[2] \in 2..MaxDeliveryAttempts
<1>1. work[w].job \in Jobs /\ stage[work[w].job] = "held" BY Working
<1> QED BY <1>1, JobShape, WebhookConstants DEF TypeInv, Present

(* A row may come or be written, but only for a job that is still open, and    *)
(* never over an outcome.                                                      *)
Kept ==
    /\ DOMAIN rows \subseteq DOMAIN rows'
    /\ \A d \in DOMAIN rows :
          /\ rows'[d].attempt = rows[d].attempt /\ rows'[d].trigger = rows[d].trigger
          /\ rows[d].state # "pending" => rows'[d] = rows[d]
Touched(j) ==
    \A d \in DOMAIN rows' :
        (d \in DOMAIN rows /\ rows'[d] = rows[d]) \/ JobOf(d)' = j
RowsRight ==
    /\ rows \in Seq(Rows)
    /\ \A d \in DOMAIN rows : rows[d].trigger = "automatic_retry" =>
                              rows[d].attempt \in 2..MaxDeliveryAttempts

(* An event adds its first row. *)
LEMMA EmitRows ==
    ASSUME TypeInv, Emit PROVE Kept /\ RowsRight' /\ Touched(<<"deliver", 1>>)
<1> DEFINE r == Delivery(1, "automatic", "pending")
<1>1. r \in Rows BY DEF Delivery, Rows, States
<1>2. rows = <<>> /\ rows' = <<r>> BY DEF Emit
<1>3. rows' = Append(rows, r) /\ Len(rows) = 0 BY <1>2
<1>4. /\ DOMAIN rows' = 1..1 /\ DOMAIN rows = {} /\ rows'[1] = r /\ rows' \in Seq(Rows)
    BY <1>1, <1>3, RowAppended, RowsTyped
<1> QED BY <1>4 DEF Kept, RowsRight, Touched, JobOf, Delivery

(* A resend adds a row and leaves the one it repeats. *)
LEMMA ResendRows ==
    ASSUME TypeInv, NEW d \in DOMAIN rows, Resend(d)
    PROVE  Kept /\ RowsRight' /\ Touched(<<"deliver", Len(rows) + 1>>)
<1> DEFINE r == Delivery(rows[d].attempt + 1, "manual_resend", "pending")
<1>1. r \in Rows BY RowsTyped DEF Delivery, Rows, States
<1>2. rows' = Append(rows, r) BY DEF Resend
<1>3. /\ DOMAIN rows' = 1..(Len(rows) + 1) /\ rows'[Len(rows) + 1] = r /\ rows' \in Seq(Rows)
      /\ DOMAIN rows \subseteq DOMAIN rows' /\ \A e \in DOMAIN rows : rows'[e] = rows[e]
    BY <1>1, <1>2, RowAppended
<1>4. \A e \in DOMAIN rows' : e \in DOMAIN rows \/ e = Len(rows) + 1
    BY <1>3, RowsTyped
<1>5. r.trigger = "manual_resend" BY DEF Delivery
<1>6. RowsRight'
    BY <1>3, <1>4, <1>5 DEF RowsRight, TypeInv, TypeOK
<1> QED BY <1>3, <1>4, <1>5, <1>6 DEF Kept, Touched, JobOf

(* A retry's row. *)
LEMMA RetryRow ==
    ASSUME TypeInv, NEW w \in Workers, work[w].at \in {"posting", "answered"}, work[w].row = 0,
           NEW s \in States, rows' = Append(rows, Delivery(work[w].attempt, "automatic_retry", s))
    PROVE  /\ Kept /\ RowsRight' /\ Touched(work[w].job)
           /\ work[w].job[1] = "retry"
           /\ \E d \in DOMAIN rows' : JobOf(d)' = work[w].job /\ rows'[d].state = s
<1> DEFINE r == Delivery(work[w].attempt, "automatic_retry", s)
<1>1. /\ work[w].job = <<"retry", work[w].attempt>> /\ work[w].job[1] = "retry"
      /\ work[w].attempt \in 2..MaxDeliveryAttempts
    BY WorkingOn, RowsTyped DEF TypeInv, Handling
<1>2. r \in Rows BY <1>1 DEF Delivery, Rows
<1>3. /\ DOMAIN rows' = 1..(Len(rows) + 1) /\ rows'[Len(rows) + 1] = r /\ rows' \in Seq(Rows)
      /\ DOMAIN rows \subseteq DOMAIN rows' /\ \A e \in DOMAIN rows : rows'[e] = rows[e]
    BY <1>2, RowAppended
<1>n. PICK n \in Nat : n = Len(rows) + 1
    BY RowsTyped
<1>4. /\ n \in DOMAIN rows' /\ rows'[n] = r
      /\ \A e \in DOMAIN rows' : e \in DOMAIN rows \/ e = n
    BY <1>n, <1>3, RowsTyped
<1>5. r.trigger = "automatic_retry" /\ r.attempt = work[w].attempt /\ r.state = s
    BY DEF Delivery
<1>6. RowsRight'
    BY <1>1, <1>3, <1>4, <1>5 DEF RowsRight, TypeInv, TypeOK
<1>7. JobOf(n)' = work[w].job BY <1>1, <1>4, <1>5 DEF JobOf
<1> QED BY <1>1, <1>3, <1>4, <1>5, <1>6, <1>7 DEF Kept, Touched

(* An outcome is written to a row of the job at work. *)
LEMMA RecordRows ==
    ASSUME TypeInv, NEW w \in Workers, Record(w)
    PROVE  /\ Kept /\ RowsRight' /\ Touched(work[w].job)
           /\ \E d \in DOMAIN rows' : JobOf(d)' = work[w].job /\ rows'[d].state = work[w].result
           /\ work[w].job[1] = "deliver" =>
                 rows'[work[w].job[2]].state = work[w].result
<1>1. work[w].at = "answered" /\ work[w].result \in Answers /\ work[w].result \in States
    BY DEF Record, TypeInv, Handling, States
<1>2. CASE work[w].row = 0
  <2>1. rows' = Append(rows, Delivery(work[w].attempt, "automatic_retry", work[w].result))
      BY <1>2 DEF Record
  <2> QED BY <1>1, <1>2, <2>1, RetryRow
<1>3. CASE work[w].row # 0
  <2>0. PICK d : d = work[w].row OBVIOUS
  <2>1. /\ d \in DOMAIN rows /\ work[w].job = <<"deliver", d>> /\ work[w].job[2] = d
        /\ rows[d].state = "pending" /\ rows[d].trigger # "automatic_retry"
      BY <1>1, <1>3, <2>0, WorkingOn DEF TypeInv, Handling
  <2>2. rows' = [rows EXCEPT ![d].state = work[w].result]
      BY <1>3, <2>0 DEF Record
  <2>3. /\ rows' \in Seq(Rows) /\ DOMAIN rows' = DOMAIN rows
        /\ \A e \in DOMAIN rows : e # d => rows'[e] = rows[e]
        /\ rows'[d].state = work[w].result
        /\ rows'[d].attempt = rows[d].attempt /\ rows'[d].trigger = rows[d].trigger
      BY <1>1, <2>1, <2>2, RowWritten
  <2>4. JobOf(d)' = work[w].job BY <2>1, <2>3 DEF JobOf
  <2>5. RowsRight' BY <2>1, <2>3 DEF RowsRight, TypeInv, TypeOK
  <2> QED BY <2>1, <2>3, <2>4, <2>5 DEF Kept, Touched
<1> QED BY <1>2, <1>3

(* An exception commits at most the row a retry had flushed. *)
LEMMA RaiseRows ==
    ASSUME TypeInv, NEW w \in Workers, Raise(w)
    PROVE  Kept /\ RowsRight' /\ Touched(work[w].job)
<1>1. CASE work[w].row = 0
    BY <1>1, RetryRow DEF Raise, States
<1>2. CASE work[w].row # 0
    BY <1>2 DEF Raise, Kept, RowsRight, Touched, TypeInv, TypeOK
<1> QED BY <1>1, <1>2

(* The other steps leave the rows alone. *)
LEMMA SameRows ==
    ASSUME TypeInv, rows' = rows
    PROVE  Kept /\ RowsRight' /\ \A j : Touched(j)
BY DEF Kept, RowsRight, Touched, TypeInv, TypeOK
-----------------------------------------------------------------------------
(* Who holds what. *)

Tasks == [at : Places, job : Jobs \cup {None}, row : Nat, attempt : Nat,
          result : Answers \cup {"none"}]
Holding ==
    /\ work \in [Workers -> Tasks]
    /\ \A w \in Workers :
         IF work[w].at = "idle" THEN \A j \in Jobs : holder[j] # w
         ELSE work[w].job \in Jobs /\ stage[work[w].job] = "held" /\ holder[work[w].job] = w
    /\ Held
Ledgers ==
    /\ stage \in [Jobs -> {"absent", "open", "held", "done", "failed"}]
    /\ holder \in [Jobs -> Workers \cup {None}]
    /\ failures \in [Jobs -> Nat]

(* The parts of the type invariant, by name. *)
LEMMA Known == TypeInv => Ledgers /\ Holding
BY DEF TypeInv, TypeOK, Ledgers, Holding, Tasks

(* A submitted job, and what stays as it was. *)
LEMMA Submitted ==
    ASSUME TypeInv, NEW j \in Jobs, Queue!Submit(j)
    PROVE  /\ Ledgers' /\ holder' = holder /\ failures' = failures
           /\ stage[j] = "absent" /\ stage'[j] = "open"
           /\ \A i \in Jobs : i # j => stage'[i] = stage[i]
BY Known DEF Queue!Submit, Ledgers

(* A worker goes on with its job. *)
LEMMA TaskKept ==
    ASSUME TypeInv, NEW w \in Workers, NEW k \in Tasks, work' = [work EXCEPT ![w] = k],
           work[w].at # "idle", k.at # "idle", k.job = work[w].job, holder' = holder,
           \A j \in Jobs : stage[j] = "held" => stage'[j] = "held"
    PROVE  Holding'
<1>1. Holding BY Known
<1>2. work'[w] = k /\ \A v \in Workers : v # w => work'[v] = work[v]
    BY <1>1 DEF Holding
<1>3. work' \in [Workers -> Tasks] BY <1>1 DEF Holding
<1> QED BY <1>1, <1>2, <1>3 DEF Holding, Held

(* An idle worker takes a job. *)
LEMMA TaskTaken ==
    ASSUME TypeInv, NEW w \in Workers, NEW j \in Jobs, NEW k \in Tasks,
           Take(w, j), work' = [work EXCEPT ![w] = k], k.at # "idle", k.job = j
    PROVE  /\ Ledgers' /\ Holding'
           /\ stage[j] = "open" /\ stage'[j] = "held" /\ failures' = failures
           /\ \A i \in Jobs : i # j => stage'[i] = stage[i]
<1>1. Ledgers /\ Holding BY Known
<1>2. /\ work[w].at = "idle" /\ stage[j] = "open" /\ holder[j] = None
      /\ stage' = [stage EXCEPT ![j] = "held"] /\ holder' = [holder EXCEPT ![j] = w]
      /\ failures' = failures
    BY DEF Take, Queue!Take
<1>3. work'[w] = k /\ \A v \in Workers : v # w => work'[v] = work[v]
    BY <1>1 DEF Holding
<1>4. work' \in [Workers -> Tasks] BY <1>1 DEF Holding
<1>5. Ledgers' BY <1>1, <1>2 DEF Ledgers
<1>6. /\ stage'[j] = "held" /\ holder'[j] = w
      /\ \A i \in Jobs : i # j => stage'[i] = stage[i] /\ holder'[i] = holder[i]
    BY <1>1, <1>2 DEF Ledgers
<1>7. None \notin Workers BY WebhookConstants
<1>8. Holding' BY <1>1, <1>2, <1>3, <1>4, <1>6, <1>7 DEF Holding, Held
<1> QED BY <1>2, <1>5, <1>6, <1>8

(* A worker lets go of its job. *)
LEMMA TaskLeft ==
    ASSUME TypeInv, NEW w \in Workers, work[w].at # "idle", work' = [work EXCEPT ![w] = Idle],
           \A j \in Jobs : j # work[w].job => stage'[j] = stage[j] /\ holder'[j] = holder[j],
           holder'[work[w].job] = None
    PROVE  Holding'
<1>1. Holding BY Known
<1>2. Idle \in Tasks /\ Idle.at = "idle" BY DEF Idle, Tasks, Places
<1>3. work'[w] = Idle /\ \A v \in Workers : v # w => work'[v] = work[v]
    BY <1>1 DEF Holding
<1>4. work' \in [Workers -> Tasks] BY <1>1, <1>2 DEF Holding
<1>5. None \notin Workers BY WebhookConstants
<1> QED BY <1>1, <1>2, <1>3, <1>4, <1>5 DEF Holding, Held

(* What finishing, failing and vanishing do to the worker's job. *)
LEMMA Finished ==
    ASSUME TypeInv, NEW w \in Workers, work[w].at # "idle", Queue!Finish(w, work[w].job)
    PROVE  /\ Ledgers' /\ failures' = failures
           /\ stage'[work[w].job] = "done" /\ holder'[work[w].job] = None
           /\ \A j \in Jobs : j # work[w].job => stage'[j] = stage[j] /\ holder'[j] = holder[j]
BY Known, Working DEF Queue!Finish, Ledgers

(* An execution that failed leaves its job failed, or open with attempts left. *)
LEMMA Failed ==
    ASSUME TypeInv, NEW w \in Workers, work[w].at # "idle", Queue!Fail(w, work[w].job)
    PROVE  /\ Ledgers' /\ holder'[work[w].job] = None
           /\ failures'[work[w].job] = failures[work[w].job] + 1
           /\ \/ stage'[work[w].job] = "failed"
              \/ stage'[work[w].job] = "open" /\ failures[work[w].job] + 1 < JobAttempts
           /\ \A j \in Jobs : j # work[w].job =>
                 stage'[j] = stage[j] /\ holder'[j] = holder[j] /\ failures'[j] = failures[j]
<1>1. Ledgers /\ work[w].job \in Jobs BY Known, Working
<1>2. \/ stage' = [stage EXCEPT ![work[w].job] = "failed"]
      \/ failures[work[w].job] + 1 < JobAttempts /\ stage' = [stage EXCEPT ![work[w].job] = "open"]
    BY DEF Queue!Fail
<1>3. /\ failures' = [failures EXCEPT ![work[w].job] = @ + 1]
      /\ holder' = [holder EXCEPT ![work[w].job] = None]
    BY DEF Queue!Fail
<1> QED BY <1>1, <1>2, <1>3 DEF Ledgers

(* A lost worker leaves its job held by nobody. *)
LEMMA Vanished ==
    ASSUME TypeInv, NEW w \in Workers, work[w].at # "idle", Queue!Vanish(w)
    PROVE  /\ Ledgers' /\ failures' = failures /\ stage' = stage
           /\ holder'[work[w].job] = None
           /\ \A j \in Jobs : j # work[w].job => holder'[j] = holder[j]
<1>1. Ledgers /\ Holding /\ work[w].job \in Jobs /\ holder[work[w].job] = w
    BY Known, Working
<1>2. /\ holder' = [j \in Jobs |-> IF holder[j] = w THEN None ELSE holder[j]]
      /\ stage' = stage /\ failures' = failures
    BY DEF Queue!Vanish
<1> QED BY <1>1, <1>2 DEF Ledgers, Holding, Held

(* Recovery fails or reopens the jobs that nobody holds, and no other. *)
LEMMA Reclaimed ==
    ASSUME TypeInv, Recover
    PROVE  /\ Ledgers' /\ Holding'
           /\ \A j \in Jobs \ Lost : stage'[j] = stage[j] /\ failures'[j] = failures[j]
           /\ \A j \in Lost : /\ stage[j] = "held" /\ failures'[j] = failures[j] + 1
                              /\ stage'[j] = IF failures[j] + 1 >= JobAttempts THEN "failed"
                                             ELSE "open"
<1>1. Ledgers /\ Holding BY Known
<1>2. /\ failures' = [j \in Jobs |-> IF j \in Lost THEN failures[j] + 1 ELSE failures[j]]
      /\ stage' = [j \in Jobs |-> IF j \notin Lost THEN stage[j]
                                  ELSE IF failures[j] + 1 >= JobAttempts THEN "failed"
                                  ELSE "open"]
      /\ holder' = holder /\ work' = work
    BY DEF Recover, Queue!Reclaim
<1>3. Lost \subseteq Jobs /\ \A j \in Lost : stage[j] = "held" /\ holder[j] = None
    BY DEF Lost
<1>4. Ledgers' BY <1>1, <1>2, <1>3 DEF Ledgers
<1>5. None \notin Workers BY WebhookConstants
<1>6. \A j \in Jobs : holder[j] \in Workers => stage'[j] = stage[j]
    BY <1>2, <1>3, <1>5
<1>7. Holding' BY <1>1, <1>2, <1>6 DEF Holding, Held
<1> QED BY <1>2, <1>3, <1>4, <1>7
-----------------------------------------------------------------------------
(* Each step keeps the types, and adds to what has happened. *)

RestTyped ==
    /\ enabled \in BOOLEAN /\ refused \in BOOLEAN
    /\ posts \in [Jobs -> Nat] /\ outages \in Nat

Forward ==
    /\ Kept
    /\ \A j \in Jobs : stage[j] # "absent" => stage'[j] # "absent"
    /\ refused => refused'
Opened(t) == Touched(t) /\ (t \in Jobs => ~Closed(t))

(* Jobs and rows come in pairs. *)
LEMMA PresentKept ==
    ASSUME TypeInv, Kept, NEW t, Touched(t),
           rows' = rows \/ (t \in Jobs /\ (t[1] = "deliver" => stage'[t] # "absent")),
           \A j \in Jobs : stage[j] # "absent" => stage'[j] # "absent",
           \A j \in Jobs : stage[j] = "absent" /\ stage'[j] # "absent" =>
              IF j[1] = "deliver"
              THEN j[2] \in DOMAIN rows' /\ rows'[j[2]].trigger # "automatic_retry"
              ELSE j[2] <= MaxDeliveryAttempts
    PROVE  Present'
<1>1. Present BY DEF TypeInv
<1>2. ASSUME NEW j \in Jobs, stage'[j] # "absent"
      PROVE  IF j[1] = "deliver"
             THEN j[2] \in DOMAIN rows' /\ rows'[j[2]].trigger # "automatic_retry"
             ELSE j[2] <= MaxDeliveryAttempts
    BY <1>1, <1>2 DEF Present, Kept
<1>3. ASSUME NEW d \in DOMAIN rows', rows'[d].trigger # "automatic_retry"
      PROVE  d <= MaxRows /\ stage'[<<"deliver", d>>] # "absent"
  <2>1. CASE d \in DOMAIN rows
    <3>1. d <= MaxRows /\ stage[<<"deliver", d>>] # "absent"
        BY <1>1, <1>3, <2>1 DEF Present, Kept
    <3>2. d \in 1..MaxRows BY <2>1, <3>1, RowsTyped, WebhookConstants
    <3> QED BY <3>1, <3>2, JobExists
  <2>2. CASE d \notin DOMAIN rows
    <3>1. JobOf(d)' = t BY <2>2 DEF Touched
    <3>2. t = <<"deliver", d>> BY <1>3, <3>1 DEF JobOf
    <3>3. t[1] = "deliver" /\ t[2] = d BY <3>2
    <3>4. t \in Jobs /\ stage'[t] # "absent" BY <2>2, <3>3
    <3>5. d \in 1..MaxRows BY <3>3, <3>4, JobShape
    <3> QED BY <3>2, <3>4, <3>5
  <2> QED BY <2>1, <2>2
<1> QED BY <1>2, <1>3 DEF Present

(* Whoever works on another job is not concerned. *)
LEMMA OthersHandle ==
    ASSUME TypeInv, Kept, NEW v \in Workers, work'[v] = work[v],
           NEW t, Touched(t), rows' = rows \/ (work[v].at # "idle" => work[v].job # t)
    PROVE  Handling(v)'
<1>1. Handling(v) BY DEF TypeInv
<1>2. CASE work[v].at = "idle" BY <1>2 DEF Handling
<1>3. CASE rows' = rows BY <1>1, <1>3 DEF Handling, Attempted, JobOf
<1>4. CASE work[v].at # "idle" /\ work[v].job # t
  <2>1. ASSUME work[v].job[1] = "deliver"
        PROVE  rows'[work[v].job[2]] = rows[work[v].job[2]]
    <3>1. PICK d \in DOMAIN rows : /\ d = work[v].job[2] /\ work[v].job = <<"deliver", d>>
                                   /\ rows[d].trigger # "automatic_retry"
        BY <1>4, <2>1, WorkingOn
    <3>2. JobOf(d)' = <<"deliver", d>> BY <3>1 DEF JobOf, Kept
    <3> QED BY <1>4, <3>1, <3>2 DEF Touched, Kept
  <2>2. ASSUME NEW d \in DOMAIN rows, JobOf(d) = work[v].job
        PROVE  d \in DOMAIN rows' /\ JobOf(d)' = work[v].job /\ rows'[d] = rows[d]
    <3>1. d \in DOMAIN rows' /\ JobOf(d)' = JobOf(d) BY DEF JobOf, Kept
    <3> QED BY <1>4, <2>2, <3>1 DEF Touched
  <2> QED BY <1>1, <1>4, <2>1, <2>2 DEF Handling, Attempted
<1> QED BY <1>2, <1>3, <1>4

(* An event keeps the types: its job is new, and nobody works on it. *)
LEMMA EmitKeeps ==
    ASSUME TypeInv, Emit PROVE TypeInv' /\ Forward /\ \E t : Opened(t)
<1>1. PICK t : t = <<"deliver", 1>> OBVIOUS
<1>2. t \in Jobs BY <1>1, JobExists, WebhookConstants
<1>3. Kept /\ RowsRight' /\ Touched(t) BY <1>1, EmitRows
<1>4. /\ Ledgers' /\ holder' = holder /\ stage[t] = "absent" /\ stage'[t] = "open"
      /\ \A j \in Jobs : j # t => stage'[j] = stage[j]
    BY <1>1, <1>2, Submitted DEF Emit
<1>5. work' = work /\ enabled' = enabled /\ refused' = refused /\ posts' = posts
      /\ outages' = outages
    BY DEF Emit
<1>6. Holding'
  <2>1. Holding BY Known
  <2>2. \A j \in Jobs : stage[j] = "held" => stage'[j] = "held" BY <1>4
  <2> QED BY <2>1, <2>2, <1>4, <1>5 DEF Holding, Held
<1>7. \A j \in Jobs : stage[j] # "absent" => stage'[j] # "absent" BY <1>4
<1>8. 1 \in DOMAIN rows' /\ rows'[1].trigger # "automatic_retry"
    BY DEF Emit, Delivery
<1>9. Present' BY <1>1, <1>2, <1>3, <1>4, <1>7, <1>8, PresentKept
<1>10. \A v \in Workers : Handling(v)'
  <2>1. \A v \in Workers : work[v].at # "idle" => work[v].job # t BY <1>4, Working
  <2> QED BY <1>3, <1>5, <2>1, OthersHandle
<1>11. RestTyped' BY <1>5 DEF RestTyped, TypeInv, TypeOK
<1>12. ~Closed(t) BY <1>4, Working DEF Closed
<1>13. TypeInv' BY <1>3, <1>4, <1>6, <1>9, <1>10, <1>11
    DEF TypeInv, TypeOK, Ledgers, Holding, RowsRight, RestTyped, Tasks
<1> QED BY <1>3, <1>5, <1>7, <1>12, <1>13 DEF Forward, Opened

(* So does a resend. *)
LEMMA ResendKeeps ==
    ASSUME TypeInv, NEW d \in DOMAIN rows, Resend(d)
    PROVE  TypeInv' /\ Forward /\ \E t : Opened(t)
<1>1. PICK n \in Nat : n = Len(rows) + 1 BY RowsTyped
<1>t. PICK t : t = <<"deliver", n>> OBVIOUS
<1>2. t \in Jobs BY <1>1, <1>t, JobExists, RowsTyped, WebhookConstants DEF Resend
<1>3. Kept /\ RowsRight' /\ Touched(t) BY <1>1, <1>t, ResendRows
<1>4. /\ Ledgers' /\ holder' = holder /\ stage[t] = "absent" /\ stage'[t] = "open"
      /\ \A j \in Jobs : j # t => stage'[j] = stage[j]
    BY <1>1, <1>t, <1>2, Submitted DEF Resend
<1>5. work' = work /\ enabled' = enabled /\ refused' = refused /\ posts' = posts
      /\ outages' = outages
    BY DEF Resend
<1>6. Holding'
  <2>1. Holding BY Known
  <2>2. \A j \in Jobs : stage[j] = "held" => stage'[j] = "held" BY <1>4
  <2> QED BY <2>1, <2>2, <1>4, <1>5 DEF Holding, Held
<1>7. \A j \in Jobs : stage[j] # "absent" => stage'[j] # "absent" BY <1>4
<1>8. n \in DOMAIN rows' /\ rows'[n].trigger # "automatic_retry"
  <2> DEFINE r == Delivery(rows[d].attempt + 1, "manual_resend", "pending")
  <2>1. r \in Rows /\ r.trigger = "manual_resend" BY RowsTyped DEF Delivery, Rows, States
  <2>2. rows' = Append(rows, r) BY DEF Resend
  <2>3. DOMAIN rows' = 1..n /\ rows'[n] = r BY <1>1, <2>1, <2>2, RowAppended
  <2> QED BY <1>1, <2>1, <2>3, RowsTyped
<1>9. Present' BY <1>t, <1>2, <1>3, <1>4, <1>7, <1>8, PresentKept
<1>10. \A v \in Workers : Handling(v)'
  <2>1. \A v \in Workers : work[v].at # "idle" => work[v].job # t BY <1>4, Working
  <2> QED BY <1>3, <1>5, <2>1, OthersHandle
<1>11. RestTyped' BY <1>5 DEF RestTyped, TypeInv, TypeOK
<1>12. ~Closed(t) BY <1>4, Working DEF Closed
<1>13. TypeInv' BY <1>3, <1>4, <1>6, <1>9, <1>10, <1>11
    DEF TypeInv, TypeOK, Ledgers, Holding, RowsRight, RestTyped, Tasks
<1> QED BY <1>3, <1>5, <1>7, <1>12, <1>13 DEF Forward, Opened

(* A step that leaves the rows and submits nothing but a retry within the      *)
(* ceiling; what it does to one worker is its own affair.                      *)
LEMMA QuietKeeps ==
    ASSUME TypeInv, rows' = rows, RestTyped', refused => refused', Ledgers', Holding',
           NEW w, \A v \in Workers : v # w => work'[v] = work[v],
           w \in Workers => Handling(w)',
           \A j \in Jobs : stage[j] # "absent" => stage'[j] # "absent",
           \A j \in Jobs : stage[j] = "absent" /\ stage'[j] # "absent" =>
              j[1] = "retry" /\ j[2] <= MaxDeliveryAttempts
    PROVE  TypeInv' /\ Forward /\ \E t : Opened(t)
<1>1. Kept /\ RowsRight' /\ Touched(None) BY SameRows
<1>2. Present' BY <1>1, PresentKept
<1>3. \A v \in Workers : Handling(v)' BY <1>1, OthersHandle
<1>4. None \notin Jobs BY WebhookConstants
<1>5. TypeInv' BY <1>1, <1>2, <1>3
    DEF TypeInv, TypeOK, Ledgers, Holding, RowsRight, RestTyped, Tasks
<1> QED BY <1>1, <1>4, <1>5 DEF Forward, Opened
-----------------------------------------------------------------------------
(* Requests stay paid for, and only what is followed up is closed. *)

Paying == \A j \in Jobs : Paid(j) => Paid(j)'
Settling == \A j \in Jobs : Closed(j)' => Closed(j) \/ Resolved(j)'

(* A job keeps its account when no request of it is sent, no execution of it   *)
(* fails, and nobody starts to post for it but the worker who claims it.       *)
LEMMA PaidKept ==
    ASSUME TypeInv, NEW j \in Jobs, Paid(j), failures'[j] = failures[j], posts'[j] = posts[j],
           stage[j] \in {"held", "done"} => stage'[j] \in {"held", "done"},
           stage'[j] # "failed" => stage[j] # "failed",
           \A v \in Workers : work'[v].at = "posting" /\ work'[v].job = j =>
              (work[v].at = "posting" /\ work[v].job = j) \/ stage[j] = "open"
    PROVE  Paid(j)'
<1>1. failures[j] \in Nat /\ posts[j] \in Nat BY DEF TypeInv, TypeOK
<1>2. CASE stage[j] = "open"
    BY <1>1, <1>2 DEF Paid, Answered
<1>3. CASE stage[j] # "open"
  <2>1. Answered(j) => Answered(j)' BY <1>3 DEF Answered, Posting
  <2> QED BY <1>1, <2>1 DEF Paid
<1> QED BY <1>2, <1>3

(* What the organization does touches no execution. *)
LEMMA AsideSettles ==
    ASSUME TypeInv, work' = work, failures' = failures, posts' = posts,
           \A j \in Jobs : stage'[j] = stage[j] \/ (stage[j] = "absent" /\ stage'[j] = "open")
    PROVE  Paying /\ Settling
<1>1. Paying BY PaidKept DEF Paying
<1>2. Settling BY DEF Settling, Closed
<1> QED BY <1>1, <1>2

(* A worker with its job, or letting go of it, that sends no request. *)
LEMMA WorkPays ==
    ASSUME TypeInv, NEW w \in Workers, NEW k, work' = [work EXCEPT ![w] = k],
           k.at # "posting" \/ (k.job \in Jobs => stage[k.job] = "open"),
           failures' = failures, posts' = posts,
           \A j \in Jobs : /\ stage[j] \in {"held", "done"} => stage'[j] \in {"held", "done"}
                           /\ stage'[j] # "failed" => stage[j] # "failed"
    PROVE  Paying
<1>1. work'[w] = k /\ \A v \in Workers : v # w => work'[v] = work[v]
    BY Known DEF Holding
<1> QED BY <1>1, PaidKept DEF Paying

(* A worker that has not settled its job closes none. *)
LEMMA WorkSettles ==
    ASSUME TypeInv, NEW w \in Workers, NEW k, work' = [work EXCEPT ![w] = k],
           k.at # "over" \/ (k.job \in Jobs => Resolved(k.job)'),
           \A j \in Jobs : stage'[j] = "done" => Closed(j)
    PROVE  Settling
<1>1. work'[w] = k /\ \A v \in Workers : v # w => work'[v] = work[v]
    BY Known DEF Holding
<1> QED BY <1>1 DEF Settling, Closed
-----------------------------------------------------------------------------
(* One lemma per step. *)

Progress == TypeInv' /\ Forward /\ (\E t : Opened(t)) /\ Paying /\ Settling

(* An event is announced. *)
LEMMA EmitProgress == ASSUME TypeInv, Emit PROVE Progress
<1>1. PICK t : t = <<"deliver", 1>> OBVIOUS
<1>2. t \in Jobs BY <1>1, JobExists, WebhookConstants
<1>3. /\ failures' = failures /\ stage[t] = "absent" /\ stage'[t] = "open"
      /\ \A j \in Jobs : j # t => stage'[j] = stage[j]
    BY <1>1, <1>2, Submitted DEF Emit
<1>4. work' = work /\ posts' = posts BY DEF Emit
<1> QED BY <1>3, <1>4, EmitKeeps, AsideSettles DEF Progress

(* A delivery is repeated by hand. *)
LEMMA ResendProgress == ASSUME TypeInv, NEW d \in DOMAIN rows, Resend(d) PROVE Progress
<1>1. PICK n \in Nat : n = Len(rows) + 1 BY RowsTyped
<1>t. PICK t : t = <<"deliver", n>> OBVIOUS
<1>2. t \in Jobs BY <1>1, <1>t, JobExists, RowsTyped, WebhookConstants DEF Resend
<1>3. /\ failures' = failures /\ stage[t] = "absent" /\ stage'[t] = "open"
      /\ \A j \in Jobs : j # t => stage'[j] = stage[j]
    BY <1>1, <1>t, <1>2, Submitted DEF Resend
<1>4. work' = work /\ posts' = posts BY DEF Resend
<1> QED BY <1>3, <1>4, ResendKeeps, AsideSettles DEF Progress

(* The endpoint is switched on or off. *)
LEMMA SwitchProgress == ASSUME TypeInv, Switch PROVE Progress
<1>1. /\ ledger' = ledger /\ stage' = stage /\ holder' = holder /\ failures' = failures
      /\ rows' = rows /\ work' = work
      /\ posts' = posts /\ refused' = refused /\ outages' = outages /\ enabled' = ~enabled
    BY DEF Switch, ledger
<1>2. RestTyped' BY <1>1 DEF RestTyped, TypeInv, TypeOK
<1>3. Ledgers' /\ Holding' BY <1>1, Known DEF Ledgers, Holding, Held
<1>4. \A v \in Workers : work'[v] = work[v] BY <1>1
<1>5. PICK w : w \notin Workers BY WebhookConstants
<1>6. TypeInv' /\ Forward /\ \E t : Opened(t)
    BY <1>1, <1>2, <1>3, <1>4, <1>5, QuietKeeps
<1>7. Paying /\ Settling BY <1>1, AsideSettles
<1> QED BY <1>6, <1>7 DEF Progress

(* A delivery job is claimed: the row is there, and posted or looked at. *)
LEMMA BeginDeliveryProgress ==
    ASSUME TypeInv, NEW w \in Workers, NEW j \in Jobs, BeginDelivery(w, j) PROVE Progress
<1> DEFINE k == IF Unattempted(j[2])
                THEN [at |-> "posting", job |-> j, row |-> j[2],
                      attempt |-> rows[j[2]].attempt, result |-> "none"]
                ELSE AlreadyAttempted(j)
<1>1. /\ j[1] = "deliver" /\ Take(w, j) /\ work' = [work EXCEPT ![w] = k]
      /\ rows' = rows /\ posts' = posts /\ refused' = refused /\ outages' = outages
      /\ enabled' = enabled
    BY DEF BeginDelivery
<1>2. stage[j] = "open" /\ holder[j] = None BY <1>1 DEF Take, Queue!Take
<1>3. PICK d \in DOMAIN rows : /\ d = j[2] /\ j = <<"deliver", d>>
                               /\ rows[d].trigger # "automatic_retry"
    BY <1>1, <1>2, JobShape DEF TypeInv, Present
<1>4. rows[d] \in Rows /\ d \in Nat BY RowsTyped
<1>5. k.job = j /\ k.at \in {"posting", "recorded"} /\ k \in Tasks
  <2>1. CASE Unattempted(j[2])
      BY <2>1, <1>3, <1>4 DEF Tasks, Places, Rows
  <2>2. CASE ~Unattempted(j[2])
    <3>1. rows[d].state \in Answers BY <2>2, <1>3, <1>4 DEF Unattempted, Rows, States
    <3> QED BY <2>2, <3>1, <1>3, <1>4 DEF AlreadyAttempted, Idle, Tasks, Places, Rows
  <2> QED BY <2>1, <2>2
<1>6. /\ Ledgers' /\ Holding' /\ stage'[j] = "held" /\ failures' = failures
      /\ \A i \in Jobs : i # j => stage'[i] = stage[i]
  <2> HIDE DEF k
  <2>1. k.at # "idle" BY <1>5
  <2> QED BY <1>1, <1>5, <2>1, TaskTaken
<1>7. work'[w] = k /\ \A v \in Workers : v # w => work'[v] = work[v]
    BY <1>1, Known DEF Holding
<1>8. Handling(w)'
  <2>1. JobOf(d)' = j BY <1>1, <1>3 DEF JobOf
  <2>2. CASE Unattempted(j[2])
      BY <2>2, <1>1, <1>3, <1>7 DEF Handling, Unattempted
  <2>3. CASE ~Unattempted(j[2])
    <3>1. rows[d].state \in Answers /\ rows[d].state # "pending"
        BY <2>3, <1>3, <1>4 DEF Unattempted, Rows, States
    <3>2. /\ k.at = "recorded" /\ k.job = j /\ k.result = rows[d].state
          /\ k.attempt = rows[d].attempt
        BY <2>3, <1>3 DEF AlreadyAttempted, Idle
    <3> QED BY <2>1, <3>1, <3>2, <1>1, <1>3, <1>7 DEF Handling, Attempted
  <2> QED BY <2>2, <2>3
<1>9. RestTyped' BY <1>1 DEF RestTyped, TypeInv, TypeOK
<1>10. TypeInv' /\ Forward /\ \E t : Opened(t)
    BY <1>1, <1>2, <1>6, <1>7, <1>8, <1>9, QuietKeeps
<1>11. Paying BY <1>1, <1>2, <1>5, <1>6, WorkPays
<1>12. \A i \in Jobs : stage'[i] = "done" => Closed(i) BY <1>6 DEF Closed
<1>13. Settling BY <1>1, <1>5, <1>12, WorkSettles
<1> QED BY <1>10, <1>11, <1>13 DEF Progress

(* A retry is claimed: it posts, or its endpoint is unavailable and that is all. *)
LEMMA BeginRetryProgress ==
    ASSUME TypeInv, NEW w \in Workers, NEW j \in Jobs, BeginRetry(w, j) PROVE Progress
<1> DEFINE k == IF enabled THEN [at |-> "posting", job |-> j, row |-> 0,
                                 attempt |-> j[2], result |-> "none"]
                ELSE Over(j)
<1>1. /\ j[1] = "retry" /\ Take(w, j) /\ work' = [work EXCEPT ![w] = k]
      /\ rows' = rows /\ posts' = posts /\ outages' = outages /\ enabled' = enabled
      /\ refused' = (refused \/ ~enabled)
    BY DEF BeginRetry
<1>2. stage[j] = "open" BY <1>1 DEF Take, Queue!Take
<1>3. j[2] \in Nat BY <1>1, JobShape, WebhookConstants
<1>4. k.job = j /\ k.at \in {"posting", "over"} /\ k \in Tasks
    BY <1>3 DEF Over, Idle, Tasks, Places
<1>5. /\ Ledgers' /\ Holding' /\ stage'[j] = "held" /\ failures' = failures
      /\ \A i \in Jobs : i # j => stage'[i] = stage[i]
  <2> HIDE DEF k
  <2>1. k.at # "idle" BY <1>4
  <2> QED BY <1>1, <1>4, <2>1, TaskTaken
<1>6. work'[w] = k /\ \A v \in Workers : v # w => work'[v] = work[v]
    BY <1>1, Known DEF Holding
<1>7. Handling(w)'
  <2>1. CASE enabled BY <2>1, <1>1, <1>6 DEF Handling
  <2>2. CASE ~enabled BY <2>2, <1>6 DEF Handling, Over, Idle
  <2> QED BY <2>1, <2>2
<1>8. RestTyped' BY <1>1 DEF RestTyped, TypeInv, TypeOK
<1>9. TypeInv' /\ Forward /\ \E t : Opened(t)
    BY <1>1, <1>2, <1>5, <1>6, <1>7, <1>8, QuietKeeps
<1>10. Paying BY <1>1, <1>2, <1>4, <1>5, WorkPays
<1>11. \A i \in Jobs : stage'[i] = "done" => Closed(i) BY <1>5 DEF Closed
<1>12. k.at = "over" => Resolved(j)'
  <2>1. SUFFICES ASSUME ~enabled PROVE Resolved(j)' OBVIOUS
  <2>2. refused' BY <2>1, <1>1
  <2>3. \A d \in DOMAIN rows' : JobOf(d)' = j => rows'[d].trigger = "automatic_retry"
      BY <1>1 DEF JobOf
  <2> QED BY <2>2, <2>3 DEF Resolved, FollowedUp
<1>13. Settling BY <1>1, <1>4, <1>11, <1>12, WorkSettles
<1> QED BY <1>9, <1>10, <1>13 DEF Progress

(* An execution has sent its one request. *)
LEMMA PostProgress ==
    ASSUME TypeInv, NEW w \in Workers, NEW a \in Answers, Post(w, a) PROVE Progress
<1>j. PICK j : j = work[w].job OBVIOUS
<1> DEFINE k == [work[w] EXCEPT !.at = "answered", !.result = a]
<1>1. /\ work[w].at = "posting" /\ posts' = [posts EXCEPT ![j] = @ + 1]
      /\ ledger' = ledger /\ stage' = stage /\ holder' = holder /\ failures' = failures
      /\ rows' = rows /\ enabled' = enabled /\ refused' = refused /\ outages' = outages
    BY <1>j DEF Post, ledger
<1>2. Holding /\ Ledgers BY Known
<1>3. work' = [work EXCEPT ![w] = k]
    BY <1>2 DEF Post, AfterAnswer, Holding, Tasks
<1>4. k \in Tasks /\ k.at = "answered" /\ k.job = j /\ k.row = work[w].row
      /\ k.attempt = work[w].attempt /\ k.result = a
  <2>1. work[w] \in Tasks BY <1>2 DEF Holding
  <2> QED BY <1>j, <2>1 DEF Tasks, Places
<1>5. j \in Jobs /\ stage[j] = "held"
      /\ \A v \in Workers : work[v].at # "idle" /\ work[v].job = j => v = w
    BY <1>j, <1>1, Working
<1>6. work'[w] = k /\ \A v \in Workers : v # w => work'[v] = work[v]
    BY <1>2, <1>3 DEF Holding
<1>7. Ledgers' /\ Holding'
  <2> HIDE DEF k
  <2> QED BY <1>j, <1>1, <1>2, <1>3, <1>4, TaskKept DEF Ledgers
<1>8. Handling(w)' BY <1>1, <1>4, <1>6 DEF Handling, TypeInv
<1>9. RestTyped'
  <2>1. posts \in [Jobs -> Nat] /\ posts[j] \in Nat BY <1>5 DEF TypeInv, TypeOK
  <2>2. PICK n \in Nat : n = posts[j] + 1 BY <2>1
  <2>3. posts' = [posts EXCEPT ![j] = n] BY <1>1, <2>2
  <2>4. posts' \in [Jobs -> Nat] BY <2>1, <2>2, <2>3
  <2> QED BY <1>1, <2>4 DEF RestTyped, TypeInv, TypeOK
<1>10. TypeInv' /\ Forward /\ \E t : Opened(t)
    BY <1>1, <1>6, <1>7, <1>8, <1>9, QuietKeeps
<1>11. Paying
  <2>1. ASSUME NEW i \in Jobs, i # j, Paid(i) PROVE Paid(i)'
    <3>1. posts'[i] = posts[i] BY <2>1, <1>1 DEF TypeInv, TypeOK
    <3> QED BY <2>1, <3>1, <1>1, <1>4, <1>6, PaidKept
  <2>2. ASSUME Paid(j) PROVE Paid(j)'
    <3>1. posts'[j] = posts[j] + 1 BY <1>1, <1>5 DEF TypeInv, TypeOK
    <3>2. Posting(j) BY <1>1, <1>j DEF Posting
    <3>3. Answered(j)' BY <1>1, <1>4, <1>5, <1>6 DEF Answered, Posting
    <3>4. failures[j] \in Nat /\ posts[j] \in Nat BY <1>5 DEF TypeInv, TypeOK
    <3>5. posts[j] <= failures[j] BY <2>2, <3>2, <3>4 DEF Paid, Answered
    <3>6. failures'[j] = failures[j] /\ stage'[j] = stage[j] BY <1>1
    <3> QED BY <2>2, <3>1, <3>3, <3>4, <3>5, <3>6 DEF Paid
  <2> QED BY <2>1, <2>2 DEF Paying
<1>12. \A i \in Jobs : stage'[i] = "done" => Closed(i) BY <1>1 DEF Closed
<1>13. k.at # "over" BY <1>4
<1>14. Settling
  <2> HIDE DEF k
  <2> QED BY <1>3, <1>12, <1>13, WorkSettles
<1> QED BY <1>10, <1>11, <1>14 DEF Progress

(* The outcome is committed, in the row announced or in one of its own. *)
LEMMA RecordProgress == ASSUME TypeInv, NEW w \in Workers, Record(w) PROVE Progress
<1> DEFINE k == [work[w] EXCEPT !.at = "recorded", !.row = 0]
<1>1. /\ work[w].at = "answered" /\ posts' = posts
      /\ ledger' = ledger /\ stage' = stage /\ holder' = holder /\ failures' = failures
      /\ enabled' = enabled /\ refused' = refused /\ outages' = outages
    BY DEF Record, ledger
<1>2. Holding /\ Ledgers BY Known
<1>3. work' = [work EXCEPT ![w] = k]
    BY <1>2 DEF Record, Holding, Tasks
<1>4. k \in Tasks /\ k.at = "recorded" /\ k.job = work[w].job
      /\ k.attempt = work[w].attempt /\ k.result = work[w].result
  <2>1. work[w] \in Tasks BY <1>2 DEF Holding
  <2> QED BY <2>1 DEF Tasks, Places
<1>5. work'[w] = k /\ \A v \in Workers : v # w => work'[v] = work[v]
    BY <1>2, <1>3 DEF Holding
<1>6. PICK t : t = work[w].job OBVIOUS
<1>7. /\ Kept /\ RowsRight' /\ Touched(t)
      /\ \E d \in DOMAIN rows' : JobOf(d)' = t /\ rows'[d].state = work[w].result
      /\ t[1] = "deliver" => rows'[t[2]].state = work[w].result
    BY <1>6, RecordRows
<1>8. t \in Jobs /\ stage[t] = "held" /\ ~Closed(t)
      /\ \A v \in Workers : work[v].at # "idle" /\ work[v].job = t => v = w
    BY <1>1, <1>6, Working
<1>9. Ledgers' /\ Holding'
  <2> HIDE DEF k
  <2> QED BY <1>1, <1>2, <1>3, <1>4, TaskKept DEF Ledgers
<1>10. Present' BY <1>1, <1>7, <1>8, PresentKept
<1>11. \A v \in Workers : Handling(v)'
  <2>1. ASSUME NEW v \in Workers, v # w PROVE Handling(v)'
      BY <2>1, <1>5, <1>7, <1>8, OthersHandle
  <2>2. Handling(w)'
    <3>1. work[w].result \in Answers BY <1>1 DEF TypeInv, Handling
    <3>2. "pending" \notin Answers BY DEF Answers
    <3>3. CASE t[1] = "deliver"
      <4>1. PICK d \in DOMAIN rows : d = t[2] /\ work[w].attempt = rows[d].attempt
          BY <1>1, <1>6, <3>3, WorkingOn DEF TypeInv, Handling
      <4>2. rows'[t[2]].attempt = work[w].attempt BY <4>1, <1>7 DEF Kept
      <4> QED BY <1>4, <1>5, <1>6, <1>7, <3>1, <3>2, <3>3, <4>2 DEF Handling, Attempted
    <3>4. CASE t[1] # "deliver"
      <4>1. work[w].attempt = t[2] BY <1>1, <1>6, <3>4 DEF TypeInv, Handling
      <4> QED BY <1>4, <1>5, <1>6, <1>7, <3>1, <3>4, <4>1 DEF Handling, Attempted
    <3> QED BY <3>3, <3>4
  <2> QED BY <2>1, <2>2
<1>12. RestTyped' BY <1>1 DEF RestTyped, TypeInv, TypeOK
<1>13. TypeInv' BY <1>7, <1>9, <1>10, <1>11, <1>12
    DEF TypeInv, TypeOK, Ledgers, Holding, RowsRight, RestTyped, Tasks
<1>14. Forward /\ \E s : Opened(s) BY <1>1, <1>7, <1>8 DEF Forward, Opened
<1>15. k.at # "over" /\ k.at # "posting" BY <1>4
<1>16. \A i \in Jobs : stage'[i] = "done" => Closed(i) BY <1>1 DEF Closed
<1>17. Paying /\ Settling
  <2> HIDE DEF k
  <2> QED BY <1>1, <1>3, <1>15, <1>16, WorkPays, WorkSettles
<1> QED BY <1>13, <1>14, <1>17 DEF Progress

(* The row a delivery job stands for is its own, a retry's rows are retries of *)
(* its attempt: what the handler knows of one it knows of all.                 *)
LEMMA RowsOfJob ==
    ASSUME TypeInv, NEW w \in Workers, work[w].at \in {"recorded", "inserting"},
           NEW d \in DOMAIN rows, JobOf(d) = work[w].job
    PROVE  /\ rows[d].attempt = work[w].attempt
           /\ rows[d].trigger # "automatic_retry" =>
                 /\ rows[d].state # "pending"
                 /\ \A e \in DOMAIN rows : JobOf(e) = work[w].job => e = d
<1>1. Attempted(w) BY DEF TypeInv, Handling
<1>2. CASE rows[d].trigger = "automatic_retry"
  <2>1. work[w].job = <<"retry", rows[d].attempt>> BY <1>2 DEF JobOf
  <2>2. work[w].job[1] = "retry" /\ work[w].job[2] = rows[d].attempt BY <2>1
  <2> QED BY <1>1, <1>2, <2>2 DEF Attempted
<1>3. CASE rows[d].trigger # "automatic_retry"
  <2>1. work[w].job = <<"deliver", d>> BY <1>3 DEF JobOf
  <2>2. work[w].job[1] = "deliver" /\ work[w].job[2] = d BY <2>1
  <2>3. \A e \in DOMAIN rows : JobOf(e) = work[w].job => e = d
      BY <2>1 DEF JobOf
  <2> QED BY <1>1, <2>2, <2>3 DEF Attempted
<1> QED BY <1>2, <1>3

(* A handler closes its job when its attempt is followed up. *)
LEMMA Following ==
    ASSUME TypeInv, NEW w \in Workers, work[w].at \in {"recorded", "inserting"},
           NEW j, j = work[w].job, rows' = rows, refused => refused',
           \/ work[w].attempt < MaxDeliveryAttempts =>
                 stage'[<<"retry", work[w].attempt + 1>>] # "absent"
           \/ work[w].at = "recorded" /\ work[w].result # "transient"
    PROVE  Resolved(j)'
<1>0. Handling(w) BY DEF TypeInv
<1>1. SUFFICES ASSUME NEW d \in DOMAIN rows, JobOf(d) = j
                 PROVE  /\ rows[d].trigger # "automatic_retry" => rows[d].state # "pending"
                        /\ rows[d].state = "transient" /\ rows[d].attempt < MaxDeliveryAttempts
                             => FollowedUp(d)'
    BY DEF Resolved, JobOf
<1>2. /\ rows[d].attempt = work[w].attempt
      /\ rows[d].trigger # "automatic_retry" =>
           /\ rows[d].state # "pending" /\ \A e \in DOMAIN rows : JobOf(e) = j => e = d
    BY <1>1, RowsOfJob
<1>3. ASSUME rows[d].state = "transient", rows[d].attempt < MaxDeliveryAttempts
      PROVE  FollowedUp(d)'
  <2>1. CASE stage'[<<"retry", work[w].attempt + 1>>] # "absent"
      BY <1>2, <2>1 DEF FollowedUp
  <2>2. CASE work[w].at = "recorded" /\ work[w].result # "transient"
    <3>1. PICK e \in DOMAIN rows : JobOf(e) = j /\ rows[e].state = work[w].result
        BY <1>0, <2>2 DEF Handling
    <3>2. rows[e].state \in {"succeeded", "final"} /\ e # d
        BY <1>0, <1>3, <2>2, <3>1 DEF Handling, Answers
    <3>3. rows[d].trigger = "automatic_retry" BY <1>2, <3>1, <3>2
    <3>4. JobOf(e)' = JobOf(d)' BY <1>1, <3>1 DEF JobOf
    <3> QED BY <3>1, <3>2, <3>3, <3>4 DEF FollowedUp
  <2> QED BY <1>2, <1>3, <2>1, <2>2
<1> QED BY <1>2, <1>3

(* The handler looks whether the next attempt is due and whether it has a job. *)
LEMMA LookUpKeyProgress == ASSUME TypeInv, NEW w \in Workers, LookUpKey(w) PROVE Progress
<1>j. PICK j : j = work[w].job OBVIOUS
<1> DEFINE due == RetryDue(w) /\ stage[NextRetry(w)] = "absent"
<1> DEFINE k == IF due THEN [work[w] EXCEPT !.at = "inserting", !.result = "none"]
                ELSE Over(work[w].job)
<1>1. /\ work[w].at = "recorded" /\ posts' = posts
      /\ ledger' = ledger /\ stage' = stage /\ holder' = holder /\ failures' = failures
      /\ rows' = rows /\ enabled' = enabled /\ refused' = refused /\ outages' = outages
    BY DEF LookUpKey, ledger
<1>2. Holding /\ Ledgers /\ Handling(w) BY Known DEF TypeInv
<1>3. work' = [work EXCEPT ![w] = k] BY <1>2 DEF LookUpKey, Holding
<1>4. work[w] \in Tasks /\ j \in Jobs BY <1>j, <1>1, <1>2, Working DEF Holding
<1>5. k \in Tasks /\ k.job = j /\ k.at \in {"inserting", "over"}
    BY <1>j, <1>4 DEF Tasks, Places, Over, Idle
<1>6. work'[w] = k /\ \A v \in Workers : v # w => work'[v] = work[v]
    BY <1>2, <1>3 DEF Holding
<1>7. Ledgers' /\ Holding'
  <2> HIDE DEF k
  <2>1. k.at # "idle" BY <1>5
  <2> QED BY <1>j, <1>1, <1>2, <1>3, <1>5, <2>1, TaskKept DEF Ledgers
<1>8. Handling(w)'
  <2>1. CASE due
    <3>1. k.at = "inserting" /\ k.job = work[w].job /\ k.attempt = work[w].attempt
        BY <2>1, <1>4 DEF Tasks
    <3>2. work[w].attempt < MaxDeliveryAttempts BY <2>1 DEF RetryDue
    <3> QED BY <1>1, <1>2, <1>6, <3>1, <3>2 DEF Handling, Attempted
  <2>2. CASE ~due BY <2>2, <1>6 DEF Handling, Over, Idle
  <2> QED BY <2>1, <2>2
<1>9. RestTyped' BY <1>1 DEF RestTyped, TypeInv, TypeOK
<1>10. TypeInv' /\ Forward /\ \E t : Opened(t)
    BY <1>1, <1>6, <1>7, <1>8, <1>9, QuietKeeps
<1>11. k.at = "over" => Resolved(j)'
  <2>1. SUFFICES ASSUME ~due PROVE Resolved(j)' BY <1>4 DEF Tasks
  <2>2. \/ work[w].attempt < MaxDeliveryAttempts =>
              stage'[<<"retry", work[w].attempt + 1>>] # "absent"
        \/ work[w].result # "transient"
      BY <2>1, <1>1 DEF RetryDue, NextRetry
  <2> QED BY <1>j, <1>1, <2>2, Following
<1>12. \A i \in Jobs : stage'[i] = "done" => Closed(i) BY <1>1 DEF Closed
<1>13. Paying /\ Settling
  <2> HIDE DEF k
  <2>1. k.at # "posting" BY <1>5
  <2> QED BY <1>1, <1>3, <1>5, <1>11, <1>12, <2>1, WorkPays, WorkSettles
<1> QED BY <1>10, <1>13 DEF Progress

(* The next attempt's job is inserted with the current one's last step. *)
LEMMA InsertRetryProgress == ASSUME TypeInv, NEW w \in Workers, InsertRetry(w) PROVE Progress
<1>j. PICK j : j = work[w].job OBVIOUS
<1>n. PICK n : n = NextRetry(w) OBVIOUS
<1> DEFINE k == Over(j)
<1>1. /\ work[w].at = "inserting" /\ posts' = posts /\ Queue!Submit(n)
      /\ work' = [work EXCEPT ![w] = k]
      /\ rows' = rows /\ enabled' = enabled /\ refused' = refused /\ outages' = outages
    BY <1>j, <1>n DEF InsertRetry
<1>2. Holding /\ Ledgers /\ Handling(w) BY Known DEF TypeInv
<1>3. j \in Jobs /\ work[w].attempt < MaxDeliveryAttempts /\ work[w].attempt \in Nat \ {0}
  <2>1. j \in Jobs /\ Attempted(w) /\ work[w].attempt < MaxDeliveryAttempts
      BY <1>j, <1>1, <1>2, Working DEF Handling
  <2>2. CASE work[w].job[1] = "deliver"
    <3>1. PICK d \in DOMAIN rows : d = work[w].job[2] BY <1>1, <2>2, WorkingOn
    <3>2. rows[d].attempt \in Nat \ {0} BY RowsTyped DEF Rows
    <3> QED BY <2>1, <2>2, <3>1, <3>2 DEF Attempted
  <2>3. CASE work[w].job[1] # "deliver"
    BY <1>1, <2>1, <2>3, WorkingOn DEF Attempted
  <2> QED BY <2>1, <2>2, <2>3
<1>4. /\ n = <<"retry", work[w].attempt + 1>> /\ n[1] = "retry"
      /\ n[2] = work[w].attempt + 1 /\ n[2] <= MaxDeliveryAttempts
      /\ n[2] \in 2..(MaxDeliveryAttempts + 1)
    BY <1>n, <1>3, WebhookConstants DEF NextRetry
<1>5. n \in Jobs BY <1>4, JobExists
<1>6. /\ Ledgers' /\ holder' = holder /\ failures' = failures
      /\ stage[n] = "absent" /\ stage'[n] = "open"
      /\ \A i \in Jobs : i # n => stage'[i] = stage[i]
    BY <1>1, <1>5, Submitted
<1>7. k \in Tasks /\ k.job = j /\ k.at = "over"
    BY <1>3 DEF Tasks, Places, Over, Idle
<1>8. work'[w] = k /\ \A v \in Workers : v # w => work'[v] = work[v]
    BY <1>1, <1>2 DEF Holding
<1>9. Holding'
  <2> HIDE DEF k
  <2>1. \A i \in Jobs : stage[i] = "held" => stage'[i] = "held" BY <1>6
  <2> QED BY <1>j, <1>1, <1>6, <1>7, <2>1, TaskKept
<1>10. Handling(w)' BY <1>7, <1>8 DEF Handling
<1>11. RestTyped' BY <1>1 DEF RestTyped, TypeInv, TypeOK
<1>12. TypeInv' /\ Forward /\ \E t : Opened(t)
    BY <1>1, <1>4, <1>6, <1>8, <1>9, <1>10, <1>11, QuietKeeps
<1>13. Resolved(j)' BY <1>j, <1>1, <1>4, <1>6, Following
<1>14. \A i \in Jobs : stage'[i] = "done" => Closed(i) BY <1>6 DEF Closed
<1>15. Paying /\ Settling
  <2> HIDE DEF k
  <2>1. \A i \in Jobs : /\ stage[i] \in {"held", "done"} => stage'[i] \in {"held", "done"}
                        /\ stage'[i] # "failed" => stage[i] # "failed"
      BY <1>6
  <2> QED BY <1>1, <1>6, <1>7, <1>13, <1>14, <2>1, WorkPays, WorkSettles
<1> QED BY <1>12, <1>15 DEF Progress

(* A worker lets go of a job: its request, if it was sending one, is the one   *)
(* that the job's next failure pays for.                                       *)
LEMMA VanishProgress ==
    ASSUME TypeInv, NEW w \in Workers, work[w].at # "idle", Queue!Vanish(w),
           work' = [work EXCEPT ![w] = Idle], RestTyped',
           UNCHANGED <<enabled, rows, posts, refused>>
    PROVE  Progress
<1>1. /\ Ledgers' /\ failures' = failures /\ stage' = stage
      /\ holder'[work[w].job] = None
      /\ \A j \in Jobs : j # work[w].job => holder'[j] = holder[j]
    BY Vanished
<1>2. work'[w] = Idle /\ \A v \in Workers : v # w => work'[v] = work[v]
    BY Known DEF Holding
<1>3. Idle.at = "idle" BY DEF Idle
<1>4. Holding' BY <1>1, TaskLeft
<1>5. Handling(w)' BY <1>2, <1>3 DEF Handling
<1>6. TypeInv' /\ Forward /\ \E t : Opened(t)
    BY <1>1, <1>2, <1>4, <1>5, QuietKeeps
<1>7. \A i \in Jobs : stage'[i] = "done" => Closed(i) BY <1>1 DEF Closed
<1>8. Paying /\ Settling BY <1>1, <1>3, <1>7, WorkPays, WorkSettles
<1> QED BY <1>6, <1>8 DEF Progress

(* The next attempt's key has been taken: the worker exits. *)
LEMMA InsertCollidesProgress ==
    ASSUME TypeInv, NEW w \in Workers, InsertCollides(w) PROVE Progress
<1>1. /\ work[w].at = "inserting" /\ Queue!Vanish(w) /\ work' = [work EXCEPT ![w] = Idle]
      /\ UNCHANGED <<enabled, rows, posts, refused>> /\ outages' = outages
    BY DEF InsertCollides
<1>2. RestTyped' BY <1>1 DEF RestTyped, TypeInv, TypeOK
<1> QED BY <1>1, <1>2, VanishProgress

(* A worker dies. *)
LEMMA CrashProgress == ASSUME TypeInv, NEW w \in Workers, Crash(w) PROVE Progress
<1>1. /\ work[w].at # "idle" /\ Queue!Vanish(w) /\ work' = [work EXCEPT ![w] = Idle]
      /\ UNCHANGED <<enabled, rows, posts, refused>> /\ outages' = outages + 1
    BY DEF Crash
<1>2. RestTyped' BY <1>1 DEF RestTyped, TypeInv, TypeOK
<1> QED BY <1>1, <1>2, VanishProgress

(* The handler has returned: its job is done. *)
LEMMA ReturnProgress == ASSUME TypeInv, NEW w \in Workers, Return(w) PROVE Progress
<1>j. PICK j : j = work[w].job OBVIOUS
<1>1. /\ work[w].at = "over" /\ Queue!Finish(w, work[w].job) /\ work' = [work EXCEPT ![w] = Idle]
      /\ rows' = rows /\ enabled' = enabled /\ refused' = refused /\ outages' = outages
      /\ posts' = posts
    BY DEF Return
<1>2. /\ Ledgers' /\ failures' = failures /\ stage'[j] = "done" /\ holder'[j] = None
      /\ \A i \in Jobs : i # j => stage'[i] = stage[i] /\ holder'[i] = holder[i]
    BY <1>j, <1>1, Finished
<1>3. j \in Jobs /\ stage[j] = "held" BY <1>j, <1>1, Working
<1>4. work'[w] = Idle /\ \A v \in Workers : v # w => work'[v] = work[v]
    BY <1>1, Known DEF Holding
<1>5. Idle.at = "idle" BY DEF Idle
<1>6. Holding' BY <1>j, <1>1, <1>2, TaskLeft
<1>7. Handling(w)' BY <1>4, <1>5 DEF Handling
<1>8. RestTyped' BY <1>1 DEF RestTyped, TypeInv, TypeOK
<1>9. TypeInv' /\ Forward /\ \E t : Opened(t)
    BY <1>1, <1>2, <1>3, <1>4, <1>6, <1>7, <1>8, QuietKeeps
<1>10. \A i \in Jobs : stage'[i] = "done" => Closed(i) BY <1>j, <1>1, <1>2 DEF Closed
<1>11. \A i \in Jobs : /\ stage[i] \in {"held", "done"} => stage'[i] \in {"held", "done"}
                       /\ stage'[i] # "failed" => stage[i] # "failed"
    BY <1>2, <1>3
<1>12. Paying /\ Settling BY <1>1, <1>2, <1>5, <1>10, <1>11, WorkPays, WorkSettles
<1> QED BY <1>9, <1>12 DEF Progress

(* The handler has raised: the failure pays for its request. *)
LEMMA RaiseProgress == ASSUME TypeInv, NEW w \in Workers, Raise(w) PROVE Progress
<1>j. PICK j : j = work[w].job OBVIOUS
<1>1. /\ work[w].at \in {"posting", "answered"} /\ Queue!Fail(w, work[w].job)
      /\ work' = [work EXCEPT ![w] = Idle]
      /\ enabled' = enabled /\ refused' = refused /\ outages' = outages + 1
      /\ posts' = posts
    BY DEF Raise
<1>2. /\ Ledgers' /\ holder'[j] = None /\ failures'[j] = failures[j] + 1
      /\ \/ stage'[j] = "failed"
         \/ stage'[j] = "open" /\ failures[j] + 1 < JobAttempts
      /\ \A i \in Jobs : i # j =>
            stage'[i] = stage[i] /\ holder'[i] = holder[i] /\ failures'[i] = failures[i]
    BY <1>j, <1>1, Failed
<1>3. j \in Jobs /\ stage[j] = "held" /\ ~Closed(j)
      /\ \A v \in Workers : work[v].at # "idle" /\ work[v].job = j => v = w
    BY <1>j, <1>1, Working
<1>4. work'[w] = Idle /\ \A v \in Workers : v # w => work'[v] = work[v]
    BY <1>1, Known DEF Holding
<1>5. Idle.at = "idle" BY DEF Idle
<1>6. Holding' BY <1>j, <1>1, <1>2, TaskLeft
<1>7. Kept /\ RowsRight' /\ Touched(j) BY <1>j, RaiseRows
<1>8. \A i \in Jobs : /\ stage[i] # "absent" => stage'[i] # "absent"
                      /\ stage[i] = "absent" => stage'[i] = "absent"
    BY <1>2, <1>3
<1>9. Present' BY <1>3, <1>7, <1>8, PresentKept
<1>10. \A v \in Workers : Handling(v)'
  <2>1. Handling(w)' BY <1>4, <1>5 DEF Handling
  <2>2. ASSUME NEW v \in Workers, v # w PROVE Handling(v)'
      BY <2>2, <1>3, <1>4, <1>7, OthersHandle
  <2> QED BY <2>1, <2>2
<1>11. RestTyped' BY <1>1 DEF RestTyped, TypeInv, TypeOK
<1>12. TypeInv' BY <1>2, <1>6, <1>7, <1>9, <1>10, <1>11
    DEF TypeInv, TypeOK, Ledgers, Holding, RowsRight, RestTyped, Tasks
<1>13. Forward /\ \E t : Opened(t) BY <1>1, <1>3, <1>7, <1>8 DEF Forward, Opened
<1>14. \A i \in Jobs : stage'[i] = "done" => Closed(i) BY <1>2 DEF Closed
<1>15. Settling BY <1>1, <1>5, <1>14, WorkSettles
<1>16. Paying
  <2>1. ASSUME NEW i \in Jobs, i # j, Paid(i) PROVE Paid(i)'
    <3>1. \A v \in Workers : work'[v].at = "posting" => work'[v] = work[v] BY <1>4, <1>5
    <3> QED BY <2>1, <3>1, <1>1, <1>2, PaidKept
  <2>2. ASSUME Paid(j) PROVE Paid(j)'
    <3>1. failures[j] \in Nat /\ posts[j] \in Nat BY <1>3 DEF TypeInv, TypeOK
    <3>2. failures[j] < JobAttempts /\ posts[j] <= failures[j] + 1
        BY <2>2, <3>1, <1>3 DEF Paid
    <3>3. ~Answered(j)' BY <1>2 DEF Answered
    <3> QED BY <3>1, <3>2, <3>3, <1>1, <1>2, WebhookConstants DEF Paid
  <2> QED BY <2>1, <2>2 DEF Paying
<1> QED BY <1>12, <1>13, <1>15, <1>16 DEF Progress

(* Recovery counts the lost executions as failures. *)
LEMMA RecoverProgress == ASSUME TypeInv, Recover PROVE Progress
<1>1. /\ Ledgers' /\ Holding'
      /\ \A j \in Jobs \ Lost : stage'[j] = stage[j] /\ failures'[j] = failures[j]
      /\ \A j \in Lost : /\ stage[j] = "held" /\ failures'[j] = failures[j] + 1
                         /\ stage'[j] = IF failures[j] + 1 >= JobAttempts THEN "failed"
                                        ELSE "open"
    BY Reclaimed
<1>2. /\ rows' = rows /\ work' = work /\ enabled' = enabled /\ refused' = refused
      /\ posts' = posts /\ outages' = outages
    BY DEF Recover
<1>3. RestTyped' BY <1>2 DEF RestTyped, TypeInv, TypeOK
<1>4. \A v \in Workers : work'[v] = work[v] BY <1>2
<1>5. PICK w : w \notin Workers BY WebhookConstants
<1>6. \A j \in Jobs : /\ stage[j] # "absent" => stage'[j] # "absent"
                      /\ stage[j] = "absent" => stage'[j] = "absent"
    BY <1>1
<1>7. TypeInv' /\ Forward /\ \E t : Opened(t)
    BY <1>1, <1>2, <1>3, <1>4, <1>5, <1>6, QuietKeeps
<1>8. \A j \in Jobs : stage'[j] = "done" => stage[j] = "done" BY <1>1
<1>9. Settling BY <1>2, <1>8 DEF Settling, Closed
<1>10. Paying
  <2>1. ASSUME NEW j \in Jobs \ Lost, Paid(j) PROVE Paid(j)'
      BY <2>1, <1>1, <1>2, PaidKept
  <2>2. ASSUME NEW j \in Lost, Paid(j) PROVE Paid(j)'
    <3>1. j \in Jobs /\ failures[j] \in Nat /\ posts[j] \in Nat
        BY DEF TypeInv, TypeOK, Lost
    <3>2. failures[j] < JobAttempts /\ posts[j] <= failures[j] + 1
        BY <2>2, <3>1, <1>1 DEF Paid
    <3>3. ~Answered(j)' BY <1>1 DEF Answered
    <3> QED BY <3>1, <3>2, <3>3, <1>1, <1>2, WebhookConstants DEF Paid
  <2> QED BY <2>1, <2>2 DEF Paying
<1> QED BY <1>7, <1>9, <1>10 DEF Progress

(* Every step is one of these. *)
LEMMA StepProgress == ASSUME TypeInv, Next PROVE Progress
<1>1. ASSUME Organization PROVE Progress
    BY <1>1, EmitProgress, ResendProgress, SwitchProgress DEF Organization
<1>2. ASSUME NEW w \in Workers, Handle(w) PROVE Progress
    BY <1>2, BeginDeliveryProgress, BeginRetryProgress, PostProgress, RecordProgress,
       LookUpKeyProgress, InsertRetryProgress, InsertCollidesProgress, ReturnProgress
    DEF Handle
<1>3. ASSUME NEW w \in Workers, Fault(w) PROVE Progress
    BY <1>3, RaiseProgress, CrashProgress DEF Fault
<1> QED BY <1>1, <1>2, <1>3, RecoverProgress DEF Next
-----------------------------------------------------------------------------
(* The invariant. *)

(* What has been followed up stays followed up: jobs never disappear, refusals *)
(* and outcomes are not taken back, and a closed job's rows are complete.      *)
LEMMA ResolvedKept ==
    ASSUME TypeInv, Forward, NEW t, Opened(t), NEW j \in Jobs, Closed(j), Resolved(j)
    PROVE  Resolved(j)'
<1>1. j # t BY DEF Opened
<1>2. SUFFICES ASSUME NEW d \in DOMAIN rows', JobOf(d)' = j
               PROVE  /\ rows'[d].trigger # "automatic_retry" => rows'[d].state # "pending"
                      /\ rows'[d].state = "transient" /\ rows'[d].attempt < MaxDeliveryAttempts
                           => FollowedUp(d)'
    BY DEF Resolved
<1>3. d \in DOMAIN rows /\ rows'[d] = rows[d] BY <1>1, <1>2 DEF Opened, Touched
<1>4. JobOf(d) = j BY <1>2, <1>3 DEF JobOf
<1>5. ASSUME rows[d].attempt < MaxDeliveryAttempts, FollowedUp(d) PROVE FollowedUp(d)'
  <2>1. rows[d].attempt \in Nat \ {0} BY <1>3, RowsTyped DEF Rows
  <2>2. rows[d].attempt + 1 \in 2..(MaxDeliveryAttempts + 1)
      BY <1>5, <2>1, WebhookConstants
  <2>3. <<"retry", rows[d].attempt + 1>> \in Jobs BY <2>2, JobExists
  <2>4. CASE stage[<<"retry", rows[d].attempt + 1>>] # "absent"
      BY <1>3, <2>3, <2>4 DEF FollowedUp, Forward
  <2>5. CASE rows[d].trigger = "automatic_retry" /\ refused
      BY <1>3, <2>5 DEF FollowedUp, Forward
  <2>6. ASSUME rows[d].trigger = "automatic_retry", NEW e \in DOMAIN rows,
               JobOf(e) = JobOf(d), rows[e].state \in {"succeeded", "final"}
        PROVE  FollowedUp(d)'
    <3>1. e \in DOMAIN rows' /\ rows'[e] = rows[e] BY <2>6 DEF Forward, Kept
    <3>2. JobOf(e)' = JobOf(d)' BY <1>3, <2>6, <3>1 DEF JobOf
    <3> QED BY <1>3, <2>6, <3>1, <3>2 DEF FollowedUp
  <2> QED BY <1>5, <2>4, <2>5, <2>6 DEF FollowedUp
<1> QED BY <1>3, <1>4, <1>5 DEF Resolved

(* No job, no row, nobody at work. *)
LEMMA InitIInv == Init => IInv
<1> SUFFICES ASSUME Init PROVE IInv OBVIOUS
<1>1. /\ stage = [j \in Jobs |-> "absent"] /\ holder = [j \in Jobs |-> None]
      /\ failures = [j \in Jobs |-> 0] /\ posts = [j \in Jobs |-> 0]
      /\ enabled = TRUE /\ rows = <<>> /\ refused = FALSE /\ outages = 0
      /\ work = [w \in Workers |-> Idle]
    BY DEF Init, Queue!Init
<1>2. DOMAIN rows = {} /\ rows \in Seq(Rows) BY <1>1
<1>3. \A w \in Workers : work[w].at = "idle" BY <1>1 DEF Idle
<1>4. None \notin Workers BY WebhookConstants
<1>5. work \in [Workers -> Tasks] BY <1>1 DEF Idle, Tasks, Places
<1>6. TypeOK BY <1>1, <1>2, <1>3, <1>4, <1>5 DEF TypeOK, Tasks
<1>7. TypeInv BY <1>1, <1>2, <1>3, <1>4, <1>6 DEF TypeInv, Held, Present, Handling
<1>8. \A j \in Jobs : Paid(j)
  <2>1. JobAttempts \in Nat /\ 0 < JobAttempts BY WebhookConstants
  <2> QED BY <1>1, <2>1 DEF Paid
<1>9. \A j \in Jobs : Resolved(j) BY <1>2 DEF Resolved
<1> QED BY <1>7, <1>8, <1>9 DEF IInv

(* A step of the specification is progress or a stutter. *)
LEMMA NextIInv == IInv /\ [Next]_vars => IInv'
<1> SUFFICES ASSUME IInv, [Next]_vars PROVE IInv' OBVIOUS
<1>1. CASE Next
  <2>1. Progress BY <1>1, StepProgress DEF IInv
  <2>2. \A j \in Jobs : Closed(j)' => Resolved(j)'
      BY <2>1, ResolvedKept DEF Progress, Settling, IInv
  <2> QED BY <2>1, <2>2 DEF Progress, Paying, IInv
<1>2. CASE UNCHANGED vars
  <2>1. /\ stage' = stage /\ holder' = holder /\ failures' = failures /\ enabled' = enabled
        /\ rows' = rows /\ work' = work /\ posts' = posts /\ refused' = refused
        /\ outages' = outages
      BY <1>2 DEF vars, ledger
  <2>2. TypeOK' BY <2>1 DEF IInv, TypeInv, TypeOK
  <2>3. Held' /\ Present' BY <2>1 DEF IInv, TypeInv, Held, Present
  <2>4. \A w \in Workers : Handling(w)'
      BY <2>1 DEF IInv, TypeInv, Handling, Attempted, JobOf
  <2>5. \A j \in Jobs : Paid(j)' BY <2>1 DEF IInv, Paid, Answered, Posting
  <2>6. \A j \in Jobs : Closed(j)' => Resolved(j)'
    <3>1. \A j \in Jobs : Resolved(j) => Resolved(j)'
        BY <2>1 DEF Resolved, FollowedUp, JobOf
    <3> QED BY <2>1, <3>1 DEF IInv, Closed
  <2> QED BY <2>2, <2>3, <2>4, <2>5, <2>6 DEF IInv, TypeInv
<1> QED BY <1>1, <1>2

(* The invariant holds throughout. *)
LEMMA Invariant == Spec => []IInv
BY InitIInv, NextIInv, PTL DEF Spec

(* Every variable keeps its type, a worker at work holds the job it works on,  *)
(* and automatic attempts stay within the ceiling.                             *)
THEOREM TypeCorrect == Spec => []TypeOK
<1>1. IInv => TypeOK BY DEF IInv, TypeInv
<1> QED BY <1>1, Invariant, PTL

(* No announced delivery stays pending without a job, and no transient failure *)
(* below the ceiling stays without its next attempt.                           *)
THEOREM NothingIsForgotten == Spec => []NothingForgotten
<1>1. ASSUME IInv PROVE NothingForgotten
  <2> USE <1>1 DEF IInv
  <2>1. SUFFICES ASSUME NEW d \in DOMAIN rows
                 PROVE  /\ rows[d].state = "pending" /\ rows[d].trigger # "automatic_retry"
                             => stage[JobOf(d)] \in {"open", "held", "failed"}
                        /\ rows[d].state = "transient" /\ rows[d].attempt < MaxDeliveryAttempts
                             => Continued(d)
      BY DEF NothingForgotten
  <2>2. JobOf(d) \in Jobs BY RowsTyped
  <2>3. stage[JobOf(d)] \in {"absent", "open", "held", "done", "failed"}
      BY <2>2 DEF TypeInv, TypeOK
  <2>4. stage[JobOf(d)] = "done" => Resolved(JobOf(d)) BY <2>2 DEF Closed
  <2>5. rows[d].trigger # "automatic_retry" => stage[JobOf(d)] # "absent"
      BY DEF JobOf, TypeInv, Present
  <2> QED BY <2>3, <2>4, <2>5 DEF Resolved, FollowedUp, Continued
<1> QED BY <1>1, Invariant, PTL

(* A delivery is repeated only because an execution was lost, and no oftener   *)
(* than its job may run.                                                       *)
THEOREM RepeatsBounded == Spec => []RepeatsNeedLosses
<1>1. ASSUME IInv PROVE RepeatsNeedLosses
  <2>1. SUFFICES ASSUME NEW j \in Jobs
                 PROVE  posts[j] <= failures[j] + 1 /\ posts[j] <= JobAttempts
      BY DEF RepeatsNeedLosses
  <2>2. failures[j] \in Nat /\ posts[j] \in Nat /\ JobAttempts \in Nat
      BY <1>1, WebhookConstants DEF IInv, TypeInv, TypeOK
  <2>3. Paid(j) BY <1>1 DEF IInv
  <2>4. CASE stage[j] = "failed" BY <2>2, <2>3, <2>4 DEF Paid, Answered
  <2>5. CASE stage[j] # "failed" BY <2>2, <2>3, <2>5 DEF Paid
  <2> QED BY <2>4, <2>5
<1> QED BY <1>1, Invariant, PTL

(* A row with an outcome is never written again and no row disappears. *)
THEOREM OutcomesFinal == Spec => OutcomesAreFinal
<1> DEFINE Final == \A d \in DOMAIN rows :
                       d \in DOMAIN rows' /\ (rows[d].state # "pending" => rows'[d] = rows[d])
<1>1. ASSUME IInv, [Next]_vars PROVE [Final]_vars
  <2>1. CASE Next
    <3>1. Kept BY <1>1, <2>1, StepProgress DEF IInv, Progress, Forward
    <3> QED BY <3>1 DEF Kept
  <2>2. CASE UNCHANGED vars BY <2>2
  <2> QED BY <1>1, <2>1, <2>2
<1> QED BY <1>1, Invariant, PTL DEF Spec, OutcomesAreFinal
=============================================================================
