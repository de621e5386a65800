----------------------------- MODULE QuoteProofs -----------------------------
(***************************************************************************)
(* What QuoteLifecycle.tla promises, for any quotes, requests, plan limit  *)
(* and number of edits.  Requests race freely over quotes, so little is    *)
(* true of a quote two of them worked on (Converted, Mailing); what is     *)
(* true of the others rests on each having one request at a time (Alone,   *)
(* Fresh).  Numbers rest on the row lock of the organization (Locking).    *)
(***************************************************************************)
EXTENDS QuoteLifecycle, FiniteSetTheorems, TLAPS

(* Where each operation can be, and what it is on. *)
Working(r) ==
    LET k == req[r]
    IN  \/ k = NoReq
        \/ k.op = "invoice" /\ k.at = "allocated" /\ k.quote = None
        \/ /\ k.op \in Operations /\ k.quote \in Quotes
           /\ status[k.quote] # "absent"
           /\ \/ k.at = "checked"
              \/ k.op = "send" /\ k.at = "mailed"
              \/ k.op = "convert" /\ k.at \in {"allocated", "created"}

(* Whoever has a number holds the lock, and nobody else moves the numbers. *)
Locking(r) ==
    LET k == req[r]
    IN  /\ orgLock = r <=> k.at \in {"allocated", "created"}
        /\ orgLock = r => k.number = nextNumber /\ Cardinality(invoices) < InvoiceLimit

(* A quote is answered, and its conversion begun, only after its mail. *)
Mailing ==
    /\ \A q \in Quotes : status[q] \in Decided \cup {"sent"} => q \in mailed
    /\ \A r \in Requests : req[r].op \in {"accept", "reject", "convert"} \/ req[r].at = "mailed"
                              => req[r].quote \in mailed

(* A quote's pointer and its invoices, whatever has become of it. *)
Converted(q) ==
    /\ InvoicesOf(q) # {} => \E i \in InvoicesOf(q) : i.number = pointer[q]
    /\ pointer[q] # 0 => \E i \in InvoicesOf(q) : i.number = pointer[q]

(* A quote that was never shared has one request, which knows it as it is, and *)
(* has passed its operation's checks.                                          *)
Alone(q) == \A r, s \in Requests : req[r].quote = q /\ req[s].quote = q => r = s
Fresh(r) ==
    LET k == req[r]  q == req[r].quote
    IN  q \in Quotes \ overlapped =>
            /\ k.loaded = status[q] /\ k.rev = rev[q]
            /\ k.op = "update" => status[q] \in {"draft", "sent"}
            /\ k.op = "delete" => status[q] = "draft"
            /\ k.op \in {"accept", "reject"} => status[q] = "sent"
            /\ k.op = "convert" => status[q] = "accepted" /\ pointer[q] = 0

(* Its invoice says what was accepted, and nothing has changed it since. *)
Faithful(q) ==
    /\ status[q] \in {"accepted", "converted"} => acceptedRev[q] = rev[q]
    /\ InvoicesOf(q) # {} => status[q] = "converted"
    /\ \A i, k \in InvoicesOf(q) : i = k /\ i.rev = acceptedRev[q]

TypeInv == TypeOK /\ \A r \in Requests : Working(r)
Numbering == IsFiniteSet(invoices) /\ NumbersGapless /\ WithinInvoiceLimit
               /\ \A r \in Requests : Locking(r)
Unshared ==
    /\ \A q \in Quotes \ overlapped : Alone(q) /\ Faithful(q)
    /\ \A r \in Requests : Fresh(r)

IInv ==
    /\ TypeInv
    /\ Numbering
    /\ Mailing
    /\ \A q \in Quotes : Converted(q)
    /\ Unshared
-----------------------------------------------------------------------------
(* The steps, apart: what fails is a rollback, what succeeds writes. *)

Tasks == [op : Operations \cup {"none", "invoice"},
          at : {"idle", "checked", "mailed", "allocated", "created"},
          quote : Quotes \cup {None},
          loaded : {"absent", "draft", "sent"} \cup Decided,
          rev : 0..MaxEdits, number : Nat]

(* An idle request is a task like any other. *)
LEMMA NoReqTask == NoReq \in Tasks /\ NoReq.quote = None /\ NoReq.at = "idle"
                     /\ NoReq.op = "none"
BY QuotesConstants DEF NoReq, Tasks

(* A task that is given a number is one, too. *)
LEMMA AllocatedTask ==
    ASSUME NEW t \in Tasks, NEW n \in Nat
    PROVE  [t EXCEPT !.op = IF @ = "none" THEN "invoice" ELSE @,
                     !.at = "allocated", !.number = n] \in Tasks
<1>1. (IF t.op = "none" THEN "invoice" ELSE t.op) \in Operations \cup {"none", "invoice"}
    BY DEF Tasks
<1> QED BY <1>1 DEF Tasks

(* What the type invariant says of one request. *)
LEMMA Request ==
    ASSUME TypeInv, NEW r \in Requests
    PROVE  /\ req[r] \in Tasks
           /\ req[r] = NoReq <=> req[r].at = "idle"
           /\ \/ req[r] = NoReq
              \/ req[r].op = "invoice" /\ req[r].at = "allocated" /\ req[r].quote = None
              \/ /\ req[r].op \in Operations /\ req[r].quote \in Quotes
                 /\ status[req[r].quote] # "absent"
<1>1. req[r] \in Tasks BY DEF TypeInv, TypeOK, Tasks
<1>2. Working(r) BY DEF TypeInv
<1> QED BY <1>1, <1>2, NoReqTask DEF Working

(* One request goes on, the others stay where they are. *)
LEMMA OneMoves ==
    ASSUME TypeInv, NEW r \in Requests, NEW k, req' = [req EXCEPT ![r] = k]
    PROVE  /\ req'[r] = k
           /\ \A s \in Requests : s # r => req'[s] = req[s]
           /\ k \in Tasks => req' \in [Requests -> Tasks]
BY DEF TypeInv, TypeOK, Tasks

(* A write either finds its row gone and rolls back, or is made. *)
LEMMA Outcome ==
    ASSUME TypeInv, NEW r \in Requests
    PROVE  /\ Update(r) => Abort(r) \/ (Update(r) /\ Stored(r))
           /\ Respond(r) => Abort(r) \/ (Respond(r) /\ Stored(r))
           /\ Send(r) => Abort(r) \/ (Send(r) /\ Stored(r) /\ req[r].loaded = "draft")
           /\ Convert(r) => Abort(r) \/ (Convert(r) /\ Stored(r))
<1>1. req[r].at # "idle" => req[r] # NoReq BY Request
<1> QED BY <1>1 DEF Abort, Update, Respond, Send, Convert, Doing
-----------------------------------------------------------------------------
(* Types. *)

(* A step keeps the types when it keeps those of what it writes, and leaves    *)
(* the request it moves where its operation may be.                            *)
Frame ==
    /\ status \in [Quotes -> {"absent", "draft", "sent", "deleted"} \cup Decided]
    /\ rev \in [Quotes -> 0..MaxEdits]
    /\ past \subseteq Quotes
    /\ pointer \in [Quotes -> Nat]
    /\ invoices \subseteq [number : Nat \ {0}, quote : Quotes \cup {None}, rev : 0..MaxEdits]
    /\ nextNumber \in Nat \ {0}
    /\ orgLock \in Requests \cup {None}
    /\ mailed \subseteq Quotes
    /\ acceptedRev \in [Quotes -> 0..MaxEdits]
    /\ overlapped \subseteq Quotes

(* A request that moves to a task where its operation may be. *)
LEMMA OneMovesTyped ==
    ASSUME TypeInv, Frame', NEW r \in Requests, NEW k \in Tasks, req' = [req EXCEPT ![r] = k],
           Working(r)',
           \A q \in Quotes : status[q] # "absent" => status'[q] # "absent"
    PROVE  TypeInv'
<1>1. /\ req'[r] = k /\ \A s \in Requests : s # r => req'[s] = req[s]
      /\ req' \in [Requests -> Tasks]
    BY OneMoves
<1>2. \A s \in Requests : Working(s)' BY <1>1 DEF Working, TypeInv
<1> QED BY <1>1, <1>2 DEF TypeInv, TypeOK, Frame, Tasks

(* A step of the clock or of the table alone. *)
LEMMA NoneMovesTyped ==
    ASSUME TypeInv, Frame', req' = req,
           \A q \in Quotes : status[q] # "absent" => status'[q] # "absent"
    PROVE  TypeInv'
<1>1. \A s \in Requests : Working(s)' BY DEF Working, TypeInv
<1> QED BY <1>1 DEF TypeInv, TypeOK, Frame, Tasks

(* What is inserted is an invoice. *)
LEMMA InvoiceTyped ==
    ASSUME TypeInv, Numbering, NEW r \in Requests, req[r].at \in {"allocated", "created"}, Insert(r)
    PROVE  /\ invoices' \subseteq [number : Nat \ {0}, quote : Quotes \cup {None}, rev : 0..MaxEdits]
           /\ nextNumber' \in Nat \ {0} /\ orgLock' = None
           /\ req[r].number \in Nat \ {0}
<1>1. req[r].number = nextNumber /\ nextNumber \in Nat \ {0}
    BY DEF Numbering, Locking, TypeInv, TypeOK
<1>2. req[r] \in Tasks BY Request
<1>3. NewInvoice(r) \in [number : Nat \ {0}, quote : Quotes \cup {None}, rev : 0..MaxEdits]
    BY <1>1, <1>2 DEF NewInvoice, Tasks
<1> QED BY <1>1, <1>3 DEF Insert, TypeInv, TypeOK

(* Every step keeps the types. *)
LEMMA TypeKept == ASSUME TypeInv, Numbering, Next PROVE TypeInv'
<1> USE NoReqTask
<1>0. Frame BY DEF Frame, TypeInv, TypeOK
<1>n. None \notin Quotes BY QuotesConstants
<1>1. ASSUME NEW q \in Quotes, Create(q) PROVE TypeInv'
  <2>1. Frame' BY <1>0, <1>1 DEF Frame, Create, org, history
  <2> QED BY <1>0, <1>1, <2>1, NoneMovesTyped DEF Create, Frame
<1>2. ASSUME NEW q \in Quotes, Expire(q) PROVE TypeInv'
  <2>1. Frame' BY <1>0, <1>2 DEF Frame, Expire, org, history
  <2> QED BY <1>0, <1>2, <2>1, NoneMovesTyped DEF Expire, Frame
<1>3. ASSUME NEW r \in Requests, NEW q \in Quotes, NEW op \in Operations, Load(r, q, op)
      PROVE  TypeInv'
  <2> DEFINE k == [op |-> op, at |-> "checked", quote |-> q,
                   loaded |-> status[q], rev |-> rev[q], number |-> 0]
  <2>1. k \in Tasks /\ status[q] # "absent" BY <1>0, <1>3 DEF Load, Exists, Tasks, Frame
  <2>2. Frame' BY <1>0, <1>3 DEF Frame, Load, table, org
  <2>3. req' = [req EXCEPT ![r] = k] /\ status' = status BY <1>3 DEF Load, table
  <2>4. req'[r] = k
    <3> HIDE DEF k
    <3> QED BY <2>3, OneMoves
  <2>5. Working(r)' BY <2>1, <2>3, <2>4 DEF Working
  <2> HIDE DEF k
  <2> QED BY <2>1, <2>2, <2>3, <2>5, OneMovesTyped
<1>d. ASSUME NEW r \in Requests, Done(r), Frame',
             \A q \in Quotes : status[q] # "absent" => status'[q] # "absent"
      PROVE  TypeInv'
  <2>1. req' = [req EXCEPT ![r] = NoReq] BY <1>d DEF Done
  <2>2. Working(r)' BY <2>1, OneMoves DEF Working
  <2> QED BY <1>d, <2>1, <2>2, OneMovesTyped
<1>4. ASSUME NEW r \in Requests, Abort(r) PROVE TypeInv'
  <2>1. Frame' BY <1>0, <1>4 DEF Frame, Abort, RollBack, table
  <2> QED BY <1>4, <1>d, <2>1 DEF Abort, RollBack, table
<1>5. ASSUME NEW r \in Requests, Update(r), Stored(r) PROVE TypeInv'
  <2>1. /\ rev[req[r].quote] < MaxEdits /\ rev' = [rev EXCEPT ![req[r].quote] = @ + 1]
        /\ past' \in {past, past \ {req[r].quote}}
        /\ UNCHANGED <<status, pointer, org, mailed, acceptedRev, overlapped>>
      BY <1>5 DEF Update
  <2>a. \A n \in 0..MaxEdits : n < MaxEdits => n + 1 \in 0..MaxEdits BY QuotesConstants
  <2>b. rev' \in [Quotes -> 0..MaxEdits] BY <1>0, <2>1, <2>a DEF Frame
  <2>c. Frame' BY <1>0, <2>1, <2>b DEF Frame, org
  <2> QED BY <1>5, <1>d, <2>c DEF Update
<1>6. ASSUME NEW r \in Requests, Delete(r) PROVE TypeInv'
  <2>1. Frame' BY <1>0, <1>6 DEF Frame, Delete, org, history
  <2> QED BY <1>0, <1>6, <1>d, <2>1 DEF Delete, Frame
<1>7. ASSUME NEW r \in Requests, Respond(r), Stored(r) PROVE TypeInv'
  <2>1. Frame'
    <3> DEFINE q == req[r].quote
    <3>1. acceptedRev' = [acceptedRev EXCEPT ![q] = IF req[r].op = "accept" THEN rev[q] ELSE @]
        BY <1>7 DEF Respond
    <3>2. acceptedRev' \in [Quotes -> 0..MaxEdits] BY <1>0, <3>1 DEF Frame
    <3> QED BY <1>0, <1>7, <3>2 DEF Frame, Respond, org, Decided
  <2> QED BY <1>0, <1>7, <1>d, <2>1 DEF Respond, Frame
<1>8. ASSUME NEW r \in Requests, SendMail(r) PROVE TypeInv'
  <2> DEFINE k == [req[r] EXCEPT !.at = "mailed"]
  <2>1. req[r] \in Tasks /\ req[r].op = "send" /\ req[r].quote \in Quotes
        /\ status[req[r].quote] # "absent"
      BY <1>8, Request DEF SendMail, Doing
  <2>2. k \in Tasks BY <2>1 DEF Tasks
  <2>3. Frame' BY <1>0, <1>8, <2>1 DEF Frame, SendMail, table, org
  <2>4. req' = [req EXCEPT ![r] = k] /\ status' = status
      BY <1>8 DEF SendMail, table, TypeInv, TypeOK
  <2>5. req'[r] = k
    <3> HIDE DEF k
    <3> QED BY <2>4, OneMoves
  <2>6. Working(r)' BY <2>1, <2>4, <2>5 DEF Working, Tasks
  <2> HIDE DEF k
  <2> QED BY <2>2, <2>3, <2>4, <2>6, OneMovesTyped
<1>9. ASSUME NEW r \in Requests, Send(r), Stored(r), req[r].loaded = "draft" PROVE TypeInv'
  <2>1. Frame' BY <1>0, <1>9 DEF Frame, Send, org
  <2> QED BY <1>0, <1>9, <1>d, <2>1 DEF Send, Frame
<1>10. ASSUME NEW r \in Requests, Allocate(r) PROVE TypeInv'
  <2> DEFINE k == [req[r] EXCEPT !.op = IF @ = "none" THEN "invoice" ELSE @,
                                 !.at = "allocated", !.number = nextNumber]
  <2>1. req[r] \in Tasks BY Request
  <2>2. k \in Tasks BY <1>0, <2>1, AllocatedTask DEF Frame
  <2>3. Frame' BY <1>0, <1>10 DEF Frame, Allocate, table, history
  <2>4. req' = [req EXCEPT ![r] = k] /\ status' = status
      BY <1>10 DEF Allocate, table, TypeInv, TypeOK
  <2>5. req'[r] = k
    <3> HIDE DEF k
    <3> QED BY <2>4, OneMoves
  <2>6. Working(r)'
    <3>1. CASE req[r] = NoReq
      <4>1. k.op = "invoice" /\ k.at = "allocated" /\ k.quote = None
          BY <2>1, <3>1 DEF Tasks
      <4> QED BY <2>5, <4>1 DEF Working
    <3>2. CASE Doing(r, "convert", "checked")
      <4>1. req[r].op = "convert" /\ req[r].quote \in Quotes /\ status[req[r].quote] # "absent"
          BY <3>2, Request DEF Doing
      <4>2. k.op = "convert" /\ k.at = "allocated" /\ k.quote = req[r].quote
          BY <2>1, <4>1 DEF Tasks
      <4> HIDE DEF k
      <4> QED BY <2>4, <2>5, <4>1, <4>2 DEF Working, Operations
    <3> QED BY <1>10, <3>1, <3>2 DEF Allocate
  <2> HIDE DEF k
  <2> QED BY <2>2, <2>3, <2>4, <2>6, OneMovesTyped
<1>11. ASSUME NEW r \in Requests, CreateInvoice(r) PROVE TypeInv'
  <2>1. CASE req[r].op = "invoice"
    <3>1. Insert(r) /\ Done(r) /\ UNCHANGED <<table, history>>
        BY <1>11, <2>1 DEF CreateInvoice, CommitsItself
    <3>2. Frame'
        BY <1>0, <1>11, <3>1, InvoiceTyped DEF Frame, CreateInvoice, table, history
    <3> QED BY <3>1, <3>2, <1>d DEF table
  <2>2. CASE req[r].op # "invoice"
    <3> DEFINE k == [req[r] EXCEPT !.at = "created"]
    <3>1. req[r] \in Tasks /\ req[r].op = "convert" /\ req[r].quote \in Quotes
          /\ status[req[r].quote] # "absent"
        BY <1>11, <2>2, Request DEF CreateInvoice, TypeInv, Working
    <3>2. k \in Tasks BY <3>1 DEF Tasks
    <3>3. Frame' /\ status' = status
        BY <1>0, <1>11, <2>2 DEF Frame, CreateInvoice, CommitsItself, table, org, history
    <3>4. req' = [req EXCEPT ![r] = k]
        BY <1>11, <2>2 DEF CreateInvoice, CommitsItself, TypeInv, TypeOK
    <3>5. req'[r] = k BY <3>4, OneMoves
    <3>6. Working(r)' BY <3>1, <3>3, <3>5 DEF Working, Tasks
    <3> HIDE DEF k
    <3> QED BY <3>2, <3>3, <3>4, <3>6, OneMovesTyped
  <2> QED BY <2>1, <2>2
<1>12. ASSUME NEW r \in Requests, Convert(r), Stored(r) PROVE TypeInv'
  <2>1. /\ Insert(r) /\ Done(r) /\ req[r].at = "created"
        /\ status' = [status EXCEPT ![req[r].quote] = "converted"]
        /\ pointer' = [pointer EXCEPT ![req[r].quote] = req[r].number]
        /\ UNCHANGED <<rev, past, mailed, acceptedRev, overlapped>>
      BY <1>12 DEF Convert
  <2>2. Frame' BY <1>0, <2>1, InvoiceTyped DEF Frame, Decided
  <2>3. \A q \in Quotes : status[q] # "absent" => status'[q] # "absent"
      BY <1>0, <2>1 DEF Frame
  <2> QED BY <2>1, <2>2, <2>3, <1>d
<1> QED BY <1>1, <1>2, <1>3, <1>4, <1>5, <1>6, <1>7, <1>8, <1>9, <1>10, <1>11, <1>12, Outcome
    DEF Next
-----------------------------------------------------------------------------
(* Numbers, the limit and the lock. *)

HasNumber(k) == k.at \in {"allocated", "created"}

(* Steps that touch neither the invoices nor the lock. *)
LEMMA OrgAside ==
    ASSUME TypeInv, Numbering, org' = org, NEW r \in Requests, NEW k,
           req' = [req EXCEPT ![r] = k],
           HasNumber(k) <=> HasNumber(req[r]),
           HasNumber(k) => k.number = req[r].number
    PROVE  Numbering'
<1>1. req'[r] = k /\ \A s \in Requests : s # r => req'[s] = req[s] BY OneMoves
<1>2. invoices' = invoices /\ nextNumber' = nextNumber /\ orgLock' = orgLock BY DEF org
<1>3. \A s \in Requests : Locking(s)' BY <1>1, <1>2 DEF Locking, HasNumber, Numbering
<1> QED BY <1>2, <1>3 DEF Numbering, NumbersGapless, WithinInvoiceLimit

(* A request that ends gives back the lock, if it has it. *)
LEMMA OrgReleased ==
    ASSUME TypeInv, Numbering, NEW r \in Requests, Done(r),
           orgLock' = (IF orgLock = r THEN None ELSE orgLock),
           UNCHANGED <<invoices, nextNumber>>
    PROVE  Numbering'
<1>1. req'[r] = NoReq /\ \A s \in Requests : s # r => req'[s] = req[s]
    BY OneMoves DEF Done
<1>2. None \notin Requests BY QuotesConstants
<1>3. \A s \in Requests : Locking(s)'
    BY <1>1, <1>2, NoReqTask DEF Locking, Numbering
<1> QED BY <1>3 DEF Numbering, NumbersGapless, WithinInvoiceLimit

(* The holder of the lock inserts the next invoice and is done. *)
LEMMA OrgInserted ==
    ASSUME TypeInv, Numbering, NEW r \in Requests, HasNumber(req[r]), Insert(r), Done(r)
    PROVE  Numbering'
<1> DEFINE i == NewInvoice(r)
<1>1. /\ orgLock = r /\ req[r].number = nextNumber /\ Cardinality(invoices) < InvoiceLimit
      /\ nextNumber \in Nat \ {0} /\ InvoiceLimit \in Nat
    BY QuotesConstants DEF HasNumber, Numbering, Locking, TypeInv, TypeOK
<1>2. i.number = nextNumber BY <1>1 DEF NewInvoice
<1>3. invoices' = invoices \cup {i} /\ nextNumber' = nextNumber + 1 /\ orgLock' = None
    BY <1>1 DEF Insert
<1>4. IsFiniteSet(invoices) /\ {j.number : j \in invoices} = 1..(nextNumber - 1)
      /\ Cardinality(invoices) = nextNumber - 1
    BY DEF Numbering, NumbersGapless
<1>5. i \notin invoices
  <2>1. i \in invoices => i.number \in 1..(nextNumber - 1) BY <1>4
  <2> QED BY <1>1, <1>2, <2>1
<1>6. IsFiniteSet(invoices') /\ Cardinality(invoices') = Cardinality(invoices) + 1
    BY <1>3, <1>4, <1>5, FS_AddElement
<1>7. {j.number : j \in invoices'} = 1..(nextNumber' - 1)
  <2> HIDE DEF i
  <2>1. {j.number : j \in invoices'} = {j.number : j \in invoices} \cup {nextNumber}
      BY <1>2, <1>3
  <2>2. 1..nextNumber = 1..(nextNumber - 1) \cup {nextNumber} BY <1>1
  <2>3. nextNumber' - 1 = nextNumber BY <1>1, <1>3
  <2> QED BY <1>4, <2>1, <2>2, <2>3
<1>8. req'[r] = NoReq /\ \A s \in Requests : s # r => req'[s] = req[s]
    BY OneMoves DEF Done
<1>9. \A s \in Requests : Locking(s)'
  <2>1. None \notin Requests BY QuotesConstants
  <2> QED BY <1>1, <1>3, <1>8, <2>1, NoReqTask DEF Locking, Numbering
<1>10. Cardinality(invoices') = nextNumber' - 1 /\ Cardinality(invoices') <= InvoiceLimit
    BY <1>1, <1>3, <1>4, <1>6
<1> QED BY <1>6, <1>7, <1>9, <1>10 DEF Numbering, NumbersGapless, WithinInvoiceLimit

(* Every step keeps the numbers, the limit and the lock. *)
LEMMA NumberingKept == ASSUME TypeInv, Numbering, Next PROVE Numbering'
<1> USE NoReqTask
<1>0. \A r \in Requests : Locking(r) BY DEF Numbering
<1>1. ASSUME org' = org, req' = req PROVE Numbering'
  <2>1. invoices' = invoices /\ nextNumber' = nextNumber /\ orgLock' = orgLock BY <1>1 DEF org
  <2>2. \A s \in Requests : Locking(s)' BY <1>0, <1>1, <2>1 DEF Locking
  <2> QED BY <2>1, <2>2 DEF Numbering, NumbersGapless, WithinInvoiceLimit
<1>2. ASSUME NEW q \in Quotes, Create(q) \/ Expire(q) PROVE Numbering'
    BY <1>1, <1>2 DEF Create, Expire
<1>3. ASSUME NEW r \in Requests, NEW q \in Quotes, NEW op \in Operations, Load(r, q, op)
      PROVE  Numbering'
    BY <1>3, OrgAside DEF Load, HasNumber
<1>d. ASSUME NEW r \in Requests, Done(r), org' = org, req[r].at \in {"checked", "mailed"}
      PROVE  Numbering'
    BY <1>d, OrgAside DEF Done, HasNumber
<1>4. ASSUME NEW r \in Requests, Abort(r) PROVE Numbering'
    BY <1>4, OrgReleased DEF Abort, RollBack
<1>5. ASSUME NEW r \in Requests, Update(r), Stored(r) PROVE Numbering'
    BY <1>5, <1>d DEF Update, Doing
<1>6. ASSUME NEW r \in Requests, Delete(r) PROVE Numbering'
    BY <1>6, <1>d DEF Delete, Doing
<1>7. ASSUME NEW r \in Requests, Respond(r), Stored(r) PROVE Numbering'
    BY <1>7, <1>d DEF Respond, Doing
<1>8. ASSUME NEW r \in Requests, SendMail(r) PROVE Numbering'
  <2> DEFINE k == [req[r] EXCEPT !.at = "mailed"]
  <2>1. req' = [req EXCEPT ![r] = k] BY <1>8 DEF SendMail, TypeInv, TypeOK
  <2>2. req[r] \in Tasks /\ req[r].at = "checked" BY <1>8, Request DEF SendMail, Doing
  <2>3. ~HasNumber(k) /\ ~HasNumber(req[r]) BY <2>2 DEF HasNumber, Tasks
  <2> HIDE DEF k
  <2> QED BY <1>8, <2>1, <2>3, OrgAside DEF SendMail
<1>9. ASSUME NEW r \in Requests, Send(r), Stored(r), req[r].loaded = "draft" PROVE Numbering'
    BY <1>9, <1>d DEF Send, Doing
<1>10. ASSUME NEW r \in Requests, Allocate(r) PROVE Numbering'
  <2> DEFINE k == [req[r] EXCEPT !.op = IF @ = "none" THEN "invoice" ELSE @,
                                 !.at = "allocated", !.number = nextNumber]
  <2>1. req[r] \in Tasks BY Request
  <2>2. k.at = "allocated" /\ k.number = nextNumber BY <2>1 DEF Tasks
  <2>3. req' = [req EXCEPT ![r] = k] BY <1>10 DEF Allocate, TypeInv, TypeOK
  <2>4. /\ orgLock = None /\ Cardinality(invoices) < InvoiceLimit /\ orgLock' = r
        /\ UNCHANGED <<invoices, nextNumber>>
      BY <1>10 DEF Allocate, CanLock
  <2>5. None \notin Requests BY QuotesConstants
  <2> HIDE DEF k
  <2>6. req'[r] = k /\ \A s \in Requests : s # r => req'[s] = req[s] BY <2>3, OneMoves
  <2>7. \A s \in Requests : Locking(s)' BY <1>0, <2>2, <2>4, <2>5, <2>6 DEF Locking
  <2> QED BY <2>4, <2>7 DEF Numbering, NumbersGapless, WithinInvoiceLimit
<1>11. ASSUME NEW r \in Requests, CreateInvoice(r) PROVE Numbering'
  <2>1. CASE req[r].op = "invoice"
      BY <1>11, <2>1, OrgInserted DEF CreateInvoice, CommitsItself, HasNumber
  <2>2. CASE req[r].op # "invoice"
    <3> DEFINE k == [req[r] EXCEPT !.at = "created"]
    <3>1. req' = [req EXCEPT ![r] = k] /\ org' = org
        BY <1>11, <2>2 DEF CreateInvoice, CommitsItself, TypeInv, TypeOK
    <3>2. req[r] \in Tasks /\ req[r].at = "allocated" BY <1>11, Request DEF CreateInvoice
    <3>3. HasNumber(k) /\ HasNumber(req[r]) /\ k.number = req[r].number
        BY <3>2 DEF HasNumber, Tasks
    <3> HIDE DEF k
    <3> QED BY <3>1, <3>3, OrgAside
  <2> QED BY <2>1, <2>2
<1>12. ASSUME NEW r \in Requests, Convert(r), Stored(r) PROVE Numbering'
    BY <1>12, OrgInserted DEF Convert, HasNumber
<1> QED BY <1>2, <1>3, <1>4, <1>5, <1>6, <1>7, <1>8, <1>9, <1>10, <1>11, <1>12, Outcome
    DEF Next
-----------------------------------------------------------------------------
(* Who has the quote in the mail, and which invoice it points to. *)

AfterMail(k) == k.op \in {"accept", "reject", "convert"} \/ k.at = "mailed"

(* Steps that send no mail: what they write is mailed, and whom they move. *)
LEMMA MailAside ==
    ASSUME TypeInv, Mailing, mailed \subseteq mailed', NEW r \in Requests, NEW k,
           req' = [req EXCEPT ![r] = k],
           AfterMail(k) => k.quote \in mailed',
           \A q \in Quotes : status'[q] \in Decided \cup {"sent"} /\ status'[q] # status[q]
                                => q \in mailed'
    PROVE  Mailing'
<1>1. req'[r] = k /\ \A s \in Requests : s # r => req'[s] = req[s] BY OneMoves
<1> QED BY <1>1 DEF Mailing, AfterMail

(* Every step keeps what was answered among what was mailed. *)
LEMMA MailingKept == ASSUME TypeInv, Mailing, Next PROVE Mailing'
<1> USE NoReqTask
<1>0. status \in [Quotes -> {"absent", "draft", "sent", "deleted"} \cup Decided]
    BY DEF TypeInv, TypeOK
<1>1. ASSUME NEW q \in Quotes, Create(q) \/ Expire(q) PROVE Mailing'
  <2>1. /\ req' = req /\ mailed' = mailed
        /\ \A p \in Quotes : status'[p] \in Decided \cup {"sent"} => status'[p] = status[p]
      BY <1>0, <1>1 DEF Create, Expire, history, Decided
  <2> QED BY <2>1 DEF Mailing
<1>2. ASSUME NEW r \in Requests, NEW q \in Quotes, NEW op \in Operations, Load(r, q, op)
      PROVE  Mailing'
  <2> DEFINE k == [op |-> op, at |-> "checked", quote |-> q,
                   loaded |-> status[q], rev |-> rev[q], number |-> 0]
  <2>1. AfterMail(k) => status[q] \in Decided \cup {"sent"}
      BY <1>2 DEF AfterMail, Load, Allows, Answerable, Effective, Decided
  <2>2. req' = [req EXCEPT ![r] = k] /\ mailed' = mailed /\ status' = status
      BY <1>2 DEF Load, table
  <2>3. AfterMail(k) => k.quote \in mailed' BY <2>1, <2>2 DEF Mailing
  <2> HIDE DEF k
  <2> QED BY <2>2, <2>3, MailAside
<1>d. ASSUME NEW r \in Requests, Done(r), mailed' = mailed,
             \A q \in Quotes : status'[q] \in Decided \cup {"sent"} /\ status'[q] # status[q]
                                  => q \in mailed'
      PROVE  Mailing'
    BY <1>d, MailAside DEF Done, AfterMail
<1>3. ASSUME NEW r \in Requests, Abort(r) PROVE Mailing'
    BY <1>3, <1>d DEF Abort, RollBack, table
<1>4. ASSUME NEW r \in Requests, Update(r), Stored(r) PROVE Mailing'
    BY <1>4, <1>d DEF Update
<1>5. ASSUME NEW r \in Requests, Delete(r) PROVE Mailing'
    BY <1>0, <1>5, <1>d DEF Delete, history, Decided
<1>6. ASSUME NEW r \in Requests, Respond(r), Stored(r) PROVE Mailing'
    BY <1>0, <1>6, <1>d DEF Respond, Doing, Mailing
<1>7. ASSUME NEW r \in Requests, SendMail(r) PROVE Mailing'
  <2> DEFINE k == [req[r] EXCEPT !.at = "mailed"]
  <2>1. req' = [req EXCEPT ![r] = k] /\ mailed' = mailed \cup {req[r].quote}
        /\ status' = status
      BY <1>7 DEF SendMail, table, TypeInv, TypeOK
  <2>2. k.quote = req[r].quote BY Request DEF Tasks
  <2> HIDE DEF k
  <2> QED BY <2>1, <2>2, MailAside
<1>8. ASSUME NEW r \in Requests, Send(r), Stored(r), req[r].loaded = "draft" PROVE Mailing'
    BY <1>0, <1>8, <1>d DEF Send, Doing, Mailing
<1>9. ASSUME NEW r \in Requests, Allocate(r) PROVE Mailing'
  <2> DEFINE k == [req[r] EXCEPT !.op = IF @ = "none" THEN "invoice" ELSE @,
                                 !.at = "allocated", !.number = nextNumber]
  <2>1. req' = [req EXCEPT ![r] = k] /\ mailed' = mailed /\ status' = status
      BY <1>9 DEF Allocate, table, history, TypeInv, TypeOK
  <2>2. k.quote = req[r].quote /\ (AfterMail(k) => AfterMail(req[r]))
      BY Request DEF Tasks, AfterMail
  <2> HIDE DEF k
  <2>3. AfterMail(k) => k.quote \in mailed' BY <2>1, <2>2 DEF Mailing, AfterMail
  <2> QED BY <2>1, <2>3, MailAside
<1>10. ASSUME NEW r \in Requests, CreateInvoice(r) PROVE Mailing'
  <2>1. mailed' = mailed /\ status' = status BY <1>10 DEF CreateInvoice, table, history
  <2>2. CASE req[r].op = "invoice"
      BY <1>10, <1>d, <2>1, <2>2 DEF CreateInvoice
  <2>3. CASE req[r].op # "invoice"
    <3> DEFINE k == [req[r] EXCEPT !.at = "created"]
    <3>1. req' = [req EXCEPT ![r] = k] BY <1>10, <2>3 DEF CreateInvoice, TypeInv, TypeOK
    <3>2. k.quote = req[r].quote /\ (AfterMail(k) => AfterMail(req[r]))
        BY Request DEF Tasks, AfterMail
    <3> HIDE DEF k
    <3>3. AfterMail(k) => k.quote \in mailed' BY <2>1, <3>2 DEF Mailing, AfterMail
    <3> QED BY <2>1, <3>1, <3>3, MailAside
  <2> QED BY <2>2, <2>3
<1>11. ASSUME NEW r \in Requests, Convert(r), Stored(r) PROVE Mailing'
  <2>1. req[r].op = "convert"
      BY <1>11, NoReqTask DEF Convert, TypeInv, Working
  <2>2. /\ Done(r) /\ mailed' = mailed
        /\ status' = [status EXCEPT ![req[r].quote] = "converted"]
      BY <1>11 DEF Convert
  <2> QED BY <1>0, <1>d, <2>1, <2>2 DEF Mailing
<1> QED BY <1>1, <1>2, <1>3, <1>4, <1>5, <1>6, <1>7, <1>8, <1>9, <1>10, <1>11, Outcome
    DEF Next

(* An invoice is inserted by its own request, or with the pointer to it. *)
LEMMA ConvertedKept ==
    ASSUME TypeInv, \A q \in Quotes : Converted(q), Next PROVE \A q \in Quotes : Converted(q)'
<1>1. ASSUME invoices' = invoices, pointer' = pointer PROVE \A q \in Quotes : Converted(q)'
    BY <1>1 DEF Converted, InvoicesOf
<1>2. ASSUME NEW r \in Requests, CreateInvoice(r) PROVE \A q \in Quotes : Converted(q)'
  <2>1. pointer' = pointer BY <1>2 DEF CreateInvoice, table
  <2>2. CASE req[r].op = "invoice"
    <3>1. req[r].quote = None BY <2>2, Request, NoReqTask DEF Operations
    <3>2. invoices' = invoices \cup {NewInvoice(r)} /\ NewInvoice(r).quote = None
        BY <1>2, <2>2, <3>1 DEF CreateInvoice, CommitsItself, Insert, NewInvoice
    <3>3. \A q \in Quotes : InvoicesOf(q)' = InvoicesOf(q)
        BY <3>2, QuotesConstants DEF InvoicesOf
    <3> QED BY <2>1, <3>3 DEF Converted
  <2>3. CASE req[r].op # "invoice"
      BY <1>1, <1>2, <2>1, <2>3 DEF CreateInvoice, CommitsItself, org
  <2> QED BY <2>2, <2>3
<1>3. ASSUME NEW r \in Requests, Convert(r), Stored(r) PROVE \A q \in Quotes : Converted(q)'
  <2> DEFINE i == NewInvoice(r)
  <2>0. req[r].quote \in Quotes BY <1>3, Request, NoReqTask DEF Convert
  <2>1. /\ invoices' = invoices \cup {i} /\ i.quote = req[r].quote /\ i.number = req[r].number
        /\ pointer' = [pointer EXCEPT ![req[r].quote] = req[r].number]
      BY <1>3 DEF Convert, Insert, NewInvoice
  <2>2. pointer \in [Quotes -> Nat] BY DEF TypeInv, TypeOK
  <2> HIDE DEF i
  <2>3. ASSUME NEW q \in Quotes, q = req[r].quote PROVE Converted(q)'
      BY <2>1, <2>2, <2>3 DEF Converted, InvoicesOf
  <2>4. ASSUME NEW q \in Quotes, q # req[r].quote PROVE Converted(q)'
    <3>1. InvoicesOf(q)' = InvoicesOf(q) BY <2>1, <2>4 DEF InvoicesOf
    <3>2. pointer'[q] = pointer[q] BY <2>1, <2>2, <2>4
    <3> QED BY <3>1, <3>2 DEF Converted
  <2> QED BY <2>3, <2>4
<1>4. ASSUME NEW q \in Quotes, Create(q) \/ Expire(q) PROVE \A p \in Quotes : Converted(p)'
    BY <1>1, <1>4 DEF Create, Expire, org
<1>5. ASSUME NEW r \in Requests, \/ \E q \in Quotes, op \in Operations : Load(r, q, op)
                                 \/ Delete(r) \/ SendMail(r) \/ Allocate(r) \/ Abort(r)
      PROVE  \A p \in Quotes : Converted(p)'
    BY <1>1, <1>5 DEF Load, Delete, SendMail, Allocate, Abort, RollBack, table, org
<1>6. ASSUME NEW r \in Requests, Stored(r),
             Update(r) \/ Respond(r) \/ (Send(r) /\ req[r].loaded = "draft")
      PROVE  \A p \in Quotes : Converted(p)'
    BY <1>1, <1>6 DEF Update, Respond, Send, org
<1> QED BY <1>2, <1>3, <1>4, <1>5, <1>6, Outcome DEF Next
-----------------------------------------------------------------------------
(* Quotes that were never shared. *)

(* Nothing of a quote has changed. *)
Same(q) ==
    /\ status'[q] = status[q] /\ rev'[q] = rev[q] /\ pointer'[q] = pointer[q]
    /\ acceptedRev'[q] = acceptedRev[q] /\ InvoicesOf(q)' = InvoicesOf(q)

(* A request touches no quote but its own, of which it remains the only one. *)
LEMMA OneQuote ==
    ASSUME TypeInv, Unshared, overlapped \subseteq overlapped', NEW r \in Requests, NEW k,
           req' = [req EXCEPT ![r] = k], NEW p, p = req[r].quote, k.quote \in {None, p},
           \A q \in Quotes : q # p => Same(q),
           p \in Quotes \ overlapped' => Faithful(p)',
           p \in Quotes \ overlapped' /\ k.quote = p => Fresh(r)'
    PROVE  Unshared'
<1>1. req'[r] = k /\ \A s \in Requests : s # r => req'[s] = req[s] BY OneMoves
<1>n. None \notin Quotes BY QuotesConstants
<1>2. ASSUME NEW q \in Quotes \ overlapped' PROVE Alone(q)' /\ Faithful(q)'
  <2>1. Alone(q) /\ Faithful(q) BY <1>2 DEF Unshared
  <2>2. \A s \in Requests : req'[s].quote = q => req[s].quote = q BY <1>1, <1>n
  <2>3. Alone(q)' BY <2>1, <2>2 DEF Alone
  <2>4. CASE q = p BY <1>2, <2>3, <2>4
  <2>5. CASE q # p
    <3>1. Same(q) BY <2>5
    <3>2. Faithful(q)' BY <2>1, <3>1 DEF Same, Faithful
    <3> QED BY <2>3, <3>2
  <2> QED BY <2>4, <2>5
<1>3. ASSUME NEW s \in Requests PROVE Fresh(s)'
  <2>1. CASE s = r
    <3>1. CASE k.quote = p /\ p \in Quotes \ overlapped' BY <2>1, <3>1
    <3>2. CASE k.quote = p /\ p \notin Quotes \ overlapped'
        BY <1>1, <2>1, <3>2 DEF Fresh
    <3>3. CASE k.quote = None BY <1>1, <1>n, <2>1, <3>3 DEF Fresh
    <3> QED BY <3>1, <3>2, <3>3
  <2>2. CASE s # r
    <3>1. SUFFICES ASSUME req[s].quote \in Quotes \ overlapped' PROVE Fresh(s)'
        BY <1>1, <2>2 DEF Fresh
    <3>2. req[s].quote # p BY <2>2, <3>1 DEF Unshared, Alone
    <3>3. Same(req[s].quote) BY <3>1, <3>2
    <3>4. Fresh(s) BY DEF Unshared
    <3> QED BY <1>1, <2>2, <3>1, <3>3, <3>4 DEF Fresh, Same
  <2> QED BY <2>1, <2>2
<1> QED BY <1>2, <1>3 DEF Unshared

(* A quote that is not converted has no invoice, if it was never shared. *)
LEMMA NotInvoiced ==
    ASSUME Unshared, NEW q \in Quotes \ overlapped, status[q] # "converted"
    PROVE  InvoicesOf(q) = {}
BY DEF Unshared, Faithful

(* A request that ends without having written leaves things as they are. *)
LEMMA UnsharedLeft ==
    ASSUME TypeInv, Unshared, overlapped \subseteq overlapped', NEW r \in Requests, NEW k,
           req' = [req EXCEPT ![r] = k], \A q \in Quotes : Same(q),
           k.quote = None \/ (/\ k.quote = req[r].quote /\ k.op = req[r].op
                              /\ k.loaded = req[r].loaded /\ k.rev = req[r].rev)
    PROVE  Unshared'
<1>1. PICK p : p = req[r].quote OBVIOUS
<1>2. req'[r] = k BY OneMoves
<1>3. p \in Quotes \ overlapped' => Faithful(p)' BY DEF Unshared, Faithful, Same
<1>4. p \in Quotes \ overlapped' /\ k.quote = p => Fresh(r)'
  <2>1. SUFFICES ASSUME p \in Quotes \ overlapped', k.quote = p PROVE Fresh(r)' OBVIOUS
  <2>2. k.quote # None BY <2>1, QuotesConstants
  <2>3. Fresh(r) /\ Same(p) BY <2>1 DEF Unshared
  <2> QED BY <1>1, <1>2, <2>1, <2>2, <2>3 DEF Fresh, Same
<1> QED BY <1>1, <1>3, <1>4, OneQuote

(* A request that writes its quote and ends. *)
LEMMA UnsharedWritten ==
    ASSUME TypeInv, Unshared, overlapped \subseteq overlapped', NEW r \in Requests, Done(r),
           NEW p, p = req[r].quote, \A q \in Quotes : q # p => Same(q),
           p \in Quotes \ overlapped' => Faithful(p)'
    PROVE  Unshared'
<1>1. PICK k : k = NoReq OBVIOUS
<1>2. req' = [req EXCEPT ![r] = k] BY <1>1 DEF Done
<1>3. k.quote = None BY <1>1, NoReqTask
<1>4. p \in Quotes \ overlapped' /\ k.quote = p => Fresh(r)' BY <1>3, QuotesConstants
<1>5. k.quote \in {None, p} BY <1>3
<1> QED BY <1>2, <1>4, <1>5, OneQuote

(* Every step keeps what is true of quotes that were never shared. *)
LEMMA UnsharedKept ==
    ASSUME TypeInv, Numbering, \A q \in Quotes : Converted(q), Unshared, Next PROVE Unshared'
<1> USE NoReqTask
<1>0. /\ status \in [Quotes -> {"absent", "draft", "sent", "deleted"} \cup Decided]
      /\ rev \in [Quotes -> 0..MaxEdits] /\ pointer \in [Quotes -> Nat]
      /\ acceptedRev \in [Quotes -> 0..MaxEdits]
    BY DEF TypeInv, TypeOK
<1>n. None \notin Quotes BY QuotesConstants
<1>1. ASSUME NEW p \in Quotes, Create(p) PROVE Unshared'
  <2>1. /\ status[p] = "absent" /\ status'[p] = "draft"
        /\ \A q \in Quotes : q # p => status'[q] = status[q]
        /\ UNCHANGED <<rev, pointer, acceptedRev, overlapped, req, invoices>>
      BY <1>0, <1>1 DEF Create, org, history
  <2>2. \A r \in Requests : req[r].quote # p BY <1>n, <2>1, Request
  <2>3. \A q \in Quotes : InvoicesOf(q)' = InvoicesOf(q) BY <2>1 DEF InvoicesOf
  <2>4. \A q \in Quotes \ overlapped' : Alone(q)' BY <2>1 DEF Unshared, Alone
  <2>5. \A q \in Quotes \ overlapped' : Faithful(q)'
      BY <2>1, <2>3 DEF Unshared, Faithful
  <2>6. \A r \in Requests : Fresh(r)' BY <2>1, <2>2 DEF Unshared, Fresh
  <2> QED BY <2>4, <2>5, <2>6 DEF Unshared
<1>u. ASSUME UNCHANGED <<status, rev, pointer, acceptedRev, overlapped, req, invoices>>
      PROVE  Unshared'
  <2>1. \A q \in Quotes : InvoicesOf(q)' = InvoicesOf(q) BY <1>u DEF InvoicesOf
  <2>2. \A q \in Quotes \ overlapped' : Alone(q)' BY <1>u DEF Unshared, Alone
  <2>3. \A q \in Quotes \ overlapped' : Faithful(q)' BY <1>u, <2>1 DEF Unshared, Faithful
  <2>4. \A r \in Requests : Fresh(r)' BY <1>u DEF Unshared, Fresh
  <2> QED BY <2>2, <2>3, <2>4 DEF Unshared
<1>2. ASSUME NEW p \in Quotes, Expire(p) PROVE Unshared'
    BY <1>2, <1>u DEF Expire, org, history
<1>3. ASSUME NEW r \in Requests, NEW p \in Quotes, NEW op \in Operations, Load(r, p, op)
      PROVE  Unshared'
  <2> DEFINE k == [op |-> op, at |-> "checked", quote |-> p,
                   loaded |-> status[p], rev |-> rev[p], number |-> 0]
  <2>1. /\ req[r] = NoReq /\ req' = [req EXCEPT ![r] = k] /\ Allows(op, p)
        /\ UNCHANGED <<status, rev, pointer, acceptedRev, invoices>>
        /\ overlapped \subseteq overlapped'
        /\ (\E s \in Requests : req[s].quote = p) => p \in overlapped'
      BY <1>3 DEF Load, table, org
  <2>2. \A q \in Quotes : InvoicesOf(q)' = InvoicesOf(q) BY <2>1 DEF InvoicesOf
  <2>3. /\ k.op = op /\ k.quote = p /\ k.loaded = status[p] /\ k.rev = rev[p]
      OBVIOUS
  <2> HIDE DEF k
  <2>4. req'[r] = k /\ \A s \in Requests : s # r => req'[s] = req[s] BY <2>1, OneMoves
  <2>5. ASSUME NEW q \in Quotes \ overlapped' PROVE Alone(q)' /\ Faithful(q)'
    <3>1. Faithful(q)' BY <2>1, <2>2, <2>5 DEF Unshared, Faithful
    <3>2. Alone(q) BY <2>1, <2>5 DEF Unshared
    <3>3. Alone(q)' BY <2>1, <2>3, <2>4, <2>5, <3>2 DEF Alone
    <3> QED BY <3>1, <3>3
  <2>6. ASSUME NEW s \in Requests, s # r PROVE Fresh(s)'
    <3>1. Fresh(s) BY DEF Unshared
    <3> QED BY <2>1, <2>4, <2>6, <3>1 DEF Fresh
  <2>7. Fresh(r)'
      BY <2>1, <2>3, <2>4 DEF Fresh, Allows, Editable, Answerable, Effective
  <2> QED BY <2>5, <2>6, <2>7 DEF Unshared
<1>4. ASSUME NEW r \in Requests, Abort(r) PROVE Unshared'
  <2>1. \A q \in Quotes : Same(q)
      BY <1>4 DEF Abort, RollBack, table, Same, InvoicesOf
  <2> QED BY <1>4, <2>1, UnsharedLeft DEF Abort, RollBack, Done
<1>5. ASSUME NEW r \in Requests, Update(r), Stored(r) PROVE Unshared'
  <2>1. PICK p : p = req[r].quote OBVIOUS
  <2>2. /\ Done(r) /\ rev' = [rev EXCEPT ![p] = @ + 1] /\ req[r].op = "update"
        /\ UNCHANGED <<status, pointer, invoices, acceptedRev, overlapped>>
      BY <1>5, <2>1 DEF Update, Doing, org
  <2>3. \A q \in Quotes : q # p => Same(q) BY <1>0, <2>2 DEF Same, InvoicesOf
  <2>4. p \in Quotes \ overlapped => Faithful(p)'
    <3>1. SUFFICES ASSUME p \in Quotes \ overlapped PROVE Faithful(p)' OBVIOUS
    <3>2. status[p] \in {"draft", "sent"} BY <2>1, <2>2, <3>1 DEF Unshared, Fresh
    <3>3. InvoicesOf(p) = {} BY <3>1, <3>2, NotInvoiced
    <3>4. status'[p] = status[p] /\ InvoicesOf(p)' = InvoicesOf(p) BY <2>2 DEF InvoicesOf
    <3> QED BY <3>2, <3>3, <3>4 DEF Faithful
  <2> QED BY <2>1, <2>2, <2>3, <2>4, UnsharedWritten
<1>6. ASSUME NEW r \in Requests, Delete(r) PROVE Unshared'
  <2>1. PICK p : p = req[r].quote OBVIOUS
  <2>2. /\ Done(r) /\ status' = [status EXCEPT ![p] = "deleted"] /\ req[r].op = "delete"
        /\ UNCHANGED <<rev, pointer, invoices, acceptedRev, overlapped>>
      BY <1>6, <2>1 DEF Delete, Doing, org, history
  <2>3. \A q \in Quotes : q # p => Same(q) BY <1>0, <2>2 DEF Same, InvoicesOf
  <2>4. p \in Quotes \ overlapped => Faithful(p)'
    <3>1. SUFFICES ASSUME p \in Quotes \ overlapped PROVE Faithful(p)' OBVIOUS
    <3>2. status[p] = "draft" BY <2>1, <2>2, <3>1 DEF Unshared, Fresh
    <3>3. InvoicesOf(p) = {} BY <3>1, <3>2, NotInvoiced
    <3>4. status'[p] = "deleted" /\ InvoicesOf(p)' = InvoicesOf(p)
        BY <1>0, <2>2, <3>1 DEF InvoicesOf
    <3> QED BY <3>3, <3>4 DEF Faithful
  <2> QED BY <2>1, <2>2, <2>3, <2>4, UnsharedWritten
<1>7. ASSUME NEW r \in Requests, Respond(r), Stored(r) PROVE Unshared'
  <2>1. PICK p : p = req[r].quote OBVIOUS
  <2>a. PICK yes \in BOOLEAN : yes = (req[r].op = "accept") OBVIOUS
  <2>2. /\ Done(r) /\ req[r].op \in {"accept", "reject"}
        /\ status' = [status EXCEPT ![p] = IF yes THEN "accepted" ELSE "rejected"]
        /\ acceptedRev' = [acceptedRev EXCEPT ![p] = IF yes THEN rev[p] ELSE @]
        /\ UNCHANGED <<rev, pointer, invoices, overlapped>>
      BY <1>7, <2>1, <2>a DEF Respond, Doing, org
  <2>3. \A q \in Quotes : q # p => Same(q) BY <1>0, <2>2 DEF Same, InvoicesOf
  <2>4. p \in Quotes \ overlapped => Faithful(p)'
    <3>1. SUFFICES ASSUME p \in Quotes \ overlapped PROVE Faithful(p)' OBVIOUS
    <3>2. status[p] = "sent" BY <2>1, <2>2, <3>1 DEF Unshared, Fresh
    <3>3. InvoicesOf(p) = {} BY <3>1, <3>2, NotInvoiced
    <3>4. /\ status'[p] = IF yes THEN "accepted" ELSE "rejected"
          /\ yes => acceptedRev'[p] = rev'[p]
          /\ InvoicesOf(p)' = InvoicesOf(p)
        BY <1>0, <2>2, <3>1 DEF InvoicesOf
    <3> QED BY <3>3, <3>4 DEF Faithful
  <2> QED BY <2>1, <2>2, <2>3, <2>4, UnsharedWritten
<1>8. ASSUME NEW r \in Requests, SendMail(r) PROVE Unshared'
  <2> DEFINE k == [req[r] EXCEPT !.at = "mailed"]
  <2>1. req' = [req EXCEPT ![r] = k] /\ UNCHANGED <<table, invoices, acceptedRev, overlapped>>
      BY <1>8 DEF SendMail, org, TypeInv, TypeOK
  <2>2. /\ k.quote = req[r].quote /\ k.op = req[r].op
        /\ k.loaded = req[r].loaded /\ k.rev = req[r].rev
      BY Request DEF Tasks
  <2>3. \A q \in Quotes : Same(q) BY <2>1 DEF Same, table, InvoicesOf
  <2> HIDE DEF k
  <2> QED BY <2>1, <2>2, <2>3, UnsharedLeft
<1>9. ASSUME NEW r \in Requests, Send(r), Stored(r), req[r].loaded = "draft" PROVE Unshared'
  <2>1. PICK p : p = req[r].quote OBVIOUS
  <2>2. /\ Done(r) /\ status' = [status EXCEPT ![p] = "sent"]
        /\ UNCHANGED <<rev, pointer, invoices, acceptedRev, overlapped>>
      BY <1>9, <2>1 DEF Send, org
  <2>3. \A q \in Quotes : q # p => Same(q) BY <1>0, <2>2 DEF Same, InvoicesOf
  <2>4. p \in Quotes \ overlapped => Faithful(p)'
    <3>1. SUFFICES ASSUME p \in Quotes \ overlapped PROVE Faithful(p)' OBVIOUS
    <3>2. status[p] = "draft" BY <1>9, <2>1, <3>1 DEF Unshared, Fresh
    <3>3. InvoicesOf(p) = {} BY <3>1, <3>2, NotInvoiced
    <3>4. status'[p] = "sent" /\ InvoicesOf(p)' = InvoicesOf(p)
        BY <1>0, <2>2, <3>1 DEF InvoicesOf
    <3> QED BY <3>3, <3>4 DEF Faithful
  <2> QED BY <2>1, <2>2, <2>3, <2>4, UnsharedWritten
<1>10. ASSUME NEW r \in Requests, Allocate(r) PROVE Unshared'
  <2> DEFINE k == [req[r] EXCEPT !.op = IF @ = "none" THEN "invoice" ELSE @,
                                 !.at = "allocated", !.number = nextNumber]
  <2>1. req' = [req EXCEPT ![r] = k] /\ UNCHANGED <<table, invoices, history>>
      BY <1>10 DEF Allocate, TypeInv, TypeOK
  <2>2. k.quote = None \/ (/\ k.quote = req[r].quote /\ k.op = req[r].op
                           /\ k.loaded = req[r].loaded /\ k.rev = req[r].rev)
    <3>1. req[r] \in Tasks BY Request
    <3>2. CASE req[r] = NoReq BY <3>1, <3>2 DEF Tasks
    <3>3. CASE Doing(r, "convert", "checked") BY <3>1, <3>3 DEF Tasks, Doing
    <3> QED BY <1>10, <3>2, <3>3 DEF Allocate
  <2>3. \A q \in Quotes : Same(q) BY <2>1 DEF Same, table, history, InvoicesOf
  <2>4. overlapped' = overlapped BY <2>1 DEF history
  <2> HIDE DEF k
  <2> QED BY <2>1, <2>2, <2>3, <2>4, UnsharedLeft
<1>11. ASSUME NEW r \in Requests, CreateInvoice(r) PROVE Unshared'
  <2>0. UNCHANGED <<table, history>> BY <1>11 DEF CreateInvoice
  <2>1. CASE req[r].op = "invoice"
    <3>1. req[r].quote = None BY <2>1, Request DEF Operations
    <3>2. invoices' = invoices \cup {NewInvoice(r)} /\ NewInvoice(r).quote = None
        BY <1>11, <2>1, <3>1 DEF CreateInvoice, CommitsItself, Insert, NewInvoice
    <3>3. \A q \in Quotes : InvoicesOf(q)' = InvoicesOf(q)
        BY <1>n, <3>2 DEF InvoicesOf
    <3>4. \A q \in Quotes : Same(q) BY <2>0, <3>3 DEF Same, table, history
    <3>5. overlapped' = overlapped BY <2>0 DEF history
    <3>6. req' = [req EXCEPT ![r] = NoReq] BY <1>11, <2>1 DEF CreateInvoice, Done
    <3> QED BY <3>4, <3>5, <3>6, UnsharedLeft
  <2>2. CASE req[r].op # "invoice"
    <3> DEFINE k == [req[r] EXCEPT !.at = "created"]
    <3>1. req' = [req EXCEPT ![r] = k] /\ invoices' = invoices
        BY <1>11, <2>2 DEF CreateInvoice, CommitsItself, org, TypeInv, TypeOK
    <3>2. /\ k.quote = req[r].quote /\ k.op = req[r].op
          /\ k.loaded = req[r].loaded /\ k.rev = req[r].rev
        BY Request DEF Tasks
    <3>3. \A q \in Quotes : Same(q) BY <2>0, <3>1 DEF Same, table, history, InvoicesOf
    <3>4. overlapped' = overlapped BY <2>0 DEF history
    <3> HIDE DEF k
    <3> QED BY <3>1, <3>2, <3>3, <3>4, UnsharedLeft
  <2> QED BY <2>1, <2>2
<1>12. ASSUME NEW r \in Requests, Convert(r), Stored(r) PROVE Unshared'
  <2>1. PICK p : p = req[r].quote OBVIOUS
  <2>2. PICK i : i = NewInvoice(r) OBVIOUS
  <2>3. /\ Done(r) /\ req[r].at = "created"
        /\ invoices' = invoices \cup {i} /\ i.quote = p /\ i.rev = req[r].rev
        /\ status' = [status EXCEPT ![p] = "converted"]
        /\ pointer' = [pointer EXCEPT ![p] = req[r].number]
        /\ UNCHANGED <<rev, acceptedRev, overlapped>>
      BY <1>12, <2>1, <2>2 DEF Convert, Insert, NewInvoice
  <2>4. p \in Quotes /\ req[r].op = "convert"
      BY <2>1, <2>3 DEF TypeInv, Working
  <2>5. \A q \in Quotes : q # p => Same(q) BY <1>0, <2>3 DEF Same, InvoicesOf
  <2>6. p \in Quotes \ overlapped => Faithful(p)'
    <3>1. SUFFICES ASSUME p \in Quotes \ overlapped PROVE Faithful(p)' OBVIOUS
    <3>2. status[p] = "accepted" /\ req[r].rev = rev[p]
        BY <2>1, <2>4, <3>1 DEF Unshared, Fresh
    <3>3. InvoicesOf(p) = {} BY <3>1, <3>2, NotInvoiced
    <3>4. acceptedRev[p] = rev[p] BY <3>1, <3>2 DEF Unshared, Faithful
    <3>5. InvoicesOf(p)' = {i} BY <2>3, <3>3 DEF InvoicesOf
    <3>6. status'[p] = "converted" BY <1>0, <2>3, <2>4
    <3> QED BY <2>3, <3>2, <3>4, <3>5, <3>6 DEF Faithful
  <2> QED BY <2>1, <2>3, <2>5, <2>6, UnsharedWritten
<1> QED BY <1>1, <1>2, <1>3, <1>4, <1>5, <1>6, <1>7, <1>8, <1>9, <1>10, <1>11, <1>12, Outcome
    DEF Next
-----------------------------------------------------------------------------
(* The inductive invariant. *)

(* No quote and no request yet. *)
LEMMA InitIInv == Init => IInv
<1> SUFFICES ASSUME Init PROVE IInv OBVIOUS
<1> USE NoReqTask
<1>1. \A r \in Requests : req[r] = NoReq BY DEF Init
<1>2. TypeOK
  <2>1. 0 \in 0..MaxEdits BY QuotesConstants
  <2> QED BY <2>1 DEF Init, TypeOK, Tasks
<1>3. TypeInv BY <1>1, <1>2 DEF TypeInv, Working
<1>4. Numbering
  <2>1. IsFiniteSet(invoices) /\ Cardinality(invoices) = 0 BY FS_EmptySet DEF Init
  <2>2. {i.number : i \in invoices} = {} /\ 1..(nextNumber - 1) = {} BY DEF Init
  <2>3. \A r \in Requests : Locking(r) BY <1>1, QuotesConstants DEF Init, Locking
  <2> QED BY <2>1, <2>2, <2>3, QuotesConstants
      DEF Numbering, NumbersGapless, WithinInvoiceLimit, Init
<1>5. Mailing BY <1>1 DEF Mailing, Init, Decided
<1>6. \A q \in Quotes : Converted(q) BY DEF Converted, InvoicesOf, Init
<1>7. Unshared
  <2>1. \A q \in Quotes : Alone(q) BY <1>1, QuotesConstants DEF Alone
  <2>2. \A q \in Quotes : Faithful(q) BY DEF Faithful, InvoicesOf, Init
  <2>3. \A r \in Requests : Fresh(r) BY <1>1, QuotesConstants DEF Fresh
  <2> QED BY <2>1, <2>2, <2>3 DEF Unshared
<1> QED BY <1>3, <1>4, <1>5, <1>6, <1>7 DEF IInv

(* Every step keeps it, and so does a stutter. *)
LEMMA NextIInv == IInv /\ [Next]_vars => IInv'
<1> SUFFICES ASSUME IInv, [Next]_vars PROVE IInv' OBVIOUS
<1>0. TypeInv /\ Numbering /\ Mailing /\ Unshared /\ \A q \in Quotes : Converted(q)
    BY DEF IInv
<1>1. CASE Next
  <2>1. TypeInv' /\ Numbering' BY <1>0, <1>1, TypeKept, NumberingKept
  <2>2. Mailing' /\ \A q \in Quotes : Converted(q)'
      BY <1>0, <1>1, MailingKept, ConvertedKept
  <2>3. Unshared' BY <1>0, <1>1, UnsharedKept
  <2> QED BY <2>1, <2>2, <2>3 DEF IInv
<1>2. CASE UNCHANGED vars
  <2>1. /\ UNCHANGED <<status, rev, past, pointer, invoices, nextNumber, orgLock>>
        /\ UNCHANGED <<req, mailed, acceptedRev, overlapped>>
      BY <1>2 DEF vars, table, org, history
  <2>2. \A q \in Quotes : InvoicesOf(q)' = InvoicesOf(q) BY <2>1 DEF InvoicesOf
  <2>3. TypeInv' BY <1>0, <2>1 DEF TypeInv, TypeOK, Working
  <2>4. Numbering'
    <3>1. \A r \in Requests : Locking(r)' BY <1>0, <2>1 DEF Numbering, Locking
    <3> QED BY <1>0, <2>1, <3>1 DEF Numbering, NumbersGapless, WithinInvoiceLimit
  <2>5. Mailing' BY <1>0, <2>1 DEF Mailing
  <2>6. \A q \in Quotes : Converted(q)' BY <1>0, <2>1, <2>2 DEF Converted
  <2>7. Unshared'
    <3>1. \A q \in Quotes \ overlapped' : Alone(q)' BY <1>0, <2>1 DEF Unshared, Alone
    <3>2. \A q \in Quotes \ overlapped' : Faithful(q)'
        BY <1>0, <2>1, <2>2 DEF Unshared, Faithful
    <3>3. \A r \in Requests : Fresh(r)' BY <1>0, <2>1 DEF Unshared, Fresh
    <3> QED BY <3>1, <3>2, <3>3 DEF Unshared
  <2> QED BY <2>3, <2>4, <2>5, <2>6, <2>7 DEF IInv
<1> QED BY <1>1, <1>2

(* The invariant holds of every behaviour. *)
THEOREM Invariant == Spec => []IInv
<1>1. Init => IInv BY InitIInv
<1>2. IInv /\ [Next]_vars => IInv' BY NextIInv
<1> QED BY <1>1, <1>2, PTL DEF Spec
-----------------------------------------------------------------------------
(* What is promised. *)

(* Every variable keeps its type. *)
THEOREM TypeCorrect == Spec => []TypeOK
<1>1. IInv => TypeOK BY DEF IInv, TypeInv
<1> QED BY <1>1, Invariant, PTL

(* convert_quote_to_invoice writes the invoice, the status and the pointer in  *)
(* one commit: however requests race, fail or retry, a quote that has invoices *)
(* points to one of them, and points to nothing else.                          *)
THEOREM ConversionAtomic == Spec => []ConversionIsAtomic
<1>1. IInv => ConversionIsAtomic BY DEF IInv, Converted, ConversionIsAtomic
<1> QED BY <1>1, Invariant, PTL

(* send_quote_record mails before it commits: what is accepted, rejected or    *)
(* converted had reached the customer, whoever else was writing the quote.     *)
THEOREM AnsweredMailed == Spec => []AnsweredWasMailed
<1>1. IInv => AnsweredWasMailed BY DEF IInv, Mailing, AnsweredWasMailed
<1> QED BY <1>1, Invariant, PTL

(* Under the row lock of the organization, numbers have no gap and no double. *)
THEOREM NumbersWithoutGaps == Spec => []NumbersGapless
<1>1. IInv => NumbersGapless BY DEF IInv, Numbering
<1> QED BY <1>1, Invariant, PTL

(* check_limit and the insertion are under one lock: the limit is never passed. *)
THEOREM LimitHolds == Spec => []WithinInvoiceLimit
<1>1. IInv => WithinInvoiceLimit BY DEF IInv, Numbering
<1> QED BY <1>1, Invariant, PTL

(* A quote its requests never overlapped on has one invoice at most, of the    *)
(* revision that was accepted, through any failures and retries.               *)
THEOREM InvoicedFaithfully == Spec => []InvoicedAsAccepted
<1>1. IInv => InvoicedAsAccepted
    BY DEF IInv, Unshared, Faithful, InvoicedAsAccepted
<1> QED BY <1>1, Invariant, PTL

(* What one step does to the status of a quote nobody else worked on. *)
LEMMA DecisionKept ==
    ASSUME IInv, Next, NEW q \in Quotes \ overlapped', status[q] \in Decided
    PROVE  status'[q] = status[q] \/ (status[q] = "accepted" /\ status'[q] = "converted")
<1> USE NoReqTask
<1>0. /\ status \in [Quotes -> {"absent", "draft", "sent", "deleted"} \cup Decided]
      /\ TypeInv /\ \A r \in Requests : Fresh(r)
    BY DEF IInv, TypeInv, TypeOK, Unshared
<1>d. status[q] \notin {"absent", "draft", "sent"} BY DEF Decided
<1>1. ASSUME NEW p \in Quotes, Create(p) \/ Expire(p) PROVE status'[q] = status[q]
    BY <1>0, <1>d, <1>1 DEF Create, Expire
<1>2. ASSUME NEW r \in Requests, \/ \E p \in Quotes, op \in Operations : Load(r, p, op)
                                 \/ SendMail(r) \/ Allocate(r) \/ CreateInvoice(r)
                                 \/ Abort(r)
      PROVE  status'[q] = status[q]
    BY <1>2 DEF Load, SendMail, Allocate, CreateInvoice, Abort, RollBack, table
<1>3. ASSUME NEW r \in Requests, Update(r), Stored(r) PROVE status'[q] = status[q]
    BY <1>3 DEF Update
<1>4. ASSUME NEW r \in Requests, Delete(r) PROVE status'[q] = status[q]
  <2>1. req[r].op = "delete" /\ overlapped' = overlapped
        /\ status' = [status EXCEPT ![req[r].quote] = "deleted"]
      BY <1>4 DEF Delete, Doing, history
  <2> QED BY <1>0, <1>d, <2>1 DEF Fresh
<1>5. ASSUME NEW r \in Requests, Respond(r), Stored(r) PROVE status'[q] = status[q]
  <2>1. /\ req[r].op \in {"accept", "reject"} /\ overlapped' = overlapped
        /\ status' = [status EXCEPT ![req[r].quote] =
                         IF req[r].op = "accept" THEN "accepted" ELSE "rejected"]
      BY <1>5 DEF Respond, Doing
  <2> QED BY <1>0, <1>d, <2>1 DEF Fresh
<1>6. ASSUME NEW r \in Requests, Send(r), Stored(r), req[r].loaded = "draft"
      PROVE  status'[q] = status[q]
  <2>1. overlapped' = overlapped /\ status' = [status EXCEPT ![req[r].quote] = "sent"]
      BY <1>6 DEF Send
  <2> QED BY <1>0, <1>d, <1>6, <2>1 DEF Fresh
<1>7. ASSUME NEW r \in Requests, Convert(r), Stored(r)
      PROVE  status'[q] = status[q] \/ (status[q] = "accepted" /\ status'[q] = "converted")
  <2>1. /\ req[r].at = "created" /\ overlapped' = overlapped
        /\ status' = [status EXCEPT ![req[r].quote] = "converted"]
      BY <1>7 DEF Convert
  <2>2. req[r].op = "convert" BY <1>0, <2>1 DEF TypeInv, Working
  <2> QED BY <1>0, <2>1, <2>2 DEF Fresh
<1> QED BY <1>0, <1>1, <1>2, <1>3, <1>4, <1>5, <1>6, <1>7, Outcome DEF Next

(* _require_sent, the draft-only deletion and the accepted-only conversion: a  *)
(* decision on such a quote is final, but for the conversion of what was       *)
(* accepted.                                                                   *)
THEOREM DecisionFinal == Spec => DecisionIsFinal
<1>1. IInv /\ [Next]_vars
        => [\A q \in Quotes \ overlapped' :
              status[q] \in Decided =>
                status'[q] = status[q] \/ (status[q] = "accepted" /\ status'[q] = "converted")]_vars
    BY DecisionKept
<1> QED BY <1>1, Invariant, PTL DEF Spec, DecisionIsFinal
=============================================================================
