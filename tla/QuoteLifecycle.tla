--------------------------- MODULE QuoteLifecycle ---------------------------
(***************************************************************************)
(* Quotes of one organization (app/services/quotes.py), and the numbered,  *)
(* plan-limited creation of invoices (app/services/invoices.py,            *)
(* app/services/plan_limits.py) that conversion calls.                     *)
(*                                                                         *)
(* A request loads the quote, checks the status it loaded, and commits     *)
(* later: a write through the ORM, without a lock on the quote or a WHERE  *)
(* on its status.  Invoice creation alone locks, and only the row of the   *)
(* organization.                                                           *)
(***************************************************************************)
EXTENDS Naturals, FiniteSets

CONSTANTS
    Quotes,       \* quote ids
    Requests,     \* concurrent requests, one database session each
    None,
    InvoiceLimit, \* max_invoices_per_month of the plan; one month is modelled
    MaxEdits      \* bound on the edits of one quote

ASSUME QuotesConstants ==
    /\ None \notin Quotes \cup Requests
    /\ InvoiceLimit \in Nat
    /\ MaxEdits \in Nat

VARIABLES
    status,      \* [Quotes -> stored status, or "absent", "deleted"]
    rev,         \* [Quotes -> revision of the line items and totals]
    past,        \* quotes whose expiry_date is before today
    pointer,     \* [Quotes -> converted_invoice_id: an invoice's number, or 0]
    invoices,    \* the organization's invoices: number, revision and quote, if any
    nextNumber,  \* Organization.next_invoice_number
    orgLock,     \* the request that holds the organization's row lock
    req,         \* what each request is doing
    mailed,      \* history: quotes whose email was delivered
    acceptedRev, \* history: the revision each quote had when it was accepted
    overlapped   \* history: quotes two requests ever worked on at once

table == <<status, rev, past, pointer>>
org == <<invoices, nextNumber, orgLock>>
history == <<mailed, acceptedRev, overlapped>>
vars == <<table, org, req, history>>

NoReq == [op |-> "none", at |-> "idle", quote |-> None,
          loaded |-> "absent", rev |-> 0, number |-> 0]

Init ==
    /\ status = [q \in Quotes |-> "absent"]
    /\ rev = [q \in Quotes |-> 0]
    /\ past = {}
    /\ pointer = [q \in Quotes |-> 0]
    /\ invoices = {}
    /\ nextNumber = 1
    /\ orgLock = None
    /\ req = [r \in Requests |-> NoReq]
    /\ mailed = {}
    /\ acceptedRev = [q \in Quotes |-> 0]
    /\ overlapped = {}

Decided == {"accepted", "rejected", "converted"}   \* _TERMINAL_STATUSES
Exists(q) == status[q] \notin {"absent", "deleted"}
InvoicesOf(q) == {i \in invoices : i.quote = q}

(* Mutant: a stored outcome does not win over a resend. *)
EffectiveByDate(q) ==
    IF q \in past THEN "expired" ELSE IF q \in mailed THEN "sent" ELSE status[q]

(* get_effective_quote_status: decisions win; expired is derived, never stored. *)
Effective(q) == IF status[q] \notin Decided /\ q \in past THEN "expired" ELSE status[q]

(* Mutants: accepted quotes stay editable; one may answer what was never sent. *)
EditableOnceAccepted(q) == status[q] \in {"draft", "sent", "accepted"}
AnswerableAsDraft(q) == Effective(q) \in {"draft", "sent"}

Editable(q) == status[q] \in {"draft", "sent"}
Answerable(q) == Effective(q) = "sent"   \* _require_sent

(* What each operation requires of the quote it loaded; sending, nothing. *)
Allows(op, q) ==
    CASE op = "update" -> Editable(q)
      [] op = "delete" -> status[q] = "draft"
      [] op \in {"accept", "reject"} -> Answerable(q)
      [] op = "convert" -> pointer[q] = 0 /\ status[q] = "accepted"
      [] OTHER -> TRUE

-----------------------------------------------------------------------------
(* create_quote_record; duplicate_quote_record comes to the same. *)
Create(q) ==
    /\ status[q] = "absent" /\ orgLock = None
    /\ status' = [status EXCEPT ![q] = "draft"]
    /\ UNCHANGED <<rev, past, pointer, org, req, history>>

(* get_quote_in_org or get_quote_by_public_token, then the operation's checks. *)
Load(r, q, op) ==
    /\ req[r] = NoReq
    /\ Exists(q) /\ Allows(op, q)
    /\ req' = [req EXCEPT ![r] = [op |-> op, at |-> "checked", quote |-> q,
                                  loaded |-> status[q], rev |-> rev[q], number |-> 0]]
    /\ overlapped' = IF \E s \in Requests : req[s].quote = q THEN overlapped \cup {q}
                     ELSE overlapped
    /\ UNCHANGED <<table, org, mailed, acceptedRev>>

Doing(r, op, at) == req[r].op = op /\ req[r].at = at
Done(r) == req' = [req EXCEPT ![r] = NoReq]

(* The UPDATE of a row deleted meanwhile matches nothing, and the ORM rolls back. *)
Stored(r) == Exists(req[r].quote)
RollBack(r) ==
    /\ Done(r)
    /\ orgLock' = IF orgLock = r THEN None ELSE orgLock
    /\ UNCHANGED <<table, invoices, nextNumber, mailed, acceptedRev>>

(* update_quote_record: new contents, and perhaps a new expiry date (today or later). *)
Update(r) ==
    /\ Doing(r, "update", "checked")
    /\ UNCHANGED overlapped
    /\ LET q == req[r].quote
       IN  IF ~Stored(r) THEN RollBack(r)
           ELSE /\ rev[q] < MaxEdits
                /\ rev' = [rev EXCEPT ![q] = @ + 1]
                /\ past' \in {past, past \ {q}}
                /\ Done(r)
                /\ UNCHANGED <<status, pointer, org, mailed, acceptedRev>>

(* delete_draft_quote_record *)
Delete(r) ==
    /\ Doing(r, "delete", "checked")
    /\ status' = [status EXCEPT ![req[r].quote] = "deleted"]
    /\ Done(r)
    /\ UNCHANGED <<rev, past, pointer, org, history>>

(* mark_quote_accepted_record, mark_quote_rejected_record *)
Respond(r) ==
    /\ Doing(r, "accept", "checked") \/ Doing(r, "reject", "checked")
    /\ UNCHANGED overlapped
    /\ LET q == req[r].quote  accepts == req[r].op = "accept"
       IN  IF ~Stored(r) THEN RollBack(r)
           ELSE /\ status' = [status EXCEPT ![q] = IF accepts THEN "accepted" ELSE "rejected"]
                /\ acceptedRev' = [acceptedRev EXCEPT ![q] = IF accepts THEN rev[q] ELSE @]
                /\ Done(r)
                /\ UNCHANGED <<rev, past, pointer, org, mailed>>

(* send_quote_record: the email, which may fail (an error, see Abort) ...      *)
SendMail(r) ==
    /\ Doing(r, "send", "checked")
    /\ mailed' = mailed \cup {req[r].quote}
    /\ req' = [req EXCEPT ![r].at = "mailed"]
    /\ UNCHANGED <<table, org, acceptedRev, overlapped>>

(* ... and only then the status, if the quote was loaded as a draft.          *)
Send(r) ==
    /\ Doing(r, "send", "mailed")
    /\ UNCHANGED overlapped
    /\ IF req[r].loaded # "draft" \/ ~Stored(r) THEN RollBack(r)
       ELSE /\ status' = [status EXCEPT ![req[r].quote] = "sent"]
            /\ Done(r)
            /\ UNCHANGED <<rev, past, pointer, org, mailed, acceptedRev>>

-----------------------------------------------------------------------------
(* create_invoice_record, in a request of its own or inside a conversion. *)

(* Mutants: no row lock; the invoice commits before the conversion does. *)
NoLock == TRUE
AlwaysCommits(r) == TRUE

(* _lock_organization *)
CanLock == orgLock = None

(* The `commit` argument: convert_quote_to_invoice passes False. *)
CommitsItself(r) == req[r].op = "invoice"

NewInvoice(r) == [number |-> req[r].number, quote |-> req[r].quote, rev |-> req[r].rev]
Insert(r) ==
    /\ invoices' = invoices \cup {NewInvoice(r)}
    /\ nextNumber' = req[r].number + 1
    /\ orgLock' = None

(* check_limit locks the organization's row and counts the month's usage (over  *)
(* the limit, the request fails); then the next number is read.                 *)
Allocate(r) ==
    /\ req[r] = NoReq \/ Doing(r, "convert", "checked")
    /\ CanLock
    /\ Cardinality(invoices) < InvoiceLimit
    /\ orgLock' = r
    /\ req' = [req EXCEPT ![r].op = IF @ = "none" THEN "invoice" ELSE @,
                          ![r].at = "allocated", ![r].number = nextNumber]
    /\ UNCHANGED <<table, invoices, nextNumber, history>>

(* The invoice is flushed, and committed or left to the caller's transaction. *)
CreateInvoice(r) ==
    /\ req[r].at = "allocated"
    /\ IF CommitsItself(r) THEN Insert(r) ELSE UNCHANGED org
    /\ IF req[r].op = "invoice" THEN Done(r) ELSE req' = [req EXCEPT ![r].at = "created"]
    /\ UNCHANGED <<table, history>>

(* convert_quote_to_invoice, its one commit: the invoice, the status and the   *)
(* pointer together.                                                           *)
Convert(r) ==
    /\ req[r].at = "created"
    /\ IF ~Stored(r) THEN RollBack(r)
       ELSE /\ Insert(r)
            /\ status' = [status EXCEPT ![req[r].quote] = "converted"]
            /\ pointer' = [pointer EXCEPT ![req[r].quote] = req[r].number]
            /\ Done(r)
            /\ UNCHANGED <<rev, past, mailed, acceptedRev>>
    /\ UNCHANGED overlapped

(* Mutant: the number is drawn from a sequence, which a rollback leaves alone. *)
AbortKeepsNumber(r) ==
    /\ req[r] # NoReq
    /\ nextNumber' = IF orgLock = r THEN nextNumber + 1 ELSE nextNumber
    /\ orgLock' = IF orgLock = r THEN None ELSE orgLock
    /\ Done(r)
    /\ UNCHANGED <<table, invoices, history>>

(* A failed request (the email was refused, the process died) rolls back. *)
Abort(r) ==
    /\ req[r] # NoReq
    /\ RollBack(r)
    /\ UNCHANGED overlapped

(* Mutant: a job writes the expiry into the status. *)
ExpireByJob(q) ==
    /\ Exists(q) /\ q \notin past
    /\ past' = past \cup {q}
    /\ status' = [status EXCEPT ![q] = IF @ \in Decided THEN @ ELSE "expired"]
    /\ UNCHANGED <<rev, pointer, org, req, history>>

(* The organization's local date reaches the day after the expiry date. *)
Expire(q) ==
    /\ Exists(q) /\ q \notin past
    /\ past' = past \cup {q}
    /\ UNCHANGED <<status, rev, pointer, org, req, history>>

Operations == {"update", "delete", "accept", "reject", "convert", "send"}

Next ==
    \/ \E q \in Quotes : Create(q) \/ Expire(q)
    \/ \E r \in Requests :
        \/ \E q \in Quotes, op \in Operations : Load(r, q, op)
        \/ Update(r) \/ Delete(r) \/ Respond(r) \/ SendMail(r) \/ Send(r)
        \/ Allocate(r) \/ CreateInvoice(r) \/ Convert(r) \/ Abort(r)

Spec == Init /\ [][Next]_vars

-----------------------------------------------------------------------------
(* Every variable keeps its type. *)
TypeOK ==
    /\ status \in [Quotes -> {"absent", "draft", "sent", "deleted"} \cup Decided]
    /\ rev \in [Quotes -> 0..MaxEdits]
    /\ past \subseteq Quotes
    /\ pointer \in [Quotes -> Nat]
    /\ invoices \subseteq [number : Nat \ {0}, quote : Quotes \cup {None}, rev : 0..MaxEdits]
    /\ nextNumber \in Nat \ {0}
    /\ orgLock \in Requests \cup {None}
    /\ req \in [Requests -> [op : Operations \cup {"none", "invoice"},
                             at : {"idle", "checked", "mailed", "allocated", "created"},
                             quote : Quotes \cup {None},
                             loaded : {"absent", "draft", "sent"} \cup Decided,
                             rev : 0..MaxEdits, number : Nat]]
    /\ mailed \subseteq Quotes
    /\ acceptedRev \in [Quotes -> 0..MaxEdits]
    /\ overlapped \subseteq Quotes

(* "Either both the invoice and the quote's converted state land together, or  *)
(* neither does", across races and failures: a quote points to an invoice of   *)
(* its own exactly if it has one.                                              *)
ConversionIsAtomic ==
    \A q \in Quotes : Exists(q) =>
        /\ InvoicesOf(q) # {} => \E i \in InvoicesOf(q) : i.number = pointer[q]
        /\ pointer[q] # 0 => \E i \in InvoicesOf(q) : i.number = pointer[q]

(* Only a quote that reached the customer is ever answered or converted: "a   *)
(* failed send must never leave the quote silently eligible for accept/reject *)
(* on a public link the customer never received".                             *)
AnsweredWasMailed == \A q \in Quotes : status[q] \in Decided => q \in mailed

(* Invoices are numbered 1, 2, ... without gaps or repetitions, whatever      *)
(* conversions race or roll back.                                             *)
NumbersGapless ==
    /\ {i.number : i \in invoices} = 1..(nextNumber - 1)
    /\ Cardinality(invoices) = nextNumber - 1

(* Concurrent creations never pass the plan's monthly limit. *)
WithinInvoiceLimit == Cardinality(invoices) <= InvoiceLimit

(* A quote no two requests worked on at once becomes one invoice at most, and *)
(* the invoice says what the customer accepted, even if conversion was retried *)
(* after failures.                                                            *)
InvoicedAsAccepted ==
    \A q \in Quotes \ overlapped : \A i, k \in InvoicesOf(q) :
        i = k /\ i.rev = acceptedRev[q] /\ rev[q] = acceptedRev[q]

(* Of such a quote a decision is final: nothing but the conversion of an      *)
(* accepted quote replaces it, whatever the expiry date.                      *)
DecisionIsFinal ==
    [][\A q \in Quotes \ overlapped' :
          status[q] \in Decided =>
              status'[q] = status[q] \/ (status[q] = "accepted" /\ status'[q] = "converted")]_vars

(* "A quote can never be converted twice." *)
ConvertedOnce == \A q \in Quotes : Cardinality(InvoicesOf(q)) <= 1
=============================================================================
