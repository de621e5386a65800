--------------------------- MODULE AdjustmentNotes ---------------------------
(***************************************************************************)
(* Credit and debit notes against one invoice (app/services/                *)
(* adjustment_notes.py), as concurrent requests run them on PostgreSQL     *)
(* under READ COMMITTED.                                                   *)
(*                                                                         *)
(* A request loads the note, checks the status it loaded, and only then    *)
(* (when issuing) takes the row lock of the source invoice.  The lock      *)
(* query does not reload the note, so the status checked may be old when   *)
(* the request commits.  Sums over notes are queries, always current.      *)
(*                                                                         *)
(* Amounts are natural numbers and untaxed: a line's net and gross value   *)
(* coincide, so the document and line ceilings are on one scale.           *)
(***************************************************************************)
EXTENDS Integers, FiniteSets, Functions

CONSTANTS
    Notes,      \* note ids
    Requests,   \* concurrent requests, one database session each
    Lines,      \* the invoice's line items
    LineTotal,  \* [Lines -> Nat]: their values
    Contents,   \* what a note may say: its type, the value credited to each
                \* invoice line, and the value of its free-form lines
    None

ASSUME NotesConstants ==
    /\ None \notin Notes \cup Requests
    /\ IsFiniteSet(Notes) /\ IsFiniteSet(Lines)
    /\ LineTotal \in [Lines -> Nat]
    /\ Contents \subseteq [type : {"credit", "debit"}, lines : [Lines -> Nat], free : Nat]
    \* DebitLineCannotReferenceSourceError
    /\ \A c \in Contents : c.type = "debit" => \A l \in Lines : c.lines[l] = 0

VARIABLES
    status,    \* [Notes -> "absent", "draft", "issued", "void" or "deleted"]
    content,   \* [Notes -> Contents or None], set at creation
    immediate, \* notes that were created and issued in one transaction
    req,       \* what each request is doing, and to which note
    invLock    \* the request that holds the source invoice's row lock

vars == <<status, content, immediate, req, invLock>>

NoReq == [op |-> "none", at |-> "idle", note |-> None, body |-> None]

Init ==
    /\ status = [n \in Notes |-> "absent"]
    /\ content = [n \in Notes |-> None]
    /\ immediate = {}
    /\ req = [r \in Requests |-> NoReq]
    /\ invLock = None

-----------------------------------------------------------------------------
(* Derived figures, each a query over the committed notes. *)

TotalOf(c) == SumFunction(c.lines) + c.free
InvoiceTotal == SumFunction(LineTotal)

(* AdjustmentNoteStatus.affects_invoice_economics *)
Issued == {n \in Notes : status[n] = "issued"}
IssuedOf(t) == {n \in Issued : content[n].type = t}

(* get_invoice_adjustments *)
Credited == SumFunction([n \in IssuedOf("credit") |-> TotalOf(content[n])])
Debited == SumFunction([n \in IssuedOf("debit") |-> TotalOf(content[n])])
AdjustedTotal == InvoiceTotal - Credited + Debited

RemainingCreditable == IF Credited > InvoiceTotal THEN 0 ELSE InvoiceTotal - Credited

(* Mutant: a debit counted with the sign of a credit. *)
AlwaysNegative(c) == -TotalOf(c)

(* signed_total, and the sum of get_adjusted_totals_by_invoice *)
SignedTotal(c) == IF c.type = "credit" THEN -TotalOf(c) ELSE TotalOf(c)
NetAdjustment == SumFunction([n \in Issued |-> SignedTotal(content[n])])

(* get_line_credit_usage *)
LineUsed(l, S) == SumFunction([n \in S |-> content[n].lines[l]])

(* _assert_within_credit_ceiling, _assert_within_line_ceilings *)
WithinCreditCeiling(c) == c.type = "credit" => TotalOf(c) <= RemainingCreditable

(* Mutant: each line checked against its full value. *)
WithinLineTotals(c) == c.type = "credit" => \A l \in Lines : c.lines[l] <= LineTotal[l]

WithinLineCeilings(c) ==
    c.type = "credit" =>
        \A l \in Lines : c.lines[l] > 0 =>
            c.lines[l] + LineUsed(l, IssuedOf("credit")) <= LineTotal[l]

-----------------------------------------------------------------------------
(* The handlers. *)

(* Mutant: the invoice is read without FOR UPDATE. *)
NoLock(r) == TRUE

(* _get_source_invoice_locked waits for the row lock ... *)
CanLock(r) == invLock = None

(* ... which the end of the transaction releases. *)
Unlocked(r) == IF invLock = r THEN None ELSE invLock

(* Mutant: the status is named after the event. *)
StatusFromEvent(now) == IF now THEN "issued" ELSE "created"

(* The status a new note is committed with. *)
StatusAtCreation(now) == IF now THEN "issued" ELSE "draft"

(* create_adjustment_note, up to its ceiling checks; one that fails rolls back. *)
CreateBegin(r, n, c, now) ==
    /\ req[r] = NoReq /\ CanLock(r)
    /\ status[n] = "absent" /\ \A q \in Requests : req[q].note # n
    /\ WithinCreditCeiling(c) /\ WithinLineCeilings(c)
    /\ invLock' = r
    /\ req' = [req EXCEPT ![r] = [op |-> IF now THEN "create_issued" ELSE "create",
                                  at |-> "locked", note |-> n, body |-> c]]
    /\ UNCHANGED <<status, content, immediate>>

(* The rest of it.  With issue_immediately, issue_adjustment_note runs in the  *)
(* same transaction and checks the document ceiling again.                     *)
CreateCommit(r) ==
    /\ req[r].at = "locked" /\ req[r].op \in {"create", "create_issued"}
    /\ LET n == req[r].note  now == req[r].op = "create_issued"
       IN  IF now /\ ~WithinCreditCeiling(req[r].body)
           THEN UNCHANGED <<status, content, immediate>>
           ELSE /\ status' = [status EXCEPT ![n] = StatusAtCreation(now)]
                /\ content' = [content EXCEPT ![n] = req[r].body]
                /\ immediate' = IF now THEN immediate \cup {n} ELSE immediate
    /\ invLock' = Unlocked(r)
    /\ req' = [req EXCEPT ![r] = NoReq]

(* The status each operation requires of the note it loaded. *)
Required(op) == IF op = "void" THEN "issued" ELSE "draft"

(* get_note_in_org, and the status check. *)
Load(r, n, op) ==
    /\ req[r] = NoReq
    /\ status[n] = Required(op)
    /\ req' = [req EXCEPT ![r] = [op |-> op, at |-> "checked", note |-> n, body |-> content[n]]]
    /\ UNCHANGED <<status, content, immediate, invLock>>

(* issue_adjustment_note: the lock, then the document ceiling again ...       *)
IssueLock(r) ==
    /\ req[r].op = "issue" /\ req[r].at = "checked" /\ CanLock(r)
    /\ IF WithinCreditCeiling(req[r].body)
       THEN invLock' = r /\ req' = [req EXCEPT ![r].at = "locked"]
       ELSE req' = [req EXCEPT ![r] = NoReq] /\ UNCHANGED invLock
    /\ UNCHANGED <<status, content, immediate>>

(* ... and its commit; the UPDATE of a deleted row fails and rolls back. *)
IssueCommit(r) ==
    /\ req[r].op = "issue" /\ req[r].at = "locked"
    /\ status' = [status EXCEPT ![req[r].note] = IF @ = "deleted" THEN @ ELSE "issued"]
    /\ invLock' = Unlocked(r)
    /\ req' = [req EXCEPT ![r] = NoReq]
    /\ UNCHANGED <<content, immediate>>

(* void_adjustment_note: no lock. *)
VoidCommit(r) ==
    /\ req[r].op = "void" /\ req[r].at = "checked"
    /\ status' = [status EXCEPT ![req[r].note] = IF @ = "deleted" THEN @ ELSE "void"]
    /\ req' = [req EXCEPT ![r] = NoReq]
    /\ UNCHANGED <<content, immediate, invLock>>

(* delete_draft_note: no lock. *)
DeleteCommit(r) ==
    /\ req[r].op = "delete" /\ req[r].at = "checked"
    /\ status' = [status EXCEPT ![req[r].note] = "deleted"]
    /\ req' = [req EXCEPT ![r] = NoReq]
    /\ UNCHANGED <<content, immediate, invLock>>

(* The request fails or its process dies: the transaction rolls back. *)
Abort(r) ==
    /\ req[r] # NoReq
    /\ invLock' = Unlocked(r)
    /\ req' = [req EXCEPT ![r] = NoReq]
    /\ UNCHANGED <<status, content, immediate>>

Next ==
    \E r \in Requests :
        \/ \E n \in Notes, c \in Contents, now \in BOOLEAN : CreateBegin(r, n, c, now)
        \/ \E n \in Notes, op \in {"issue", "void", "delete"} : Load(r, n, op)
        \/ CreateCommit(r) \/ IssueLock(r) \/ IssueCommit(r)
        \/ VoidCommit(r) \/ DeleteCommit(r) \/ Abort(r)

Spec == Init /\ [][Next]_vars

-----------------------------------------------------------------------------
(* Every variable keeps its type. *)
TypeOK ==
    /\ status \in [Notes -> {"absent", "draft", "issued", "void", "deleted"}]
    /\ content \in [Notes -> Contents \cup {None}]
    /\ immediate \subseteq Notes
    /\ req \in [Requests -> [op : {"none", "create", "create_issued", "issue", "void", "delete"},
                             at : {"idle", "checked", "locked"},
                             note : Notes \cup {None}, body : Contents \cup {None}]]
    /\ invLock \in Requests \cup {None}

(* However requests interleave, what is credited never exceeds the invoice:  *)
(* "a real guarantee rather than a pre-check that two concurrent requests    *)
(* can both pass".  So the adjusted total never turns negative.              *)
CreditWithinInvoice == Credited <= InvoiceTotal /\ AdjustedTotal >= 0

(* Notes created and issued in one transaction never credit a line beyond    *)
(* its value, whatever else was issued or voided meanwhile.                  *)
ImmediateWithinLines ==
    \A l \in Lines : LineUsed(l, IssuedOf("credit") \cap immediate) <= LineTotal[l]

(* The invoice view and the analytics query agree on the adjustment. *)
DerivationsAgree == NetAdjustment = AdjustedTotal - InvoiceTotal

(* No invoice line is credited beyond its value: the second of the two       *)
(* levels that docs/credit_debit_notes.md says are enforced.                 *)
CreditWithinLines == \A l \in Lines : LineUsed(l, IssuedOf("credit")) <= LineTotal[l]
=============================================================================
