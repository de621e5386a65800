--------------------------- MODULE AssistantActions ---------------------------
(***************************************************************************)
(* The assistant's proposals: proposed by app/ai/engine.py, confirmed or   *)
(* cancelled through app/services/assistant_actions.py by concurrent       *)
(* requests (browser tabs, the WhatsApp channel).                          *)
(*                                                                         *)
(* A confirmation locks the proposal's row, runs the tool, and then writes *)
(* the status.  A row lock lasts until the next commit or rollback of its  *)
(* session, and most tools commit or roll back: what they leave of the     *)
(* lock is the subject here.                                               *)
(***************************************************************************)
EXTENDS Naturals, FiniteSets

CONSTANTS
    Actions,    \* proposal ids
    Requests,   \* concurrent confirmations, one database session each
    None,
    MaxCrashes, \* bound on confirmations that die half-way
    MaxDays     \* bound on the midnights that pass

ASSUME AssistantConstants ==
    /\ None \notin Actions \cup Requests
    /\ MaxCrashes \in Nat /\ MaxDays \in Nat

VARIABLES
    status,    \* [Actions -> the row's status, or "absent"]
    tool,      \* [Actions -> how its tool behaves, see Tools]
    late,      \* open proposals whose expires_at has passed
    rowLock,   \* [Actions -> the request that holds the row's lock, or None]
    req,       \* what each confirmation is doing, and to which proposal
    day,       \* midnights passed, in the organization's time zone
    spent,     \* proposals whose target rules out another execution: the quote
               \* is converted, the invoice's manual reminder of today claimed
    performed, \* history: [Actions -> executions of the tool's effect]
    crashes    \* confirmations that died so far

vars == <<status, tool, late, rowLock, req, day, spent, performed, crashes>>

(* The tools, by what they do to the session of confirm_action:              *)
(*   create    the effect and a commit (create_invoice_draft,                *)
(*             create_quote_draft, update_invoice_status)                    *)
(*   convert   the same, once per quote (convert_quote_to_invoice)           *)
(*   email     an email, then a commit (send_invoice_email, send_quote of a  *)
(*             draft)                                                        *)
(*   resend    an email and no commit (send_quote of a sent quote)           *)
(*   reminder  a claim and its commit, or a rollback if it was claimed; then *)
(*             an email (send_payment_reminder)                              *)
Tools == {"create", "convert", "email", "resend", "reminder"}
Settled == {"executed", "cancelled", "expired", "failed"}

NoReq == [at |-> "idle", action |-> None]

Init ==
    /\ status = [a \in Actions |-> "absent"]
    /\ tool = [a \in Actions |-> None]
    /\ late = {}
    /\ rowLock = [a \in Actions |-> None]
    /\ req = [r \in Requests |-> NoReq]
    /\ day = 0
    /\ spent = {}
    /\ performed = [a \in Actions |-> 0]
    /\ crashes = 0

-----------------------------------------------------------------------------
(* _handle_tool_invocation: only ever inserts a row. *)
Propose(a, t) ==
    /\ status[a] = "absent"
    /\ status' = [status EXCEPT ![a] = "proposed"]
    /\ tool' = [tool EXCEPT ![a] = t]
    /\ UNCHANGED <<late, rowLock, req, day, spent, performed, crashes>>

(* Time passes; the date of a settled proposal is never looked at again. *)
Expire(a) ==
    /\ status[a] = "proposed" /\ a \notin late
    /\ late' = late \cup {a}
    /\ UNCHANGED <<status, tool, rowLock, req, day, spent, performed, crashes>>

(* The organization's day ends, and with it the claims on its reminders: the   *)
(* slot is UNIQUE(invoice_id, reminder_type, scheduled_for_date).  Midnights   *)
(* that free no slot of an open reminder change nothing and are not counted.   *)
Midnight ==
    /\ \E a \in spent : status[a] = "proposed" /\ tool[a] = "reminder"
    /\ day < MaxDays
    /\ day' = day + 1
    /\ spent' = {a \in spent : tool[a] # "reminder"}
    /\ UNCHANGED <<status, tool, late, rowLock, req, performed, crashes>>

(* Mutants: the row is read without FOR UPDATE; whatever is not expired may be *)
(* confirmed.                                                                  *)
NoLock(a) == TRUE
NotLate(a) == status[a] # "absent" /\ a \notin late

(* SELECT ... FOR UPDATE waits for the lock. *)
CanLock(a) == rowLock[a] = None

(* The checks under it: a late proposal expires, any other must be proposed. *)
Open(a) == status[a] = "proposed" /\ a \notin late
MarkExpired(a) ==
    /\ status[a] = "proposed" /\ a \in late
    /\ status' = [status EXCEPT ![a] = "expired"]
    /\ late' = late \ {a}

(* _load_locked_action, for a confirmation; one that is refused leaves no trace. *)
Confirm(r, a) ==
    /\ req[r] = NoReq /\ CanLock(a) /\ Open(a)
    /\ rowLock' = [rowLock EXCEPT ![a] = r]
    /\ req' = [req EXCEPT ![r] = [at |-> "locked", action |-> a]]
    /\ UNCHANGED <<status, tool, late, day, spent, performed, crashes>>

ConfirmLate(a) ==
    /\ CanLock(a) /\ MarkExpired(a)
    /\ UNCHANGED <<tool, rowLock, req, day, spent, performed, crashes>>

(* cancel_action *)
Cancel(a) ==
    /\ CanLock(a)
    /\ \/ MarkExpired(a)
       \/ Open(a) /\ status' = [status EXCEPT ![a] = "cancelled"] /\ UNCHANGED late
    /\ UNCHANGED <<tool, rowLock, req, day, spent, performed, crashes>>

-----------------------------------------------------------------------------
(* Inside a confirmation. *)

At(r, at, tools) == req[r].at = at /\ tool[req[r].action] \in tools
GoTo(r, at) == req' = [req EXCEPT ![r].at = at]
Perform(a) == performed' = [performed EXCEPT ![a] = @ + 1]

(* A commit or rollback of r's session releases the row, if r still holds it. *)
Release(r) == rowLock' = [b \in Actions |-> IF rowLock[b] = r THEN None ELSE rowLock[b]]

(* An UPDATE waits for the row's lock. *)
CanWrite(r) == rowLock[req[r].action] \in {None, r}

(* Mutant: no unique slot per invoice and day, no check that the quote is not  *)
(* converted.                                                                  *)
NeverSpent(a) == FALSE

(* The conversion finds the quote converted, the claim violates its constraint. *)
Spent(a) == a \in spent

(* Execute with a commit of its own. *)
Create(r) ==
    /\ At(r, "locked", {"create", "convert"})
    /\ tool[req[r].action] = "convert" => ~Spent(req[r].action)
    /\ spent' = IF tool[req[r].action] = "convert" THEN spent \cup {req[r].action} ELSE spent
    /\ Perform(req[r].action) /\ Release(r) /\ GoTo(r, "performed")
    /\ UNCHANGED <<status, tool, late, day, crashes>>

(* Execute by email ... *)
SendMail(r) ==
    /\ At(r, "locked", {"email", "resend"})
    /\ Perform(req[r].action)
    /\ GoTo(r, IF tool[req[r].action] = "email" THEN "sent" ELSE "performed")
    /\ UNCHANGED <<status, tool, late, rowLock, day, spent, crashes>>

(* ... and commit the event or the quote's status. *)
CommitSent(r) ==
    /\ At(r, "sent", Tools)
    /\ Release(r) /\ GoTo(r, "performed")
    /\ UNCHANGED <<status, tool, late, day, spent, performed, crashes>>

(* claim_and_send_reminder: claim the slot of the day the clock showed, or     *)
(* roll back.  A midnight between the clock and the claim is one after both:   *)
(* the slots of two days have nothing to do with each other ...                *)
Claim(r) ==
    /\ At(r, "locked", {"reminder"})
    /\ Release(r)
    /\ spent' = spent \cup {req[r].action}
    /\ GoTo(r, IF Spent(req[r].action) THEN "refused" ELSE "claimed")
    /\ UNCHANGED <<status, tool, late, day, performed, crashes>>

(* ... and send; an email that fails leaves the slot taken for the day. *)
Remind(r) ==
    /\ At(r, "claimed", Tools)
    /\ \/ Perform(req[r].action) /\ GoTo(r, "performed")
       \/ UNCHANGED performed /\ GoTo(r, "refused")
    /\ UNCHANGED <<status, tool, late, rowLock, day, spent, crashes>>

(* The tool raises before it wrote anything, or may not be run any more. *)
Refuse(r) ==
    /\ At(r, "locked", Tools)
    /\ GoTo(r, "refused")
    /\ UNCHANGED <<status, tool, late, rowLock, day, spent, performed, crashes>>

(* send_invoice_email shares the rate limit of the direct endpoint: over it,   *)
(* the request ends and leaves the proposal open.                              *)
TurnAway(r) ==
    /\ At(r, "locked", {"email"})
    /\ Release(r)
    /\ req' = [req EXCEPT ![r] = NoReq]
    /\ UNCHANGED <<status, tool, late, day, spent, performed, crashes>>

(* Mutants: a refusal is recorded as an execution; a phase as the status. *)
ExecutedAnyway(r) == "executed"
OutcomeAsPhase(r) == req[r].at

(* The outcome, written over whatever the row says by now. *)
Outcome(r) == IF req[r].at = "performed" THEN "executed" ELSE "failed"
Settle(r) ==
    /\ req[r].at \in {"performed", "refused"} /\ CanWrite(r)
    /\ status' = [status EXCEPT ![req[r].action] = Outcome(r)]
    /\ late' = late \ {req[r].action}
    /\ Release(r)
    /\ req' = [req EXCEPT ![r] = NoReq]
    /\ UNCHANGED <<tool, day, spent, performed, crashes>>

(* The user converts the quote or sends the day's reminder by hand, at a       *)
(* moment when that still matters to the proposal.                             *)
DoneByHand(a) ==
    /\ status[a] = "proposed"
    /\ tool[a] \in {"convert", "reminder"} /\ a \notin spent
    /\ spent' = spent \cup {a}
    /\ UNCHANGED <<status, tool, late, rowLock, req, day, performed, crashes>>

(* The process dies, or anything else raises: the session rolls back. *)
Crash(r) ==
    /\ req[r] # NoReq /\ crashes < MaxCrashes
    /\ crashes' = crashes + 1
    /\ Release(r)
    /\ req' = [req EXCEPT ![r] = NoReq]
    /\ UNCHANGED <<status, tool, late, day, spent, performed>>

Next ==
    \/ Midnight
    \/ \E a \in Actions :
        \/ \E t \in Tools : Propose(a, t)
        \/ Expire(a) \/ ConfirmLate(a) \/ Cancel(a) \/ DoneByHand(a)
    \/ \E r \in Requests :
        \/ \E a \in Actions : Confirm(r, a)
        \/ Create(r) \/ SendMail(r) \/ CommitSent(r) \/ Claim(r) \/ Remind(r)
        \/ Refuse(r) \/ TurnAway(r) \/ Settle(r) \/ Crash(r)

Spec == Init /\ [][Next]_vars
-----------------------------------------------------------------------------
Phases == {"idle", "locked", "sent", "claimed", "performed", "refused"}

(* Every variable keeps its type. *)
TypeOK ==
    /\ status \in [Actions -> {"absent", "proposed"} \cup Settled]
    /\ tool \in [Actions -> Tools \cup {None}]
    /\ late \subseteq Actions
    /\ rowLock \in [Actions -> Requests \cup {None}]
    /\ req \in [Requests -> [at : Phases, action : Actions \cup {None}]]
    /\ day \in Nat
    /\ spent \subseteq Actions
    /\ performed \in [Actions -> Nat]
    /\ crashes \in Nat

(* A proposal that says executed had its effect, however confirmations of it *)
(* overlap, overwrite one another's outcome or die.                          *)
ExecutedWasPerformed ==
    \A a \in Actions : status[a] = "executed" => performed[a] > 0

(* A quote is converted once, and a reminder goes out once, and once more for *)
(* each midnight that passed, although the tool's commit opens the proposal   *)
(* to a second confirmation: their targets rule it out, for good or for the   *)
(* day, even while a reminder claimed yesterday is still being sent.          *)
SpentOnce ==
    \A a \in Actions :
        /\ tool[a] = "convert" => performed[a] <= 1
        /\ tool[a] = "reminder" => performed[a] <= 1 + day

(* A tool that leaves the commit to confirm_action keeps the lock: it runs   *)
(* once, and once more for each confirmation that died.                      *)
LockedOnce ==
    \A a \in Actions : tool[a] = "resend" => performed[a] <= 1 + crashes

(* Once settled, a proposal starts nothing: only a reminder that was claimed *)
(* before may still go out.                                                  *)
SettledStartsNothing ==
    [][\A a \in Actions :
          status[a] \in Settled /\ performed'[a] # performed[a] => tool[a] = "reminder"]_vars

(* "Two racing requests for the same proposal can never both succeed." *)
ExecutedOnce == \A a \in Actions : performed[a] <= 1
=============================================================================
