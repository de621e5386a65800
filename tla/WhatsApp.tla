------------------------------ MODULE WhatsApp ------------------------------
(***************************************************************************)
(* The assistant over WhatsApp (app/whatsapp/service.py), composed with    *)
(* the proposals of AssistantActions: one linked user who also has a       *)
(* browser.                                                                *)
(*                                                                         *)
(* A web process handles one inbound message at a time: its endpoint is a  *)
(* coroutine that never awaits while it works.  Each process remembers on  *)
(* its own which proposal CONFIRM and CANCEL are about, and loses it when  *)
(* it dies.  A message is recorded by the last commit of its handling: one *)
(* that arrives again before that, or after a handling that failed, is     *)
(* handled again.                                                          *)
(***************************************************************************)
EXTENDS AssistantActions

CONSTANTS
    Processes, \* web processes; each is also the session of its handler
    Messages,  \* message ids
    MaxLosses  \* bound on failures, here and in the browser

ASSUME ChannelConstants ==
    /\ Processes \subseteq Requests
    /\ None \notin Messages
    /\ MaxLosses \in Nat

VARIABLES
    pending,   \* [Processes -> the proposal in the process's memory, or None]
    handling,  \* what each process is doing, for which message
    text,      \* [Messages -> what the message says, None before it arrives
               \* and once it is recorded: nobody reads it again]
    recorded,  \* messages with a whatsapp_inbound_messages row
    browsed,   \* history: proposals some browser set out to confirm
    acted,     \* history: [Messages -> proposals made, confirmed or cancelled for it]
    failed,    \* history: [Messages -> handlings that ended without a record]
    shared     \* history: messages two processes handled at once

channel == <<pending, handling, text, recorded, browsed, acted, failed, shared>>
allVars == <<vars, channel>>

(* FORGET is ContextLost; a message that only gets a reply (help, a document)  *)
(* changes nothing but its own record.                                         *)
Texts == {"ask", "confirm", "cancel"}
NoTask == [at |-> "idle", msg |-> None, action |-> None]

ChannelInit ==
    /\ Init
    /\ pending = [p \in Processes |-> None]
    /\ handling = [p \in Processes |-> NoTask]
    /\ text = [m \in Messages |-> None]
    /\ recorded = {} /\ browsed = {} /\ shared = {}
    /\ acted = [m \in Messages |-> 0]
    /\ failed = [m \in Messages |-> 0]

Doing(p, at) == handling[p].at = at
Says(p, t) == Doing(p, "begun") /\ text[handling[p].msg] = t
Forget(p) == pending' = [pending EXCEPT ![p] = None]
Proceed(p, at) == handling' = [handling EXCEPT ![p].at = at]
Act(p) == acted' = [acted EXCEPT ![handling[p].msg] = @ + 1]

-----------------------------------------------------------------------------
(* Mutants: the record is not looked for; a proposal is forgotten only by the  *)
(* next one, not by its confirmation; the phase is the command's reply.        *)
ReceiveAgain(p, m, t) ==
    /\ handling[p] = NoTask /\ text[m] \in {None, t}
    /\ text' = [text EXCEPT ![m] = t]
    /\ handling' = [handling EXCEPT ![p] = [NoTask EXCEPT !.at = "begun", !.msg = m]]
    /\ UNCHANGED <<vars, pending, recorded, browsed, acted, failed, shared>>
TakeAndKeep(p) ==
    /\ Says(p, "confirm") \/ Says(p, "cancel")
    /\ pending[p] # None
    /\ handling' = [handling EXCEPT ![p].at = text[handling[p].msg], ![p].action = pending[p]]
    /\ Act(p)
    /\ UNCHANGED <<vars, pending, text, recorded, browsed, failed, shared>>
AnswerAsPhase(p) ==
    /\ Doing(p, "begun")
    /\ Proceed(p, text[handling[p].msg])
    /\ UNCHANGED <<vars, pending, text, recorded, browsed, acted, failed, shared>>

(* A message arrives, for the first time or again. *)
Receive(p, m, t) ==
    /\ handling[p] = NoTask /\ m \notin recorded /\ text[m] \in {None, t}
    /\ text' = [text EXCEPT ![m] = t]
    /\ handling' = [handling EXCEPT ![p] = [NoTask EXCEPT !.at = "begun", !.msg = m]]
    /\ shared' = IF \E q \in Processes : handling[q].msg = m THEN shared \cup {m} ELSE shared
    /\ UNCHANGED <<vars, pending, recorded, browsed, acted, failed>>

(* Nothing but a reply: an exhausted limit, CONFIRM or CANCEL with no proposal *)
(* in memory, an assistant that proposes nothing.                              *)
Answer(p) ==
    /\ Doing(p, "begun")
    /\ Proceed(p, "answered")
    /\ UNCHANGED <<vars, pending, text, recorded, browsed, acted, failed, shared>>

(* The assistant proposes; the process shows it to the user and remembers it.  *)
Ask(p, a, t) ==
    /\ Says(p, "ask")
    /\ Propose(a, t)
    /\ pending' = [pending EXCEPT ![p] = a]
    /\ Act(p) /\ Proceed(p, "answered")
    /\ UNCHANGED <<text, recorded, browsed, failed, shared>>

(* CONFIRM and CANCEL take the proposal out of the memory first ... *)
Take(p) ==
    /\ Says(p, "confirm") \/ Says(p, "cancel")
    /\ pending[p] # None
    /\ handling' = [handling EXCEPT ![p].at = text[handling[p].msg], ![p].action = pending[p]]
    /\ Forget(p) /\ Act(p)
    /\ UNCHANGED <<vars, text, recorded, browsed, failed, shared>>

(* ... then call confirm_action, the same as a browser's ... *)
ConfirmTaken(p) ==
    /\ Doing(p, "confirm")
    /\ Confirm(p, handling[p].action)
    /\ Proceed(p, "confirming")
    /\ UNCHANGED <<pending, text, recorded, browsed, acted, failed, shared>>

(* ... which may refuse before it runs a tool: the proposal is settled or      *)
(* late, the user has lost a permission, a rate limit is used up ...           *)
ConfirmRefused(p) ==
    /\ Doing(p, "confirm")
    /\ ConfirmLate(handling[p].action) \/ UNCHANGED vars
    /\ Proceed(p, "answered")
    /\ UNCHANGED <<pending, text, recorded, browsed, acted, failed, shared>>

(* ... or cancel_action, whose failure is not reported. *)
CancelTaken(p) ==
    /\ Doing(p, "cancel")
    /\ \/ Cancel(handling[p].action)
       \/ CanLock(handling[p].action) /\ status[handling[p].action] \in Settled /\ UNCHANGED vars
    /\ Proceed(p, "answered")
    /\ UNCHANGED <<pending, text, recorded, browsed, acted, failed, shared>>

(* The tool of a confirmation, and the end of it. *)
RunTool(r) ==
    Create(r) \/ SendMail(r) \/ CommitSent(r) \/ Claim(r) \/ Remind(r) \/ Refuse(r)
EndConfirm(r) == Settle(r) \/ TurnAway(r)

ToolStep(p) == RunTool(p) /\ UNCHANGED channel
ConfirmEnds(p) ==
    /\ EndConfirm(p)
    /\ Proceed(p, "answered")
    /\ UNCHANGED <<pending, text, recorded, browsed, acted, failed, shared>>

(* The reply, the record and the last commit; if the message was recorded      *)
(* meanwhile the unique index turns it into an error, and nothing changes.     *)
Record(p) ==
    /\ Doing(p, "answered")
    /\ recorded' = recorded \cup {handling[p].msg}
    /\ handling' = [handling EXCEPT ![p] = NoTask]
    /\ text' = IF \E q \in Processes \ {p} : handling[q].msg = handling[p].msg
               THEN text ELSE [text EXCEPT ![handling[p].msg] = None]
    /\ UNCHANGED <<vars, pending, browsed, acted, failed, shared>>

Spared == \A m \in Messages : failed[m] + crashes < MaxLosses

(* An error nobody catches (among them the deadlock of this handler, which     *)
(* holds the organization's row, with a browser's that holds the proposal's),  *)
(* or the death of the process and its memory.                                 *)
Lose(p) ==
    /\ ~Doing(p, "idle")
    /\ Spared
    /\ IF req[p] = NoReq THEN UNCHANGED vars ELSE Crash(p)
    /\ handling' = [handling EXCEPT ![p] = NoTask]
    /\ failed' = [failed EXCEPT ![handling[p].msg] = @ + 1]
    /\ UNCHANGED pending \/ Forget(p)
    /\ UNCHANGED <<text, recorded, browsed, acted, shared>>

(* The user says FORGET, the context's time to live passes, the link is        *)
(* revoked, an idle process restarts.                                          *)
ContextLost(p) ==
    /\ pending[p] # None
    /\ Forget(p)
    /\ UNCHANGED <<vars, handling, text, recorded, browsed, acted, failed, shared>>

-----------------------------------------------------------------------------
(* The same user's browser, and time. *)
BrowserConfirm(r, a) ==
    /\ Confirm(r, a)
    /\ browsed' = browsed \cup {a}
    /\ UNCHANGED <<pending, handling, text, recorded, acted, failed, shared>>
BrowserStep(r) ==
    /\ RunTool(r) \/ EndConfirm(r) \/ (Spared /\ Crash(r))
    /\ UNCHANGED channel

Elsewhere(a) ==
    /\ (\E t \in Tools : Propose(a, t)) \/ Expire(a) \/ ConfirmLate(a) \/ Cancel(a)
          \/ DoneByHand(a)
    /\ UNCHANGED channel

NextDay == Midnight /\ UNCHANGED channel

Handle(p) ==
    \/ \E m \in Messages, t \in Texts : Receive(p, m, t)
    \/ Answer(p) \/ Take(p)
    \/ \E a \in Actions, t \in Tools : Ask(p, a, t)
    \/ ConfirmTaken(p) \/ ConfirmRefused(p) \/ CancelTaken(p)
    \/ ToolStep(p) \/ ConfirmEnds(p) \/ Record(p) \/ Lose(p) \/ ContextLost(p)

ChannelNext ==
    \/ \E p \in Processes : Handle(p)
    \/ \E r \in Requests \ Processes :
          (\E a \in Actions : BrowserConfirm(r, a)) \/ BrowserStep(r)
    \/ \E a \in Actions : Elsewhere(a)
    \/ NextDay

ChannelSpec == ChannelInit /\ [][ChannelNext]_allVars

-----------------------------------------------------------------------------
Tasks == [at : {"idle", "begun", "confirm", "cancel", "confirming", "answered"},
          msg : Messages \cup {None}, action : Actions \cup {None}]

(* Every variable keeps its type, the proposals' included. *)
ChannelTypeOK ==
    /\ TypeOK
    /\ pending \in [Processes -> Actions \cup {None}]
    /\ handling \in [Processes -> Tasks]
    /\ text \in [Messages -> Texts \cup {None}]
    /\ recorded \subseteq Messages /\ shared \subseteq Messages /\ browsed \subseteq Actions
    /\ acted \in [Messages -> Nat] /\ failed \in [Messages -> Nat]

(* What only WhatsApp confirms takes effect once, although a tool's commit     *)
(* leaves the proposal open to a second confirmation, messages arrive twice,   *)
(* handlings fail after the effect, and several processes answer.              *)
OnceByWhatsApp == \A a \in Actions \ browsed : performed[a] <= 1

(* "A message posted twice is processed at most once": once more for each      *)
(* handling of it that failed, unless two processes had it at once.            *)
MessageActsOnce == \A m \in Messages \ shared : acted[m] <= 1 + failed[m]
=============================================================================
