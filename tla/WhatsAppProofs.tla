--------------------------- MODULE WhatsAppProofs ---------------------------
(***************************************************************************)
(* What WhatsApp guarantees for any number of proposals, messages, web     *)
(* processes and browsers, and any number of failures.                     *)
(***************************************************************************)
EXTENDS WhatsApp, AssistantProofs

(* A handler that is not confirming has no confirmation under way; one that  *)
(* is works on the proposal it took.                                         *)
Handlers ==
    \A p \in Processes :
        /\ handling[p].at = "idle" => handling[p] = NoTask
        /\ handling[p].at # "idle" => handling[p].msg \in Messages
        /\ handling[p].at \in {"confirm", "cancel"} => handling[p].action \in Actions
        /\ handling[p].at = "confirming" => req[p].action = handling[p].action
        /\ handling[p].at # "confirming" => req[p] = NoReq

Browsers == \A r \in Requests \ Processes : req[r].at # "idle" => req[r].action \in browsed

(* The ways in which a process may still bring about the effect of proposal a: *)
(* it remembers it, has taken it to confirm it, or is about to run the tool.   *)
Remembers(p, a) == pending[p] = a
Chose(p, a) == handling[p].at = "confirm" /\ handling[p].action = a
Runs(p, a) == req[p].at \in {"locked", "claimed"} /\ req[p].action = a
May(p, a) == Remembers(p, a) \/ Chose(p, a) \/ Runs(p, a)

(* One process may, in one of the ways, and only if nobody did: unless a browser *)
(* had its hand in it.                                                           *)
Sole(a) ==
    /\ a \notin browsed => performed[a] <= 1
    /\ \A p \in Processes : May(p, a) =>
          /\ status[a] # "absent"
          /\ a \notin browsed => performed[a] = 0
          /\ Remembers(p, a) => ~Chose(p, a) /\ ~Runs(p, a)
          /\ \A q \in Processes \ {p} : ~May(q, a)
Effects == \A a \in Actions : Sole(a)

(* A message nobody shares is handled by one process, and not after its record; *)
(* until it is acted upon, each of its actions is paid for by a failure.        *)
Untouched(m) ==
    m \notin recorded /\ \A p \in Processes : handling[p].msg = m => handling[p].at = "begun"
Accounted(m) ==
    /\ \A p, q \in Processes : handling[p].msg = m /\ handling[q].msg = m => p = q
    /\ m \in recorded => \A p \in Processes : handling[p].msg # m
    /\ acted[m] <= 1 + failed[m]
    /\ Untouched(m) => acted[m] <= failed[m]
Ledger == \A m \in Messages \ shared : Accounted(m)

ChannelInv == Inv /\ ChannelTypeOK /\ Handlers /\ Browsers /\ Effects /\ Ledger

-----------------------------------------------------------------------------
(* The channel does nothing to the proposals that AssistantActions does not. *)
LEMMA StepIsAllowed == ChannelTypeOK /\ Handlers /\ [ChannelNext]_allVars => [Next]_vars
<1> SUFFICES ASSUME ChannelTypeOK, Handlers, [ChannelNext]_allVars PROVE [Next]_vars
  OBVIOUS
<1>1. ASSUME NEW p \in Processes, Handle(p) PROVE [Next]_vars
  <2>0. p \in Requests
    BY ChannelConstants
  <2>1. CASE \E a \in Actions, t \in Tools : Ask(p, a, t)
    BY <2>1 DEF Ask, Next
  <2>2. CASE ConfirmTaken(p)
    BY <2>0, <2>2 DEF ConfirmTaken, Doing, Handlers, Next
  <2>3. CASE ConfirmRefused(p)
    BY <2>3 DEF ConfirmRefused, Doing, Handlers, Next
  <2>4. CASE CancelTaken(p)
    BY <2>4 DEF CancelTaken, Doing, Handlers, Next
  <2>5. CASE ToolStep(p) \/ ConfirmEnds(p)
    BY <2>0, <2>5 DEF ToolStep, ConfirmEnds, RunTool, EndConfirm, Next
  <2>6. CASE Lose(p)
    BY <2>0, <2>6 DEF Lose, Next
  <2>7. QED
    BY <1>1, <2>1, <2>2, <2>3, <2>4, <2>5, <2>6
       DEF Handle, Receive, Answer, Take, Record, ContextLost
<1>2. ASSUME NEW r \in Requests \ Processes,
             (\E a \in Actions : BrowserConfirm(r, a)) \/ BrowserStep(r)
      PROVE  [Next]_vars
  BY <1>2 DEF BrowserConfirm, BrowserStep, RunTool, EndConfirm, Next
<1>3. ASSUME NEW a \in Actions, Elsewhere(a) PROVE [Next]_vars
  BY <1>3 DEF Elsewhere, Next
<1>4. CASE NextDay
  BY <1>4 DEF NextDay, Next
<1>5. CASE UNCHANGED allVars
  BY <1>5 DEF allVars
<1>6. QED
  BY <1>1, <1>2, <1>3, <1>4, <1>5 DEF ChannelNext

(* Before any message. *)
LEMMA ChannelInvInit == ChannelInit => ChannelInv
<1> SUFFICES ASSUME ChannelInit PROVE ChannelInv
  OBVIOUS
<1>1. Inv
  BY InvInit DEF ChannelInit
<1>2. ChannelTypeOK
  BY <1>1 DEF Inv, ChannelInit, ChannelTypeOK, Tasks, NoTask
<1>3. Handlers /\ Browsers
  BY ChannelConstants DEF ChannelInit, Init, NoTask, NoReq, Handlers, Browsers
<1>4. Effects
  BY ChannelConstants, AssistantConstants
     DEF ChannelInit, Init, NoTask, NoReq, Effects, Sole, May, Remembers, Chose, Runs
<1>5. Ledger
  BY ChannelConstants DEF ChannelInit, NoTask, Ledger, Accounted, Untouched
<1>6. QED
  BY <1>1, <1>2, <1>3, <1>4, <1>5 DEF ChannelInv

-----------------------------------------------------------------------------
(* Types are preserved. *)
LEMMA ChannelTypeNext ==
    ChannelTypeOK /\ TypeOK' /\ Handlers /\ [ChannelNext]_allVars => ChannelTypeOK'
<1> SUFFICES ASSUME ChannelTypeOK, TypeOK', Handlers, [ChannelNext]_allVars
             PROVE  ChannelTypeOK'
  OBVIOUS
<1> USE DEF ChannelTypeOK, Tasks, NoTask
<1>1. ASSUME NEW p \in Processes, NEW m \in Messages, NEW t \in Texts, Receive(p, m, t)
      PROVE  ChannelTypeOK'
  BY <1>1 DEF Receive
<1>2. ASSUME NEW p \in Processes, Answer(p) \/ ConfirmTaken(p) \/ ConfirmRefused(p)
                                  \/ CancelTaken(p) \/ ConfirmEnds(p)
      PROVE  ChannelTypeOK'
  BY <1>2 DEF Answer, ConfirmTaken, ConfirmRefused, CancelTaken, ConfirmEnds, Proceed
<1>3. ASSUME NEW p \in Processes, NEW a \in Actions, NEW t \in Tools, Ask(p, a, t)
      PROVE  ChannelTypeOK'
  BY <1>3 DEF Ask, Says, Doing, Act, Proceed, Handlers
<1>4. ASSUME NEW p \in Processes, Take(p) PROVE ChannelTypeOK'
  <2>1. handling[p].msg \in Messages /\ pending[p] \in Actions
    BY <1>4 DEF Take, Says, Doing, Handlers
  <2>2. text[handling[p].msg] \in {"confirm", "cancel"}
    BY <1>4 DEF Take, Says
  <2>3. handling' \in [Processes -> Tasks]
    <3>1. handling[p] \in Tasks
      OBVIOUS
    <3>2. [[handling[p] EXCEPT !.at = text[handling[p].msg]] EXCEPT !.action = pending[p]] \in Tasks
      BY <2>1, <2>2, <3>1
    <3>3. handling' = [handling EXCEPT ![p] =
              [[handling[p] EXCEPT !.at = text[handling[p].msg]] EXCEPT !.action = pending[p]]]
      BY <1>4 DEF Take
    <3>4. QED
      BY <3>2, <3>3
  <2>4. QED
    BY <1>4, <2>1, <2>3 DEF Take, Act, Forget
<1>5. ASSUME NEW p \in Processes, Record(p) PROVE ChannelTypeOK'
  BY <1>5 DEF Record, Doing, Handlers
<1>6. ASSUME NEW p \in Processes, Lose(p) PROVE ChannelTypeOK'
  BY <1>6 DEF Lose, Doing, Forget, Handlers
<1>7. ASSUME NEW p \in Processes, ContextLost(p) PROVE ChannelTypeOK'
  BY <1>7 DEF ContextLost, Forget
<1>8. ASSUME NEW r \in Requests, NEW a \in Actions, BrowserConfirm(r, a) PROVE ChannelTypeOK'
  BY <1>8 DEF BrowserConfirm
<1>9. CASE UNCHANGED channel
  BY <1>9 DEF channel
<1>10. QED
  BY <1>1, <1>2, <1>3, <1>4, <1>5, <1>6, <1>7, <1>8, <1>9
     DEF ChannelNext, Handle, ToolStep, BrowserStep, Elsewhere, NextDay, allVars

(* Every action of a message is paid for. *)
LEMMA LedgerNext ==
    ChannelTypeOK /\ Handlers /\ Ledger /\ [ChannelNext]_allVars => Ledger'
<1> SUFFICES ASSUME ChannelTypeOK, Handlers, Ledger, [ChannelNext]_allVars,
                    NEW m \in Messages, m \notin shared'
             PROVE  Accounted(m)'
  BY DEF Ledger
<1>0. m \notin shared /\ Accounted(m)
  BY DEF Ledger, ChannelNext, Handle, Receive, Answer, Take, Ask, ConfirmTaken, ConfirmRefused,
         CancelTaken, ToolStep, ConfirmEnds, Record, Lose, ContextLost, BrowserConfirm,
         BrowserStep, Elsewhere, NextDay, channel, allVars
<1> USE <1>0, ChannelConstants
    DEF ChannelTypeOK, Tasks, NoTask, Handlers, Accounted, Untouched, Doing, Says
<1>1. ASSUME NEW p \in Processes, NEW n \in Messages, NEW t \in Texts, Receive(p, n, t)
      PROVE  Accounted(m)'
  <2>1. n = m => \A q \in Processes : handling[q].msg # m
    BY <1>1 DEF Receive
  <2>2. QED
    BY <1>1, <2>1 DEF Receive
<1>2. ASSUME NEW p \in Processes, Answer(p) \/ ConfirmTaken(p) \/ ConfirmRefused(p)
                                  \/ CancelTaken(p) \/ ConfirmEnds(p)
      PROVE  Accounted(m)'
  <2>1. PICK at \in {"confirming", "answered"} : Proceed(p, at)
    BY <1>2 DEF Answer, ConfirmTaken, ConfirmRefused, CancelTaken, ConfirmEnds
  <2>2. \A q \in Processes :
           /\ handling'[q].msg = handling[q].msg
           /\ IF q = p THEN handling'[q].at = at ELSE handling'[q].at = handling[q].at
    BY <2>1 DEF Proceed
  <2>3. UNCHANGED <<recorded, acted, failed>>
    BY <1>2 DEF Answer, ConfirmTaken, ConfirmRefused, CancelTaken, ConfirmEnds
  <2>4. QED
    BY <2>2, <2>3
<1>3. ASSUME NEW p \in Processes, Says(p, "ask") \/ Says(p, "confirm") \/ Says(p, "cancel"),
             Act(p), handling'[p].msg = handling[p].msg, handling'[p].at # "begun",
             \A q \in Processes \ {p} : handling'[q] = handling[q],
             UNCHANGED <<recorded, failed>>
      PROVE  Accounted(m)'
  <2>1. acted'[m] = IF handling[p].msg = m THEN acted[m] + 1 ELSE acted[m]
    BY <1>3 DEF Act
  <2>2. handling[p].msg = m => acted[m] <= failed[m]
    BY <1>3
  <2>3. QED
    BY <1>3, <2>1, <2>2
<1>4. ASSUME NEW p \in Processes, Record(p) PROVE Accounted(m)'
  BY <1>4 DEF Record
<1>5. ASSUME NEW p \in Processes, Lose(p) PROVE Accounted(m)'
  BY <1>5 DEF Lose
<1>6. CASE UNCHANGED <<handling, recorded, acted, failed>>
  BY <1>6
<1>7. ASSUME NEW p \in Processes, Take(p) PROVE Accounted(m)'
  <2>1. text[handling[p].msg] # "begun"
    BY <1>7 DEF Take
  <2>2. QED
    BY <1>3, <1>7, <2>1 DEF Take
<1>8. ASSUME NEW p \in Processes, NEW a \in Actions, NEW t \in Tools, Ask(p, a, t)
      PROVE  Accounted(m)'
  BY <1>3, <1>8 DEF Ask, Proceed
<1>9. QED
  BY <1>1, <1>2, <1>4, <1>5, <1>6, <1>7, <1>8
     DEF ChannelNext, Handle, ToolStep, ContextLost, BrowserConfirm, BrowserStep, Elsewhere,
         NextDay, channel, allVars

-----------------------------------------------------------------------------
(* A step of a tool moves its own confirmation on, and adds to what is performed *)
(* only as it leaves the phases before the effect.                               *)
LEMMA ToolShape ==
    ASSUME TypeOK, Present, NEW r \in Requests, RunTool(r)
    PROVE  /\ req[r].at # "idle" /\ req'[r].at # "idle"
           /\ req'[r].action = req[r].action /\ req[r].action \in Actions
           /\ \A s \in Requests \ {r} : req'[s] = req[s]
           /\ req'[r].at \in {"locked", "claimed"} =>
                 req[r].at \in {"locked", "claimed"} /\ performed' = performed
           /\ \/ performed' = performed
              \/ /\ req[r].at \in {"locked", "claimed"}
                 /\ performed' = [performed EXCEPT ![req[r].action] = @ + 1]
           /\ status' = status
<1> USE DEF TypeOK, At, GoTo, Perform, Present
<1>1. CASE Create(r)
  BY <1>1 DEF Create
<1>2. CASE SendMail(r)
  BY <1>2 DEF SendMail
<1>3. CASE CommitSent(r)
  BY <1>3 DEF CommitSent
<1>4. CASE Claim(r)
  BY <1>4 DEF Claim
<1>5. CASE Remind(r)
  BY <1>5 DEF Remind
<1>6. CASE Refuse(r)
  BY <1>6 DEF Refuse
<1>7. QED
  BY <1>1, <1>2, <1>3, <1>4, <1>5, <1>6 DEF RunTool

(* The end of a confirmation, whatever it is. *)
LEMMA EndShape ==
    ASSUME TypeOK, NEW r \in Requests, EndConfirm(r) \/ Crash(r)
    PROVE  /\ req[r] # NoReq /\ req' = [req EXCEPT ![r] = NoReq]
           /\ performed' = performed
<1>1. CASE Settle(r) \/ TurnAway(r)
  BY <1>1 DEF Settle, TurnAway, At, NoReq
<1>2. CASE Crash(r)
  BY <1>2 DEF Crash
<1>3. QED
  BY <1>1, <1>2 DEF EndConfirm

(* Idle is one thing only. *)
LEMMA IdleIsNoReq ==
    ChannelTypeOK /\ Handlers =>
        \A p \in Processes : req[p].at # "idle" => handling[p].at = "confirming"
BY DEF Handlers, NoReq

(* Handlers and their confirmations stay in step. *)
LEMMA HandlersNext ==
    Inv /\ ChannelTypeOK /\ Handlers /\ [ChannelNext]_allVars => Handlers'
<1> SUFFICES ASSUME Inv, ChannelTypeOK, Handlers, [ChannelNext]_allVars PROVE Handlers'
  OBVIOUS
<1>0. TypeOK /\ Present
  BY DEF Inv
<1> USE <1>0, ChannelConstants DEF ChannelTypeOK, Tasks, NoTask, Handlers, Doing
<1>1. ASSUME NEW p \in Processes, NEW n \in Messages, NEW t \in Texts, Receive(p, n, t)
      PROVE  Handlers'
  BY <1>1 DEF Receive, vars
<1>2. ASSUME NEW p \in Processes, Answer(p) PROVE Handlers'
  BY <1>2 DEF Answer, Proceed, vars
<1>3. ASSUME NEW p \in Processes, ConfirmRefused(p) \/ CancelTaken(p) PROVE Handlers'
  <2>1. UNCHANGED req
    BY <1>3 DEF ConfirmRefused, CancelTaken, ConfirmLate, Cancel, vars
  <2>2. QED
    BY <1>3, <2>1 DEF ConfirmRefused, CancelTaken, Proceed
<1>4. ASSUME NEW p \in Processes, ConfirmTaken(p) PROVE Handlers'
  <2>1. req' = [req EXCEPT ![p] = [at |-> "locked", action |-> handling[p].action]]
    BY <1>4 DEF ConfirmTaken, Confirm
  <2>2. QED
    BY <1>4, <2>1, <1>0 DEF ConfirmTaken, Proceed, TypeOK
<1>5. ASSUME NEW p \in Processes, ToolStep(p) PROVE Handlers'
  <2>1. handling[p].at = "confirming"
    BY <1>5, ToolShape, IdleIsNoReq DEF ToolStep
  <2>2. QED
    BY <1>5, <2>1, ToolShape DEF ToolStep, channel
<1>6. ASSUME NEW p \in Processes, ConfirmEnds(p) PROVE Handlers'
  <2>1. handling[p].at = "confirming"
    BY <1>6, EndShape DEF ConfirmEnds
  <2>2. QED
    BY <1>6, <2>1, EndShape DEF ConfirmEnds, Proceed, TypeOK
<1>7. ASSUME NEW p \in Processes, Record(p) PROVE Handlers'
  BY <1>7 DEF Record, vars
<1>8. ASSUME NEW p \in Processes, Lose(p) PROVE Handlers'
  <2>1. req' = [req EXCEPT ![p] = NoReq]
    BY <1>8, EndShape DEF Lose, vars, TypeOK
  <2>2. QED
    BY <1>8, <2>1 DEF Lose, TypeOK
<1>9. ASSUME NEW p \in Processes, Take(p) PROVE Handlers'
  <2>1. pending[p] \in Actions /\ text[handling[p].msg] \in {"confirm", "cancel"}
    BY <1>9 DEF Take, Says
  <2>2. handling[p].at = "begun" /\ UNCHANGED req
    BY <1>9 DEF Take, Says, vars
  <2>3. /\ handling'[p].at \in {"confirm", "cancel"} /\ handling'[p].action \in Actions
        /\ handling'[p].msg = handling[p].msg
        /\ \A q \in Processes \ {p} : handling'[q] = handling[q]
    BY <1>9, <2>1 DEF Take
  <2>4. QED
    BY <2>2, <2>3
<1>10. ASSUME NEW p \in Processes, NEW a \in Actions, NEW t \in Tools, Ask(p, a, t)
       PROVE  Handlers'
  BY <1>10 DEF Ask, Says, Proceed, Propose
<1>11. ASSUME NEW r \in Requests \ Processes,
              (\E a \in Actions : BrowserConfirm(r, a)) \/ BrowserStep(r)
       PROVE  Handlers'
  <2>1. \A p \in Processes : req'[p] = req[p]
    BY <1>11, ToolShape, EndShape DEF BrowserConfirm, BrowserStep, Confirm, TypeOK
  <2>2. UNCHANGED handling
    BY <1>11 DEF BrowserConfirm, BrowserStep, channel
  <2>3. QED
    BY <2>1, <2>2
<1>12. CASE UNCHANGED <<handling, req>>
  BY <1>12
<1>13. QED
  BY <1>1, <1>2, <1>3, <1>4, <1>5, <1>6, <1>7, <1>8, <1>9, <1>10, <1>11, <1>12
     DEF ChannelNext, Handle, ContextLost, Elsewhere, NextDay, Propose, Expire, ConfirmLate,
         Cancel, DoneByHand, Midnight, channel, vars, allVars

(* What a browser confirms is known to be browsed. *)
LEMMA BrowsersNext ==
    Inv /\ ChannelTypeOK /\ Handlers /\ Browsers /\ [ChannelNext]_allVars => Browsers'
<1> SUFFICES ASSUME Inv, ChannelTypeOK, Handlers, Browsers, [ChannelNext]_allVars
             PROVE  Browsers'
  OBVIOUS
<1>0. TypeOK /\ Present
  BY DEF Inv
<1> USE <1>0, ChannelConstants DEF Browsers
<1>1. ASSUME NEW p \in Processes, Handle(p) PROVE Browsers'
  <2>1. \A r \in Requests \ Processes : req'[r] = req[r]
    <3>1. CASE ToolStep(p)
      BY <3>1, ToolShape DEF ToolStep
    <3>2. CASE ConfirmEnds(p)
      BY <3>2, EndShape DEF ConfirmEnds, TypeOK
    <3>3. CASE Lose(p)
      BY <3>3, EndShape DEF Lose, vars, TypeOK
    <3>4. CASE ConfirmTaken(p)
      BY <3>4 DEF ConfirmTaken, Confirm, TypeOK
    <3>5. CASE UNCHANGED req
      BY <3>5
    <3>6. QED
      BY <1>1, <3>1, <3>2, <3>3, <3>4, <3>5
         DEF Handle, Receive, Answer, Take, Ask, Propose, ConfirmRefused, ConfirmLate,
             CancelTaken, Cancel, Record, ContextLost, vars
  <2>2. UNCHANGED browsed
    BY <1>1 DEF Handle, Receive, Answer, Take, Ask, ConfirmTaken, ConfirmRefused, CancelTaken,
           ToolStep, ConfirmEnds, Record, Lose, ContextLost, channel
  <2>3. QED
    BY <2>1, <2>2
<1>2. ASSUME NEW r \in Requests \ Processes, NEW a \in Actions, BrowserConfirm(r, a)
      PROVE  Browsers'
  BY <1>2 DEF BrowserConfirm, Confirm, TypeOK
<1>3. ASSUME NEW r \in Requests \ Processes, BrowserStep(r) PROVE Browsers'
  <2>1. CASE RunTool(r)
    BY <1>3, <2>1, ToolShape DEF BrowserStep, channel
  <2>2. CASE EndConfirm(r) \/ Crash(r)
    BY <1>3, <2>2, EndShape DEF BrowserStep, channel, NoReq, TypeOK
  <2>3. QED
    BY <1>3, <2>1, <2>2 DEF BrowserStep
<1>4. CASE UNCHANGED <<browsed, req>>
  BY <1>4
<1>5. QED
  BY <1>1, <1>2, <1>3, <1>4
     DEF ChannelNext, Elsewhere, NextDay, Propose, Expire, ConfirmLate, Cancel, DoneByHand,
         Midnight, channel, vars, allVars

-----------------------------------------------------------------------------
(* No proposal disappears. *)
LEMMA StatusStays ==
    TypeOK /\ Present /\ [Next]_vars =>
        \A a \in Actions : status[a] # "absent" => status'[a] # "absent"
BY DEF TypeOK, Present, Next, Propose, Expire, ConfirmLate, Cancel, DoneByHand, MarkExpired,
       Confirm, Create, SendMail, CommitSent, Claim, Remind, Refuse, TurnAway, Settle, Outcome,
       Crash, Midnight, vars

(* A step that performs nothing and gives nobody a new way to do it. *)
LEMMA Calm ==
    ASSUME Effects, NEW a \in Actions, performed'[a] = performed[a],
           browsed \subseteq browsed', status[a] # "absent" => status'[a] # "absent",
           \A p \in Processes : /\ Remembers(p, a)' => Remembers(p, a)
                                /\ Chose(p, a)' => Chose(p, a)
                                /\ Runs(p, a)' => Runs(p, a)
    PROVE  Sole(a)'
<1>1. \A p \in Processes : May(p, a)' => May(p, a)
  BY DEF May
<1>2. QED
  BY <1>1 DEF Effects, Sole

(* A step that moves process p from one way to the next, and nobody else. *)
LEMMA Passed ==
    ASSUME Effects, NEW a \in Actions, NEW p \in Processes,
           performed'[a] = performed[a], browsed \subseteq browsed',
           status[a] # "absent" => status'[a] # "absent",
           May(p, a)' => May(p, a),
           Remembers(p, a)' => ~Chose(p, a)' /\ ~Runs(p, a)',
           \A q \in Processes \ {p} : /\ Remembers(q, a)' => Remembers(q, a)
                                      /\ Chose(q, a)' => Chose(q, a)
                                      /\ Runs(q, a)' => Runs(q, a)
    PROVE  Sole(a)'
<1>1. \A q \in Processes : May(q, a)' => May(q, a)
  BY DEF May
<1>2. QED
  BY <1>1 DEF Effects, Sole

(* What WhatsApp confirms takes effect once. *)
LEMMA EffectsNext ==
    Inv /\ ChannelTypeOK /\ Handlers /\ Browsers /\ Effects /\ [ChannelNext]_allVars => Effects'
<1> SUFFICES ASSUME Inv, ChannelTypeOK, Handlers, Browsers, Effects, [ChannelNext]_allVars,
                    NEW a \in Actions
             PROVE  Sole(a)'
  BY DEF Effects
<1>0. /\ TypeOK /\ Present
      /\ status[a] # "absent" => status'[a] # "absent"
  BY StepIsAllowed, StatusStays DEF Inv
<1> USE <1>0, ChannelConstants DEF ChannelTypeOK, Tasks, NoTask, Doing, Remembers, Chose, Runs
<1>1. ASSUME NEW p \in Processes, NEW n \in Messages, NEW t \in Texts, Receive(p, n, t)
      PROVE  Sole(a)'
  BY <1>1, Calm DEF Receive, vars
<1>2. ASSUME NEW p \in Processes, Answer(p) \/ Record(p) \/ ContextLost(p) PROVE Sole(a)'
  <2>1. UNCHANGED <<req, performed, browsed>>
    BY <1>2 DEF Answer, Record, ContextLost, vars
  <2>2. \A q \in Processes : /\ pending'[q] = a => pending[q] = a
                             /\ handling'[q].at = "confirm" => handling'[q] = handling[q]
    BY <1>2, AssistantConstants DEF Answer, Record, ContextLost, Proceed, Forget
  <2>3. QED
    BY <2>1, <2>2, Calm
<1>3. ASSUME NEW p \in Processes, ConfirmRefused(p) \/ CancelTaken(p) PROVE Sole(a)'
  <2>1. UNCHANGED <<req, performed, browsed, pending>>
    BY <1>3 DEF ConfirmRefused, CancelTaken, ConfirmLate, Cancel, vars
  <2>2. \A q \in Processes : handling'[q].at = "confirm" => handling'[q] = handling[q]
    BY <1>3 DEF ConfirmRefused, CancelTaken, Proceed
  <2>3. QED
    BY <2>1, <2>2, Calm
<1>4. ASSUME NEW p \in Processes, NEW b \in Actions, NEW t \in Tools, Ask(p, b, t)
      PROVE  Sole(a)'
  <2>1. /\ status[b] = "absent" /\ UNCHANGED <<req, performed, browsed>>
        /\ status' = [status EXCEPT ![b] = "proposed"]
        /\ pending' = [pending EXCEPT ![p] = b]
        /\ \A q \in Processes : handling'[q].at = "confirm" => handling'[q] = handling[q]
    BY <1>4 DEF Ask, Propose, Proceed
  <2>2. CASE a # b
    BY <2>1, <2>2, Calm
  <2>3. CASE a = b
    <3>1. performed[a] = 0 /\ \A q \in Processes : ~May(q, a)
      BY <2>1, <2>3 DEF Effects, Sole, Present
    <3>2. \A q \in Processes : /\ ~Chose(q, a)' /\ ~Runs(q, a)'
                               /\ q # p => ~Remembers(q, a)'
      BY <2>1, <2>3, <3>1 DEF May
    <3>3. status'[a] # "absent"
      BY <2>1, <2>3 DEF TypeOK
    <3>4. QED
      BY <2>1, <3>1, <3>2, <3>3 DEF Sole, May
  <2>4. QED
    BY <2>2, <2>3
<1>5. ASSUME NEW p \in Processes, Take(p) PROVE Sole(a)'
  <2>1. /\ UNCHANGED <<req, performed, browsed>>
        /\ pending' = [pending EXCEPT ![p] = None]
        /\ \A q \in Processes \ {p} : handling'[q] = handling[q]
        /\ handling'[p].action = pending[p] /\ handling[p].at = "begun"
    BY <1>5 DEF Take, Forget, Says, vars
  <2>2. May(p, a)' => May(p, a)
    BY <2>1, AssistantConstants DEF May
  <2>3. ~Remembers(p, a)'
    BY <2>1, AssistantConstants
  <2>4. QED
    BY <2>1, <2>2, <2>3, Passed
<1>6. ASSUME NEW p \in Processes, ConfirmTaken(p) PROVE Sole(a)'
  <2>1. /\ UNCHANGED <<pending, performed, browsed>>
        /\ handling[p].at = "confirm" /\ handling'[p].at = "confirming"
        /\ req'[p].action = handling[p].action
        /\ \A q \in Processes \ {p} : handling'[q] = handling[q] /\ req'[q] = req[q]
    BY <1>6 DEF ConfirmTaken, Confirm, Proceed, TypeOK
  <2>2. May(p, a)' => May(p, a)
    BY <2>1 DEF May
  <2>3. Remembers(p, a)' => ~Chose(p, a)' /\ ~Runs(p, a)'
    BY <2>1 DEF Effects, Sole, May
  <2>4. QED
    BY <2>1, <2>2, <2>3, Passed
<1>7. ASSUME NEW p \in Processes, ToolStep(p) PROVE Sole(a)'
  <2>1. UNCHANGED <<pending, handling, browsed>> /\ RunTool(p) /\ p \in Requests
    BY <1>7 DEF ToolStep, channel
  <2>2. \A q \in Processes : Runs(q, a)' => Runs(q, a)
    BY <2>1, ToolShape
  <2>3. CASE performed'[a] = performed[a]
    BY <2>1, <2>2, <2>3, Calm
  <2>4. CASE performed'[a] # performed[a]
    <3>1. Runs(p, a) /\ performed'[a] = performed[a] + 1
      BY <2>1, <2>4, ToolShape DEF TypeOK
    <3>2. /\ a \notin browsed => performed[a] = 0
          /\ ~Remembers(p, a) /\ \A q \in Processes \ {p} : ~May(q, a)
      BY <3>1 DEF Effects, Sole, May
    <3>3. ~Runs(p, a)'
      BY <2>1, <2>4, ToolShape
    <3>4. ~Chose(p, a)
      BY <2>1, ToolShape, IdleIsNoReq
    <3>5. \A q \in Processes : ~May(q, a)'
      BY <2>1, <2>2, <3>2, <3>3, <3>4 DEF May
    <3>6. QED
      BY <2>1, <3>1, <3>2, <3>5 DEF Sole
  <2>5. QED
    BY <2>3, <2>4
<1>8. ASSUME NEW p \in Processes, ConfirmEnds(p) \/ Lose(p) PROVE Sole(a)'
  <2>1. /\ UNCHANGED <<performed, browsed>>
        /\ req' = [req EXCEPT ![p] = NoReq]
    BY <1>8, EndShape DEF ConfirmEnds, Lose, vars, TypeOK
  <2>2. \A q \in Processes : /\ pending'[q] = a => pending[q] = a
                             /\ handling'[q].at = "confirm" => handling'[q] = handling[q]
    BY <1>8, AssistantConstants DEF ConfirmEnds, Lose, Proceed, Forget
  <2>3. QED
    BY <2>1, <2>2, Calm DEF NoReq, TypeOK
<1>9. ASSUME NEW r \in Requests \ Processes, NEW b \in Actions, BrowserConfirm(r, b)
      PROVE  Sole(a)'
  <2>1. /\ UNCHANGED <<pending, handling, performed>> /\ browsed \subseteq browsed'
        /\ \A q \in Processes : req'[q] = req[q]
    BY <1>9 DEF BrowserConfirm, Confirm, TypeOK
  <2>2. QED
    BY <2>1, Calm
<1>10. ASSUME NEW r \in Requests \ Processes, BrowserStep(r) PROVE Sole(a)'
  <2>1. UNCHANGED <<pending, handling, browsed>>
    BY <1>10 DEF BrowserStep, channel
  <2>2. \A q \in Processes : req'[q] = req[q]
    BY <1>10, ToolShape, EndShape DEF BrowserStep, TypeOK
  <2>3. CASE performed'[a] = performed[a]
    BY <2>1, <2>2, <2>3, Calm
  <2>4. CASE performed'[a] # performed[a]
    <3>1. RunTool(r)
      BY <1>10, <2>4, EndShape DEF BrowserStep
    <3>2. a \in browsed
      BY <2>4, <3>1, ToolShape DEF Browsers, TypeOK
    <3>3. QED
      BY <2>1, <2>2, <3>2 DEF Effects, Sole, May
  <2>5. QED
    BY <2>3, <2>4
<1>11. ASSUME NEW b \in Actions, Elsewhere(b) PROVE Sole(a)'
  <2>1. UNCHANGED <<pending, handling, browsed, req, performed>>
    BY <1>11 DEF Elsewhere, Propose, Expire, ConfirmLate, Cancel, DoneByHand, channel
  <2>2. QED
    BY <2>1, Calm
<1>12. CASE NextDay
  <2>1. UNCHANGED <<pending, handling, browsed, req, performed>>
    BY <1>12 DEF NextDay, Midnight, channel
  <2>2. QED
    BY <2>1, Calm
<1>13. CASE UNCHANGED allVars
  BY <1>13, Calm DEF allVars, vars, channel
<1>14. QED
  BY <1>1, <1>2, <1>3, <1>4, <1>5, <1>6, <1>7, <1>8, <1>9, <1>10, <1>11, <1>12, <1>13
     DEF ChannelNext, Handle

-----------------------------------------------------------------------------
LEMMA ChannelInvNext == ChannelInv /\ [ChannelNext]_allVars => ChannelInv'
<1> SUFFICES ASSUME ChannelInv, [ChannelNext]_allVars PROVE ChannelInv'
  OBVIOUS
<1>1. Inv'
  BY StepIsAllowed, InvNext DEF ChannelInv
<1>2. ChannelTypeOK'
  BY <1>1, ChannelTypeNext DEF ChannelInv, Inv
<1>3. QED
  BY <1>1, <1>2, HandlersNext, BrowsersNext, EffectsNext, LedgerNext DEF ChannelInv

(* The invariant holds throughout. *)
LEMMA ChannelInvAlways == ChannelSpec => []ChannelInv
BY ChannelInvInit, ChannelInvNext, PTL DEF ChannelSpec

(* Every variable keeps its type. *)
THEOREM ChannelTyped == ChannelSpec => []ChannelTypeOK
<1>1. ChannelInv => ChannelTypeOK
  BY DEF ChannelInv
<1>2. QED
  BY <1>1, ChannelInvAlways, PTL

(* What only WhatsApp confirms takes effect once, with any number of processes,  *)
(* redeliveries and failures.                                                    *)
THEOREM OnceOverWhatsApp == ChannelSpec => []OnceByWhatsApp
<1>1. ChannelInv => OnceByWhatsApp
  BY DEF ChannelInv, Effects, Sole, OnceByWhatsApp
<1>2. QED
  BY <1>1, ChannelInvAlways, PTL

(* A message acts once, and once more for each handling of it that failed. *)
THEOREM MessagesActOnce == ChannelSpec => []MessageActsOnce
<1>1. ChannelInv => MessageActsOnce
  BY DEF ChannelInv, Ledger, Accounted, MessageActsOnce
<1>2. QED
  BY <1>1, ChannelInvAlways, PTL

(* The channel is one of the environments AssistantActions allows: what is true  *)
(* of proposals there is true of them here.                                      *)
THEOREM ChannelIsAllowed == ChannelSpec => Spec
<1>1. ChannelInv /\ [ChannelNext]_allVars => [Next]_vars
  BY StepIsAllowed DEF ChannelInv
<1>2. ChannelInit => Init
  BY DEF ChannelInit
<1>3. QED
  BY <1>1, <1>2, ChannelInvAlways, PTL DEF ChannelSpec, Spec
=============================================================================
