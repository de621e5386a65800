--------------------------- MODULE AssistantProofs ---------------------------
(***************************************************************************)
(* What AssistantActions guarantees for any number of proposals,           *)
(* confirmations and crashes.                                              *)
(***************************************************************************)
EXTENDS AssistantActions, FiniteSetTheorems, TLAPS

(* A proposal a confirmation is about exists; one that does not exist has no *)
(* tool and had no effect.                                                   *)
Present ==
    /\ \A r \in Requests : req[r].at # "idle" =>
          /\ req[r].action \in Actions
          /\ status[req[r].action] # "absent"
    /\ \A a \in Actions :
          IF status[a] = "absent" THEN tool[a] = None /\ performed[a] = 0 ELSE tool[a] \in Tools

(* From loading the proposal until the tool does something, a confirmation   *)
(* holds its row, so that the proposal is still open; with a tool that does  *)
(* not commit, it holds the row to the end.                                  *)
Holding ==
    \A r \in Requests :
        /\ req[r].at = "locked" =>
              rowLock[req[r].action] = r /\ status[req[r].action] = "proposed"
        /\ req[r].at = "sent" => tool[req[r].action] = "email"
        /\ req[r].at # "idle" /\ tool[req[r].action] = "resend" =>
              rowLock[req[r].action] = r

(* A confirmation that is past its tool's effect, and a proposal that says so. *)
Effective ==
    /\ \A r \in Requests :
          req[r].at \in {"sent", "performed"} => performed[req[r].action] > 0
    /\ ExecutedWasPerformed

(* A conversion uses its target up.  A reminder is only sent for a claim, and  *)
(* every claim took the slot of a day that is over or of today.                *)
Claimants(a) == {r \in Requests : req[r].at = "claimed" /\ req[r].action = a}
Taken(a) == IF a \in spent THEN 1 ELSE 0
Spending ==
    /\ \A a \in Actions : tool[a] = "convert" =>
          performed[a] <= 1 /\ (a \notin spent => performed[a] = 0)
    /\ \A r \in Requests : req[r].at = "claimed" => tool[req[r].action] = "reminder"
Claims ==
    \A a \in Actions :
        /\ IsFiniteSet(Claimants(a))
        /\ tool[a] = "reminder" =>
              performed[a] + Cardinality(Claimants(a)) <= day + Taken(a)

(* The effects of a tool that keeps the lock: one for each crash, and one    *)
(* once it ran or the proposal is settled.                                   *)
RanOnce(a) ==
    \/ status[a] # "proposed"
    \/ \E r \in Requests : req[r].at = "performed" /\ req[r].action = a
Counting ==
    \A a \in Actions : tool[a] = "resend" =>
        performed[a] <= crashes + 1 /\ (~RanOnce(a) => performed[a] <= crashes)

Inv == TypeOK /\ Present /\ Holding /\ Effective /\ Spending /\ Claims /\ Counting

(* The invariant holds before anything is proposed. *)
LEMMA InvInit == Init => Inv
<1> SUFFICES ASSUME Init PROVE Inv
  OBVIOUS
<1>1. TypeOK /\ Present /\ Holding /\ Effective /\ Spending /\ Counting
  BY AssistantConstants
     DEF Init, TypeOK, Present, Holding, Effective, ExecutedWasPerformed, Spending,
         Counting, RanOnce, NoReq, Phases, Settled, Tools
<1>2. ASSUME NEW a \in Actions
      PROVE  IsFiniteSet(Claimants(a)) /\ Cardinality(Claimants(a)) = 0
  <2>1. Claimants(a) = {}
    BY DEF Init, Claimants, NoReq
  <2>2. QED
    BY <2>1, FS_EmptySet
<1>3. Claims
  BY <1>2 DEF Claims, Init, Taken
<1>4. QED
  BY <1>1, <1>3 DEF Inv

(* Types are preserved. *)
LEMMA TypeNext == TypeOK /\ Present /\ [Next]_vars => TypeOK'
<1> SUFFICES ASSUME TypeOK, Present, [Next]_vars PROVE TypeOK'
  OBVIOUS
<1> USE AssistantConstants DEF TypeOK, Phases, Settled, Tools, NoReq
<1>1. ASSUME NEW a \in Actions, NEW t \in Tools, Propose(a, t) PROVE TypeOK'
  BY <1>1 DEF Propose
<1>2. ASSUME NEW a \in Actions, Expire(a) \/ ConfirmLate(a) \/ Cancel(a) \/ DoneByHand(a)
      PROVE  TypeOK'
  BY <1>2 DEF Expire, ConfirmLate, Cancel, DoneByHand, MarkExpired
<1>3. ASSUME NEW r \in Requests, NEW a \in Actions, Confirm(r, a) PROVE TypeOK'
  BY <1>3 DEF Confirm
<1>4. ASSUME NEW r \in Requests, Create(r) \/ SendMail(r) PROVE TypeOK'
  <2>1. req[r].action \in Actions
    BY <1>4 DEF Create, SendMail, At, Present
  <2>2. performed' \in [Actions -> Nat]
    BY <1>4, <2>1 DEF Create, SendMail, Perform
  <2>3. QED
    BY <1>4, <2>1, <2>2 DEF Create, SendMail, GoTo, Release
<1>5. ASSUME NEW r \in Requests, CommitSent(r) \/ Claim(r) \/ Remind(r) PROVE TypeOK'
  <2>1. req[r].action \in Actions
    BY <1>5 DEF CommitSent, Claim, Remind, At, Present
  <2>2. CASE CommitSent(r)
    BY <2>2 DEF CommitSent, GoTo, Release
  <2>3. CASE Claim(r)
    BY <2>1, <2>3 DEF Claim, GoTo, Release
  <2>4. CASE Remind(r)
    BY <2>1, <2>4 DEF Remind, GoTo, Perform
  <2>5. QED
    BY <1>5, <2>2, <2>3, <2>4
<1>6. ASSUME NEW r \in Requests, Refuse(r) \/ TurnAway(r) \/ Settle(r) \/ Crash(r) PROVE TypeOK'
  BY <1>6 DEF Refuse, TurnAway, Settle, Crash, Outcome, At, GoTo, Release
<1>7. CASE Midnight
  BY <1>7 DEF Midnight
<1>8. CASE UNCHANGED vars
  BY <1>8 DEF vars
<1>9. QED
  BY <1>1, <1>2, <1>3, <1>4, <1>5, <1>6, <1>7, <1>8 DEF Next

(* A request that commits or rolls back lets go of its own locks only. *)
LEMMA ReleaseKeeps ==
    ASSUME TypeOK, NEW r \in Requests, Release(r), NEW a \in Actions
    PROVE  /\ rowLock[a] # r => rowLock'[a] = rowLock[a]
           /\ rowLock[a] = r => rowLock'[a] = None
BY DEF Release, TypeOK

(* Where a reminder's count stays, the claims on it may only become fewer ... *)
LEMMA ClaimsStay ==
    ASSUME TypeOK, Claims, NEW a \in Actions, tool'[a] = tool[a],
           performed'[a] = performed[a], day' + Taken(a)' >= day + Taken(a), day' \in Nat,
           \/ Claimants(a)' = Claimants(a)
           \/ \E r \in Requests : Claimants(a)' = Claimants(a) \ {r}
    PROVE  /\ IsFiniteSet(Claimants(a)')
           /\ tool'[a] = "reminder" =>
                 performed'[a] + Cardinality(Claimants(a)') <= day' + Taken(a)'
<1>1. /\ IsFiniteSet(Claimants(a)) /\ Cardinality(Claimants(a)) \in Nat
      /\ performed[a] \in Nat /\ day \in Nat /\ Taken(a) \in Nat /\ Taken(a)' \in Nat
  BY FS_CardinalityType DEF Claims, TypeOK, Taken
<1>2. IsFiniteSet(Claimants(a)') /\ Cardinality(Claimants(a)') \in Nat
      /\ Cardinality(Claimants(a)') <= Cardinality(Claimants(a))
  <2>1. CASE Claimants(a)' = Claimants(a)
    BY <1>1, <2>1
  <2>2. CASE \E r \in Requests : Claimants(a)' = Claimants(a) \ {r}
    <3>1. PICK r \in Requests : Claimants(a)' = Claimants(a) \ {r}
      BY <2>2
    <3>2. IsFiniteSet(Claimants(a) \ {r})
      BY <1>1, FS_RemoveElement
    <3>3. Cardinality(Claimants(a) \ {r}) = IF r \in Claimants(a)
              THEN Cardinality(Claimants(a)) - 1 ELSE Cardinality(Claimants(a))
      BY <1>1, FS_RemoveElement
    <3>4. Cardinality(Claimants(a) \ {r}) \in Nat
      BY <3>2, FS_CardinalityType
    <3>5. QED
      BY <1>1, <3>1, <3>2, <3>3, <3>4
  <2>3. QED
    BY <2>1, <2>2
<1>3. QED
  BY <1>1, <1>2 DEF Claims

(* ... and it grows by the claims it is sent for.                              *)
LEMMA ClaimsNext == TypeOK /\ Present /\ Spending /\ Claims /\ [Next]_vars => Claims'
<1> SUFFICES ASSUME TypeOK, Present, Spending, Claims, [Next]_vars, NEW a \in Actions
             PROVE  /\ IsFiniteSet(Claimants(a)')
                    /\ tool'[a] = "reminder" =>
                          performed'[a] + Cardinality(Claimants(a)') <= day' + Taken(a)'
  BY DEF Claims
<1>0. /\ IsFiniteSet(Claimants(a)) /\ Cardinality(Claimants(a)) \in Nat
      /\ performed[a] \in Nat /\ day \in Nat /\ Taken(a) \in Nat
  BY FS_CardinalityType DEF Claims, TypeOK, Taken
<1>1. ASSUME NEW b \in Actions, NEW t \in Tools, Propose(b, t)
      PROVE  /\ IsFiniteSet(Claimants(a)')
             /\ tool'[a] = "reminder" =>
                   performed'[a] + Cardinality(Claimants(a)') <= day' + Taken(a)'
  <2>1. /\ Claimants(a)' = Claimants(a) /\ UNCHANGED <<performed, day>>
        /\ Taken(a)' = Taken(a) /\ (b # a => tool'[a] = tool[a])
    BY <1>1 DEF Propose, Claimants, Taken, TypeOK
  <2>2. CASE b # a
    <3>1. day' + Taken(a)' >= day + Taken(a)
      BY <1>0, <2>1
    <3>2. QED
      BY <1>0, <2>1, <2>2, <3>1, ClaimsStay
  <2>3. CASE b = a
    <3>1. performed[a] = 0 /\ Claimants(a) = {}
      BY <1>1, <2>3 DEF Propose, Present, Claimants
    <3>2. Cardinality(Claimants(a)') = 0 /\ IsFiniteSet(Claimants(a)')
      BY <1>0, <2>1, <3>1, FS_EmptySet
    <3>3. performed'[a] = 0 /\ day' \in Nat /\ Taken(a)' \in Nat
      BY <1>0, <2>1, <3>1
    <3>4. QED
      BY <3>2, <3>3
  <2>4. QED
    BY <2>2, <2>3
<1>2. ASSUME NEW b \in Actions, Expire(b) \/ ConfirmLate(b) \/ Cancel(b) \/ DoneByHand(b)
      PROVE  /\ IsFiniteSet(Claimants(a)')
             /\ tool'[a] = "reminder" =>
                   performed'[a] + Cardinality(Claimants(a)') <= day' + Taken(a)'
  <2>1. /\ Claimants(a)' = Claimants(a) /\ UNCHANGED <<performed, day, tool>>
        /\ a \in spent => a \in spent'
    BY <1>2 DEF Expire, ConfirmLate, Cancel, DoneByHand, Claimants
  <2>2. day' + Taken(a)' >= day + Taken(a)
    BY <1>0, <2>1 DEF Taken
  <2>3. QED
    BY <1>0, <2>1, <2>2, ClaimsStay
<1>3. CASE Midnight
  <2>1. /\ Claimants(a)' = Claimants(a) /\ UNCHANGED <<performed, tool>> /\ day' = day + 1
    BY <1>3 DEF Midnight, Claimants
  <2>2. day' + Taken(a)' >= day + Taken(a)
    BY <1>0, <2>1 DEF Taken
  <2>3. QED
    BY <1>0, <2>1, <2>2, ClaimsStay
<1>4. ASSUME NEW r \in Requests, NEW b \in Actions, Confirm(r, b)
      PROVE  /\ IsFiniteSet(Claimants(a)')
             /\ tool'[a] = "reminder" =>
                   performed'[a] + Cardinality(Claimants(a)') <= day' + Taken(a)'
  <2>1. /\ Claimants(a)' = Claimants(a) /\ UNCHANGED <<performed, tool, day, spent>>
    BY <1>4 DEF Confirm, Claimants, NoReq, TypeOK
  <2>2. QED
    BY <1>0, <2>1, ClaimsStay DEF Taken
<1>5. ASSUME NEW r \in Requests,
             Create(r) \/ SendMail(r) \/ CommitSent(r) \/ Refuse(r) \/ TurnAway(r)
                \/ Settle(r) \/ Crash(r)
      PROVE  /\ IsFiniteSet(Claimants(a)')
             /\ tool'[a] = "reminder" =>
                   performed'[a] + Cardinality(Claimants(a)') <= day' + Taken(a)'
  <2>1. /\ \A s \in Requests \ {r} : req'[s] = req[s]
        /\ req'[r].at # "claimed" /\ UNCHANGED <<tool, day>>
        /\ tool[a] = "reminder" => performed'[a] = performed[a]
        /\ a \in spent => a \in spent'
    BY <1>5 DEF Create, SendMail, CommitSent, Refuse, TurnAway, Settle, Crash, GoTo, At, Perform,
                NoReq, TypeOK
  <2>2. Claimants(a)' = Claimants(a) \ {r}
    BY <2>1 DEF Claimants
  <2>3. day' + Taken(a)' >= day + Taken(a)
    BY <1>0, <2>1 DEF Taken
  <2>4. CASE tool[a] = "reminder"
    BY <1>0, <2>1, <2>2, <2>3, <2>4, ClaimsStay
  <2>5. CASE tool[a] # "reminder"
    BY <1>0, <2>1, <2>2, <2>5, FS_RemoveElement
  <2>6. QED
    BY <2>4, <2>5
<1>6. ASSUME NEW r \in Requests, Claim(r)
      PROVE  /\ IsFiniteSet(Claimants(a)')
             /\ tool'[a] = "reminder" =>
                   performed'[a] + Cardinality(Claimants(a)') <= day' + Taken(a)'
  <2>1. /\ \A s \in Requests \ {r} : req'[s] = req[s]
        /\ req[r].at = "locked" /\ req'[r].action = req[r].action
        /\ req'[r].at = IF req[r].action \in spent THEN "refused" ELSE "claimed"
        /\ spent' = spent \cup {req[r].action} /\ UNCHANGED <<tool, day, performed>>
    BY <1>6 DEF Claim, GoTo, At, Spent, TypeOK
  <2>2. CASE req[r].action = a /\ a \notin spent
    <3>1. Claimants(a)' = Claimants(a) \cup {r} /\ r \notin Claimants(a)
      BY <2>1, <2>2 DEF Claimants
    <3>2. /\ IsFiniteSet(Claimants(a) \cup {r})
          /\ Cardinality(Claimants(a) \cup {r}) = Cardinality(Claimants(a)) + 1
      BY <1>0, <3>1, FS_AddElement
    <3>3. Taken(a)' = 1 /\ Taken(a) = 0
      BY <2>1, <2>2 DEF Taken
    <3>4. tool[a] = "reminder" => performed[a] + Cardinality(Claimants(a)) <= day + Taken(a)
      BY DEF Claims
    <3>5. QED
      BY <1>0, <2>1, <3>1, <3>2, <3>3, <3>4
  <2>3. CASE ~(req[r].action = a /\ a \notin spent)
    <3>1. Claimants(a)' = Claimants(a)
      BY <2>1, <2>3 DEF Claimants
    <3>2. day' + Taken(a)' >= day + Taken(a)
      BY <1>0, <2>1 DEF Taken
    <3>3. QED
      BY <1>0, <2>1, <3>1, <3>2, ClaimsStay
  <2>4. QED
    BY <2>2, <2>3
<1>7. ASSUME NEW r \in Requests, Remind(r)
      PROVE  /\ IsFiniteSet(Claimants(a)')
             /\ tool'[a] = "reminder" =>
                   performed'[a] + Cardinality(Claimants(a)') <= day' + Taken(a)'
  <2>1. /\ \A s \in Requests \ {r} : req'[s] = req[s]
        /\ req[r].at = "claimed" /\ req'[r].at # "claimed"
        /\ UNCHANGED <<tool, day, spent>>
        /\ \/ performed'[a] = performed[a]
           \/ req[r].action = a /\ performed'[a] = performed[a] + 1
    BY <1>7 DEF Remind, GoTo, At, Perform, TypeOK
  <2>2. Claimants(a)' = Claimants(a) \ {r}
    BY <2>1 DEF Claimants
  <2>3. CASE performed'[a] = performed[a]
    <3>1. day' + Taken(a)' >= day + Taken(a)
      BY <1>0, <2>1 DEF Taken
    <3>2. QED
      BY <1>0, <2>1, <2>2, <2>3, <3>1, ClaimsStay
  <2>4. CASE req[r].action = a /\ performed'[a] = performed[a] + 1
    <3>1. r \in Claimants(a)
      BY <2>1, <2>4 DEF Claimants
    <3>2. /\ IsFiniteSet(Claimants(a) \ {r})
          /\ Cardinality(Claimants(a) \ {r}) = Cardinality(Claimants(a)) - 1
      BY <1>0, <3>1, FS_RemoveElement
    <3>3. tool[a] = "reminder" => performed[a] + Cardinality(Claimants(a)) <= day + Taken(a)
      BY DEF Claims
    <3>4. Taken(a)' = Taken(a)
      BY <2>1 DEF Taken
    <3>5. QED
      BY <1>0, <2>1, <2>2, <2>4, <3>2, <3>3, <3>4
  <2>5. QED
    BY <2>1, <2>3, <2>4
<1>8. CASE UNCHANGED vars
  <2>1. Claimants(a)' = Claimants(a) /\ Taken(a)' = Taken(a) /\ UNCHANGED <<performed, tool, day>>
    BY <1>8 DEF vars, Claimants, Taken
  <2>2. QED
    BY <1>0, <2>1, ClaimsStay
<1>9. QED
  BY <1>1, <1>2, <1>3, <1>4, <1>5, <1>6, <1>7, <1>8 DEF Next

(* Every step keeps the invariant. *)
LEMMA InvNext == Inv /\ [Next]_vars => Inv'
<1> SUFFICES ASSUME Inv, [Next]_vars PROVE Inv'
  OBVIOUS
<1>t. TypeOK /\ TypeOK'
  BY TypeNext DEF Inv
<1>c. Claims'
  BY ClaimsNext DEF Inv
<1>q. ASSUME Present', Holding', Effective', Spending', Counting' PROVE Inv'
  BY <1>t, <1>c, <1>q DEF Inv
<1> USE AssistantConstants DEF Inv, Present, Holding, Effective, ExecutedWasPerformed, Spending,
        Counting, RanOnce
<1>1. ASSUME NEW a \in Actions, NEW t \in Tools, Propose(a, t) PROVE Inv'
  BY <1>1, <1>t, <1>q DEF Propose, TypeOK
<1>2. ASSUME NEW a \in Actions, Expire(a) \/ DoneByHand(a) PROVE Inv'
  BY <1>2, <1>t, <1>q DEF Expire, DoneByHand, TypeOK
<1>3. ASSUME NEW a \in Actions, ConfirmLate(a) \/ Cancel(a) PROVE Inv'
  BY <1>3, <1>t, <1>q DEF ConfirmLate, Cancel, MarkExpired, CanLock, Open, TypeOK
<1>4. ASSUME NEW r \in Requests, NEW a \in Actions, Confirm(r, a) PROVE Inv'
  BY <1>4, <1>t, <1>q DEF Confirm, CanLock, Open, NoReq, TypeOK
<1>5. ASSUME NEW r \in Requests, Create(r) PROVE Inv'
  BY <1>5, <1>t, <1>q, ReleaseKeeps DEF Create, At, GoTo, Perform, Spent, TypeOK
<1>6. ASSUME NEW r \in Requests, SendMail(r) PROVE Inv'
  BY <1>6, <1>t, <1>q DEF SendMail, At, GoTo, Perform, TypeOK
<1>7. ASSUME NEW r \in Requests, CommitSent(r) PROVE Inv'
  BY <1>7, <1>t, <1>q, ReleaseKeeps DEF CommitSent, At, GoTo, TypeOK
<1>8. ASSUME NEW r \in Requests, Claim(r) PROVE Inv'
  BY <1>8, <1>t, <1>q, ReleaseKeeps DEF Claim, At, GoTo, Spent, TypeOK
<1>9. ASSUME NEW r \in Requests, Remind(r) PROVE Inv'
  <2>1. CASE UNCHANGED performed /\ GoTo(r, "refused")
    BY <1>9, <2>1, <1>t, <1>q DEF Remind, At, GoTo, TypeOK
  <2>2. CASE Perform(req[r].action) /\ GoTo(r, "performed")
    BY <1>9, <2>2, <1>t, <1>q DEF Remind, At, GoTo, Perform, TypeOK
  <2>3. QED
    BY <1>9, <2>1, <2>2 DEF Remind
<1>10. ASSUME NEW r \in Requests, Refuse(r) PROVE Inv'
  BY <1>10, <1>t, <1>q DEF Refuse, At, GoTo, TypeOK
<1>11. ASSUME NEW r \in Requests, TurnAway(r) PROVE Inv'
  BY <1>11, <1>t, <1>q, ReleaseKeeps DEF TurnAway, At, NoReq, TypeOK
<1>12. ASSUME NEW r \in Requests, Settle(r) PROVE Inv'
  BY <1>12, <1>t, <1>q, ReleaseKeeps DEF Settle, Outcome, CanWrite, NoReq, TypeOK
<1>13. ASSUME NEW r \in Requests, Crash(r) PROVE Inv'
  BY <1>13, <1>t, <1>q, ReleaseKeeps DEF Crash, NoReq, TypeOK
<1>14. CASE Midnight
  BY <1>14, <1>t, <1>q DEF Midnight, TypeOK
<1>15. CASE UNCHANGED vars
  BY <1>15, <1>t, <1>q DEF vars
<1>16. QED
  BY <1>1, <1>2, <1>3, <1>4, <1>5, <1>6, <1>7, <1>8, <1>9, <1>10, <1>11, <1>12, <1>13,
     <1>14, <1>15 DEF Next
-----------------------------------------------------------------------------
(* The invariant holds throughout. *)
LEMMA InvAlways == Spec => []Inv
BY InvInit, InvNext, PTL DEF Spec

(* Every variable keeps its type. *)
THEOREM TypeCorrect == Spec => []TypeOK
<1>1. Inv => TypeOK
  BY DEF Inv
<1>2. QED
  BY <1>1, InvAlways, PTL

(* A proposal that says executed had its effect. *)
THEOREM ExecutedPerformed == Spec => []ExecutedWasPerformed
<1>1. Inv => ExecutedWasPerformed
  BY DEF Inv, Effective
<1>2. QED
  BY <1>1, InvAlways, PTL

(* A quote is converted once, and a reminder goes out once, and once more for  *)
(* each midnight: no slot of claim_and_send_reminder is used twice, however    *)
(* many confirmations overlap, fail or die, on either side of a midnight.      *)
THEOREM SpentAtMostOnce == Spec => []SpentOnce
<1>1. Inv => SpentOnce
  <2> SUFFICES ASSUME Inv, NEW a \in Actions
               PROVE  /\ tool[a] = "convert" => performed[a] <= 1
                      /\ tool[a] = "reminder" => performed[a] <= 1 + day
    BY DEF SpentOnce
  <2>1. /\ IsFiniteSet(Claimants(a)) /\ performed[a] \in Nat /\ day \in Nat
        /\ Taken(a) \in 0..1
        /\ tool[a] = "reminder" =>
              performed[a] + Cardinality(Claimants(a)) <= day + Taken(a)
    BY DEF Inv, TypeOK, Claims, Taken
  <2>2. Cardinality(Claimants(a)) \in Nat
    BY <2>1, FS_CardinalityType
  <2>3. QED
    BY <2>1, <2>2 DEF Inv, Spending
<1>2. QED
  BY <1>1, InvAlways, PTL

(* A tool that keeps the lock runs once, and once more for each crash. *)
THEOREM LockedAtMostOnce == Spec => []LockedOnce
<1>1. Inv => LockedOnce
  BY AssistantConstants DEF Inv, TypeOK, Counting, LockedOnce
<1>2. QED
  BY <1>1, InvAlways, PTL

(* Once settled, a proposal starts nothing. *)
THEOREM SettledStarts == Spec => SettledStartsNothing
<1> DEFINE Quiet == \A a \in Actions :
        status[a] \in Settled /\ performed'[a] # performed[a] => tool[a] = "reminder"
<1>1. Inv /\ [Next]_vars => Quiet
  <2> SUFFICES ASSUME Inv, [Next]_vars, NEW a \in Actions, performed'[a] # performed[a],
                      tool[a] # "reminder"
               PROVE  status[a] \notin Settled
    OBVIOUS
  <2>1. PICK r \in Requests : Create(r) \/ SendMail(r) \/ Remind(r)
    BY DEF Next, vars, Propose, Expire, ConfirmLate, Cancel, DoneByHand, Confirm, CommitSent,
           Claim, Refuse, TurnAway, Settle, Crash, Midnight
  <2>2. req[r].action = a
    BY <2>1 DEF Create, SendMail, Remind, Perform, Inv, TypeOK
  <2>3. req[r].at = "locked"
    BY <2>1, <2>2 DEF Create, SendMail, Remind, At, Inv, Spending
  <2>4. QED
    BY <2>2, <2>3 DEF Inv, Holding, Settled
<1>2. Spec => [][Quiet]_vars
  <2>1. Inv /\ [Next]_vars => [Quiet]_vars
    BY <1>1
  <2>2. QED
    BY <2>1, InvAlways, PTL DEF Spec
<1>3. QED
  BY <1>2 DEF SettledStartsNothing
=============================================================================
