----------------------------- MODULE TeamProofs -----------------------------
(***************************************************************************)
(* What Team.tla promises, for any number of users, requests, seats and    *)
(* invitations.  The inductive invariant says what a request knows at each *)
(* point: the lock it took makes the seat it counted, the address it found *)
(* free and the other owner it found last until its commit.                *)
(***************************************************************************)
EXTENDS Team, FiniteSetTheorems, SequenceTheorems, TLAPS

(* What the rows read and the checks made so far still mean. *)
Knows(q) ==
    LET r == request[q]
    IN  /\ r.at \in {"loaded", "cleared"} =>
              /\ r.op \in MemberOps
              /\ r.row.status = "active"
              /\ r.op = "grant_ownership" => r.role = "owner"
        /\ r.at = "cleared" => overwritten \/ OtherOwners(r.target) # {}
        /\ r.at = "seated" => r.row.status # "active" /\ Seated
        /\ r.at = "checked" =>
              /\ r.role \in InvitationRoles
              /\ \A i \in DOMAIN invitations :
                    invitations[i].user = r.target => ~IsPending(i)

IInv ==
    /\ TypeOK
    /\ Len(invitations) <= MaxInvitations
    /\ \A q \in Requests : Knows(q)
    /\ OwnerRemains /\ WithinSeats /\ OnePending

-----------------------------------------------------------------------------
(* Writing to a member's row: what it may do to who is active and who owns.  *)

LEMMA CountsAreNumbers ==
    TypeOK => IsFiniteSet(ActiveMembers) /\ Cardinality(ActiveMembers) \in Nat
<1>1. ActiveMembers \subseteq Users BY DEF ActiveMembers
<1> QED BY <1>1, TeamConstants, FS_Subset, FS_CardinalityType

(* Fewer active members take fewer seats. *)
LEMMA FewerActive ==
    ASSUME TypeOK, ActiveMembers' \subseteq ActiveMembers
    PROVE  /\ Cardinality(ActiveMembers') <= Cardinality(ActiveMembers)
           /\ Cardinality(ActiveMembers') \in Nat
<1>1. IsFiniteSet(ActiveMembers) BY CountsAreNumbers
<1>2. IsFiniteSet(ActiveMembers') BY <1>1, FS_Subset
<1> QED BY <1>1, <1>2, FS_Subset, FS_CardinalityType

(* One member more takes one seat more. *)
LEMMA OneMoreActive ==
    ASSUME TypeOK, NEW u, ActiveMembers' \subseteq ActiveMembers \cup {u}
    PROVE  /\ Cardinality(ActiveMembers') <= Cardinality(ActiveMembers) + 1
           /\ Cardinality(ActiveMembers') \in Nat
<1> DEFINE A == ActiveMembers \cup {u}
<1>1. IsFiniteSet(ActiveMembers) /\ Cardinality(ActiveMembers) \in Nat
    BY CountsAreNumbers
<1>2. IsFiniteSet(A) /\ Cardinality(A) <= Cardinality(ActiveMembers) + 1
    BY <1>1, FS_AddElement
<1>3. IsFiniteSet(ActiveMembers') /\ Cardinality(ActiveMembers') <= Cardinality(A)
    BY <1>2, FS_Subset
<1>4. Cardinality(A) \in Nat /\ Cardinality(ActiveMembers') \in Nat
    BY <1>2, <1>3, FS_CardinalityType
<1> QED BY <1>1, <1>2, <1>3, <1>4

-----------------------------------------------------------------------------
(* Each step keeps the types, and the lock with whoever took it. *)

LEMMA Literals ==
    /\ Idle \in Doings /\ Idle.at = "idle"
    /\ InvitationRoles \subseteq Roles
    /\ None \notin Requests
BY TeamConstants DEF Idle, Doings, Rows, NoRow, Roles, InvitationRoles, Statuses, MemberOps

LEMMA IdleKept ==
    ASSUME IInv, NEW q \in Requests, Answer(q)
    PROVE  /\ request' = [request EXCEPT ![q] = Idle]
           /\ request' \in [Requests -> Doings]
           /\ lock' \in {None} \cup Requests
           /\ \A p \in Requests : lock' = p <=> request'[p].at \in Locked
BY Literals DEF IInv, TypeOK, Answer, Release, Locked

LEMMA WriteKept ==
    ASSUME TypeOK, NEW u \in Users, NEW read, NEW new \in Rows, Write(u, read, new)
    PROVE  members' \in [Users -> Rows] /\ overwritten' \in BOOLEAN
<1>1. Update(members[u], read, new) \in Rows BY DEF TypeOK, Update, Rows
<1> QED BY <1>1 DEF TypeOK, Write

(* Accepting or cancelling an invitation touches nothing but its state.      *)
LEMMA StateChanged ==
    ASSUME TypeOK, NEW i, NEW state \in {"pending", "accepted", "deleted"},
           invitations' = [invitations EXCEPT ![i].state = state]
    PROVE  /\ invitations' \in Seq(Invitations) /\ Len(invitations') = Len(invitations)
           /\ DOMAIN invitations' = DOMAIN invitations
           /\ \A j \in DOMAIN invitations :
                /\ invitations'[j].user = invitations[j].user
                /\ invitations'[j].state \in {invitations[j].state, state}
<1>1. invitations \in Seq(Invitations) BY DEF TypeOK
<1>2. CASE i \notin DOMAIN invitations
  <2>1. invitations' = invitations BY <1>1, <1>2
  <2> QED BY <1>1, <2>1
<1>3. CASE i \in DOMAIN invitations
  <2> DEFINE new == [invitations[i] EXCEPT !.state = state]
  <2>1. i \in 1..Len(invitations) /\ invitations[i] \in Invitations BY <1>1, <1>3, ElementOfSeq
  <2>2. new \in Invitations /\ new.user = invitations[i].user /\ new.state = state
      BY <2>1 DEF Invitations
  <2>3. invitations' = [invitations EXCEPT ![i] = new] OBVIOUS
  <2> HIDE DEF new
  <2>4. /\ invitations' \in Seq(Invitations) /\ Len(invitations') = Len(invitations)
        /\ \A j \in 1..Len(invitations) :
              invitations'[j] = IF j = i THEN new ELSE invitations[j]
      BY <1>1, <2>1, <2>2, <2>3, ExceptSeq
  <2>5. DOMAIN invitations = 1..Len(invitations) /\ DOMAIN invitations' = 1..Len(invitations)
      BY <1>1, <2>4
  <2> QED BY <2>2, <2>4, <2>5
<1> QED BY <1>2, <1>3

LEMMA TypesKept ==
    ASSUME IInv, [Next]_vars
    PROVE  TypeOK' /\ (Len(invitations) <= MaxInvitations)'
<1> USE DEF IInv
<1> DEFINE Types == TypeOK /\ Len(invitations) <= MaxInvitations
<1> SUFFICES Types' OBVIOUS
<1>1. ASSUME NEW q \in Requests, NEW u \in Users, Authorize(q, u) PROVE Types'
    BY <1>1, Literals DEF Authorize, Goto, TypeOK, Doings, Locked, Active, Rows
<1>2. ASSUME NEW q \in Requests, NEW op \in MemberOps, NEW t \in Users, NEW role \in Roles,
             LoadTarget(q, op, t, role)
      PROVE  Types'
    BY <1>2, Literals DEF LoadTarget, Goto, TypeOK, Doings, Locked, Rows, Statuses
<1>3. ASSUME NEW q \in Requests, LockAndCountOwners(q) PROVE Types'
    BY <1>3, Literals DEF LockAndCountOwners, LockIsFree, Goto, TypeOK, Doings, Locked
<1>4. ASSUME NEW q \in Requests, CommitTarget(q) PROVE Types'
  <2> DEFINE r == request[q]
             new == [role |-> r.role, status |-> IF r.op = "remove" THEN "removed" ELSE "active"]
  <2>1. r.target \in Users /\ new \in Rows BY DEF TypeOK, Doings, Rows, Statuses
  <2>2. Write(r.target, r.row, new) /\ Answer(q) /\ UNCHANGED invitations
      BY <1>4 DEF CommitTarget
  <2>3. members' \in [Users -> Rows] /\ overwritten' \in BOOLEAN BY <2>1, <2>2, WriteKept
  <2> QED BY <2>2, <2>3, IdleKept DEF TypeOK
<1>5. ASSUME NEW q \in Requests, NEW u \in Users, NEW role \in InvitationRoles,
             CheckInvitation(q, u, role)
      PROVE  Types'
    BY <1>5, Literals DEF CheckInvitation, LockIsFree, Goto, TypeOK, Doings, Locked
<1>6. ASSUME NEW q \in Requests, SendInvitation(q) PROVE Types'
  <2> DEFINE new == [user |-> request[q].target, role |-> request[q].role, state |-> "pending"]
  <2>1. new \in Invitations
      BY <1>6 DEF SendInvitation, Knows, TypeOK, Doings, Invitations
  <2>2. /\ invitations' = Append(invitations, new)
        /\ Len(invitations) < MaxInvitations
        /\ Answer(q) /\ UNCHANGED <<members, overwritten>>
      BY <1>6 DEF SendInvitation
  <2>3. invitations' \in Seq(Invitations) /\ Len(invitations') <= MaxInvitations
      BY <2>1, <2>2, TeamConstants DEF TypeOK
  <2> QED BY <2>2, <2>3, IdleKept DEF TypeOK
<1>7. ASSUME NEW q \in Requests, NEW i \in DOMAIN invitations, OpenInvitation(q, i) PROVE Types'
  <2>1. invitations[i] \in Invitations /\ i \in 0..MaxInvitations
      BY TeamConstants DEF TypeOK
  <2> QED BY <1>7, <2>1, Literals
          DEF OpenInvitation, Goto, TypeOK, Doings, Locked, Invitations, MemberOps
<1>8. ASSUME NEW q \in Requests, TakeSeat(q) PROVE Types'
    BY <1>8, Literals DEF TakeSeat, LockIsFree, Goto, TypeOK, Doings, Locked
<1>9. ASSUME NEW q \in Requests, CommitAccept(q) PROVE Types'
  <2> DEFINE r == request[q]
             new == IF r.row.status = "active" THEN r.row
                    ELSE [role |-> r.role, status |-> "active"]
  <2>1. r.target \in Users /\ new \in Rows BY DEF TypeOK, Doings, Rows, Statuses
  <2>2. /\ Answer(q)
        /\ invitations' = [invitations EXCEPT ![r.invitation].state = "accepted"]
      BY <1>9 DEF CommitAccept
  <2>3. members' \in [Users -> Rows] /\ overwritten' \in BOOLEAN
    <3>1. CASE r.row.status = "none"
        BY <1>9, <2>1, <3>1 DEF CommitAccept, TypeOK
    <3>2. CASE r.row.status # "none"
        BY <1>9, <2>1, <3>2, WriteKept DEF CommitAccept
    <3> QED BY <3>1, <3>2
  <2>4. invitations' \in Seq(Invitations) /\ Len(invitations') = Len(invitations)
      BY <2>2, StateChanged
  <2> QED BY <2>2, <2>3, <2>4, IdleKept DEF TypeOK
<1>10. ASSUME NEW q \in Requests, GiveUp(q) PROVE Types'
    BY <1>10, IdleKept DEF GiveUp, TypeOK
<1>11. ASSUME NEW i \in DOMAIN invitations, Cancel(i) PROVE Types'
    BY <1>11, StateChanged DEF Cancel, TypeOK
<1>12. CASE UNCHANGED vars
    BY <1>12 DEF vars, TypeOK
<1> QED BY <1>1, <1>2, <1>3, <1>4, <1>5, <1>6, <1>7, <1>8, <1>9, <1>10, <1>11, <1>12
        DEF Next, Manage, Invite, Accept

-----------------------------------------------------------------------------
(* What the two commits that write to members do. *)

Keeps(u) == IsOwner(members[u]) => IsOwner(members'[u])

(* The row commit: owners stay owners, but for a target the lock covers and    *)
(* for ownership the request had not seen; nobody becomes active.              *)
LEMMA TargetCommitted ==
    ASSUME IInv, NEW q \in Requests, CommitTarget(q)
    PROVE  /\ ActiveMembers' \subseteq ActiveMembers
           /\ overwritten => overwritten'
           /\ \A u \in Users : \/ overwritten' \/ Keeps(u)
                               \/ request[q].at = "cleared" /\ u = request[q].target
<1> DEFINE r == request[q]
           new == [role |-> r.role, status |-> IF r.op = "remove" THEN "removed" ELSE "active"]
           t == r.target
<1>1. /\ t \in Users /\ members \in [Users -> Rows] /\ r \in Doings /\ Knows(q)
      BY DEF IInv, TypeOK, Doings
<1>2. /\ r.at = "cleared" \/ (r.at = "loaded" /\ ~UnseatsOwner(r))
      /\ members' = [members EXCEPT ![t] = Update(members[t], r.row, new)]
      /\ overwritten' = (overwritten \/ /\ IsOwner(members[t]) /\ ~IsOwner(r.row)
                                        /\ ~IsOwner(members'[t]))
      BY <1>1 DEF CommitTarget, Write
<1>3. members'[t] = Update(members[t], r.row, new)
      /\ \A u \in Users \ {t} : members'[u] = members[u]
      BY <1>1, <1>2
<1>4. /\ r.op \in MemberOps /\ r.row.status = "active"
      /\ r.op = "grant_ownership" => r.role = "owner"
      BY <1>1, <1>2 DEF Knows
<1>5. members'[t].status = "active" => members[t].status = "active"
  <2>1. CASE r.op = "remove" BY <1>3, <1>4, <2>1 DEF Update
  <2>2. CASE r.op # "remove" BY <1>3, <1>4, <2>2 DEF Update
  <2> QED BY <2>1, <2>2
<1>6. ActiveMembers' \subseteq ActiveMembers
      BY <1>3, <1>5 DEF ActiveMembers, Active
<1>7. overwritten' \/ Keeps(t) \/ r.at = "cleared"
  <2>1. CASE r.at = "loaded" /\ r.op = "grant_ownership"
      BY <1>3, <1>4, <2>1 DEF Update, Keeps, IsOwner
  <2>2. CASE r.at = "loaded" /\ r.op # "grant_ownership"
    <3>1. r.row.role # "owner" BY <1>2, <1>4, <2>2 DEF UnseatsOwner, MemberOps
    <3> QED BY <1>2, <3>1 DEF Keeps, IsOwner
  <2> QED BY <1>2, <2>1, <2>2
<1> HIDE DEF r, new, t
<1>8. \A u \in Users \ {t} : Keeps(u) BY <1>3 DEF Keeps
<1> QED BY <1>2, <1>6, <1>7, <1>8 DEF r, t

(* The acceptance: the invitee alone becomes active, and only with the lock;   *)
(* ownership is lost only if the request had not seen it.                      *)
LEMMA AcceptCommitted ==
    ASSUME IInv, NEW q \in Requests, CommitAccept(q)
    PROVE  /\ ActiveMembers' \subseteq ActiveMembers \cup {request[q].target}
           /\ request[q].at = "opened" => ActiveMembers' \subseteq ActiveMembers
           /\ request[q].at \in {"opened", "seated"}
           /\ overwritten => overwritten'
           /\ \A u \in Users : overwritten' \/ Keeps(u)
<1> DEFINE r == request[q]
           new == IF r.row.status = "active" THEN r.row
                  ELSE [role |-> r.role, status |-> "active"]
           t == r.target
<1>1. /\ t \in Users /\ members \in [Users -> Rows] /\ r \in Doings /\ Knows(q)
      BY DEF IInv, TypeOK, Doings
<1>2. /\ r.at = "seated" \/ (r.at = "opened" /\ r.row.status = "active")
      /\ Insertable(r)
      BY DEF CommitAccept
<1>3. CASE r.at = "opened"
  <2>1. r.row.status = "active" BY <1>2, <1>3
  <2>2. /\ members' = [members EXCEPT ![t] = Update(members[t], r.row, r.row)]
        /\ overwritten => overwritten'
        BY <1>1, <2>1 DEF CommitAccept, Write
  <2>3. members'[t].role = members[t].role /\ members'[t].status = members[t].status
        BY <1>1, <2>2 DEF Update
  <2>4. \A u \in Users \ {t} : members'[u] = members[u] BY <1>1, <2>2
  <2> HIDE DEF r, t
  <2> QED BY <1>3, <2>2, <2>3, <2>4 DEF ActiveMembers, Active, Keeps, IsOwner, r, t
<1>4. CASE r.at = "seated"
  <2>1. r.row.status # "active" BY <1>1, <1>4 DEF Knows
  <2>2. /\ \A u \in Users \ {t} : members'[u] = members[u]
        /\ overwritten => overwritten'
        /\ overwritten' \/ Keeps(t)
    <3>1. CASE r.row.status = "none"
      <4>1. members[t].status = "none" BY <1>2, <3>1 DEF Insertable
      <4> QED BY <1>1, <3>1, <4>1 DEF CommitAccept, Keeps, IsOwner
    <3>2. CASE r.row.status # "none"
        BY <1>1, <2>1, <3>2 DEF CommitAccept, Write, Keeps, IsOwner
    <3> QED BY <3>1, <3>2
  <2> HIDE DEF r, t
  <2> QED BY <1>4, <2>2 DEF ActiveMembers, Active, Keeps, r, t
<1> QED BY <1>2, <1>3, <1>4

-----------------------------------------------------------------------------
(* What other requests know survives a step that respects the lock.          *)

OwnersStay == overwritten' \/ \A u \in Users : Keeps(u)
NothingNewPending ==
    \A i \in DOMAIN invitations' : IsPending(i)' =>
        i \in DOMAIN invitations /\ IsPending(i) /\ invitations'[i].user = invitations[i].user

LEMMA SeatedKept ==
    ASSUME IInv, Seated, ActiveMembers' \subseteq ActiveMembers
    PROVE  Seated'
<1>1. /\ Cardinality(ActiveMembers') <= Cardinality(ActiveMembers)
      /\ Cardinality(ActiveMembers') \in Nat /\ Cardinality(ActiveMembers) \in Nat
      BY FewerActive, CountsAreNumbers DEF IInv
<1> QED BY <1>1, TeamConstants DEF Seated

LEMMA KnowsKept ==
    ASSUME IInv, NEW p \in Requests, request'[p] = request[p], overwritten => overwritten',
           lock = p => /\ ActiveMembers' \subseteq ActiveMembers
                       /\ OwnersStay /\ NothingNewPending
    PROVE  Knows(p)'
<1> DEFINE r == request[p]
<1>1. Knows(p) /\ (lock = p <=> r.at \in Locked) BY DEF IInv, TypeOK
<1>2. r.at = "cleared" => overwritten' \/ (OtherOwners(r.target) # {})'
    BY <1>1 DEF Knows, Locked, OwnersStay, OtherOwners, Keeps
<1>3. r.at = "seated" => Seated'
    BY <1>1, SeatedKept DEF Knows, Locked
<1>4. r.at = "checked" => \A i \in DOMAIN invitations' :
                            invitations'[i].user = r.target => ~IsPending(i)'
    BY <1>1 DEF Knows, Locked, NothingNewPending
<1> QED BY <1>1, <1>2, <1>3, <1>4 DEF Knows

(* The request that takes a step knows what it has just read or checked. *)
LEMMA KnowledgeKept ==
    ASSUME IInv, [Next]_vars
    PROVE  \A p \in Requests : Knows(p)'
<1> USE DEF IInv
<1> DEFINE Goal == \A p \in Requests : Knows(p)'
<1>1. ASSUME NEW q \in Requests, request'[q].at \notin {"loaded"} \cup Locked,
             \A p \in Requests \ {q} : request'[p] = request[p],
             overwritten => overwritten',
             \A p \in Requests \ {q} : lock = p =>
                 ActiveMembers' \subseteq ActiveMembers /\ OwnersStay /\ NothingNewPending
      PROVE  Goal
  <2>1. Knows(q)' BY <1>1 DEF Knows, Locked
  <2>2. ASSUME NEW p \in Requests \ {q} PROVE Knows(p)' BY <1>1, <2>2, KnowsKept
  <2> QED BY <2>1, <2>2
<1>2. ASSUME NEW q \in Requests, Knows(q)',
             \A p \in Requests \ {q} : request'[p] = request[p],
             UNCHANGED <<members, invitations, overwritten>>
      PROVE  Goal
  <2>1. ASSUME NEW p \in Requests \ {q} PROVE Knows(p)'
    <3>1. ActiveMembers' \subseteq ActiveMembers /\ OwnersStay /\ NothingNewPending
        BY <1>2 DEF ActiveMembers, Active, OwnersStay, Keeps, NothingNewPending, IsPending
    <3> QED BY <1>2, <2>1, <3>1, KnowsKept
  <2> QED BY <1>2, <2>1
<1>3. ASSUME NEW q \in Requests, Answer(q)
      PROVE  request'[q].at = "idle" /\ \A p \in Requests \ {q} : request'[p] = request[p]
      BY <1>3, IdleKept, Literals DEF TypeOK
<1>4. ASSUME NEW q \in Requests, NEW at, NEW new \in Doings,
             request' = [request EXCEPT ![q] = [new EXCEPT !.at = at]]
      PROVE  /\ request'[q] = [new EXCEPT !.at = at] /\ request'[q].at = at
             /\ \A p \in Requests \ {q} : request'[p] = request[p]
      BY <1>4 DEF TypeOK, Doings
<1>5. ASSUME NEW q \in Requests, NEW u \in Users, Authorize(q, u) PROVE Goal
  <2> DEFINE new == [Idle EXCEPT !.actor = u, !.actorRole = members[u].role]
  <2>1. new \in Doings BY Literals DEF TypeOK, Doings, Rows
  <2>2. /\ request' = [request EXCEPT ![q] = [new EXCEPT !.at = "authorized"]]
        /\ UNCHANGED <<members, invitations, overwritten>>
      BY <1>5 DEF Authorize, Goto
  <2>3. request'[q].at = "authorized" /\ \A p \in Requests \ {q} : request'[p] = request[p]
      BY <2>1, <2>2, <1>4
  <2>4. Knows(q)' BY <2>3 DEF Knows
  <2> QED BY <1>2, <2>2, <2>3, <2>4
<1>6. ASSUME NEW q \in Requests, NEW op \in MemberOps, NEW t \in Users, NEW role \in Roles,
             LoadTarget(q, op, t, role)
      PROVE  Goal
  <2> DEFINE row == IF t = request[q].actor
                    THEN [role |-> request[q].actorRole, status |-> "active"] ELSE members[t]
             new == [Idle EXCEPT !.op = op, !.target = t, !.row = row, !.role = role]
  <2>1. new \in Doings /\ new.op = op /\ new.row = row /\ new.role = role
      BY Literals DEF TypeOK, Doings, Rows, Statuses
  <2>2. /\ request' = [request EXCEPT ![q] = [new EXCEPT !.at = "loaded"]]
        /\ row.status = "active" /\ (op = "grant_ownership" => role = "owner")
        /\ UNCHANGED <<members, invitations, overwritten>>
      BY <1>6 DEF LoadTarget, Goto, Allowed
  <2> HIDE DEF new, row
  <2>3. /\ request'[q] = [new EXCEPT !.at = "loaded"] /\ request'[q].at = "loaded"
        /\ \A p \in Requests \ {q} : request'[p] = request[p]
      BY <2>1, <2>2, <1>4
  <2>4. request'[q].op = op /\ request'[q].row = row /\ request'[q].role = role
      BY <2>1, <2>3 DEF Doings
  <2>5. Knows(q)' BY <2>2, <2>3, <2>4 DEF Knows
  <2> QED BY <1>2, <2>2, <2>3, <2>5
<1>7. ASSUME NEW q \in Requests, LockAndCountOwners(q) PROVE Goal
  <2>1. /\ request' = [request EXCEPT ![q] = [request[q] EXCEPT !.at = "cleared"]]
        /\ request[q].at = "loaded" /\ OtherOwners(request[q].target) # {}
        /\ UNCHANGED <<members, invitations, overwritten>>
      BY <1>7 DEF LockAndCountOwners, Goto
  <2>2. /\ request'[q] = [request[q] EXCEPT !.at = "cleared"] /\ request'[q].at = "cleared"
        /\ \A p \in Requests \ {q} : request'[p] = request[p]
      BY <2>1, <1>4 DEF TypeOK
  <2>3. /\ request'[q].op = request[q].op /\ request'[q].row = request[q].row
        /\ request'[q].role = request[q].role /\ request'[q].target = request[q].target
      BY <2>2 DEF TypeOK, Doings
  <2>4. Knows(q)' BY <2>1, <2>2, <2>3 DEF Knows, OtherOwners
  <2> QED BY <1>2, <2>1, <2>2, <2>4
<1>8. ASSUME NEW q \in Requests, CommitTarget(q) PROVE Goal
  <2>1. /\ Answer(q) /\ UNCHANGED invitations
        /\ request[q].at = "cleared" \/ (request[q].at = "loaded" /\ ~UnseatsOwner(request[q]))
      BY <1>8 DEF CommitTarget
  <2>2. \A p \in Requests \ {q} : lock = p => request[q].at # "cleared"
      BY DEF TypeOK, Locked
  <2>3. NothingNewPending BY <2>1 DEF NothingNewPending, IsPending
  <2>4. \A p \in Requests \ {q} : lock = p => OwnersStay
      BY <1>8, <2>2, TargetCommitted DEF OwnersStay
  <2> QED BY <1>1, <1>3, <1>8, <2>1, <2>3, <2>4, TargetCommitted DEF Locked
<1>9. ASSUME NEW q \in Requests, NEW u \in Users, NEW role \in InvitationRoles,
             CheckInvitation(q, u, role)
      PROVE  Goal
  <2> DEFINE new == [Idle EXCEPT !.op = "invite", !.target = u, !.role = role]
  <2>1. new \in Doings /\ new.target = u /\ new.role = role
      BY Literals DEF Doings
  <2>2. /\ request' = [request EXCEPT ![q] = [new EXCEPT !.at = "checked"]]
        /\ \A i \in DOMAIN invitations : invitations[i].user = u => ~IsPending(i)
        /\ UNCHANGED <<members, invitations, overwritten>>
      BY <1>9 DEF CheckInvitation, Goto
  <2> HIDE DEF new
  <2>3. /\ request'[q] = [new EXCEPT !.at = "checked"] /\ request'[q].at = "checked"
        /\ \A p \in Requests \ {q} : request'[p] = request[p]
      BY <2>1, <2>2, <1>4
  <2>4. request'[q].target = u /\ request'[q].role = role
      BY <2>1, <2>3 DEF Doings
  <2>5. Knows(q)' BY <2>2, <2>3, <2>4 DEF Knows, IsPending
  <2> QED BY <1>2, <2>2, <2>3, <2>5
<1>10. ASSUME NEW q \in Requests, SendInvitation(q) PROVE Goal
  <2>1. /\ Answer(q) /\ UNCHANGED <<members, overwritten>> /\ request[q].at = "checked"
      BY <1>10 DEF SendInvitation
  <2>2. \A p \in Requests \ {q} : lock # p BY <2>1 DEF TypeOK, Locked
  <2> QED BY <1>1, <1>3, <2>1, <2>2 DEF Locked
<1>11. ASSUME NEW q \in Requests, NEW i \in DOMAIN invitations, OpenInvitation(q, i)
       PROVE  Goal
  <2> DEFINE u == invitations[i].user
             new == [Idle EXCEPT !.op = "accept", !.target = u, !.row = members[u],
                                 !.role = invitations[i].role, !.invitation = i]
  <2>1. invitations[i] \in Invitations /\ i \in 0..MaxInvitations
      BY TeamConstants DEF TypeOK
  <2>2. new \in Doings
      BY <2>1, Literals DEF TypeOK, Doings, Invitations
  <2>3. /\ request' = [request EXCEPT ![q] = [new EXCEPT !.at = "opened"]]
        /\ UNCHANGED <<members, invitations, overwritten>>
      BY <1>11 DEF OpenInvitation, Goto
  <2> HIDE DEF new
  <2>4. request'[q].at = "opened" /\ \A p \in Requests \ {q} : request'[p] = request[p]
      BY <2>2, <2>3, <1>4
  <2>5. Knows(q)' BY <2>4 DEF Knows
  <2> QED BY <1>2, <2>3, <2>4, <2>5
<1>12. ASSUME NEW q \in Requests, TakeSeat(q) PROVE Goal
  <2>1. /\ request' = [request EXCEPT ![q] = [request[q] EXCEPT !.at = "seated"]]
        /\ request[q].row.status # "active" /\ Seated
        /\ UNCHANGED <<members, invitations, overwritten>>
      BY <1>12 DEF TakeSeat, Goto
  <2>2. /\ request'[q] = [request[q] EXCEPT !.at = "seated"] /\ request'[q].at = "seated"
        /\ \A p \in Requests \ {q} : request'[p] = request[p]
      BY <2>1, <1>4 DEF TypeOK
  <2>3. request'[q].row = request[q].row BY <2>2 DEF TypeOK, Doings
  <2>4. Seated' BY <2>1, SeatedKept DEF ActiveMembers, Active
  <2>5. Knows(q)' BY <2>1, <2>2, <2>3, <2>4 DEF Knows
  <2> QED BY <1>2, <2>1, <2>2, <2>5
<1>13. ASSUME NEW q \in Requests, CommitAccept(q) PROVE Goal
  <2>1. Answer(q) /\ invitations' =
          [invitations EXCEPT ![request[q].invitation].state = "accepted"]
      BY <1>13 DEF CommitAccept
  <2>2. \A p \in Requests \ {q} : lock = p => request[q].at # "seated"
      BY DEF TypeOK, Locked
  <2>3. NothingNewPending
      BY <2>1, StateChanged DEF NothingNewPending, IsPending
  <2> QED BY <1>1, <1>3, <1>13, <2>1, <2>2, <2>3, AcceptCommitted DEF Locked, OwnersStay
<1>14. ASSUME NEW q \in Requests, GiveUp(q) PROVE Goal
    BY <1>1, <1>3, <1>14
    DEF GiveUp, Locked, ActiveMembers, Active, OwnersStay, Keeps, NothingNewPending, IsPending
<1>15. ASSUME NEW i \in DOMAIN invitations, Cancel(i) PROVE Goal
  <2>1. NothingNewPending
      BY <1>15, StateChanged DEF Cancel, NothingNewPending, IsPending
  <2>2. ActiveMembers' \subseteq ActiveMembers /\ OwnersStay /\ UNCHANGED <<request, overwritten>>
      BY <1>15 DEF Cancel, ActiveMembers, Active, OwnersStay, Keeps
  <2> QED BY <2>1, <2>2, KnowsKept
<1>16. CASE UNCHANGED vars
  <2>1. /\ ActiveMembers' \subseteq ActiveMembers /\ OwnersStay /\ NothingNewPending
        /\ UNCHANGED <<request, overwritten>>
      BY <1>16 DEF vars, ActiveMembers, Active, OwnersStay, Keeps, NothingNewPending, IsPending
  <2> QED BY <2>1, KnowsKept
<1> QED BY <1>5, <1>6, <1>7, <1>8, <1>9, <1>10, <1>11, <1>12, <1>13, <1>14, <1>15, <1>16
        DEF Next, Manage, Invite, Accept

-----------------------------------------------------------------------------
(* The three promises. *)

(* Every other action leaves the members alone. *)
LEMMA MembersWriters ==
    ASSUME IInv, [Next]_vars
    PROVE  \/ \E q \in Requests : CommitTarget(q) \/ CommitAccept(q)
           \/ UNCHANGED <<members, overwritten>>
BY DEF Next, Manage, Invite, Accept, Authorize, LoadTarget, LockAndCountOwners,
       CheckInvitation, SendInvitation, OpenInvitation, TakeSeat, GiveUp, Cancel, vars

LEMMA SafetyKept ==
    ASSUME IInv, [Next]_vars
    PROVE  OwnerRemains' /\ WithinSeats' /\ OnePending'
<1> USE DEF IInv
<1>1. OwnerRemains'
  <2>1. ASSUME NEW q \in Requests, CommitTarget(q) PROVE OwnerRemains'
    <3>1. CASE overwritten' BY <3>1 DEF OwnerRemains
    <3>2. CASE ~overwritten' /\ request[q].at = "cleared"
      <4>1. PICK u \in Users : u # request[q].target /\ IsOwner(members[u])
          BY <2>1, <3>2, TargetCommitted DEF Knows, OtherOwners
      <4>2. Keeps(u) BY <2>1, <3>2, <4>1, TargetCommitted
      <4> QED BY <4>1, <4>2 DEF Keeps, OwnerRemains, IsOwner
    <3>3. CASE ~overwritten' /\ request[q].at # "cleared"
      <4>1. PICK u \in Users : IsOwner(members[u])
          BY <2>1, <3>3, TargetCommitted DEF OwnerRemains
      <4>2. Keeps(u) BY <2>1, <3>3, <4>1, TargetCommitted
      <4> QED BY <4>1, <4>2 DEF Keeps, OwnerRemains, IsOwner
    <3> QED BY <3>1, <3>2, <3>3
  <2>2. ASSUME NEW q \in Requests, CommitAccept(q) PROVE OwnerRemains'
      BY <2>2, AcceptCommitted DEF Keeps, OwnerRemains, IsOwner
  <2> QED BY <2>1, <2>2, MembersWriters DEF OwnerRemains, IsOwner
<1>2. WithinSeats'
  <2>1. CASE ActiveMembers' \subseteq ActiveMembers
    <3>1. /\ Cardinality(ActiveMembers') <= Cardinality(ActiveMembers)
          /\ Cardinality(ActiveMembers') \in Nat /\ Cardinality(ActiveMembers) \in Nat
        BY <2>1, FewerActive, CountsAreNumbers
    <3> QED BY <3>1, TeamConstants DEF WithinSeats
  <2>2. ASSUME NEW q \in Requests, CommitAccept(q), request[q].at = "seated"
        PROVE  WithinSeats'
    <3>1. Cardinality(ActiveMembers) + 1 <= MaxUsers BY <2>2 DEF Knows, Seated
    <3>2. ActiveMembers' \subseteq ActiveMembers \cup {request[q].target}
        BY <2>2, AcceptCommitted
    <3>3. /\ Cardinality(ActiveMembers') <= Cardinality(ActiveMembers) + 1
          /\ Cardinality(ActiveMembers') \in Nat /\ Cardinality(ActiveMembers) \in Nat
        BY <3>2, OneMoreActive, CountsAreNumbers
    <3> QED BY <3>1, <3>3, TeamConstants DEF WithinSeats
  <2>3. ASSUME UNCHANGED members PROVE ActiveMembers' \subseteq ActiveMembers
      BY <2>3 DEF ActiveMembers, Active
  <2> QED BY <2>1, <2>2, <2>3, MembersWriters, TargetCommitted, AcceptCommitted
<1>3. OnePending'
  <2>1. ASSUME NothingNewPending PROVE OnePending'
      BY <2>1 DEF OnePending, NothingNewPending
  <2>2. ASSUME NEW q \in Requests, SendInvitation(q) PROVE OnePending'
    <3> DEFINE new == [user |-> request[q].target, role |-> request[q].role,
                       state |-> "pending"]
               n == Len(invitations)
    <3>1. /\ invitations' = Append(invitations, new) /\ invitations \in Seq(Invitations)
          /\ \A i \in DOMAIN invitations : invitations[i].user = new.user => ~IsPending(i)
        BY <2>2 DEF SendInvitation, Knows, TypeOK
    <3>2. /\ n \in Nat /\ DOMAIN invitations = 1..n /\ DOMAIN invitations' = 1..(n + 1)
          /\ invitations'[n + 1] = new
          /\ \A i \in 1..n : invitations'[i] = invitations[i]
        BY <3>1
    <3> HIDE DEF new, n
    <3>3. \A i \in 1..n : invitations'[i].user = new.user => ~IsPending(i)'
        BY <3>1, <3>2 DEF IsPending
    <3>4. \A i \in DOMAIN invitations' : i \in 1..n \/ i = n + 1
        BY <3>2
    <3> QED BY <3>2, <3>3, <3>4 DEF OnePending, IsPending
  <2>3. ASSUME NEW i, NEW state \in {"accepted", "deleted"},
               invitations' = [invitations EXCEPT ![i].state = state]
        PROVE  NothingNewPending
      BY <2>3, StateChanged DEF NothingNewPending, IsPending
  <2>4. ASSUME UNCHANGED invitations PROVE NothingNewPending
      BY <2>4 DEF NothingNewPending, IsPending
  <2>5. ASSUME NEW q \in Requests, CommitAccept(q) PROVE NothingNewPending
      BY <2>3, <2>5 DEF CommitAccept
  <2>6. ASSUME NEW i \in DOMAIN invitations, Cancel(i) PROVE NothingNewPending
      BY <2>3, <2>6 DEF Cancel
  <2> QED BY <2>1, <2>2, <2>4, <2>5, <2>6
          DEF Next, Manage, Invite, Accept, Authorize, LoadTarget, LockAndCountOwners,
              CommitTarget, CheckInvitation, OpenInvitation, TakeSeat, GiveUp, vars
<1> QED BY <1>1, <1>2, <1>3

LEMMA InitIInv ==
    ASSUME Init
    PROVE  IInv
<1>1. members[Founder] = [role |-> "owner", status |-> "active"]
      /\ \A u \in Users \ {Founder} : members[u] = NoRow
    BY TeamConstants DEF Init
<1>2. TypeOK
  <2>1. members \in [Users -> Rows]
    <3>1. [role |-> "owner", status |-> "active"] \in Rows /\ NoRow \in Rows
        BY DEF Rows, NoRow, Roles, InvitationRoles, Statuses
    <3> QED BY <3>1 DEF Init
  <2>2. invitations \in Seq(Invitations) BY DEF Init
  <2>3. request \in [Requests -> Doings] /\ \A q \in Requests : request[q].at \notin Locked
      BY Literals DEF Init, Locked
  <2>4. lock = None /\ \A q \in Requests : lock # q BY TeamConstants DEF Init
  <2> QED BY <2>1, <2>2, <2>3, <2>4 DEF Init, TypeOK
<1>3. ActiveMembers = {Founder}
    BY <1>1, TeamConstants DEF ActiveMembers, Active, NoRow
<1>4. Cardinality(ActiveMembers) = 1 BY <1>3, FS_Singleton
<1>5. WithinSeats BY <1>4, TeamConstants DEF WithinSeats
<1>6. OwnerRemains BY <1>1, TeamConstants DEF OwnerRemains, IsOwner
<1>7. \A q \in Requests : Knows(q) BY Literals DEF Init, Knows
<1>8. OnePending /\ Len(invitations) <= MaxInvitations
    BY TeamConstants DEF Init, OnePending
<1> QED BY <1>2, <1>5, <1>6, <1>7, <1>8 DEF IInv

(* The invariant holds in every reachable state. *)
THEOREM Inductive == Spec => []IInv
<1>1. Init => IInv BY InitIInv
<1>2. IInv /\ [Next]_vars => IInv'
    BY TypesKept, KnowledgeKept, SafetyKept DEF IInv
<1> QED BY <1>1, <1>2, PTL DEF Spec

(* Team.TypeOK for every instance: every variable keeps its type, and the lock *)
(* is held exactly between a check it guards and the commit.                   *)
THEOREM TypeCorrect == Spec => []TypeOK
BY Inductive, PTL DEF IInv

(* team.py's "at least one active owner, always": whatever requests cross, the *)
(* last owner goes only to a write over an ownership its request had not seen. *)
THEOREM OwnerStays == Spec => []OwnerRemains
BY Inductive, PTL DEF IInv

(* check_limit for users: acceptances never take more seats than the plan has. *)
THEOREM SeatsHold == Spec => []WithinSeats
BY Inductive, PTL DEF IInv

(* invite_member_record's check: an address has one pending invitation at most. *)
THEOREM PendingUnique == Spec => []OnePending
BY Inductive, PTL DEF IInv
=============================================================================
