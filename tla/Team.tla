-------------------------------- MODULE Team --------------------------------
(***************************************************************************)
(* The members of one organization and its invitations, app/services/      *)
(* team.py behind app/routers/team.py and invitations.py.  Requests run    *)
(* side by side, each in a database session of its own that keeps the rows *)
(* as it first read them; what serializes some of them is the lock on the  *)
(* organization's row (plan_limits._lock_organization), held to the end of *)
(* the transaction.  A viewer ranks as a member here: neither manages      *)
(* anyone.  The plan stays the same, and so do tokens and expiry dates     *)
(* (resend_invitation): an expired token is one way to be refused.         *)
(***************************************************************************)
EXTENDS Naturals, Sequences, FiniteSets

CONSTANTS
    Users,
    Founder,         \* who registered the organization
    Requests,        \* requests that can be under way at once
    None,            \* no request
    MaxUsers,        \* the plan's seats
    MaxInvitations   \* bound on invitations ever sent

ASSUME TeamConstants ==
    /\ Founder \in Users /\ IsFiniteSet(Users)
    /\ None \notin Requests
    /\ MaxUsers \in Nat \ {0} /\ MaxInvitations \in Nat

VARIABLES
    members,      \* organization_members: role and status of each user's row
    invitations,  \* organization_invitations, in order of creation
    request,      \* what each request is doing, and the rows as it read them
    lock,         \* the request that holds the lock on the organization's row
    overwritten   \* history: an ownership the request had not seen was undone

vars == <<members, invitations, request, lock, overwritten>>

InvitationRoles == {"member", "admin"}
Roles == InvitationRoles \cup {"owner"}
Statuses == {"none", "active", "removed"}   \* none: the user has no row
Rows == [role : Roles, status : Statuses]
NoRow == [role |-> "member", status |-> "none"]

MemberOps == {"change_role", "grant_ownership", "remove"}
Idle == [at |-> "idle", op |-> "none", actor |-> Founder, actorRole |-> "member",
         target |-> Founder, row |-> NoRow, role |-> "member", invitation |-> 0]

Init ==
    /\ members = [u \in Users |-> IF u = Founder THEN [role |-> "owner", status |-> "active"]
                                                 ELSE NoRow]
    /\ invitations = <<>>
    /\ request = [q \in Requests |-> Idle]
    /\ lock = None
    /\ overwritten = FALSE

Active(u) == members[u].status = "active"
ActiveMembers == {u \in Users : Active(u)}
IsOwner(row) == row.role = "owner" /\ row.status = "active"

-----------------------------------------------------------------------------
(* app.permissions and app.role_hierarchy. *)

Rank(role) == CASE role = "member" -> 1 [] role = "admin" -> 2 [] role = "owner" -> 3

CanAssignRole(actorRole, role) == Rank(actorRole) > Rank(role)
CanManageMember(actorRole, role) ==
    (actorRole = "owner" /\ role = "owner") \/ Rank(actorRole) > Rank(role)

-----------------------------------------------------------------------------
(* The lock. *)

(* Mutant: with_for_update forgotten. *)
AnyoneMayLock == TRUE

LockIsFree == lock = None

Release(q) == lock' = IF lock = q THEN None ELSE lock

Goto(q, at, changes) == request' = [request EXCEPT ![q] = [changes EXCEPT !.at = at]]
Answer(q) == request' = [request EXCEPT ![q] = Idle] /\ Release(q)

(* A request ends without a change: refused with a 4xx, failed, or killed.     *)
GiveUp(q) ==
    /\ request[q].at # "idle"
    /\ Answer(q)
    /\ UNCHANGED <<members, invitations, overwritten>>

-----------------------------------------------------------------------------
(* update_member_role, grant_ownership and remove_member. *)

(* require_permission reads the actor's own row; which operation was asked for *)
(* shows in what comes next.                                                   *)
Authorize(q, u) ==
    /\ request[q].at = "idle"
    /\ Active(u) /\ members[u].role \in {"admin", "owner"}   \* members.manage
    /\ Goto(q, "authorized", [Idle EXCEPT !.actor = u, !.actorRole = members[u].role])
    /\ UNCHANGED <<members, invitations, lock, overwritten>>

(* What permissions and hierarchy allow, on the rows as they were read. *)
Allowed(r, op, t, row, role) ==
    CASE op = "change_role" ->
            /\ role \in InvitationRoles /\ CanAssignRole(r.actorRole, role)
            /\ t # r.actor => CanManageMember(r.actorRole, row.role)
      [] op = "grant_ownership" ->
            r.actorRole = "owner" /\ role = "owner" /\ t # r.actor   \* organization.manage
      [] op = "remove" ->
            /\ role = row.role
            /\ t # r.actor => CanManageMember(r.actorRole, row.role)

(* The target's row is read, unless it is the actor's, which the session has.  *)
LoadTarget(q, op, t, role) ==
    LET r == request[q]
        row == IF t = r.actor THEN [role |-> r.actorRole, status |-> "active"] ELSE members[t]
    IN  /\ r.at = "authorized"
        /\ row.status = "active"
        /\ Allowed(r, op, t, row, role)
        /\ Goto(q, "loaded", [Idle EXCEPT !.op = op, !.target = t, !.row = row, !.role = role])
        /\ UNCHANGED <<members, invitations, lock, overwritten>>

(* Mutant: removed members count. *)
OwnersEver(t) == {u \in Users \ {t} : members[u].role = "owner"}

(* _count_members_with_permission, without the target. *)
OtherOwners(t) == {u \in Users \ {t} : IsOwner(members[u])}

(* The target was read as an owner, who is to lose that. *)
UnseatsOwner(r) == r.op \in {"change_role", "remove"} /\ r.row.role = "owner"

LockAndCountOwners(q) ==
    /\ request[q].at = "loaded" /\ UnseatsOwner(request[q])
    /\ LockIsFree
    /\ OtherOwners(request[q].target) # {}
    /\ lock' = q
    /\ Goto(q, "cleared", request[q])
    /\ UNCHANGED <<members, invitations, overwritten>>

(* The columns that differ from the row as read are written; nothing says that *)
(* the row is still what was read.                                             *)
Update(row, read, new) ==
    [role   |-> IF new.role = read.role THEN row.role ELSE new.role,
     status |-> IF new.status = read.status THEN row.status ELSE new.status]

Write(u, read, new) ==
    /\ members' = [members EXCEPT ![u] = Update(@, read, new)]
    /\ overwritten' = (overwritten \/ /\ IsOwner(members[u]) /\ ~IsOwner(read)
                                      /\ ~IsOwner(members'[u]))

CommitTarget(q) ==
    LET r == request[q]
        status == IF r.op = "remove" THEN "removed" ELSE "active"
    IN  /\ r.at = "cleared" \/ (r.at = "loaded" /\ ~UnseatsOwner(r))
        /\ Write(r.target, r.row, [role |-> r.role, status |-> status])
        /\ Answer(q)
        /\ UNCHANGED invitations

-----------------------------------------------------------------------------
(* Invitations. *)

Seated == Cardinality(ActiveMembers) + 1 <= MaxUsers   \* check_limit

IsPending(i) == invitations[i].state = "pending"

(* create_invitation: the seats are checked first, under the lock, which the   *)
(* session then keeps; there is neither a member nor a pending invitation of   *)
(* that address.                                                               *)
CheckInvitation(q, u, role) ==
    LET r == request[q]
    IN  /\ r.at = "authorized"
        /\ LockIsFree /\ Seated
        /\ CanAssignRole(r.actorRole, role)
        /\ ~Active(u)
        /\ \A i \in DOMAIN invitations : invitations[i].user = u => ~IsPending(i)
        /\ lock' = q
        /\ Goto(q, "checked", [Idle EXCEPT !.op = "invite", !.target = u, !.role = role])
        /\ UNCHANGED <<members, invitations, overwritten>>

SendInvitation(q) ==
    /\ request[q].at = "checked"
    /\ Len(invitations) < MaxInvitations
    /\ invitations' = Append(invitations, [user |-> request[q].target, role |-> request[q].role,
                                           state |-> "pending"])
    /\ Answer(q)
    /\ UNCHANGED <<members, overwritten>>

(* cancel_invitation deletes the row, an accepted one as well.                 *)
Cancel(i) ==
    /\ invitations[i].state # "deleted"
    /\ invitations' = [invitations EXCEPT ![i].state = "deleted"]
    /\ UNCHANGED <<members, request, lock, overwritten>>

(* The invitee opens the link: the invitation, by its token, and any row of    *)
(* theirs are read.                                                            *)
OpenInvitation(q, i) ==
    LET u == invitations[i].user
    IN  /\ request[q].at = "idle"
        /\ IsPending(i)
        /\ Goto(q, "opened", [Idle EXCEPT !.op = "accept", !.target = u, !.row = members[u],
                                          !.role = invitations[i].role, !.invitation = i])
        /\ UNCHANGED <<members, invitations, lock, overwritten>>

(* check_limit, unless the row was read as that of a member. *)
TakeSeat(q) ==
    /\ request[q].at = "opened" /\ request[q].row.status # "active"
    /\ LockIsFree /\ Seated
    /\ lock' = q
    /\ Goto(q, "seated", request[q])
    /\ UNCHANGED <<members, invitations, overwritten>>

(* What cannot be written: a second row of the user (UNIQUE), or an invitation *)
(* deleted meanwhile.                                                          *)
Insertable(r) == r.row.status = "none" => members[r.target].status = "none"
StillThere(r) == invitations[r.invitation].state # "deleted"

CommitAccept(q) ==
    LET r == request[q]
        new == IF r.row.status = "active" THEN r.row ELSE [role |-> r.role, status |-> "active"]
    IN  /\ r.at = "seated" \/ (r.at = "opened" /\ r.row.status = "active")
        /\ Insertable(r) /\ StillThere(r)
        /\ IF r.row.status = "none"
           THEN members' = [members EXCEPT ![r.target] = new] /\ UNCHANGED overwritten
           ELSE Write(r.target, r.row, new)
        /\ invitations' = [invitations EXCEPT ![r.invitation].state = "accepted"]
        /\ Answer(q)

-----------------------------------------------------------------------------
Manage(q) ==
    \/ \E u \in Users : Authorize(q, u)
    \/ \E op \in MemberOps, t \in Users, role \in Roles : LoadTarget(q, op, t, role)
    \/ LockAndCountOwners(q) \/ CommitTarget(q)

Invite(q) ==
    \/ \E u \in Users, role \in InvitationRoles : CheckInvitation(q, u, role)
    \/ SendInvitation(q)

Accept(q) ==
    \/ \E i \in DOMAIN invitations : OpenInvitation(q, i)
    \/ TakeSeat(q) \/ CommitAccept(q)

Next ==
    \/ \E q \in Requests : Manage(q) \/ Invite(q) \/ Accept(q) \/ GiveUp(q)
    \/ \E i \in DOMAIN invitations : Cancel(i)

Spec == Init /\ [][Next]_vars

-----------------------------------------------------------------------------
(* Correctness. *)

Invitations == [user : Users, role : InvitationRoles,
                state : {"pending", "accepted", "deleted"}]
Doings ==
    [at : {"idle", "authorized", "loaded", "cleared", "checked", "opened", "seated"},
     op : {"none", "invite", "accept"} \cup MemberOps, actor : Users, actorRole : Roles,
     target : Users, row : Rows, role : Roles, invitation : 0..MaxInvitations]

(* Where a request holds the lock. *)
Locked == {"cleared", "checked", "seated"}

(* Every variable keeps its type; the lock is held between the check it guards *)
(* and the commit.                                                             *)
TypeOK ==
    /\ members \in [Users -> Rows]
    /\ invitations \in Seq(Invitations)
    /\ request \in [Requests -> Doings]
    /\ lock \in {None} \cup Requests
    /\ \A q \in Requests : lock = q <=> request[q].at \in Locked
    /\ overwritten \in BOOLEAN

(* "At least one active owner, always", whatever demotions, removals and       *)
(* grants of ownership cross: only a request that undoes an ownership it had   *)
(* not seen, granted after it read the row, can break this.                    *)
OwnerRemains == overwritten \/ \E u \in Users : IsOwner(members[u])

(* Invitations accepted at the same time do not get past the plan's seats.     *)
WithinSeats == Cardinality(ActiveMembers) <= MaxUsers

(* No address has two invitations pending, however many administrators invite  *)
(* it at once.  (check_limit's lock on the way in is what keeps them apart.)   *)
OnePending ==
    \A i, j \in DOMAIN invitations :
        IsPending(i) /\ IsPending(j) /\ invitations[i].user = invitations[j].user => i = j
=============================================================================
