------------------------------ MODULE Billing ------------------------------
(***************************************************************************)
(* An organization's subscription row, changed by the payment provider's   *)
(* webhooks (app/routers/billing_webhooks.py) and by the platform's        *)
(* administrators (app/routers/platform_admin.py), both through            *)
(* app/billing/service.py.  One action is one transaction, or the part of  *)
(* one other sessions can tell apart.                                      *)
(*                                                                         *)
(* version_id_col makes every UPDATE conditional on the version loaded; of *)
(* the version only matters whether a session's is still the row's         *)
(* (current).  The provider is outside: checkouts complete, subscriptions  *)
(* end, events arrive late, twice or in any order.                         *)
(***************************************************************************)
EXTENDS Naturals, Sequences, FiniteSets

CONSTANTS
    Handlers,    \* server processes; each handles one webhook at a time
    Admins,      \* administrators' requests
    Plans,       \* plans of the catalogue
    Free,        \* the plan an organization is registered on
    MaxRefs,     \* bound on provider subscriptions, one for each checkout completed
    MaxEvents,   \* bound on the provider's events
    MaxAdminOps  \* bound on administrators' requests

ASSUME BillingConstants ==
    /\ Handlers \cap Admins = {}
    /\ Free \in Plans
    /\ MaxRefs \in Nat \ {0} /\ MaxEvents \in Nat /\ MaxAdminOps \in Nat

VARIABLES
    sub,       \* the subscription row
    receipts,  \* events with a provider_webhook_receipts row
    current,   \* sessions whose loaded version is the row's
    req,       \* what each session is doing
    provider,  \* the provider's subscriptions, in order of checkout
    events,    \* the provider's events, in order of creation
    applied,   \* history: how often an event's change was committed whole
    halved,    \* history: events whose handler stopped after its first commit
    strayed,   \* history: provider and row were left different by a known cause
    adminOps   \* requests administrators have made

vars == <<sub, receipts, current, req, provider, events, applied, halved, strayed,
          adminOps>>

Sessions == Handlers \cup Admins
Refs == 0..MaxRefs   \* 0: provider_reference is NULL
Events == 1..MaxEvents

Subscriptions == [status : {"active", "past_due", "canceled"}, plan : Plans,
                  atPeriodEnd : BOOLEAN, canceledAt : BOOLEAN, ref : Refs]
EventTypes == {"checkout_completed", "subscription_updated", "subscription_canceled",
               "payment_failed"}
Ops == {"change_plan", "cancel", "reactivate"}

(* A row as registration creates it. *)
NewSub == [status |-> "active", plan |-> Free,
           atPeriodEnd |-> FALSE, canceledAt |-> FALSE, ref |-> 0]

(* req: where the session is; the event it handles, 0 for an administrator's;   *)
(* what it is to do, by event type or operation; the plan asked for; the row as *)
(* its session holds it.                                                        *)
NoReq == [at |-> "idle", event |-> 0, op |-> "none", plan |-> Free, loaded |-> NewSub]

(* Registered just now; or a customer already attached, who may have canceled  *)
(* and come back (activate_subscription leaves canceled_at as it was).         *)
Init ==
    /\ \/ sub = NewSub /\ provider = <<>>
       \/ \E p \in Plans \ {Free}, c \in BOOLEAN :
             /\ sub = [NewSub EXCEPT !.plan = p, !.canceledAt = c, !.ref = 1]
             /\ provider = <<[plan |-> p, live |-> TRUE, keys |-> {}]>>
    /\ receipts = {}
    /\ current = {}
    /\ req = [s \in Sessions |-> NoReq]
    /\ events = <<>>
    /\ applied = [e \in Events |-> 0]
    /\ halved = {}
    /\ strayed = FALSE
    /\ adminOps = 0

-----------------------------------------------------------------------------
(* The provider. *)

CanEmit == Len(events) < MaxEvents

(* A customer completes a checkout: a new subscription, and an event with the  *)
(* plan that was put into its metadata.                                        *)
Checkout(p) ==
    /\ Len(provider) < MaxRefs /\ CanEmit
    /\ provider' = Append(provider, [plan |-> p, live |-> TRUE, keys |-> {}])
    /\ events' = Append(events, [type |-> "checkout_completed", ref |-> Len(provider) + 1,
                                 plan |-> p, flag |-> FALSE, renewed |-> FALSE])
    /\ UNCHANGED <<sub, receipts, current, req, applied, halved, strayed, adminOps>>

(* An event about a subscription: it ended, now or by an administrator's       *)
(* request; a payment failed; or it was updated: renewed, or its               *)
(* cancel_at_period_end changed (the customer can do that in the portal), or   *)
(* neither.  The event may be delivered much later.                            *)
Notify(n, t, f, renewed) ==
    /\ CanEmit
    /\ t # "checkout_completed"
    /\ t # "subscription_canceled" => provider[n].live
    /\ t # "subscription_updated" => ~f /\ ~renewed
    /\ provider' = [provider EXCEPT ![n].live = @ /\ t # "subscription_canceled"]
    /\ events' = Append(events, [type |-> t, ref |-> n, plan |-> Free, flag |-> f,
                                 renewed |-> renewed])
    /\ UNCHANGED <<sub, receipts, current, req, applied, halved, strayed, adminOps>>

-----------------------------------------------------------------------------
(* BillingService over the row. *)

(* Mutant: the row is written whatever its version. *)
AnyVersion(s) == TRUE

(* version_id_col: no one has committed a newer version. *)
SameVersion(s) == s \in current

(* Columns that change whatever their value was: a cancellation stamps a new   *)
(* time, a renewal or another billing period new dates.                        *)
Stamps(s) == req[s].op \in {"cancel", "subscription_canceled"}
Redates(s) ==
    \/ req[s].op = "subscription_updated" /\ events[req[s].event].renewed
    \/ req[s].at = "period"

(* The row is updated at all: a column changes. *)
Writes(s, new) == new # req[s].loaded \/ Stamps(s) \/ Redates(s)

(* _commit succeeds.  Unchanged columns are not part of the UPDATE. *)
Save(s, new) ==
    /\ Writes(s, new) => SameVersion(s)
    /\ sub' = [f \in DOMAIN sub |->
                 IF new[f] # req[s].loaded[f] \/ (f = "canceledAt" /\ Stamps(s))
                 THEN new[f] ELSE sub[f]]

(* The sessions whose version is the row's after a save by s. *)
UpToDate(s, new) == IF Writes(s, new) THEN {s} ELSE current

(* The commit is over; the session goes on, or is done.  What it has is what   *)
(* it committed: the refresh is a transaction of its own (Reread).             *)
Proceed(s, new, at) ==
    /\ req' = [req EXCEPT ![s].at = at, ![s].loaded = new]
    /\ current' = UpToDate(s, new)
Finish(s, new) ==
    /\ req' = [req EXCEPT ![s] = NoReq]
    /\ current' = UpToDate(s, new) \ {s}
GiveUp(s) ==
    /\ req' = [req EXCEPT ![s] = NoReq]
    /\ current' = current \ {s}

Canceled(r) == [r EXCEPT !.status = "canceled", !.canceledAt = TRUE]
Reactivated(r) ==
    [r EXCEPT !.atPeriodEnd = FALSE, !.canceledAt = FALSE,
              !.status = IF @ = "canceled" THEN "active" ELSE @]

-----------------------------------------------------------------------------
(* receive_stripe_webhook and sync_from_webhook_event. *)

EventOf(s) == events[req[s].event]

(* The event has no receipt yet; one that has is answered at once, with 2xx.   *)
Receive(h, e) ==
    /\ req[h].at = "idle"
    /\ e \notin receipts
    /\ req' = [req EXCEPT ![h] = [NoReq EXCEPT !.at = "received", !.event = e,
                                              !.op = events[e].type]]
    /\ UNCHANGED <<sub, receipts, current, provider, events, applied, halved, strayed,
                   adminOps>>

(* Which row the event is about: the organization's, or the one attached to    *)
(* the event's subscription.                                                   *)
Resolves(h) == req[h].op = "checkout_completed" \/ EventOf(h).ref = sub.ref

LoadForEvent(h) ==
    /\ req[h].at = "received"
    /\ Resolves(h)
    /\ req' = [req EXCEPT ![h].at = "loaded", ![h].loaded = sub]
    /\ current' = current \cup {h}
    /\ UNCHANGED <<sub, receipts, provider, events, applied, halved, strayed, adminOps>>

(* LookupError: 400, rolled back, the provider will try again. *)
Unresolved(h) ==
    /\ req[h].at = "received"
    /\ ~Resolves(h)
    /\ GiveUp(h)
    /\ UNCHANGED <<sub, receipts, provider, events, applied, halved, strayed, adminOps>>

(* mark_past_due finds nothing to do: 200, without a commit or a receipt.      *)
NothingToDo(h) == req[h].op = "payment_failed" /\ req[h].loaded.status = "past_due"
Ignore(h) ==
    /\ req[h].at = "loaded"
    /\ NothingToDo(h)
    /\ GiveUp(h)
    /\ UNCHANGED <<sub, receipts, provider, events, applied, halved, strayed, adminOps>>

(* Mutant: the status is named for the event. *)
StatusOfEvent(h) == [req[h].loaded EXCEPT !.status = req[h].op]

(* What the first commit of each type of event changes. *)
FirstChange(h) ==
    LET r == req[h].loaded
    IN  CASE req[h].op = "checkout_completed"    -> [r EXCEPT !.ref = EventOf(h).ref]
          [] req[h].op = "subscription_updated"  -> [r EXCEPT !.atPeriodEnd = EventOf(h).flag]
          [] req[h].op = "subscription_canceled" -> Canceled(r)
          [] req[h].op = "payment_failed"        -> [r EXCEPT !.status = "past_due"]

(* Mutant: no unique index on the receipts. *)
AnyReceipt(h) == TRUE

(* UNIQUE(provider_name, event_id). *)
ReceiptIsNew(h) == req[h].event \notin receipts

(* The event's last commit is made. *)
Applied(h) == applied' = [applied EXCEPT ![req[h].event] = @ + 1]

(* The first commit, of the receipt and the change together: all of the change *)
(* but for a checkout, which has three more commits to make.                   *)
ApplyEvent(h) ==
    /\ req[h].at = "loaded"
    /\ ~NothingToDo(h) /\ ReceiptIsNew(h)
    /\ Save(h, FirstChange(h))
    /\ receipts' = receipts \cup {req[h].event}
    /\ IF req[h].op = "checkout_completed"
       THEN Proceed(h, FirstChange(h), "attached") /\ UNCHANGED applied
       ELSE Finish(h, FirstChange(h)) /\ Applied(h)
    /\ UNCHANGED <<provider, events, halved, strayed, adminOps>>

(* IntegrityError: the other process has committed the same event meanwhile.   *)
DuplicateReceipt(h) ==
    /\ req[h].at = "loaded"
    /\ ~NothingToDo(h) /\ ~ReceiptIsNew(h)
    /\ GiveUp(h)
    /\ UNCHANGED <<sub, receipts, provider, events, applied, halved, strayed, adminOps>>

(* Between a checkout's commits _commit reads the row again, in a transaction  *)
(* of its own: a commit of another session that came in between is adopted,    *)
(* version and all, and no conflict will tell.  change_plan, next, writes the  *)
(* event's plan over whatever that commit left.                                *)
Committed == {"attached", "planned", "timed"}
Reread(h) ==
    /\ req[h].at \in Committed
    /\ req' = [req EXCEPT ![h].at = CASE @ = "attached" -> "plan"
                                      [] @ = "planned"  -> "period"
                                      [] @ = "timed"    -> "activate",
                          ![h].loaded = sub]
    /\ current' = current \cup {h}
    /\ strayed' = (strayed \/ (req[h].at = "attached" /\ h \notin current))
    /\ UNCHANGED <<sub, receipts, provider, events, applied, halved, adminOps>>

(* The checkout's further commits: change_plan, change_billing_period (of the  *)
(* columns kept here it changes none) and activate_subscription.               *)
Further == {"plan", "period", "activate"}
FurtherChange(h) ==
    LET r == req[h].loaded
    IN  CASE req[h].at = "plan"     -> [r EXCEPT !.plan = EventOf(h).plan]
          [] req[h].at = "period"   -> r
          [] req[h].at = "activate" -> [r EXCEPT !.status = "active"]

(* The period is as it should be: no commit, and the row is not read again.    *)
KeepPeriod(h) ==
    /\ req[h].at = "period"
    /\ req' = [req EXCEPT ![h].at = "activate"]
    /\ UNCHANGED <<sub, receipts, current, provider, events, applied, halved, strayed,
                   adminOps>>

ContinueCheckout(h) ==
    /\ req[h].at \in Further
    /\ Save(h, FurtherChange(h))
    /\ \/ req[h].at = "plan" /\ Proceed(h, FurtherChange(h), "planned") /\ UNCHANGED applied
       \/ req[h].at = "period" /\ Proceed(h, FurtherChange(h), "timed") /\ UNCHANGED applied
       \/ req[h].at = "activate" /\ Finish(h, FurtherChange(h)) /\ Applied(h)
    /\ UNCHANGED <<receipts, provider, events, halved, strayed, adminOps>>

-----------------------------------------------------------------------------
(* The administrators: update_organization_plan or change_platform_            *)
(* subscription_plan, cancel_platform_subscription, reactivate_platform_       *)
(* subscription, on the version of the row the page showed.                    *)

AdminLoad(a, op, p) ==
    /\ req[a].at = "idle"
    /\ adminOps < MaxAdminOps
    /\ adminOps' = adminOps + 1
    /\ IF op = "change_plan" THEN p # sub.plan ELSE p = Free
    /\ op = "reactivate" => sub.atPeriodEnd \/ sub.status = "canceled"
    /\ req' = [req EXCEPT ![a] = [NoReq EXCEPT !.at = "asked", !.op = op, !.plan = p,
                                              !.loaded = sub]]
    /\ current' = current \cup {a}
    /\ UNCHANGED <<sub, receipts, provider, events, applied, halved, strayed>>

(* The Idempotency-Key: of the operation, the subscription and the price.      *)
Key(a) == <<req[a].op, req[a].plan>>

Ref(a) == req[a].loaded.ref
Pushed(a) == req' = [req EXCEPT ![a].at = "pushed"]

(* Nothing is pushed for a subscription no provider is attached to. *)
NoPush(a) ==
    /\ req[a].at = "asked" /\ Ref(a) = 0
    /\ Pushed(a)
    /\ UNCHANGED <<sub, receipts, current, provider, events, applied, halved, strayed,
                   adminOps>>

(* The provider carries the operation out ...                                  *)
CarriedOut(a) ==
    [provider[Ref(a)] EXCEPT !.keys = @ \cup {Key(a)},
                             !.live = @ /\ req[a].op # "cancel",
                             !.plan = IF req[a].op = "change_plan" THEN req[a].plan ELSE @]

Push(a) ==
    /\ req[a].at = "asked" /\ Ref(a) # 0
    /\ provider[Ref(a)].live /\ Key(a) \notin provider[Ref(a)].keys
    /\ provider' = [provider EXCEPT ![Ref(a)] = CarriedOut(a)]
    /\ Pushed(a)
    /\ UNCHANGED <<sub, receipts, current, events, applied, halved, strayed, adminOps>>

(* ... or has seen the key before, and repeats its answer without acting ...   *)
PushReplayed(a) ==
    /\ req[a].at = "asked" /\ Ref(a) # 0
    /\ Key(a) \in provider[Ref(a)].keys
    /\ strayed' = (strayed \/ req[a].op = "change_plan")
    /\ Pushed(a)
    /\ UNCHANGED <<sub, receipts, current, provider, events, applied, halved, adminOps>>

(* ... or refuses it: the subscription has ended there, or the call fails.     *)
PushFails(a) ==
    /\ req[a].at = "asked" /\ Ref(a) # 0
    /\ Key(a) \notin provider[Ref(a)].keys
    /\ GiveUp(a)
    /\ UNCHANGED <<sub, receipts, provider, events, applied, halved, strayed, adminOps>>

(* What the operation changes locally. *)
AdminChange(a) ==
    LET r == req[a].loaded
    IN  CASE req[a].op = "change_plan" -> [r EXCEPT !.plan = req[a].plan]
          [] req[a].op = "cancel"      -> Canceled(r)
          [] req[a].op = "reactivate"  -> Reactivated(r)

AdminCommit(a) ==
    /\ req[a].at = "pushed"
    /\ Save(a, AdminChange(a))
    /\ Finish(a, AdminChange(a))
    /\ UNCHANGED <<receipts, provider, events, applied, halved, strayed, adminOps>>

-----------------------------------------------------------------------------
(* What goes wrong. *)

Change(s) ==
    CASE req[s].at = "loaded" -> FirstChange(s)
      [] req[s].at \in Further -> FurtherChange(s)
      [] req[s].at = "pushed" -> AdminChange(s)

(* The handler of a checkout is past its first commit, which recorded the      *)
(* event, and not past its last.                                               *)
Continuing(s) == req[s].at \in Committed \cup Further

(* A session that stops here leaves half of its work done: the checkout is     *)
(* recorded and not applied, the provider has been told and the row has not.   *)
HalfDone(s) == Continuing(s) \/ (req[s].at = "pushed" /\ Ref(s) # 0)
Stop(s) ==
    /\ GiveUp(s)
    /\ strayed' = (strayed \/ HalfDone(s))
    /\ halved' = IF Continuing(s) THEN halved \cup {req[s].event} ELSE halved
    /\ UNCHANGED <<sub, receipts, provider, events, applied, adminOps>>

(* SubscriptionConflictError: 409; a webhook is not acknowledged.              *)
Conflict(s) ==
    /\ req[s].at \in {"loaded", "pushed"} \cup Further
    /\ req[s].at = "loaded" => ~NothingToDo(s)
    /\ Writes(s, Change(s)) /\ ~SameVersion(s)
    /\ Stop(s)

Crash(s) ==
    /\ req[s].at # "idle"
    /\ Stop(s)

-----------------------------------------------------------------------------
Provider ==
    \/ \E p \in Plans : Checkout(p)
    \/ \E n \in DOMAIN provider :
          \E t \in EventTypes, f, renewed \in BOOLEAN : Notify(n, t, f, renewed)

Webhook(h) ==
    \/ \E e \in DOMAIN events : Receive(h, e)
    \/ LoadForEvent(h) \/ Unresolved(h) \/ Ignore(h)
    \/ ApplyEvent(h) \/ DuplicateReceipt(h)
    \/ Reread(h) \/ KeepPeriod(h) \/ ContinueCheckout(h)

Administer(a) ==
    \/ \E op \in Ops, p \in Plans : AdminLoad(a, op, p)
    \/ NoPush(a) \/ Push(a) \/ PushReplayed(a) \/ PushFails(a) \/ AdminCommit(a)

Next ==
    \/ Provider
    \/ \E h \in Handlers : Webhook(h)
    \/ \E a \in Admins : Administer(a)
    \/ \E s \in Sessions : Conflict(s) \/ Crash(s)

Spec == Init /\ [][Next]_vars

-----------------------------------------------------------------------------
(* Correctness. *)

Tasks == [at : {"idle", "received", "loaded", "asked", "pushed"}
               \cup Committed \cup Further,
          event : {0} \cup Events, op : {"none"} \cup EventTypes \cup Ops,
          plan : Plans, loaded : Subscriptions]
Contracts == [plan : Plans, live : BOOLEAN, keys : SUBSET (Ops \X Plans)]
Messages == [type : EventTypes, ref : Refs, plan : Plans, flag : BOOLEAN, renewed : BOOLEAN]

(* Every variable keeps its type. *)
TypeOK ==
    /\ sub \in Subscriptions
    /\ receipts \subseteq Events
    /\ current \subseteq Sessions
    /\ req \in [Sessions -> Tasks]
    /\ provider \in Seq(Contracts) /\ Len(provider) <= MaxRefs
    /\ events \in Seq(Messages) /\ Len(events) <= MaxEvents
    /\ applied \in [Events -> Nat]
    /\ halved \subseteq Events
    /\ strayed \in BOOLEAN
    /\ adminOps \in Nat

(* A canceled subscription says since when (validate_subscription), whatever   *)
(* cancellations and reactivations cross: no update of the row is lost, nor    *)
(* half of one.                                                                *)
CanceledHasDate == sub.status = "canceled" => sub.canceledAt

(* h has made the first of the commits for event e, and has not made the last. *)
Goes(h, e) == Continuing(h) /\ req[h].event = e

(* An event has a receipt if and only if its change was committed whole, or    *)
(* a handler has made the first of a checkout's commits and goes on, or has    *)
(* stopped half-way.                                                           *)
ReceiptIsTrue(e) ==
    /\ e \in receipts <=>
          applied[e] > 0 \/ e \in halved \/ \E h \in Handlers : Goes(h, e)
    /\ applied[e] <= 1
    /\ applied[e] > 0 => e \notin halved /\ \A h \in Handlers : ~Goes(h, e)
    /\ e \in halved => events[e].type = "checkout_completed"
                       /\ \A h \in Handlers : ~Goes(h, e)
    /\ \A g, h \in Handlers : Goes(g, e) /\ Goes(h, e) => g = h

(* However often an event is delivered, and to however many processes: its     *)
(* receipt says that it was applied, is being applied or was cut short, and    *)
(* it is exactly one of these, once.  Nothing but a checkout is ever recorded  *)
(* and not applied.                                                            *)
ReceiptsAreTrue == \A e \in Events : ReceiptIsTrue(e)

Quiet == \A s \in Sessions : req[s].at = "idle"

(* The organization is entitled to what the provider bills it for: when        *)
(* nothing is under way, the row's plan is that of the subscription it is      *)
(* attached to, whatever plan changes and checkouts crossed.  Three causes are *)
(* known to leave them different (strayed): a request cut short after half of  *)
(* its work, a repeated key the provider answered without acting, and another  *)
(* session's commit that a checkout adopted before it wrote its plan.          *)
PlanInSync ==
    Quiet /\ ~strayed /\ sub.ref # 0
        => sub.plan = provider[sub.ref].plan
=============================================================================
