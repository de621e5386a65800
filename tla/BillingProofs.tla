---------------------------- MODULE BillingProofs ----------------------------
(***************************************************************************)
(* What Billing.tla promises, for any number of processes, administrators, *)
(* plans, subscriptions and events.  A session whose version is current    *)
(* holds the row itself (Fresh), so nothing it writes is lost; and the     *)
(* plan is either the provider's already or somebody who is still under    *)
(* way owes the row that plan (PlanOwed): the administrator who pushed     *)
(* last, or the checkout that has attached the subscription.               *)
(***************************************************************************)
EXTENDS Billing, SequenceTheorems, TLAPS

(* A session with the current version holds the row as it is. *)
Fresh == \A s \in current : req[s].loaded = sub

(* A checkout nobody has processed yet: who could not know its subscription? *)
Unprocessed(e) == events[e].type = "checkout_completed" /\ e \notin receipts

(* Where each kind of session can be, and what it knows there. *)
Place(s) ==
    /\ s \in Handlers => req[s].at \in {"idle", "received", "loaded"} \/ Continuing(s)
    /\ s \in Admins => req[s].at \in {"idle", "asked", "pushed"}
    /\ req[s].at \in {"idle", "received"} => s \notin current
    /\ s \in Handlers /\ req[s].at # "idle" =>
          req[s].event \in DOMAIN events /\ req[s].op = EventOf(s).type
    /\ s \in Admins /\ req[s].at # "idle" => req[s].op \in Ops
    /\ Continuing(s) => req[s].op = "checkout_completed"
    /\ req[s].at = "attached" => req[s].loaded.ref = EventOf(s).ref
    /\ req[s].at \in {"asked", "pushed"} /\ req[s].op = "change_plan" =>
          req[s].plan # req[s].loaded.plan

(* A row, as stored or as some session holds it, names a subscription that     *)
(* exists and whose checkout was processed.                                    *)
Known(row) ==
    /\ row.ref <= Len(provider)
    /\ \A e \in DOMAIN events : Unprocessed(e) => events[e].ref # row.ref

(* Events are about subscriptions that exist; each checkout about its own, on  *)
(* whose plan nobody has touched before it is processed.                       *)
Chronicle ==
    \A e \in DOMAIN events :
        /\ events[e].ref \in 1..Len(provider)
        /\ Unprocessed(e) => provider[events[e].ref].plan = events[e].plan
        /\ events[e].type = "checkout_completed" =>
              \A d \in DOMAIN events :
                  events[d].type = "checkout_completed" /\ events[d].ref = events[e].ref => d = e

(* An administrator has pushed a plan and not committed it yet ...             *)
Pushing(a) == req[a].at = "pushed" /\ req[a].op = "change_plan"
(* ... and it is the plan the provider has for subscription n.                 *)
LastPush(n) == \E a \in Admins : Pushing(a) /\ Ref(a) = n /\ req[a].plan = provider[n].plan

(* What it pushes, if anything, no provider hears of.                          *)
Unheard(a) == Pushing(a) => Ref(a) = 0

(* A checkout is about to change the plan of the row it attached. *)
Attaching(h) == req[h].at \in {"attached", "plan"} /\ EventOf(h).plan # req[h].loaded.plan

Settled ==
    /\ sub.plan = provider[sub.ref].plan
    /\ \A a \in Admins : Pushing(a) => a \notin current

PlanOwed ==
    /\ sub.ref # 0 => \/ Settled \/ LastPush(sub.ref)
                      \/ \E h \in Handlers : Attaching(h) /\ EventOf(h).ref = sub.ref
    /\ \A h \in Handlers \cap current : Attaching(h) =>
          LET n == EventOf(h).ref
          IN  provider[n].plan = EventOf(h).plan \/ LastPush(n)
    /\ \A a \in Admins \cap current : Pushing(a) /\ Ref(a) # 0 => LastPush(Ref(a))
    /\ \A h \in Handlers : req[h].at = "plan" => req[h].loaded.ref = EventOf(h).ref

IInv ==
    /\ TypeOK
    /\ Fresh
    /\ \A s \in Sessions : Place(s) /\ Known(req[s].loaded)
    /\ Known(sub) /\ Chronicle
    /\ receipts \subseteq DOMAIN events /\ ReceiptsAreTrue /\ CanceledHasDate
    /\ ~strayed => PlanOwed

-----------------------------------------------------------------------------
(* The types. *)

LEMMA Literals ==
    /\ NewSub \in Subscriptions /\ NewSub.ref = 0
    /\ NoReq \in Tasks /\ NoReq.at = "idle" /\ NoReq.loaded = NewSub
    /\ \A s \in Sessions : s \in Handlers <=> s \notin Admins
BY BillingConstants
DEF NewSub, NoReq, Subscriptions, Tasks, Refs, Sessions, Events, EventTypes, Ops

(* A session under way has its event, or its operation. *)
LEMMA EventsTyped ==
    ASSUME IInv
    PROVE  /\ \A e \in DOMAIN events : e \in Events /\ events[e] \in Messages
           /\ \A n \in 1..Len(provider) : provider[n] \in Contracts /\ n \in Refs
           /\ DOMAIN events = 1..Len(events) /\ DOMAIN provider = 1..Len(provider)
           /\ Len(events) \in Nat /\ Len(provider) \in Nat
<1>1. events \in Seq(Messages) /\ provider \in Seq(Contracts)
      /\ Len(events) <= MaxEvents /\ Len(provider) <= MaxRefs
    BY DEF IInv, TypeOK
<1> QED BY <1>1, BillingConstants, ElementOfSeq, LenProperties DEF Events, Refs

(* What a commit changes: rows again, their plan and subscription as expected. *)
Dated(row) == row.status = "canceled" => row.canceledAt

LEMMA FirstChangeTyped ==
    ASSUME IInv, NEW h \in Handlers, req[h].at # "idle"
    PROVE  /\ FirstChange(h) \in Subscriptions
           /\ FirstChange(h).plan = req[h].loaded.plan
           /\ FirstChange(h).ref = IF req[h].op = "checkout_completed"
                                   THEN EventOf(h).ref ELSE req[h].loaded.ref
           /\ Dated(req[h].loaded) => Dated(FirstChange(h))
<1>1. /\ req[h].loaded \in Subscriptions /\ EventOf(h) \in Messages
      /\ req[h].op \in EventTypes
    BY EventsTyped DEF IInv, Place, TypeOK, Tasks, Sessions, EventOf, Messages
<1>2. CASE req[h].op = "checkout_completed"
    BY <1>1, <1>2 DEF FirstChange, Subscriptions, Messages, Dated
<1>3. CASE req[h].op = "subscription_updated"
    BY <1>1, <1>3 DEF FirstChange, Subscriptions, Messages, Dated
<1>4. CASE req[h].op = "subscription_canceled"
    BY <1>1, <1>4 DEF FirstChange, Canceled, Subscriptions, Dated
<1>5. CASE req[h].op = "payment_failed"
    BY <1>1, <1>5 DEF FirstChange, Subscriptions, Dated
<1> QED BY <1>1, <1>2, <1>3, <1>4, <1>5 DEF EventTypes

LEMMA FurtherChangeTyped ==
    ASSUME IInv, NEW h \in Handlers, req[h].at \in Further
    PROVE  /\ FurtherChange(h) \in Subscriptions
           /\ FurtherChange(h).ref = req[h].loaded.ref
           /\ FurtherChange(h).plan = IF req[h].at = "plan"
                                      THEN EventOf(h).plan ELSE req[h].loaded.plan
           /\ Dated(req[h].loaded) => Dated(FurtherChange(h))
<1>1. /\ req[h].loaded \in Subscriptions /\ EventOf(h) \in Messages
    BY EventsTyped
    DEF IInv, Place, TypeOK, Tasks, Sessions, EventOf, Continuing, Committed, Further
<1>2. CASE req[h].at = "plan"
    BY <1>1, <1>2 DEF FurtherChange, Subscriptions, Messages, Dated
<1>3. CASE req[h].at = "period"
    BY <1>1, <1>3 DEF FurtherChange
<1>4. CASE req[h].at = "activate"
    BY <1>1, <1>4 DEF FurtherChange, Subscriptions, Dated
<1> QED BY <1>2, <1>3, <1>4 DEF Further

LEMMA AdminChangeTyped ==
    ASSUME IInv, NEW a \in Admins, req[a].at # "idle"
    PROVE  /\ AdminChange(a) \in Subscriptions
           /\ AdminChange(a).ref = req[a].loaded.ref
           /\ AdminChange(a).plan = IF req[a].op = "change_plan"
                                    THEN req[a].plan ELSE req[a].loaded.plan
           /\ Dated(req[a].loaded) => Dated(AdminChange(a))
<1>1. req[a].loaded \in Subscriptions /\ req[a].op \in Ops /\ req[a].plan \in Plans
    BY DEF IInv, Place, TypeOK, Tasks, Sessions
<1>2. CASE req[a].op = "change_plan"
    BY <1>1, <1>2 DEF AdminChange, Subscriptions, Dated
<1>3. CASE req[a].op = "cancel"
    BY <1>1, <1>3 DEF AdminChange, Canceled, Subscriptions, Dated
<1>4. CASE req[a].op = "reactivate"
    BY <1>1, <1>4 DEF AdminChange, Reactivated, Subscriptions, Dated
<1> QED BY <1>1, <1>2, <1>3, <1>4 DEF Ops

(* A save writes the whole new row over the row it was made from, or nothing.  *)
LEMMA SaveWritesAll ==
    ASSUME TypeOK, Fresh, NEW s \in Sessions, NEW new \in Subscriptions, Save(s, new)
    PROVE  /\ sub' \in Subscriptions
           /\ \/ Writes(s, new) /\ s \in current /\ req[s].loaded = sub /\ sub' = new
              \/ ~Writes(s, new) /\ req[s].loaded = new /\ sub' = sub
<1>1. /\ sub \in Subscriptions
      /\ sub' = [f \in DOMAIN sub |->
                   IF new[f] # req[s].loaded[f] \/ (f = "canceledAt" /\ Stamps(s))
                   THEN new[f] ELSE sub[f]]
    BY DEF TypeOK, Save
<1>2. CASE Writes(s, new)
  <2>1. s \in current /\ req[s].loaded = sub BY <1>2 DEF Save, SameVersion, Fresh
  <2>2. \A f \in DOMAIN sub : sub'[f] = new[f] BY <1>1, <2>1
  <2>3. DOMAIN sub' = DOMAIN sub /\ DOMAIN new = DOMAIN sub BY <1>1 DEF Subscriptions
  <2>4. sub' = [f \in DOMAIN sub |-> new[f]] BY <1>1, <2>1
  <2>5. new = [f \in DOMAIN new |-> new[f]] BY DEF Subscriptions
  <2>6. sub' = new BY <2>3, <2>4, <2>5
  <2> QED BY <1>2, <2>1, <2>6
<1>3. CASE ~Writes(s, new)
  <2>1. new = req[s].loaded /\ ~Stamps(s) BY <1>3 DEF Writes
  <2>2. sub' = [f \in DOMAIN sub |-> sub[f]] BY <1>1, <2>1
  <2>3. sub = [f \in DOMAIN sub |-> sub[f]] BY <1>1 DEF Subscriptions
  <2> QED BY <1>1, <1>3, <2>1, <2>2, <2>3
<1> QED BY <1>2, <1>3

-----------------------------------------------------------------------------
(* Steps of one session that touch neither the row nor the provider: loading,  *)
(* giving up (a receipt already there, a conflict, a crash), a push that does  *)
(* nothing.                                                                    *)

Alone(s) == \A o \in Sessions \ {s} : req'[o] = req[o]

(* A step that neither makes nor ends a checkout's commits records nothing.    *)
LEMMA ReceiptsKept ==
    ASSUME ReceiptsAreTrue, NEW s \in Sessions, Alone(s),
           UNCHANGED <<receipts, applied, halved>>,
           \A e \in halved : events'[e].type = events[e].type,
           Continuing(s)' <=> Continuing(s),
           Continuing(s) => req'[s].event = req[s].event
    PROVE  ReceiptsAreTrue'
<1>1. \A h \in Handlers : \A e : Goes(h, e)' <=> Goes(h, e)
  <2>1. ASSUME NEW h \in Handlers, NEW e, h # s PROVE Goes(h, e)' <=> Goes(h, e)
      BY <2>1 DEF Goes, Continuing, Alone, Sessions
  <2> QED BY <2>1 DEF Goes
<1> QED BY <1>1 DEF ReceiptsAreTrue, ReceiptIsTrue

(* A step about one event leaves what is recorded of the others.               *)
LEMMA OneRecorded ==
    ASSUME ReceiptsAreTrue, NEW e \in Events, ReceiptIsTrue(e)', UNCHANGED events,
           \A d \in Events \ {e} :
               /\ d \in receipts' <=> d \in receipts
               /\ d \in halved' <=> d \in halved
               /\ applied'[d] = applied[d]
               /\ \A h \in Handlers : Goes(h, d)' <=> Goes(h, d)
    PROVE  ReceiptsAreTrue'
<1>1. ASSUME NEW d \in Events \ {e} PROVE ReceiptIsTrue(d)'
    BY <1>1 DEF ReceiptsAreTrue, ReceiptIsTrue
<1> QED BY <1>1 DEF ReceiptsAreTrue

(* Who owes the row its plan is not concerned by a session that does not.      *)
LEMMA OwedKept ==
    ASSUME IInv, ~strayed, NEW s \in Sessions, Alone(s), current' \subseteq current \cup {s},
           sub'.plan = sub.plan, sub'.ref = sub.ref, UNCHANGED <<provider, events>>,
           Unheard(s), ~Attaching(s), ~Attaching(s)', Unheard(s)',
           s \in current' => Ref(s)' = sub'.ref,
           s \in Handlers /\ req'[s].at = "plan" => Ref(s)' = EventOf(s)'.ref
    PROVE  PlanOwed'
<1> USE DEF IInv
<1>1. /\ PlanOwed /\ (Pushing(s) => Ref(s) = 0) /\ (Pushing(s)' => Ref(s)' = 0)
    BY DEF Unheard
<1>2. \A o \in Sessions \ {s} :
          /\ Pushing(o)' = Pushing(o) /\ Ref(o)' = Ref(o) /\ Attaching(o)' = Attaching(o)
          /\ EventOf(o)' = EventOf(o) /\ req'[o].plan = req[o].plan
          /\ req'[o].at = req[o].at
          /\ o \in current' => o \in current
    BY DEF Alone, Pushing, Ref, Attaching, EventOf
<1>3. \A n : n # 0 /\ LastPush(n) => LastPush(n)'
  <2>1. ASSUME NEW n, n # 0, LastPush(n) PROVE LastPush(n)'
    <3>1. PICK a \in Admins : Pushing(a) /\ Ref(a) = n /\ req[a].plan = provider[n].plan
        BY <2>1 DEF LastPush
    <3>2. a \in Sessions \ {s} BY <1>1, <2>1, <3>1 DEF Sessions, Pushing, Ref
    <3> QED BY <1>2, <3>1, <3>2 DEF LastPush
  <2> QED BY <2>1
<1>4. ASSUME sub'.ref # 0, Settled PROVE Settled'
  <2>1. ASSUME NEW a \in Admins, Pushing(a)', a \in current' PROVE FALSE
    <3>1. CASE a = s
      <4>1. sub.ref = 0 BY <1>1, <2>1, <3>1 DEF Ref
      <4> QED BY <1>4, <4>1
    <3>2. CASE a # s BY <1>2, <1>4, <2>1, <3>2 DEF Settled, Sessions
    <3> QED BY <3>1, <3>2
  <2> QED BY <1>4, <2>1 DEF Settled
<1>5. ASSUME NEW h \in Handlers, Attaching(h), EventOf(h).ref = sub.ref
      PROVE  Attaching(h)' /\ EventOf(h)'.ref = sub'.ref
    BY <1>1, <1>2, <1>5 DEF Sessions
<1>6. ASSUME NEW h \in Handlers, h \in current', Attaching(h)'
      PROVE  Attaching(h) /\ h \in current /\ EventOf(h)' = EventOf(h)
    BY <1>1, <1>2, <1>6 DEF Sessions
<1>7. \A h \in Handlers : Attaching(h) => EventOf(h).ref # 0
    BY DEF Attaching, Place, Chronicle, EventOf, Sessions
<1>8. ASSUME NEW h \in Handlers, req'[h].at = "plan"
      PROVE  req'[h].loaded.ref = EventOf(h)'.ref
    BY <1>1, <1>2, <1>8 DEF PlanOwed, Ref, Sessions
<1>9. ASSUME NEW a \in Admins, a \in current', Pushing(a)', Ref(a)' # 0
      PROVE  Pushing(a) /\ a \in current /\ Ref(a)' = Ref(a)
    BY <1>1, <1>2, <1>9 DEF Sessions
<1> QED BY <1>1, <1>3, <1>4, <1>5, <1>6, <1>7, <1>9, <1>8 DEF PlanOwed

LEMMA LocalFrame ==
    ASSUME IInv, NEW s \in Sessions,
           req' \in [Sessions -> Tasks], Alone(s), current' \subseteq current \cup {s},
           s \in current' => req'[s].loaded = sub,
           UNCHANGED <<sub, receipts, provider, events, applied>>,
           halved' \subseteq Events, ReceiptsAreTrue',
           strayed' \in BOOLEAN, strayed => strayed', adminOps' \in Nat,
           Place(s)', req'[s].loaded \in {sub, NewSub, req[s].loaded},
           ~strayed' => PlanOwed'
    PROVE  IInv'
<1> USE DEF IInv
<1>1. TypeOK' BY DEF TypeOK
<1>2. Fresh' BY DEF Fresh, Alone, TypeOK
<1>3. \A row \in Subscriptions : Known(row) => Known(row)'
    BY DEF Known, Unprocessed
<1>4. Known(NewSub)
    BY Literals, EventsTyped DEF Known, Chronicle
<1>5. \A o \in Sessions : Place(o)' /\ Known(req[o].loaded)'
  <2>1. ASSUME NEW o \in Sessions \ {s} PROVE Place(o)' /\ Known(req[o].loaded)'
    <3>1. req'[o] = req[o] /\ req[o].loaded \in Subscriptions
        BY DEF Alone, TypeOK, Tasks
    <3> QED BY <1>3, <3>1 DEF Place, EventOf, Continuing
  <2>2. Known(req[s].loaded)'
    <3>1. sub \in Subscriptions /\ req[s].loaded \in Subscriptions BY DEF TypeOK, Tasks
    <3> QED BY <1>3, <1>4, <3>1, Literals
  <2> QED BY <2>1, <2>2
<1>6. Known(sub)' /\ Chronicle' /\ CanceledHasDate' /\ receipts' \subseteq DOMAIN events'
    BY DEF Known, Unprocessed, Chronicle, CanceledHasDate
<1> QED BY <1>1, <1>2, <1>5, <1>6

LEMMA LocalStep ==
    ASSUME IInv, NEW s \in Sessions,
           req' \in [Sessions -> Tasks], Alone(s), current' \subseteq current \cup {s},
           s \in current' => req'[s].loaded = sub,
           UNCHANGED <<sub, receipts, provider, events, applied>>,
           halved' \subseteq Events, ReceiptsAreTrue',
           strayed' \in BOOLEAN, strayed => strayed', adminOps' \in Nat,
           Place(s)', req'[s].loaded \in {sub, NewSub, req[s].loaded},
           strayed' \/ (Unheard(s) /\ ~Attaching(s)),
           ~Attaching(s)', strayed' \/ Unheard(s)',
           s \in Handlers /\ req'[s].at = "plan" => Ref(s)' = EventOf(s)'.ref
    PROVE  IInv'
<1>1. ASSUME ~strayed' PROVE PlanOwed'
  <2>1. ~strayed /\ Unheard(s) /\ ~Attaching(s) /\ ~Attaching(s)' /\ Unheard(s)'
      BY <1>1
  <2>2. s \in current' => Ref(s)' = sub'.ref BY DEF Ref
  <2> QED BY <2>1, <2>2, OwedKept
<1> QED BY <1>1, LocalFrame

LEMMA QuitKeeps ==
    ASSUME IInv, NEW s \in Sessions, GiveUp(s),
           UNCHANGED <<sub, receipts, provider, events, applied, adminOps>>,
           halved' = IF Continuing(s) THEN halved \cup {req[s].event} ELSE halved,
           strayed' \in BOOLEAN, strayed => strayed', strayed' \/ ~HalfDone(s)
    PROVE  IInv'
<1> USE DEF IInv
<1>1. /\ req' = [req EXCEPT ![s] = NoReq] /\ current' = current \ {s} /\ s \notin current'
    BY DEF GiveUp
<1>2. /\ req' \in [Sessions -> Tasks] /\ req'[s] = NoReq /\ Alone(s)
    BY <1>1, Literals DEF TypeOK, Alone
<1>3. /\ Place(s)' /\ ~Attaching(s)' /\ Unheard(s)' /\ ~Continuing(s)'
      /\ req'[s].loaded \in {sub, NewSub, req[s].loaded}
      /\ req'[s].at # "plan"
    BY <1>1, <1>2, Literals
    DEF Place, Attaching, Pushing, Unheard, Continuing, Committed, Further
<1>4. halved' \subseteq Events /\ ReceiptsAreTrue'
  <2>1. CASE ~Continuing(s)
      BY <1>2, <1>3, <2>1, ReceiptsKept DEF TypeOK
  <2>2. CASE Continuing(s)
    <3>1. PICK e : e = req[s].event OBVIOUS
    <3>2. /\ s \in Handlers /\ Goes(s, e) /\ halved' = halved \cup {e}
          /\ e \in Events /\ events[e].type = "checkout_completed"
        BY <2>2, <3>1, EventsTyped
        DEF Place, Sessions, Goes, EventOf, Continuing, Committed, Further
    <3>3. \A g \in Handlers : \A d : Goes(g, d)' <=> Goes(g, d) /\ g # s
        BY <1>2, <1>3 DEF Goes, Continuing, Alone, Sessions
    <3>4. /\ e \in receipts /\ applied[e] = 0 /\ e \notin halved
          /\ \A g \in Handlers : Goes(g, e) => g = s
        BY <3>2 DEF ReceiptsAreTrue, ReceiptIsTrue, TypeOK
    <3>5. halved' \subseteq Events BY <3>2 DEF TypeOK
    <3>6. ASSUME NEW d \in Events \ {e} PROVE
              /\ d \in halved' <=> d \in halved
              /\ \A g \in Handlers : Goes(g, d)' <=> Goes(g, d)
        BY <3>2, <3>3 DEF Goes
    <3>7. ReceiptIsTrue(e)' BY <3>2, <3>3, <3>4 DEF ReceiptIsTrue
    <3> QED BY <3>2, <3>5, <3>6, <3>7, OneRecorded
  <2> QED BY <2>1, <2>2
<1>5. strayed' \/ (Unheard(s) /\ ~Attaching(s))
    BY DEF HalfDone, Attaching, Continuing, Committed, Further, Pushing, Unheard
<1> QED BY <1>1, <1>2, <1>3, <1>4, <1>5, LocalStep DEF TypeOK

LEMMA ReceiveKeeps ==
    ASSUME IInv, NEW h \in Handlers, NEW e \in DOMAIN events, Receive(h, e)
    PROVE  IInv'
<1> USE DEF IInv
<1> DEFINE new == [NoReq EXCEPT !.at = "received", !.event = e, !.op = events[e].type]
<1>1. /\ h \in Sessions /\ req[h].at = "idle" /\ req' = [req EXCEPT ![h] = new]
      /\ UNCHANGED <<sub, receipts, current, provider, events, applied, halved, strayed, adminOps>>
    BY DEF Receive, Sessions
<1>2. new \in Tasks /\ new.at = "received" /\ new.event = e /\ new.op = events[e].type
      /\ new.loaded = NewSub
    BY EventsTyped, Literals DEF Tasks, Messages
<1>3. req' \in [Sessions -> Tasks] /\ req'[h] = new /\ Alone(h)
    BY <1>1, <1>2 DEF TypeOK, Alone
<1> HIDE DEF new
<1>4. Place(h)' BY <1>1, <1>2, <1>3, Literals DEF Place, EventOf, Continuing, Committed, Further
<1>5. ~Attaching(h) /\ Unheard(h) /\ ~Attaching(h)' /\ Unheard(h)'
    BY <1>1, <1>2, <1>3 DEF Attaching, Pushing, Unheard
<1>6. h \notin current' BY <1>1 DEF Place
<1>7. ReceiptsAreTrue' /\ req'[h].at # "plan"
    BY <1>1, <1>2, <1>3, ReceiptsKept DEF Continuing, Committed, Further
<1> QED BY <1>1, <1>2, <1>3, <1>4, <1>5, <1>6, <1>7, LocalStep DEF TypeOK

LEMMA LoadForEventKeeps ==
    ASSUME IInv, NEW h \in Handlers, LoadForEvent(h)
    PROVE  IInv'
<1> USE DEF IInv
<1> DEFINE new == [req[h] EXCEPT !.at = "loaded", !.loaded = sub]
<1>1. /\ h \in Sessions /\ req[h].at = "received" /\ current' = current \cup {h}
      /\ req' = [req EXCEPT ![h].at = "loaded", ![h].loaded = sub]
      /\ UNCHANGED <<sub, receipts, provider, events, applied, halved, strayed, adminOps>>
    BY DEF LoadForEvent, Sessions
<1>2. /\ new \in Tasks /\ new.at = "loaded" /\ new.event = req[h].event
      /\ new.op = req[h].op /\ new.loaded = sub
    BY <1>1 DEF TypeOK, Tasks
<1>3. req' \in [Sessions -> Tasks] /\ req'[h] = new /\ Alone(h)
    BY <1>1, <1>2 DEF TypeOK, Alone
<1> HIDE DEF new
<1>4. Place(h)' BY <1>1, <1>2, <1>3, Literals DEF Place, EventOf, Continuing, Committed, Further
<1>5. ~Attaching(h) /\ Unheard(h) /\ ~Attaching(h)' /\ Unheard(h)'
    BY <1>1, <1>2, <1>3 DEF Attaching, Pushing, Unheard
<1>6. ReceiptsAreTrue' /\ req'[h].at # "plan"
    BY <1>1, <1>2, <1>3, ReceiptsKept DEF Continuing, Committed, Further
<1> QED BY <1>1, <1>2, <1>3, <1>4, <1>5, <1>6, LocalStep DEF TypeOK

LEMMA KeepPeriodKeeps ==
    ASSUME IInv, NEW h \in Handlers, KeepPeriod(h)
    PROVE  IInv'
<1> USE DEF IInv
<1> DEFINE new == [req[h] EXCEPT !.at = "activate"]
<1>1. /\ h \in Sessions /\ req[h].at = "period" /\ req' = [req EXCEPT ![h] = new]
      /\ UNCHANGED <<sub, receipts, current, provider, events, applied, halved, strayed, adminOps>>
    BY DEF KeepPeriod, Sessions
<1>2. /\ new \in Tasks /\ new.at = "activate" /\ new.event = req[h].event
      /\ new.op = req[h].op /\ new.loaded = req[h].loaded
    BY <1>1 DEF TypeOK, Tasks, Committed, Further
<1>3. req' \in [Sessions -> Tasks] /\ req'[h] = new /\ Alone(h)
    BY <1>1, <1>2 DEF TypeOK, Alone
<1> HIDE DEF new
<1>4. Place(h)' BY <1>1, <1>2, <1>3, Literals DEF Place, EventOf, Continuing, Committed, Further
<1>5. ~Attaching(h) /\ Unheard(h) /\ ~Attaching(h)' /\ Unheard(h)'
    BY <1>1, <1>2, <1>3 DEF Attaching, Pushing, Unheard
<1>6. h \in current' => req'[h].loaded = sub BY <1>1, <1>2, <1>3 DEF Fresh
<1>7. ReceiptsAreTrue' /\ req'[h].at # "plan"
    BY <1>1, <1>2, <1>3, ReceiptsKept DEF Continuing, Committed, Further
<1> QED BY <1>1, <1>2, <1>3, <1>4, <1>5, <1>6, <1>7, LocalStep DEF TypeOK

(* What is read again is the row: a commit that came in between, if any.       *)
LEMMA RereadKeeps ==
    ASSUME IInv, NEW h \in Handlers, Reread(h)
    PROVE  IInv'
<1> USE DEF IInv
<1>0. PICK at \in Further :
          /\ req' = [req EXCEPT ![h].at = at, ![h].loaded = sub]
          /\ at = "plan" <=> req[h].at = "attached"
    BY DEF Reread, Committed, Further
<1> DEFINE new == [req[h] EXCEPT !.at = at, !.loaded = sub]
<1>1. /\ h \in Sessions /\ req[h].at \in Committed /\ current' = current \cup {h}
      /\ req' = [req EXCEPT ![h] = new]
      /\ strayed' = (strayed \/ (req[h].at = "attached" /\ h \notin current))
      /\ UNCHANGED <<sub, receipts, provider, events, applied, halved, adminOps>>
    BY <1>0 DEF Reread, Sessions, TypeOK, Tasks
<1>2. /\ new \in Tasks /\ new.at = at /\ new.event = req[h].event
      /\ new.op = req[h].op /\ new.loaded = sub
    BY <1>0, <1>1 DEF TypeOK, Tasks, Committed, Further
<1>3. req' \in [Sessions -> Tasks] /\ req'[h] = new /\ Alone(h)
    BY <1>1, <1>2 DEF TypeOK, Alone
<1> HIDE DEF new
<1>4. Place(h)' BY <1>0, <1>1, <1>2, <1>3, Literals
                DEF Place, EventOf, Continuing, Committed, Further
<1>5. ReceiptsAreTrue'
    BY <1>0, <1>1, <1>2, <1>3, ReceiptsKept DEF Continuing, Committed, Further
<1>6. Unheard(h) /\ Unheard(h)' /\ EventOf(h)' = EventOf(h)
    BY <1>0, <1>1, <1>2, <1>3 DEF Pushing, Unheard, Committed, Further, EventOf
<1>7. ASSUME ~strayed' PROVE PlanOwed'
  <2>1. ~strayed /\ PlanOwed /\ (req[h].at = "attached" => h \in current) BY <1>1, <1>7
  <2>2. CASE req[h].at = "attached"
    <3>1. /\ current' = current /\ at = "plan"
          /\ req[h].loaded = sub /\ req[h].loaded.ref = EventOf(h).ref
        BY <1>0, <1>1, <2>1, <2>2 DEF Fresh, Place
    <3>2. \A o \in Sessions :
              /\ (Attaching(o)' <=> Attaching(o)) /\ EventOf(o)' = EventOf(o)
              /\ (Pushing(o)' <=> Pushing(o)) /\ Ref(o)' = Ref(o)
              /\ Pushing(o) => req'[o].plan = req[o].plan
      <4>1. \A o \in Sessions \ {h} : req'[o] = req[o] BY <1>3 DEF Alone
      <4>2. /\ (Attaching(h)' <=> Attaching(h)) /\ Ref(h)' = Ref(h)
            /\ ~Pushing(h) /\ ~Pushing(h)'
          BY <1>2, <1>3, <1>6, <2>2, <3>1 DEF Attaching, Ref, Pushing
      <4> QED BY <1>1, <1>6, <4>1, <4>2 DEF Attaching, EventOf, Pushing, Ref
    <3>3. \A n : LastPush(n)' <=> LastPush(n)
        BY <1>1, <3>2 DEF LastPush, Sessions
    <3>4. Settled' <=> Settled BY <1>1, <3>1, <3>2 DEF Settled, Sessions
    <3>5. ASSUME NEW g \in Handlers, req'[g].at = "plan"
          PROVE  req'[g].loaded.ref = EventOf(g)'.ref
      <4>1. CASE g = h BY <1>2, <1>3, <1>6, <3>1, <4>1
      <4>2. CASE g # h
        <5>1. req'[g] = req[g] BY <1>3, <4>2 DEF Alone, Sessions
        <5> QED BY <2>1, <3>2, <3>5, <5>1 DEF PlanOwed, Sessions
      <4> QED BY <4>1, <4>2
    <3> QED BY <1>1, <2>1, <3>1, <3>2, <3>3, <3>4, <3>5 DEF PlanOwed, Sessions
  <2>3. CASE req[h].at # "attached"
    <3>1. ~Attaching(h) /\ ~Attaching(h)' /\ req'[h].at # "plan" /\ Ref(h)' = sub.ref
        BY <1>0, <1>1, <1>2, <1>3, <2>3 DEF Attaching, Committed, Further, Ref
    <3> QED BY <1>1, <1>3, <1>6, <2>1, <3>1, OwedKept
  <2> QED BY <2>2, <2>3
<1> QED BY <1>1, <1>2, <1>3, <1>4, <1>5, <1>7, LocalFrame DEF TypeOK

LEMMA AdminLoadKeeps ==
    ASSUME IInv, NEW a \in Admins, NEW op \in Ops, NEW p \in Plans, AdminLoad(a, op, p)
    PROVE  IInv'
<1> USE DEF IInv
<1> DEFINE new == [NoReq EXCEPT !.at = "asked", !.op = op, !.plan = p, !.loaded = sub]
<1>1. /\ a \in Sessions /\ req[a].at = "idle" /\ req' = [req EXCEPT ![a] = new]
      /\ op = "change_plan" => p # sub.plan
      /\ current' = current \cup {a} /\ adminOps' \in Nat
      /\ UNCHANGED <<sub, receipts, provider, events, applied, halved, strayed>>
    BY DEF AdminLoad, Sessions, TypeOK
<1>2. /\ new \in Tasks /\ new.at = "asked" /\ new.op = op /\ new.plan = p /\ new.loaded = sub
    BY Literals DEF TypeOK, Tasks
<1>3. req' \in [Sessions -> Tasks] /\ req'[a] = new /\ Alone(a)
    BY <1>1, <1>2 DEF TypeOK, Alone
<1> HIDE DEF new
<1>4. Place(a)' BY <1>1, <1>2, <1>3, Literals DEF Place, EventOf, Continuing, Committed, Further
<1>5. ~Attaching(a) /\ Unheard(a) /\ ~Attaching(a)' /\ Unheard(a)'
    BY <1>1, <1>2, <1>3 DEF Attaching, Pushing, Unheard
<1>6. ReceiptsAreTrue' /\ req'[a].at # "plan"
    BY <1>1, <1>2, <1>3, ReceiptsKept DEF Continuing, Committed, Further
<1> QED BY <1>1, <1>2, <1>3, <1>4, <1>5, <1>6, LocalStep DEF TypeOK

(* A push that changes nothing at the provider. *)
LEMMA IdlePushKeeps ==
    ASSUME IInv, NEW a \in Admins, NoPush(a) \/ PushReplayed(a)
    PROVE  IInv'
<1> USE DEF IInv
<1> DEFINE new == [req[a] EXCEPT !.at = "pushed"]
<1>1. /\ a \in Sessions /\ req[a].at = "asked" /\ req' = [req EXCEPT ![a] = new]
      /\ strayed' \in BOOLEAN /\ (strayed => strayed')
      /\ strayed' \/ req[a].op # "change_plan" \/ Ref(a) = 0
      /\ UNCHANGED <<sub, receipts, current, provider, events, applied, halved, adminOps>>
    BY DEF NoPush, PushReplayed, Pushed, Sessions, TypeOK
<1>2. /\ new \in Tasks /\ new.at = "pushed" /\ new.op = req[a].op
      /\ new.plan = req[a].plan /\ new.loaded = req[a].loaded
    BY <1>1 DEF TypeOK, Tasks
<1>3. req' \in [Sessions -> Tasks] /\ req'[a] = new /\ Alone(a)
    BY <1>1, <1>2 DEF TypeOK, Alone
<1> HIDE DEF new
<1>4. Place(a)' BY <1>1, <1>2, <1>3, Literals DEF Place, EventOf, Continuing, Committed, Further
<1>5. ~Attaching(a) /\ Unheard(a) /\ ~Attaching(a)' /\ (strayed' \/ Unheard(a)')
    BY <1>1, <1>2, <1>3 DEF Attaching, Pushing, Unheard, Ref
<1>6. a \in current' => req'[a].loaded = sub BY <1>1, <1>2, <1>3 DEF Fresh
<1>7. ReceiptsAreTrue' /\ req'[a].at # "plan"
    BY <1>1, <1>2, <1>3, ReceiptsKept DEF Continuing, Committed, Further
<1> QED BY <1>1, <1>2, <1>3, <1>4, <1>5, <1>6, <1>7, LocalStep DEF TypeOK

-----------------------------------------------------------------------------
(* The provider's own steps: another event, perhaps another subscription.      *)

LEMMA EventAdded ==
    ASSUME IInv, NEW m \in Messages, events' = Append(events, m), CanEmit,
           provider' \in Seq(Contracts), Len(provider') <= MaxRefs,
           Len(provider) <= Len(provider'),
           \A n \in 1..Len(provider) : provider'[n].plan = provider[n].plan,
           UNCHANGED <<sub, receipts, current, req, applied, halved, strayed, adminOps>>,
           m.ref \in 1..Len(provider'),
           m.type = "checkout_completed" =>
              m.ref > Len(provider) /\ provider'[m.ref].plan = m.plan
    PROVE  IInv'
<1> USE DEF IInv
<1>0. PICK k : k = Len(events) + 1 OBVIOUS
<1>1. /\ events' \in Seq(Messages) /\ Len(events') <= MaxEvents
      /\ DOMAIN events' = 1..k /\ DOMAIN events = 1..Len(events) /\ events'[k] = m
      /\ \A e \in 1..Len(events) : events'[e] = events[e]
      /\ Len(events) \in Nat /\ Len(provider) \in Nat /\ Len(provider') \in Nat
    BY <1>0, EventsTyped, BillingConstants, LenProperties DEF TypeOK, CanEmit
<1>2. TypeOK' /\ Fresh' BY <1>1 DEF TypeOK, Fresh
<1>3. \A e \in DOMAIN events' : e = k \/ e \in DOMAIN events
    BY <1>0, <1>1
<1>4. /\ \A e \in DOMAIN events : (Unprocessed(e)' <=> Unprocessed(e))
      /\ Unprocessed(k)' => m.type = "checkout_completed"
    BY <1>1 DEF Unprocessed
<1>5. \A row \in Subscriptions : Known(row) => Known(row)'
  <2>1. ASSUME NEW row \in Subscriptions, Known(row) PROVE Known(row)'
    <3>1. row.ref \in Nat /\ row.ref <= Len(provider) BY <2>1 DEF Known, Subscriptions, Refs
    <3>2. m.type = "checkout_completed" => m.ref # row.ref BY <1>1, <3>1
    <3> QED BY <1>1, <1>3, <1>4, <2>1, <3>1, <3>2 DEF Known
  <2> QED BY <2>1
<1>6. \A s \in Sessions : s \in Handlers /\ req[s].at # "idle" => EventOf(s)' = EventOf(s)
    BY <1>1 DEF EventOf, Place, Continuing, Committed, Further
<1>7. ASSUME NEW s \in Sessions PROVE Place(s)' /\ Known(req[s].loaded)'
  <2>1. req[s].loaded \in Subscriptions BY DEF TypeOK, Tasks
  <2>2. Place(s) OBVIOUS
  <2>3. s \in Handlers /\ req[s].at # "idle" => req[s].event \in DOMAIN events'
      BY <1>0, <1>1, <2>2 DEF Place
  <2>4. s \in Handlers \/ s \in Admins BY DEF Sessions
  <2>5. Place(s)' BY <1>6, <2>2, <2>4, <2>3 DEF Place, Continuing, Committed, Further
  <2> QED BY <1>5, <2>1, <2>5
<1>8. Known(sub)' BY <1>5 DEF TypeOK
<1>9. Chronicle'
  <2>1. ASSUME NEW e \in DOMAIN events PROVE
            /\ events'[e] = events[e] /\ events[e].ref \in 1..Len(provider)
            /\ Unprocessed(e)' => provider'[events[e].ref].plan = events[e].plan
      BY <1>1, <1>4 DEF Chronicle
  <2>2. ASSUME NEW e \in DOMAIN events', NEW d \in DOMAIN events',
               events'[e].type = "checkout_completed", events'[d].type = "checkout_completed",
               events'[d].ref = events'[e].ref
        PROVE  d = e
      BY <1>1, <1>3, <2>1, <2>2 DEF Chronicle
  <2>3. ASSUME NEW e \in DOMAIN events' PROVE
            /\ events'[e].ref \in 1..Len(provider')
            /\ Unprocessed(e)' => provider'[events'[e].ref].plan = events'[e].plan
      BY <1>1, <1>3, <1>4, <2>1
  <2> QED BY <2>2, <2>3 DEF Chronicle
<1>10. ReceiptsAreTrue' /\ CanceledHasDate' /\ receipts' \subseteq DOMAIN events'
  <2>1. \A e \in Events : e \in halved => events'[e] = events[e]
    BY <1>1 DEF ReceiptsAreTrue, ReceiptIsTrue
  <2>2. \A h \in Handlers : \A e : Goes(h, e)' <=> Goes(h, e) BY DEF Goes, Continuing
  <2>3. ReceiptsAreTrue' BY <2>1, <2>2 DEF ReceiptsAreTrue, ReceiptIsTrue
  <2> QED BY <1>0, <1>1, <2>3 DEF CanceledHasDate
<1>11. ASSUME ~strayed' PROVE PlanOwed'
  <2>1. PlanOwed BY <1>11
  <2>2. \A n \in 1..Len(provider) : LastPush(n) => LastPush(n)'
      BY DEF LastPush, Pushing, Ref
  <2>3. \A h \in Handlers : /\ Attaching(h)' = Attaching(h)
                            /\ Attaching(h) => /\ EventOf(h)' = EventOf(h)
                                               /\ EventOf(h).ref \in 1..Len(provider)
      BY <1>6 DEF Attaching, Sessions, Place, Chronicle, EventOf
  <2>4. \A a \in Admins : Pushing(a)' = Pushing(a) /\ Ref(a)' = Ref(a)
      BY DEF Pushing, Ref
  <2>5. sub.ref # 0 => sub.ref \in 1..Len(provider)
      BY <1>1 DEF Known, TypeOK, Subscriptions, Refs
  <2>6. \A a \in Admins : Ref(a) # 0 => Ref(a) \in 1..Len(provider)
    <3>1. ASSUME NEW a \in Admins, Ref(a) # 0 PROVE Ref(a) \in 1..Len(provider)
      <4>1. req[a].loaded \in Subscriptions /\ Known(req[a].loaded)
          BY DEF TypeOK, Tasks, Sessions
      <4> QED BY <1>1, <3>1, <4>1 DEF Known, Subscriptions, Refs, Ref
    <3> QED BY <3>1
  <2>7. sub.ref # 0 => (Settled => Settled')
      BY <2>4, <2>5 DEF Settled
  <2>8. \A h \in Handlers : req[h].at = "plan" => EventOf(h)' = EventOf(h)
      BY <1>6 DEF Sessions
  <2> QED BY <2>1, <2>2, <2>3, <2>4, <2>5, <2>6, <2>7, <2>8 DEF PlanOwed
<1> QED BY <1>2, <1>7, <1>8, <1>9, <1>10, <1>11

LEMMA CheckoutKeeps ==
    ASSUME IInv, NEW p \in Plans, Checkout(p)
    PROVE  IInv'
<1> DEFINE c == [plan |-> p, live |-> TRUE, keys |-> {}]
           m == [type |-> "checkout_completed", ref |-> Len(provider) + 1,
                 plan |-> p, flag |-> FALSE, renewed |-> FALSE]
<1>1. /\ provider \in Seq(Contracts) /\ Len(provider) \in Nat /\ c \in Contracts
      /\ Len(provider) < MaxRefs /\ CanEmit
      /\ provider' = Append(provider, c) /\ events' = Append(events, m)
      /\ UNCHANGED <<sub, receipts, current, req, applied, halved, strayed, adminOps>>
    BY EventsTyped DEF Checkout, IInv, TypeOK, Contracts
<1>2. m \in Messages BY <1>1, BillingConstants DEF Messages, EventTypes, Refs
<1>3. /\ provider' \in Seq(Contracts) /\ Len(provider') = Len(provider) + 1
      /\ provider'[Len(provider) + 1] = c
      /\ \A n \in 1..Len(provider) : provider'[n] = provider[n]
    BY <1>1
<1>4. /\ Len(provider') <= MaxRefs /\ Len(provider) <= Len(provider')
      /\ m.ref \in 1..Len(provider') /\ m.ref > Len(provider)
      /\ provider'[m.ref].plan = m.plan
    BY <1>1, <1>3, BillingConstants
<1> HIDE DEF m, c
<1> QED BY <1>1, <1>2, <1>3, <1>4, EventAdded

LEMMA NotifyKeeps ==
    ASSUME IInv, NEW n \in DOMAIN provider, NEW t \in EventTypes,
           NEW f \in BOOLEAN, NEW renewed \in BOOLEAN, Notify(n, t, f, renewed)
    PROVE  IInv'
<1> DEFINE c == [provider[n] EXCEPT !.live = @ /\ t # "subscription_canceled"]
           m == [type |-> t, ref |-> n, plan |-> Free, flag |-> f, renewed |-> renewed]
<1>1. /\ provider \in Seq(Contracts) /\ n \in 1..Len(provider) /\ Len(provider) \in Nat
      /\ Len(provider) <= MaxRefs /\ n \in Refs /\ provider[n] \in Contracts
    BY EventsTyped DEF IInv, TypeOK
<1>2. /\ CanEmit /\ t # "checkout_completed"
      /\ provider' = [provider EXCEPT ![n] = c] /\ events' = Append(events, m)
      /\ UNCHANGED <<sub, receipts, current, req, applied, halved, strayed, adminOps>>
    BY DEF Notify
<1>3. m \in Messages BY <1>1, BillingConstants DEF Messages
<1>4. c \in Contracts /\ c.plan = provider[n].plan BY <1>1 DEF Contracts
<1> HIDE DEF c
<1>5. /\ provider' \in Seq(Contracts) /\ Len(provider') = Len(provider)
      /\ \A k \in 1..Len(provider) : provider'[k] = IF k = n THEN c ELSE provider[k]
    BY <1>1, <1>2, <1>4, ExceptSeq
<1>6. /\ Len(provider') <= MaxRefs /\ Len(provider) <= Len(provider')
      /\ \A k \in 1..Len(provider) : provider'[k].plan = provider[k].plan
      /\ m.ref \in 1..Len(provider') /\ m.type # "checkout_completed"
    BY <1>1, <1>2, <1>4, <1>5
<1> HIDE DEF m
<1> QED BY <1>2, <1>3, <1>5, <1>6, EventAdded

(* An administrator's push: of a plan, it is the last one; the row it is about *)
(* is no other session's but one that will conflict.                           *)
LEMMA PushKeeps ==
    ASSUME IInv, NEW a \in Admins, Push(a)
    PROVE  IInv'
<1> USE DEF IInv
<1>0. PICK n : n = Ref(a) OBVIOUS
<1> DEFINE new == [req[a] EXCEPT !.at = "pushed"]
           c == CarriedOut(a)
<1>1. /\ a \in Sessions /\ req[a].at = "asked" /\ req' = [req EXCEPT ![a] = new]
      /\ n # 0 /\ provider' = [provider EXCEPT ![n] = c]
      /\ UNCHANGED <<sub, receipts, current, events, applied, halved, strayed, adminOps>>
    BY <1>0 DEF Push, Pushed, Sessions
<1>2. /\ req[a] \in Tasks /\ req[a].op \in Ops /\ Place(a) /\ Known(req[a].loaded)
      /\ provider \in Seq(Contracts) /\ Len(provider) \in Nat
    BY <1>1, EventsTyped DEF TypeOK, Place
<1>3. n \in 1..Len(provider)
    BY <1>0, <1>1, <1>2 DEF Known, Ref, Tasks, Subscriptions, Refs
<1>4. /\ new \in Tasks /\ new.at = "pushed" /\ new.op = req[a].op
      /\ new.plan = req[a].plan /\ new.loaded = req[a].loaded
    BY <1>2 DEF Tasks
<1>5. req' \in [Sessions -> Tasks] /\ req'[a] = new /\ Alone(a)
    BY <1>1, <1>4 DEF TypeOK, Alone
<1>6. provider[n] \in Contracts /\ Key(a) \in Ops \X Plans
    BY <1>2, <1>3, EventsTyped DEF Key, Tasks
<1>7. /\ c \in Contracts
      /\ c.plan = IF req[a].op = "change_plan" THEN req[a].plan ELSE provider[n].plan
    BY <1>0, <1>2, <1>6 DEF CarriedOut, Contracts, Tasks
<1> HIDE DEF new, c
<1>8. /\ provider' \in Seq(Contracts) /\ Len(provider') = Len(provider)
      /\ \A k \in 1..Len(provider) : provider'[k] = IF k = n THEN c ELSE provider[k]
    BY <1>1, <1>2, <1>3, <1>7, ExceptSeq
<1>9. TypeOK' BY <1>1, <1>5, <1>8 DEF TypeOK
<1>10. Fresh' BY <1>1, <1>4, <1>5 DEF Fresh, Alone, TypeOK
<1>11. \A row : Known(row)' <=> Known(row) BY <1>1, <1>8 DEF Known, Unprocessed
<1>12. \A o \in Sessions : Place(o)' /\ Known(req[o].loaded)'
  <2>1. Place(a)' BY <1>1, <1>2, <1>4, <1>5, Literals DEF Place, EventOf, Continuing, Committed, Further
  <2>2. ASSUME NEW o \in Sessions \ {a} PROVE Place(o)'
      BY <1>1, <1>5 DEF Place, EventOf, Alone, Continuing
  <2>3. \A o \in Sessions : req'[o].loaded = req[o].loaded
      BY <1>4, <1>5 DEF Alone
  <2>4. \A o \in Sessions : Known(req[o].loaded)' BY <1>11, <2>3
  <2> QED BY <2>1, <2>2, <2>4
<1>13. Known(sub)' BY <1>1, <1>11
<1>14. Chronicle'
  <2>1. \A e \in DOMAIN events : Unprocessed(e)' <=> Unprocessed(e) BY <1>1 DEF Unprocessed
  <2>2. \A e \in DOMAIN events : Unprocessed(e) => events[e].ref # n
      BY <1>0, <1>2 DEF Known, Ref
  <2> QED BY <1>1, <1>8, <2>1, <2>2 DEF Chronicle
<1>15. ReceiptsAreTrue' /\ CanceledHasDate' /\ receipts' \subseteq DOMAIN events'
  <2>1. ReceiptsAreTrue'
      BY <1>1, <1>4, <1>5, ReceiptsKept DEF Continuing, Committed, Further
  <2> QED BY <1>1, <2>1 DEF CanceledHasDate
<1>16. ASSUME ~strayed' PROVE PlanOwed'
  <2>1. PlanOwed BY <1>1, <1>16
  <2>2. \A o \in Sessions \ {a} :
            /\ (Pushing(o)' <=> Pushing(o)) /\ Ref(o)' = Ref(o) /\ req'[o].plan = req[o].plan
            /\ (Attaching(o)' <=> Attaching(o)) /\ EventOf(o)' = EventOf(o)
      BY <1>1, <1>5 DEF Alone, Pushing, Ref, Attaching, EventOf
  <2>3. /\ ~Pushing(a) /\ Ref(a)' = n /\ ~Attaching(a) /\ ~Attaching(a)'
        /\ Pushing(a)' <=> req[a].op = "change_plan"
      BY <1>0, <1>1, <1>4, <1>5 DEF Pushing, Ref, Attaching
  <2>4. /\ \A k \in 1..Len(provider) : LastPush(k) => LastPush(k)'
        /\ Pushing(a)' => LastPush(n)'
    <3>1. Pushing(a)' => LastPush(n)'
        BY <1>3, <1>4, <1>5, <1>7, <1>8, <2>3 DEF LastPush
    <3>2. ASSUME NEW k \in 1..Len(provider), LastPush(k), provider'[k].plan = provider[k].plan
          PROVE  LastPush(k)'
      <4>1. PICK b \in Admins : Pushing(b) /\ Ref(b) = k /\ req[b].plan = provider[k].plan
          BY <3>2 DEF LastPush
      <4>2. b \in Sessions \ {a} BY <2>3, <4>1 DEF Sessions
      <4> QED BY <2>2, <3>2, <4>1, <4>2 DEF LastPush
    <3>3. ASSUME NEW k \in 1..Len(provider), provider'[k].plan # provider[k].plan
          PROVE  k = n /\ Pushing(a)'
        BY <1>7, <1>8, <2>3, <3>3
    <3> QED BY <3>1, <3>2, <3>3
  <2>5. ASSUME sub'.ref # 0, Settled PROVE Settled' \/ LastPush(sub.ref)'
    <3>1. sub.ref \in 1..Len(provider)
        BY <1>1, <1>2, <2>5 DEF Known, TypeOK, Subscriptions, Refs
    <3>2. CASE sub.ref = n /\ Pushing(a)' BY <1>1, <2>4, <3>2
    <3>3. CASE ~Pushing(a)'
        BY <1>1, <1>7, <1>8, <2>2, <2>3, <2>5, <3>1, <3>3 DEF Settled, Sessions
    <3>4. CASE sub.ref # n
      <4>1. a \notin current BY <1>0, <1>1, <3>4 DEF Fresh, Ref
      <4> QED BY <1>1, <1>8, <2>2, <2>5, <3>1, <3>4, <4>1 DEF Settled, Sessions
    <3> QED BY <3>2, <3>3, <3>4
  <2>6. sub.ref # 0 => sub.ref \in 1..Len(provider)
      BY <1>2 DEF Known, TypeOK, Subscriptions, Refs
  <2>7. sub'.ref # 0 => \/ Settled' \/ LastPush(sub.ref)'
                        \/ \E h \in Handlers : Attaching(h)' /\ EventOf(h)'.ref = sub'.ref
    <3>1. ASSUME NEW h \in Handlers, Attaching(h), EventOf(h).ref = sub.ref
          PROVE  Attaching(h)' /\ EventOf(h)'.ref = sub'.ref
        BY <1>1, <2>2, <2>3, <3>1 DEF Sessions
    <3> QED BY <1>1, <2>1, <2>4, <2>5, <2>6, <3>1 DEF PlanOwed
  <2>8. ASSUME NEW h \in Handlers, h \in current', Attaching(h)'
        PROVE  \/ provider'[EventOf(h)'.ref].plan = EventOf(h)'.plan
               \/ LastPush(EventOf(h).ref)'
    <3>1. h \in Sessions \ {a} /\ Attaching(h) /\ h \in current /\ EventOf(h)' = EventOf(h)
        BY <1>1, <2>2, <2>3, <2>8 DEF Sessions
    <3>2. EventOf(h).ref \in 1..Len(provider)
        BY <3>1 DEF Attaching, Place, Chronicle, EventOf
    <3>3. provider[EventOf(h).ref].plan = EventOf(h).plan \/ LastPush(EventOf(h).ref)
        BY <2>1, <2>8, <3>1 DEF PlanOwed
    <3>4. PICK k : k = EventOf(h).ref OBVIOUS
    <3>5. LastPush(k) => LastPush(k)' BY <2>4, <3>2, <3>4
    <3>6. provider'[k].plan = provider[k].plan \/ LastPush(k)'
        BY <1>7, <1>8, <2>3, <2>4, <3>2, <3>4
    <3> QED BY <3>1, <3>3, <3>4, <3>5, <3>6 DEF LastPush
  <2>9. ASSUME NEW b \in Admins, b \in current', Pushing(b)', Ref(b)' # 0
        PROVE  LastPush(Ref(b))'
    <3>1. CASE b = a BY <1>0, <2>3, <2>4, <2>9, <3>1
    <3>2. CASE b # a
      <4>1. Pushing(b) /\ b \in current /\ Ref(b)' = Ref(b) /\ b \in Sessions
          BY <1>1, <2>2, <2>9, <3>2 DEF Sessions
      <4>2. PICK k : k = Ref(b) OBVIOUS
      <4>3. k \in 1..Len(provider)
        <5>1. req[b].loaded \in Subscriptions /\ Known(req[b].loaded) BY <4>1 DEF TypeOK, Tasks
        <5> QED BY <1>2, <2>9, <4>1, <4>2, <5>1 DEF Known, Subscriptions, Refs, Ref
      <4>4. LastPush(k)' BY <2>1, <2>4, <2>9, <4>1, <4>2, <4>3 DEF PlanOwed
      <4> QED BY <4>1, <4>2, <4>4 DEF LastPush
    <3> QED BY <3>1, <3>2
  <2>10. ASSUME NEW h \in Handlers, req'[h].at = "plan"
         PROVE  req'[h].loaded.ref = EventOf(h)'.ref
    <3>1. h \in Sessions \ {a} BY <1>4, <1>5, <2>10 DEF Sessions
    <3>2. req'[h] = req[h] BY <1>5, <3>1 DEF Alone
    <3> QED BY <2>1, <2>2, <2>10, <3>1, <3>2 DEF PlanOwed
  <2> QED BY <2>7, <2>8, <2>9, <2>10 DEF PlanOwed
<1> QED BY <1>9, <1>10, <1>12, <1>13, <1>14, <1>15, <1>16

-----------------------------------------------------------------------------
(* The steps that write the row. *)

LEMMA SaveStep ==
    ASSUME IInv, NEW s \in Sessions, NEW new \in Subscriptions, Save(s, new),
           Dated(req[s].loaded) => Dated(new), Known(new)',
           req' \in [Sessions -> Tasks], Alone(s), current' \subseteq UpToDate(s, new),
           s \in current' => req'[s].loaded = sub',
           UNCHANGED <<provider, events, halved, strayed, adminOps>>,
           receipts \subseteq receipts', receipts' \subseteq DOMAIN events,
           applied' \in [Events -> Nat], ReceiptsAreTrue',
           Place(s)', req'[s].loaded \in {new, NewSub}, ~strayed => PlanOwed'
    PROVE  IInv'
<1> USE DEF IInv
<1>1. /\ sub' \in Subscriptions
      /\ \/ Writes(s, new) /\ s \in current /\ req[s].loaded = sub /\ sub' = new
         \/ ~Writes(s, new) /\ req[s].loaded = new /\ sub' = sub
    BY SaveWritesAll DEF TypeOK
<1>2. current' \subseteq current \cup {s} BY DEF UpToDate
<1>3. TypeOK' BY <1>1, <1>2, EventsTyped DEF TypeOK
<1>4. Fresh'
  <2>1. CASE Writes(s, new)
    <3>1. current' \subseteq {s} BY <2>1 DEF UpToDate
    <3> QED BY <3>1 DEF Fresh
  <2>2. CASE ~Writes(s, new)
    <3>1. sub' = sub BY <1>1, <2>2
    <3> QED BY <1>2, <3>1 DEF Fresh, Alone, TypeOK
  <2> QED BY <2>1, <2>2
<1>5. \A row : Known(row) => Known(row)' BY DEF Known, Unprocessed
<1>6. Known(sub)' /\ Known(NewSub)
  <2>1. Known(NewSub) BY Literals, EventsTyped DEF Known, Chronicle
  <2>2. CASE sub' = new BY <2>1, <2>2 DEF Known
  <2>3. CASE sub' = sub BY <1>5, <2>1, <2>3 DEF Known
  <2> QED BY <1>1, <2>1, <2>2, <2>3
<1>7. \A o \in Sessions : Place(o)' /\ Known(req[o].loaded)'
  <2>1. ASSUME NEW o \in Sessions \ {s} PROVE Place(o)' /\ Known(req[o].loaded)'
    <3>1. req'[o] = req[o] /\ (o \in current' => o \in current) BY <1>2 DEF Alone
    <3>2. Known(req[o].loaded)' BY <1>5, <3>1 DEF Known
    <3> QED BY <3>1, <3>2 DEF Place, EventOf, Continuing
  <2>2. Known(req[s].loaded)'
    <3>1. CASE req'[s].loaded = new BY <3>1 DEF Known
    <3>2. CASE req'[s].loaded = NewSub BY <1>5, <1>6, <3>2 DEF Known
    <3> QED BY <3>1, <3>2
  <2> QED BY <2>1, <2>2
<1>8. Chronicle' BY DEF Chronicle, Unprocessed
<1>9. CanceledHasDate'
  <2>1. Dated(sub) BY DEF CanceledHasDate, Dated
  <2>2. Dated(sub') BY <1>1, <2>1
  <2> QED BY <2>2 DEF CanceledHasDate, Dated
<1> QED BY <1>3, <1>4, <1>6, <1>7, <1>8, <1>9

(* An event with no receipt is applied whole, or its checkout begun; one begun  *)
(* is finished.                                                                *)
LEMMA AppliedWhole ==
    ASSUME IInv, NEW h \in Handlers, Alone(h), Applied(h), ~Continuing(h)',
           req[h].event \in DOMAIN events, receipts' = receipts \cup {req[h].event},
           UNCHANGED <<events, halved>>,
           Continuing(h) \/ req[h].event \notin receipts
    PROVE  ReceiptsAreTrue' /\ applied' \in [Events -> Nat]
<1> USE DEF IInv
<1>1. PICK e : e = req[h].event OBVIOUS
<1>2. /\ e \in Events /\ applied \in [Events -> Nat] /\ receipts' = receipts \cup {e}
      /\ applied' = [applied EXCEPT ![e] = applied[e] + 1]
    BY <1>1, EventsTyped DEF Applied, TypeOK
<1>3. \A g \in Handlers : \A d : Goes(g, d)' <=> Goes(g, d) /\ g # h
    BY DEF Goes, Continuing, Alone, Sessions
<1>4. /\ applied[e] = 0 /\ e \notin halved
      /\ \A g \in Handlers : Goes(g, e) => g = h
    BY <1>1, <1>2 DEF ReceiptsAreTrue, ReceiptIsTrue, Goes
<1>5. ReceiptIsTrue(e)' BY <1>2, <1>3, <1>4 DEF ReceiptIsTrue
<1>6. ASSUME NEW d \in Events \ {e} PROVE
          /\ d \in receipts' <=> d \in receipts
          /\ applied'[d] = applied[d]
          /\ \A g \in Handlers : Goes(g, d)' <=> Goes(g, d)
    BY <1>1, <1>2, <1>3 DEF Goes
<1> QED BY <1>2, <1>5, <1>6, OneRecorded

LEMMA CheckoutBegun ==
    ASSUME IInv, NEW h \in Handlers, Alone(h), ~Continuing(h), Continuing(h)',
           req'[h].event = req[h].event,
           req[h].event \in DOMAIN events, receipts' = receipts \cup {req[h].event},
           UNCHANGED <<events, applied, halved>>, req[h].event \notin receipts
    PROVE  ReceiptsAreTrue'
<1> USE DEF IInv
<1>1. PICK e : e = req[h].event OBVIOUS
<1>2. e \in Events /\ receipts' = receipts \cup {e} BY <1>1, EventsTyped
<1>3. \A g \in Handlers : \A d : Goes(g, d)' <=> (IF g = h THEN d = e ELSE Goes(g, d))
    BY <1>1 DEF Goes, Continuing, Alone, Sessions
<1>4. applied[e] = 0 /\ e \notin halved /\ \A g \in Handlers : ~Goes(g, e)
    BY <1>1, <1>2 DEF ReceiptsAreTrue, ReceiptIsTrue, TypeOK
<1>5. ReceiptIsTrue(e)' BY <1>2, <1>3, <1>4 DEF ReceiptIsTrue
<1>6. \A g \in Handlers : \A d \in Events \ {e} : Goes(g, d)' <=> Goes(g, d)
    BY <1>3 DEF Goes
<1> QED BY <1>2, <1>5, <1>6, OneRecorded

(* The further commits of a checkout. *)
LEMMA ContinueCheckoutKeeps ==
    ASSUME IInv, NEW h \in Handlers, ContinueCheckout(h)
    PROVE  IInv'
<1> USE DEF IInv
<1>0. PICK new : new = FurtherChange(h) OBVIOUS
<1>1. /\ h \in Sessions /\ h \notin Admins /\ req[h].at \in Further /\ Save(h, new)
      /\ UNCHANGED <<receipts, provider, events, halved, strayed, adminOps>>
    BY <1>0, BillingConstants DEF ContinueCheckout, Sessions
<1>2. /\ new \in Subscriptions /\ new.ref = req[h].loaded.ref
      /\ new.plan = IF req[h].at = "plan" THEN EventOf(h).plan ELSE req[h].loaded.plan
      /\ Dated(req[h].loaded) => Dated(new)
    BY <1>0, <1>1, FurtherChangeTyped
<1>3. /\ sub' \in Subscriptions
      /\ \/ Writes(h, new) /\ h \in current /\ req[h].loaded = sub /\ sub' = new
         \/ ~Writes(h, new) /\ req[h].loaded = new /\ sub' = sub
    BY <1>1, <1>2, SaveWritesAll DEF TypeOK
<1>4. /\ req' \in [Sessions -> Tasks] /\ Alone(h)
      /\ current' \subseteq UpToDate(h, new)
      /\ h \in current' => req'[h].loaded = new
      /\ req'[h].loaded \in {new, NewSub}
      /\ Place(h)' /\ ~Attaching(h)' /\ ~Pushing(h)' /\ req'[h].at # "plan"
      /\ ReceiptsAreTrue' /\ applied' \in [Events -> Nat]
  <2>1. CASE req[h].at = "activate"
    <3>1. req' = [req EXCEPT ![h] = NoReq] /\ current' = UpToDate(h, new) \ {h}
          /\ Applied(h)
        BY <1>0, <1>1, <2>1 DEF ContinueCheckout, Finish
    <3>2. req' \in [Sessions -> Tasks] /\ req'[h] = NoReq /\ Alone(h)
        BY <1>1, <3>1, Literals DEF TypeOK, Alone
    <3>3. Continuing(h) /\ ~Continuing(h)'
        BY <1>1, <3>2, Literals DEF Continuing, Committed, Further
    <3>4. req[h].event \in DOMAIN events /\ receipts' = receipts \cup {req[h].event}
      <4>1. /\ req[h].event \in DOMAIN events /\ req[h].event \in Events
            /\ Goes(h, req[h].event) /\ receipts' = receipts
          BY <1>1, <2>1, <3>3, EventsTyped DEF Place, Goes
      <4> QED BY <4>1 DEF ReceiptsAreTrue, ReceiptIsTrue
    <3>5. ReceiptsAreTrue' /\ applied' \in [Events -> Nat]
        BY <1>1, <3>1, <3>2, <3>3, <3>4, AppliedWhole
    <3>6. Place(h)' /\ ~Attaching(h)' /\ ~Pushing(h)' /\ req'[h].at # "plan"
        BY <1>1, <3>1, <3>2, Literals
        DEF Place, Attaching, Pushing, Continuing, Committed, Further
    <3> QED BY <3>1, <3>2, <3>5, <3>6, Literals
  <2>2. CASE req[h].at \in {"plan", "period"}
    <3>1. PICK at \in {"planned", "timed"} :
              /\ req' = [req EXCEPT ![h].at = at, ![h].loaded = new]
              /\ current' = UpToDate(h, new) /\ applied' = applied
        BY <1>0, <1>1, <2>2 DEF ContinueCheckout, Proceed
    <3>2. /\ req' = [req EXCEPT ![h] = [req[h] EXCEPT !.at = at, !.loaded = new]]
          /\ [req[h] EXCEPT !.at = at, !.loaded = new] \in Tasks
        BY <1>1, <1>2, <3>1 DEF TypeOK, Tasks, Committed, Further
    <3>3. /\ req' \in [Sessions -> Tasks] /\ Alone(h)
          /\ req'[h].at = at /\ req'[h].loaded = new /\ req'[h].event = req[h].event
          /\ req'[h].op = req[h].op
        BY <1>1, <3>2 DEF TypeOK, Alone, Tasks
    <3>4. Place(h)' /\ ~Attaching(h)' /\ ~Pushing(h)' /\ req'[h].at # "plan"
        BY <1>1, <3>1, <3>3, Literals
        DEF Place, EventOf, Attaching, Pushing, Continuing, Committed, Further
    <3>5. ReceiptsAreTrue'
        BY <1>1, <3>1, <3>3, ReceiptsKept DEF Continuing, Committed, Further
    <3>6. applied' \in [Events -> Nat] BY <3>1 DEF TypeOK
    <3> QED BY <3>1, <3>3, <3>4, <3>5, <3>6
  <2> QED BY <1>1, <2>1, <2>2 DEF Further
<1>5. h \in current' => req'[h].loaded = sub'
  <2>1. CASE Writes(h, new) BY <1>3, <1>4, <2>1
  <2>2. CASE ~Writes(h, new)
    <3>1. h \in current' => h \in current /\ req[h].loaded = sub
        BY <1>4, <2>2 DEF UpToDate, Fresh
    <3> QED BY <1>3, <1>4, <2>2, <3>1
  <2> QED BY <2>1, <2>2
<1>6. Known(new)'
  <2>1. Known(req[h].loaded) BY <1>1
  <2> QED BY <1>1, <1>2, <2>1 DEF Known, Unprocessed
<1>7. ASSUME ~strayed PROVE PlanOwed'
  <2>1. PlanOwed /\ Unheard(h) /\ Unheard(h)' BY <1>1, <1>4, <1>7 DEF Unheard, Pushing, Further
  <2>2. CASE ~Attaching(h)
    <3>1. new.plan = req[h].loaded.plan BY <1>2, <2>2 DEF Attaching
    <3>2. sub'.plan = sub.plan /\ sub'.ref = sub.ref BY <1>2, <1>3, <3>1
    <3>3. h \in current' => Ref(h)' = sub'.ref BY <1>5 DEF Ref
    <3>4. current' \subseteq current \cup {h} BY <1>4 DEF UpToDate
    <3> QED BY <1>1, <1>4, <1>7, <2>1, <2>2, <3>2, <3>3, <3>4, OwedKept
  <2>3. CASE Attaching(h)
    <3>1. new # req[h].loaded /\ new.plan = EventOf(h).plan /\ req[h].at = "plan"
        BY <1>1, <1>2, <2>3 DEF Attaching, Further
    <3>2. /\ Writes(h, new) /\ h \in current /\ req[h].loaded = sub /\ sub' = new
          /\ current' \subseteq {h}
        BY <1>3, <1>4, <3>1 DEF Writes, UpToDate
    <3>3. PICK n : n = EventOf(h).ref OBVIOUS
    <3>4. sub'.ref = n /\ sub'.plan = EventOf(h).plan
        BY <1>2, <2>1, <3>1, <3>2, <3>3 DEF PlanOwed
    <3>5. provider[n].plan = EventOf(h).plan \/ LastPush(n)
        BY <2>1, <2>3, <3>2, <3>3 DEF PlanOwed
    <3>6. LastPush(n) => LastPush(n)'
        BY <1>1, <1>4 DEF LastPush, Alone, Sessions, Pushing, Ref
    <3>7. \A a \in Admins : a \notin current' BY <1>1, <3>2
    <3>8. Settled' \/ LastPush(sub.ref)'
        BY <1>1, <3>4, <3>5, <3>6, <3>7 DEF Settled, LastPush
    <3>9. \A g \in Handlers \cap current' : ~Attaching(g)' BY <1>4, <3>2
    <3>10. ASSUME NEW g \in Handlers, req'[g].at = "plan"
           PROVE  req'[g].loaded.ref = EventOf(g)'.ref
      <4>1. req'[g] = req[g] BY <1>4, <3>10 DEF Alone, Sessions
      <4> QED BY <1>1, <2>1, <3>10, <4>1 DEF PlanOwed, EventOf
    <3> QED BY <3>7, <3>8, <3>9, <3>10 DEF PlanOwed
  <2> QED BY <2>2, <2>3
<1> QED BY <1>1, <1>2, <1>4, <1>6, <1>7, <1>5, SaveStep

(* The first commit, which records the event; of a checkout, it attaches the   *)
(* subscription, unknown until then.                                           *)
LEMMA ApplyEventKeeps ==
    ASSUME IInv, NEW h \in Handlers, ApplyEvent(h)
    PROVE  IInv'
<1> USE DEF IInv
<1>0. PICK new : new = FirstChange(h) OBVIOUS
<1>1. /\ h \in Sessions /\ h \notin Admins /\ req[h].at = "loaded" /\ Save(h, new)
      /\ req[h].event \notin receipts /\ receipts' = receipts \cup {req[h].event}
      /\ ~Continuing(h)
      /\ UNCHANGED <<provider, events, halved, strayed, adminOps>>
    BY <1>0, BillingConstants DEF ApplyEvent, ReceiptIsNew, Sessions, Continuing, Committed, Further
<1>2. /\ new \in Subscriptions /\ new.plan = req[h].loaded.plan
      /\ new.ref = IF req[h].op = "checkout_completed" THEN EventOf(h).ref
                   ELSE req[h].loaded.ref
      /\ Dated(req[h].loaded) => Dated(new)
    BY <1>0, <1>1, FirstChangeTyped
<1>3. /\ sub' \in Subscriptions
      /\ \/ Writes(h, new) /\ h \in current /\ req[h].loaded = sub /\ sub' = new
         \/ ~Writes(h, new) /\ req[h].loaded = new /\ sub' = sub
    BY <1>1, <1>2, SaveWritesAll DEF TypeOK
<1>4. /\ req[h].event \in DOMAIN events /\ req[h].event \in Events
      /\ req[h].op = EventOf(h).type /\ EventOf(h).ref \in 1..Len(provider)
    BY <1>1, EventsTyped DEF Place, Chronicle, EventOf
<1>5. receipts' \subseteq DOMAIN events BY <1>1, <1>4
<1>6. Known(new)'
  <2>1. Known(req[h].loaded) BY <1>1
  <2>2. CASE req[h].op # "checkout_completed"
      BY <1>1, <1>2, <2>1, <2>2 DEF Known, Unprocessed
  <2>3. CASE req[h].op = "checkout_completed"
    <3>1. new.ref = EventOf(h).ref /\ EventOf(h).type = "checkout_completed"
        BY <1>2, <1>4, <2>3
    <3>2. new.ref <= Len(provider) BY <1>4, <3>1, EventsTyped
    <3>3. ASSUME NEW e \in DOMAIN events, Unprocessed(e)' PROVE events[e].ref # new.ref
        BY <1>1, <1>4, <3>1, <3>3 DEF Unprocessed, Chronicle, EventOf
    <3> QED BY <1>1, <3>2, <3>3 DEF Known
  <2> QED BY <2>2, <2>3
<1>7. CASE req[h].op # "checkout_completed"
  <2>1. req' = [req EXCEPT ![h] = NoReq] /\ current' = UpToDate(h, new) \ {h}
        /\ Applied(h)
      BY <1>0, <1>1, <1>7 DEF ApplyEvent, Finish
  <2>2. req' \in [Sessions -> Tasks] /\ req'[h] = NoReq /\ Alone(h)
      BY <1>1, <2>1, Literals DEF TypeOK, Alone
  <2>3. Place(h)' /\ ~Attaching(h)' /\ Unheard(h)' /\ ~Attaching(h) /\ Unheard(h)
        /\ req'[h].at # "plan" /\ ~Continuing(h)'
      BY <1>1, <2>1, <2>2, Literals
      DEF Place, Attaching, Pushing, Unheard, Continuing, Committed, Further
  <2>4. ReceiptsAreTrue' /\ applied' \in [Events -> Nat]
      BY <1>1, <1>4, <2>1, <2>2, <2>3, AppliedWhole
  <2>5. ASSUME ~strayed PROVE PlanOwed'
    <3>1. sub'.plan = sub.plan /\ sub'.ref = sub.ref BY <1>2, <1>3, <1>7
    <3>2. h \notin current' /\ current' \subseteq current \cup {h} BY <2>1 DEF UpToDate
    <3> QED BY <1>1, <2>2, <2>3, <2>5, <3>1, <3>2, OwedKept
  <2> QED BY <1>1, <1>2, <1>5, <1>6, <2>1, <2>2, <2>3, <2>5, <2>4, Literals, SaveStep
<1>8. CASE req[h].op = "checkout_completed"
  <2>1. /\ req' = [req EXCEPT ![h].at = "attached", ![h].loaded = new]
        /\ current' = UpToDate(h, new) /\ applied' = applied
      BY <1>0, <1>1, <1>8 DEF ApplyEvent, Proceed
  <2>2. /\ req' = [req EXCEPT ![h] = [req[h] EXCEPT !.at = "attached", !.loaded = new]]
        /\ [req[h] EXCEPT !.at = "attached", !.loaded = new] \in Tasks
      BY <1>1, <1>2, <2>1 DEF TypeOK, Tasks, Committed, Further
  <2>3. /\ req' \in [Sessions -> Tasks] /\ Alone(h)
        /\ req'[h].at = "attached" /\ req'[h].loaded = new /\ req'[h].event = req[h].event
        /\ req'[h].op = req[h].op
      BY <1>1, <2>2 DEF TypeOK, Alone, Tasks
  <2>4. new.ref = EventOf(h).ref /\ Unprocessed(req[h].event)
      BY <1>1, <1>2, <1>4, <1>8 DEF Unprocessed, EventOf
  <2>5. new.ref # req[h].loaded.ref
    <3>1. Known(req[h].loaded) BY <1>1
    <3> QED BY <1>4, <2>4, <3>1 DEF Known, EventOf
  <2>6. /\ h \in current /\ req[h].loaded = sub /\ sub' = new /\ current' = {h}
      BY <1>3, <2>1, <2>5 DEF Writes, UpToDate
  <2>7. Place(h)'
      BY <1>1, <1>4, <1>8, <2>3, <2>4, <2>6 DEF Place, EventOf, Continuing, Committed, Further
  <2>8. ASSUME ~strayed PROVE PlanOwed'
    <3>1. provider[sub'.ref].plan = EventOf(h).plan
        BY <1>4, <2>4, <2>6 DEF Chronicle, EventOf
    <3>2. EventOf(h)' = EventOf(h) BY <1>1, <2>3 DEF EventOf
    <3>3. \A a \in Admins : a \notin current' BY <1>1, <2>6
    <3>4. ASSUME NEW g \in Handlers, req'[g].at = "plan"
          PROVE  req'[g].loaded.ref = EventOf(g)'.ref
      <4>1. req'[g] = req[g] BY <2>3, <3>4 DEF Alone, Sessions
      <4> QED BY <1>1, <2>8, <3>4, <4>1 DEF PlanOwed, EventOf
    <3>5. CASE sub'.plan = EventOf(h).plan
      <4>1. Settled' BY <1>1, <3>1, <3>3, <3>5 DEF Settled
      <4>2. ~Attaching(h)' BY <2>3, <2>6, <3>2, <3>5 DEF Attaching
      <4> QED BY <2>6, <3>3, <3>4, <4>1, <4>2 DEF PlanOwed
    <3>6. CASE sub'.plan # EventOf(h).plan
      <4>1. Attaching(h)' /\ EventOf(h)'.ref = sub'.ref
          BY <2>3, <2>4, <2>6, <3>2, <3>6 DEF Attaching
      <4>2. \A g \in Handlers \cap current' :
                provider'[EventOf(g)'.ref].plan = EventOf(g)'.plan
          BY <1>1, <2>6, <3>1, <3>2, <4>1
      <4> QED BY <3>3, <3>4, <4>1, <4>2 DEF PlanOwed
    <3> QED BY <3>5, <3>6
  <2>9. ReceiptsAreTrue' /\ applied' \in [Events -> Nat]
    <3>1. Continuing(h)' BY <2>3 DEF Continuing, Committed
    <3> QED BY <1>1, <1>4, <2>1, <2>3, <3>1, CheckoutBegun DEF TypeOK
  <2> QED BY <1>1, <1>2, <1>5, <1>6, <2>1, <2>3, <2>6, <2>7, <2>8, <2>9, SaveStep
<1> QED BY <1>7, <1>8

(* An administrator's commit: of a plan, the last one pushed or not.           *)
LEMMA AdminCommitKeeps ==
    ASSUME IInv, NEW a \in Admins, AdminCommit(a)
    PROVE  IInv'
<1> USE DEF IInv
<1>0. PICK new : new = AdminChange(a) OBVIOUS
<1>1. /\ a \in Sessions /\ req[a].at = "pushed" /\ Save(a, new)
      /\ req' = [req EXCEPT ![a] = NoReq] /\ current' = UpToDate(a, new) \ {a}
      /\ UNCHANGED <<receipts, provider, events, applied, halved, strayed, adminOps>>
    BY <1>0 DEF AdminCommit, Finish, Sessions
<1>2. /\ new \in Subscriptions /\ new.ref = req[a].loaded.ref
      /\ new.plan = IF req[a].op = "change_plan" THEN req[a].plan ELSE req[a].loaded.plan
      /\ Dated(req[a].loaded) => Dated(new)
    BY <1>0, <1>1, AdminChangeTyped
<1>3. /\ sub' \in Subscriptions
      /\ \/ Writes(a, new) /\ a \in current /\ req[a].loaded = sub /\ sub' = new
         \/ ~Writes(a, new) /\ req[a].loaded = new /\ sub' = sub
    BY <1>1, <1>2, SaveWritesAll DEF TypeOK
<1>4. req' \in [Sessions -> Tasks] /\ req'[a] = NoReq /\ Alone(a)
    BY <1>1, Literals DEF TypeOK, Alone
<1>5. Place(a)' /\ ~Attaching(a)' /\ Unheard(a)' /\ ~Pushing(a)' /\ ~Attaching(a)
    BY <1>1, <1>4, Literals
    DEF Place, Attaching, Pushing, Unheard, Continuing, Committed, Further
<1>6. ReceiptsAreTrue' /\ applied' \in [Events -> Nat] /\ receipts' \subseteq DOMAIN events
  <2>1. ~Continuing(a) /\ ~Continuing(a)'
      BY <1>1, <1>4, Literals DEF Continuing, Committed, Further
  <2> QED BY <1>1, <1>4, <2>1, ReceiptsKept DEF TypeOK
<1>7. a \notin Handlers /\ req'[a].at # "plan" BY <1>1, <1>4, Literals
<1>8. Known(new)'
  <2>1. Known(req[a].loaded) BY <1>1
  <2> QED BY <1>1, <1>2, <2>1 DEF Known, Unprocessed
<1>9. ASSUME ~strayed PROVE PlanOwed'
  <2>1. a \notin current' /\ current' \subseteq current \cup {a} BY <1>1 DEF UpToDate
  <2>2. CASE ~Pushing(a)
    <3>1. new.plan = req[a].loaded.plan BY <1>1, <1>2, <2>2 DEF Pushing
    <3>2. sub'.plan = sub.plan /\ sub'.ref = sub.ref BY <1>2, <1>3, <3>1
    <3>3. Unheard(a) BY <2>2 DEF Unheard
    <3> QED BY <1>1, <1>4, <1>5, <1>9, <1>7, <2>1, <3>2, <3>3, OwedKept
  <2>3. CASE Pushing(a)
    <3>1. new.plan = req[a].plan /\ new.plan # req[a].loaded.plan
        BY <1>1, <1>2, <2>3 DEF Pushing, Place
    <3>2. /\ a \in current /\ req[a].loaded = sub /\ sub' = new /\ current' = {}
        BY <1>1, <1>3, <3>1 DEF Writes, UpToDate
    <3>3. PICK n : n = sub'.ref OBVIOUS
    <3>4. Ref(a) = n BY <1>2, <3>2, <3>3 DEF Ref
    <3>5. n # 0 => LastPush(n) BY <1>9, <2>3, <3>2, <3>4 DEF PlanOwed
    <3>6. ASSUME n # 0 PROVE Settled' \/ LastPush(n)'
      <4>1. PICK b \in Admins : Pushing(b) /\ Ref(b) = n /\ req[b].plan = provider[n].plan
          BY <3>5, <3>6 DEF LastPush
      <4>2. CASE b = a
          BY <1>1, <3>1, <3>2, <3>3, <4>1, <4>2 DEF Settled
      <4>3. CASE b # a
        <5>1. req'[b] = req[b] BY <1>4, <4>3 DEF Alone, Sessions
        <5> QED BY <1>1, <4>1, <5>1 DEF LastPush, Pushing, Ref
      <4> QED BY <4>2, <4>3
    <3>7. ASSUME NEW g \in Handlers, req'[g].at = "plan"
          PROVE  req'[g].loaded.ref = EventOf(g)'.ref
      <4>1. req'[g] = req[g] BY <1>4, <1>7, <3>7 DEF Alone, Sessions
      <4> QED BY <1>1, <1>9, <3>7, <4>1 DEF PlanOwed, EventOf
    <3> QED BY <3>2, <3>3, <3>6, <3>7 DEF PlanOwed, LastPush
  <2> QED BY <2>2, <2>3
<1> QED BY <1>1, <1>2, <1>4, <1>5, <1>8, <1>9, <1>6, Literals, SaveStep

-----------------------------------------------------------------------------
(* The invariant, and what follows from it. *)

LEMMA StepKeepsIInv ==
    ASSUME IInv, [Next]_vars
    PROVE  IInv'
<1>1. ASSUME NEW p \in Plans, Checkout(p) PROVE IInv'
    BY <1>1, CheckoutKeeps
<1>2. ASSUME NEW n \in DOMAIN provider, NEW t \in EventTypes, NEW f \in BOOLEAN,
             NEW renewed \in BOOLEAN, Notify(n, t, f, renewed)
      PROVE  IInv'
    BY <1>2, NotifyKeeps
<1>3. ASSUME NEW h \in Handlers, Webhook(h) PROVE IInv'
  <2>1. CASE \E e \in DOMAIN events : Receive(h, e) BY <2>1, ReceiveKeeps
  <2>2. CASE LoadForEvent(h) BY <2>2, LoadForEventKeeps
  <2>3. CASE Unresolved(h) \/ Ignore(h) \/ DuplicateReceipt(h)
    <3>1. /\ h \in Sessions /\ GiveUp(h) /\ ~HalfDone(h) /\ ~Continuing(h)
          /\ UNCHANGED <<sub, receipts, provider, events, applied, halved, strayed, adminOps>>
        BY <2>3 DEF Unresolved, Ignore, DuplicateReceipt, HalfDone, Continuing, Committed, Further,
                   Sessions
    <3> QED BY <3>1, QuitKeeps DEF IInv, TypeOK
  <2>4. CASE ApplyEvent(h) BY <2>4, ApplyEventKeeps
  <2>5. CASE KeepPeriod(h) BY <2>5, KeepPeriodKeeps
  <2>6. CASE ContinueCheckout(h) BY <2>6, ContinueCheckoutKeeps
  <2>7. CASE Reread(h) BY <2>7, RereadKeeps
  <2> QED BY <1>3, <2>1, <2>2, <2>3, <2>4, <2>5, <2>6, <2>7 DEF Webhook
<1>4. ASSUME NEW a \in Admins, Administer(a) PROVE IInv'
  <2>1. CASE \E op \in Ops, p \in Plans : AdminLoad(a, op, p) BY <2>1, AdminLoadKeeps
  <2>2. CASE NoPush(a) \/ PushReplayed(a) BY <2>2, IdlePushKeeps
  <2>3. CASE Push(a) BY <2>3, PushKeeps
  <2>4. CASE PushFails(a)
    <3>1. /\ a \in Sessions /\ GiveUp(a) /\ ~HalfDone(a) /\ ~Continuing(a)
          /\ UNCHANGED <<sub, receipts, provider, events, applied, halved, strayed, adminOps>>
        BY <2>4 DEF PushFails, HalfDone, Continuing, Committed, Further, Sessions
    <3> QED BY <3>1, QuitKeeps DEF IInv, TypeOK
  <2>5. CASE AdminCommit(a) BY <2>5, AdminCommitKeeps
  <2> QED BY <1>4, <2>1, <2>2, <2>3, <2>4, <2>5 DEF Administer
<1>5. ASSUME NEW s \in Sessions, Conflict(s) \/ Crash(s) PROVE IInv'
  <2>1. /\ GiveUp(s) /\ strayed' = (strayed \/ HalfDone(s)) /\ strayed \in BOOLEAN
        /\ halved' = IF Continuing(s) THEN halved \cup {req[s].event} ELSE halved
        /\ UNCHANGED <<sub, receipts, provider, events, applied, adminOps>>
      BY <1>5 DEF Conflict, Crash, Stop, IInv, TypeOK
  <2>2. /\ strayed' \in BOOLEAN /\ (strayed => strayed')
        /\ strayed' \/ ~HalfDone(s)
      BY <2>1
  <2> QED BY <2>1, <2>2, QuitKeeps
<1>6. ASSUME UNCHANGED vars PROVE IInv'
    BY <1>6
    DEF vars, IInv, TypeOK, Fresh, Place, EventOf, Known, Unprocessed, Chronicle,
        ReceiptsAreTrue, ReceiptIsTrue, Goes, Continuing, CanceledHasDate, PlanOwed,
        Settled, LastPush, Pushing, Ref, Attaching
<1> QED BY <1>1, <1>2, <1>3, <1>4, <1>5, <1>6 DEF Next, Provider

LEMMA InitIInv ==
    ASSUME Init
    PROVE  IInv
<1>1. /\ receipts = {} /\ current = {} /\ req = [s \in Sessions |-> NoReq] /\ events = <<>>
      /\ applied = [e \in Events |-> 0] /\ halved = {} /\ strayed = FALSE /\ adminOps = 0
    BY DEF Init
<1>2. /\ sub \in Subscriptions /\ sub.status = "active" /\ sub.ref \in {0, 1}
      /\ provider \in Seq(Contracts) /\ Len(provider) = sub.ref
      /\ sub.ref # 0 => sub.plan = provider[sub.ref].plan
  <2>1. CASE sub = NewSub /\ provider = <<>>
      BY <2>1, Literals DEF NewSub
  <2>2. CASE \E p \in Plans \ {Free}, c \in BOOLEAN :
                /\ sub = [NewSub EXCEPT !.plan = p, !.canceledAt = c, !.ref = 1]
                /\ provider = <<[plan |-> p, live |-> TRUE, keys |-> {}]>>
    <3>1. PICK p \in Plans \ {Free}, c \in BOOLEAN :
                /\ sub = [NewSub EXCEPT !.plan = p, !.canceledAt = c, !.ref = 1]
                /\ provider = <<[plan |-> p, live |-> TRUE, keys |-> {}]>>
        BY <2>2
    <3>2. [plan |-> p, live |-> TRUE, keys |-> {}] \in Contracts BY DEF Contracts
    <3>3. sub = [status |-> "active", plan |-> p, atPeriodEnd |-> FALSE, canceledAt |-> c,
                 ref |-> 1]
        BY <3>1 DEF NewSub
    <3>4. 1 \in Refs BY BillingConstants DEF Refs
    <3>5. sub \in Subscriptions /\ sub.status = "active" /\ sub.ref = 1 /\ sub.plan = p
        BY <3>3, <3>4 DEF Subscriptions
    <3> QED BY <3>1, <3>2, <3>5
  <2> QED BY <2>1, <2>2 DEF Init
<1>3. TypeOK
  <2>1. events \in Seq(Messages) /\ Len(events) <= MaxEvents BY <1>1, BillingConstants
  <2>2. Len(provider) <= MaxRefs BY <1>2, BillingConstants
  <2>3. req \in [Sessions -> Tasks] BY <1>1, Literals
  <2>4. applied \in [Events -> Nat] BY <1>1
  <2> QED BY <1>1, <1>2, <2>1, <2>2, <2>3, <2>4 DEF TypeOK
<1>4. \A s \in Sessions : Place(s) /\ Known(req[s].loaded)
    BY <1>1, <1>2, Literals DEF Place, Known, Continuing, Committed, Further
<1>5. /\ Fresh /\ Known(sub) /\ Chronicle /\ CanceledHasDate
      /\ receipts \subseteq DOMAIN events
    BY <1>1, <1>2 DEF Fresh, Known, Chronicle, CanceledHasDate
<1>6. ReceiptsAreTrue
  <2>1. \A h \in Handlers : \A e : ~Goes(h, e)
      BY <1>1, Literals DEF Goes, Continuing, Committed, Further, Sessions
  <2> QED BY <1>1, <2>1 DEF ReceiptsAreTrue, ReceiptIsTrue
<1>7. PlanOwed BY <1>1, <1>2, Literals DEF PlanOwed, Settled, Sessions
<1> QED BY <1>3, <1>4, <1>5, <1>7, <1>6 DEF IInv

(* The invariant holds in every reachable state. *)
THEOREM Inductive == Spec => []IInv
BY InitIInv, StepKeepsIInv, PTL DEF Spec

(* Billing.TypeOK for every instance. *)
THEOREM TypeCorrect == Spec => []TypeOK
BY Inductive, PTL DEF IInv

(* The version check of BillingService._commit loses no update: a canceled     *)
(* subscription says since when, whatever crosses its cancellation.            *)
THEOREM CanceledDated == Spec => []CanceledHasDate
BY Inductive, PTL DEF IInv

(* A receipt says that its event was applied whole, is being applied by one    *)
(* handler, or is a checkout that was cut short: exactly one of these, once    *)
(* per event, however often the provider delivers it and to however many       *)
(* processes.                                                                  *)
THEOREM ReceiptsTrue == Spec => []ReceiptsAreTrue
BY Inductive, PTL DEF IInv

(* When nothing is under way, the row's plan is the provider's, unless work    *)
(* was cut short, the provider answered a repeated key, or a checkout adopted  *)
(* another session's commit when it read the row again: for any number of      *)
(* administrators and checkouts whose pushes and commits interleave.           *)
THEOREM PlanSynced == Spec => []PlanInSync
<1>1. IInv => PlanInSync
  <2>1. SUFFICES ASSUME IInv, Quiet, ~strayed, sub.ref # 0
                 PROVE  sub.plan = provider[sub.ref].plan
      BY DEF PlanInSync
  <2>2. /\ \A a \in Admins : ~Pushing(a)
        /\ \A h \in Handlers : ~Attaching(h)
      BY <2>1 DEF Quiet, Pushing, Attaching, Sessions
  <2> QED BY <2>1, <2>2 DEF IInv, PlanOwed, Settled, LastPush
<1> QED BY <1>1, Inductive, PTL
=============================================================================
