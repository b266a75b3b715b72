------------------------- MODULE NotificationsProofs -------------------------
(***************************************************************************)
(* Proofs about Notifications: every delivery is justified, whatever the   *)
(* events, the rules and the number of workers.  What a worker has found   *)
(* out stays true while it sends, because deployments and rules are only   *)
(* ever added.                                                             *)
(***************************************************************************)
EXTENDS Notifications, TLAPS

\* A worker that notifies has its event, its rules and its kind at hand.
LEMMA NotifierRecords ==
    ASSUME NEW x \in Notifiers
    PROVE  /\ x.pc \in {"idle", "list", "count", "send"}
           /\ x.pc = "idle" => x = [pc |-> "idle"]
           /\ x.pc # "idle" => x.event \in Feed
           /\ x.pc \in {"count", "send"} => x.rules \in SUBSET Offered
           /\ x.pc = "send" => /\ x.kind \in Kinds
                               /\ x = [pc |-> "send", event |-> x.event, rules |-> x.rules,
                                       kind |-> x.kind]
BY DEF Notifiers

\* What a worker relies on between its statements
Sound(w) ==
    /\ wrk[w].pc # "idle" => wrk[w].event \in deployments
    /\ wrk[w].pc = "count" => wrk[w].rules \subseteq rules /\ wrk[w].event.status = "success"
    /\ wrk[w].pc = "send" => \A r \in wrk[w].rules : Justified(wrk[w].event, r, wrk[w].kind)
NotifierInv == \A w \in Workers : Sound(w)

IInv == TypeOK /\ NotifierInv /\ DeliveryIsJustified

\* Send takes the matching rules of a known set.
LEMMA SendType ==
    ASSUME TypeOK, NEW w \in Workers, NEW known \in SUBSET Offered, NEW kind \in Kinds,
           wrk[w].event \in Feed, Send(w, known, kind)
    PROVE  /\ wrk' \in [Workers -> Notifiers]
           /\ wrk'[w] = [pc |-> "send", event |-> wrk[w].event, kind |-> kind,
                         rules |-> {r \in known : Covers(r, wrk[w].event)}]
           /\ \A v \in Workers \ {w} : wrk'[v] = wrk[v]
<1> DEFINE new == [pc |-> "send", event |-> wrk[w].event, kind |-> kind,
                   rules |-> {r \in known : Covers(r, wrk[w].event)}]
<1>1. new \in Notifiers
  <2>1. {r \in known : Covers(r, wrk[w].event)} \in SUBSET Offered
    OBVIOUS
  <2> QED BY <2>1 DEF Notifiers
<1>2. wrk' = [wrk EXCEPT ![w] = new] /\ wrk \in [Workers -> Notifiers]
  BY DEF Send, TypeOK
<1> QED BY <1>1, <1>2

\* Every action keeps every variable in its type.
LEMMA TypeStep ==
    ASSUME TypeOK, [Next]_vars
    PROVE  TypeOK'
<1> USE DEF TypeOK
<1>0. [pc |-> "idle"] \in Notifiers
  BY DEF Notifiers
<1>1. ASSUME NEW e \in Feed, RecordWebhook(e) PROVE TypeOK'
  BY <1>1 DEF RecordWebhook
<1>2. ASSUME NEW r \in Offered, CreateRule(r) PROVE TypeOK'
  BY <1>2 DEF CreateRule
<1>3. ASSUME NEW w \in Workers, NEW e \in Feed, SaveDeployment(w, e) PROVE TypeOK'
  <2>1. [pc |-> "list", event |-> e] \in Notifiers
    BY DEF Notifiers
  <2> QED BY <1>3, <2>1 DEF SaveDeployment
<1>4. ASSUME NEW w \in Workers, ListRules(w) PROVE TypeOK'
  <2>1. wrk[w].event \in Feed
    BY <1>4, NotifierRecords DEF ListRules
  <2>2. [pc |-> "count", event |-> wrk[w].event, rules |-> rules] \in Notifiers
    BY <2>1 DEF Notifiers
  <2>3. wrk' \in [Workers -> Notifiers]
    <3>1. CASE Send(w, rules, "failure")
      BY <2>1, <3>1, SendType DEF Kinds
    <3>2. CASE ~Send(w, rules, "failure")
      BY <1>0, <1>4, <2>2, <3>2 DEF ListRules, Done
    <3> QED BY <3>1, <3>2
  <2> QED BY <1>4, <2>3 DEF ListRules
<1>5. ASSUME NEW w \in Workers, CountFailures(w) PROVE TypeOK'
  <2>1. wrk[w].event \in Feed /\ wrk[w].rules \in SUBSET Offered
    BY <1>5, NotifierRecords DEF CountFailures
  <2>2. wrk' \in [Workers -> Notifiers]
    <3>1. CASE Send(w, wrk[w].rules, "recovery")
      BY <2>1, <3>1, SendType DEF Kinds
    <3>2. CASE ~Send(w, wrk[w].rules, "recovery")
      BY <1>0, <1>5, <3>2 DEF CountFailures, Done
    <3> QED BY <3>1, <3>2
  <2> QED BY <1>5, <2>2 DEF CountFailures
<1>6. ASSUME NEW w \in Workers, Deliver(w) PROVE TypeOK'
  <2>1. /\ wrk[w].event \in Feed /\ wrk[w].rules \in SUBSET Offered /\ wrk[w].kind \in Kinds
        /\ wrk[w] = [pc |-> "send", event |-> wrk[w].event, rules |-> wrk[w].rules,
                     kind |-> wrk[w].kind]
    BY <1>6, NotifierRecords DEF Deliver
  <2>2. ASSUME NEW r \in wrk[w].rules PROVE [wrk[w] EXCEPT !.rules = @ \ {r}] \in Notifiers
    BY <2>1 DEF Notifiers
  <2>3. wrk' \in [Workers -> Notifiers]
    BY <1>0, <1>6, <2>2 DEF Deliver, Done
  <2>4. deliveries' \subseteq Deliveries
    BY <1>6, <2>1 DEF Deliver, Deliveries
  <2> QED BY <1>6, <2>3, <2>4 DEF Deliver
<1>7. ASSUME NEW w \in Workers, FailDelivery(w) PROVE TypeOK'
  <2>1. wrk[w].event \in Feed
    BY <1>7, NotifierRecords DEF FailDelivery
  <2>2. faults' \in 0..MaxFaults
    BY <1>7, FeedAssumption DEF FailDelivery
  <2> QED BY <1>0, <1>7, <2>1, <2>2 DEF FailDelivery, Done
<1>8. CASE UNCHANGED vars
  BY <1>8 DEF vars
<1> QED BY <1>1, <1>2, <1>3, <1>4, <1>5, <1>6, <1>7, <1>8 DEF Next, Notify

\* Every action preserves what the workers rely on, and so the deliveries.
LEMMA InvariantStep ==
    ASSUME IInv, [Next]_vars
    PROVE  IInv'
<1>1. TypeOK /\ TypeOK' /\ NotifierInv /\ DeliveryIsJustified
  BY TypeStep DEF IInv
<1>2. deployments \subseteq deployments' /\ rules \subseteq rules'
  BY DEF Next, vars, Notify, RecordWebhook, CreateRule, SaveDeployment, ListRules, CountFailures,
         Deliver, FailDelivery
\* The workers that do not move
<1>3. ASSUME NEW v \in Workers, wrk'[v] = wrk[v]
      PROVE  Sound(v)'
  BY <1>1, <1>2, <1>3 DEF NotifierInv, Sound, Justified
\* It is enough to look at the worker that moves.
<1>4. ASSUME NEW w \in Workers, \A v \in Workers \ {w} : wrk'[v] = wrk[v], Sound(w)'
      PROVE  NotifierInv'
  BY <1>3, <1>4 DEF NotifierInv
<1>5. ASSUME UNCHANGED wrk PROVE NotifierInv'
  BY <1>3, <1>5 DEF NotifierInv
<1>6. DeliveryIsJustified' \/ deliveries' # deliveries
  BY <1>1, <1>2 DEF DeliveryIsJustified, Justified
<1>7. ASSUME NEW w \in Workers, NEW e \in Feed, SaveDeployment(w, e) PROVE IInv'
  <2>1. wrk'[w] = [pc |-> "list", event |-> e] /\ \A v \in Workers \ {w} : wrk'[v] = wrk[v]
    BY <1>1, <1>7 DEF SaveDeployment, TypeOK
  <2>2. Sound(w)'
    BY <1>7, <2>1 DEF SaveDeployment, Sound
  <2> QED BY <1>1, <1>4, <1>6, <1>7, <2>1, <2>2 DEF SaveDeployment, IInv
<1>8. ASSUME NEW w \in Workers, ListRules(w) PROVE IInv'
  <2>1. wrk[w].event \in Feed /\ wrk[w].event \in deployments /\ rules \in SUBSET Offered
    BY <1>1, <1>8, NotifierRecords DEF ListRules, TypeOK, NotifierInv, Sound
  <2>2. CASE wrk[w].event.status = "failed" /\ Send(w, rules, "failure")
    <3>1. wrk'[w] = [pc |-> "send", event |-> wrk[w].event, kind |-> "failure",
                     rules |-> {r \in rules : Covers(r, wrk[w].event)}]
      BY <1>1, <2>1, <2>2, SendType DEF Kinds
    <3>2. \A v \in Workers \ {w} : wrk'[v] = wrk[v]
      BY <1>1, <2>1, <2>2, SendType DEF Kinds
    <3>3. Sound(w)'
      BY <1>2, <2>1, <2>2, <3>1 DEF Sound, Justified
    <3> QED BY <1>1, <1>4, <1>6, <1>8, <3>2, <3>3 DEF ListRules, IInv
  <2>3. CASE ~(wrk[w].event.status = "failed" /\ Send(w, rules, "failure"))
    <3>1. /\ \A v \in Workers \ {w} : wrk'[v] = wrk[v]
          /\ \/ wrk'[w] = [pc |-> "idle"]
             \/ /\ wrk[w].event.status = "success"
                /\ wrk'[w] = [pc |-> "count", event |-> wrk[w].event, rules |-> rules]
      BY <1>1, <1>8, <2>3 DEF ListRules, Done, TypeOK
    <3>2. Sound(w)'
      BY <1>2, <2>1, <3>1 DEF Sound
    <3> QED BY <1>1, <1>4, <1>6, <1>8, <3>1, <3>2 DEF ListRules, IInv
  <2> QED BY <2>2, <2>3
<1>9. ASSUME NEW w \in Workers, CountFailures(w) PROVE IInv'
  <2>1. /\ wrk[w].event \in Feed /\ wrk[w].event \in deployments
        /\ wrk[w].rules \in SUBSET Offered /\ wrk[w].rules \subseteq rules
        /\ wrk[w].event.status = "success"
    BY <1>1, <1>9, NotifierRecords DEF CountFailures, TypeOK, NotifierInv, Sound
  <2>2. CASE \E f \in deployments : FailedBefore(f, wrk[w].event)
    <3>1. Send(w, wrk[w].rules, "recovery")
      BY <1>9, <2>2 DEF CountFailures
    <3>2. /\ wrk'[w] = [pc |-> "send", event |-> wrk[w].event, kind |-> "recovery",
                        rules |-> {r \in wrk[w].rules : Covers(r, wrk[w].event)}]
          /\ \A v \in Workers \ {w} : wrk'[v] = wrk[v]
      BY <1>1, <2>1, <3>1, SendType DEF Kinds
    <3>3. Sound(w)'
      BY <1>2, <2>1, <2>2, <3>2 DEF Sound, Justified
    <3> QED BY <1>1, <1>4, <1>6, <1>9, <3>2, <3>3 DEF CountFailures, IInv
  <2>3. CASE ~\E f \in deployments : FailedBefore(f, wrk[w].event)
    <3>1. wrk'[w] = [pc |-> "idle"] /\ \A v \in Workers \ {w} : wrk'[v] = wrk[v]
      BY <1>1, <1>9, <2>3 DEF CountFailures, Done, TypeOK
    <3> QED BY <1>1, <1>4, <1>6, <1>9, <3>1 DEF CountFailures, IInv, Sound
  <2> QED BY <2>2, <2>3
<1>10. ASSUME NEW w \in Workers, Deliver(w) PROVE IInv'
  <2>1. /\ wrk[w].event \in deployments
        /\ \A r \in wrk[w].rules : Justified(wrk[w].event, r, wrk[w].kind)
    BY <1>1, <1>10 DEF Deliver, NotifierInv, Sound
  <2>2. CASE \E r \in wrk[w].rules :
               /\ deliveries' = deliveries \union
                     {[deployment |-> wrk[w].event, rule |-> r, kind |-> wrk[w].kind]}
               /\ wrk' = [wrk EXCEPT ![w].rules = @ \ {r}]
    <3>1. PICK r \in wrk[w].rules :
               /\ deliveries' = deliveries \union
                     {[deployment |-> wrk[w].event, rule |-> r, kind |-> wrk[w].kind]}
               /\ wrk' = [wrk EXCEPT ![w].rules = @ \ {r}]
      BY <2>2
    <3>2. DeliveryIsJustified'
      BY <1>1, <1>2, <2>1, <3>1 DEF DeliveryIsJustified, Justified
    <3>3. wrk[w] = [pc |-> "send", event |-> wrk[w].event, rules |-> wrk[w].rules,
                    kind |-> wrk[w].kind]
      BY <1>1, <1>10, NotifierRecords DEF Deliver, TypeOK
    <3>4. wrk'[w] = [wrk[w] EXCEPT !.rules = @ \ {r}]
      BY <1>1, <3>1 DEF TypeOK
    <3>5. /\ wrk'[w].pc = "send" /\ wrk'[w].event = wrk[w].event /\ wrk'[w].kind = wrk[w].kind
          /\ wrk'[w].rules \subseteq wrk[w].rules
      BY <3>3, <3>4
    <3>6. \A v \in Workers \ {w} : wrk'[v] = wrk[v]
      BY <1>1, <3>1 DEF TypeOK
    <3>7. Sound(w)'
      BY <1>2, <2>1, <3>5 DEF Sound, Justified
    <3> QED BY <1>1, <1>4, <3>2, <3>6, <3>7 DEF IInv
  <2>3. CASE Done(w) /\ UNCHANGED deliveries
    <3>1. wrk'[w] = [pc |-> "idle"] /\ \A v \in Workers \ {w} : wrk'[v] = wrk[v]
      BY <1>1, <2>3 DEF Done, TypeOK
    <3> QED BY <1>1, <1>4, <1>6, <2>3, <3>1 DEF IInv, Sound
  <2> QED BY <1>10, <2>2, <2>3 DEF Deliver
<1>11. ASSUME NEW w \in Workers, FailDelivery(w) PROVE IInv'
  <2>1. wrk'[w] = [pc |-> "idle"] /\ \A v \in Workers \ {w} : wrk'[v] = wrk[v]
    BY <1>1, <1>11 DEF FailDelivery, Done, TypeOK
  <2> QED BY <1>1, <1>4, <1>6, <1>11, <2>1 DEF FailDelivery, IInv, Sound
<1>12. CASE UNCHANGED <<wrk, deliveries>>
  BY <1>1, <1>5, <1>6, <1>12 DEF IInv
<1> QED BY <1>7, <1>8, <1>9, <1>10, <1>11, <1>12
        DEF Next, vars, Notify, RecordWebhook, CreateRule

\* Before the first event there is nothing to justify.
LEMMA InitInvariant == Init => IInv
<1> SUFFICES ASSUME Init PROVE IInv
  OBVIOUS
<1>1. TypeOK
  BY FeedAssumption DEF Init, TypeOK, Notifiers
<1> QED BY <1>1 DEF Init, IInv, NotifierInv, Sound, DeliveryIsJustified

\* IInv is an invariant of the notifications.
THEOREM Invariant == Spec => []IInv
<1> QED BY InitInvariant, InvariantStep, PTL DEF Spec

\* Every variable keeps its type.
THEOREM TypeCorrect == Spec => []TypeOK
<1>1. IInv => TypeOK
  BY DEF IInv
<1> QED BY <1>1, Invariant, PTL

\* No alert and no recovery is sent that the deployments and rules do not call for.
THEOREM DeliverySafety == Spec => []DeliveryIsJustified
<1>1. IInv => DeliveryIsJustified
  BY DEF IInv
<1> QED BY <1>1, Invariant, PTL

-----------------------------------------------------------------------------
(* What is due is not forgotten.                                           *)

Waiting(e, r) == r \in rules /\ Covers(r, e) /\ Due(e)

\* A worker that still has the rule before it
OnItsWay(w, e, r) ==
    /\ wrk[w].pc # "idle" /\ wrk[w].event = e
    /\ wrk[w].pc \in {"count", "send"} => r \in wrk[w].rules

\* Where a delivery that is due can be
Kept(e, r) ==
    /\ Waiting(e, r)
    /\ \/ e \notin deployments
       \/ Delivered(e, r)
       \/ e \in cut
       \/ \E w \in Workers : OnItsWay(w, e, r)

\* Nothing of what makes a delivery due, sent or cut off is ever taken back.
LEMMA DueStays ==
    ASSUME TypeOK, [Next]_vars, NEW e \in Feed, NEW r \in Offered
    PROVE  /\ Waiting(e, r) => Waiting(e, r)'
           /\ Delivered(e, r) => Delivered(e, r)'
           /\ e \in cut => e \in cut'
<1>1. /\ deployments \subseteq deployments' /\ rules \subseteq rules'
      /\ deliveries \subseteq deliveries' /\ cut \subseteq cut'
  BY DEF Next, vars, Notify, RecordWebhook, CreateRule, SaveDeployment, ListRules, CountFailures,
         Deliver, FailDelivery
<1> QED BY <1>1 DEF Waiting, Due, Delivered

\* A step of the worker that has the rule before it keeps it, sends it or is cut off.
LEMMA WayStep ==
    ASSUME IInv, NEW e \in Feed, NEW r \in Offered, NEW w \in Workers,
           Waiting(e, r), OnItsWay(w, e, r), Notify(w) \/ FailDelivery(w)
    PROVE  OnItsWay(w, e, r)' \/ Delivered(e, r)' \/ e \in cut'
<1>1. TypeOK /\ wrk[w].pc # "idle" /\ wrk[w].event = e /\ rules \in SUBSET Offered
  BY DEF IInv, TypeOK, OnItsWay
<1>2. CASE ListRules(w)
  <2>1. CASE e.status = "failed"
    <3>1. Send(w, rules, "failure")
      BY <1>1, <1>2, <2>1 DEF ListRules
    <3>2. wrk'[w] = [pc |-> "send", event |-> wrk[w].event, kind |-> "failure",
                     rules |-> {q \in rules : Covers(q, wrk[w].event)}]
      <4>1. wrk[w].event \in Feed /\ "failure" \in Kinds
        BY <1>1 DEF Kinds
      <4> QED BY <1>1, <3>1, <4>1, SendType
    <3> QED BY <1>1, <3>2 DEF OnItsWay, Waiting
  <2>2. CASE e.status # "failed"
    <3>1. e.status = "success"
      BY <2>2 DEF Waiting, Due
    <3>2. wrk'[w] = [pc |-> "count", event |-> e, rules |-> rules]
      BY <1>1, <1>2, <3>1 DEF ListRules, TypeOK
    <3> QED BY <3>2 DEF OnItsWay, Waiting
  <2> QED BY <2>1, <2>2
<1>3. CASE CountFailures(w)
  <2>1. wrk[w].pc = "count" /\ e.status = "success" /\ r \in wrk[w].rules
        /\ wrk[w].rules \in SUBSET Offered
    BY <1>1, <1>3, NotifierRecords
       DEF CountFailures, OnItsWay, IInv, NotifierInv, Sound, TypeOK
  <2>2. \E f \in deployments : FailedBefore(f, e)
    BY <2>1 DEF Waiting, Due
  <2>3. Send(w, wrk[w].rules, "recovery")
    BY <1>1, <1>3, <2>2 DEF CountFailures
  <2>4. wrk'[w] = [pc |-> "send", event |-> wrk[w].event, kind |-> "recovery",
                   rules |-> {q \in wrk[w].rules : Covers(q, wrk[w].event)}]
    <3>1. wrk[w].event \in Feed /\ "recovery" \in Kinds
      BY <1>1 DEF Kinds
    <3> QED BY <1>1, <2>1, <2>3, <3>1, SendType
  <2> QED BY <1>1, <2>1, <2>4 DEF OnItsWay, Waiting
<1>4. CASE Deliver(w)
  <2>1. /\ wrk[w].pc = "send" /\ r \in wrk[w].rules /\ wrk[w].kind \in Kinds
        /\ wrk[w] = [pc |-> "send", event |-> wrk[w].event, rules |-> wrk[w].rules,
                     kind |-> wrk[w].kind]
    BY <1>1, <1>4, NotifierRecords DEF Deliver, OnItsWay, TypeOK
  <2>2. PICK q \in wrk[w].rules :
             /\ deliveries' = deliveries \union
                   {[deployment |-> wrk[w].event, rule |-> q, kind |-> wrk[w].kind]}
             /\ wrk' = [wrk EXCEPT ![w].rules = @ \ {q}]
    BY <1>4, <2>1 DEF Deliver
  <2>3. CASE q = r
    BY <1>1, <2>1, <2>2, <2>3 DEF Delivered
  <2>4. CASE q # r
    <3>1. wrk'[w] = [wrk[w] EXCEPT !.rules = @ \ {q}]
      BY <1>1, <2>2 DEF TypeOK
    <3>2. wrk'[w].pc = "send" /\ wrk'[w].event = e /\ r \in wrk'[w].rules
      BY <1>1, <2>1, <2>4, <3>1
    <3> QED BY <3>2 DEF OnItsWay
  <2> QED BY <2>3, <2>4
<1>5. CASE FailDelivery(w)
  BY <1>1, <1>5 DEF FailDelivery
<1> QED BY <1>2, <1>3, <1>4, <1>5 DEF Notify

\* Whoever takes a step, a delivery that is due stays where it can be.
LEMMA KeptStep ==
    ASSUME IInv, [Next]_vars, NEW e \in Feed, NEW r \in Offered, Kept(e, r)
    PROVE  Kept(e, r)'
<1>1. /\ Waiting(e, r)' /\ Waiting(e, r) /\ TypeOK
      /\ Delivered(e, r) => Delivered(e, r)'
      /\ e \in cut => e \in cut'
  BY DueStays DEF IInv, Kept
<1>2. CASE Delivered(e, r) \/ e \in cut
  BY <1>1, <1>2 DEF Kept
<1>3. CASE e \notin deployments
  <2>1. CASE e \notin deployments'
    BY <1>1, <2>1 DEF Kept
  <2>2. CASE e \in deployments'
    <3>1. PICK w \in Workers : SaveDeployment(w, e)
      BY <1>3, <2>2 DEF Next, vars, Notify, RecordWebhook, CreateRule, SaveDeployment, ListRules,
                        CountFailures, Deliver, FailDelivery
    <3>2. wrk'[w] = [pc |-> "list", event |-> e]
      BY <1>1, <3>1 DEF SaveDeployment, TypeOK
    <3>3. OnItsWay(w, e, r)'
      BY <3>2 DEF OnItsWay
    <3> QED BY <1>1, <3>3 DEF Kept
  <2> QED BY <2>1, <2>2
<1>4. ASSUME NEW w \in Workers, OnItsWay(w, e, r) PROVE Kept(e, r)'
  <2>1. CASE wrk'[w] = wrk[w]
    <3>1. OnItsWay(w, e, r)'
      BY <1>4, <2>1 DEF OnItsWay
    <3> QED BY <1>1, <3>1 DEF Kept
  <2>2. CASE wrk'[w] # wrk[w]
    <3>1. Notify(w) \/ FailDelivery(w)
      <4>1. PICK v \in Workers : (\E d \in Feed : SaveDeployment(v, d)) \/ Notify(v) \/ FailDelivery(v)
        BY <2>2 DEF Next, vars, RecordWebhook, CreateRule
      <4>2. v = w
        BY <1>1, <2>2, <4>1 DEF SaveDeployment, Notify, ListRules, CountFailures, Deliver,
                                FailDelivery, Done, Send, TypeOK
      <4>3. ~\E d \in Feed : SaveDeployment(w, d)
        BY <1>4 DEF SaveDeployment, OnItsWay
      <4> QED BY <4>1, <4>2, <4>3
    <3>2. OnItsWay(w, e, r)' \/ Delivered(e, r)' \/ e \in cut'
      BY <1>1, <1>4, <3>1, WayStep
    <3> QED BY <1>1, <3>2 DEF Kept
  <2> QED BY <2>1, <2>2
<1> QED BY <1>2, <1>3, <1>4 DEF Kept

\* A worker that is through with its deployment has sent all that was due when it was
\* created, for any number of workers and rules, or was cut off by an error (Process).
THEOREM ForgottenSafety == Spec => NoneForgotten
<1> SUFFICES ASSUME NEW e \in Feed, NEW r \in Offered
             PROVE  Spec =>
                      [](e \notin deployments /\ r \in rules /\ Covers(r, e) /\ Due(e)
                         => [](e \in deployments /\ ~Held(e) => Delivered(e, r) \/ e \in cut))
  BY DEF NoneForgotten
<1> DEFINE Ahead == e \notin deployments /\ r \in rules /\ Covers(r, e) /\ Due(e)
           Safe == e \in deployments /\ ~Held(e) => Delivered(e, r) \/ e \in cut
           Inv == Kept(e, r)
<1>1. Ahead => Inv
  BY DEF Kept, Waiting
<1>2. IInv /\ Inv /\ [Next]_vars => Inv'
  BY KeptStep
<1>3. Inv => Safe
  BY DEF Kept, OnItsWay, Held
<1> HIDE DEF Inv
<1> QED BY <1>1, <1>2, <1>3, Invariant, PTL DEF Spec
=============================================================================
