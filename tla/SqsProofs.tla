------------------------------ MODULE SqsProofs ------------------------------
(***************************************************************************)
(* Proofs about SqsPipeline, for any number of events, messages,           *)
(* invocations, receives and faults.  What carries them is that a message  *)
(* is in flight with one invocation at a time, and that a record which     *)
(* ProcessSQSBatch is through with and has not reported as failed names an *)
(* event whose deployment is stored.                                       *)
(***************************************************************************)
EXTENDS SqsPipeline, FiniteSetTheorems, TLAPS

Working == {"save", "notify", "error", "list"}

-----------------------------------------------------------------------------
(* The invariant.                                                          *)

\* A message in the batch of an invocation is hidden from the others.
BatchInv ==
    /\ \A l \in Lambdas : \A m \in inv[l].batch : place[m] = "inflight"
    /\ \A k, l \in Lambdas : k # l => inv[k].batch \intersect inv[l].batch = {}

\* A record that is neither still to come, nor failed, nor in work is done.
RecordInv ==
    \A l \in Lambdas :
        /\ inv[l].todo \subseteq inv[l].batch
        /\ inv[l].failed \subseteq inv[l].batch
        /\ inv[l].pc \in Working => inv[l].msg \in inv[l].batch
        /\ \A m \in inv[l].batch \ (inv[l].todo \union inv[l].failed) :
             \/ event[m] \in deployed
             \/ m = inv[l].msg /\ inv[l].pc \in {"save", "error", "list"}

DeletedInv == \A m \in Messages : place[m] = "deleted" => event[m] \in deployed

Published(e) == \E m \in Messages : Sent(m) /\ event[m] = e

\* A status other than queued was written for a message, and so was a 202.
StatusInv == \A e \in Events : status[e] \in {"processed", "dead_letter"} => Published(e)
AcceptedInv == \A e \in accepted : Published(e)

\* A message counts as received from its first receive on.
ReceivedInv ==
    \A m \in Messages : /\ place[m] = "unsent" => receives[m] = 0
                        /\ place[m] = "inflight" => receives[m] > 0

\* Only a message at its last receive is listed; its event is processed only if
\* another message of it was received.
RivalReceived(l) ==
    \E m \in Messages \ {inv[l].msg} : receives[m] > 0 /\ event[m] = Current(l)
Listable(l) ==
    inv[l].pc = "list" => /\ receives[inv[l].msg] = MaxReceives
                          /\ status[Current(l)] = "processed" => RivalReceived(l)
ListInv == \A l \in Lambdas : Listable(l)

IInv == /\ TypeOK /\ BatchInv /\ RecordInv /\ DeletedInv
        /\ StatusInv /\ AcceptedInv /\ ReceivedInv /\ ListInv

-----------------------------------------------------------------------------
(* Type correctness.                                                       *)

\* The fields of an invocation keep their types when they are set one by one.
LEMMA InvocationRecords ==
    /\ Idle \in Invocations
    /\ \A b \in SUBSET Messages : Invoked(b) \in Invocations
    /\ \A x \in Invocations :
         /\ x.pc \in Working \union {"idle", "next"} /\ x.msg \in Messages \union {0}
         /\ x.todo \subseteq Messages /\ x.failed \subseteq Messages /\ x.batch \subseteq Messages
         /\ \A p \in Working : [x EXCEPT !.pc = p] \in Invocations
         /\ \A f \in SUBSET Messages :
              [x EXCEPT !.pc = "next", !.msg = 0, !.failed = f] \in Invocations
         /\ \A p \in Working, m \in Messages, t \in SUBSET Messages :
              [x EXCEPT !.pc = p, !.msg = m, !.todo = t] \in Invocations
  BY DEF Invocations, Idle, Invoked, Working

\* What each way to go on makes of the invocation.
LEMMA Moves ==
    ASSUME TypeOK, NEW l \in Lambdas
    PROVE  /\ \A p \in Working : Goto(l, p) => inv' \in [Lambdas -> Invocations]
           /\ \A f \in SUBSET Messages : NextRecord(l, f) => inv' \in [Lambdas -> Invocations]
           /\ \A b \in SUBSET Messages : inv' = [inv EXCEPT ![l] = Invoked(b)]
                                           => inv' \in [Lambdas -> Invocations]
           /\ inv' = [inv EXCEPT ![l] = Idle] => inv' \in [Lambdas -> Invocations]
<1> USE InvocationRecords DEF TypeOK
<1>1. ASSUME NEW p \in Working, Goto(l, p) PROVE inv' \in [Lambdas -> Invocations]
  <2>1. inv' = [inv EXCEPT ![l] = [inv[l] EXCEPT !.pc = p]]
    BY <1>1 DEF Goto
  <2> QED BY <2>1
<1>2. ASSUME NEW f \in SUBSET Messages, NextRecord(l, f) PROVE inv' \in [Lambdas -> Invocations]
  <2>1. inv' = [inv EXCEPT ![l] = [inv[l] EXCEPT !.pc = "next", !.msg = 0, !.failed = f]]
    BY <1>2 DEF NextRecord
  <2> QED BY <2>1
<1>3. ASSUME NEW b \in SUBSET Messages, inv' = [inv EXCEPT ![l] = Invoked(b)]
      PROVE  inv' \in [Lambdas -> Invocations]
  BY <1>3
<1>4. ASSUME inv' = [inv EXCEPT ![l] = Idle] PROVE inv' \in [Lambdas -> Invocations]
  BY <1>4
<1> QED BY <1>1, <1>2, <1>3, <1>4

\* Requests are typed by where they stand.
LEMMA RequestRecords ==
    /\ [pc |-> "idle"] \in Requests
    /\ \A p \in {"lookup", "publish"}, e \in Events : [pc |-> p, event |-> e] \in Requests
    /\ \A x \in Requests : x.pc # "idle" => x.event \in Events
  BY DEF Requests

LEMMA JobRecords ==
    /\ [pc |-> "idle"] \in Jobs
    /\ \A p \in {"requeue", "publish", "complete"}, e \in Events, n \in Nat :
         [pc |-> p, event |-> e, row |-> n] \in Jobs
    /\ \A x \in Jobs : x.pc # "idle" =>
         /\ x.event \in Events /\ x.row \in Nat
         /\ \A p \in {"requeue", "publish", "complete"} : [x EXCEPT !.pc = p] \in Jobs
  BY DEF Jobs

\* SendMessage makes one message visible that was not sent before.
LEMMA PublishFrame ==
    ASSUME TypeOK, NEW e \in Events, Publish(e)
    PROVE  /\ place' \in [Messages -> Places] /\ event' \in [Messages -> Events]
           /\ \E n \in Messages :
                /\ place[n] = "unsent" /\ place'[n] = "visible" /\ event'[n] = e
                /\ \A m \in Messages \ {n} : place'[m] = place[m] /\ event'[m] = event[m]
  BY DEF TypeOK, Publish, Places

\* A step of the API.
Api == (\E h \in Handlers : HandlerStep(h)) \/ (\E a \in Admins : AdminStep(a))

\* The API touches neither deployments nor the worker, writes no status but queued,
\* and sends a message only where a request is about to.
LEMMA ApiFrame ==
    ASSUME TypeOK, Api
    PROVE  /\ UNCHANGED <<lastRow, deployed, alerted, workVars>>
           /\ \A e \in Events : status'[e] # status[e] =>
                status'[e] = "queued" /\ status[e] # "pruned"
           /\ \/ UNCHANGED <<event, place>>
              \/ \E e \in Events : Publish(e) /\ Publishing(e) /\ status' = status
<1> USE DEF TypeOK, dbVars
<1>1. ASSUME NEW h \in Handlers, HandlerStep(h)
      PROVE  /\ UNCHANGED <<lastRow, deployed, alerted, workVars>>
             /\ \A e \in Events : status'[e] # status[e] =>
                  status'[e] = "queued" /\ status[e] # "pruned"
             /\ \/ UNCHANGED <<event, place>>
                \/ \E e \in Events : Publish(e) /\ Publishing(e) /\ status' = status
  <2>1. req[h].pc # "idle" => req[h].event \in Events
    BY RequestRecords
  <2>2. CASE (\E e \in Events : RecordWebhook(h, e)) \/ LookupDuplicate(h)
    BY <2>2 DEF RecordWebhook, LookupDuplicate
  <2>3. CASE PublishWebhook(h) \/ FailWebhook(h)
    BY <2>1, <2>3 DEF PublishWebhook, FailWebhook, Publishing
  <2> QED BY <1>1, <2>2, <2>3 DEF HandlerStep
<1>2. ASSUME NEW a \in Admins, AdminStep(a)
      PROVE  /\ UNCHANGED <<lastRow, deployed, alerted, workVars>>
             /\ \A e \in Events : status'[e] # status[e] =>
                  status'[e] = "queued" /\ status[e] # "pruned"
             /\ \/ UNCHANGED <<event, place>>
                \/ \E e \in Events : Publish(e) /\ Publishing(e) /\ status' = status
  <2>1. job[a].pc # "idle" => job[a].event \in Events
    BY JobRecords
  <2>2. CASE \/ (\E e \in Events : LookupDeadLetter(a, e)) \/ RequeueDeadLetter(a)
             \/ CompleteReprocess(a)
    BY <2>2 DEF LookupDeadLetter, RequeueDeadLetter, CompleteReprocess, Recorded
  <2>3. CASE PublishDeadLetter(a) \/ FailReprocess(a)
    BY <2>1, <2>3 DEF PublishDeadLetter, FailReprocess, Publishing
  <2> QED BY <1>2, <2>2, <2>3 DEF AdminStep
<1> QED BY <1>1, <1>2 DEF Api

\* What the API makes of the messages: those that were sent stay where they are.
LEMMA ApiMessages ==
    ASSUME TypeOK, Api
    PROVE  /\ place' \in [Messages -> Places] /\ event' \in [Messages -> Events]
           /\ \A m \in Messages : Sent(m) => place'[m] = place[m] /\ event'[m] = event[m]
           /\ \A m \in Messages : ~Sent(m) => place'[m] \in {"unsent", "visible"}
<1>1. CASE UNCHANGED <<event, place>>
  BY <1>1 DEF TypeOK, Sent
<1>2. CASE \E e \in Events : Publish(e)
  BY <1>2, PublishFrame DEF Sent
<1> QED BY <1>1, <1>2, ApiFrame

\* The handlers keep every variable in its type.
LEMMA HandlerType ==
    ASSUME TypeOK, NEW h \in Handlers, HandlerStep(h)
    PROVE  TypeOK'
<1> USE DEF TypeOK, dbVars, workVars
<1>1. place' \in [Messages -> Places] /\ event' \in [Messages -> Events]
  BY ApiMessages DEF Api
<1>2. req[h].pc # "idle" => req[h].event \in Events
  BY RequestRecords
<1>3. ASSUME NEW e \in Events, RecordWebhook(h, e) PROVE TypeOK'
  <2>1. status' \in [Events -> Statuses] /\ req' \in [Handlers -> Requests]
    BY <1>3, RequestRecords DEF RecordWebhook, Statuses
  <2> QED BY <1>3, <2>1 DEF RecordWebhook
<1>4. ASSUME LookupDuplicate(h) PROVE TypeOK'
  <2>1. req' \in [Handlers -> Requests] /\ accepted' \subseteq Events
    BY <1>2, <1>4, RequestRecords DEF LookupDuplicate
  <2> QED BY <1>4, <2>1 DEF LookupDuplicate
<1>5. ASSUME PublishWebhook(h) PROVE TypeOK'
  <2>1. /\ req' \in [Handlers -> Requests] /\ accepted' \subseteq Events
        /\ refused' \subseteq Events
    BY <1>2, <1>5, RequestRecords DEF PublishWebhook
  <2> QED BY <1>1, <1>5, <2>1 DEF PublishWebhook
<1>6. ASSUME FailWebhook(h) PROVE TypeOK'
  <2>1. req' \in [Handlers -> Requests] /\ refused' \subseteq Events
    BY <1>2, <1>6, RequestRecords DEF FailWebhook
  <2>2. faults' \in 0..MaxFaults
    BY <1>6, SqsAssumption DEF FailWebhook, Fault, SqsAssumption
  <2> QED BY <1>1, <1>6, <2>1, <2>2 DEF FailWebhook
<1> QED BY <1>3, <1>4, <1>5, <1>6 DEF HandlerStep

LEMMA AdminType ==
    ASSUME TypeOK, NEW a \in Admins, AdminStep(a)
    PROVE  TypeOK'
<1> USE DEF TypeOK, dbVars, workVars
<1>1. place' \in [Messages -> Places] /\ event' \in [Messages -> Events]
  BY ApiMessages DEF Api
<1>2. job[a].pc # "idle" => job[a].event \in Events /\ job[a].row \in Nat
  BY JobRecords
<1>3. ASSUME NEW e \in Events, LookupDeadLetter(a, e) PROVE TypeOK'
  <2>1. job' \in [Admins -> Jobs]
    BY <1>3, JobRecords DEF LookupDeadLetter
  <2> QED BY <1>3, <2>1 DEF LookupDeadLetter
<1>4. ASSUME RequeueDeadLetter(a) PROVE TypeOK'
  <2>1. job' \in [Admins -> Jobs]
    BY <1>4, JobRecords DEF RequeueDeadLetter
  <2>2. status' \in [Events -> Statuses]
    BY <1>4 DEF RequeueDeadLetter, Statuses
  <2> QED BY <1>4, <2>1, <2>2 DEF RequeueDeadLetter
<1>5. ASSUME PublishDeadLetter(a) PROVE TypeOK'
  <2>1. job' \in [Admins -> Jobs] /\ resent' \subseteq Events /\ refused' \subseteq Events
    BY <1>2, <1>5, JobRecords DEF PublishDeadLetter
  <2> QED BY <1>1, <1>5, <2>1 DEF PublishDeadLetter
<1>6. ASSUME CompleteReprocess(a) PROVE TypeOK'
  <2>1. job' \in [Admins -> Jobs] /\ dlq' \in [Events -> Nat]
    BY <1>2, <1>6, JobRecords DEF CompleteReprocess
  <2> QED BY <1>6, <2>1 DEF CompleteReprocess
<1>7. ASSUME FailReprocess(a) PROVE TypeOK'
  <2>1. job' \in [Admins -> Jobs] /\ refused' \subseteq Events
    BY <1>2, <1>7, JobRecords DEF FailReprocess
  <2>2. faults' \in 0..MaxFaults
    BY <1>7, SqsAssumption DEF FailReprocess, Fault, SqsAssumption
  <2> QED BY <1>1, <1>7, <2>1, <2>2 DEF FailReprocess
<1> QED BY <1>3, <1>4, <1>5, <1>6, <1>7 DEF AdminStep

\* Every step keeps every variable in its type.
LEMMA TypeStep ==
    ASSUME TypeOK, Next,
           \A l \in Lambdas : inv[l].pc \in Working => inv[l].msg \in Messages
    PROVE  TypeOK'
<1> USE SqsAssumption DEF TypeOK, dbVars, apiVars
<1>1. Fault => faults' \in 0..MaxFaults
  BY DEF Fault
<1>2. \A l \in Lambdas : inv[l].pc \in Working => Current(l) \in Events
  BY DEF Current
<1>3. \A l \in Lambdas : inv[l] \in Invocations
  OBVIOUS
<1>4. ASSUME Api PROVE TypeOK'
  BY <1>4, HandlerType, AdminType DEF Api
<1>5. ASSUME NEW m \in Messages, Redrive(m) PROVE TypeOK'
  BY <1>5 DEF Redrive, Places
<1>6. ASSUME NEW l \in Lambdas, NEW batch \in SUBSET Messages, Receive(l, batch) PROVE TypeOK'
  <2>1. place' \in [Messages -> Places] /\ receives' \in [Messages -> 0..MaxReceives]
    BY <1>6 DEF Receive, Places
  <2>2. inv' \in [Lambdas -> Invocations]
    BY <1>6, Moves DEF Receive
  <2> QED BY <1>6, <2>1, <2>2 DEF Receive
<1>7. ASSUME NEW l \in Lambdas, Work(l) \/ FailSave(l) \/ Timeout(l) \/ PruneRetained(l) PROVE TypeOK'
  <2>1. ASSUME Fetch(l) PROVE TypeOK'
    <3> DEFINE parsed(m) == Recorded(event[m]) /\ event[m] \notin Malformed
    <3>1. PICK m \in inv[l].todo :
            inv' = [inv EXCEPT ![l].pc = IF parsed(m) THEN "save" ELSE "error",
                               ![l].msg = m, ![l].todo = inv[l].todo \ {m}]
      BY <2>1 DEF Fetch
    <3> DEFINE p == IF parsed(m) THEN "save" ELSE "error"
    <3>2. p \in Working /\ m \in Messages /\ inv[l].todo \ {m} \in SUBSET Messages
      BY <1>3, InvocationRecords DEF Working
    <3>3. inv' = [inv EXCEPT ![l] =
                    [inv[l] EXCEPT !.pc = p, !.msg = m, !.todo = inv[l].todo \ {m}]]
      BY <3>1
    <3> HIDE DEF p
    <3>4. inv' \in [Lambdas -> Invocations]
      BY <1>3, <3>2, <3>3, InvocationRecords
    <3> QED BY <2>1, <3>4 DEF Fetch
  <2>2. ASSUME SaveDeployment(l) \/ FailSave(l) PROVE TypeOK'
    <3>1. Current(l) \in Events
      BY <1>2, <2>2 DEF SaveDeployment, FailSave, Working
    <3>2. /\ status' \in [Events -> Statuses]
          /\ deployed' \subseteq Events
      BY <2>2, <3>1 DEF SaveDeployment, FailSave, CommitDeployment, Statuses
    <3>3. inv[l].failed \in SUBSET Messages
      BY <1>3, InvocationRecords
    <3>4. inv' \in [Lambdas -> Invocations]
      BY <2>2, <3>3, Moves DEF SaveDeployment, FailSave, Working
    <3> QED BY <1>1, <2>2, <3>2, <3>4 DEF SaveDeployment, FailSave
  <2>3. ASSUME DeliverNotifications(l) PROVE TypeOK'
    <3>1. alerted' \subseteq Events
      BY <1>2, <2>3 DEF DeliverNotifications, Working
    <3>2. inv[l].failed \in SUBSET Messages
      BY <1>3, InvocationRecords
    <3>3. inv' \in [Lambdas -> Invocations]
      BY <2>3, <3>2, Moves DEF DeliverNotifications
    <3> QED BY <1>1, <2>3, <3>1, <3>3 DEF DeliverNotifications
  <2>4. ASSUME HandleError(l) \/ AddDeadLetter(l) PROVE TypeOK'
    <3>1. inv[l].pc \in Working
      BY <2>4 DEF HandleError, AddDeadLetter, Working
    <3>2. Current(l) \in Events /\ inv[l].failed \union {inv[l].msg} \in SUBSET Messages
      <4>1. Current(l) \in Events /\ inv[l].msg \in Messages
        BY <1>2, <3>1
      <4>2. inv[l].failed \subseteq Messages
        BY <1>3, InvocationRecords, Zenon
      <4> QED BY <4>1, <4>2
    <3>3. inv' \in [Lambdas -> Invocations]
      <4>1. ASSUME HandleError(l) PROVE inv' \in [Lambdas -> Invocations]
        BY <3>2, <4>1, Moves DEF HandleError, Working
      <4>2. ASSUME AddDeadLetter(l) PROVE inv' \in [Lambdas -> Invocations]
        BY <3>2, <4>2, Moves DEF AddDeadLetter
      <4> QED BY <2>4, <4>1, <4>2
    <3>4. status' \in [Events -> Statuses] /\ dlq' \in [Events -> Nat] /\ lastRow' \in Nat
      BY <2>4, <3>2 DEF HandleError, AddDeadLetter, Statuses
    <3>5. unlisted' \subseteq Messages
      BY <1>3, <2>4, <3>1, <3>2, InvocationRecords DEF HandleError, AddDeadLetter
    <3> QED BY <1>1, <2>4, <3>3, <3>4, <3>5 DEF HandleError, AddDeadLetter
  <2>5. ASSUME Respond(l) \/ Timeout(l) PROVE TypeOK'
    <3>1. place' \in [Messages -> Places]
      BY <2>5 DEF Respond, Timeout, Return, Places
    <3>2. inv' \in [Lambdas -> Invocations]
      BY <2>5, Moves DEF Respond, Timeout, Return
    <3>3. unlisted' \subseteq Messages
      BY <1>3, <2>5, InvocationRecords DEF Respond, Timeout, Begun
    <3> QED BY <1>1, <2>5, <3>1, <3>2, <3>3 DEF Respond, Timeout
  <2>6. ASSUME PruneRetained(l) PROVE TypeOK'
    <3>1. status' \in [Events -> Statuses] /\ dlq' \in [Events -> Nat]
      BY <2>6 DEF PruneRetained, Statuses
    <3> QED BY <2>6, <3>1 DEF PruneRetained
  <2> QED BY <1>7, <2>1, <2>2, <2>3, <2>4, <2>5, <2>6 DEF Work
<1> QED BY <1>4, <1>5, <1>6, <1>7 DEF Next, Api, LambdaStep, Poll

-----------------------------------------------------------------------------
(* What the steps leave as it was.                                         *)

\* A message that was sent stays sent, for the same event.
LEMMA SentStays ==
    ASSUME TypeOK, Next, NEW m \in Messages, Sent(m)
    PROVE  Sent(m)' /\ event'[m] = event[m]
<1> USE DEF TypeOK, dbVars, Sent
<1>1. CASE Api
  BY <1>1, ApiMessages
<1>2. CASE \E n \in Messages : Redrive(n)
  BY <1>2 DEF Redrive
<1>3. ASSUME NEW l \in Lambdas, LambdaStep(l) PROVE Sent(m)' /\ event'[m] = event[m]
  BY <1>3 DEF LambdaStep, Poll, Receive, Work, Fetch, SaveDeployment, FailSave,
              DeliverNotifications, HandleError, AddDeadLetter, Respond, Timeout, Return, PruneRetained
<1> QED BY <1>1, <1>2, <1>3 DEF Next, Api

\* An event that was published stays published.
LEMMA PublishedStays ==
    ASSUME TypeOK, Next, NEW e, Published(e)
    PROVE  Published(e)'
<1>1. PICK m \in Messages : Sent(m) /\ event[m] = e
  BY DEF Published
<1>2. Sent(m)' /\ event'[m] = e
  BY <1>1, SentStays
<1> QED BY <1>2 DEF Published

\* A step of ProcessSQSBatch that is about one record, or starts or ends one.
RecordStep(l) == \/ Fetch(l) \/ SaveDeployment(l) \/ FailSave(l) \/ DeliverNotifications(l)
                 \/ HandleError(l) \/ AddDeadLetter(l)

\* The invocation goes on with the same batch; the others and the queue do not see it.
LEMMA RecordFrame ==
    ASSUME TypeOK, NEW l \in Lambdas, RecordStep(l)
    PROVE  /\ UNCHANGED <<apiVars, event, place, receives>>
           /\ \A k \in Lambdas \ {l} : inv'[k] = inv[k]
           /\ inv'[l].batch = inv[l].batch
           /\ deployed \subseteq deployed'
<1> USE DEF TypeOK, Invocations
<1>1. CASE Fetch(l)
  BY <1>1 DEF Fetch, dbVars
<1>2. CASE SaveDeployment(l) \/ FailSave(l)
  BY <1>2 DEF SaveDeployment, FailSave, CommitDeployment, Goto, NextRecord
<1>3. CASE DeliverNotifications(l) \/ HandleError(l) \/ AddDeadLetter(l)
  BY <1>3 DEF DeliverNotifications, HandleError, AddDeadLetter, Goto, NextRecord, dbVars
<1> QED BY <1>1, <1>2, <1>3 DEF RecordStep

\* The fields an invocation that goes on does not touch.
LEMMA MoveFields ==
    ASSUME TypeOK, NEW l \in Lambdas
    PROVE  /\ \A p : Goto(l, p) => /\ inv'[l].pc = p /\ inv'[l].msg = inv[l].msg
                                   /\ inv'[l].todo = inv[l].todo /\ inv'[l].failed = inv[l].failed
           /\ \A f : NextRecord(l, f) => /\ inv'[l].pc = "next" /\ inv'[l].failed = f
                                         /\ inv'[l].todo = inv[l].todo
  BY DEF TypeOK, Invocations, Goto, NextRecord

-----------------------------------------------------------------------------
(* Each part of the invariant, step by step.                               *)

\* The record invariant of one invocation
Tracked(l) ==
    /\ inv[l].todo \subseteq inv[l].batch
    /\ inv[l].failed \subseteq inv[l].batch
    /\ inv[l].pc \in Working => inv[l].msg \in inv[l].batch
    /\ \A m \in inv[l].batch \ (inv[l].todo \union inv[l].failed) :
         \/ event[m] \in deployed
         \/ m = inv[l].msg /\ inv[l].pc \in {"save", "error", "list"}

\* While a record is worked on, each record of the batch is tracked.
LEMMA TrackedStep ==
    ASSUME TypeOK, NEW l \in Lambdas, Tracked(l), RecordStep(l)
    PROVE  Tracked(l)'
<1> USE DEF Tracked, Working
<1>1. /\ event' = event /\ inv'[l].batch = inv[l].batch /\ deployed \subseteq deployed'
  BY RecordFrame
<1>2. CASE Fetch(l)
  <2>1. PICK m \in inv[l].todo :
          /\ inv'[l].pc \in {"save", "error"} /\ inv'[l].msg = m
          /\ inv'[l].todo = inv[l].todo \ {m} /\ inv'[l].failed = inv[l].failed
    BY <1>2 DEF Fetch, TypeOK, Invocations
  <2>2. inv[l].pc = "next"
    BY <1>2 DEF Fetch
  <2> QED BY <1>1, <2>1, <2>2
<1>3. CASE SaveDeployment(l)
  <2>1. event[inv[l].msg] \in deployed'
    BY <1>3 DEF SaveDeployment, CommitDeployment, Current
  <2>2. /\ inv[l].pc = "save" /\ inv'[l].todo = inv[l].todo /\ inv'[l].failed = inv[l].failed
        /\ \/ inv'[l].pc = "next"
           \/ inv'[l].pc = "notify" /\ inv'[l].msg = inv[l].msg
    BY <1>3, MoveFields DEF SaveDeployment
  <2> QED BY <1>1, <2>1, <2>2
<1>4. CASE FailSave(l)
  <2>1. /\ inv[l].pc = "save" /\ inv'[l].todo = inv[l].todo /\ inv'[l].failed = inv[l].failed
        /\ inv'[l].pc = "error" /\ inv'[l].msg = inv[l].msg
    BY <1>4, MoveFields DEF FailSave
  <2> QED BY <1>1, <2>1
<1>5. CASE DeliverNotifications(l)
  <2>1. /\ inv[l].pc = "notify" /\ inv'[l].todo = inv[l].todo /\ inv'[l].failed = inv[l].failed
        /\ inv'[l].pc = "next"
    BY <1>5, MoveFields DEF DeliverNotifications
  <2> QED BY <1>1, <2>1
<1>6. CASE HandleError(l) \/ AddDeadLetter(l)
  <2>1. inv[l].pc \in {"error", "list"} /\ inv'[l].todo = inv[l].todo
    BY <1>6, MoveFields DEF HandleError, AddDeadLetter
  <2>2. \/ /\ inv'[l].pc = "list" /\ inv'[l].msg = inv[l].msg /\ inv'[l].failed = inv[l].failed
        \/ /\ inv'[l].pc = "next" /\ inv'[l].failed = inv[l].failed \union {inv[l].msg}
    BY <1>6, MoveFields DEF HandleError, AddDeadLetter
  <2> QED BY <1>1, <2>1, <2>2
<1> QED BY <1>2, <1>3, <1>4, <1>5, <1>6 DEF RecordStep

\* Steps that touch no invocation, no message in flight and no deployment
Elsewhere == /\ inv' = inv /\ deployed' = deployed
             /\ \A m \in Messages : place[m] = "inflight" =>
                  place'[m] = "inflight" /\ event'[m] = event[m]

\* No two invocations hold one message, and what is deleted is deployed.
LEMMA BatchStep ==
    ASSUME IInv, Next
    PROVE  BatchInv' /\ RecordInv' /\ DeletedInv'
<1> USE DEF IInv
<1>1. \A l \in Lambdas : Tracked(l) /\ inv[l].batch \subseteq Messages
  BY InvocationRecords DEF RecordInv, Tracked, TypeOK
<1>2. ASSUME Elsewhere PROVE BatchInv' /\ RecordInv'
  <2>1. BatchInv'
    BY <1>1, <1>2 DEF BatchInv, Elsewhere
  <2>2. \A l \in Lambdas : \A m \in inv[l].batch : event'[m] = event[m]
    BY <1>1, <1>2 DEF BatchInv, Elsewhere
  <2> QED BY <1>2, <2>1, <2>2 DEF RecordInv, Elsewhere
<1>3. ASSUME \A m \in Messages : place'[m] = "deleted" => place[m] = "deleted",
             deployed \subseteq deployed'
      PROVE  DeletedInv'
  <2> SUFFICES ASSUME NEW m \in Messages, place'[m] = "deleted" PROVE event'[m] \in deployed'
    BY DEF DeletedInv
  <2>1. place[m] = "deleted"
    BY <1>3
  <2>2. event'[m] = event[m]
    BY <2>1, SentStays DEF Sent
  <2> QED BY <1>3, <2>1, <2>2 DEF DeletedInv
<1>4. CASE Api
  <2>1. Elsewhere
    BY <1>4, ApiFrame, ApiMessages DEF Elsewhere, Sent, workVars
  <2>2. \A m \in Messages : place'[m] = "deleted" => place[m] = "deleted"
    BY <1>4, ApiMessages DEF Sent
  <2> QED BY <1>2, <1>3, <2>1, <2>2 DEF Elsewhere
<1>5. CASE \E m \in Messages : Redrive(m)
  <2>1. Elsewhere
    BY <1>5 DEF Redrive, Elsewhere, TypeOK, dbVars
  <2>2. \A m \in Messages : place'[m] = "deleted" => place[m] = "deleted"
    BY <1>5 DEF Redrive, TypeOK
  <2> QED BY <1>2, <1>3, <2>1, <2>2 DEF Elsewhere
<1>6. CASE \E l \in Lambdas : PruneRetained(l)
  <2>1. Elsewhere /\ place' = place
    BY <1>6 DEF PruneRetained, Elsewhere
  <2> QED BY <1>2, <1>3, <2>1 DEF Elsewhere
<1>7. ASSUME NEW l \in Lambdas, NEW batch \in SUBSET Messages, Receive(l, batch)
      PROVE  BatchInv' /\ RecordInv' /\ DeletedInv'
  <2>1. /\ inv'[l] = Invoked(batch)
        /\ \A k \in Lambdas \ {l} : inv'[k] = inv[k]
        /\ \A m \in batch : place[m] = "visible"
        /\ \A m \in Messages : place'[m] = IF m \in batch THEN "inflight" ELSE place[m]
        /\ deployed' = deployed /\ event' = event
    BY <1>7 DEF Receive, TypeOK, dbVars
  <2>2. /\ inv'[l].batch = batch /\ inv'[l].todo = batch /\ inv'[l].failed = {}
        /\ inv'[l].pc = "next"
    BY <2>1 DEF Invoked
  <2>3. \A k \in Lambdas \ {l} : inv[k].batch \intersect batch = {}
    BY <2>1 DEF BatchInv
  <2>4. \A k \in Lambdas : \A m \in inv'[k].batch : place'[m] = "inflight"
    BY <1>1, <2>1, <2>2 DEF BatchInv
  <2>5. \A j, k \in Lambdas : j # k => inv'[j].batch \intersect inv'[k].batch = {}
    BY <2>1, <2>2, <2>3 DEF BatchInv
  <2>6. RecordInv'
    BY <2>1, <2>2 DEF RecordInv, Working
  <2>7. DeletedInv'
    BY <1>3, <2>1
  <2> QED BY <2>4, <2>5, <2>6, <2>7 DEF BatchInv
<1>8. ASSUME NEW l \in Lambdas, RecordStep(l) PROVE BatchInv' /\ RecordInv' /\ DeletedInv'
  <2>1. /\ UNCHANGED <<event, place>> /\ deployed \subseteq deployed'
        /\ \A k \in Lambdas \ {l} : inv'[k] = inv[k]
        /\ \A k \in Lambdas : inv'[k].batch = inv[k].batch
    BY <1>8, RecordFrame
  <2>2. BatchInv'
    BY <2>1 DEF BatchInv
  <2>3. Tracked(l)'
    BY <1>1, <1>8, TrackedStep
  <2>4. \A k \in Lambdas : Tracked(k)'
    BY <1>1, <2>1, <2>3 DEF Tracked
  <2> QED BY <1>3, <2>1, <2>2, <2>4 DEF Tracked, RecordInv
<1>9. ASSUME NEW l \in Lambdas, Respond(l) \/ Timeout(l)
      PROVE  BatchInv' /\ RecordInv' /\ DeletedInv'
  <2>1. /\ inv'[l] = Idle /\ \A k \in Lambdas \ {l} : inv'[k] = inv[k]
        /\ \A m \in Messages \ inv[l].batch : place'[m] = place[m]
        /\ UNCHANGED <<event, deployed>>
    BY <1>9 DEF Respond, Timeout, Return, TypeOK, dbVars
  <2>2. \A k \in Lambdas \ {l} : \A m \in inv[k].batch : place'[m] = place[m]
    BY <1>1, <2>1 DEF BatchInv
  <2>3. BatchInv'
    BY <2>1, <2>2 DEF BatchInv, Idle
  <2>4. RecordInv'
    BY <2>1 DEF RecordInv, Idle, Working
  <2>5. ASSUME NEW m \in Messages, place'[m] = "deleted" PROVE event[m] \in deployed
    <3>1. CASE place[m] = "deleted"
      BY <3>1 DEF DeletedInv
    <3>2. CASE place[m] # "deleted"
      <4>1. Respond(l) /\ m \in inv[l].batch \ inv[l].failed
        BY <1>9, <2>5, <3>2 DEF Respond, Timeout, Return, TypeOK
      <4>2. inv[l].todo = {} /\ inv[l].pc = "next"
        BY <4>1 DEF Respond
      <4> QED BY <1>1, <4>1, <4>2 DEF Tracked
    <3> QED BY <3>1, <3>2
  <2>6. DeletedInv'
    BY <2>1, <2>5 DEF DeletedInv
  <2> QED BY <2>3, <2>4, <2>6
<1> QED BY <1>4, <1>5, <1>6, <1>7, <1>8, <1>9 DEF Next, Api, LambdaStep, Work, Poll, RecordStep

\* An invocation that works on a record holds its message, which was sent.
LEMMA CurrentIsSent ==
    ASSUME IInv, NEW l \in Lambdas, inv[l].pc \in Working
    PROVE  /\ inv[l].msg \in Messages /\ place[inv[l].msg] = "inflight"
           /\ Sent(inv[l].msg) /\ Current(l) \in Events /\ Published(Current(l))
<1>1. inv[l].batch \subseteq Messages
  BY InvocationRecords DEF IInv, TypeOK
<1>2. inv[l].msg \in inv[l].batch
  BY DEF IInv, RecordInv
<1>3. place[inv[l].msg] = "inflight" /\ inv[l].msg \in Messages
  BY <1>1, <1>2 DEF IInv, BatchInv
<1> QED BY <1>3 DEF IInv, TypeOK, Sent, Current, Published

\* Only the worker sets a status other than queued, and only API requests that
\* find one, or publish, answer 202.
LEMMA StatusStep ==
    ASSUME IInv, Next
    PROVE  StatusInv' /\ AcceptedInv'
<1> USE DEF IInv
<1>1. \A e : Published(e) => Published(e)'
  BY PublishedStays
<1>2. ASSUME accepted' = accepted,
             \A e \in Events : status'[e] \in {"processed", "dead_letter"}
                                 => status'[e] = status[e] \/ Published(e)
      PROVE  StatusInv' /\ AcceptedInv'
  BY <1>1, <1>2 DEF StatusInv, AcceptedInv
<1>3. CASE Api
  <2>1. StatusInv'
    BY <1>1, <1>3, ApiFrame DEF StatusInv
  <2>2. ASSUME NEW e \in accepted' \ accepted PROVE Published(e)'
    <3>1. ~(\E a \in Admins : AdminStep(a))
      BY <2>2 DEF AdminStep, LookupDeadLetter, RequeueDeadLetter, PublishDeadLetter,
                  CompleteReprocess, FailReprocess
    <3>2. PICK h \in Handlers : LookupDuplicate(h) \/ PublishWebhook(h)
      BY <1>3, <2>2, <3>1 DEF Api, HandlerStep, RecordWebhook, FailWebhook
    <3>3. e = req[h].event /\ req[h].pc # "idle" /\ e \in Events
      <4>1. e = req[h].event /\ req[h].pc # "idle"
        BY <2>2, <3>2 DEF LookupDuplicate, PublishWebhook
      <4> QED BY <4>1, RequestRecords DEF TypeOK
    <3>4. CASE LookupDuplicate(h)
      <4>1. status[e] \in {"processed", "dead_letter"}
        BY <2>2, <3>3, <3>4 DEF LookupDuplicate, Recorded, TypeOK, Statuses
      <4> QED BY <1>1, <3>3, <4>1 DEF StatusInv
    <3>5. CASE PublishWebhook(h)
      <4>1. Publish(e)
        BY <3>3, <3>5 DEF PublishWebhook
      <4>2. \E n \in Messages : place'[n] = "visible" /\ event'[n] = e
        BY <3>3, <4>1, PublishFrame
      <4> QED BY <4>2 DEF Published, Sent
    <3> QED BY <3>2, <3>4, <3>5
  <2>3. AcceptedInv'
    BY <1>1, <2>2 DEF AcceptedInv
  <2> QED BY <2>1, <2>3
<1>4. CASE \E m \in Messages : Redrive(m)
  BY <1>2, <1>4 DEF Redrive, dbVars, apiVars
<1>5. CASE \E l \in Lambdas : Poll(l)
  BY <1>2, <1>5 DEF Poll, Receive, dbVars, apiVars
<1>6. ASSUME NEW l \in Lambdas, Work(l) \/ FailSave(l) \/ Timeout(l) \/ PruneRetained(l)
      PROVE  StatusInv' /\ AcceptedInv'
  <2>1. CASE Fetch(l) \/ DeliverNotifications(l) \/ HandleError(l) \/ Respond(l) \/ Timeout(l)
    BY <1>2, <2>1 DEF Fetch, DeliverNotifications, HandleError, Respond, Timeout, dbVars, apiVars
  <2>2. CASE SaveDeployment(l) \/ FailSave(l)
    <3>1. Published(Current(l))
      BY <2>2, CurrentIsSent DEF SaveDeployment, FailSave, Working
    <3>2. /\ accepted' = accepted
          /\ \A e \in Events : status'[e] = status[e] \/ e = Current(l)
      BY <2>2 DEF SaveDeployment, FailSave, CommitDeployment, TypeOK, apiVars
    <3> QED BY <1>2, <3>1, <3>2
  <2>3. CASE AddDeadLetter(l)
    <3>1. Published(Current(l))
      BY <2>3, CurrentIsSent DEF AddDeadLetter, Working
    <3>2. /\ accepted' = accepted
          /\ \A e \in Events : status'[e] = status[e] \/ e = Current(l)
      BY <2>3 DEF AddDeadLetter, TypeOK, apiVars
    <3> QED BY <1>2, <3>1, <3>2
  <2>4. CASE PruneRetained(l)
    BY <1>2, <2>4 DEF PruneRetained, apiVars
  <2> QED BY <1>6, <2>1, <2>2, <2>3, <2>4 DEF Work
<1> QED BY <1>3, <1>4, <1>5, <1>6 DEF Next, Api, LambdaStep

\* Only the poller counts receives, and what was received keeps its event.
LEMMA ReceivedStep ==
    ASSUME IInv, Next
    PROVE  /\ ReceivedInv'
           /\ \A m \in Messages : receives[m] > 0 => receives'[m] > 0 /\ event'[m] = event[m]
<1> USE DEF IInv, TypeOK, ReceivedInv
<1>1. \A m \in Messages : receives[m] > 0 => event'[m] = event[m]
  BY SentStays DEF Sent
<1>2. ASSUME receives' = receives,
             \A m \in Messages : \/ place'[m] = place[m]
                                 \/ place'[m] \notin {"unsent", "inflight"}
      PROVE  ReceivedInv' /\ \A m \in Messages : receives[m] > 0 => receives'[m] > 0
  BY <1>2
<1>3. CASE Api
  <2>1. receives' = receives
    BY <1>3, ApiFrame DEF workVars
  <2>2. \A m \in Messages : place'[m] = place[m] \/ place'[m] = "visible"
    BY <1>3, ApiMessages DEF Sent
  <2> QED BY <1>1, <1>2, <2>1, <2>2
<1>4. CASE \E m \in Messages : Redrive(m)
  BY <1>1, <1>2, <1>4 DEF Redrive
<1>5. ASSUME NEW l \in Lambdas, NEW batch \in SUBSET Messages, Receive(l, batch)
      PROVE  ReceivedInv' /\ \A m \in Messages : receives[m] > 0 => receives'[m] > 0
  <2>1. \A m \in Messages : /\ receives[m] \in Nat
                            /\ receives'[m] = IF m \in batch THEN receives[m] + 1 ELSE receives[m]
                            /\ place'[m] = IF m \in batch THEN "inflight" ELSE place[m]
    BY <1>5 DEF Receive
  <2> QED BY <2>1
<1>6. ASSUME NEW l \in Lambdas, RecordStep(l) \/ PruneRetained(l)
      PROVE  receives' = receives /\ place' = place
  BY <1>6, RecordFrame DEF PruneRetained
<1>7. ASSUME NEW l \in Lambdas, Respond(l) \/ Timeout(l)
      PROVE  /\ receives' = receives
             /\ \A m \in Messages : place'[m] \in {place[m], "visible", "deleted"}
  BY <1>7 DEF Respond, Timeout, Return
<1> QED BY <1>1, <1>2, <1>3, <1>4, <1>5, <1>6, <1>7
        DEF Next, Api, LambdaStep, Poll, Work, RecordStep

\* What an invocation found out about the status it is going to overwrite is true
\* unless another message of the event was worked on.
LEMMA ListStep ==
    ASSUME IInv, Next
    PROVE  ListInv'
<1> USE DEF IInv
<1> SUFFICES ASSUME NEW l \in Lambdas, inv'[l].pc = "list"
             PROVE  Listable(l)'
  BY DEF ListInv, Listable
<1> Listable(l)
  BY DEF ListInv
<1>1. ASSUME inv'[l] = inv[l], receives'[inv[l].msg] = receives[inv[l].msg],
             status'[Current(l)] = "processed" =>
               status[Current(l)] = "processed" \/ RivalReceived(l)
      PROVE  Listable(l)'
  <2>1. Sent(inv[l].msg) /\ inv[l].msg \in Messages
    BY <1>1, CurrentIsSent DEF Working
  <2>2. Current(l)' = Current(l)
    BY <1>1, <2>1, SentStays DEF Current
  <2>3. receives'[inv'[l].msg] = MaxReceives
    BY <1>1 DEF Listable
  <2>4. ASSUME status'[Current(l)'] = "processed" PROVE RivalReceived(l)'
    <3>1. PICK m \in Messages \ {inv[l].msg} : receives[m] > 0 /\ event[m] = Current(l)
      BY <1>1, <2>2, <2>4 DEF Listable, RivalReceived
    <3>2. receives'[m] > 0 /\ event'[m] = Current(l)'
      BY <2>2, <3>1, ReceivedStep
    <3> QED BY <1>1, <3>2 DEF RivalReceived
  <2> QED BY <2>3, <2>4 DEF Listable
<1>2. CASE Api
  <2>1. inv' = inv /\ receives' = receives
    BY <1>2, ApiFrame DEF workVars, TypeOK
  <2>2. Current(l) \in Events
    BY <2>1, CurrentIsSent DEF Working
  <2>3. status'[Current(l)] = "processed" => status[Current(l)] = "processed"
    BY <1>2, <2>2, ApiFrame
  <2> QED BY <1>1, <2>1, <2>3
<1>3. CASE \E m \in Messages : Redrive(m)
  BY <1>1, <1>3 DEF Redrive, dbVars
<1>4. ASSUME NEW k \in Lambdas, NEW batch \in SUBSET Messages, Receive(k, batch)
      PROVE  Listable(l)'
  <2>1. k # l /\ inv'[l] = inv[l]
    BY <1>4 DEF Receive, Invoked, TypeOK
  <2>2. place[inv[l].msg] = "inflight" /\ inv[l].msg \in Messages
    BY <2>1, CurrentIsSent DEF Working
  <2>3. receives'[inv[l].msg] = receives[inv[l].msg]
    BY <1>4, <2>2 DEF Receive
  <2> QED BY <1>1, <1>4, <2>1, <2>3 DEF Receive, dbVars
<1>5. ASSUME NEW k \in Lambdas \ {l}, RecordStep(k) PROVE Listable(l)'
  <2>1. inv'[l] = inv[l] /\ receives' = receives
    BY <1>5, RecordFrame
  <2>2. Current(k) = Current(l) /\ inv[k].pc \in Working => RivalReceived(l)
    <3> SUFFICES ASSUME Current(k) = Current(l), inv[k].pc \in Working PROVE RivalReceived(l)
      OBVIOUS
    <3>1. inv[k].msg \in inv[k].batch
      BY DEF RecordInv
    <3>2. inv[l].msg \in inv[l].batch
      BY <2>1 DEF RecordInv, Working
    <3>3. inv[k].msg \in Messages \ {inv[l].msg}
      BY <1>5, <3>1, <3>2, CurrentIsSent DEF BatchInv
    <3>4. receives[inv[k].msg] > 0
      BY <3>3, CurrentIsSent DEF ReceivedInv
    <3> QED BY <3>3, <3>4 DEF RivalReceived, Current
  <2>3. status'[Current(l)] = status[Current(l)] \/ (Current(k) = Current(l) /\ inv[k].pc \in Working)
    <3>1. CASE Fetch(k) \/ DeliverNotifications(k) \/ HandleError(k)
      BY <3>1 DEF Fetch, DeliverNotifications, HandleError, dbVars
    <3>2. CASE SaveDeployment(k) \/ FailSave(k) \/ AddDeadLetter(k)
      <4>1. inv[k].pc \in Working
        BY <3>2 DEF SaveDeployment, FailSave, AddDeadLetter, Working
      <4>2. \A e \in Events : status'[e] = status[e] \/ e = Current(k)
        BY <3>2 DEF SaveDeployment, FailSave, CommitDeployment, AddDeadLetter, TypeOK
      <4>3. Current(l) \in Events
        BY <2>1, CurrentIsSent DEF Working
      <4> QED BY <4>1, <4>2, <4>3
    <3> QED BY <1>5, <3>1, <3>2 DEF RecordStep
  <2> QED BY <1>1, <2>1, <2>2, <2>3
<1>6. ASSUME NEW k \in Lambdas, PruneRetained(k) \/ (k # l /\ (Respond(k) \/ Timeout(k)))
      PROVE  Listable(l)'
  <2>1. inv'[l] = inv[l] /\ receives' = receives
    BY <1>6 DEF Respond, Timeout, Return, PruneRetained, TypeOK
  <2>2. Current(l) \in Events
    BY <2>1, CurrentIsSent DEF Working
  <2>3. \A e \in Events : status'[e] \in {status[e], "pruned"}
    BY <1>6 DEF Respond, Timeout, PruneRetained, dbVars, TypeOK
  <2> QED BY <1>1, <2>1, <2>2, <2>3
<1>7. ASSUME RecordStep(l) PROVE Listable(l)'
  <2>1. ~Fetch(l)
    <3>1. Fetch(l) => inv'[l].pc \in {"save", "error"}
      BY DEF Fetch, TypeOK, Invocations
    <3> QED BY <3>1
  <2>2. ~SaveDeployment(l) /\ ~FailSave(l) /\ ~DeliverNotifications(l) /\ ~AddDeadLetter(l)
    BY MoveFields DEF SaveDeployment, FailSave, DeliverNotifications, AddDeadLetter
  <2>3. HandleError(l)
    BY <1>7, <2>1, <2>2 DEF RecordStep
  <2>4. Goto(l, "list")
    BY <2>3, MoveFields DEF HandleError
  <2>5. /\ inv'[l].msg = inv[l].msg /\ event' = event /\ status' = status /\ receives' = receives
        /\ receives[inv[l].msg] >= MaxReceives /\ status[Current(l)] # "processed"
    BY <2>3, <2>4, MoveFields DEF HandleError, dbVars
  <2>6. receives[inv[l].msg] = MaxReceives
    <3>1. inv[l].msg \in Messages
      BY <2>3, CurrentIsSent DEF HandleError, Working
    <3> QED BY <2>5, <3>1, SqsAssumption DEF TypeOK, SqsAssumption
  <2> QED BY <2>5, <2>6 DEF Current, Listable
<1>8. ~Respond(l) /\ ~Timeout(l)
  BY DEF Respond, Timeout, Return, Idle, TypeOK
<1> QED BY <1>2, <1>3, <1>4, <1>5, <1>6, <1>7, <1>8
        DEF Next, Api, LambdaStep, Poll, Work, RecordStep

-----------------------------------------------------------------------------
(* The theorems.                                                           *)

\* Before anything is recorded or sent the invariant holds.
LEMMA InitInvariant == Init => IInv
<1> SUFFICES ASSUME Init PROVE IInv
  OBVIOUS
<1> USE SqsAssumption DEF Init
<1>1. TypeOK
  <2>1. inv \in [Lambdas -> Invocations]
    BY InvocationRecords
  <2>2. event \in [Messages -> Events]
    OBVIOUS
  <2>3. req \in [Handlers -> Requests] /\ job \in [Admins -> Jobs]
    BY RequestRecords, JobRecords
  <2> QED BY <2>1, <2>2, <2>3 DEF TypeOK, Places, Statuses
<1>2. BatchInv /\ RecordInv
  BY DEF BatchInv, RecordInv, Idle, Working
<1>3. DeletedInv /\ StatusInv /\ AcceptedInv /\ ReceivedInv /\ ListInv
  BY DEF DeletedInv, StatusInv, AcceptedInv, ReceivedInv, ListInv, Listable, Idle
<1> QED BY <1>1, <1>2, <1>3 DEF IInv

\* Nothing happens to the invariant when nothing happens.
LEMMA StutterInvariant == IInv /\ UNCHANGED vars => IInv'
  BY DEF IInv, vars, dbVars, apiVars, workVars, TypeOK, BatchInv, RecordInv, DeletedInv, StatusInv,
         AcceptedInv, ReceivedInv, ListInv, Listable, RivalReceived, Published, Sent, Current

\* The invariant of the queue, its messages and the invocations that hold them
\* (ProcessSQSBatch and the event source of template.yaml).
THEOREM Invariant == Spec => []IInv
<1>1. IInv /\ Next => IInv'
  <2> SUFFICES ASSUME IInv, Next PROVE IInv'
    OBVIOUS
  <2>1. \A l \in Lambdas : inv[l].pc \in Working => inv[l].msg \in Messages
    BY CurrentIsSent
  <2>2. TypeOK'
    BY <2>1, TypeStep DEF IInv
  <2> QED BY <2>2, BatchStep, StatusStep, ReceivedStep, ListStep DEF IInv
<1> QED BY InitInvariant, <1>1, StutterInvariant, PTL DEF Spec

\* Every variable keeps its type; no message is received more often than allowed.
THEOREM TypeCorrect == Spec => []TypeOK
<1>1. IInv => TypeOK
  BY DEF IInv
<1> QED BY Invariant, <1>1, PTL

\* Whatever the number of messages, a processed event turns into a dead letter only in
\* the race that ProcessedIsFinal describes: the status ProcessSQSBatch looked up is still
\* true when it writes, unless another message of the event was worked on.
THEOREM FinalSafety == Spec => ProcessedIsFinal
<1>1. ASSUME IInv, Next, NEW e \in Events, status[e] = "processed", status'[e] = "dead_letter"
      PROVE  \E m, k \in Messages : /\ m # k /\ event[m] = e /\ event[k] = e
                                    /\ place[m] = "inflight" /\ receives[m] = MaxReceives
                                    /\ receives[k] > 0
  <2>1. PICK l \in Lambdas : AddDeadLetter(l) /\ Current(l) = e
    <3> USE DEF dbVars, TypeOK, IInv
    <3>1. ~Api
      BY <1>1, ApiFrame
    <3>2. ~(\E m \in Messages : Redrive(m)) /\ ~(\E l \in Lambdas : Poll(l))
      BY <1>1 DEF Redrive, Poll, Receive
    <3>3. PICK l \in Lambdas : Work(l) \/ FailSave(l) \/ Timeout(l) \/ PruneRetained(l)
      BY <1>1, <3>1, <3>2 DEF Next, Api, LambdaStep
    <3>4. AddDeadLetter(l)
      BY <1>1, <3>3 DEF Work, Fetch, SaveDeployment, FailSave, CommitDeployment,
                        DeliverNotifications, HandleError, Respond, Timeout, PruneRetained
    <3>5. Current(l) = e
      BY <1>1, <3>4 DEF AddDeadLetter
    <3> QED BY <3>4, <3>5
  <2>2. /\ inv[l].msg \in Messages /\ place[inv[l].msg] = "inflight"
        /\ event[inv[l].msg] = e
    BY <1>1, <2>1, CurrentIsSent DEF AddDeadLetter, Working, Current
  <2>3. receives[inv[l].msg] = MaxReceives /\ RivalReceived(l)
    BY <1>1, <2>1 DEF AddDeadLetter, IInv, ListInv, Listable
  <2> QED BY <2>1, <2>2, <2>3 DEF RivalReceived
<1>2. IInv /\ [Next]_vars => [DeadOnlyInARace]_vars
  BY <1>1 DEF DeadOnlyInARace
<1> QED BY Invariant, <1>2, PTL DEF Spec, ProcessedIsFinal

-----------------------------------------------------------------------------
(* What becomes of the events: an invariant on top of the first one.       *)

\* Processed events are deployed; a message, a dead-letter row or a request names an
\* event that was recorded; and only an event that was sent again loses its row.
RowInv ==
    /\ \A e \in Events : status[e] = "processed" => e \in deployed
    /\ \A e \in Events : Published(e) \/ dlq[e] # 0 => status[e] # "absent"
    /\ \A h \in Handlers : req[h].pc # "idle" => status[req[h].event] # "absent"
    /\ \A a \in Admins : job[a].pc # "idle" => status[job[a].event] # "absent"
    /\ \A a \in Admins : job[a].pc = "complete" => job[a].event \in resent

AlertInv == alerted \subseteq deployed /\ OneAlertPerDeployment

\* A message that ProcessSQSBatch failed on at its last receive
Exhausted(m) ==
    /\ receives[m] = MaxReceives
    /\ place[m] \in {"visible", "dlq"} \/ \E l \in Lambdas : m \in inv[l].failed

GivenUpInv ==
    /\ \A m \in unlisted : Sent(m)
    /\ \A m \in Messages : place[m] = "dlq" => receives[m] = MaxReceives
    /\ \A m \in Messages \ unlisted : Exhausted(m) => Traced(event[m])

\* A message that an invocation, or the queue, has still to deal with
Pending(l, m) ==
    /\ inv[l].pc # "idle"
    /\ \/ m \in inv[l].todo
       \/ m = inv[l].msg /\ inv[l].pc \in {"save", "error", "list"}
       \/ m \in inv[l].failed /\ receives[m] < MaxReceives
Active(m) ==
    \/ place[m] = "visible" /\ receives[m] < MaxReceives
    \/ \E l \in Lambdas : Pending(l, m)

\* The strengthening of QueuedIsUnderWay: a message that is merely kept is not enough.
OnItsWay(e) ==
    \/ \E m \in Messages : event[m] = e /\ (Active(m) \/ m \in unlisted)
    \/ Publishing(e)
    \/ e \in refused
QueuedInv == \A e \in Events : status[e] = "queued" => OnItsWay(e)

OutcomeInv == RowInv /\ AlertInv /\ GivenUpInv /\ QueuedInv

\* What the API makes of the rows: only a request that has sent the event again
\* deletes one.
LEMMA ApiRows ==
    ASSUME TypeOK, RowInv, Api
    PROVE  /\ resent \subseteq resent'
           /\ \A e \in Events : dlq'[e] # dlq[e] => dlq'[e] = 0 /\ e \in resent
<1>1. ASSUME NEW h \in Handlers, HandlerStep(h) PROVE resent' = resent /\ dlq' = dlq
  BY <1>1 DEF HandlerStep, RecordWebhook, LookupDuplicate, PublishWebhook, FailWebhook, dbVars
<1>2. ASSUME NEW a \in Admins, AdminStep(a)
      PROVE  /\ resent \subseteq resent'
             /\ \A e \in Events : dlq'[e] # dlq[e] => dlq'[e] = 0 /\ e \in resent
  <2>1. CASE CompleteReprocess(a)
    BY <2>1 DEF CompleteReprocess, RowInv, TypeOK
  <2>2. CASE ~CompleteReprocess(a)
    BY <1>2, <2>2 DEF AdminStep, LookupDeadLetter, RequeueDeadLetter, PublishDeadLetter,
                      FailReprocess, dbVars
  <2> QED BY <2>1, <2>2
<1> QED BY <1>1, <1>2 DEF Api

\* Deployments stay, and so does the trace of an event.
LEMMA TracedStays ==
    ASSUME TypeOK, RowInv, Next, NEW e \in Events
    PROVE  /\ e \in deployed => e \in deployed'
           /\ Traced(e) => Traced(e)'
<1> USE DEF TypeOK, dbVars, apiVars, Traced, Recorded
<1>1. CASE Api
  BY <1>1, ApiFrame, ApiRows
<1>2. CASE \E m \in Messages : Redrive(m)
  BY <1>2 DEF Redrive
<1>3. CASE \E l \in Lambdas : Poll(l)
  BY <1>3 DEF Poll, Receive
<1>4. ASSUME NEW l \in Lambdas, Work(l) \/ FailSave(l) \/ Timeout(l) \/ PruneRetained(l)
      PROVE  (e \in deployed => e \in deployed') /\ (Traced(e) => Traced(e)')
  <2>1. CASE Fetch(l) \/ DeliverNotifications(l) \/ HandleError(l) \/ Respond(l) \/ Timeout(l)
    BY <2>1 DEF Fetch, DeliverNotifications, HandleError, Respond, Timeout
  <2>2. CASE SaveDeployment(l) \/ FailSave(l)
    BY <2>2 DEF SaveDeployment, FailSave, CommitDeployment
  <2>3. CASE AddDeadLetter(l)
    BY <2>3 DEF AddDeadLetter
  <2>4. CASE PruneRetained(l)
    BY <2>4 DEF PruneRetained
  <2> QED BY <1>4, <2>1, <2>2, <2>3, <2>4 DEF Work
<1> QED BY <1>1, <1>2, <1>3, <1>4 DEF Next, Api, LambdaStep

\* A request is about an event that was recorded, and one that has published its event
\* again knows so.
LEMMA RequestStep ==
    ASSUME TypeOK, RowInv, Next,
           \A e \in Events : status'[e] = "absent" => status[e] = "absent"
    PROVE  /\ \A h \in Handlers : req'[h].pc # "idle" => status'[req'[h].event] # "absent"
           /\ \A a \in Admins : job'[a].pc # "idle" => status'[job'[a].event] # "absent"
           /\ \A a \in Admins : job'[a].pc = "complete" => job'[a].event \in resent'
<1> USE DEF TypeOK, RowInv
<1>1. /\ \A h \in Handlers : req[h].pc # "idle" => req[h].event \in Events
      /\ \A a \in Admins : job[a].pc # "idle" => job[a].event \in Events
  BY RequestRecords, JobRecords
<1>2. ASSUME req' = req, job' = job, resent' = resent
      PROVE  /\ \A h \in Handlers : req'[h].pc # "idle" => status'[req'[h].event] # "absent"
             /\ \A a \in Admins : job'[a].pc # "idle" => status'[job'[a].event] # "absent"
             /\ \A a \in Admins : job'[a].pc = "complete" => job'[a].event \in resent'
  BY <1>1, <1>2
<1>3. ASSUME NEW h \in Handlers, HandlerStep(h)
      PROVE  /\ job' = job /\ resent' = resent
             /\ \A k \in Handlers : req'[k].pc # "idle" => status'[req'[k].event] # "absent"
  <2>1. ASSUME NEW e \in Events, RecordWebhook(h, e)
        PROVE  \A k \in Handlers : req'[k].pc # "idle" => status'[req'[k].event] # "absent"
    <3>1. /\ \A k \in Handlers \ {h} : req'[k] = req[k]
          /\ req'[h].event = e /\ status'[e] # "absent"
      BY <2>1 DEF RecordWebhook
    <3> QED BY <1>1, <3>1
  <2>2. ASSUME LookupDuplicate(h) \/ PublishWebhook(h) \/ FailWebhook(h)
        PROVE  \A k \in Handlers : req'[k].pc # "idle" => status'[req'[k].event] # "absent"
    <3>1. /\ \A k \in Handlers \ {h} : req'[k] = req[k]
          /\ req'[h].pc # "idle" => req'[h].event = req[h].event /\ req[h].pc # "idle"
      BY <2>2 DEF LookupDuplicate, PublishWebhook, FailWebhook
    <3> QED BY <1>1, <3>1
  <2>3. job' = job /\ resent' = resent
    BY <1>3 DEF HandlerStep, RecordWebhook, LookupDuplicate, PublishWebhook, FailWebhook
  <2> QED BY <1>3, <2>1, <2>2, <2>3 DEF HandlerStep
<1>4. ASSUME NEW a \in Admins, AdminStep(a)
      PROVE  /\ req' = req
             /\ \A k \in Admins : job'[k].pc # "idle" => status'[job'[k].event] # "absent"
             /\ \A k \in Admins : job'[k].pc = "complete" => job'[k].event \in resent'
  <2>1. /\ req' = req /\ resent \subseteq resent' /\ \A k \in Admins \ {a} : job'[k] = job[k]
    BY <1>4 DEF AdminStep, LookupDeadLetter, RequeueDeadLetter, PublishDeadLetter,
                CompleteReprocess, FailReprocess
  <2>2. \/ job'[a].pc = "idle"
        \/ /\ job'[a].pc # "idle" /\ job'[a].event \in Events
           /\ status'[job'[a].event] # "absent"
           /\ job'[a].pc = "complete" => job'[a].event \in resent'
    <3>1. ASSUME NEW e \in Events, LookupDeadLetter(a, e)
          PROVE  /\ job'[a].event = e /\ job'[a].pc = "requeue"
                 /\ status'[e] # "absent"
      BY <3>1 DEF LookupDeadLetter, dbVars
    <3>2. CASE RequeueDeadLetter(a)
      <4>1. job[a].pc = "requeue" /\ job'[a] = [job[a] EXCEPT !.pc = "publish"]
        BY <3>2 DEF RequeueDeadLetter
      <4>2. job'[a].pc = "publish" /\ job'[a].event = job[a].event
        BY <4>1 DEF Jobs
      <4> QED BY <1>1, <4>1, <4>2
    <3>3. CASE PublishDeadLetter(a)
      <4>1. job[a].pc = "publish" /\ job'[a] = [job[a] EXCEPT !.pc = "complete"]
        BY <3>3 DEF PublishDeadLetter
      <4>2. job'[a].pc = "complete" /\ job'[a].event = job[a].event
        BY <4>1 DEF Jobs
      <4>3. job[a].event \in resent'
        BY <3>3 DEF PublishDeadLetter
      <4> QED BY <1>1, <4>1, <4>2, <4>3
    <3>4. CASE CompleteReprocess(a) \/ FailReprocess(a)
      BY <3>4 DEF CompleteReprocess, FailReprocess
    <3> QED BY <1>4, <3>1, <3>2, <3>3, <3>4 DEF AdminStep
  <2> QED BY <1>1, <2>1, <2>2
<1>5. ASSUME NEW l \in Lambdas, LambdaStep(l) PROVE req' = req /\ job' = job /\ resent' = resent
  BY <1>5 DEF LambdaStep, Poll, Receive, Work, Fetch, SaveDeployment, FailSave, DeliverNotifications,
              HandleError, AddDeadLetter, Respond, Timeout, PruneRetained, apiVars
<1>6. ASSUME NEW m \in Messages, Redrive(m) PROVE req' = req /\ job' = job /\ resent' = resent
  BY <1>6 DEF Redrive, apiVars
<1> QED BY <1>1, <1>2, <1>3, <1>4, <1>5, <1>6 DEF Next

\* The status processed is written with the deployment, and only what is recorded is
\* sent or listed.
LEMMA RowStep ==
    ASSUME IInv, RowInv, Next
    PROVE  RowInv'
<1> USE DEF IInv
<1>1. \A e \in Events : e \in deployed => e \in deployed'
  BY TracedStays
<1>2. \A e \in Events : /\ status'[e] = "processed" => status[e] = "processed" \/ e \in deployed'
                        /\ status'[e] = "absent" => status[e] = "absent"
                        /\ dlq'[e] # 0 => dlq[e] # 0 \/ status[e] # "absent"
  <2> USE DEF TypeOK, dbVars, Recorded
  <2>1. CASE Api
    BY <2>1, ApiFrame, ApiRows
  <2>2. CASE (\E m \in Messages : Redrive(m)) \/ (\E l \in Lambdas : Poll(l))
    BY <2>2 DEF Redrive, Poll, Receive
  <2>3. ASSUME NEW l \in Lambdas, Work(l) \/ FailSave(l) \/ Timeout(l) \/ PruneRetained(l), NEW e \in Events
        PROVE  /\ status'[e] = "processed" => status[e] = "processed" \/ e \in deployed'
               /\ status'[e] = "absent" => status[e] = "absent"
               /\ dlq'[e] # 0 => dlq[e] # 0 \/ status[e] # "absent"
    <3>1. CASE Fetch(l) \/ DeliverNotifications(l) \/ HandleError(l) \/ Respond(l) \/ Timeout(l)
      BY <3>1 DEF Fetch, DeliverNotifications, HandleError, Respond, Timeout
    <3>2. CASE SaveDeployment(l) \/ FailSave(l)
      BY <3>2 DEF SaveDeployment, FailSave, CommitDeployment
    <3>3. CASE AddDeadLetter(l) \/ PruneRetained(l)
      BY <3>3 DEF AddDeadLetter, PruneRetained
    <3> QED BY <2>3, <3>1, <3>2, <3>3 DEF Work
  <2> QED BY <2>1, <2>2, <2>3 DEF Next, Api, LambdaStep
<1>3. ASSUME NEW e \in Events, Published(e)' PROVE Published(e) \/ status[e] # "absent"
  <2>1. PICK m \in Messages : place'[m] # "unsent" /\ event'[m] = e
    BY <1>3 DEF Published, Sent
  <2>2. CASE place[m] # "unsent"
    BY <2>1, <2>2, SentStays DEF Sent, Published
  <2>3. CASE place[m] = "unsent"
    <3>1. Api
      <4>1. ~(\E n \in Messages : Redrive(n)) /\ ~(\E l \in Lambdas : Poll(l))
        BY <2>1, <2>3 DEF Redrive, Poll, Receive, TypeOK
      <4>2. \A l \in Lambdas : ~RecordStep(l) /\ ~PruneRetained(l)
        BY <2>1, <2>3, RecordFrame DEF PruneRetained
      <4>3. \A l \in Lambdas : ~Respond(l) /\ ~Timeout(l)
        BY <2>1, <2>3, InvocationRecords DEF Respond, Timeout, Return, BatchInv, TypeOK
      <4> QED BY <4>1, <4>2, <4>3 DEF Next, Api, LambdaStep, Work, RecordStep
    <3>2. PICK f \in Events : Publish(f) /\ Publishing(f)
      BY <2>1, <2>3, <3>1, ApiFrame
    <3>3. f = e
      BY <2>1, <2>3, <3>2, PublishFrame
    <3> QED BY <3>2, <3>3 DEF Publishing, RowInv
  <2> QED BY <2>2, <2>3
<1>4. \A e \in Events : status'[e] = "processed" => e \in deployed'
  BY <1>1, <1>2 DEF RowInv
<1>5. \A e \in Events : Published(e)' \/ dlq'[e] # 0 => status'[e] # "absent"
  BY <1>2, <1>3 DEF RowInv
<1> QED BY <1>2, <1>4, <1>5, RequestStep DEF RowInv

Notifying == {k \in Lambdas : inv[k].pc = "notify"}

\* An invocation that is about to notify found the deployment missing: the others that do
\* so found theirs missing too, and are hence at other events.
LEMMA AlertStep ==
    ASSUME IInv, RowInv, AlertInv, Next
    PROVE  AlertInv'
<1> USE DEF IInv
<1>1. deployed \subseteq deployed'
  BY TracedStays DEF TypeOK
<1>2. \A k \in Notifying : inv'[k].msg = inv[k].msg => Current(k)' = Current(k)
  BY CurrentIsSent, SentStays DEF Notifying, Working, Current
<1>3. ASSUME alerted' = alerted, Notifying' \subseteq Notifying,
             \A k \in Notifying' : inv'[k].msg = inv[k].msg
      PROVE  AlertInv'
  BY <1>1, <1>2, <1>3 DEF AlertInv, OneAlertPerDeployment, Notifying
<1>4. CASE Api
  <2>1. inv' = inv /\ alerted' = alerted
    BY <1>4, ApiFrame DEF workVars
  <2> QED BY <1>3, <2>1 DEF Notifying
<1>5. CASE \E m \in Messages : Redrive(m)
  BY <1>3, <1>5 DEF Redrive, dbVars, Notifying
<1>6. ASSUME NEW l \in Lambdas, Poll(l) \/ Respond(l) \/ Timeout(l) \/ PruneRetained(l) PROVE AlertInv'
  <2>1. alerted' = alerted
    BY <1>6 DEF Poll, Receive, Respond, Timeout, PruneRetained, dbVars
  <2>2. \A k \in Lambdas : inv'[k] = inv[k] \/ inv'[k].pc \in {"idle", "next"}
    BY <1>6 DEF Poll, Receive, Respond, Timeout, Return, PruneRetained, Idle, Invoked, TypeOK
  <2> QED BY <1>3, <2>1, <2>2 DEF Notifying
<1>7. ASSUME NEW l \in Lambdas, RecordStep(l) PROVE AlertInv'
  <2>1. \A k \in Lambdas \ {l} : inv'[k] = inv[k]
    BY <1>7, RecordFrame
  <2>2. CASE Fetch(l) \/ FailSave(l) \/ HandleError(l) \/ AddDeadLetter(l)
    <3>1. alerted' = alerted
      BY <2>2 DEF Fetch, FailSave, HandleError, AddDeadLetter, dbVars
    <3>2. inv'[l].pc # "notify"
      <4>1. Fetch(l) => inv'[l].pc \in {"save", "error"}
        BY DEF Fetch, TypeOK, Invocations
      <4> QED BY <2>2, <4>1, MoveFields DEF FailSave, HandleError, AddDeadLetter
    <3> QED BY <1>3, <2>1, <3>1, <3>2 DEF Notifying
  <2>3. CASE DeliverNotifications(l)
    <3>1. /\ l \in Notifying /\ Notifying' = Notifying \ {l}
          /\ alerted' \subseteq alerted \union {Current(l)} /\ deployed' = deployed
      BY <2>1, <2>3, MoveFields DEF DeliverNotifications, Notifying
    <3>2. \A k \in Notifying \ {l} : Current(k)' = Current(k)
      BY <1>2, <2>1 DEF Notifying
    <3> QED BY <3>1, <3>2 DEF AlertInv, OneAlertPerDeployment, Notifying
  <2>4. CASE SaveDeployment(l)
    <3>1. /\ alerted' = alerted /\ deployed' = deployed \union {Current(l)}
          /\ inv'[l].pc = "notify" => Current(l) \notin deployed
      BY <2>4, MoveFields DEF SaveDeployment, CommitDeployment
    <3>2. inv'[l].pc = "notify" => Current(l)' = Current(l)
      BY <2>4, MoveFields, RecordFrame DEF SaveDeployment, RecordStep, Current
    <3>3. \A k \in Notifying \ {l} : Current(k)' = Current(k) /\ Current(k) \in deployed \ alerted
      BY <1>2, <2>1 DEF Notifying, AlertInv, OneAlertPerDeployment
    <3>4. Notifying' \subseteq Notifying \union {l}
      BY <2>1 DEF Notifying
    <3>5. \A k \in Notifying' : Current(k)' \in deployed' \ alerted'
      BY <3>1, <3>2, <3>3, <3>4 DEF AlertInv, Notifying
    <3>6. \A j, k \in Notifying' : j # k => Current(j)' # Current(k)'
      <4>1. \A j, k \in Notifying \ {l} : j # k => Current(j)' # Current(k)'
        BY <3>3 DEF AlertInv, OneAlertPerDeployment, Notifying
      <4>2. l \in Notifying' => \A k \in Notifying \ {l} : Current(l)' # Current(k)'
        BY <3>1, <3>2, <3>3 DEF Notifying
      <4> QED BY <3>4, <4>1, <4>2
    <3> QED BY <3>1, <3>5, <3>6 DEF AlertInv, OneAlertPerDeployment, Notifying
  <2> QED BY <1>7, <2>2, <2>3, <2>4 DEF RecordStep
<1> QED BY <1>4, <1>5, <1>6, <1>7 DEF Next, Api, LambdaStep, Work, RecordStep

\* A step that ends the last receive of a message without success leaves a trace of its
\* event, or the message on record as unlisted.
LEMMA GivenUpStep ==
    ASSUME IInv, RowInv, GivenUpInv, Next
    PROVE  GivenUpInv'
<1> USE SqsAssumption DEF IInv
<1>1. ASSUME NEW m \in Messages, Sent(m)
      PROVE  Traced(event[m]) => Traced(event[m])'
  <2>1. event'[m] = event[m] /\ event[m] \in Events
    BY <1>1, SentStays DEF TypeOK
  <2> QED BY <2>1, TracedStays
<1>2. ASSUME unlisted \subseteq unlisted', \A m \in unlisted' \ unlisted : Sent(m)',
             \A m \in Messages :
               /\ place'[m] = "dlq" => \/ place[m] = "dlq" /\ receives'[m] = receives[m]
                                       \/ receives'[m] = MaxReceives
               /\ m \notin unlisted' /\ Exhausted(m)' => \/ Exhausted(m) /\ Sent(m)
                                                         \/ Traced(event[m])'
      PROVE  GivenUpInv'
  <2>1. \A m \in Messages \ unlisted' : Exhausted(m)' => Traced(event[m])'
    BY <1>1, <1>2 DEF GivenUpInv
  <2>2. \A m \in unlisted' : Sent(m)'
    BY <1>2, SentStays DEF GivenUpInv, TypeOK
  <2> QED BY <1>2, <2>1, <2>2 DEF GivenUpInv
<1>3. \A l \in Lambdas : inv[l].failed \subseteq inv[l].batch /\ inv[l].batch \subseteq Messages
  BY InvocationRecords DEF RecordInv, TypeOK
<1>4. CASE Api
  <2>1. UNCHANGED <<inv, receives, unlisted>>
    BY <1>4, ApiFrame DEF workVars
  <2>2. \A m \in Messages : place'[m] = place[m] \/ (place[m] = "unsent" /\ place'[m] = "visible")
    BY <1>4, ApiMessages DEF Sent
  <2>3. \A m \in Messages : Exhausted(m)' => Exhausted(m) /\ Sent(m)
    BY <1>3, <2>1, <2>2 DEF Exhausted, ReceivedInv, Sent, BatchInv
  <2> QED BY <1>2, <2>1, <2>2, <2>3
<1>5. ASSUME NEW n \in Messages, Redrive(n) PROVE GivenUpInv'
  <2>1. /\ UNCHANGED <<inv, receives, unlisted>> /\ place' = [place EXCEPT ![n] = "dlq"]
        /\ place[n] = "visible" /\ receives[n] = MaxReceives
    BY <1>5 DEF Redrive
  <2>2. \A m \in Messages : Exhausted(m)' => Exhausted(m) /\ Sent(m)
    BY <1>3, <2>1 DEF Exhausted, Sent, BatchInv, ReceivedInv, TypeOK
  <2> QED BY <1>2, <2>1, <2>2 DEF TypeOK
<1>6. ASSUME NEW l \in Lambdas, NEW batch \in SUBSET Messages, Receive(l, batch) PROVE GivenUpInv'
  <2>1. /\ unlisted' = unlisted /\ inv'[l].failed = {}
        /\ \A k \in Lambdas \ {l} : inv'[k] = inv[k]
        /\ \A m \in batch : place[m] = "visible" /\ place'[m] = "inflight"
        /\ \A m \in Messages \ batch : place'[m] = place[m] /\ receives'[m] = receives[m]
    BY <1>6 DEF Receive, Invoked, TypeOK
  <2>2. \A m \in batch, k \in Lambdas : m \notin inv[k].failed
    BY <1>3, <2>1 DEF BatchInv
  <2>3. \A m \in Messages : Exhausted(m)' => Exhausted(m) /\ Sent(m)
    BY <1>3, <2>1, <2>2 DEF Exhausted, Sent, BatchInv, ReceivedInv
  <2> QED BY <1>2, <2>1, <2>3
<1>7. ASSUME NEW l \in Lambdas, RecordStep(l) PROVE GivenUpInv'
  <2>1. UNCHANGED <<event, place, receives>> /\ \A k \in Lambdas \ {l} : inv'[k] = inv[k]
    BY <1>7, RecordFrame
  <2>2. unlisted \subseteq unlisted' /\ \A m \in unlisted' \ unlisted : Sent(m)'
    <3>1. CASE ~AddDeadLetter(l)
      BY <1>7, <3>1 DEF RecordStep, Fetch, SaveDeployment, FailSave, DeliverNotifications, HandleError
    <3>2. CASE AddDeadLetter(l)
      <4>1. place'[inv[l].msg] # "unsent"
        BY <2>1, <3>2, CurrentIsSent DEF AddDeadLetter, Working, Sent
      <4> QED BY <3>2, <4>1 DEF AddDeadLetter, Sent
    <3> QED BY <3>1, <3>2
  <2>3. ASSUME inv'[l].failed = inv[l].failed PROVE GivenUpInv'
    <3>1. \A m \in Messages : Exhausted(m)' => Exhausted(m) /\ Sent(m)
      BY <1>3, <2>1, <2>3 DEF Exhausted, Sent, BatchInv, ReceivedInv
    <3> QED BY <1>2, <2>1, <2>2, <3>1
  <2>4. ASSUME NEW n \in Messages, inv'[l].failed = inv[l].failed \union {n},
               receives[n] = MaxReceives /\ n \notin unlisted' => Traced(event[n])'
        PROVE  GivenUpInv'
    <3>1. ASSUME NEW m \in Messages, m # n, Exhausted(m)' PROVE Exhausted(m) /\ Sent(m)
      BY <1>3, <2>1, <2>4, <3>1 DEF Exhausted, Sent, BatchInv, ReceivedInv
    <3>2. n \notin unlisted' /\ Exhausted(n)' => Traced(event[n])'
      BY <2>1, <2>4 DEF Exhausted
    <3> QED BY <1>2, <2>1, <2>2, <3>1, <3>2
  <2>5. CASE Fetch(l)
    BY <2>3, <2>5 DEF Fetch, TypeOK, Invocations
  <2>6. CASE SaveDeployment(l) \/ FailSave(l) \/ DeliverNotifications(l)
    BY <2>3, <2>6, MoveFields DEF SaveDeployment, FailSave, DeliverNotifications
  <2>7. ASSUME HandleError(l) \/ AddDeadLetter(l)
        PROVE  \E n \in Messages, e \in Events :
                 /\ n = inv[l].msg /\ e = Current(l) /\ e = event[n] /\ e = event'[n]
                 /\ status[e] # "absent" /\ receives[n] \in 0..MaxReceives /\ Sent(n)
    BY <2>1, <2>7, CurrentIsSent DEF HandleError, AddDeadLetter, Working, Current, RowInv, TypeOK
  <2>8. CASE HandleError(l)
    <3>1. CASE Goto(l, "list")
      BY <2>3, <3>1, MoveFields
    <3>2. CASE NextRecord(l, inv[l].failed \union {inv[l].msg}) /\ ~Goto(l, "list")
      <4>1. PICK n \in Messages, e \in Events :
              /\ n = inv[l].msg /\ e = Current(l) /\ e = event[n] /\ e = event'[n]
              /\ status[e] # "absent" /\ receives[n] \in 0..MaxReceives /\ Sent(n)
        BY <2>7, <2>8
      <4>2. receives[n] = MaxReceives => status[e] \in {"pruned", "processed"}
        BY <2>8, <3>2, <4>1 DEF HandleError, Recorded
      <4>3. receives[n] = MaxReceives => Traced(event[n])
        BY <4>1, <4>2 DEF RowInv, Traced
      <4>4. inv'[l].failed = inv[l].failed \union {n}
        BY <3>2, <4>1, MoveFields
      <4> QED BY <1>1, <2>4, <4>1, <4>3, <4>4
    <3> QED BY <2>8, <3>1, <3>2 DEF HandleError
  <2>9. CASE AddDeadLetter(l)
    <3>1. PICK n \in Messages, e \in Events :
            /\ n = inv[l].msg /\ e = Current(l) /\ e = event[n] /\ e = event'[n]
            /\ status[e] # "absent" /\ receives[n] \in 0..MaxReceives /\ Sent(n)
      BY <2>7, <2>9
    <3>2. inv'[l].failed = inv[l].failed \union {n}
      BY <2>9, <3>1, MoveFields DEF AddDeadLetter
    <3>3. dlq'[e] # 0 \/ (status[e] = "pruned" /\ status' = status) \/ n \in unlisted'
      BY <2>9, <3>1 DEF AddDeadLetter, Recorded, TypeOK
    <3>4. n \in unlisted' \/ Traced(event[n])'
      BY <3>1, <3>3 DEF Traced
    <3> QED BY <2>4, <3>2, <3>4
  <2> QED BY <1>7, <2>5, <2>6, <2>8, <2>9 DEF RecordStep
<1>8. ASSUME NEW l \in Lambdas, Respond(l) \/ Timeout(l) PROVE GivenUpInv'
  <2>1. /\ inv'[l] = Idle /\ \A k \in Lambdas \ {l} : inv'[k] = inv[k]
        /\ UNCHANGED <<event, receives>> /\ unlisted \subseteq unlisted'
        /\ \A m \in unlisted' \ unlisted : m \in inv[l].batch
        /\ \A m \in Messages \ inv[l].batch : place'[m] = place[m]
        /\ \A m \in Messages : m \in inv[l].batch => place'[m] \in {"visible", "deleted"}
    BY <1>8 DEF Respond, Timeout, Return, Begun, TypeOK
  <2>2. ASSUME NEW m \in Messages, m \notin unlisted', Exhausted(m)'
        PROVE  (Exhausted(m) /\ Sent(m)) \/ Traced(event[m])'
    <3>1. CASE m \notin inv[l].batch
      BY <1>3, <2>1, <2>2, <3>1 DEF Exhausted, Sent, BatchInv, ReceivedInv, Idle
    <3>2. CASE m \in inv[l].batch
      <4>1. place[m] = "inflight" /\ receives[m] = MaxReceives
        BY <2>1, <2>2, <3>2 DEF BatchInv, Exhausted
      <4>2. \A k \in Lambdas \ {l} : m \notin inv[k].failed
        BY <1>3, <3>2 DEF BatchInv
      <4>3. place'[m] = "visible"
        BY <2>1, <2>2, <3>2, <4>2 DEF Exhausted, Idle
      <4>4. m \in inv[l].failed \/ (Timeout(l) /\ m \notin inv[l].todo /\ m # inv[l].msg)
        BY <1>8, <2>2, <3>2, <4>1, <4>3 DEF Respond, Timeout, Begun, Return
      <4>5. CASE m \in inv[l].failed
        BY <4>1, <4>5 DEF Exhausted, Sent
      <4>6. CASE m \notin inv[l].failed
        <5>1. event[m] \in deployed
          BY <3>2, <4>4, <4>6 DEF RecordInv
        <5>2. Traced(event[m])'
          BY <1>1, <4>1, <5>1 DEF Sent, Traced
        <5> QED BY <5>2
      <4> QED BY <4>5, <4>6
    <3> QED BY <3>1, <3>2
  <2>3. \A m \in unlisted' \ unlisted : Sent(m)'
    BY <1>3, <2>1 DEF Sent
  <2> QED BY <1>2, <1>3, <2>1, <2>2, <2>3
<1>9. ASSUME NEW l \in Lambdas, PruneRetained(l) PROVE GivenUpInv'
  <2>1. UNCHANGED <<inv, place, receives, unlisted>>
    BY <1>9 DEF PruneRetained
  <2>2. \A m \in Messages : Exhausted(m)' => Exhausted(m) /\ Sent(m)
    BY <1>3, <2>1 DEF Exhausted, Sent, BatchInv, ReceivedInv
  <2> QED BY <1>2, <2>1, <2>2
<1> QED BY <1>4, <1>5, <1>6, <1>7, <1>8, <1>9 DEF Next, Api, LambdaStep, Work, Poll, RecordStep

\* A message that is still to be dealt with was sent and not deleted.
LEMMA ActiveIsKept ==
    ASSUME IInv, NEW m \in Messages, Active(m)
    PROVE  Sent(m) /\ place[m] \in {"visible", "inflight"}
<1>1. ASSUME NEW l \in Lambdas, Pending(l, m) PROVE place[m] = "inflight"
  <2>1. m \in inv[l].batch
    BY <1>1 DEF Pending, IInv, RecordInv, Working
  <2> QED BY <2>1 DEF IInv, BatchInv
<1> QED BY <1>1 DEF Active, Sent

\* An event stays on its way when requests do not forget it and the messages of it are
\* still to be dealt with.
LEMMA StaysOnItsWay ==
    ASSUME IInv, GivenUpInv, Next, NEW e \in Events, OnItsWay(e),
           Publishing(e) => Publishing(e)', e \in refused => e \in refused',
           unlisted \subseteq unlisted',
           \A m \in Messages : event[m] = e /\ Active(m) => Active(m)' \/ m \in unlisted'
    PROVE  OnItsWay(e)'
<1>1. CASE Publishing(e) \/ e \in refused
  BY <1>1 DEF OnItsWay
<1>2. ASSUME NEW m \in Messages, event[m] = e, Active(m) \/ m \in unlisted PROVE OnItsWay(e)'
  <2>1. Sent(m)
    BY <1>2, ActiveIsKept DEF GivenUpInv
  <2>2. event'[m] = e
    BY <1>2, <2>1, SentStays DEF IInv
  <2>3. Active(m)' \/ m \in unlisted'
    BY <1>2
  <2> QED BY <2>2, <2>3 DEF OnItsWay
<1> QED BY <1>1, <1>2 DEF OnItsWay

\* A request that sets an event to queued sends it, and one that does not is refused.
LEMMA QueuedApi ==
    ASSUME IInv, GivenUpInv, QueuedInv, Next, Api, NEW e \in Events, status'[e] = "queued"
    PROVE  OnItsWay(e)'
<1> USE DEF IInv, TypeOK, dbVars
<1>1. UNCHANGED <<inv, receives, unlisted>>
  BY ApiFrame DEF workVars
<1>2. \A m \in Messages : Active(m) => Active(m)'
  <2> SUFFICES ASSUME NEW m \in Messages, Active(m) PROVE Active(m)'
    OBVIOUS
  <2>1. place'[m] = place[m]
    BY ActiveIsKept, ApiMessages
  <2> QED BY <1>1, <2>1 DEF Active, Pending
<1>3. ASSUME status[e] = "queued", Publishing(e) => Publishing(e)', e \in refused => e \in refused'
      PROVE  OnItsWay(e)'
  BY <1>1, <1>2, <1>3, StaysOnItsWay DEF QueuedInv
<1>4. ASSUME Publish(e) PROVE OnItsWay(e)'
  <2>1. PICK n \in Messages : place[n] = "unsent" /\ place'[n] = "visible" /\ event'[n] = e
    BY <1>4, PublishFrame
  <2>2. receives'[n] < MaxReceives
    BY <1>1, <2>1, SqsAssumption DEF ReceivedInv, SqsAssumption
  <2> QED BY <2>1, <2>2 DEF OnItsWay, Active
<1>5. ASSUME NEW h \in Handlers, HandlerStep(h) PROVE OnItsWay(e)'
  <2>1. job' = job /\ \A k \in Handlers \ {h} : req'[k] = req[k]
    BY <1>5 DEF HandlerStep, RecordWebhook, LookupDuplicate, PublishWebhook, FailWebhook
  <2>2. (req[h].pc = "publish" => req[h].event # e) => (Publishing(e) => Publishing(e)')
    BY <2>1 DEF Publishing
  <2>3. ASSUME NEW f \in Events, RecordWebhook(h, f) PROVE OnItsWay(e)'
    <3>1. CASE status[e] = "queued"
      BY <1>3, <2>2, <2>3, <3>1 DEF RecordWebhook
    <3>2. CASE status[e] # "queued"
      <4>1. req'[h] = [pc |-> "publish", event |-> e]
        BY <2>3, <3>2 DEF RecordWebhook
      <4> QED BY <4>1 DEF OnItsWay, Publishing
    <3> QED BY <3>1, <3>2
  <2>4. CASE LookupDuplicate(h)
    BY <1>3, <2>2, <2>4 DEF LookupDuplicate
  <2>5. CASE PublishWebhook(h)
    <3>1. CASE req[h].event = e
      BY <1>4, <2>5, <3>1 DEF PublishWebhook
    <3>2. CASE req[h].event # e
      BY <1>3, <2>2, <2>5, <3>2 DEF PublishWebhook
    <3> QED BY <3>1, <3>2
  <2>6. CASE FailWebhook(h)
    <3>1. CASE req[h].event = e
      BY <2>6, <3>1 DEF FailWebhook, OnItsWay
    <3>2. CASE req[h].event # e
      BY <1>3, <2>2, <2>6, <3>2 DEF FailWebhook
    <3> QED BY <3>1, <3>2
  <2> QED BY <1>5, <2>3, <2>4, <2>5, <2>6 DEF HandlerStep
<1>6. ASSUME NEW a \in Admins, AdminStep(a) PROVE OnItsWay(e)'
  <2>1. req' = req /\ \A k \in Admins \ {a} : job'[k] = job[k]
    BY <1>6 DEF AdminStep, LookupDeadLetter, RequeueDeadLetter, PublishDeadLetter,
                CompleteReprocess, FailReprocess
  <2>2. (job[a].pc = "publish" => job[a].event # e) => (Publishing(e) => Publishing(e)')
    BY <2>1 DEF Publishing
  <2>3. CASE (\E f \in Events : LookupDeadLetter(a, f)) \/ CompleteReprocess(a)
    BY <1>3, <2>2, <2>3 DEF LookupDeadLetter, CompleteReprocess
  <2>4. CASE RequeueDeadLetter(a)
    <3>1. CASE status[e] = "queued"
      BY <1>3, <2>2, <2>4, <3>1 DEF RequeueDeadLetter
    <3>2. CASE status[e] # "queued"
      <4>1. job[a].event = e /\ job'[a] = [job[a] EXCEPT !.pc = "publish"]
        BY <2>4, <3>2 DEF RequeueDeadLetter
      <4>2. job'[a].pc = "publish" /\ job'[a].event = e
        BY <2>4, <4>1 DEF RequeueDeadLetter, Jobs
      <4> QED BY <4>2 DEF OnItsWay, Publishing
    <3> QED BY <3>1, <3>2
  <2>5. CASE PublishDeadLetter(a)
    <3>1. CASE job[a].event = e
      BY <1>4, <2>5, <3>1 DEF PublishDeadLetter
    <3>2. CASE job[a].event # e
      BY <1>3, <2>2, <2>5, <3>2 DEF PublishDeadLetter
    <3> QED BY <3>1, <3>2
  <2>6. CASE FailReprocess(a)
    <3>1. CASE job[a].event = e
      BY <2>6, <3>1 DEF FailReprocess, OnItsWay
    <3>2. CASE job[a].event # e
      BY <1>3, <2>2, <2>6, <3>2 DEF FailReprocess
    <3> QED BY <3>1, <3>2
  <2> QED BY <1>6, <2>3, <2>4, <2>5, <2>6 DEF AdminStep
<1> QED BY <1>5, <1>6 DEF Api

\* What an invocation is through with at its last receive is queued no more, or on record
\* as unlisted.
LEMMA QueuedRecord ==
    ASSUME IInv, NEW l \in Lambdas, RecordStep(l), NEW e \in Events, status'[e] = "queued"
    PROVE  /\ status[e] = "queued" /\ unlisted \subseteq unlisted'
           /\ \A m \in Messages : event[m] = e /\ Active(m) => Active(m)' \/ m \in unlisted'
<1> USE DEF IInv, TypeOK, dbVars
<1>1. /\ UNCHANGED <<apiVars, event, place, receives>>
      /\ \A k \in Lambdas \ {l} : inv'[k] = inv[k]
  BY RecordFrame
<1>2. ASSUME NEW m \in Messages, event[m] = e, Active(m),
             Pending(l, m) => Pending(l, m)' \/ m \in unlisted'
      PROVE  Active(m)' \/ m \in unlisted'
  <2>1. \A k \in Lambdas \ {l} : Pending(k, m) => Pending(k, m)'
    BY <1>1 DEF Pending
  <2> QED BY <1>1, <1>2, <2>1 DEF Active
<1>3. CASE Fetch(l)
  <2>1. PICK n \in inv[l].todo :
          /\ inv'[l].pc \in {"save", "error"} /\ inv'[l].msg = n
          /\ inv'[l].todo = inv[l].todo \ {n} /\ inv'[l].failed = inv[l].failed
    BY <1>3 DEF Fetch, Invocations
  <2>2. inv[l].pc = "next" /\ status' = status /\ unlisted' = unlisted
    BY <1>3 DEF Fetch
  <2>3. \A m \in Messages : Pending(l, m) => Pending(l, m)'
    BY <1>1, <2>1, <2>2 DEF Pending
  <2> QED BY <1>2, <2>2, <2>3
<1>4. ASSUME SaveDeployment(l) \/ FailSave(l),
             status' = [status EXCEPT ![Current(l)] = "processed"] \/ status' = status
      PROVE  status[e] = "queued"
  BY <1>4
<1>5. CASE SaveDeployment(l)
  <2>1. Current(l) \in Events /\ Current(l) = event[inv[l].msg]
    BY <1>5, CurrentIsSent DEF SaveDeployment, Working, Current
  <2>2. status[e] = "queued" /\ Current(l) # e
    BY <1>5, <2>1 DEF SaveDeployment, CommitDeployment, Recorded
  <2>3. /\ inv'[l].pc \in {"next", "notify"} /\ inv'[l].todo = inv[l].todo
        /\ inv'[l].failed = inv[l].failed
    BY <1>5, MoveFields DEF SaveDeployment
  <2>4. \A m \in Messages : event[m] = e /\ Pending(l, m) => Pending(l, m)'
    BY <1>1, <2>1, <2>2, <2>3 DEF Pending
  <2> QED BY <1>2, <1>5, <2>2, <2>4 DEF SaveDeployment
<1>6. CASE FailSave(l)
  <2>1. status[e] = "queued"
    BY <1>4, <1>6 DEF FailSave, CommitDeployment
  <2>2. /\ inv'[l].pc = "error" /\ inv'[l].msg = inv[l].msg /\ inv'[l].todo = inv[l].todo
        /\ inv'[l].failed = inv[l].failed
    BY <1>6, MoveFields DEF FailSave
  <2>3. \A m \in Messages : Pending(l, m) => Pending(l, m)'
    BY <1>1, <2>2 DEF Pending
  <2> QED BY <1>2, <1>6, <2>1, <2>3 DEF FailSave
<1>7. CASE DeliverNotifications(l)
  <2>1. /\ inv[l].pc = "notify" /\ inv'[l].pc = "next" /\ inv'[l].todo = inv[l].todo
        /\ inv'[l].failed = inv[l].failed
    BY <1>7, MoveFields DEF DeliverNotifications
  <2>2. \A m \in Messages : Pending(l, m) => Pending(l, m)'
    BY <1>1, <2>1 DEF Pending
  <2> QED BY <1>2, <1>7, <2>2 DEF DeliverNotifications
<1>8. CASE HandleError(l)
  <2>1. status' = status /\ unlisted' = unlisted
    BY <1>8 DEF HandleError
  <2>2. inv[l].msg \in Messages /\ Current(l) = event[inv[l].msg]
    BY <1>8, CurrentIsSent DEF HandleError, Working, Current
  <2>3. inv'[l].todo = inv[l].todo
    BY <1>8, MoveFields DEF HandleError
  <2>4. \/ /\ inv'[l].pc = "list" /\ inv'[l].msg = inv[l].msg /\ inv'[l].failed = inv[l].failed
        \/ /\ inv'[l].pc = "next" /\ inv'[l].failed = inv[l].failed \union {inv[l].msg}
           /\ receives[inv[l].msg] < MaxReceives \/ status[Current(l)] # "queued"
    <3>1. receives[inv[l].msg] \in Nat /\ MaxReceives \in Nat
      BY <2>2, SqsAssumption DEF SqsAssumption
    <3> QED BY <1>8, <3>1, MoveFields DEF HandleError, Recorded
  <2>5. \A m \in Messages : event[m] = e /\ Pending(l, m) => Pending(l, m)'
    BY <1>1, <2>1, <2>2, <2>3, <2>4 DEF Pending
  <2> QED BY <1>2, <2>1, <2>5
<1>9. CASE AddDeadLetter(l)
  <2>1. /\ inv'[l].pc = "next" /\ inv'[l].todo = inv[l].todo
        /\ inv'[l].failed = inv[l].failed \union {inv[l].msg} /\ inv[l].pc = "list"
    BY <1>9, MoveFields DEF AddDeadLetter
  <2>2. /\ status[e] = "queued" /\ unlisted \subseteq unlisted'
        /\ Current(l) = e => inv[l].msg \in unlisted'
    BY <1>9 DEF AddDeadLetter, Recorded
  <2>3. \A m \in Messages : event[m] = e /\ Pending(l, m) => Pending(l, m)' \/ m \in unlisted'
    BY <1>1, <2>1, <2>2 DEF Pending, Current
  <2> QED BY <1>2, <2>2, <2>3
<1> QED BY <1>3, <1>5, <1>6, <1>7, <1>8, <1>9 DEF RecordStep

\* An event that is shown as queued stays on its way.
LEMMA QueuedStep ==
    ASSUME IInv, GivenUpInv, QueuedInv, Next
    PROVE  QueuedInv'
<1> USE DEF IInv, TypeOK, dbVars, apiVars
<1> SUFFICES ASSUME NEW e \in Events, status'[e] = "queued" PROVE OnItsWay(e)'
  BY DEF QueuedInv
<1>1. CASE Api
  BY <1>1, QueuedApi
<1>2. ASSUME UNCHANGED apiVars, status[e] = "queued", unlisted \subseteq unlisted',
             \A m \in Messages : event[m] = e /\ Active(m) => Active(m)' \/ m \in unlisted'
      PROVE  OnItsWay(e)'
  <2>1. OnItsWay(e) /\ (Publishing(e) => Publishing(e)') /\ refused' = refused
    BY <1>2 DEF QueuedInv, Publishing
  <2> QED BY <1>2, <2>1, StaysOnItsWay
<1>3. ASSUME NEW n \in Messages, Redrive(n) PROVE OnItsWay(e)'
  <2>1. \A m \in Messages : Active(m) => Active(m)'
    BY <1>3 DEF Redrive, Active, Pending
  <2> QED BY <1>2, <1>3, <2>1 DEF Redrive
<1>4. ASSUME NEW l \in Lambdas, NEW batch \in SUBSET Messages, Receive(l, batch) PROVE OnItsWay(e)'
  <2>1. /\ inv[l].pc = "idle" /\ inv'[l].pc = "next" /\ inv'[l].todo = batch
        /\ \A k \in Lambdas \ {l} : inv'[k] = inv[k]
        /\ \A m \in Messages \ batch : place'[m] = place[m] /\ receives'[m] = receives[m]
        /\ \A m \in batch : place[m] = "visible"
    BY <1>4 DEF Receive, Invoked
  <2>2. \A m \in batch : Pending(l, m)'
    BY <2>1 DEF Pending
  <2>3. ASSUME NEW m \in Messages \ batch, Active(m) PROVE Active(m)'
    <3>1. \A k \in Lambdas : Pending(k, m) => Pending(k, m)'
      BY <2>1 DEF Pending
    <3> QED BY <2>1, <2>3, <3>1 DEF Active
  <2>4. \A m \in Messages : Active(m) => Active(m)'
    BY <2>2, <2>3 DEF Active
  <2> QED BY <1>2, <1>4, <2>4 DEF Receive
<1>5. ASSUME NEW l \in Lambdas, RecordStep(l) PROVE OnItsWay(e)'
  <2>1. UNCHANGED apiVars
    BY <1>5, RecordFrame
  <2> QED BY <1>2, <1>5, <2>1, QueuedRecord
<1>6. ASSUME NEW l \in Lambdas, Respond(l) \/ Timeout(l) PROVE OnItsWay(e)'
  <2>1. /\ UNCHANGED <<apiVars, status, event, receives>> /\ unlisted \subseteq unlisted'
        /\ \A k \in Lambdas \ {l} : inv'[k] = inv[k]
        /\ \A m \in Messages \ inv[l].batch : place'[m] = place[m]
    BY <1>6 DEF Respond, Timeout, Return
  <2>2. ASSUME NEW m \in Messages, Pending(l, m) PROVE Active(m)' \/ m \in unlisted'
    <3>1. m \in inv[l].batch /\ receives[m] \in 0..MaxReceives
      BY <2>2 DEF Pending, RecordInv, Working
    <3>2. CASE Respond(l)
      <4>1. m \in inv[l].failed /\ receives[m] < MaxReceives
        BY <2>2, <3>2 DEF Respond, Pending
      <4>2. place'[m] = "visible"
        BY <3>1, <3>2, <4>1 DEF Respond, Return
      <4> QED BY <2>1, <4>1, <4>2 DEF Active
    <3>3. CASE Timeout(l)
      <4>1. place'[m] = "visible"
        BY <3>1, <3>3 DEF Timeout, Return
      <4>2. receives[m] < MaxReceives \/ m \in unlisted'
        BY <2>2, <3>1, <3>3, SqsAssumption DEF Timeout, Begun, Pending, SqsAssumption
      <4> QED BY <2>1, <4>1, <4>2 DEF Active
    <3> QED BY <1>6, <3>2, <3>3
  <2>3. ASSUME NEW m \in Messages, Active(m), ~Pending(l, m) PROVE Active(m)'
    <3>1. CASE place[m] = "visible" /\ receives[m] < MaxReceives
      <4>1. m \notin inv[l].batch
        BY <3>1 DEF BatchInv
      <4> QED BY <2>1, <3>1, <4>1 DEF Active
    <3>2. ASSUME NEW k \in Lambdas \ {l}, Pending(k, m) PROVE Active(m)'
      BY <2>1, <3>2 DEF Active, Pending
    <3> QED BY <2>3, <3>1, <3>2 DEF Active
  <2> QED BY <1>2, <2>1, <2>2, <2>3
<1>7. ASSUME NEW l \in Lambdas, PruneRetained(l) PROVE OnItsWay(e)'
  <2>1. status[e] = "queued" /\ UNCHANGED <<apiVars, inv, place, receives, unlisted>>
    BY <1>7 DEF PruneRetained
  <2>2. \A m \in Messages : Active(m) => Active(m)'
    BY <2>1 DEF Active, Pending
  <2> QED BY <1>2, <2>1, <2>2
<1> QED BY <1>1, <1>3, <1>4, <1>5, <1>6, <1>7 DEF Next, Api, LambdaStep, Poll, Work, RecordStep

\* The second invariant of the queue: rows, alerts, messages given up on, and events that
\* are queued, with requests that set an event back to queued whatever became of it.
THEOREM OutcomeInvariant == Spec => []OutcomeInv
<1>1. Init => OutcomeInv
  <2> SUFFICES ASSUME Init PROVE OutcomeInv
    OBVIOUS
  <2>1. RowInv
    BY DEF Init, RowInv, Published, Sent
  <2>2. AlertInv
    BY DEF Init, AlertInv, OneAlertPerDeployment, Idle
  <2>3. GivenUpInv
    BY SqsAssumption DEF Init, GivenUpInv, Exhausted, Idle
  <2>4. QueuedInv
    BY DEF Init, QueuedInv
  <2> QED BY <2>1, <2>2, <2>3, <2>4 DEF OutcomeInv
<1>2. IInv /\ OutcomeInv /\ [Next]_vars => OutcomeInv'
  <2>1. IInv /\ OutcomeInv /\ Next => OutcomeInv'
    BY RowStep, AlertStep, GivenUpStep, QueuedStep DEF OutcomeInv
  <2>2. OutcomeInv /\ UNCHANGED vars => OutcomeInv'
    BY DEF vars, dbVars, apiVars, workVars, OutcomeInv, RowInv, AlertInv, GivenUpInv, QueuedInv,
           OneAlertPerDeployment, Published, Sent, Current, Exhausted, Traced, OnItsWay,
           Publishing, Active, Pending
  <2> QED BY <2>1, <2>2
<1> QED BY Invariant, <1>1, <1>2, PTL DEF Spec

\* One invocation at most delivers the notifications of a deployment.
THEOREM AlertSafety == Spec => []OneAlertPerDeployment
<1>1. OutcomeInv => OneAlertPerDeployment
  BY DEF OutcomeInv, AlertInv
<1> QED BY OutcomeInvariant, <1>1, PTL

\* What SQS gives up on is deployed, listed, pruned or sent again by an administrator, unless
\* its dead letter could not be written, or the invocation ended before it was.
THEOREM GivenUpSafety == Spec => []GivenUpIsListed
<1>1. OutcomeInv => GivenUpIsListed
  BY DEF OutcomeInv, GivenUpInv, GivenUpIsListed, Exhausted, Traced
<1> QED BY OutcomeInvariant, <1>1, PTL

\* No event is shown as queued that nothing is going to happen to, a request that sets a
\* processed event back to queued included.
THEOREM QueuedSafety == Spec => []QueuedIsUnderWay
<1>1. IInv /\ OutcomeInv => QueuedIsUnderWay
  BY ActiveIsKept DEF OutcomeInv, QueuedInv, OnItsWay, QueuedIsUnderWay
<1> QED BY Invariant, OutcomeInvariant, <1>1, PTL

-----------------------------------------------------------------------------
(* SqsPipeline implements EventLedger.                                     *)

LedgerUnchanged == UNCHANGED <<accepted, Open, deployed, Parked>>
Waiting == {m \in Messages : place[m] \in {"visible", "inflight"}}
Redriven == {m \in Messages : place[m] = "dlq"}

\* A message that was sent waits, is parked, or was deleted after its deployment.
LEMMA PublishedIsKnown ==
    ASSUME IInv, NEW e, Published(e)
    PROVE  Ledger!Known(e)
<1>1. PICK m \in Messages : Sent(m) /\ event[m] = e
  BY DEF Published
<1>2. place[m] \in {"visible", "inflight", "deleted", "dlq"}
  BY <1>1 DEF IInv, TypeOK, Places, Sent
<1>3. CASE place[m] \in {"visible", "inflight"}
  BY <1>1, <1>3 DEF Open, Ledger!Known
<1>4. CASE place[m] = "dlq"
  BY <1>1, <1>4 DEF Parked, Ledger!Known
<1>5. CASE place[m] = "deleted"
  BY <1>1, <1>5 DEF IInv, DeletedInv, Ledger!Known
<1> QED BY <1>2, <1>3, <1>4, <1>5

\* What the queue holds for the ledger depends on the messages that wait or were
\* redriven, and on what they say.
LEMMA QueueFrame ==
    ASSUME TypeOK, Next, Waiting' = Waiting, Redriven' = Redriven
    PROVE  Open' = Open /\ Parked' = Parked
<1>1. \A m \in Waiting \union Redriven : event'[m] = event[m]
  BY SentStays DEF Waiting, Redriven, Sent
<1>2. /\ Open = {event[m] : m \in Waiting} /\ Open' = {event'[m] : m \in Waiting}
      /\ Parked = {event[m] : m \in Redriven} /\ Parked' = {event'[m] : m \in Redriven}
  BY DEF Open, Parked, Waiting, Redriven
<1> QED BY <1>1, <1>2

\* A step of a request is one step of the ledger or none.
LEMMA ApiImplements ==
    ASSUME IInv, Next, Api
    PROVE  Ledger!Next \/ LedgerUnchanged
<1> USE DEF IInv, TypeOK, dbVars
<1>1. deployed' = deployed
  BY ApiFrame
<1>2. ASSUME NEW e \in Events, Publish(e), accepted' \in {accepted, accepted \union {e}}
      PROVE  Ledger!Next
  <2>1. PICK n \in Messages :
          /\ place[n] = "unsent" /\ place'[n] = "visible" /\ event'[n] = e
          /\ \A m \in Messages \ {n} : place'[m] = place[m] /\ event'[m] = event[m]
    BY <1>2, PublishFrame
  <2>2. Waiting' = Waiting \union {n} /\ n \notin Waiting /\ Redriven' = Redriven /\ n \notin Redriven
    BY <2>1 DEF Waiting, Redriven
  <2>3. /\ Open = {event[m] : m \in Waiting} /\ Open' = {event'[m] : m \in Waiting \union {n}}
        /\ Parked = {event[m] : m \in Redriven} /\ Parked' = {event'[m] : m \in Redriven}
        /\ Waiting \subseteq Messages /\ Redriven \subseteq Messages
    BY <2>2 DEF Open, Parked, Waiting, Redriven
  <2> HIDE DEF Waiting, Redriven
  <2>4. Open' = Open \union {e} /\ Parked' = Parked
    BY <2>1, <2>2, <2>3
  <2>5. Ledger!Enqueue(e)
    BY <1>1, <1>2, <2>4 DEF Ledger!Enqueue
  <2> QED BY <2>5 DEF Ledger!Next
<1>3. ASSUME UNCHANGED <<event, place>> PROVE Open' = Open /\ Parked' = Parked
  BY <1>3 DEF Open, Parked
<1>4. ASSUME NEW h \in Handlers, HandlerStep(h) PROVE Ledger!Next \/ LedgerUnchanged
  <2>1. req[h].pc # "idle" => req[h].event \in Events
    BY RequestRecords
  <2>2. ASSUME NEW e \in Events, RecordWebhook(h, e) PROVE LedgerUnchanged
    BY <1>3, <2>2 DEF RecordWebhook, LedgerUnchanged
  <2>3. ASSUME LookupDuplicate(h) PROVE Ledger!Next \/ LedgerUnchanged
    <3> DEFINE e == req[h].event
    <3>1. e \in Events /\ UNCHANGED <<event, place>>
      BY <2>1, <2>3 DEF LookupDuplicate
    <3>2. CASE accepted' = accepted
      BY <1>1, <1>3, <3>1, <3>2 DEF LedgerUnchanged
    <3>3. CASE accepted' # accepted
      <4>1. accepted' = accepted \union {e} /\ status[e] \in {"processed", "dead_letter"}
        BY <2>3, <3>1, <3>3 DEF LookupDuplicate, Recorded, Statuses
      <4>2. Ledger!Known(e)
        BY <3>1, <4>1, PublishedIsKnown DEF StatusInv
      <4>3. Ledger!Accept(e)
        BY <1>1, <1>3, <3>1, <4>1, <4>2 DEF Ledger!Accept
      <4> QED BY <3>1, <4>3 DEF Ledger!Next
    <3> QED BY <3>2, <3>3
  <2>4. ASSUME PublishWebhook(h) PROVE Ledger!Next
    BY <1>2, <2>1, <2>4 DEF PublishWebhook
  <2>5. ASSUME FailWebhook(h) PROVE Ledger!Next \/ LedgerUnchanged
    <3>1. accepted' = accepted /\ req[h].event \in Events
      BY <2>1, <2>5 DEF FailWebhook
    <3>2. CASE Publish(req[h].event)
      BY <1>2, <3>1, <3>2
    <3>3. CASE UNCHANGED <<event, place>>
      BY <1>1, <1>3, <3>1, <3>3 DEF LedgerUnchanged
    <3> QED BY <2>5, <3>2, <3>3 DEF FailWebhook
  <2> QED BY <1>4, <2>2, <2>3, <2>4, <2>5 DEF HandlerStep
<1>5. ASSUME NEW a \in Admins, AdminStep(a) PROVE Ledger!Next \/ LedgerUnchanged
  <2>1. job[a].pc # "idle" => job[a].event \in Events
    BY JobRecords
  <2>2. accepted' = accepted
    BY <1>5 DEF AdminStep, LookupDeadLetter, RequeueDeadLetter, PublishDeadLetter,
                CompleteReprocess, FailReprocess
  <2>3. UNCHANGED <<event, place>> \/ \E e \in Events : Publish(e)
    BY <1>5, ApiFrame DEF Api
  <2>4. CASE UNCHANGED <<event, place>>
    BY <1>1, <1>3, <2>2, <2>4 DEF LedgerUnchanged
  <2> QED BY <1>2, <2>2, <2>3, <2>4
<1> QED BY <1>4, <1>5 DEF Api

\* Giving up on a message parks its event, and closes it unless another message of
\* the event waits.
LEMMA RedriveImplements ==
    ASSUME IInv, Next, NEW n \in Messages, Redrive(n)
    PROVE  Ledger!Next
<1> USE DEF IInv
<1>1. event[n] \in Events /\ Published(event[n])
  BY DEF Redrive, TypeOK, Published, Sent
<1>2. Waiting' = Waiting \ {n} /\ Redriven' = Redriven \union {n} /\ n \in Waiting
  BY DEF Redrive, TypeOK, Waiting, Redriven
<1>3. event' = event
  BY DEF Redrive
<1>4. /\ Open = {event[m] : m \in Waiting} /\ Open' = {event[m] : m \in Waiting \ {n}}
      /\ Parked = {event[m] : m \in Redriven} /\ Parked' = {event[m] : m \in Redriven \union {n}}
  BY <1>2, <1>3 DEF Open, Parked, Waiting, Redriven
<1>5. Open' \in {Open, Open \ {event[n]}}
  BY <1>4
<1>6. Parked' = Parked \union {event[n]}
  BY <1>4
<1>7. Ledger!Park(event[n])
  BY <1>1, <1>5, <1>6, PublishedIsKnown DEF Redrive, Ledger!Park, dbVars, apiVars
<1> QED BY <1>1, <1>7 DEF Ledger!Next

\* The end of an invocation closes events that are deployed; a timeout closes none.
LEMMA ReturnImplements ==
    ASSUME IInv, Next, NEW l \in Lambdas, Respond(l) \/ Timeout(l)
    PROVE  Ledger!Next \/ LedgerUnchanged
<1> USE DEF IInv
<1>1. UNCHANGED <<accepted, deployed, event>>
  BY DEF Respond, Timeout, dbVars, apiVars
<1>2. \A m \in inv[l].batch : m \in Messages /\ place[m] = "inflight"
  BY InvocationRecords DEF TypeOK, BatchInv
<1>3. \A m \in Messages : /\ place'[m] = "dlq" <=> place[m] = "dlq"
                          /\ place'[m] \in {"visible", "inflight"} => place[m] \in {"visible", "inflight"}
                          /\ place[m] \in {"visible", "inflight"} =>
                               place'[m] \in {"visible", "inflight"} \/ event[m] \in deployed
  <2>1. RecordInv' /\ DeletedInv'
    BY BatchStep
  <2>2. \A m \in Messages : place'[m] \in {place[m], "visible", "deleted"}
    BY DEF Respond, Timeout, Return, TypeOK
  <2>3. \A m \in Messages : m \notin inv[l].batch => place'[m] = place[m]
    BY DEF Respond, Timeout, Return, TypeOK
  <2> QED BY <1>1, <1>2, <2>1, <2>2, <2>3 DEF DeletedInv
<1>4. Parked' = Parked
  BY <1>1, <1>3 DEF Parked
<1>5. Open' \subseteq Open /\ Open \ Open' \subseteq deployed
  BY <1>1, <1>3 DEF Open
<1>6. Open \ Open' \in SUBSET Events /\ Open' = Open \ (Open \ Open')
  BY <1>5 DEF Open, TypeOK
<1>7. Ledger!Close(Open \ Open')
  BY <1>1, <1>4, <1>5, <1>6 DEF Ledger!Close
<1> QED BY <1>6, <1>7 DEF Ledger!Next

\* Work on a record deploys the event of its message, which waits, or nothing.
LEMMA RecordImplements ==
    ASSUME IInv, Next, NEW l \in Lambdas, RecordStep(l)
    PROVE  Ledger!Next \/ LedgerUnchanged
<1> USE DEF IInv
<1>1. UNCHANGED <<accepted, Open, Parked>>
  <2>1. accepted' = accepted /\ Waiting' = Waiting /\ Redriven' = Redriven
    BY RecordFrame DEF Waiting, Redriven, apiVars
  <2> QED BY <2>1, QueueFrame
<1>2. CASE SaveDeployment(l) \/ FailSave(l)
  <2>1. Current(l) \in Events /\ Ledger!Known(Current(l))
    BY <1>2, CurrentIsSent, PublishedIsKnown DEF SaveDeployment, FailSave, Working
  <2>2. deployed' = deployed \/ deployed' = deployed \union {Current(l)}
    BY <1>2 DEF SaveDeployment, FailSave, CommitDeployment
  <2> QED BY <1>1, <2>1, <2>2 DEF LedgerUnchanged, Ledger!Next, Ledger!Deploy
<1>3. CASE Fetch(l) \/ DeliverNotifications(l) \/ HandleError(l) \/ AddDeadLetter(l)
  BY <1>1, <1>3 DEF Fetch, DeliverNotifications, HandleError, AddDeadLetter, LedgerUnchanged, dbVars
<1> QED BY <1>2, <1>3 DEF RecordStep

\* On AWS too an accepted event is queued, and leaves the queue only once it is
\* deployed or parked: the pipeline implements EventLedger.
THEOREM Refinement == Spec => LedgerSpec
<1>1. Init => Ledger!Init
  BY DEF Init, Ledger!Init, Open, Parked
<1>2. IInv /\ [Next]_vars => [Ledger!Next]_(Ledger!vars)
  <2> SUFFICES ASSUME IInv, [Next]_vars
               PROVE  Ledger!Next \/ LedgerUnchanged
    BY DEF Ledger!vars, LedgerUnchanged
  <2>1. CASE UNCHANGED vars
    BY <2>1 DEF vars, dbVars, apiVars, LedgerUnchanged, Open, Parked
  <2>2. CASE Next
    <3>1. ASSUME NEW l \in Lambdas, Poll(l) \/ PruneRetained(l)
          PROVE  LedgerUnchanged
      <4>1. Waiting' = Waiting /\ Redriven' = Redriven
        BY <3>1 DEF Poll, Receive, PruneRetained, Waiting, Redriven, IInv, TypeOK
      <4> QED BY <2>2, <3>1, <4>1, QueueFrame DEF Poll, Receive, PruneRetained, LedgerUnchanged, dbVars,
                                                 apiVars, IInv
    <3> QED BY <2>2, <3>1, ApiImplements, RedriveImplements, ReturnImplements, RecordImplements
            DEF Next, Api, LambdaStep, Work, RecordStep
  <2> QED BY <2>1, <2>2
<1> QED BY Invariant, <1>1, <1>2, PTL DEF Spec, LedgerSpec, Ledger!Spec

\* What was accepted is in the queue, deployed or parked.
THEOREM AcceptSafety == Spec => []AcceptedIsKept
<1>1. IInv => AcceptedIsKept
  BY PublishedIsKnown DEF IInv, AcceptedInv, AcceptedIsKept
<1> QED BY Invariant, <1>1, PTL
=============================================================================
