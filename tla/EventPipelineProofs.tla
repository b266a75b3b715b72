------------------------- MODULE EventPipelineProofs -------------------------
(***************************************************************************)
(* Theorems about EventPipeline for every set of events, requests and      *)
(* workers and every bound.                                                *)
(***************************************************************************)
EXTENDS EventPipeline, TLAPS

USE DEF EntryIds

-----------------------------------------------------------------------------
(* The records that say where a request, a job or a worker stands.         *)

\* A webhook request names its event unless it is idle.
LEMMA RequestRecords ==
    /\ [pc |-> "idle"] \in Requests
    /\ \A e \in Events : /\ [pc |-> "lookup", event |-> e] \in Requests
                         /\ [pc |-> "publish", event |-> e] \in Requests
    /\ \A r \in Requests : r.pc # "idle" => r.event \in Events
  BY DEF Requests

\* A reprocess request names its event and its row unless it is idle.
LEMMA JobRecords ==
    /\ [pc |-> "idle"] \in Jobs
    /\ \A e \in Events, n \in Nat : [pc |-> "requeue", event |-> e, row |-> n] \in Jobs
    /\ \A j \in Jobs : j.pc # "idle" =>
         /\ j.event \in Events
         /\ j.row \in Nat
         /\ \A p \in {"publish", "complete"} : [j EXCEPT !.pc = p] \in Jobs
  BY DEF Jobs

Busy == {"save", "notify", "ack", "attempts", "dead_letter", "forward"}

\* A worker holds a batch, and one entry of it while it processes a message.
LEMMA ConsumerRecords ==
    /\ \A b \in SUBSET EntryIds, p \in {"idle", "down"} : [pc |-> p, batch |-> b] \in Consumers
    /\ \A b \in SUBSET EntryIds, n \in EntryIds, p \in Busy :
         [pc |-> p, entry |-> n, batch |-> b] \in Consumers
    /\ \A c \in Consumers :
         /\ c.batch \in SUBSET EntryIds
         /\ c.pc \in Busy \/ c.pc \in {"idle", "down"}
         /\ c.pc \in Busy => /\ c.entry \in EntryIds
                             /\ \A p \in Busy : [c EXCEPT !.pc = p] \in Consumers
         /\ c.pc \notin Busy =>
              /\ \A b \in SUBSET EntryIds : [c EXCEPT !.batch = b] \in Consumers
              /\ \A p \in {"idle", "down"} : [c EXCEPT !.pc = p] \in Consumers
  BY DEF Consumers, Busy

-----------------------------------------------------------------------------
(* Type correctness.                                                       *)

\* XADD keeps the stream a bounded sequence of events and only adds to it.
LEMMA PublishType ==
    ASSUME NEW e \in Events, stream \in Seq(Events), Len(stream) <= MaxEntries, Publish(e)
    PROVE  /\ stream' \in Seq(Events)
           /\ Len(stream') <= MaxEntries
           /\ Len(stream') = Len(stream) + 1
           /\ \A n \in 1..Len(stream) : stream'[n] = stream[n]
           /\ stream'[Len(stream')] = e
  BY PipelineAssumption DEF Publish, PipelineAssumption

\* The delivered entries are entries of a stream that grew.
LEMMA DeliveredStays ==
    ASSUME NEW d, NEW m \in Nat, NEW n \in Nat, d \in 0..m, m <= n
    PROVE  d \in 0..n
OBVIOUS

\* The webhook handler keeps every variable in its type.
LEMMA HandlerType ==
    ASSUME TypeOK, NEW h \in Handlers, HandlerStep(h)
    PROVE  TypeOK'
<1> USE DEF TypeOK, dbVars, redisVars
<1>1. ASSUME NEW e \in Events, RecordWebhook(h, e) PROVE TypeOK'
  <2>1. status' \in [Events -> Statuses]
    BY <1>1 DEF RecordWebhook, Statuses
  <2>2. req' \in [Handlers -> Requests]
    BY <1>1, RequestRecords DEF RecordWebhook
  <2> QED BY <1>1, <2>1, <2>2 DEF RecordWebhook
<1>2. ASSUME LookupDuplicate(h) PROVE TypeOK'
  <2>1. req[h].event \in Events
    BY <1>2, RequestRecords DEF LookupDuplicate
  <2>2. req' \in [Handlers -> Requests] /\ accepted' \subseteq Events
    BY <1>2, <2>1, RequestRecords DEF LookupDuplicate, Answer
  <2> QED BY <1>2, <2>2 DEF LookupDuplicate
<1>3. ASSUME PublishWebhook(h) PROVE TypeOK'
  <2>1. req[h].event \in Events
    BY <1>3, RequestRecords DEF PublishWebhook
  <2>2. req' \in [Handlers -> Requests] /\ accepted' \subseteq Events
    BY <1>3, <2>1, RequestRecords DEF PublishWebhook, Answer
  <2>3. /\ stream' \in Seq(Events) /\ Len(stream') <= MaxEntries
        /\ Len(stream') >= Len(stream)
    BY <1>3, <2>1, PublishType DEF PublishWebhook
  <2>4. delivered' \in 0..Len(stream') /\ pending' \subseteq 1..delivered'
    BY <1>3, <2>3, DeliveredStays DEF PublishWebhook
  <2> QED BY <1>3, <2>2, <2>3, <2>4 DEF PublishWebhook
<1>4. ASSUME FailWebhook(h) PROVE TypeOK'
  <2>1. req[h].event \in Events
    BY <1>4, RequestRecords DEF FailWebhook
  <2>2. req' \in [Handlers -> Requests]
    BY <1>4, RequestRecords DEF FailWebhook, Answer
  <2>3. /\ stream' \in Seq(Events) /\ Len(stream') <= MaxEntries
        /\ Len(stream') >= Len(stream)
    <3>1. CASE Publish(req[h].event)
      BY <2>1, <3>1, PublishType
    <3>2. CASE UNCHANGED stream
      BY <3>2
    <3> QED BY <1>4, <3>1, <3>2 DEF FailWebhook, PublishFails
  <2>4. faults' \in 0..MaxFaults
    BY <1>4, PipelineAssumption DEF FailWebhook, PublishFails, Fault, PipelineAssumption
  <2>5. delivered' \in 0..Len(stream') /\ pending' \subseteq 1..delivered'
    BY <1>4, <2>3, DeliveredStays DEF FailWebhook
  <2> QED BY <1>4, <2>2, <2>3, <2>4, <2>5 DEF FailWebhook
<1> QED BY <1>1, <1>2, <1>3, <1>4 DEF HandlerStep

\* The reprocess handler keeps every variable in its type.
LEMMA AdminType ==
    ASSUME TypeOK, NEW a \in Admins, AdminStep(a)
    PROVE  TypeOK'
<1> USE DEF TypeOK, dbVars, redisVars
<1>1. job[a].pc # "idle" => job[a].event \in Events /\ job[a].row \in Nat
  BY JobRecords
<1>2. ASSUME NEW e \in Events, LookupDeadLetter(a, e) PROVE TypeOK'
  <2>1. job' \in [Admins -> Jobs]
    BY <1>2, JobRecords DEF LookupDeadLetter
  <2> QED BY <1>2, <2>1 DEF LookupDeadLetter
<1>3. ASSUME RequeueDeadLetter(a) PROVE TypeOK'
  <2>1. job' \in [Admins -> Jobs]
    BY <1>3, JobRecords DEF RequeueDeadLetter
  <2>2. status' \in [Events -> Statuses]
    BY <1>3 DEF RequeueDeadLetter, Statuses
  <2> QED BY <1>3, <2>1, <2>2 DEF RequeueDeadLetter
<1>4. ASSUME PublishDeadLetter(a) PROVE TypeOK'
  <2>1. job' \in [Admins -> Jobs]
    BY <1>4, JobRecords DEF PublishDeadLetter
  <2>2. /\ stream' \in Seq(Events) /\ Len(stream') <= MaxEntries
        /\ Len(stream') >= Len(stream)
    BY <1>1, <1>4, PublishType DEF PublishDeadLetter
  <2>3. delivered' \in 0..Len(stream') /\ pending' \subseteq 1..delivered'
    BY <1>4, <2>2, DeliveredStays DEF PublishDeadLetter
  <2> QED BY <1>4, <2>1, <2>2, <2>3 DEF PublishDeadLetter
<1>5. ASSUME CompleteReprocess(a) PROVE TypeOK'
  <2>1. job' \in [Admins -> Jobs]
    BY <1>5, JobRecords DEF CompleteReprocess, EndJob
  <2>2. dlq' \in [Events -> Nat]
    BY <1>1, <1>5 DEF CompleteReprocess
  <2> QED BY <1>5, <2>1, <2>2 DEF CompleteReprocess
<1>6. ASSUME FailReprocess(a) PROVE TypeOK'
  <2>1. job' \in [Admins -> Jobs]
    BY <1>6, JobRecords DEF FailReprocess, EndJob
  <2>2. /\ stream' \in Seq(Events) /\ Len(stream') <= MaxEntries
        /\ Len(stream') >= Len(stream)
    <3>1. CASE Publish(job[a].event)
      BY <1>1, <1>6, <3>1, PublishType DEF FailReprocess
    <3>2. CASE UNCHANGED stream
      BY <3>2
    <3> QED BY <1>6, <3>1, <3>2 DEF FailReprocess, PublishFails
  <2>3. faults' \in 0..MaxFaults
    BY <1>6, PipelineAssumption DEF FailReprocess, PublishFails, Fault, PipelineAssumption
  <2>4. delivered' \in 0..Len(stream') /\ pending' \subseteq 1..delivered'
    BY <1>6, <2>2, DeliveredStays DEF FailReprocess
  <2> QED BY <1>6, <2>1, <2>2, <2>3, <2>4 DEF FailReprocess
<1> QED BY <1>2, <1>3, <1>4, <1>5, <1>6 DEF AdminStep

\* The worker's moves between the steps of process keep its record in its type.
LEMMA WorkerMoves ==
    ASSUME TypeOK, NEW w \in Workers
    PROVE  /\ wrk[w].batch \in SUBSET EntryIds
           /\ wrk[w].pc \in Busy => wrk[w].entry \in EntryIds
           /\ NextMessage(w) \/ Exit(w) => wrk' \in [Workers -> Consumers]
           /\ wrk[w].pc \in Busy => \A p \in Busy : Goto(w, p) => wrk' \in [Workers -> Consumers]
<1> USE DEF TypeOK
<1>1. wrk[w] \in Consumers
  OBVIOUS
<1>2. wrk[w].batch \in SUBSET EntryIds /\ (wrk[w].pc \in Busy => wrk[w].entry \in EntryIds)
  BY <1>1, ConsumerRecords
<1>3. ASSUME NextMessage(w) PROVE wrk' \in [Workers -> Consumers]
  BY <1>2, <1>3, ConsumerRecords DEF NextMessage
<1>4. ASSUME Exit(w) PROVE wrk' \in [Workers -> Consumers]
  <2>1. [pc |-> "down", batch |-> {}] \in Consumers
    BY ConsumerRecords
  <2> QED BY <1>4, <2>1 DEF Exit
<1>5. ASSUME wrk[w].pc \in Busy, NEW p \in Busy, Goto(w, p) PROVE wrk' \in [Workers -> Consumers]
  <2>1. [wrk[w] EXCEPT !.pc = p] \in Consumers
    BY <1>1, <1>5, ConsumerRecords
  <2> QED BY <1>5, <2>1 DEF Goto
<1> QED BY <1>2, <1>3, <1>4, <1>5

\* Taking entries keeps the delivery counts and the pending entries in their types.
LEMMA ClaimType ==
    ASSUME TypeOK, NEW w \in Workers,
           XReadGroup(w) \/ \E idle \in SUBSET pending : XAutoClaim(w, idle)
    PROVE  TypeOK'
<1> USE PipelineAssumption DEF TypeOK, dbVars, Least, PipelineAssumption
<1>1. wrk[w].pc \notin Busy
  BY DEF XReadGroup, XAutoClaim, Polling, Busy
<1>2. CASE XReadGroup(w)
  <2> DEFINE last == Least(Len(stream), delivered + BatchSize)
             new == (delivered + 1)..last
  <2>1. last \in Nat /\ delivered < last /\ last <= Len(stream)
    BY <1>2 DEF XReadGroup
  <2>2. new \in SUBSET EntryIds
    BY <2>1
  <2>3. wrk' \in [Workers -> Consumers]
    BY <1>1, <1>2, <2>2, ConsumerRecords DEF XReadGroup
  <2>4. delivered' \in 0..Len(stream) /\ pending' \subseteq 1..delivered'
    BY <1>2, <2>1 DEF XReadGroup
  <2>5. deliveries' \in [EntryIds -> 0..MaxAttempts]
    BY <1>2 DEF XReadGroup
  <2> QED BY <1>2, <2>3, <2>4, <2>5 DEF XReadGroup
<1>3. ASSUME NEW idle \in SUBSET pending, XAutoClaim(w, idle) PROVE TypeOK'
  <2>1. idle \in SUBSET EntryIds
    OBVIOUS
  <2>2. wrk' \in [Workers -> Consumers]
    BY <1>1, <1>3, <2>1, ConsumerRecords DEF XAutoClaim
  <2>3. \A n \in EntryIds : Least(MaxAttempts, deliveries[n] + 1) \in 0..MaxAttempts
    OBVIOUS
  <2>4. deliveries' \in [EntryIds -> 0..MaxAttempts]
    BY <1>3, <2>3 DEF XAutoClaim
  <2> QED BY <1>3, <2>2, <2>4 DEF XAutoClaim
<1> QED BY <1>2, <1>3

\* The worker keeps every variable in its type.
LEMMA WorkerType ==
    ASSUME TypeOK, NEW w \in Workers, WorkerStep(w),
           wrk[w].pc \in Busy => wrk[w].entry \in 1..Len(stream)
    PROVE  TypeOK'
<1> USE DEF TypeOK, dbVars, redisVars
<1>1. wrk[w].pc \in Busy => Current(w) \in Events
  BY DEF Current
<1>2. Fault => faults' \in 0..MaxFaults
  BY PipelineAssumption DEF Fault, PipelineAssumption
<1>3. ASSUME Fetch(w) PROVE TypeOK'
  <2>1. PICK n \in wrk[w].batch :
          wrk' = [wrk EXCEPT ![w] = [pc |-> IF Recorded(stream[n]) /\ stream[n] \notin Malformed
                                            THEN "save" ELSE "attempts",
                                     entry |-> n, batch |-> wrk[w].batch \ {n}]]
    BY <1>3 DEF Fetch
  <2>2. n \in EntryIds /\ wrk[w].batch \ {n} \in SUBSET EntryIds
    BY WorkerMoves
  <2>3. wrk' \in [Workers -> Consumers]
    BY <2>1, <2>2, ConsumerRecords DEF Busy
  <2> QED BY <1>3, <2>3 DEF Fetch
<1>4. ASSUME FailFetch(w) PROVE TypeOK'
  <2>1. wrk' \in [Workers -> Consumers]
    BY <1>4, WorkerMoves DEF FailFetch, Busy
  <2> QED BY <1>2, <1>4, <2>1 DEF FailFetch
<1>5. ASSUME SaveDeployment(w) \/ LoseCommit(w) PROVE TypeOK'
  <2>1. wrk' \in [Workers -> Consumers]
    BY <1>5, WorkerMoves DEF SaveDeployment, LoseCommit, Busy
  <2>2. status' \in [Events -> Statuses] /\ deployed' \subseteq Events
    BY <1>1, <1>5 DEF SaveDeployment, LoseCommit, CommitDeployment, Statuses, Busy
  <2> QED BY <1>2, <1>5, <2>1, <2>2 DEF SaveDeployment, LoseCommit
<1>6. ASSUME DeliverNotifications(w) PROVE TypeOK'
  <2>1. wrk' \in [Workers -> Consumers]
    BY <1>6, WorkerMoves DEF DeliverNotifications, Busy
  <2>2. alerted' \subseteq Events
    BY <1>1, <1>6 DEF DeliverNotifications, Busy
  <2> QED BY <1>2, <1>6, <2>1, <2>2 DEF DeliverNotifications
<1>7. ASSUME Ack(w) PROVE TypeOK'
  BY <1>7, WorkerMoves DEF Ack
<1>8. ASSUME Attempts(w) PROVE TypeOK'
  <2>1. wrk' \in [Workers -> Consumers]
    BY <1>8, WorkerMoves DEF Attempts, Busy
  <2> QED BY <1>8, <2>1 DEF Attempts
<1>9. ASSUME DeadLetter(w) PROVE TypeOK'
  <2>1. wrk' \in [Workers -> Consumers]
    BY <1>9, WorkerMoves DEF DeadLetter, Busy
  <2>2. status' \in [Events -> Statuses]
    BY <1>1, <1>9 DEF DeadLetter, Statuses, Busy
  <2>3. dlq' \in [Events -> Nat] /\ lastRow' \in Nat
    BY <1>1, <1>9 DEF DeadLetter, Busy
  <2> QED BY <1>9, <2>1, <2>2, <2>3 DEF DeadLetter
<1>10. ASSUME Forward(w) PROVE TypeOK'
  <2>1. wrk' \in [Workers -> Consumers]
    BY <1>10, WorkerMoves DEF Forward, Busy
  <2>2. deadStream' \subseteq Events
    BY <1>1, <1>10 DEF Forward, Busy
  <2> QED BY <1>10, <2>1, <2>2 DEF Forward
<1>11. ASSUME Crash(w) PROVE TypeOK'
  BY <1>2, <1>11, WorkerMoves DEF Crash
<1>12. ASSUME Restart(w) PROVE TypeOK'
  <2>1. wrk' \in [Workers -> Consumers]
    BY <1>12, ConsumerRecords DEF Restart, Busy
  <2> QED BY <1>12, <2>1 DEF Restart
<1>13. ASSUME PruneRetained(w) PROVE TypeOK'
  BY <1>13 DEF PruneRetained, Statuses
<1>14. ASSUME XReadGroup(w) \/ \E idle \in SUBSET pending : XAutoClaim(w, idle)
       PROVE  TypeOK'
  BY <1>14, ClaimType
<1> QED
  BY <1>3, <1>4, <1>5, <1>6, <1>7, <1>8, <1>9, <1>10, <1>11, <1>12, <1>13, <1>14
     DEF WorkerStep, Progress

-----------------------------------------------------------------------------
(* The inductive invariant.                                                *)

Published(e) == \E n \in 1..Len(stream) : stream[n] = e

\* A worker only works on delivered entries, and reaches its XACK only with an
\* event that is settled.
WorkerInv ==
    \A w \in Workers :
        /\ wrk[w].batch \subseteq 1..delivered
        /\ wrk[w].pc \in Busy => wrk[w].entry \in 1..delivered
        /\ wrk[w].pc = "ack" => Settled(Current(w))

\* A status other than queued was written by a worker, which had an entry.
StatusInv ==
    \A e \in Events : status[e] \in {"processed", "dead_letter"} => Published(e)

AcceptedInv == \A e \in accepted : Published(e)

AlertInv == alerted \subseteq deployed /\ OneAlertPerDeployment

IInv == /\ TypeOK
        /\ WorkerInv
        /\ AckedIsSettled
        /\ StatusInv
        /\ AcceptedInv
        /\ ProcessedIsDeployed
        /\ AlertInv

\* The stream only grows.
Extends ==
    /\ Len(stream) <= Len(stream')
    /\ \A n \in 1..Len(stream) : stream'[n] = stream[n]

\* An event that was published stays published.
LEMMA PublishedStays ==
    ASSUME stream \in Seq(Events), stream' \in Seq(Events), Extends, NEW e, Published(e)
    PROVE  Published(e)'
<1>1. PICK n \in 1..Len(stream) : stream[n] = e
  BY DEF Published
<1>2. n \in 1..Len(stream') /\ stream'[n] = e
  BY <1>1 DEF Extends
<1> QED BY <1>2 DEF Published

\* What webhook and reprocess requests leave to the workers
WorkVars == <<delivered, pending, deployed, alerted, deadStream, wrk>>

\* A webhook request only adds entries and accepted events, and leaves the workers alone.
LEMMA HandlerExtends ==
    ASSUME TypeOK, NEW h \in Handlers, HandlerStep(h)
    PROVE  Extends /\ UNCHANGED WorkVars
<1> USE DEF Extends, WorkVars, dbVars, redisVars
<1>1. stream \in Seq(Events) /\ Len(stream) <= MaxEntries /\ req[h] \in Requests
  BY DEF TypeOK
<1>2. CASE stream' = stream
  BY <1>2 DEF HandlerStep, RecordWebhook, LookupDuplicate, PublishWebhook, FailWebhook
<1>3. CASE stream' # stream
  <2>1. req[h].pc = "publish" /\ Publish(req[h].event) /\ UNCHANGED WorkVars
    BY <1>3 DEF HandlerStep, RecordWebhook, LookupDuplicate, PublishWebhook, FailWebhook,
                PublishFails
  <2>2. req[h].event \in Events
    BY <1>1, <2>1, RequestRecords
  <2> QED BY <1>1, <2>1, <2>2, PublishType
<1> QED BY <1>2, <1>3

\* A reprocess request only adds entries, and leaves the workers alone.
LEMMA AdminExtends ==
    ASSUME TypeOK, NEW a \in Admins, AdminStep(a)
    PROVE  Extends /\ UNCHANGED WorkVars
<1> USE DEF Extends, WorkVars, dbVars, redisVars
<1>1. stream \in Seq(Events) /\ Len(stream) <= MaxEntries /\ job[a] \in Jobs
  BY DEF TypeOK
<1>2. CASE stream' = stream
  BY <1>2 DEF AdminStep, LookupDeadLetter, RequeueDeadLetter, PublishDeadLetter,
              CompleteReprocess, FailReprocess
<1>3. CASE stream' # stream
  <2>1. job[a].pc = "publish" /\ Publish(job[a].event) /\ UNCHANGED WorkVars
    BY <1>3 DEF AdminStep, LookupDeadLetter, RequeueDeadLetter, PublishDeadLetter,
                CompleteReprocess, FailReprocess, PublishFails
  <2>2. job[a].event \in Events
    BY <1>1, <2>1, JobRecords
  <2> QED BY <1>1, <2>1, <2>2, PublishType
<1> QED BY <1>2, <1>3

\* Publishing more disturbs nothing the workers rely on.
LEMMA RequestsPreserve ==
    ASSUME IInv, Extends, UNCHANGED WorkVars
    PROVE  WorkerInv' /\ AckedIsSettled' /\ AlertInv'
<1> USE DEF WorkVars, Extends, Settled
<1>1. \A n \in 1..delivered : n \in 1..Len(stream) /\ stream'[n] = stream[n]
  BY DEF IInv, TypeOK
<1>2. \A w \in Workers : wrk[w].pc \in Busy => Current(w)' = Current(w)
  BY <1>1 DEF IInv, WorkerInv, Current
<1>3. WorkerInv'
  BY <1>2 DEF IInv, WorkerInv, Busy
<1>4. AckedIsSettled'
  BY <1>1 DEF IInv, AckedIsSettled
<1>5. AlertInv'
  BY <1>2 DEF IInv, AlertInv, OneAlertPerDeployment, Busy
<1> QED BY <1>3, <1>4, <1>5

\* A webhook request preserves the invariant.
LEMMA HandlerPreserves ==
    ASSUME IInv, NEW h \in Handlers, HandlerStep(h)
    PROVE  IInv'
<1>1. TypeOK /\ TypeOK' /\ Extends /\ UNCHANGED WorkVars
  BY HandlerType, HandlerExtends DEF IInv
<1>2. WorkerInv' /\ AckedIsSettled' /\ AlertInv'
  BY <1>1, RequestsPreserve
<1>3. \A e : Published(e) => Published(e)'
  BY <1>1, PublishedStays DEF TypeOK
<1>4. \A e \in Events : status'[e] = status[e] \/ status'[e] = "queued"
  BY <1>1 DEF TypeOK, HandlerStep, RecordWebhook, LookupDuplicate, PublishWebhook, FailWebhook,
              dbVars
<1>5. StatusInv' /\ ProcessedIsDeployed'
  BY <1>1, <1>3, <1>4 DEF IInv, StatusInv, ProcessedIsDeployed, WorkVars
<1>6. AcceptedInv'
  <2>1. CASE accepted' = accepted
    BY <1>3, <2>1 DEF IInv, AcceptedInv
  <2>2. CASE LookupDuplicate(h) /\ accepted' # accepted
    <3>1. req[h].event \in Events
      BY <1>1, <2>2, RequestRecords DEF TypeOK, LookupDuplicate
    <3>2. /\ status[req[h].event] \in {"processed", "dead_letter"}
          /\ accepted' = accepted \union {req[h].event}
      BY <1>1, <2>2, <3>1 DEF LookupDuplicate, Recorded, TypeOK, Statuses
    <3> QED BY <1>3, <3>1, <3>2 DEF IInv, StatusInv, AcceptedInv
  <2>3. CASE PublishWebhook(h)
    <3>1. req[h].event \in Events
      BY <1>1, <2>3, RequestRecords DEF TypeOK, PublishWebhook
    <3>2. /\ accepted' = accepted \union {req[h].event}
          /\ Len(stream') \in 1..Len(stream')
          /\ stream'[Len(stream')] = req[h].event
      BY <1>1, <2>3, <3>1, PublishType DEF PublishWebhook, TypeOK
    <3>3. \E n \in 1..Len(stream') : stream'[n] = req[h].event
      BY <3>2
    <3>4. \A e \in accepted' : \E n \in 1..Len(stream') : stream'[n] = e
      BY <1>3, <3>2, <3>3 DEF IInv, AcceptedInv, Published
    <3> QED BY <3>4 DEF AcceptedInv, Published
  <2> QED BY <2>1, <2>2, <2>3 DEF HandlerStep, RecordWebhook, FailWebhook
<1> QED BY <1>1, <1>2, <1>5, <1>6 DEF IInv

\* A reprocess request preserves the invariant.
LEMMA AdminPreserves ==
    ASSUME IInv, NEW a \in Admins, AdminStep(a)
    PROVE  IInv'
<1>1. TypeOK /\ TypeOK' /\ Extends /\ UNCHANGED WorkVars
  BY AdminType, AdminExtends DEF IInv
<1>2. WorkerInv' /\ AckedIsSettled' /\ AlertInv'
  BY <1>1, RequestsPreserve
<1>3. \A e : Published(e) => Published(e)'
  BY <1>1, PublishedStays DEF TypeOK
<1>4. /\ accepted' = accepted
      /\ \A e \in Events : status'[e] = status[e] \/ status'[e] = "queued"
  BY <1>1 DEF TypeOK, AdminStep, LookupDeadLetter, RequeueDeadLetter, PublishDeadLetter,
              CompleteReprocess, FailReprocess, dbVars
<1>5. StatusInv' /\ ProcessedIsDeployed' /\ AcceptedInv'
  BY <1>1, <1>3, <1>4 DEF IInv, StatusInv, ProcessedIsDeployed, AcceptedInv, WorkVars
<1> QED BY <1>1, <1>2, <1>5 DEF IInv

\* Taking entries, new ones or idle ones, preserves the invariant.
LEMMA ClaimPreserves ==
    ASSUME IInv, NEW w \in Workers,
           XReadGroup(w) \/ \E idle \in SUBSET pending : XAutoClaim(w, idle)
    PROVE  IInv'
<1> DEFINE batch == wrk'[w].batch
<1>1. TypeOK /\ TypeOK'
  BY ClaimType DEF IInv
<1>2. /\ UNCHANGED <<status, deployed, alerted, stream, deadStream, accepted>>
      /\ delivered <= delivered' /\ delivered' \in Nat
      /\ pending \subseteq pending' /\ (delivered + 1)..delivered' \subseteq pending'
      /\ batch \subseteq 1..delivered'
      /\ wrk' = [wrk EXCEPT ![w].batch = batch]
      /\ wrk[w].pc = "idle"
  <2>1. CASE XReadGroup(w)
    <3> DEFINE last == Least(Len(stream), delivered + BatchSize)
    <3>1. last \in Nat /\ delivered < last
      BY <1>1, <2>1, PipelineAssumption DEF XReadGroup, Least, TypeOK, PipelineAssumption
    <3>2. /\ delivered' = last
          /\ pending' = pending \union (delivered + 1)..last
          /\ wrk' = [wrk EXCEPT ![w].batch = (delivered + 1)..last]
      BY <2>1 DEF XReadGroup
    <3>3. batch = (delivered + 1)..last
      BY <1>1, <3>2, ConsumerRecords DEF TypeOK, Consumers
    <3> QED BY <1>1, <2>1, <3>1, <3>2, <3>3 DEF XReadGroup, Polling, dbVars, TypeOK
  <2>2. ASSUME NEW idle \in SUBSET pending, XAutoClaim(w, idle) PROVE <1>2!:
    <3>1. batch = idle
      BY <1>1, <2>2 DEF XAutoClaim, TypeOK, Consumers
    <3> QED BY <1>1, <2>2, <3>1 DEF XAutoClaim, Polling, dbVars, TypeOK
  <2> QED BY <2>1, <2>2
<1>3. wrk'[w].pc = "idle" /\ \A v \in Workers \ {w} : wrk'[v] = wrk[v]
  <2>1. wrk[w] \in Consumers /\ wrk[w].pc \notin Busy
    BY <1>1, <1>2 DEF TypeOK, Busy
  <2>2. [wrk[w] EXCEPT !.batch = batch].pc = wrk[w].pc
    BY <2>1 DEF Consumers, Busy
  <2> QED BY <1>1, <1>2, <2>2 DEF TypeOK
<1>4. \A v \in Workers \ {w} : Current(v)' = Current(v)
  BY <1>2, <1>3 DEF Current
<1>5. WorkerInv'
  <2> SUFFICES ASSUME NEW v \in Workers
               PROVE  /\ wrk'[v].batch \subseteq 1..delivered'
                      /\ wrk'[v].pc \in Busy => wrk'[v].entry \in 1..delivered'
                      /\ wrk'[v].pc = "ack" => Settled(Current(v))'
    BY DEF WorkerInv
  <2>1. CASE v = w
    BY <1>2, <1>3, <2>1 DEF Busy
  <2>2. CASE v # w
    <3>1. wrk'[v] = wrk[v] /\ Current(v)' = Current(v)
      BY <1>3, <1>4, <2>2
    <3>2. delivered \in Nat
      BY <1>1 DEF TypeOK
    <3> QED BY <1>2, <3>1, <3>2 DEF IInv, WorkerInv, Settled
  <2> QED BY <2>1, <2>2
<1>6. AckedIsSettled'
  BY <1>1, <1>2 DEF IInv, AckedIsSettled, Settled, TypeOK
<1>7. AlertInv'
  BY <1>2, <1>3, <1>4 DEF IInv, AlertInv, OneAlertPerDeployment
<1>8. StatusInv' /\ AcceptedInv' /\ ProcessedIsDeployed'
  BY <1>2 DEF IInv, StatusInv, AcceptedInv, ProcessedIsDeployed, Published
<1> QED BY <1>1, <1>5, <1>6, <1>7, <1>8 DEF IInv

\* What a step of worker w may do while it processes a message: it settles
\* events and acknowledges entries of settled events only, and it goes on to
\* notify only for a deployment it has just created.
MessageStep(w) ==
    /\ UNCHANGED <<stream, delivered, accepted>>
    /\ \A v \in Workers \ {w} : wrk'[v] = wrk[v]
    /\ deployed \subseteq deployed' /\ deadStream \subseteq deadStream'
    /\ \A n \in pending \ pending' : stream[n] \in deployed' \union deadStream'
    /\ wrk'[w].batch \subseteq 1..delivered
    /\ wrk'[w].pc \in Busy => wrk'[w].entry \in 1..delivered
    /\ wrk'[w].pc = "ack" => stream[wrk'[w].entry] \in deployed' \union deadStream'
    /\ wrk'[w].pc = "notify" => stream[wrk'[w].entry] \in deployed' \ deployed
    /\ alerted' = alerted \/ /\ wrk[w].pc = "notify" /\ wrk'[w].pc # "notify"
                             /\ alerted' = alerted \union {Current(w)}
    /\ \A e \in Events :
         /\ status'[e] \in {"processed", "dead_letter"} => status'[e] = status[e] \/ Published(e)
         /\ status'[e] = "processed" => status[e] = "processed" \/ e \in deployed'

\* A step within one message preserves the invariant.
LEMMA MessageStepPreserves ==
    ASSUME IInv, TypeOK', NEW w \in Workers, MessageStep(w)
    PROVE  IInv'
<1>1. TypeOK /\ MessageStep(w)
  BY DEF IInv
<1>2. \A v \in Workers \ {w} : wrk'[v] = wrk[v] /\ Current(v)' = Current(v)
  BY <1>1 DEF MessageStep, Current
<1>3. WorkerInv'
  <2> SUFFICES ASSUME NEW v \in Workers
               PROVE  /\ wrk'[v].batch \subseteq 1..delivered'
                      /\ wrk'[v].pc \in Busy => wrk'[v].entry \in 1..delivered'
                      /\ wrk'[v].pc = "ack" => Settled(Current(v))'
    BY DEF WorkerInv
  <2>1. CASE v = w
    BY <1>1, <2>1 DEF MessageStep, Settled, Current
  <2>2. CASE v # w
    BY <1>1, <1>2, <2>2 DEF MessageStep, IInv, WorkerInv, Settled
  <2> QED BY <2>1, <2>2
<1>4. AckedIsSettled'
  BY <1>1 DEF MessageStep, IInv, AckedIsSettled, Settled
<1>5. StatusInv' /\ AcceptedInv' /\ ProcessedIsDeployed'
  BY <1>1 DEF MessageStep, IInv, StatusInv, AcceptedInv, ProcessedIsDeployed, Published
<1>6. alerted' \subseteq deployed'
  BY <1>1 DEF MessageStep, IInv, AlertInv, OneAlertPerDeployment
<1>7. ASSUME NEW v \in Workers \ {w}, wrk'[v].pc = "notify"
      PROVE  Current(v)' \in deployed \ alerted'
  BY <1>1, <1>2, <1>7 DEF MessageStep, IInv, AlertInv, OneAlertPerDeployment
<1>8. wrk'[w].pc = "notify" => Current(w)' \in deployed' \ deployed /\ alerted' = alerted
  BY <1>1 DEF MessageStep, Current
<1>9. ASSUME NEW v \in Workers, wrk'[v].pc = "notify"
      PROVE  /\ Current(v)' \in deployed' \ alerted'
             /\ \A u \in Workers \ {v} : wrk'[u].pc = "notify" => Current(u)' # Current(v)'
  <2>1. CASE v = w
    BY <1>1, <1>7, <1>8, <1>9, <2>1 DEF MessageStep, IInv, AlertInv
  <2>2. CASE v # w
    <3>1. Current(v)' \in deployed' \ alerted'
      BY <1>1, <1>7, <1>9, <2>2 DEF MessageStep
    <3>2. ASSUME NEW u \in Workers \ {v}, wrk'[u].pc = "notify"
          PROVE  Current(u)' # Current(v)'
      <4>1. CASE u = w
        BY <1>7, <1>8, <1>9, <2>2, <3>2, <4>1
      <4>2. CASE u # w
        BY <1>2, <1>9, <2>2, <3>2, <4>2 DEF IInv, AlertInv, OneAlertPerDeployment
      <4> QED BY <4>1, <4>2
    <3> QED BY <3>1, <3>2
  <2> QED BY <2>1, <2>2
<1>10. AlertInv'
  BY <1>6, <1>9 DEF AlertInv, OneAlertPerDeployment
<1> QED BY <1>3, <1>4, <1>5, <1>10 DEF IInv

\* A worker preserves the invariant.
LEMMA WorkerPreserves ==
    ASSUME IInv, NEW w \in Workers, WorkerStep(w)
    PROVE  IInv'
<1>1. TypeOK /\ wrk[w] \in Consumers
  BY DEF IInv, TypeOK
<1>2. /\ wrk[w].batch \subseteq 1..delivered
      /\ wrk[w].pc \in Busy => /\ wrk[w].entry \in 1..delivered
                               /\ wrk[w].entry \in 1..Len(stream)
                               /\ Published(Current(w))
  BY <1>1 DEF IInv, WorkerInv, TypeOK, Published, Current
<1>3. TypeOK'
  BY <1>1, <1>2, WorkerType
<1>4. ASSUME NEW p, Goto(w, p), wrk[w].pc \in Busy
      PROVE  /\ wrk'[w].pc = p /\ wrk'[w].entry = wrk[w].entry
             /\ wrk'[w].batch = wrk[w].batch
             /\ \A v \in Workers \ {w} : wrk'[v] = wrk[v]
  <2>1. wrk'[w] = [wrk[w] EXCEPT !.pc = p]
    BY <1>1, <1>4 DEF Goto, TypeOK
  <2> QED BY <1>1, <1>4, <2>1 DEF Goto, TypeOK, Consumers, Busy
<1>5. NextMessage(w) => /\ wrk'[w].pc = "idle" /\ wrk'[w].batch = wrk[w].batch
                        /\ \A v \in Workers \ {w} : wrk'[v] = wrk[v]
  BY <1>1 DEF NextMessage, TypeOK
<1>6. Exit(w) => /\ wrk'[w].pc = "down" /\ wrk'[w].batch = {}
                 /\ \A v \in Workers \ {w} : wrk'[v] = wrk[v]
  BY <1>1 DEF Exit, TypeOK
<1> USE DEF MessageStep, dbVars, redisVars
<1>7. CASE Fetch(w)
  <2>1. PICK n \in wrk[w].batch :
          wrk' = [wrk EXCEPT ![w] = [pc |-> IF Recorded(stream[n]) /\ stream[n] \notin Malformed
                                            THEN "save" ELSE "attempts",
                                     entry |-> n, batch |-> wrk[w].batch \ {n}]]
    BY <1>7 DEF Fetch
  <2>2. MessageStep(w)
    BY <1>1, <1>2, <1>7, <2>1 DEF Fetch, TypeOK
  <2> QED BY <1>3, <2>2, MessageStepPreserves
<1>8. CASE FailFetch(w)
  <2>1. MessageStep(w)
    BY <1>2, <1>4, <1>8 DEF FailFetch, Busy
  <2> QED BY <1>3, <2>1, MessageStepPreserves
<1>9. CASE SaveDeployment(w) \/ LoseCommit(w)
  <2>1. wrk[w].pc = "save" /\ CommitDeployment(Current(w))
    BY <1>9 DEF SaveDeployment, LoseCommit
  <2>2. \A e \in Events : status'[e] = status[e] \/ e = Current(w)
    BY <1>1, <2>1 DEF CommitDeployment, TypeOK
  <2>3. Current(w) \in deployed' /\ deployed \subseteq deployed' /\ Published(Current(w))
    BY <1>2, <2>1 DEF CommitDeployment, Busy
  <2>4. MessageStep(w)
    BY <1>2, <1>4, <1>9, <2>1, <2>2, <2>3 DEF SaveDeployment, LoseCommit, Current, Busy
  <2> QED BY <1>3, <2>4, MessageStepPreserves
<1>10. CASE DeliverNotifications(w)
  <2>1. Current(w) \in deployed
    BY <1>10 DEF DeliverNotifications, IInv, AlertInv, OneAlertPerDeployment
  <2>2. MessageStep(w)
    BY <1>2, <1>4, <1>10, <2>1 DEF DeliverNotifications, Current, Busy
  <2> QED BY <1>3, <2>2, MessageStepPreserves
<1>11. CASE Ack(w)
  <2>1. Settled(Current(w))
    BY <1>11 DEF Ack, IInv, WorkerInv
  <2>2. MessageStep(w)
    BY <1>2, <1>5, <1>11, <2>1 DEF Ack, Settled, Current, Busy
  <2> QED BY <1>3, <2>2, MessageStepPreserves
<1>12. CASE Attempts(w)
  <2>1. MessageStep(w)
    BY <1>2, <1>4, <1>5, <1>12 DEF Attempts, Busy
  <2> QED BY <1>3, <2>1, MessageStepPreserves
<1>13. CASE DeadLetter(w)
  <2>1. wrk[w].pc \in Busy
    BY <1>13 DEF DeadLetter, Busy
  <2>2. \A e \in Events : \/ status'[e] = status[e]
                          \/ status'[e] = "dead_letter" /\ e = Current(w)
    BY <1>1, <1>13 DEF DeadLetter, TypeOK
  <2>3. MessageStep(w)
    BY <1>2, <1>4, <1>6, <1>13, <2>1, <2>2 DEF DeadLetter, Busy
  <2> QED BY <1>3, <2>3, MessageStepPreserves
<1>14. CASE Forward(w)
  <2>1. MessageStep(w)
    BY <1>2, <1>4, <1>14 DEF Forward, Current, Busy
  <2> QED BY <1>3, <2>1, MessageStepPreserves
<1>15. CASE Crash(w)
  <2>1. MessageStep(w)
    BY <1>2, <1>6, <1>15 DEF Crash, Busy
  <2> QED BY <1>3, <2>1, MessageStepPreserves
<1>16. CASE Restart(w)
  <2>1. wrk'[w].pc = "idle" /\ wrk'[w].batch = wrk[w].batch
    BY <1>1, <1>16 DEF Restart, TypeOK, Consumers
  <2>2. MessageStep(w)
    BY <1>1, <1>2, <1>16, <2>1 DEF Restart, TypeOK, Busy
  <2> QED BY <1>3, <2>2, MessageStepPreserves
<1>17. CASE PruneRetained(w)
  <2>1. \A e \in Events : status'[e] \in {status[e], "pruned"}
    BY <1>17 DEF PruneRetained
  <2>2. wrk[w].pc = "notify" => stream[wrk[w].entry] \in deployed
    BY DEF IInv, AlertInv, OneAlertPerDeployment, Current
  <2> QED BY <1>3, <1>17, <2>1 DEF PruneRetained, IInv, WorkerInv, AckedIsSettled, StatusInv,
               AcceptedInv, ProcessedIsDeployed, AlertInv, OneAlertPerDeployment, Published,
               Settled, Current
<1>18. CASE XReadGroup(w) \/ \E idle \in SUBSET pending : XAutoClaim(w, idle)
  BY <1>18, ClaimPreserves
<1> QED
  BY <1>7, <1>8, <1>9, <1>10, <1>11, <1>12, <1>13, <1>14, <1>15, <1>16, <1>17, <1>18
     DEF WorkerStep, Progress

-----------------------------------------------------------------------------
\* The initial state satisfies the invariant.
LEMMA InitInvariant == Init => IInv
<1> SUFFICES ASSUME Init PROVE IInv
  OBVIOUS
<1>1. TypeOK
  <2>1. /\ req \in [Handlers -> Requests]
        /\ job \in [Admins -> Jobs]
        /\ wrk \in [Workers -> Consumers]
    BY RequestRecords, JobRecords, ConsumerRecords DEF Init
  <2>2. stream \in Seq(Events) /\ Len(stream) = 0
    BY DEF Init
  <2>3. /\ status \in [Events -> Statuses]
        /\ dlq \in [Events -> Nat]
        /\ deliveries \in [EntryIds -> 0..MaxAttempts]
    BY PipelineAssumption DEF Init, Statuses, PipelineAssumption
  <2> QED BY <2>1, <2>2, <2>3, PipelineAssumption DEF Init, TypeOK, PipelineAssumption
<1>2. WorkerInv
  BY DEF Init, WorkerInv, Busy
<1>3. AckedIsSettled /\ StatusInv /\ AcceptedInv /\ ProcessedIsDeployed /\ AlertInv
  BY DEF Init, AckedIsSettled, StatusInv, AcceptedInv, ProcessedIsDeployed, AlertInv,
         OneAlertPerDeployment
<1> QED BY <1>1, <1>2, <1>3 DEF IInv

\* Stuttering preserves the invariant.
LEMMA StutterInvariant == IInv /\ UNCHANGED vars => IInv'
  BY DEF IInv, vars, dbVars, redisVars, TypeOK, WorkerInv, AckedIsSettled, StatusInv,
         AcceptedInv, ProcessedIsDeployed, AlertInv, OneAlertPerDeployment, Published,
         Settled, Current

\* IInv is an invariant of the pipeline.
THEOREM Invariant == Spec => []IInv
<1>1. IInv /\ [Next]_vars => IInv'
  BY HandlerPreserves, AdminPreserves, WorkerPreserves, StutterInvariant DEF Next
<1> QED BY InitInvariant, <1>1, PTL DEF Spec

\* Every variable keeps its type.
THEOREM TypeCorrect == Spec => []TypeOK
<1>1. IInv => TypeOK
  BY DEF IInv
<1> QED BY Invariant, <1>1, PTL

\* No entry is acknowledged before its event is deployed or dead-lettered.
THEOREM AckSafety == Spec => []AckedIsSettled
<1>1. IInv => AckedIsSettled
  BY DEF IInv
<1> QED BY Invariant, <1>1, PTL

\* No accepted event is lost.
THEOREM AcceptSafety == Spec => []AcceptedIsKept
<1>1. IInv => AcceptedIsKept
  <2> SUFFICES ASSUME IInv, NEW e \in accepted, ~Settled(e)
               PROVE  e \in Open
    BY DEF AcceptedIsKept
  <2>1. PICK n \in 1..Len(stream) : stream[n] = e
    BY DEF IInv, AcceptedInv, Published
  <2>2. n \in pending \union (delivered + 1)..Len(stream)
    BY <2>1 DEF IInv, TypeOK, AckedIsSettled
  <2> QED BY <2>1, <2>2 DEF Open
<1> QED BY Invariant, <1>1, PTL

\* No event is shown as processed without its deployment.
THEOREM StatusSafety == Spec => []ProcessedIsDeployed
<1>1. IInv => ProcessedIsDeployed
  BY DEF IInv
<1> QED BY Invariant, <1>1, PTL

\* No deployment is alerted by two workers, or twice.
THEOREM AlertSafety == Spec => []OneAlertPerDeployment
<1>1. IInv => OneAlertPerDeployment
  BY DEF IInv, AlertInv
<1> QED BY Invariant, <1>1, PTL

-----------------------------------------------------------------------------
(* Reprocessing.                                                           *)

\* A row of the dead-letter table, and a request that looked it up, are about an
\* event that was published; one that is about to delete the row has published it
\* again.
ReprocessInv ==
    /\ \A e \in Events : dlq[e] # 0 => Published(e)
    /\ \A a \in Admins : /\ job[a].pc \in {"requeue", "publish"} => Published(job[a].event)
                         /\ job[a].pc = "complete" => Republished(job[a].event)

\* Two entries of an event stay two.
LEMMA RepublishedStays ==
    ASSUME stream \in Seq(Events), stream' \in Seq(Events), Extends, NEW e, Republished(e)
    PROVE  Republished(e)'
<1>1. PICK m \in 1..Len(stream), n \in 1..Len(stream) : m # n /\ stream[m] = e /\ stream[n] = e
  BY DEF Republished
<1>2. /\ m \in 1..Len(stream') /\ n \in 1..Len(stream')
      /\ stream'[m] = e /\ stream'[n] = e
  BY <1>1 DEF Extends
<1> QED BY <1>1, <1>2 DEF Republished

\* Webhook requests and the workers leave the jobs alone, and rows are added only for
\* entries.
LEMMA ReprocessFrame ==
    ASSUME TypeOK, ReprocessInv, MissingWasReprocessed, job' = job,
           stream' \in Seq(Events), Extends,
           \A e \in Events : dlq'[e] \in {0, dlq[e]} \/ Published(e),
           \A e \in Events : status'[e] = "dead_letter" =>
                               dlq'[e] # 0 \/ (dlq'[e] = dlq[e] /\ status[e] = "dead_letter")
    PROVE  ReprocessInv' /\ MissingWasReprocessed'
<1>1. \A e : Published(e) => Published(e)'
  BY PublishedStays DEF TypeOK
<1>2. \A e : Republished(e) => Republished(e)'
  BY RepublishedStays DEF TypeOK
<1>3. ReprocessInv'
  BY <1>1, <1>2 DEF ReprocessInv
<1>4. MissingWasReprocessed'
  BY <1>2 DEF MissingWasReprocessed
<1> QED BY <1>3, <1>4

\* A reprocess request publishes the event a second time before it deletes the row.
LEMMA AdminReprocess ==
    ASSUME IInv, ReprocessInv, MissingWasReprocessed, NEW a \in Admins, AdminStep(a)
    PROVE  ReprocessInv' /\ MissingWasReprocessed'
<1> PICK e : e = job[a].event
  OBVIOUS
<1>1. TypeOK /\ TypeOK' /\ Extends
  BY AdminType, AdminExtends DEF IInv
<1>2. \A d : Published(d) => Published(d)'
  BY <1>1, PublishedStays DEF TypeOK
<1>3. \A d : Republished(d) => Republished(d)'
  BY <1>1, RepublishedStays DEF TypeOK
<1>4. job[a].pc # "idle" => e \in Events /\ job[a].row \in Nat
  BY <1>1, JobRecords DEF TypeOK
<1>5. ASSUME NEW d, \A c \in Admins \ {a} : job'[c] = job[c],
             job'[a].pc # "idle" => job'[a].event = d,
             job'[a].pc \in {"requeue", "publish"} => Published(d)',
             job'[a].pc = "complete" => Republished(d)',
             \A x \in Events : dlq'[x] = dlq[x] \/ (dlq'[x] = 0 /\ Republished(x)),
             \A x \in Events : status'[x] \in {status[x], "queued"}
      PROVE  ReprocessInv' /\ MissingWasReprocessed'
  <2>1. ReprocessInv'
    BY <1>2, <1>3, <1>5 DEF ReprocessInv
  <2>2. MissingWasReprocessed'
    BY <1>3, <1>5 DEF MissingWasReprocessed
  <2> QED BY <2>1, <2>2
<1> USE DEF dbVars, redisVars
<1>6. ASSUME NEW d \in Events, LookupDeadLetter(a, d) PROVE ReprocessInv' /\ MissingWasReprocessed'
  <2>1. /\ job'[a] = [pc |-> "requeue", event |-> d, row |-> dlq[d]]
        /\ \A c \in Admins \ {a} : job'[c] = job[c]
        /\ UNCHANGED <<dlq, status>> /\ Published(d)
    BY <1>1, <1>6 DEF LookupDeadLetter, TypeOK, ReprocessInv
  <2>2. job'[a].pc = "requeue" /\ job'[a].event = d
    BY <2>1
  <2> QED BY <1>2, <1>5, <2>1, <2>2
<1>7. ASSUME NEW p, job' = [job EXCEPT ![a].pc = p], job[a].pc # "idle"
      PROVE  /\ job'[a].pc = p /\ job'[a].event = e
             /\ \A c \in Admins \ {a} : job'[c] = job[c]
  <2>1. job' = [job EXCEPT ![a] = [job[a] EXCEPT !.pc = p]]
    BY <1>7
  <2> QED BY <1>1, <1>7, <2>1 DEF TypeOK, Jobs
<1>8. CASE RequeueDeadLetter(a)
  <2>1. job'[a].pc = "publish" /\ job'[a].event = e /\ \A c \in Admins \ {a} : job'[c] = job[c]
    BY <1>7, <1>8 DEF RequeueDeadLetter
  <2>2. Published(e)
    BY <1>8 DEF RequeueDeadLetter, ReprocessInv
  <2>3. dlq' = dlq /\ \A d \in Events : status'[d] \in {status[d], "queued"}
    BY <1>1, <1>8 DEF RequeueDeadLetter, TypeOK
  <2> QED BY <1>2, <1>5, <2>1, <2>2, <2>3
<1>9. CASE PublishDeadLetter(a)
  <2>1. job'[a].pc = "complete" /\ job'[a].event = e /\ \A c \in Admins \ {a} : job'[c] = job[c]
    BY <1>7, <1>9 DEF PublishDeadLetter
  <2>2. Published(e) /\ e \in Events
    BY <1>4, <1>9 DEF PublishDeadLetter, ReprocessInv
  <2>3. PICK n \in 1..Len(stream) : stream[n] = e
    BY <2>2 DEF Published
  <2>4. /\ Len(stream') = Len(stream) + 1 /\ stream'[Len(stream')] = e
        /\ stream'[n] = e
    BY <1>1, <1>9, <2>2, <2>3, PublishType DEF PublishDeadLetter, TypeOK
  <2>5. n \in 1..Len(stream') /\ Len(stream') \in 1..Len(stream') /\ n # Len(stream')
    BY <1>1, <2>3, <2>4 DEF TypeOK
  <2>6. Republished(e)'
    BY <2>1, <2>4, <2>5 DEF Republished
  <2>7. UNCHANGED <<dlq, status>>
    BY <1>9 DEF PublishDeadLetter
  <2> QED BY <1>5, <2>1, <2>6, <2>7
<1>10. CASE CompleteReprocess(a)
  <2>1. Republished(e) /\ e \in Events
    BY <1>4, <1>10 DEF CompleteReprocess, ReprocessInv
  <2>2. \A d \in Events : dlq'[d] = dlq[d] \/ (dlq'[d] = 0 /\ d = e)
    BY <1>1, <1>10 DEF CompleteReprocess, TypeOK
  <2>3. job'[a].pc = "idle" /\ \A c \in Admins \ {a} : job'[c] = job[c]
    BY <1>1, <1>10 DEF CompleteReprocess, EndJob, TypeOK
  <2> QED BY <1>5, <1>10, <2>1, <2>2, <2>3 DEF CompleteReprocess
<1>11. CASE FailReprocess(a)
  <2>1. job'[a].pc = "idle" /\ \A c \in Admins \ {a} : job'[c] = job[c]
    BY <1>1, <1>11 DEF FailReprocess, EndJob, TypeOK
  <2> QED BY <1>5, <1>11, <2>1 DEF FailReprocess
<1> QED BY <1>6, <1>8, <1>9, <1>10, <1>11 DEF AdminStep

\* A webhook request adds no row and sets no event to dead letter.
LEMMA HandlerReprocess ==
    ASSUME IInv, ReprocessInv, MissingWasReprocessed, NEW h \in Handlers, HandlerStep(h)
    PROVE  ReprocessInv' /\ MissingWasReprocessed'
<1>1. TypeOK /\ TypeOK' /\ Extends
  BY HandlerType, HandlerExtends DEF IInv
<1>2. UNCHANGED <<dlq, job>> /\ \A e \in Events : status'[e] \in {status[e], "queued"}
  BY <1>1 DEF HandlerStep, RecordWebhook, LookupDuplicate, PublishWebhook, FailWebhook, dbVars, TypeOK
<1> QED BY <1>1, <1>2, ReprocessFrame DEF TypeOK

\* A worker adds a row only for the event of its entry, and with the status; retention
\* deletes the row only with its event.
LEMMA WorkerReprocess ==
    ASSUME IInv, ReprocessInv, MissingWasReprocessed, NEW w \in Workers, WorkerStep(w)
    PROVE  ReprocessInv' /\ MissingWasReprocessed'
<1> USE DEF dbVars, redisVars
<1>1. TypeOK /\ UNCHANGED <<job, stream>>
  BY DEF IInv, WorkerStep, Progress, XReadGroup, XAutoClaim, Fetch, FailFetch, SaveDeployment, LoseCommit,
         DeliverNotifications, Ack, Attempts, DeadLetter, Forward, Crash, Restart, PruneRetained
<1>2. ASSUME \A e \in Events : dlq'[e] \in {0, dlq[e]} \/ Published(e),
             \A e \in Events : status'[e] = "dead_letter" =>
                                 dlq'[e] # 0 \/ (dlq'[e] = dlq[e] /\ status[e] = "dead_letter")
      PROVE  ReprocessInv' /\ MissingWasReprocessed'
  <2>1. Extends /\ stream' \in Seq(Events)
    BY <1>1 DEF Extends, TypeOK
  <2> QED BY <1>1, <1>2, <2>1, ReprocessFrame
<1>3. CASE SaveDeployment(w) \/ LoseCommit(w)
  <2>1. dlq' = dlq /\ \A e \in Events : status'[e] \in {status[e], "processed"}
    BY <1>1, <1>3 DEF SaveDeployment, LoseCommit, CommitDeployment, TypeOK
  <2> QED BY <1>2, <2>1
<1>4. CASE DeadLetter(w)
  <2> DEFINE e == Current(w)
  <2>1. e \in Events /\ Published(e)
    BY <1>1, <1>4 DEF DeadLetter, IInv, WorkerInv, Busy, Current, Published, TypeOK
  <2>2. \A d \in Events \ {e} : dlq'[d] = dlq[d] /\ status'[d] = status[d]
    BY <1>1, <1>4 DEF DeadLetter, TypeOK
  <2>3. \/ dlq'[e] # 0
        \/ UNCHANGED <<status, dlq>>
    BY <1>1, <1>4, <2>1 DEF DeadLetter, TypeOK
  <2> HIDE DEF e
  <2> QED BY <1>2, <2>1, <2>2, <2>3
<1>5. CASE PruneRetained(w)
  <2>1. \A e \in Events : \/ status'[e] = "pruned" /\ dlq'[e] = 0
                          \/ status'[e] = status[e] /\ dlq'[e] = dlq[e]
    BY <1>5 DEF PruneRetained
  <2> QED BY <1>2, <2>1
<1>6. CASE UNCHANGED <<status, dlq>>
  BY <1>2, <1>6
<1> QED BY <1>3, <1>4, <1>5, <1>6 DEF WorkerStep, Progress, XReadGroup, XAutoClaim, Fetch, FailFetch,
         DeliverNotifications, Ack, Attempts, Forward, Crash, Restart

\* Every row, and every request on one, is about an event that was published, and the
\* request deletes it only after it has published it again.
LEMMA ReprocessInvariant == Spec => []ReprocessInv /\ []MissingWasReprocessed
<1> DEFINE Inv == ReprocessInv /\ MissingWasReprocessed
<1>1. Init => Inv
  BY DEF Init, ReprocessInv, MissingWasReprocessed
<1>2. IInv /\ Inv /\ [Next]_vars => Inv'
  <2>1. Inv /\ UNCHANGED vars => Inv'
    BY DEF ReprocessInv, MissingWasReprocessed, Published, Republished, vars, dbVars, redisVars
  <2> QED BY <2>1, AdminReprocess, HandlerReprocess, WorkerReprocess DEF Next
<1> QED BY Invariant, <1>1, <1>2, PTL DEF Spec

\* A dead letter is missing in the table only if its event was published twice.
THEOREM MissingSafety == Spec => []MissingWasReprocessed
  BY ReprocessInvariant, PTL

\* A dead letter is deleted only with its event or when the event was published twice.
THEOREM ClearSafety == Spec => ClearedAfterRepublish
<1>1. ASSUME IInv, ReprocessInv, Next, NEW e \in Events, dlq[e] # 0, dlq'[e] = 0
      PROVE  status'[e] = "pruned" \/ Republished(e)
  <2> USE DEF IInv, TypeOK, dbVars
  <2>1. ~(\E h \in Handlers : HandlerStep(h))
    BY <1>1 DEF HandlerStep, RecordWebhook, LookupDuplicate, PublishWebhook, FailWebhook
  <2>2. ASSUME NEW a \in Admins, AdminStep(a) PROVE Republished(e)
    <3>1. CompleteReprocess(a)
      BY <1>1, <2>2 DEF AdminStep, LookupDeadLetter, RequeueDeadLetter, PublishDeadLetter, FailReprocess
    <3>2. e = job[a].event
      BY <1>1, <3>1 DEF CompleteReprocess
    <3> QED BY <1>1, <3>1, <3>2 DEF CompleteReprocess, ReprocessInv
  <2>3. ASSUME NEW w \in Workers, WorkerStep(w) PROVE status'[e] = "pruned"
    <3>1. ~DeadLetter(w)
      BY <1>1 DEF DeadLetter
    <3>2. PruneRetained(w)
      BY <1>1, <2>3, <3>1 DEF WorkerStep, Progress, XReadGroup, XAutoClaim, Fetch, FailFetch, SaveDeployment,
             LoseCommit, DeliverNotifications, Ack, Attempts, Forward, Crash, Restart
    <3> QED BY <1>1, <3>2 DEF PruneRetained
  <2> QED BY <1>1, <2>1, <2>2, <2>3 DEF Next
<1>2. IInv /\ ReprocessInv /\ [Next]_vars
        => [\A e \in Events : dlq[e] # 0 /\ dlq'[e] = 0 => status'[e] = "pruned" \/ Republished(e)]_vars
  BY <1>1
<1> QED BY Invariant, ReprocessInvariant, <1>2, PTL DEF Spec, ClearedAfterRepublish

-----------------------------------------------------------------------------
(* What ends a worker.                                                     *)

\* An event is in the stream, or about to be, only once its row was in the database.
RecordedInv ==
    /\ \A e \in Events : Published(e) => status[e] # "absent"
    /\ \A h \in Handlers : req[h].pc # "idle" => status[req[h].event] # "absent"

\* XADD publishes one event.
LEMMA PublishAdds ==
    ASSUME TypeOK, NEW e \in Events, Publish(e), NEW d, Published(d)'
    PROVE  Published(d) \/ d = e
<1> USE DEF TypeOK
<1>1. /\ Len(stream') = Len(stream) + 1 /\ Len(stream) \in Nat
      /\ \A n \in 1..Len(stream) : stream'[n] = stream[n]
      /\ stream'[Len(stream')] = e
  <2>1. stream \in Seq(Events) /\ Len(stream) <= MaxEntries
    OBVIOUS
  <2> QED BY <2>1, PublishType
<1>2. PICK n \in 1..Len(stream') : stream'[n] = d
  BY DEF Published
<1>3. CASE n \in 1..Len(stream)
  BY <1>1, <1>2, <1>3 DEF Published
<1>4. CASE n \notin 1..Len(stream)
  <2>1. n = Len(stream')
    BY <1>1, <1>4
  <2> QED BY <1>1, <1>2, <2>1
<1> QED BY <1>3, <1>4

\* A row that was written is deleted at most: no step makes its event new again.
LEMMA RecordedStays ==
    ASSUME TypeOK, Next, NEW e \in Events, status[e] # "absent"
    PROVE  status'[e] # "absent"
<1> USE DEF TypeOK, dbVars
<1>1. ASSUME NEW h \in Handlers, HandlerStep(h) PROVE status'[e] # "absent"
  BY <1>1 DEF HandlerStep, RecordWebhook, LookupDuplicate, PublishWebhook, FailWebhook
<1>2. ASSUME NEW a \in Admins, AdminStep(a) PROVE status'[e] # "absent"
  BY <1>2 DEF AdminStep, LookupDeadLetter, RequeueDeadLetter, PublishDeadLetter, CompleteReprocess,
              FailReprocess
<1>3. ASSUME NEW w \in Workers, WorkerStep(w) PROVE status'[e] # "absent"
  <2>1. CASE SaveDeployment(w) \/ LoseCommit(w)
    BY <2>1 DEF SaveDeployment, LoseCommit, CommitDeployment
  <2>2. CASE DeadLetter(w)
    BY <2>2 DEF DeadLetter
  <2>3. CASE PruneRetained(w)
    BY <2>3 DEF PruneRetained
  <2>4. CASE UNCHANGED status
    BY <2>4
  <2> QED BY <1>3, <2>1, <2>2, <2>3, <2>4 DEF WorkerStep, Progress, XReadGroup, XAutoClaim, Fetch, FailFetch,
         DeliverNotifications, Ack, Attempts, Forward, Crash, Restart
<1> QED BY <1>1, <1>2, <1>3 DEF Next

\* Only a webhook request that recorded its event, or a reprocess request for an event
\* that is in the stream already, adds an entry.
LEMMA RecordedStep ==
    ASSUME IInv, ReprocessInv, RecordedInv, Next
    PROVE  RecordedInv'
<1>1. TypeOK
  BY DEF IInv
<1>2. ASSUME NEW e \in Events, status[e] # "absent" PROVE status'[e] # "absent"
  BY <1>1, <1>2, RecordedStays
<1>3. ASSUME NEW e \in Events, Published(e)' => Published(e) \/ status'[e] # "absent", Published(e)'
      PROVE  status'[e] # "absent"
  BY <1>2, <1>3 DEF RecordedInv
<1>4. ASSUME stream' = stream, NEW e \in Events PROVE Published(e)' => Published(e)
  BY <1>4 DEF Published
<1>5. ASSUME NEW h \in Handlers, req'[h] = req[h], req[h].pc # "idle" PROVE status'[req'[h].event] # "absent"
  <2>1. req[h].event \in Events
    BY <1>1, <1>5, RequestRecords DEF TypeOK
  <2> QED BY <1>2, <1>5, <2>1 DEF RecordedInv
<1>6. CASE \E h \in Handlers : HandlerStep(h)
  <2>1. PICK h \in Handlers : HandlerStep(h)
    BY <1>6
  <2>2. \A g \in Handlers \ {h} : req'[g] = req[g]
    BY <1>1, <2>1 DEF HandlerStep, RecordWebhook, LookupDuplicate, PublishWebhook, FailWebhook, Answer, TypeOK
  <2>3. req'[h].pc # "idle" => req'[h].event \in Events /\ status'[req'[h].event] # "absent"
    <3>1. ASSUME NEW e \in Events, RecordWebhook(h, e) PROVE req'[h].event = e /\ status'[e] # "absent"
      BY <1>1, <3>1 DEF RecordWebhook, TypeOK
    <3>2. CASE LookupDuplicate(h)
      <4>1. req[h].event \in Events /\ status[req[h].event] # "absent"
        BY <1>1, <3>2, RequestRecords DEF LookupDuplicate, RecordedInv, TypeOK
      <4>2. req'[h].pc = "idle" \/ req'[h].event = req[h].event
        BY <1>1, <3>2 DEF LookupDuplicate, Answer, TypeOK
      <4> QED BY <1>2, <4>1, <4>2
    <3>3. CASE PublishWebhook(h) \/ FailWebhook(h)
      BY <1>1, <3>3 DEF PublishWebhook, FailWebhook, Answer, TypeOK
    <3> QED BY <2>1, <3>1, <3>2, <3>3 DEF HandlerStep
  <2>4. ASSUME NEW e \in Events, Published(e)' PROVE status'[e] # "absent"
    <3>1. CASE stream' = stream
      BY <1>3, <1>4, <2>4, <3>1
    <3>2. CASE stream' # stream
      <4>1. req[h].pc = "publish" /\ Publish(req[h].event)
        BY <2>1, <3>2 DEF HandlerStep, RecordWebhook, LookupDuplicate, PublishWebhook, FailWebhook,
                          PublishFails, redisVars
      <4>2. req[h].event \in Events /\ status[req[h].event] # "absent"
        BY <1>1, <4>1, RequestRecords DEF RecordedInv, TypeOK
      <4>3. Published(e) \/ e = req[h].event
        BY <1>1, <2>4, <4>1, <4>2, PublishAdds
      <4> QED BY <1>2, <4>2, <4>3 DEF RecordedInv
    <3> QED BY <3>1, <3>2
  <2> QED BY <1>5, <2>2, <2>3, <2>4 DEF RecordedInv
<1>7. CASE \E a \in Admins : AdminStep(a)
  <2>1. PICK a \in Admins : AdminStep(a)
    BY <1>7
  <2>2. req' = req
    BY <2>1 DEF AdminStep, LookupDeadLetter, RequeueDeadLetter, PublishDeadLetter, CompleteReprocess,
                FailReprocess
  <2>3. ASSUME NEW e \in Events, Published(e)' PROVE Published(e)
    <3>1. CASE stream' = stream
      BY <1>4, <2>3, <3>1
    <3>2. CASE stream' # stream
      <4>1. job[a].pc = "publish" /\ Publish(job[a].event)
        BY <2>1, <3>2 DEF AdminStep, LookupDeadLetter, RequeueDeadLetter, PublishDeadLetter,
                          CompleteReprocess, FailReprocess, PublishFails, redisVars
      <4>2. job[a].event \in Events /\ Published(job[a].event)
        BY <1>1, <4>1, JobRecords DEF ReprocessInv, TypeOK
      <4>3. Published(e) \/ e = job[a].event
        BY <1>1, <2>3, <4>1, <4>2, PublishAdds
      <4> QED BY <4>2, <4>3
    <3> QED BY <3>1, <3>2
  <2> QED BY <1>3, <1>5, <2>2, <2>3 DEF RecordedInv
<1>8. CASE \E w \in Workers : WorkerStep(w)
  <2>1. UNCHANGED <<req, stream>>
    BY <1>8 DEF WorkerStep, Progress, XReadGroup, XAutoClaim, Fetch, FailFetch, SaveDeployment, LoseCommit,
         DeliverNotifications, Ack, Attempts, DeadLetter, Forward, Crash, Restart, PruneRetained, redisVars
  <2> QED BY <1>3, <1>4, <1>5, <2>1 DEF RecordedInv
<1> QED BY <1>6, <1>7, <1>8 DEF Next

\* No entry is in the stream before its row is in the database.
LEMMA RecordedInvariant == Spec => []RecordedInv
<1>1. Init => RecordedInv
  BY DEF Init, RecordedInv, Published
<1>2. IInv /\ ReprocessInv /\ RecordedInv /\ [Next]_vars => RecordedInv'
  <2>1. RecordedInv /\ UNCHANGED vars => RecordedInv'
    BY DEF RecordedInv, Published, vars, dbVars, redisVars
  <2> QED BY <2>1, RecordedStep
<1> QED BY Invariant, ReprocessInvariant, <1>1, <1>2, PTL DEF Spec

\* A worker's record goes down only in Exit: every other move sets its pc otherwise.
LEMMA MovesStayUp ==
    ASSUME TypeOK, NEW v \in Workers
    PROVE  /\ \A p : Goto(v, p) => wrk'[v].pc = p
           /\ NextMessage(v) => wrk'[v].pc = "idle"
           /\ \A b : wrk' = [wrk EXCEPT ![v].batch = b] => wrk'[v].pc = wrk[v].pc
<1>1. wrk \in [Workers -> Consumers] /\ wrk[v] \in Consumers
  BY DEF TypeOK
<1>2. \A p : [wrk[v] EXCEPT !.pc = p].pc = p
  BY <1>1 DEF Consumers
<1>3. \A b : [wrk[v] EXCEPT !.batch = b].pc = wrk[v].pc
  BY <1>1 DEF Consumers
<1>4. ASSUME NEW p, Goto(v, p) PROVE wrk'[v].pc = p
  <2>1. wrk'[v] = [wrk[v] EXCEPT !.pc = p]
    BY <1>1, <1>4 DEF Goto
  <2> QED BY <1>2, <2>1
<1>5. ASSUME NEW b, wrk' = [wrk EXCEPT ![v].batch = b] PROVE wrk'[v].pc = wrk[v].pc
  <2>1. wrk'[v] = [wrk[v] EXCEPT !.batch = b]
    BY <1>1, <1>5
  <2> QED BY <1>3, <2>1
<1>6. NextMessage(v) => wrk'[v].pc = "idle"
  BY <1>1 DEF NextMessage
<1> QED BY <1>4, <1>5, <1>6

\* Only a crash and a missing row end a worker.
LEMMA ExitSteps ==
    ASSUME TypeOK, NEW v \in Workers, WorkerStep(v),
           NEW w \in Workers, wrk[w].pc # "down", wrk'[w].pc = "down"
    PROVE  v = w /\ (Crash(v) \/ (DeadLetter(v) /\ ~Recorded(Current(v))))
<1>1. wrk \in [Workers -> Consumers]
  BY DEF TypeOK
<1>2. v = w
  BY <1>1 DEF WorkerStep, Progress, XReadGroup, XAutoClaim, Fetch, FailFetch, SaveDeployment, LoseCommit,
       DeliverNotifications, Ack, Attempts, DeadLetter, Forward, Crash, Restart, PruneRetained, Goto,
       NextMessage, Exit
<1>3. ~(XReadGroup(v) \/ \E idle \in SUBSET pending : XAutoClaim(v, idle))
  BY <1>1, <1>2, MovesStayUp DEF XReadGroup, XAutoClaim
<1>4. ~(Fetch(v) \/ Restart(v) \/ PruneRetained(v))
  BY <1>1, <1>2 DEF Fetch, Restart, PruneRetained
<1>5. ~(FailFetch(v) \/ SaveDeployment(v) \/ LoseCommit(v) \/ DeliverNotifications(v) \/ Forward(v))
  BY <1>2, MovesStayUp DEF FailFetch, SaveDeployment, LoseCommit, DeliverNotifications, Forward
<1>6. ~(Ack(v) \/ Attempts(v))
  BY <1>2, MovesStayUp DEF Ack, Attempts
<1>7. Crash(v) \/ DeadLetter(v)
  BY <1>3, <1>4, <1>5, <1>6 DEF WorkerStep, Progress
<1>8. DeadLetter(v) => ~Recorded(Current(v))
  BY <1>2, MovesStayUp DEF DeadLetter
<1> QED BY <1>2, <1>7, <1>8

\* A worker ends by itself only at an entry whose webhook row retention deleted; every
\* other end is a failed call or a crash.
THEOREM ExitSafety == Spec => OnlyRetentionEndsWorkers
<1>1. ASSUME IInv, RecordedInv, Next, NEW w \in Workers, wrk[w].pc # "down", wrk'[w].pc = "down"
      PROVE  faults' > faults \/ (wrk[w].pc = "dead_letter" /\ status[Current(w)] = "pruned")
  <2>1. TypeOK
    BY <1>1 DEF IInv
  <2>2. PICK v \in Workers : WorkerStep(v)
    <3>1. ASSUME NEW h \in Handlers, HandlerStep(h) PROVE wrk' = wrk
      BY <3>1 DEF HandlerStep, RecordWebhook, LookupDuplicate, PublishWebhook, FailWebhook
    <3>2. ASSUME NEW a \in Admins, AdminStep(a) PROVE wrk' = wrk
      BY <3>2 DEF AdminStep, LookupDeadLetter, RequeueDeadLetter, PublishDeadLetter, CompleteReprocess,
                  FailReprocess
    <3> QED BY <1>1, <3>1, <3>2 DEF Next
  <2>3. Crash(v) => faults' > faults
    BY <2>1 DEF Crash, Fault, TypeOK
  <2>4. v = w /\ (Crash(v) \/ (DeadLetter(v) /\ ~Recorded(Current(v))))
    BY <1>1, <2>1, <2>2, ExitSteps
  <2>5. CASE DeadLetter(v) /\ ~Recorded(Current(v))
    <3>1. Current(w) \in Events /\ Published(Current(w))
      BY <1>1, <2>1, <2>4, <2>5 DEF DeadLetter, IInv, WorkerInv, Busy, Current, Published, TypeOK
    <3> QED BY <1>1, <2>4, <2>5, <3>1 DEF DeadLetter, Recorded, RecordedInv
  <2> QED BY <2>3, <2>4, <2>5
<1>2. IInv /\ RecordedInv /\ [Next]_vars
        => [\A w \in Workers : wrk[w].pc # "down" /\ wrk'[w].pc = "down" =>
              faults' > faults \/ (wrk[w].pc = "dead_letter" /\ status[Current(w)] = "pruned")]_vars
  BY <1>1
<1> QED BY Invariant, RecordedInvariant, <1>2, PTL DEF Spec, OnlyRetentionEndsWorkers

-----------------------------------------------------------------------------
(* The pipeline implements EventLedger.                                    *)

LedgerUnchanged == UNCHANGED <<accepted, Open, deployed, deadStream>>

\* An event that was published is known to the ledger.
LEMMA PublishedIsKnown ==
    ASSUME IInv, NEW e, Published(e)
    PROVE  Ledger!Known(e)
<1>1. PICK n \in 1..Len(stream) : stream[n] = e
  BY DEF Published
<1>2. CASE n \in pending \union (delivered + 1)..Len(stream)
  BY <1>1, <1>2 DEF Open, Ledger!Known
<1>3. CASE n \notin pending \union (delivered + 1)..Len(stream)
  <2>1. n \in 1..delivered /\ n \notin pending
    BY <1>3 DEF IInv, TypeOK
  <2>2. Settled(e)
    BY <1>1, <2>1 DEF IInv, AckedIsSettled
  <2> QED BY <2>2 DEF Settled, Ledger!Known
<1> QED BY <1>2, <1>3

\* XADD opens the event and closes none.
LEMMA PublishOpens ==
    ASSUME TypeOK, NEW e \in Events, Publish(e), UNCHANGED <<delivered, pending>>
    PROVE  Open' = Open \union {e}
<1>1. /\ Len(stream') = Len(stream) + 1
      /\ \A n \in 1..Len(stream) : stream'[n] = stream[n]
      /\ stream'[Len(stream')] = e
  BY PublishType DEF TypeOK
<1> DEFINE live == pending \union (delivered + 1)..Len(stream)
<1>2. /\ delivered \in 0..Len(stream) /\ Len(stream) \in Nat
      /\ pending \subseteq 1..delivered
  BY DEF TypeOK
<1>3. live \subseteq 1..Len(stream)
  <2>1. pending \subseteq 1..Len(stream)
    BY <1>2
  <2>2. (delivered + 1)..Len(stream) \subseteq 1..Len(stream)
    BY <1>2
  <2> QED BY <2>1, <2>2
<1>4. (pending \union (delivered + 1)..Len(stream))' = live \union {Len(stream) + 1}
  BY <1>1, <1>2
<1>5. Open = {stream[n] : n \in live}
  BY DEF Open
<1>6. Open' = {stream'[n] : n \in live \union {Len(stream) + 1}}
  BY <1>4 DEF Open
<1> HIDE DEF live
<1> QED BY <1>1, <1>3, <1>5, <1>6

\* Every step of a webhook request is one of the ledger.
LEMMA HandlerImplements ==
    ASSUME IInv, NEW h \in Handlers, HandlerStep(h)
    PROVE  Ledger!Next \/ LedgerUnchanged
<1>1. TypeOK /\ req[h] \in Requests
  BY DEF IInv, TypeOK
<1> DEFINE e == req[h].event
<1>2. req[h].pc # "idle" => e \in Events
  BY <1>1, RequestRecords
<1>3. ASSUME Publish(e), req[h].pc = "publish", UNCHANGED <<delivered, pending, deployed, deadStream>>,
             accepted' \in {accepted, accepted \union {e}}
      PROVE  Ledger!Next
  <2>1. Open' = Open \union {e}
    BY <1>1, <1>2, <1>3, PublishOpens
  <2> QED BY <1>2, <1>3, <2>1 DEF Ledger!Next, Ledger!Enqueue
<1> USE DEF dbVars, redisVars
<1>4. CASE \E d \in Events : RecordWebhook(h, d)
  BY <1>4 DEF RecordWebhook, LedgerUnchanged, Open
<1>5. CASE LookupDuplicate(h)
  <2>1. UNCHANGED <<Open, deployed, deadStream>> /\ e \in Events
    BY <1>2, <1>5 DEF LookupDuplicate, Open
  <2>2. CASE accepted' = accepted
    BY <2>1, <2>2 DEF LedgerUnchanged
  <2>3. CASE accepted' # accepted
    <3>1. accepted' = accepted \union {e} /\ status[e] \in {"processed", "dead_letter"}
      BY <1>1, <1>5, <2>1, <2>3 DEF LookupDuplicate, Recorded, TypeOK, Statuses
    <3>2. Ledger!Known(e)
      BY <2>1, <3>1, PublishedIsKnown DEF IInv, StatusInv
    <3> QED BY <2>1, <3>1, <3>2 DEF Ledger!Next, Ledger!Accept
  <2> QED BY <2>2, <2>3
<1>6. CASE PublishWebhook(h)
  BY <1>3, <1>6 DEF PublishWebhook
<1>7. CASE FailWebhook(h)
  <2>1. CASE stream' = stream
    BY <1>7, <2>1 DEF FailWebhook, LedgerUnchanged, Open
  <2>2. CASE stream' # stream
    BY <1>3, <1>7, <2>2 DEF FailWebhook, PublishFails
  <2> QED BY <2>1, <2>2
<1> QED BY <1>4, <1>5, <1>6, <1>7 DEF HandlerStep

\* Every step of a reprocess request is one of the ledger.
LEMMA AdminImplements ==
    ASSUME IInv, NEW a \in Admins, AdminStep(a)
    PROVE  Ledger!Next \/ LedgerUnchanged
<1>1. TypeOK /\ job[a] \in Jobs
  BY DEF IInv, TypeOK
<1>2. UNCHANGED <<accepted, delivered, pending, deployed, deadStream>>
  BY DEF AdminStep, LookupDeadLetter, RequeueDeadLetter, PublishDeadLetter, CompleteReprocess,
         FailReprocess, dbVars, redisVars
<1>3. CASE stream' = stream
  BY <1>2, <1>3 DEF LedgerUnchanged, Open
<1>4. CASE stream' # stream
  <2> DEFINE e == job[a].event
  <2>1. job[a].pc = "publish" /\ Publish(e)
    BY <1>4 DEF AdminStep, LookupDeadLetter, RequeueDeadLetter, PublishDeadLetter,
                CompleteReprocess, FailReprocess, PublishFails, redisVars
  <2>2. e \in Events
    BY <1>1, <2>1, JobRecords
  <2>3. Open' = Open \union {e}
    BY <1>1, <1>2, <2>1, <2>2, PublishOpens
  <2> QED BY <1>2, <2>2, <2>3 DEF Ledger!Next, Ledger!Enqueue
<1> QED BY <1>3, <1>4

\* Every step of a worker is one of the ledger.
LEMMA WorkerImplements ==
    ASSUME IInv, NEW w \in Workers, WorkerStep(w)
    PROVE  Ledger!Next \/ LedgerUnchanged
<1>1. TypeOK
  BY DEF IInv
<1>2. wrk[w].pc \in Busy => Current(w) \in Events /\ Published(Current(w))
  BY <1>1 DEF IInv, WorkerInv, TypeOK, Current, Published
<1> USE DEF dbVars, redisVars
<1>3. CASE XReadGroup(w)
  <2>1. /\ delivered \in Nat /\ delivered' \in Nat /\ Len(stream) \in Nat /\ stream' = stream
        /\ delivered <= delivered' /\ delivered' <= Len(stream)
        /\ pending' = pending \union (delivered + 1)..delivered'
    BY <1>1, <1>3, PipelineAssumption DEF XReadGroup, Least, TypeOK, PipelineAssumption
  <2>2. (delivered + 1)..delivered' \union (delivered' + 1)..Len(stream)
          = (delivered + 1)..Len(stream)
    BY <2>1
  <2>3. pending' \union (delivered' + 1)..Len(stream') = pending \union (delivered + 1)..Len(stream)
    BY <2>1, <2>2
  <2>4. Open' = Open
    BY <1>3, <2>3 DEF Open, XReadGroup
  <2> QED BY <1>3, <2>4 DEF XReadGroup, LedgerUnchanged
<1>4. CASE SaveDeployment(w) \/ LoseCommit(w)
  <2>1. Ledger!Known(Current(w)) /\ Current(w) \in Events
    BY <1>2, <1>4, PublishedIsKnown DEF SaveDeployment, LoseCommit, Busy
  <2>2. Ledger!Deploy(Current(w))
    BY <1>4, <2>1 DEF SaveDeployment, LoseCommit, CommitDeployment, Ledger!Deploy, Open
  <2> QED BY <2>1, <2>2 DEF Ledger!Next
<1>5. CASE Forward(w)
  <2>1. Ledger!Known(Current(w)) /\ Current(w) \in Events
    BY <1>2, <1>5, PublishedIsKnown DEF Forward, Busy
  <2>2. Ledger!Park(Current(w))
    BY <1>5, <2>1 DEF Forward, Ledger!Park, Open
  <2> QED BY <2>1, <2>2 DEF Ledger!Next
<1>6. CASE Ack(w)
  <2> DEFINE e == Current(w)
             live == pending \union (delivered + 1)..Len(stream)
  <2>1. e \in Events /\ Settled(e) /\ UNCHANGED <<accepted, deployed, deadStream, stream>>
    BY <1>2, <1>6 DEF Ack, IInv, WorkerInv, Busy
  <2>2. wrk[w].entry \in 1..delivered /\ delivered \in Nat
    BY <1>1, <1>6 DEF Ack, IInv, WorkerInv, Busy, TypeOK
  <2>3. (pending \union (delivered + 1)..Len(stream))' = live \ {wrk[w].entry}
    BY <1>1, <1>6, <2>2 DEF Ack, TypeOK
  <2>4. /\ Open = {stream[n] : n \in live}
        /\ Open' = {stream[n] : n \in live \ {wrk[w].entry}}
        /\ e = stream[wrk[w].entry]
    BY <2>1, <2>3 DEF Open, Current
  <2> HIDE DEF live, e
  <2>5. Open' = Open \/ Open' = Open \ {e}
    BY <2>4
  <2>6. Open' = Open \ {e} => Ledger!Close({e})
    BY <2>1 DEF Ledger!Close, Settled
  <2> QED BY <2>1, <2>5, <2>6 DEF Ledger!Next, LedgerUnchanged
<1>7. CASE \/ \E idle \in SUBSET pending : XAutoClaim(w, idle)
           \/ Fetch(w) \/ FailFetch(w) \/ DeliverNotifications(w) \/ Attempts(w)
           \/ DeadLetter(w) \/ Crash(w) \/ Restart(w) \/ PruneRetained(w)
  BY <1>7 DEF LedgerUnchanged, Open, XAutoClaim, Fetch, FailFetch, DeliverNotifications, Attempts,
              DeadLetter, Crash, Restart, PruneRetained
<1> QED BY <1>3, <1>4, <1>5, <1>6, <1>7 DEF WorkerStep, Progress

\* The pipeline keeps the promise of EventLedger.
THEOREM Refinement == Spec => LedgerSpec
<1>1. Init => Ledger!Init
  BY DEF Init, Ledger!Init, Open
<1>2. IInv /\ [Next]_vars => [Ledger!Next]_(Ledger!vars)
  <2> SUFFICES ASSUME IInv, [Next]_vars
               PROVE  Ledger!Next \/ LedgerUnchanged
    BY DEF Ledger!vars, LedgerUnchanged
  <2>1. CASE UNCHANGED vars
    BY <2>1 DEF vars, dbVars, redisVars, LedgerUnchanged, Open
  <2>2. CASE Next
    BY <2>2, HandlerImplements, AdminImplements, WorkerImplements DEF Next
  <2> QED BY <2>1, <2>2
<1> QED BY Invariant, <1>1, <1>2, PTL DEF Spec, LedgerSpec, Ledger!Spec
=============================================================================
