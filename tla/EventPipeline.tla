---------------------------- MODULE EventPipeline ----------------------------
(***************************************************************************)
(* The path of a webhook event on the Redis deployment: HTTP handlers      *)
(* record it in the database and publish its id to a stream, workers of    *)
(* one consumer group process it, entries that keep failing are dead       *)
(* lettered, administrators reprocess dead letters, and every worker       *)
(* prunes old rows.  The database and Redis are two systems without a      *)
(* common transaction, so every handler is a sequence of steps that other  *)
(* processes, failures and crashes interleave with.                        *)
(*                                                                         *)
(* An event stands for one row of webhook_events: its id, its unique key   *)
(* (workspace, provider, provider_event_id) and the deployment that is     *)
(* parsed from its payload under the same unique key.                      *)
(***************************************************************************)
EXTENDS Naturals, Sequences, FiniteSets

CONSTANTS
    Events,       \* webhook events
    Malformed,    \* events whose payload the provider's parser rejects
    Old,          \* events that come to be past the retention cut-off
    Handlers,     \* webhook requests served concurrently
    Admins,       \* reprocess requests served concurrently
    Workers,      \* consumers of the group
    MaxAttempts,  \* RedisStream.maxAttempts
    BatchSize,    \* COUNT of XREADGROUP
    MaxEntries,   \* bound of the model: entries ever added to the stream
    MaxFaults     \* bound of the model: failed calls, lost replies, crashes

ASSUME PipelineAssumption ==
    /\ Malformed \subseteq Events
    /\ Old \subseteq Events
    /\ MaxAttempts \in Nat \ {0}
    /\ BatchSize \in Nat \ {0}
    /\ MaxEntries \in Nat
    /\ MaxFaults \in Nat

VARIABLES
    status,       \* webhook_events.status; "absent" before, "pruned" after
    dlq,          \* event -> id of its dead_letter_events row, 0 for none
    lastRow,      \* the last dead_letter_events id drawn
    deployed,     \* events with a deployments row
    alerted,      \* events whose deployment went through DeliverNotifications
    stream,       \* the Redis stream: the events of its entries, in order
    delivered,    \* last entry delivered to the group by XREADGROUP
    pending,      \* the group's pending entries
    deliveries,   \* entry -> delivery count, which saturates at MaxAttempts
    deadStream,   \* events in the Redis dead-letter stream
    accepted,     \* events whose provider was told 202
    req,          \* webhook request -> where it stands
    job,          \* reprocess request -> where it stands
    wrk,          \* worker -> where it stands
    faults        \* faults so far

dbVars    == <<status, dlq, lastRow, deployed, alerted>>
redisVars == <<stream, delivered, pending, deliveries, deadStream>>
vars == <<dbVars, redisVars, accepted, req, job, wrk, faults>>

EntryIds == 1..MaxEntries
Statuses == {"absent", "queued", "processed", "dead_letter", "pruned"}

Requests == [pc : {"idle"}] \union [pc : {"lookup", "publish"}, event : Events]
Jobs == [pc : {"idle"}]
          \union [pc : {"requeue", "publish", "complete"}, event : Events, row : Nat]
Consumers == [pc : {"idle", "down"}, batch : SUBSET EntryIds]
          \union [pc : {"save", "notify", "ack", "attempts", "dead_letter", "forward"},
                  entry : EntryIds, batch : SUBSET EntryIds]

TypeOK ==
    /\ status \in [Events -> Statuses]
    /\ dlq \in [Events -> Nat]
    /\ lastRow \in Nat
    /\ deployed \subseteq Events
    /\ alerted \subseteq Events
    /\ stream \in Seq(Events)
    /\ Len(stream) <= MaxEntries
    /\ delivered \in 0..Len(stream)
    /\ pending \subseteq 1..delivered
    /\ deliveries \in [EntryIds -> 0..MaxAttempts]
    /\ deadStream \subseteq Events
    /\ accepted \subseteq Events
    /\ req \in [Handlers -> Requests]
    /\ job \in [Admins -> Jobs]
    /\ wrk \in [Workers -> Consumers]
    /\ faults \in 0..MaxFaults

Init ==
    /\ status = [e \in Events |-> "absent"]
    /\ dlq = [e \in Events |-> 0]
    /\ lastRow = 0
    /\ deployed = {}
    /\ alerted = {}
    /\ stream = <<>>
    /\ delivered = 0
    /\ pending = {}
    /\ deliveries = [n \in EntryIds |-> 0]
    /\ deadStream = {}
    /\ accepted = {}
    /\ req = [h \in Handlers |-> [pc |-> "idle"]]
    /\ job = [a \in Admins |-> [pc |-> "idle"]]
    /\ wrk = [w \in Workers |-> [pc |-> "idle", batch |-> {}]]
    /\ faults = 0

Recorded(e) == status[e] \notin {"absent", "pruned"}
Fault == faults < MaxFaults /\ faults' = faults + 1

\* XADD of an event id: RedisStream.Publish
Publish(e) ==
    /\ Len(stream) < MaxEntries
    /\ stream' = Append(stream, e)

\* A publish that reports an error: Redis may have added the entry all the same.
PublishFails(e) == Fault /\ (Publish(e) \/ UNCHANGED stream)

-----------------------------------------------------------------------------
(* Webhook handler.                                                        *)

Answer(h) == req' = [req EXCEPT ![h] = [pc |-> "idle"]]

\* Mutant: the event is published before its row is committed.
RecordLater(h, e) ==
    /\ req[h].pc = "idle"
    /\ status[e] # "pruned"
    /\ \/ req' = [req EXCEPT ![h] = [pc |-> "publish", event |-> e]] /\ UNCHANGED status
       \/ status' = [status EXCEPT ![e] = "queued"] /\ UNCHANGED req
    /\ UNCHANGED <<dlq, lastRow, deployed, alerted, redisVars, accepted, job, wrk, faults>>

\* Verify, then INSERT ... ON CONFLICT DO NOTHING: a new event is published, a
\* duplicate is looked up first.
RecordWebhook(h, e) ==
    /\ req[h].pc = "idle"
    /\ status[e] # "pruned"
    /\ IF status[e] = "absent"
       THEN /\ status' = [status EXCEPT ![e] = "queued"]
            /\ req' = [req EXCEPT ![h] = [pc |-> "publish", event |-> e]]
       ELSE /\ req' = [req EXCEPT ![h] = [pc |-> "lookup", event |-> e]]
            /\ UNCHANGED status
    /\ UNCHANGED <<dlq, lastRow, deployed, alerted, redisVars, accepted, job, wrk, faults>>

\* Mutant: a duplicate is accepted whatever its status.
AcceptAnyDuplicate(h) ==
    /\ req[h].pc = "lookup"
    /\ accepted' = accepted \union {req[h].event}
    /\ Answer(h)
    /\ UNCHANGED <<dbVars, redisVars, job, wrk, faults>>

\* WebhookQueueState of a duplicate: a queued event is published again, another
\* is accepted as it is, and a row that is gone by now is an error (503).
LookupDuplicate(h) ==
    /\ req[h].pc = "lookup"
    /\ LET e == req[h].event IN
       \/ /\ status[e] = "queued"
          /\ req' = [req EXCEPT ![h] = [pc |-> "publish", event |-> e]]
          /\ UNCHANGED accepted
       \/ /\ Recorded(e) /\ status[e] # "queued"
          /\ accepted' = accepted \union {e}
          /\ Answer(h)
       \/ /\ ~Recorded(e)
          /\ Answer(h)
          /\ UNCHANGED accepted
    /\ UNCHANGED <<dbVars, redisVars, job, wrk, faults>>

PublishWebhook(h) ==
    /\ req[h].pc = "publish"
    /\ Publish(req[h].event)
    /\ accepted' = accepted \union {req[h].event}
    /\ Answer(h)
    /\ UNCHANGED <<dbVars, delivered, pending, deliveries, deadStream, job, wrk, faults>>

\* A failed database call or publish (503), or the API process dies: the
\* provider sees no 202.
FailWebhook(h) ==
    /\ req[h].pc # "idle"
    /\ IF req[h].pc = "publish" THEN PublishFails(req[h].event)
                                ELSE Fault /\ UNCHANGED stream
    /\ Answer(h)
    /\ UNCHANGED <<dbVars, delivered, pending, deliveries, deadStream, accepted, job, wrk>>

-----------------------------------------------------------------------------
(* Reprocessing of a dead letter.                                          *)

EndJob(a) == job' = [job EXCEPT ![a] = [pc |-> "idle"]]

\* The SELECT of PrepareReprocess
LookupDeadLetter(a, e) ==
    /\ job[a].pc = "idle"
    /\ dlq[e] # 0
    /\ job' = [job EXCEPT ![a] = [pc |-> "requeue", event |-> e, row |-> dlq[e]]]
    /\ UNCHANGED <<dbVars, redisVars, accepted, req, wrk, faults>>

\* Mutant: the dead letter is cleared without publishing its event.
RequeueAndClear(a) ==
    /\ job[a].pc = "requeue"
    /\ job' = [job EXCEPT ![a].pc = "complete"]
    /\ UNCHANGED <<dbVars, redisVars, accepted, req, wrk, faults>>

\* The UPDATE of PrepareReprocess, whatever the status has become since
RequeueDeadLetter(a) ==
    /\ job[a].pc = "requeue"
    /\ LET e == job[a].event IN
       status' = IF Recorded(e) THEN [status EXCEPT ![e] = "queued"] ELSE status
    /\ job' = [job EXCEPT ![a].pc = "publish"]
    /\ UNCHANGED <<dlq, lastRow, deployed, alerted, redisVars, accepted, req, wrk, faults>>

PublishDeadLetter(a) ==
    /\ job[a].pc = "publish"
    /\ Publish(job[a].event)
    /\ job' = [job EXCEPT ![a].pc = "complete"]
    /\ UNCHANGED <<dbVars, delivered, pending, deliveries, deadStream, accepted, req, wrk, faults>>

\* CompleteReprocess deletes the row by its id.
CompleteReprocess(a) ==
    /\ job[a].pc = "complete"
    /\ LET e == job[a].event IN
       dlq' = IF dlq[e] = job[a].row THEN [dlq EXCEPT ![e] = 0] ELSE dlq
    /\ EndJob(a)
    /\ UNCHANGED <<status, lastRow, deployed, alerted, redisVars, accepted, req, wrk, faults>>

FailReprocess(a) ==
    /\ job[a].pc # "idle"
    /\ IF job[a].pc = "publish" THEN PublishFails(job[a].event)
                                ELSE Fault /\ UNCHANGED stream
    /\ EndJob(a)
    /\ UNCHANGED <<dbVars, delivered, pending, deliveries, deadStream, accepted, req, wrk>>

-----------------------------------------------------------------------------
(* Worker.                                                                 *)

Goto(w, pc) == wrk' = [wrk EXCEPT ![w].pc = pc]
NextMessage(w) == wrk' = [wrk EXCEPT ![w] = [pc |-> "idle", batch |-> wrk[w].batch]]
Exit(w) == wrk' = [wrk EXCEPT ![w] = [pc |-> "down", batch |-> {}]]
Polling(w) == wrk[w].pc = "idle" /\ wrk[w].batch = {}
Current(w) == stream[wrk[w].entry]
Least(m, n) == IF m <= n THEN m ELSE n

\* Mutant: one entry too many is counted as delivered.
ReadPastEnd(w) ==
    /\ Polling(w)
    /\ delivered < Len(stream)
    /\ delivered' = Least(Len(stream), delivered + BatchSize) + 1
    /\ pending' = pending \union (delivered + 1)..delivered'
    /\ wrk' = [wrk EXCEPT ![w].batch = (delivered + 1)..delivered']
    /\ UNCHANGED <<dbVars, stream, deliveries, deadStream, accepted, req, job, faults>>

\* XREADGROUP ">": the entries after the last delivered one, BatchSize at most
XReadGroup(w) ==
    /\ Polling(w)
    /\ delivered < Len(stream)
    /\ LET last == Least(Len(stream), delivered + BatchSize)
           new == (delivered + 1)..last
       IN /\ delivered' = last
          /\ pending' = pending \union new
          /\ deliveries' = [n \in EntryIds |-> IF n \in new THEN 1 ELSE deliveries[n]]
          /\ wrk' = [wrk EXCEPT ![w].batch = new]
    /\ UNCHANGED <<dbVars, stream, deadStream, accepted, req, job, faults>>

\* Mutant: entries that used up their attempts are no longer claimed.
ClaimFresh(w, idle) ==
    /\ Polling(w)
    /\ idle # {}
    /\ \A n \in idle : n \in pending /\ deliveries[n] + 1 < MaxAttempts
    /\ deliveries' = [n \in EntryIds |-> IF n \in idle THEN deliveries[n] + 1 ELSE deliveries[n]]
    /\ wrk' = [wrk EXCEPT ![w].batch = idle]
    /\ UNCHANGED <<dbVars, stream, delivered, pending, deadStream, accepted, req, job, faults>>

\* Mutant: XAUTOCLAIM with JUSTID, which does not raise the delivery count.
ClaimJustID(w, idle) ==
    /\ Polling(w)
    /\ idle # {}
    /\ idle \subseteq pending
    /\ wrk' = [wrk EXCEPT ![w].batch = idle]
    /\ UNCHANGED <<dbVars, redisVars, accepted, req, job, faults>>

\* XAUTOCLAIM: the pending entries that nobody touched for claimIdle, among them
\* those of a dead worker, of a failed attempt and of a worker that is slow.
XAutoClaim(w, idle) ==
    /\ Polling(w)
    /\ idle # {}
    /\ idle \subseteq pending
    /\ deliveries' = [n \in EntryIds |-> IF n \in idle THEN Least(MaxAttempts, deliveries[n] + 1)
                                         ELSE deliveries[n]]
    /\ wrk' = [wrk EXCEPT ![w].batch = idle]
    /\ UNCHANGED <<dbVars, stream, delivered, pending, deadStream, accepted, req, job, faults>>

\* The oldest message of the batch: Webhook reads its row, parse normalizes it.
Fetch(w) ==
    /\ wrk[w].pc = "idle"
    /\ \E n \in wrk[w].batch :
         /\ \A m \in wrk[w].batch : n <= m
         /\ LET parsed == Recorded(stream[n]) /\ stream[n] \notin Malformed IN
            wrk' = [wrk EXCEPT ![w] = [pc |-> IF parsed THEN "save" ELSE "attempts",
                                       entry |-> n, batch |-> wrk[w].batch \ {n}]]
    /\ UNCHANGED <<dbVars, redisVars, accepted, req, job, faults>>

\* Mutant: Process swallows the error, so that the entry is acknowledged.
SwallowError(w) ==
    /\ wrk[w].pc = "save"
    /\ Fault
    /\ Goto(w, "ack")
    /\ UNCHANGED <<dbVars, redisVars, accepted, req, job>>

\* Mutant: the status is written outside the transaction that is rolled back.
MarkAndFail(w) ==
    /\ wrk[w].pc = "save"
    /\ Fault
    /\ status' = IF Recorded(Current(w)) THEN [status EXCEPT ![Current(w)] = "processed"]
                                         ELSE status
    /\ Goto(w, "attempts")
    /\ UNCHANGED <<dlq, lastRow, deployed, alerted, redisVars, accepted, req, job>>

\* A database error in Process before anything is written
FailFetch(w) ==
    /\ wrk[w].pc = "save"
    /\ Fault
    /\ Goto(w, "attempts")
    /\ UNCHANGED <<dbVars, redisVars, accepted, req, job>>

\* The transaction of saveDeployment
CommitDeployment(e) ==
    /\ deployed' = deployed \union {e}
    /\ status' = IF Recorded(e) THEN [status EXCEPT ![e] = "processed"] ELSE status

\* Mutant: every worker that saves delivers the notifications.
SaveAndNotify(w) ==
    /\ wrk[w].pc = "save"
    /\ CommitDeployment(Current(w))
    /\ Goto(w, "notify")
    /\ UNCHANGED <<dlq, lastRow, alerted, redisVars, accepted, req, job, faults>>

\* Only the worker that created the deployment delivers its notifications.
SaveDeployment(w) ==
    /\ wrk[w].pc = "save"
    /\ CommitDeployment(Current(w))
    /\ Goto(w, IF Current(w) \in deployed THEN "ack" ELSE "notify")
    /\ UNCHANGED <<dlq, lastRow, alerted, redisVars, accepted, req, job, faults>>

\* The transaction commits but the worker sees an error.
LoseCommit(w) ==
    /\ wrk[w].pc = "save"
    /\ Fault
    /\ CommitDeployment(Current(w))
    /\ Goto(w, "attempts")
    /\ UNCHANGED <<dlq, lastRow, alerted, redisVars, accepted, req, job>>

\* DeliverNotifications; Process ignores its error.
DeliverNotifications(w) ==
    /\ wrk[w].pc = "notify"
    /\ \/ alerted' = alerted \union {Current(w)} /\ UNCHANGED faults
       \/ Fault /\ UNCHANGED alerted
    /\ Goto(w, "ack")
    /\ UNCHANGED <<status, dlq, lastRow, deployed, redisVars, accepted, req, job>>

Ack(w) ==
    /\ wrk[w].pc = "ack"
    /\ pending' = pending \ {wrk[w].entry}
    /\ NextMessage(w)
    /\ UNCHANGED <<dbVars, stream, delivered, deliveries, deadStream, accepted, req, job, faults>>

\* XPENDING of the failed entry: one that is no longer pending counts as one attempt.
Attempts(w) ==
    /\ wrk[w].pc = "attempts"
    /\ LET n == wrk[w].entry
           attempts == IF n \in pending THEN deliveries[n] ELSE 1
       IN IF attempts < MaxAttempts THEN NextMessage(w) ELSE Goto(w, "dead_letter")
    /\ UNCHANGED <<dbVars, redisVars, accepted, req, job, faults>>

\* Mutant: the entry is acknowledged before it is in the dead-letter stream.
DeadLetterOnly(w) ==
    /\ wrk[w].pc = "dead_letter"
    /\ Recorded(Current(w))
    /\ status' = [status EXCEPT ![Current(w)] = "dead_letter"]
    /\ Goto(w, "ack")
    /\ UNCHANGED <<dlq, lastRow, deployed, alerted, redisVars, accepted, req, job, faults>>

\* Worker.deadLetter: AddDeadLetter upserts the row and sets the status in one
\* transaction, without looking at the status; a missing webhook row is an error
\* that ends the worker.
DeadLetter(w) ==
    /\ wrk[w].pc = "dead_letter"
    /\ LET e == Current(w) IN
       \/ /\ Recorded(e)
          /\ status' = [status EXCEPT ![e] = "dead_letter"]
          /\ IF dlq[e] = 0
             THEN dlq' = [dlq EXCEPT ![e] = lastRow + 1] /\ lastRow' = lastRow + 1
             ELSE UNCHANGED <<dlq, lastRow>>
          /\ Goto(w, "forward")
       \/ /\ ~Recorded(e)
          /\ Exit(w)
          /\ UNCHANGED <<status, dlq, lastRow>>
    /\ UNCHANGED <<deployed, alerted, redisVars, accepted, req, job, faults>>

\* XADD to the dead-letter stream
Forward(w) ==
    /\ wrk[w].pc = "forward"
    /\ deadStream' = deadStream \union {Current(w)}
    /\ Goto(w, "ack")
    /\ UNCHANGED <<dbVars, stream, delivered, pending, deliveries, accepted, req, job, faults>>

\* A failed Redis call or dead-letter transaction ends Consume and the process.
Crash(w) ==
    /\ wrk[w].pc # "down"
    /\ Fault
    /\ Exit(w)
    /\ UNCHANGED <<dbVars, redisVars, accepted, req, job>>

Restart(w) ==
    /\ wrk[w].pc = "down"
    /\ wrk' = [wrk EXCEPT ![w].pc = "idle"]
    /\ UNCHANGED <<dbVars, redisVars, accepted, req, job, faults>>

\* PruneRetained deletes webhook rows past 90 days; their dead letters cascade.
PruneRetained(w) ==
    /\ wrk[w].pc # "down"
    /\ LET gone == {e \in Old : Recorded(e)} IN
       /\ gone # {}
       /\ status' = [e \in Events |-> IF e \in gone THEN "pruned" ELSE status[e]]
       /\ dlq' = [e \in Events |-> IF e \in gone THEN 0 ELSE dlq[e]]
    /\ UNCHANGED <<lastRow, deployed, alerted, redisVars, accepted, req, job, wrk, faults>>

-----------------------------------------------------------------------------
HandlerStep(h) == (\E e \in Events : RecordWebhook(h, e))
                    \/ LookupDuplicate(h) \/ PublishWebhook(h) \/ FailWebhook(h)
AdminStep(a) == (\E e \in Events : LookupDeadLetter(a, e))
                  \/ RequeueDeadLetter(a) \/ PublishDeadLetter(a)
                  \/ CompleteReprocess(a) \/ FailReprocess(a)
Progress(w) == \/ XReadGroup(w) \/ Fetch(w) \/ SaveDeployment(w)
               \/ DeliverNotifications(w) \/ Ack(w) \/ Attempts(w)
               \/ DeadLetter(w) \/ Forward(w) \/ Restart(w)
WorkerStep(w) == \/ Progress(w) \/ (\E idle \in SUBSET pending : XAutoClaim(w, idle))
                 \/ FailFetch(w) \/ LoseCommit(w) \/ Crash(w) \/ PruneRetained(w)

Next == \/ \E h \in Handlers : HandlerStep(h)
        \/ \E a \in Admins : AdminStep(a)
        \/ \E w \in Workers : WorkerStep(w)

Spec == Init /\ [][Next]_vars

\* A worker that runs takes its next step and one that died is restarted; the
\* claim timer of Consume reaches every pending entry that stays idle.
Claims(w, n) == \E idle \in SUBSET pending : n \in idle /\ XAutoClaim(w, idle)
Fairness ==
    /\ \A w \in Workers : WF_vars(Progress(w))
    /\ \A n \in EntryIds : SF_vars(\E w \in Workers : Claims(w, n))
FairSpec == Spec /\ Fairness

-----------------------------------------------------------------------------
(* Properties.                                                             *)

\* Events with an entry that is not delivered or not acknowledged yet
Open == {stream[n] : n \in pending \union (delivered + 1)..Len(stream)}
Settled(e) == e \in deployed \union deadStream

\* XACK comes only after the deployment's transaction committed, or after the
\* event was written to the dead-letter stream, however entries are reclaimed
\* from slow or dead workers (Consume and process in queue.go).
AckedIsSettled ==
    \A n \in 1..delivered : n \in pending \/ Settled(stream[n])

\* An event whose provider was told 202 has a deployment, is in the dead-letter
\* stream, or is still in the queue: neither a failed publish nor a duplicate
\* answered without publishing loses it (handleWebhook in http.go).
AcceptedIsKept ==
    \A e \in accepted : Settled(e) \/ e \in Open

\* The webhook status and the deployment commit together: no interleaving of
\* workers, administrators and retention shows an event as processed that has no
\* deployment (saveDeployment in store.go).
ProcessedIsDeployed ==
    \A e \in Events : status[e] = "processed" => e \in deployed

\* However many workers hold entries of one event, at most one of them delivers
\* its notifications, after the commit and only once (the created flag of
\* SaveProcessedDeployment in Process, service.go).
OneAlertPerDeployment ==
    \A w \in Workers : wrk[w].pc = "notify" =>
        /\ Current(w) \in deployed \ alerted
        /\ \A v \in Workers \ {w} : wrk[v].pc = "notify" => Current(v) # Current(w)

\* A dead letter is cleared only when its event has a second entry in the stream, from
\* the request that clears it or from a webhook request that found the event queued
\* again; only retention, which deletes the event too, may drop it otherwise
\* (reprocessDeadLetter in http.go).
Republished(e) == \E m, n \in 1..Len(stream) : m # n /\ stream[m] = e /\ stream[n] = e
ClearedAfterRepublish ==
    [][\A e \in Events : dlq[e] # 0 /\ dlq'[e] = 0 => status'[e] = "pruned" \/ Republished(e)]_vars

\* Every entry of the stream is acknowledged in the end: crashes, failed attempts
\* and reclaims by several workers neither strand an entry nor pass it around
\* for ever (Consume in queue.go).
EveryEntryFinishes ==
    \A n \in EntryIds : n <= Len(stream) ~> n <= delivered /\ n \notin pending

\* What README.md:43 says of the pending entries, for those whose own event retention
\* leaves alone: they are reclaimed and, when they keep failing, dead lettered.  It does
\* not hold: an entry of a pruned event ends the worker whenever it is reclaimed
\* (Worker.deadLetter finds no row), and the entries behind it in its batch are reclaimed
\* together with it each time and never reached.
EveryKeptEntryFinishes ==
    \A n \in EntryIds : n \in pending /\ stream[n] \notin Old ~> n \notin pending

\* What holds of it: without a failed call a worker ends only at an entry whose row
\* retention deleted; no entry is in the stream before its row is in the database
\* (handleWebhook in http.go, Worker.deadLetter in queue.go).
OnlyRetentionEndsWorkers ==
    [][\A w \in Workers : wrk[w].pc # "down" /\ wrk'[w].pc = "down" =>
         faults' > faults \/ (wrk[w].pc = "dead_letter" /\ status[Current(w)] = "pruned")]_vars

\* What deploy-pulse.md:26 says of dead letters: each event given up on is in the
\* dead-letter table, where an administrator can reprocess it.  It does not hold:
\* a worker that gives up again between PublishDeadLetter and CompleteReprocess
\* updates the row that is about to be deleted.
DeadLetterIsRecoverable ==
    \A e \in Events : status[e] = "dead_letter" => dlq[e] # 0

\* What holds of it: an event shown as a dead letter that is missing in the table has a
\* second entry in the stream; one that was published once has its row
\* (CompleteReprocess in store.go).
MissingWasReprocessed ==
    \A e \in Events : status[e] = "dead_letter" => dlq[e] # 0 \/ Republished(e)

\* The pipeline keeps the promise of EventLedger.
Ledger == INSTANCE EventLedger WITH open <- Open, parked <- deadStream
LedgerSpec == Ledger!Spec
=============================================================================
