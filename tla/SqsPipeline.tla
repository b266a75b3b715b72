----------------------------- MODULE SqsPipeline -----------------------------
(***************************************************************************)
(* The path of an event on the AWS deployment: the API sends event ids to  *)
(* an SQS queue, Lambda invokes the worker with batches of messages, and   *)
(* SQS moves a message that was received too often to its dead-letter      *)
(* queue.  The queue and Lambda's poller are external; the API's handlers  *)
(* and ProcessSQSBatch are the code.  The handlers are those of            *)
(* EventPipeline: the same code runs over the other queue.                 *)
(***************************************************************************)
EXTENDS Naturals, FiniteSets

CONSTANTS
    Events,       \* webhook events
    Malformed,    \* events whose payload the provider's parser rejects
    Old,          \* events that come to be past the retention cut-off
    Handlers,     \* webhook requests served concurrently
    Admins,       \* reprocess requests served concurrently
    Lambdas,      \* concurrent invocations of the worker function
    MaxReceives,  \* maxReceiveCount of the queue, and the 5 in ProcessSQSBatch
    BatchSize,    \* BatchSize of the event source
    MaxMessages,  \* bound of the model: messages ever sent
    MaxFaults     \* bound of the model: failed calls, lost replies, timeouts

ASSUME SqsAssumption ==
    /\ Events # {}
    /\ Malformed \subseteq Events
    /\ Old \subseteq Events
    /\ MaxReceives \in Nat \ {0}
    /\ BatchSize \in Nat \ {0}
    /\ MaxMessages \in Nat
    /\ MaxFaults \in Nat

VARIABLES
    status,       \* webhook_events.status; "absent" before, "pruned" after
    dlq,          \* event -> id of its dead_letter_events row, 0 for none
    lastRow,      \* the last dead_letter_events id drawn
    deployed,     \* events with a deployments row
    alerted,      \* events whose deployment went through DeliverNotifications
    accepted,     \* events whose provider was told 202
    refused,      \* events that a request failed for since they were last published
    resent,       \* events that an administrator's request published again
    req,          \* webhook request -> where it stands
    job,          \* reprocess request -> where it stands
    event,        \* message -> the event it names
    place,        \* message -> where SQS keeps it
    receives,     \* message -> ApproximateReceiveCount
    inv,          \* invocation -> where it stands
    unlisted,     \* messages that no dead letter was written for at the last receive
    faults        \* faults so far

dbVars == <<status, dlq, lastRow, deployed, alerted>>
apiVars == <<accepted, refused, resent, req, job>>
workVars == <<receives, inv, unlisted>>
vars == <<dbVars, apiVars, workVars, event, place, faults>>

Messages == 1..MaxMessages
Statuses == {"absent", "queued", "processed", "dead_letter", "pruned"}
Places == {"unsent", "visible", "inflight", "deleted", "dlq"}

Requests == [pc : {"idle"}] \union [pc : {"lookup", "publish"}, event : Events]
Jobs == [pc : {"idle"}]
          \union [pc : {"requeue", "publish", "complete"}, event : Events, row : Nat]

\* An invocation: where it stands, the record in work (0 for none), the records
\* still to come, those reported as failed, and its batch.
Invocations ==
    [pc : {"idle", "next", "save", "notify", "error", "list"}, msg : Messages \union {0},
     todo : SUBSET Messages, failed : SUBSET Messages, batch : SUBSET Messages]
Idle == [pc |-> "idle", msg |-> 0, todo |-> {}, failed |-> {}, batch |-> {}]
Invoked(batch) == [pc |-> "next", msg |-> 0, todo |-> batch, failed |-> {}, batch |-> batch]

TypeOK ==
    /\ status \in [Events -> Statuses]
    /\ dlq \in [Events -> Nat]
    /\ lastRow \in Nat
    /\ deployed \subseteq Events
    /\ alerted \subseteq Events
    /\ accepted \subseteq Events
    /\ refused \subseteq Events
    /\ resent \subseteq Events
    /\ req \in [Handlers -> Requests]
    /\ job \in [Admins -> Jobs]
    /\ event \in [Messages -> Events]
    /\ place \in [Messages -> Places]
    /\ receives \in [Messages -> 0..MaxReceives]
    /\ inv \in [Lambdas -> Invocations]
    /\ unlisted \subseteq Messages
    /\ faults \in 0..MaxFaults

Init ==
    /\ status = [e \in Events |-> "absent"]
    /\ dlq = [e \in Events |-> 0]
    /\ lastRow = 0
    /\ deployed = {}
    /\ alerted = {}
    /\ accepted = {}
    /\ refused = {}
    /\ resent = {}
    /\ req = [h \in Handlers |-> [pc |-> "idle"]]
    /\ job = [a \in Admins |-> [pc |-> "idle"]]
    /\ event = [m \in Messages |-> CHOOSE e \in Events : TRUE]
    /\ place = [m \in Messages |-> "unsent"]
    /\ receives = [m \in Messages |-> 0]
    /\ inv = [l \in Lambdas |-> Idle]
    /\ unlisted = {}
    /\ faults = 0

Recorded(e) == status[e] \notin {"absent", "pruned"}
Fault == faults < MaxFaults /\ faults' = faults + 1

\* SQSQueue.Publish: SendMessage of an event id
Publish(e) ==
    \E m \in Messages :
        /\ place[m] = "unsent"
        /\ \A k \in Messages : k < m => place[k] # "unsent"
        /\ place' = [place EXCEPT ![m] = "visible"]
        /\ event' = [event EXCEPT ![m] = e]

-----------------------------------------------------------------------------
(* Webhook handler.                                                        *)

\* Verify, then INSERT ... ON CONFLICT DO NOTHING: a new event is published, a
\* duplicate is looked up first.
RecordWebhook(h, e) ==
    /\ req[h].pc = "idle"
    /\ status[e] # "pruned"
    /\ IF status[e] = "absent"
       THEN /\ status' = [status EXCEPT ![e] = "queued"]
            /\ req' = [req EXCEPT ![h] = [pc |-> "publish", event |-> e]]
       ELSE /\ req' = [req EXCEPT ![h] = [pc |-> "lookup", event |-> e]]
            /\ UNCHANGED status
    /\ UNCHANGED <<dlq, lastRow, deployed, alerted, accepted, refused, resent, job, workVars,
                   event, place, faults>>

\* Mutant: a duplicate is accepted whatever its status.
AcceptAnyDuplicate(h) ==
    /\ req[h].pc = "lookup"
    /\ accepted' = accepted \union {req[h].event}
    /\ req' = [req EXCEPT ![h] = [pc |-> "idle"]]
    /\ UNCHANGED <<dbVars, refused, resent, job, workVars, event, place, faults>>

\* WebhookQueueState of a duplicate: a queued event is published again, another
\* is accepted as it is, and a row that is gone by now is an error (503).
LookupDuplicate(h) ==
    /\ req[h].pc = "lookup"
    /\ LET e == req[h].event IN
       IF status[e] = "queued"
       THEN /\ req' = [req EXCEPT ![h] = [pc |-> "publish", event |-> e]]
            /\ UNCHANGED accepted
       ELSE /\ req' = [req EXCEPT ![h] = [pc |-> "idle"]]
            /\ accepted' = IF Recorded(e) THEN accepted \union {e} ELSE accepted
    /\ UNCHANGED <<dbVars, refused, resent, job, workVars, event, place, faults>>

\* The event may have been processed, dead lettered or pruned since it was recorded
\* or looked up.
PublishWebhook(h) ==
    /\ req[h].pc = "publish"
    /\ Publish(req[h].event)
    /\ accepted' = accepted \union {req[h].event}
    /\ refused' = refused \ {req[h].event}
    /\ req' = [req EXCEPT ![h] = [pc |-> "idle"]]
    /\ UNCHANGED <<dbVars, resent, job, workVars, faults>>

\* A failed database call or publish (503), or the API dies: the provider sees no
\* 202, but the message may have been sent.
FailWebhook(h) ==
    /\ req[h].pc # "idle"
    /\ Fault
    /\ (req[h].pc = "publish" /\ Publish(req[h].event)) \/ UNCHANGED <<event, place>>
    /\ refused' = refused \union {req[h].event}
    /\ req' = [req EXCEPT ![h] = [pc |-> "idle"]]
    /\ UNCHANGED <<dbVars, accepted, resent, job, workVars>>

-----------------------------------------------------------------------------
(* Reprocessing of a dead letter.                                          *)

\* The SELECT of PrepareReprocess
LookupDeadLetter(a, e) ==
    /\ job[a].pc = "idle"
    /\ dlq[e] # 0
    /\ job' = [job EXCEPT ![a] = [pc |-> "requeue", event |-> e, row |-> dlq[e]]]
    /\ UNCHANGED <<dbVars, accepted, refused, resent, req, workVars, event, place, faults>>

\* The UPDATE of PrepareReprocess, whatever the status has become since
RequeueDeadLetter(a) ==
    /\ job[a].pc = "requeue"
    /\ LET e == job[a].event IN
       status' = IF Recorded(e) THEN [status EXCEPT ![e] = "queued"] ELSE status
    /\ job' = [job EXCEPT ![a].pc = "publish"]
    /\ UNCHANGED <<dlq, lastRow, deployed, alerted, accepted, refused, resent, req, workVars,
                   event, place, faults>>

PublishDeadLetter(a) ==
    /\ job[a].pc = "publish"
    /\ Publish(job[a].event)
    /\ resent' = resent \union {job[a].event}
    /\ refused' = refused \ {job[a].event}
    /\ job' = [job EXCEPT ![a].pc = "complete"]
    /\ UNCHANGED <<dbVars, accepted, req, workVars, faults>>

\* Mutant: the event is set back to queued with the end of the request.
RequeueAtTheEnd(a) ==
    /\ job[a].pc = "complete"
    /\ LET e == job[a].event IN
       /\ dlq' = IF dlq[e] = job[a].row THEN [dlq EXCEPT ![e] = 0] ELSE dlq
       /\ status' = IF Recorded(e) THEN [status EXCEPT ![e] = "queued"] ELSE status
    /\ job' = [job EXCEPT ![a] = [pc |-> "idle"]]
    /\ UNCHANGED <<lastRow, deployed, alerted, accepted, refused, resent, req, workVars,
                   event, place, faults>>

\* CompleteReprocess deletes the row by its id; the message that was given up on
\* stays in the queue's dead letters.
CompleteReprocess(a) ==
    /\ job[a].pc = "complete"
    /\ LET e == job[a].event IN
       dlq' = IF dlq[e] = job[a].row THEN [dlq EXCEPT ![e] = 0] ELSE dlq
    /\ job' = [job EXCEPT ![a] = [pc |-> "idle"]]
    /\ UNCHANGED <<status, lastRow, deployed, alerted, accepted, refused, resent, req, workVars,
                   event, place, faults>>

FailReprocess(a) ==
    /\ job[a].pc # "idle"
    /\ Fault
    /\ (job[a].pc = "publish" /\ Publish(job[a].event)) \/ UNCHANGED <<event, place>>
    /\ refused' = refused \union {job[a].event}
    /\ job' = [job EXCEPT ![a] = [pc |-> "idle"]]
    /\ UNCHANGED <<dbVars, accepted, resent, req, workVars>>

-----------------------------------------------------------------------------
(* The queue.                                                              *)

\* Mutant: the queue has no redrive policy.
ReceiveForEver(l, batch) ==
    /\ inv[l].pc = "idle"
    /\ batch # {} /\ Cardinality(batch) <= BatchSize
    /\ \A m \in batch : place[m] = "visible"
    /\ place' = [m \in Messages |-> IF m \in batch THEN "inflight" ELSE place[m]]
    /\ receives' = [m \in Messages |-> IF m \in batch THEN receives[m] + 1 ELSE receives[m]]
    /\ inv' = [inv EXCEPT ![l] = Invoked(batch)]
    /\ UNCHANGED <<dbVars, apiVars, event, unlisted, faults>>

\* The poller receives a batch and invokes the function with it.
Receive(l, batch) ==
    /\ inv[l].pc = "idle"
    /\ batch # {} /\ Cardinality(batch) <= BatchSize
    /\ \A m \in batch : place[m] = "visible" /\ receives[m] < MaxReceives
    /\ place' = [m \in Messages |-> IF m \in batch THEN "inflight" ELSE place[m]]
    /\ receives' = [m \in Messages |-> IF m \in batch THEN receives[m] + 1 ELSE receives[m]]
    /\ inv' = [inv EXCEPT ![l] = Invoked(batch)]
    /\ UNCHANGED <<dbVars, apiVars, event, unlisted, faults>>

\* A message that was received MaxReceives times goes to the queue's dead letters.
Redrive(m) ==
    /\ place[m] = "visible"
    /\ receives[m] = MaxReceives
    /\ place' = [place EXCEPT ![m] = "dlq"]
    /\ UNCHANGED <<dbVars, apiVars, event, receives, unlisted, inv, faults>>

\* The invocation is over: the poller deletes what is done and SQS shows the
\* rest again after the visibility timeout, which outlasts an invocation.
Return(l, done) ==
    /\ place' = [m \in Messages |-> IF m \in done THEN "deleted"
                                    ELSE IF m \in inv[l].batch THEN "visible" ELSE place[m]]
    /\ inv' = [inv EXCEPT ![l] = Idle]

-----------------------------------------------------------------------------
(* ProcessSQSBatch.                                                        *)

Goto(l, pc) == inv' = [inv EXCEPT ![l].pc = pc]
Current(l) == event[inv[l].msg]
\* The records that are in work or still to come
Begun(l) == {m \in inv[l].batch : m \in inv[l].todo \union {inv[l].msg}}

\* The next record: Process reads its row and parses the payload.
Fetch(l) ==
    /\ inv[l].pc = "next"
    /\ \E m \in inv[l].todo :
         LET parsed == Recorded(event[m]) /\ event[m] \notin Malformed IN
         inv' = [inv EXCEPT ![l].pc = IF parsed THEN "save" ELSE "error",
                            ![l].msg = m, ![l].todo = inv[l].todo \ {m}]
    /\ UNCHANGED <<dbVars, apiVars, event, place, receives, unlisted, faults>>

\* On to the next record, with this one reported as failed or not.
NextRecord(l, failed) ==
    inv' = [inv EXCEPT ![l].pc = "next", ![l].msg = 0, ![l].failed = failed]

CommitDeployment(e) ==
    /\ deployed' = deployed \union {e}
    /\ status' = IF Recorded(e) THEN [status EXCEPT ![e] = "processed"] ELSE status

\* Mutant: every invocation that saves delivers the notifications.
SaveAndNotify(l) ==
    /\ inv[l].pc = "save"
    /\ CommitDeployment(Current(l))
    /\ Goto(l, "notify")
    /\ UNCHANGED <<dlq, lastRow, alerted, apiVars, event, place, receives, unlisted, faults>>

SaveDeployment(l) ==
    /\ inv[l].pc = "save"
    /\ CommitDeployment(Current(l))
    /\ IF Current(l) \in deployed THEN NextRecord(l, inv[l].failed) ELSE Goto(l, "notify")
    /\ UNCHANGED <<dlq, lastRow, alerted, apiVars, event, place, receives, unlisted, faults>>

\* A database error in Process; the transaction may have committed.
FailSave(l) ==
    /\ inv[l].pc = "save"
    /\ Fault
    /\ CommitDeployment(Current(l)) \/ UNCHANGED <<deployed, status>>
    /\ Goto(l, "error")
    /\ UNCHANGED <<dlq, lastRow, alerted, apiVars, event, place, receives, unlisted>>

DeliverNotifications(l) ==
    /\ inv[l].pc = "notify"
    /\ \/ alerted' = alerted \union {Current(l)} /\ UNCHANGED faults
       \/ Fault /\ UNCHANGED alerted
    /\ NextRecord(l, inv[l].failed)
    /\ UNCHANGED <<status, dlq, lastRow, deployed, apiVars, event, place, receives, unlisted>>

\* Mutant: the dead letter is written whatever the status, as the Redis worker does.
ListWhatever(l) ==
    /\ inv[l].pc = "error"
    /\ IF receives[inv[l].msg] >= MaxReceives THEN Goto(l, "list")
                                              ELSE NextRecord(l, inv[l].failed \union {inv[l].msg})
    /\ UNCHANGED <<dbVars, apiVars, event, place, receives, unlisted, faults>>

\* Mutant: attempts > 5 instead of attempts >= 5.
ListTooLate(l) ==
    /\ inv[l].pc = "error"
    /\ IF /\ receives[inv[l].msg] > MaxReceives
          /\ Recorded(Current(l)) /\ status[Current(l)] # "processed"
       THEN Goto(l, "list")
       ELSE NextRecord(l, inv[l].failed \union {inv[l].msg})
    /\ UNCHANGED <<dbVars, apiVars, event, place, receives, unlisted, faults>>

\* The record failed: at the last receive its row is looked up, and listed as a
\* dead letter unless it is processed.
HandleError(l) ==
    /\ inv[l].pc = "error"
    /\ IF /\ receives[inv[l].msg] >= MaxReceives
          /\ Recorded(Current(l)) /\ status[Current(l)] # "processed"
       THEN Goto(l, "list")
       ELSE NextRecord(l, inv[l].failed \union {inv[l].msg})
    /\ UNCHANGED <<dbVars, apiVars, event, place, receives, unlisted, faults>>

\* AddDeadLetter, which keeps the id of a row that is there; its error, or that of the
\* lookup, is only logged.
AddDeadLetter(l) ==
    /\ inv[l].pc = "list"
    /\ LET e == Current(l) IN
       \/ /\ Recorded(e)
          /\ status' = [status EXCEPT ![e] = "dead_letter"]
          /\ IF dlq[e] = 0
             THEN dlq' = [dlq EXCEPT ![e] = lastRow + 1] /\ lastRow' = lastRow + 1
             ELSE UNCHANGED <<dlq, lastRow>>
          /\ UNCHANGED <<unlisted, faults>>
       \/ ~Recorded(e) /\ UNCHANGED <<dlq, lastRow, status, unlisted, faults>>
       \/ /\ Fault
          /\ unlisted' = unlisted \union {inv[l].msg}
          /\ UNCHANGED <<dlq, lastRow, status>>
    /\ NextRecord(l, inv[l].failed \union {inv[l].msg})
    /\ UNCHANGED <<deployed, alerted, apiVars, event, place, receives>>

\* Mutant: the whole batch is reported as done.
RespondAllDone(l) ==
    /\ inv[l].pc = "next" /\ inv[l].todo = {}
    /\ Return(l, inv[l].batch)
    /\ UNCHANGED <<dbVars, apiVars, event, receives, unlisted, faults>>

\* The response names the failed records; the others are deleted.
Respond(l) ==
    /\ inv[l].pc = "next" /\ inv[l].todo = {}
    /\ Return(l, inv[l].batch \ inv[l].failed)
    /\ UNCHANGED <<dbVars, apiVars, event, receives, unlisted, faults>>

\* The invocation times out or crashes: nothing is deleted, and no dead letter is
\* written for the records it was not through with.
Timeout(l) ==
    /\ inv[l].pc # "idle"
    /\ Fault
    /\ Return(l, {})
    /\ unlisted' = unlisted \union {m \in Begun(l) : receives[m] = MaxReceives}
    /\ UNCHANGED <<dbVars, apiVars, event, receives>>

\* The daily schedule invokes the function without records.
PruneRetained(l) ==
    /\ inv[l].pc = "idle"
    /\ LET gone == {e \in Old : Recorded(e)} IN
       /\ gone # {}
       /\ status' = [e \in Events |-> IF e \in gone THEN "pruned" ELSE status[e]]
       /\ dlq' = [e \in Events |-> IF e \in gone THEN 0 ELSE dlq[e]]
    /\ UNCHANGED <<lastRow, deployed, alerted, apiVars, event, place, receives, unlisted, inv, faults>>

-----------------------------------------------------------------------------
HandlerStep(h) == (\E e \in Events : RecordWebhook(h, e))
                    \/ LookupDuplicate(h) \/ PublishWebhook(h) \/ FailWebhook(h)
AdminStep(a) == (\E e \in Events : LookupDeadLetter(a, e))
                  \/ RequeueDeadLetter(a) \/ PublishDeadLetter(a)
                  \/ CompleteReprocess(a) \/ FailReprocess(a)
Poll(l) == \E batch \in SUBSET Messages : Receive(l, batch)
Work(l) == \/ Fetch(l) \/ SaveDeployment(l) \/ DeliverNotifications(l)
           \/ HandleError(l) \/ AddDeadLetter(l) \/ Respond(l)
LambdaStep(l) == Poll(l) \/ Work(l) \/ FailSave(l) \/ Timeout(l) \/ PruneRetained(l)

Next == \/ \E h \in Handlers : HandlerStep(h)
        \/ \E a \in Admins : AdminStep(a)
        \/ \E m \in Messages : Redrive(m)
        \/ \E l \in Lambdas : LambdaStep(l)

Spec == Init /\ [][Next]_vars

-----------------------------------------------------------------------------
(* Properties.                                                             *)

Sent(m) == place[m] # "unsent"

\* A processed event turns into a dead letter only in the race of two messages: one at
\* its last receive, whose invocation looked the status up before, and another one that
\* was received too.  An invocation that retries an event whose commit it did not see
\* confirmed does not do that (the status check in ProcessSQSBatch, sqs.go, which is
\* not in one transaction with the write).
DeadOnlyInARace ==
    \A e \in Events : status[e] = "processed" /\ status'[e] = "dead_letter" =>
        \E m, k \in Messages : /\ m # k /\ event[m] = e /\ event[k] = e
                              /\ place[m] = "inflight" /\ receives[m] = MaxReceives
                              /\ receives[k] > 0
ProcessedIsFinal == [][DeadOnlyInARace]_vars

\* Of the invocations that hold messages of one event at most one delivers its
\* notifications, after the commit and only once: the created flag of
\* SaveProcessedDeployment decides it, and an invocation whose commit was not
\* confirmed retries without it (Process in service.go).
OneAlertPerDeployment ==
    \A l \in Lambdas : inv[l].pc = "notify" =>
        /\ Current(l) \in deployed \ alerted
        /\ \A k \in Lambdas \ {l} : inv[k].pc = "notify" => Current(k) # Current(l)

\* A message that SQS moved to its dead letters leaves a trace an operator of the
\* program can see: its event is deployed after all, or has a dead-letter row, or was
\* pruned, or an administrator had it sent again (reprocessDeadLetter deletes the row and
\* leaves the message where it is).  Failed saves and retries do not prevent it; a failed
\* write of the row, or the end of the invocation before it, does (ProcessSQSBatch only
\* logs the error).
Traced(e) == e \in deployed \union resent \/ dlq[e] # 0 \/ status[e] = "pruned"
GivenUpIsListed == \A m \in Messages \ unlisted : place[m] = "dlq" => Traced(event[m])

\* An event that is shown as queued is on its way: a message of it waits or is in work,
\* or a request is about to send one, however requests, retries and the worker
\* interleave.  An administrator's request that sets an event back to queued after it
\* was processed (PrepareReprocess does not look at the status) sends it again, and
\* only a failed request, or a message that could not be listed, leaves it stuck.
Publishing(e) == \/ \E h \in Handlers : req[h].pc = "publish" /\ req[h].event = e
                 \/ \E a \in Admins : job[a].pc = "publish" /\ job[a].event = e
QueuedIsUnderWay ==
    \A e \in Events : status[e] = "queued" =>
        \/ \E m \in Messages : /\ event[m] = e
                              /\ (place[m] \in {"visible", "inflight"} \/ m \in unlisted)
        \/ Publishing(e)
        \/ e \in refused

\* The AWS deployment keeps the promise of EventLedger: a message is deleted only
\* when its event is deployed.
Open == {event[m] : m \in {k \in Messages : place[k] \in {"visible", "inflight"}}}
Parked == {event[m] : m \in {k \in Messages : place[k] = "dlq"}}
Ledger == INSTANCE EventLedger WITH open <- Open, parked <- Parked
LedgerSpec == Ledger!Spec

\* An event whose provider was told 202 is deployed, or in the queue or its dead
\* letters: neither a failed SendMessage nor a duplicate that is answered without one
\* loses it (handleWebhook in http.go).
AcceptedIsKept == \A e \in accepted : Ledger!Known(e)
=============================================================================
