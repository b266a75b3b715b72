---------------------------- MODULE Notifications ----------------------------
(***************************************************************************)
(* Alerts and recoveries.  A worker that creates a deployment then reads   *)
(* the notification rules, counts earlier failures when the deployment     *)
(* succeeded, and inserts one delivery per matching rule.  These are       *)
(* separate statements outside the transaction that created the            *)
(* deployment, while administrators add rules, other workers create        *)
(* deployments and any statement may fail.                                 *)
(*                                                                         *)
(* How events reach the workers is the business of EventPipeline; here an  *)
(* event carries what the notifications depend on.                         *)
(***************************************************************************)
EXTENDS Naturals

CONSTANTS
    Feed,       \* the events the providers send
    Offered,    \* the rules administrators may create
    Wildcard,   \* the "*" of a rule
    Workers,    \* workers processing events
    MaxFaults   \* bound of the model: failed statements and crashes

\* A key stands for provider and provider_event_id, and started for the rank of
\* the text in deployments.started_at.
ASSUME FeedAssumption ==
    /\ \A e \in Feed : /\ DOMAIN e = {"key", "workspace", "repository", "environment",
                                      "status", "started"}
                       /\ e.started \in Nat
    /\ \A r \in Offered : DOMAIN r = {"workspace", "repository", "environment"}
    /\ MaxFaults \in Nat

VARIABLES
    recorded,     \* events with a webhook_events row
    accepted,     \* events whose provider was told 202
    deployments,  \* events with a deployments row
    rules,        \* notification_rules
    deliveries,   \* notification_deliveries
    wrk,          \* worker -> where it stands
    cut,          \* deployments whose notification failed half-way
    faults        \* faults so far

vars == <<recorded, accepted, deployments, rules, deliveries, wrk, cut, faults>>

Kinds == {"failure", "recovery"}
Deliveries == [deployment : Feed, rule : Offered, kind : Kinds]
Notifiers == [pc : {"idle"}]
               \union [pc : {"list"}, event : Feed]
               \union [pc : {"count"}, event : Feed, rules : SUBSET Offered]
               \union [pc : {"send"}, event : Feed, rules : SUBSET Offered, kind : Kinds]

TypeOK ==
    /\ recorded \subseteq Feed
    /\ accepted \subseteq Feed
    /\ deployments \subseteq Feed
    /\ rules \subseteq Offered
    /\ deliveries \subseteq Deliveries
    /\ wrk \in [Workers -> Notifiers]
    /\ cut \subseteq Feed
    /\ faults \in 0..MaxFaults

Init ==
    /\ recorded = {}
    /\ accepted = {}
    /\ deployments = {}
    /\ rules = {}
    /\ deliveries = {}
    /\ wrk = [w \in Workers |-> [pc |-> "idle"]]
    /\ cut = {}
    /\ faults = 0

\* The unique key of webhook_events and of deployments
SameKey(d, e) == d.workspace = e.workspace /\ d.key = e.key
SameSite(d, e) == /\ d.workspace = e.workspace
                  /\ d.repository = e.repository
                  /\ d.environment = e.environment
FailedBefore(f, e) == f.status = "failed" /\ SameSite(f, e) /\ f.started < e.started
Covers(r, e) == /\ r.workspace = e.workspace
                /\ r.repository \in {Wildcard, e.repository}
                /\ r.environment \in {Wildcard, e.environment}

-----------------------------------------------------------------------------
\* The event of a webhook is recorded unless its key is: then it is a duplicate,
\* whatever it says, and is accepted without a trace.
RecordWebhook(e) ==
    /\ e \notin accepted
    /\ recorded' = IF \E d \in recorded : SameKey(d, e) THEN recorded ELSE recorded \union {e}
    /\ accepted' = accepted \union {e}
    /\ UNCHANGED <<deployments, rules, deliveries, wrk, cut, faults>>

CreateRule(r) ==
    /\ r \notin rules
    /\ rules' = rules \union {r}
    /\ UNCHANGED <<recorded, accepted, deployments, deliveries, wrk, cut, faults>>

\* The worker whose transaction created the deployment goes on to notify.
SaveDeployment(w, e) ==
    /\ wrk[w].pc = "idle"
    /\ e \in recorded
    /\ \A d \in deployments : ~SameKey(d, e)
    /\ deployments' = deployments \union {e}
    /\ wrk' = [wrk EXCEPT ![w] = [pc |-> "list", event |-> e]]
    /\ UNCHANGED <<recorded, accepted, rules, deliveries, cut, faults>>

Done(w) == wrk' = [wrk EXCEPT ![w] = [pc |-> "idle"]]
Send(w, known, kind) ==
    LET e == wrk[w].event IN
    wrk' = [wrk EXCEPT ![w] = [pc |-> "send", event |-> e, kind |-> kind,
                               rules |-> {r \in known : Covers(r, e)}]]

\* Mutant: every deployment that ended is a failure.
ListForEnded(w) ==
    /\ wrk[w].pc = "list"
    /\ IF wrk[w].event.status \in {"failed", "success"} THEN Send(w, rules, "failure") ELSE Done(w)
    /\ UNCHANGED <<recorded, accepted, deployments, rules, deliveries, cut, faults>>

\* ListRules; what comes next depends on the status.
ListRules(w) ==
    /\ wrk[w].pc = "list"
    /\ LET e == wrk[w].event IN
       \/ e.status = "failed" /\ Send(w, rules, "failure")
       \/ /\ e.status = "success"
          /\ wrk' = [wrk EXCEPT ![w] = [pc |-> "count", event |-> e, rules |-> rules]]
       \/ e.status \notin {"failed", "success"} /\ Done(w)
    /\ UNCHANGED <<recorded, accepted, deployments, rules, deliveries, cut, faults>>

\* Mutant: the environment is missing in the WHERE clause.
CountInRepository(w) ==
    /\ wrk[w].pc = "count"
    /\ LET e == wrk[w].event IN
       IF \E f \in deployments : /\ f.status = "failed" /\ f.started < e.started
                                 /\ f.workspace = e.workspace /\ f.repository = e.repository
       THEN Send(w, wrk[w].rules, "recovery") ELSE Done(w)
    /\ UNCHANGED <<recorded, accepted, deployments, rules, deliveries, cut, faults>>

\* Mutant: the kind of a recovery is the deployment's status.
CountForStatus(w) ==
    /\ wrk[w].pc = "count"
    /\ IF \E f \in deployments : FailedBefore(f, wrk[w].event)
       THEN Send(w, wrk[w].rules, wrk[w].event.status) ELSE Done(w)
    /\ UNCHANGED <<recorded, accepted, deployments, rules, deliveries, cut, faults>>

\* A success is a recovery if a failure is stored that started before it.
CountFailures(w) ==
    /\ wrk[w].pc = "count"
    /\ IF \E f \in deployments : FailedBefore(f, wrk[w].event)
       THEN Send(w, wrk[w].rules, "recovery") ELSE Done(w)
    /\ UNCHANGED <<recorded, accepted, deployments, rules, deliveries, cut, faults>>

\* Mutant: the loop ends after the first matching rule.
DeliverFirst(w) ==
    /\ wrk[w].pc = "send"
    /\ \E r \in wrk[w].rules :
         deliveries' = deliveries \union
            {[deployment |-> wrk[w].event, rule |-> r, kind |-> wrk[w].kind]}
    /\ Done(w)
    /\ UNCHANGED <<recorded, accepted, deployments, rules, cut, faults>>

\* One delivery per matching rule, and the end of the loop
Deliver(w) ==
    /\ wrk[w].pc = "send"
    /\ \/ \E r \in wrk[w].rules :
            /\ deliveries' = deliveries \union
                  {[deployment |-> wrk[w].event, rule |-> r, kind |-> wrk[w].kind]}
            /\ wrk' = [wrk EXCEPT ![w].rules = @ \ {r}]
       \/ wrk[w].rules = {} /\ Done(w) /\ UNCHANGED deliveries
    /\ UNCHANGED <<recorded, accepted, deployments, rules, cut, faults>>

\* A statement fails or the worker dies: Process only logs the error, and a
\* second attempt does not notify because it creates no deployment.
FailDelivery(w) ==
    /\ wrk[w].pc # "idle"
    /\ faults < MaxFaults
    /\ faults' = faults + 1
    /\ cut' = cut \union {wrk[w].event}
    /\ Done(w)
    /\ UNCHANGED <<recorded, accepted, deployments, rules, deliveries>>

-----------------------------------------------------------------------------
Notify(w) == ListRules(w) \/ CountFailures(w) \/ Deliver(w)
Next == \/ \E e \in Feed : RecordWebhook(e)
        \/ \E r \in Offered : CreateRule(r)
        \/ \E w \in Workers : (\E e \in Feed : SaveDeployment(w, e)) \/ Notify(w) \/ FailDelivery(w)

Spec == Init /\ [][Next]_vars

\* Workers run, and the queue brings every recorded event to one of them.  The code does not
\* promise that much (events are dead lettered and pruned); what fails even so fails.
Fairness ==
    /\ \A w \in Workers : WF_vars(Notify(w))
    /\ \A e \in Feed : WF_vars(\E w \in Workers : SaveDeployment(w, e))
FairSpec == Spec /\ Fairness

-----------------------------------------------------------------------------
(* Properties.                                                             *)

Justified(e, r, kind) ==
    /\ e \in deployments /\ r \in rules /\ Covers(r, e)
    /\ \/ kind = "failure" /\ e.status = "failed"
       \/ kind = "recovery" /\ e.status = "success" /\ \E f \in deployments : FailedBefore(f, e)

\* An alert goes out only for a failed deployment and a recovery only for a
\* success after a stored failure of the same workspace, repository and
\* environment, and both only along a rule that covers it (DeliverNotifications
\* in store.go).
DeliveryIsJustified ==
    \A x \in deliveries : Justified(x.deployment, x.rule, x.kind)

Delivered(e, r) == \E kind \in Kinds : [deployment |-> e, rule |-> r, kind |-> kind] \in deliveries
Due(e) == \/ e.status = "failed"
          \/ e.status = "success" /\ \E f \in deployments : FailedBefore(f, e)

\* No worker is through with a deployment too early.  A rule that was there before a failed
\* deployment, or a success after a stored failure, was created has its delivery by the
\* time the worker that created it lets go of it, whatever others store and whichever rules
\* are added meanwhile (the loop over the rules in DeliverNotifications), unless an error
\* or a crash cut it short (Process in service.go does not try again).
Held(e) == \E w \in Workers : wrk[w].pc # "idle" /\ wrk[w].event = e
NoneForgotten ==
    \A e \in Feed, r \in Offered :
        [](e \notin deployments /\ r \in rules /\ Covers(r, e) /\ Due(e)
           => [](e \in deployments /\ ~Held(e) => Delivered(e, r) \/ e \in cut))

\* What deploy-pulse.md:25 says of failed events.  It does not hold: a provider
\* that reuses the id of a running pipeline for its failure is answered 202, and
\* the failure is dropped as a duplicate.
FailedEventIsAlerted ==
    \A e \in Feed, r \in Offered :
        e \in accepted \ deployments /\ r \in rules /\ Covers(r, e) /\ e.status = "failed"
            ~> Delivered(e, r) \/ e \in cut

\* What deploy-pulse.md:34 says of recoveries: one per failure.  It does not
\* hold: every later success counts the same failure again.
RecoveryIsSentOnce ==
    \A x, y \in deliveries :
        /\ x.kind = "recovery" /\ y.kind = "recovery" /\ x.rule = y.rule
        /\ SameSite(x.deployment, y.deployment)
        /\ x.deployment.started < y.deployment.started
        => \E f \in deployments : /\ FailedBefore(f, y.deployment)
                                  /\ x.deployment.started < f.started
=============================================================================
