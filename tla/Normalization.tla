--------------------------- MODULE Normalization ---------------------------
(***************************************************************************)
(* From a provider's payload to a deployment: parse and what it calls, as  *)
(* operators.  A payload is the function from the paths of its JSON object *)
(* that hold a value to what stringAt reads there, which is Empty unless   *)
(* the value is a string or a number; a state is one of the words the      *)
(* providers use, in lower case and trimmed as NormalizeState leaves it,   *)
(* and instants are the times that the texts parseTime understands denote. *)
(***************************************************************************)
EXTENDS Naturals, Sequences

Statuses == {"queued", "running", "success", "failed", "cancelled", "unknown"}

NormalizeState(word) ==
    CASE word \in {"queued", "pending", "waiting", "created", "not_started", "requested"} -> "queued"
      [] word \in {"running", "in_progress", "in progress", "building", "active"} -> "running"
      [] word \in {"success", "succeeded", "completed", "ready", "passed", "pass"} -> "success"
      [] word \in {"failed", "failure", "error", "errored", "timed_out", "timed out"} -> "failed"
      [] word \in {"cancelled", "canceled", "skipped", "aborted"} -> "cancelled"
      [] OTHER -> "unknown"

Empty == ""
StringAt(payload, path) == IF path \in DOMAIN payload THEN payload[path] ELSE Empty

\* The first of the paths that holds anything.
First(payload, paths) ==
    LET found == {i \in DOMAIN paths : StringAt(payload, paths[i]) # Empty} IN
    IF found = {} THEN Empty
    ELSE payload[paths[CHOOSE i \in found : \A j \in found : i <= j]]

\* The object the generic fields are taken from: the deployment, if it has any member.
Base(payload) == IF \E p \in DOMAIN payload : p[1] = "deployment" /\ Len(p) > 1
                 THEN <<"deployment">> ELSE <<>>

EventIdPaths(provider) ==
    (CASE provider = "github" -> <<<<"workflow_run", "id">>>>
       [] provider = "gitlab" -> <<<<"object_attributes", "id">>>>
       [] provider = "circleci" -> <<<<"pipeline", "id">>, <<"id">>>>
       [] provider \in {"vercel", "netlify"} -> <<<<"deployment", "id">>, <<"id">>>>
       [] provider = "aws-codepipeline" -> <<<<"detail", "execution-id">>>>)
    \o <<<<"provider_event_id">>, <<"id">>>>

ProviderEventID(provider, payload) == First(payload, EventIdPaths(provider))

\* Mutant: GitHub's status comes before its conclusion.
StatusBeforeConclusion(provider, base) ==
    CASE provider = "github" -> <<<<"workflow_run", "status">>, <<"workflow_run", "conclusion">>>>
      [] provider = "gitlab" -> <<<<"object_attributes", "status">>>>
      [] provider = "circleci" -> <<<<"pipeline", "status">>, <<"status">>>>
      [] provider = "vercel" -> <<base \o <<"state">>, base \o <<"readyState">>>>
      [] provider = "netlify" -> <<base \o <<"state">>, base \o <<"status">>>>
      [] provider = "aws-codepipeline" -> <<<<"detail", "state">>>>

\* providerFields: where a provider keeps the state and the times.
StatusPaths(provider, base) ==
    CASE provider = "github" -> <<<<"workflow_run", "conclusion">>, <<"workflow_run", "status">>>>
      [] provider = "gitlab" -> <<<<"object_attributes", "status">>>>
      [] provider = "circleci" -> <<<<"pipeline", "status">>, <<"status">>>>
      [] provider = "vercel" -> <<base \o <<"state">>, base \o <<"readyState">>>>
      [] provider = "netlify" -> <<base \o <<"state">>, base \o <<"status">>>>
      [] provider = "aws-codepipeline" -> <<<<"detail", "state">>>>

StartPaths(provider, base) ==
    CASE provider = "github" -> <<<<"workflow_run", "created_at">>>>
      [] provider = "gitlab" -> <<<<"object_attributes", "created_at">>>>
      [] provider = "circleci" -> <<<<"pipeline", "created_at">>, <<"created_at">>>>
      [] provider = "vercel" -> <<base \o <<"createdAt">>, base \o <<"created_at">>>>
      [] provider = "netlify" -> <<base \o <<"created_at">>, base \o <<"createdAt">>>>
      [] provider = "aws-codepipeline" -> <<<<"detail", "start-time">>, <<"detail", "startTime">>>>

Generic(base) == [status |-> <<base \o <<"status">>, base \o <<"state">>, <<"status">>, <<"state">>>>,
                  start |-> <<base \o <<"started_at">>, base \o <<"created_at">>, <<"created_at">>>>]

OriginalStatus(provider, payload) ==
    LET base == Base(payload) IN First(payload, StatusPaths(provider, base) \o Generic(base).status)

\* An event without a state is not a deployment.
Parses(provider, payload) == OriginalStatus(provider, payload) # Empty

Providers == {"github", "gitlab", "circleci", "vercel", "netlify", "aws-codepipeline"}

\* The fields of a provider's own events that hold a state, and those of generic ones.
OwnFields(provider, base) ==
    CASE provider = "github" -> {<<"workflow_run", "status">>, <<"workflow_run", "conclusion">>}
      [] provider = "gitlab" -> {<<"object_attributes", "status">>}
      [] provider = "circleci" -> {<<"status">>, <<"pipeline", "status">>}
      [] provider = "vercel" -> {base \o <<"readyState">>, base \o <<"state">>}
      [] provider = "netlify" -> {base \o <<"status">>, base \o <<"state">>}
      [] provider = "aws-codepipeline" -> {<<"detail", "state">>}
GenericFields(base) == {<<"status">>, <<"state">>, base \o <<"status">>, base \o <<"state">>}

\* What a payload reports: the conclusion of a run that has one is its outcome, and
\* other fields of one kind agree; generic copies mean nothing beside own fields.
Reports(provider, payload, outcome) ==
    LET base == Base(payload)
        held(fields) == {f \in fields : StringAt(payload, f) # Empty}
        own == held(OwnFields(provider, base))
        conclusion == <<"workflow_run", "conclusion">>
        deciding == IF provider = "github" /\ conclusion \in own THEN {conclusion}
                    ELSE IF own # {} THEN own ELSE held(GenericFields(base))
    IN  \A f \in deciding : NormalizeState(StringAt(payload, f)) = outcome

\* A start that is missing or in no layout of parseTime is the time of receipt.
StartedAt(provider, payload, received, instants) ==
    LET base == Base(payload)
        text == First(payload, StartPaths(provider, base) \o Generic(base).start)
    IN  IF text \in DOMAIN instants THEN instants[text] ELSE received

\* Mutant: the first lines are kept.
FirstLines(n, most) == {i \in 1..n : i <= most}

\* redactLines keeps the last of the log lines 1..n.
KeptLines(n, most) == {i \in 1..n : i + most > n}
=============================================================================
