----------------------------- MODULE MCDemoSite -----------------------------
(***************************************************************************)
(* An instance of DemoSite for TLC.  Days have ten seconds, today is day   *)
(* four, and analytics reach back two days at most.                        *)
(***************************************************************************)
EXTENDS DemoSite, TLC

T(sec, frac) == [sec |-> sec, frac |-> frac]
MCInstants == "s30.5" :> T(30, <<5>>) @@ "s41" :> T(41, <<>>) @@ "s41.5" :> T(41, <<5>>)
              @@ "s50.5" :> T(50, <<5>>)

Sample(provider, delivery, payload, received, lines, outcome) ==
    [provider |-> provider, delivery |-> delivery, payload |-> payload,
     received |-> received, lines |-> lines, outcome |-> outcome]

\* Of the last two lines of the second, the later one sorts first as text.
MCLines == <<T(42, <<>>), T(42, <<1, 2, 3, 4>>), T(42, <<1, 2, 3, 4, 0, 1>>), T(43, <<>>)>>
MCCutOffs == {T(42, <<1, 2, 3, 4, 5>>), T(43, <<>>)}

\* 1 is the demo deployment.  2 started in the first second of yesterday's day, 4 in
\* the first second of tomorrow; 1 and 3 in one second.  4 and 5 are the states of one
\* pipeline, and 6 carries its state beside a deployment object without one, where
\* parse does not look.
MCFeed == <<
    Sample("vercel", "", <<"status">> :> "failed" @@ <<"started_at">> :> "s41"
                         @@ <<"id">> :> "demo", T(42, <<>>), MCLines, "failed"),
    Sample("github", "d1", <<"workflow_run", "conclusion">> :> "failure"
                           @@ <<"workflow_run", "status">> :> "completed"
                           @@ <<"workflow_run", "created_at">> :> "s30.5",
           T(42, <<>>), <<>>, "failed"),
    Sample("vercel", "", <<"deployment", "id">> :> "v1" @@ <<"deployment", "readyState">> :> "ready"
                         @@ <<"deployment", "createdAt">> :> "s41.5"
                         @@ <<"state">> :> "error", T(43, <<>>), <<>>, "success"),
    Sample("gitlab", "", <<"object_attributes", "id">> :> "g1"
                         @@ <<"object_attributes", "status">> :> "success"
                         @@ <<"object_attributes", "created_at">> :> "s50.5",
           T(44, <<>>), <<>>, "success"),
    Sample("gitlab", "", <<"object_attributes", "id">> :> "g1"
                         @@ <<"object_attributes", "status">> :> "pending",
           T(42, <<3>>), <<>>, "queued"),
    Sample("vercel", "", <<"deployment", "meta">> :> Empty @@ <<"readyState">> :> "ready",
           T(42, <<>>), <<>>, "none")>>

MCFilters == {[start |-> T(30, <<>>)]}
MCDemoEvent == <<1>>
=============================================================================
