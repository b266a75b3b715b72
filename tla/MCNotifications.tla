--------------------------- MODULE MCNotifications ---------------------------
(***************************************************************************)
(* Instances of Notifications for TLC: one failure and what comes around   *)
(* it in its own workspace, in another environment and another workspace.  *)
(***************************************************************************)
EXTENDS Notifications

Event(k, w, env, s, t) ==
    [key |-> k, workspace |-> w, repository |-> "api", environment |-> env, status |-> s,
     started |-> t]

Failure == Event("a", "own", "production", "failed", 2)
Later   == Event("c", "own", "production", "success", 3)
Again   == Event("d", "own", "production", "success", 4)
Staged  == Event("e", "own", "staging", "success", 3)
Foreign == Event("f", "other", "production", "failed", 1)
Running == Event("a", "own", "production", "running", 2)

MCFeed == {Failure, Later, Staged, Foreign}
ReusedIds == {Running, Failure}
Recoveries == {Failure, Later, Again}

Rule(w, r, env) == [workspace |-> w, repository |-> r, environment |-> env]
MCOffered == {Rule("own", "*", "*"), Rule("own", "api", "production")}
OneRule == {Rule("own", "*", "*")}

=============================================================================
