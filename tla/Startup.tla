------------------------------ MODULE Startup ------------------------------
(***************************************************************************)
(* Processes of Deploy Pulse that start on one database: OpenStore applies *)
(* the missing migrations, an API process with DEMO_DATA adds the demo     *)
(* rule and deployments, and then the process serves.  A process that      *)
(* fails ends and is started again.  Each statement or transaction is an   *)
(* action.                                                                 *)
(***************************************************************************)
EXTENDS Naturals

CONSTANTS
    Procs,        \* processes
    Seeders,      \* API processes with DEMO_DATA
    Versions,     \* number of migrations
    Items,        \* number of demo deployments
    Alerting,     \* demo deployments that are failures
    MaxCrashes    \* bound of the model: failed statements and crashes

ASSUME StartupAssumption ==
    /\ Seeders \subseteq Procs
    /\ Versions \in Nat \ {0}
    /\ Items \in Nat \ {0}
    /\ Alerting \subseteq 1..Items
    /\ MaxCrashes \in Nat

VARIABLES
    proc,         \* process -> where it stands, and at which migration or item
    applied,      \* rows of schema_migrations, with their tables
    demoRules,    \* demo rules, named by the process that created them
    deployed,     \* rows of the demo deployments
    alerts,       \* notification_deliveries: item, rule and the process that sent it
    crashes       \* crashes so far

startupVars == <<proc, applied, demoRules, deployed, alerts, crashes>>

StartupTypeOK ==
    /\ proc \in [Procs -> [pc : {"down", "check", "apply", "count", "insert", "seed", "notify", "up"},
                           at : 1..(IF Versions > Items THEN Versions ELSE Items) + 1]]
    /\ applied \subseteq 1..Versions
    /\ demoRules \subseteq Procs
    /\ deployed \subseteq 1..Items
    /\ alerts \subseteq [item : 1..Items, rule : Procs, by : Procs]
    /\ crashes \in 0..MaxCrashes

StartupInit ==
    /\ proc = [p \in Procs |-> [pc |-> "down", at |-> 1]]
    /\ applied = {} /\ demoRules = {} /\ deployed = {} /\ alerts = {}
    /\ crashes = 0

Move(p, pc, at) == proc' = [proc EXCEPT ![p] = [pc |-> pc, at |-> at]]
At(p) == proc[p].at

Start(p) ==
    /\ proc[p].pc = "down"
    /\ Move(p, "check", 1)
    /\ UNCHANGED <<applied, demoRules, deployed, alerts, crashes>>

\* The process ends: a statement fails, or it is killed.
Crash(p) ==
    /\ proc[p].pc # "down"
    /\ crashes < MaxCrashes
    /\ crashes' = crashes + 1
    /\ Move(p, "down", 1)
    /\ UNCHANGED <<applied, demoRules, deployed, alerts>>

-----------------------------------------------------------------------------
(* Migrate.                                                                *)

\* Mutant: the first migration that is there ends the loop.
CheckFirst(p) ==
    /\ proc[p].pc = "check"
    /\ IF At(p) \in applied \/ At(p) > Versions
       THEN Move(p, IF p \in Seeders THEN "count" ELSE "up", 1)
       ELSE Move(p, "apply", At(p))
    /\ UNCHANGED <<applied, demoRules, deployed, alerts, crashes>>

\* Mutant: the loop runs once too often.
CheckPastEnd(p) ==
    /\ proc[p].pc = "check"
    /\ IF At(p) > Versions + 1 THEN Move(p, IF p \in Seeders THEN "count" ELSE "up", 1)
       ELSE IF At(p) \in applied THEN Move(p, "check", At(p) + 1)
       ELSE Move(p, "apply", At(p))
    /\ UNCHANGED <<applied, demoRules, deployed, alerts, crashes>>

\* The next migration is looked up; after the last one main goes on.
CheckMigration(p) ==
    /\ proc[p].pc = "check"
    /\ IF At(p) > Versions THEN Move(p, IF p \in Seeders THEN "count" ELSE "up", 1)
       ELSE IF At(p) \in applied THEN Move(p, "check", At(p) + 1)
       ELSE Move(p, "apply", At(p))
    /\ UNCHANGED <<applied, demoRules, deployed, alerts, crashes>>

\* Mutant: a process that lost the race tries the same migration again.
ApplyAgain(p) ==
    /\ proc[p].pc = "apply"
    /\ applied' = applied \union {At(p)}
    /\ IF At(p) \in applied THEN UNCHANGED proc ELSE Move(p, "check", At(p) + 1)
    /\ UNCHANGED <<demoRules, deployed, alerts, crashes>>

\* The transaction that creates the tables and the version's row.  When another
\* process has committed it since, the row's key is taken: Migrate returns the
\* error and the process ends.
ApplyMigration(p) ==
    /\ proc[p].pc = "apply"
    /\ applied' = applied \union {At(p)}
    /\ IF At(p) \in applied THEN Move(p, "down", 1) ELSE Move(p, "check", At(p) + 1)
    /\ UNCHANGED <<demoRules, deployed, alerts, crashes>>

-----------------------------------------------------------------------------
(* SeedDemo.                                                               *)

\* Mutant: the rule is added whatever is there.
CountNothing(p) ==
    /\ proc[p].pc = "count"
    /\ Move(p, "insert", 1)
    /\ UNCHANGED <<applied, demoRules, deployed, alerts, crashes>>

CountRules(p) ==
    /\ proc[p].pc = "count"
    /\ Move(p, IF demoRules = {} THEN "insert" ELSE "seed", 1)
    /\ UNCHANGED <<applied, demoRules, deployed, alerts, crashes>>

InsertRule(p) ==
    /\ proc[p].pc = "insert"
    /\ demoRules' = demoRules \union {p}
    /\ Move(p, "seed", 1)
    /\ UNCHANGED <<applied, deployed, alerts, crashes>>

\* Mutant: every process notifies about the item.
SeedAndNotify(p) ==
    /\ proc[p].pc = "seed"
    /\ IF At(p) > Items THEN Move(p, "up", 1) ELSE Move(p, "notify", At(p))
    /\ deployed' = IF At(p) > Items THEN deployed ELSE deployed \union {At(p)}
    /\ UNCHANGED <<applied, demoRules, alerts, crashes>>

\* The next demo deployment is saved; only its creator goes on to notify.
SeedItem(p) ==
    /\ proc[p].pc = "seed"
    /\ IF At(p) > Items THEN Move(p, "up", 1) /\ UNCHANGED deployed
       ELSE /\ deployed' = deployed \union {At(p)}
            /\ IF At(p) \in deployed THEN Move(p, "seed", At(p) + 1) ELSE Move(p, "notify", At(p))
    /\ UNCHANGED <<applied, demoRules, alerts, crashes>>

\* DeliverNotifications to the rules there are; its error, which may come after some of
\* them, is ignored.
NotifyItem(p) ==
    /\ proc[p].pc = "notify"
    /\ \E told \in SUBSET demoRules :
         /\ alerts' = IF At(p) \in Alerting
                      THEN alerts \union [item : {At(p)}, rule : told, by : {p}] ELSE alerts
         /\ \/ told = demoRules /\ UNCHANGED crashes
            \/ crashes < MaxCrashes /\ crashes' = crashes + 1
    /\ Move(p, "seed", At(p) + 1)
    /\ UNCHANGED <<applied, demoRules, deployed>>

-----------------------------------------------------------------------------
Progress(p) == \/ Start(p) \/ CheckMigration(p) \/ ApplyMigration(p)
               \/ CountRules(p) \/ InsertRule(p) \/ SeedItem(p) \/ NotifyItem(p)
StartupNext == \E p \in Procs : Progress(p) \/ Crash(p)

StartupSpec == StartupInit /\ [][StartupNext]_startupVars

\* A process that ended is started again, and a started one goes on.
StartupFairSpec == StartupSpec /\ \A p \in Procs : WF_startupVars(Progress(p))

-----------------------------------------------------------------------------
(* Properties.                                                             *)

\* A process that serves or seeds finds every migration applied, whoever applied
\* it and whoever died on the way (Migrate, "safe to run repeatedly").
ServesMigrated ==
    \A p \in Procs : proc[p].pc \in {"count", "insert", "seed", "notify", "up"}
                       => applied = 1..Versions

\* A demo failure is alerted by one process, however many processes seed and
\* restart (the created flag in SeedDemo).
AlertedByOne == \A a, b \in alerts : a.item = b.item => a.by = b.by

\* Processes that start together may each add the demo rule; one that starts
\* when there is a rule does not (EnsureDemoRule).
LateStarterAddsNoRule ==
    \A p \in Procs :
      [](demoRules # {} /\ p \notin demoRules /\ proc[p].pc \in {"down", "check", "apply", "count"}
         => [](p \notin demoRules))

\* Losing the race for a migration ends a process, but every process serves in
\* the end (Migrate finds the migration applied at the next start).
EveryProcessServes == \A p \in Procs : <>[](proc[p].pc = "up")
=============================================================================
