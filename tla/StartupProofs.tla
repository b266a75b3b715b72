---------------------------- MODULE StartupProofs ----------------------------
(***************************************************************************)
(* Proofs about Startup, for any number of processes, migrations, demo     *)
(* deployments and crashes.  Migrations and demo rows are never taken back,*)
(* so a process may rely on what it has seen while others come and go.     *)
(***************************************************************************)
EXTENDS Startup, TLAPS

Seeding == {"count", "insert", "seed", "notify"}
Pcs == {"down", "check", "apply", "up"} \union Seeding
Alerts == [item : 1..Items, rule : Procs, by : Procs]
Ats == 1..(IF Versions > Items THEN Versions ELSE Items) + 1

\* A process has seen to all migrations before the one it is at.
MigrationInv ==
    \A p \in Procs :
        /\ proc[p].pc \in {"check", "apply"} => 1..(At(p) - 1) \subseteq applied
        /\ proc[p].pc = "check" => At(p) <= Versions + 1
        /\ proc[p].pc = "apply" => At(p) <= Versions
        /\ proc[p].pc \in Seeding \union {"up"} => applied = 1..Versions

\* One process at most notifies about a demo deployment, and nobody did so before.
NotifyInv ==
    /\ \A p \in Procs : proc[p].pc = "seed" => At(p) <= Items + 1
    /\ \A p \in Procs : proc[p].pc = "notify" =>
         /\ At(p) \in deployed
         /\ \A a \in alerts : a.item # At(p)
         /\ \A q \in Procs : proc[q].pc = "notify" /\ At(q) = At(p) => q = p
    /\ \A a \in alerts : a.item \in deployed

IInv == StartupTypeOK /\ MigrationInv /\ NotifyInv /\ AlertedByOne

\* A process moves alone.
LEMMA MoveType ==
    ASSUME StartupTypeOK, NEW p \in Procs, NEW pc \in Pcs, NEW at \in Ats, Move(p, pc, at)
    PROVE  /\ proc' \in [Procs -> [pc : Pcs, at : Ats]]
           /\ proc'[p].pc = pc /\ proc'[p].at = at
           /\ \A q \in Procs \ {p} : proc'[q] = proc[q]
<1> DEFINE x == [pc |-> pc, at |-> at]
<1>1. x \in [pc : Pcs, at : Ats] /\ x.pc = pc /\ x.at = at
  OBVIOUS
<1>2. proc' = [proc EXCEPT ![p] = x] /\ proc \in [Procs -> [pc : Pcs, at : Ats]]
  BY DEF Move, StartupTypeOK, Pcs, Seeding, Ats
<1> HIDE DEF x
<1> QED BY <1>1, <1>2

\* Initially everything is down and empty.
LEMMA InitInv == ASSUME StartupInit PROVE IInv
<1> DEFINE x == [pc |-> "down", at |-> 1]
<1>1. x \in [pc : Pcs, at : Ats] /\ x.pc = "down"
  BY StartupAssumption DEF Pcs, Seeding, Ats
<1>2. proc = [p \in Procs |-> x]
  BY DEF StartupInit
<1> HIDE DEF x
<1>3. StartupTypeOK
  BY <1>1, <1>2, StartupAssumption DEF StartupInit, StartupTypeOK, Pcs, Seeding, Ats
<1>4. MigrationInv
  BY <1>1, <1>2 DEF MigrationInv, Seeding
<1>5. NotifyInv /\ AlertedByOne
  BY <1>1, <1>2 DEF StartupInit, NotifyInv, AlertedByOne
<1> QED BY <1>3, <1>4, <1>5 DEF IInv

\* The migrations: what others apply only helps.
LEMMA MigrateStep ==
    ASSUME IInv, NEW p \in Procs,
           Start(p) \/ Crash(p) \/ CheckMigration(p) \/ ApplyMigration(p)
    PROVE  IInv'
<1> USE StartupAssumption
<1>1. /\ UNCHANGED <<demoRules, deployed, alerts>>
      /\ At(p) \in Ats /\ At(p) \in Nat /\ proc[p].pc \in Pcs
      /\ applied \subseteq 1..Versions
  BY DEF Start, Crash, CheckMigration, ApplyMigration, IInv, StartupTypeOK, At, Ats, Pcs, Seeding
<1>2. PICK pc \in Pcs, at \in Ats :
        /\ Move(p, pc, at)
        /\ pc \in {"check", "apply"} => 1..(at - 1) \subseteq applied'
        /\ pc = "check" => at <= Versions + 1
        /\ pc = "apply" => at <= Versions
        /\ pc \in Seeding \union {"up"} => applied' = 1..Versions
        /\ pc # "notify"
        /\ pc # "seed"
  <2>0. 1 \in Ats
    BY DEF Ats
  <2>1. CASE Start(p) \/ Crash(p)
    BY <2>0, <2>1 DEF Start, Crash, Pcs, Seeding
  <2>2. CASE CheckMigration(p)
    <3>1. 1..(At(p) - 1) \subseteq applied /\ At(p) <= Versions + 1 /\ applied' = applied
      BY <2>2 DEF CheckMigration, IInv, MigrationInv
    <3>2. CASE At(p) > Versions
      <4>1. applied = 1..Versions
        <5>1. At(p) - 1 = Versions
          BY <3>1, <3>2, <1>1
        <5> QED BY <3>1, <5>1, <1>1
      <4> QED BY <2>0, <2>2, <3>1, <3>2, <4>1 DEF CheckMigration, Pcs, Seeding
    <3>3. CASE At(p) <= Versions /\ At(p) \in applied
      <4>1. At(p) + 1 \in Ats
        BY <3>3, <1>1 DEF Ats
      <4>2. 1..(At(p) + 1 - 1) \subseteq applied
        BY <3>1, <3>3, <1>1
      <4> QED BY <2>2, <3>1, <3>3, <1>1, <4>1, <4>2 DEF CheckMigration, Pcs, Seeding
    <3>4. CASE At(p) <= Versions /\ At(p) \notin applied
      BY <2>2, <3>1, <3>4, <1>1 DEF CheckMigration, Pcs, Seeding
    <3> QED BY <3>2, <3>3, <3>4, <1>1
  <2>3. CASE ApplyMigration(p)
    <3>1. 1..(At(p) - 1) \subseteq applied /\ At(p) <= Versions /\ applied' = applied \union {At(p)}
      BY <2>3 DEF ApplyMigration, IInv, MigrationInv
    <3>2. At(p) + 1 \in Ats
      BY <3>1, <1>1 DEF Ats
    <3>3. 1..(At(p) + 1 - 1) \subseteq applied'
      BY <3>1, <1>1
    <3>4. CASE At(p) \in applied
      BY <2>0, <2>3, <3>4 DEF ApplyMigration, Pcs, Seeding
    <3>5. CASE At(p) \notin applied
      BY <2>3, <3>1, <3>2, <3>3, <3>5, <1>1 DEF ApplyMigration, Pcs, Seeding
    <3> QED BY <3>4, <3>5
  <2> QED BY <2>1, <2>2, <2>3
<1>3. /\ proc' \in [Procs -> [pc : Pcs, at : Ats]]
      /\ proc'[p].pc = pc /\ proc'[p].at = at
      /\ \A q \in Procs \ {p} : proc'[q] = proc[q]
  BY <1>2, MoveType DEF IInv
<1>4. applied \subseteq applied' /\ applied' \subseteq 1..Versions
  <2>1. CASE ApplyMigration(p)
    <3>1. At(p) \in 1..Versions
      BY <2>1, <1>1 DEF ApplyMigration, IInv, MigrationInv, Ats
    <3> QED BY <2>1, <3>1, <1>1 DEF ApplyMigration
  <2>2. CASE ~ApplyMigration(p)
    BY <2>2, <1>1 DEF Start, Crash, CheckMigration
  <2> QED BY <2>1, <2>2
<1>5. crashes' \in 0..MaxCrashes
  BY DEF Start, Crash, CheckMigration, ApplyMigration, IInv, StartupTypeOK
<1>6. StartupTypeOK'
  BY <1>1, <1>3, <1>4, <1>5 DEF IInv, StartupTypeOK, Pcs, Seeding, Ats
<1>7. MigrationInv'
  <2> SUFFICES ASSUME NEW q \in Procs
               PROVE  /\ proc'[q].pc \in {"check", "apply"} => 1..(proc'[q].at - 1) \subseteq applied'
                      /\ proc'[q].pc = "check" => proc'[q].at <= Versions + 1
                      /\ proc'[q].pc = "apply" => proc'[q].at <= Versions
                      /\ proc'[q].pc \in Seeding \union {"up"} => applied' = 1..Versions
    BY DEF MigrationInv, At
  <2>1. CASE q = p
    BY <2>1, <1>2, <1>3
  <2>2. CASE q # p
    BY <2>2, <1>3, <1>4 DEF IInv, MigrationInv, At
  <2> QED BY <2>1, <2>2
<1>8. NotifyInv' /\ AlertedByOne'
  BY <1>1, <1>2, <1>3 DEF IInv, NotifyInv, AlertedByOne, At
<1> QED BY <1>6, <1>7, <1>8 DEF IInv

\* The demo seed: who creates a deployment is the one to notify.
LEMMA SeedStep ==
    ASSUME IInv, NEW p \in Procs,
           CountRules(p) \/ InsertRule(p) \/ SeedItem(p) \/ NotifyItem(p)
    PROVE  IInv'
<1> USE StartupAssumption
<1>1. /\ UNCHANGED applied /\ crashes' \in 0..MaxCrashes
      /\ At(p) \in Ats /\ At(p) \in Nat \ {0}
      /\ proc[p].pc \in Seeding /\ applied = 1..Versions
  <2>1. crashes \in 0..MaxCrashes /\ MaxCrashes \in Nat
    BY DEF IInv, StartupTypeOK
  <2>2. UNCHANGED applied /\ crashes' \in 0..MaxCrashes /\ proc[p].pc \in Seeding
    BY <2>1 DEF CountRules, InsertRule, SeedItem, NotifyItem, Seeding
  <2> QED BY <2>2 DEF IInv, StartupTypeOK, At, Ats, MigrationInv
<1>2. PICK pc \in {"insert", "seed", "notify", "up"}, at \in Ats :
        /\ Move(p, pc, at)
        /\ pc = "seed" => at <= Items + 1
        /\ pc = "notify" => /\ proc[p].pc = "seed" /\ at = At(p) /\ at \in 1..Items
                            /\ at \notin deployed
                            /\ deployed' = deployed \union {at}
        /\ pc # "notify" => deployed' = deployed
  <2>0. 1 \in Ats /\ 1 <= Items + 1
    BY DEF Ats
  <2>1. CASE CountRules(p)
    BY <2>0, <2>1 DEF CountRules
  <2>2. CASE InsertRule(p)
    BY <2>0, <2>2 DEF InsertRule
  <2>3. CASE SeedItem(p)
    <3>1. CASE At(p) > Items
      BY <2>0, <2>3, <3>1 DEF SeedItem
    <3>2. CASE At(p) <= Items /\ At(p) \in deployed
      <4>1. At(p) + 1 \in Ats
        BY <3>2, <1>1 DEF Ats
      <4>2. deployed' = deployed
        BY <2>3, <3>2, <1>1 DEF SeedItem
      <4>3. Move(p, "seed", At(p) + 1)
        BY <2>3, <3>2, <1>1 DEF SeedItem
      <4> QED BY <3>2, <1>1, <4>1, <4>2, <4>3
    <3>3. CASE At(p) <= Items /\ At(p) \notin deployed
      BY <2>3, <3>3, <1>1 DEF SeedItem
    <3> QED BY <3>1, <3>2, <3>3, <1>1
  <2>4. CASE NotifyItem(p)
    <3>1. At(p) \in 1..Items
      BY <2>4 DEF NotifyItem, IInv, NotifyInv, StartupTypeOK
    <3>2. At(p) + 1 \in Ats /\ At(p) + 1 <= Items + 1
      BY <3>1 DEF Ats
    <3> QED BY <2>4, <3>2 DEF NotifyItem
  <2> QED BY <2>1, <2>2, <2>3, <2>4
<1>3. /\ proc' \in [Procs -> [pc : Pcs, at : Ats]]
      /\ proc'[p].pc = pc /\ proc'[p].at = at
      /\ \A q \in Procs \ {p} : proc'[q] = proc[q]
  BY <1>2, MoveType DEF IInv, Pcs, Seeding
<1>4. /\ demoRules' \subseteq Procs
      /\ deployed \subseteq deployed' /\ deployed' \subseteq 1..Items
  BY <1>2 DEF CountRules, InsertRule, SeedItem, NotifyItem, IInv, StartupTypeOK
<1>5. /\ alerts' \subseteq Alerts
      /\ \A a \in alerts' : a \in alerts
           \/ /\ a.item = At(p) /\ a.by = p /\ At(p) \in deployed
              /\ proc[p].pc = "notify" /\ pc = "seed"
  <2>1. CASE NotifyItem(p)
    <3>0. PICK told \in SUBSET demoRules :
              alerts' = IF At(p) \in Alerting
                        THEN alerts \union [item : {At(p)}, rule : told, by : {p}] ELSE alerts
      BY <2>1 DEF NotifyItem
    <3> DEFINE New == [item : {At(p)}, rule : told, by : {p}]
    <3>1. /\ At(p) \in deployed /\ At(p) \in 1..Items /\ proc[p].pc = "notify"
          /\ told \subseteq Procs
      BY <2>1 DEF NotifyItem, IInv, NotifyInv, StartupTypeOK
    <3>2. \A a \in New : /\ a \in Alerts
                         /\ a.item = At(p) /\ a.by = p
      BY <3>1 DEF Alerts
    <3>3. \A a \in alerts' : a \in alerts \/ a \in New
      BY <3>0
    <3> HIDE DEF New
    <3>4. pc = "seed"
      <4>1. Move(p, "seed", At(p) + 1)
        BY <2>1 DEF NotifyItem
      <4>2. proc' = [proc EXCEPT ![p] = [pc |-> "seed", at |-> At(p) + 1]]
        BY <4>1 DEF Move
      <4>3. proc'[p] = [pc |-> "seed", at |-> At(p) + 1]
        BY <4>2 DEF IInv, StartupTypeOK
      <4> QED BY <4>3, <1>3
    <3>5. alerts \subseteq Alerts
      BY DEF IInv, StartupTypeOK, Alerts
    <3>6. alerts' \subseteq Alerts
      BY <3>2, <3>3, <3>5
    <3> QED BY <3>1, <3>2, <3>3, <3>4, <3>6
  <2>2. CASE ~NotifyItem(p)
    <3>1. alerts' = alerts
      BY <2>2 DEF CountRules, InsertRule, SeedItem
    <3>2. alerts \subseteq Alerts
      BY DEF IInv, StartupTypeOK, Alerts
    <3> QED BY <3>1, <3>2
  <2> QED BY <2>1, <2>2
<1>6. StartupTypeOK'
  BY <1>1, <1>3, <1>4, <1>5 DEF IInv, StartupTypeOK, Pcs, Seeding, Ats, Alerts
<1>7. MigrationInv'
  BY <1>1, <1>2, <1>3 DEF IInv, MigrationInv, At, Seeding
<1>8. NotifyInv'
  <2>1. \A q \in Procs : proc'[q].pc = "seed" => proc'[q].at <= Items + 1
    BY <1>2, <1>3 DEF IInv, NotifyInv, At
  <2>2. \A a \in alerts' : a.item \in deployed'
    BY <1>4, <1>5 DEF IInv, NotifyInv
  <2>3. ASSUME NEW q \in Procs, proc'[q].pc = "notify"
        PROVE  /\ proc'[q].at \in deployed'
               /\ \A a \in alerts' : a.item # proc'[q].at
               /\ \A o \in Procs : proc'[o].pc = "notify" /\ proc'[o].at = proc'[q].at => o = q
    <3>1. CASE q = p
      <4>1. pc = "notify" /\ at \in deployed' /\ at \notin deployed /\ proc'[q].at = at
        BY <2>3, <3>1, <1>2, <1>3
      <4>2. \A a \in alerts' : a.item # at
        BY <4>1, <1>5 DEF IInv, NotifyInv
      <4>3. \A o \in Procs \ {p} : proc'[o].pc = "notify" => proc'[o].at \in deployed
        BY <1>3 DEF IInv, NotifyInv, At
      <4> QED BY <3>1, <4>1, <4>2, <4>3
    <3>2. CASE q # p
      <4>1. proc'[q] = proc[q] /\ proc[q].at \in deployed
        BY <2>3, <3>2, <1>3 DEF IInv, NotifyInv, At
      <4>2. \A a \in alerts' : a.item # proc[q].at
        BY <2>3, <3>2, <4>1, <1>5 DEF IInv, NotifyInv, At
      <4>3. ASSUME NEW o \in Procs, proc'[o].pc = "notify", proc'[o].at = proc[q].at
            PROVE  o = q
        <5>1. o # p
          BY <4>1, <4>3, <1>2, <1>3
        <5> QED BY <2>3, <4>1, <4>3, <5>1, <1>3 DEF IInv, NotifyInv, At
      <4> QED BY <4>1, <4>2, <4>3, <1>4
    <3> QED BY <3>1, <3>2
  <2> QED BY <2>1, <2>2, <2>3 DEF NotifyInv, At
<1>9. AlertedByOne'
  <2>1. proc[p].pc = "notify" => \A a \in alerts : a.item # At(p)
    BY DEF IInv, NotifyInv
  <2> QED BY <2>1, <1>5 DEF IInv, AlertedByOne
<1> QED BY <1>6, <1>7, <1>8, <1>9 DEF IInv

\* Every step keeps the invariant.
LEMMA StepInv ==
    ASSUME IInv, [StartupNext]_startupVars
    PROVE  IInv'
<1>1. CASE UNCHANGED startupVars
  BY <1>1 DEF startupVars, IInv, StartupTypeOK, MigrationInv, NotifyInv, AlertedByOne, At
<1>2. CASE StartupNext
  BY <1>2, MigrateStep, SeedStep DEF StartupNext, Progress
<1> QED BY <1>1, <1>2

\* The invariant holds in every reachable state.
THEOREM Invariant == StartupSpec => []IInv
<1>1. StartupInit => IInv
  BY InitInv
<1>2. IInv /\ [StartupNext]_startupVars => IInv'
  BY StepInv
<1> QED BY <1>1, <1>2, PTL DEF StartupSpec

\* Every variable of Startup keeps its type.
THEOREM TypeCorrect == StartupSpec => []StartupTypeOK
<1>1. IInv => StartupTypeOK
  BY DEF IInv
<1> QED BY <1>1, Invariant, PTL

\* Every process that seeds or serves finds all migrations applied.
THEOREM MigrationSafety == StartupSpec => []ServesMigrated
<1>1. IInv => ServesMigrated
  BY DEF IInv, MigrationInv, ServesMigrated, Seeding
<1> QED BY <1>1, Invariant, PTL

\* No demo failure is alerted by two processes.
THEOREM AlertSafety == StartupSpec => []AlertedByOne
<1>1. IInv => AlertedByOne
  BY DEF IInv
<1> QED BY <1>1, Invariant, PTL

\* A process that has yet to count the rules when there is one never adds its own.
THEOREM RuleSafety == StartupSpec => LateStarterAddsNoRule
<1> SUFFICES ASSUME NEW p \in Procs
             PROVE  StartupSpec =>
                      [](demoRules # {} /\ p \notin demoRules
                         /\ proc[p].pc \in {"down", "check", "apply", "count"}
                         => [](p \notin demoRules))
  BY DEF LateStarterAddsNoRule
<1> DEFINE Late == /\ demoRules # {} /\ p \notin demoRules
                   /\ proc[p].pc \in {"down", "check", "apply", "count"}
           Past == demoRules # {} /\ p \notin demoRules /\ proc[p].pc # "insert"
<1>1. Late => Past
  OBVIOUS
<1>2. IInv /\ Past /\ [StartupNext]_startupVars => Past'
  <2> SUFFICES ASSUME IInv, Past, [StartupNext]_startupVars PROVE Past'
    OBVIOUS
  <2>1. CASE UNCHANGED startupVars
    BY <2>1 DEF startupVars
  <2>2. ASSUME NEW q \in Procs, Progress(q) \/ Crash(q) PROVE Past'
    <3>1. demoRules' = demoRules \/ (q # p /\ demoRules' = demoRules \union {q})
      BY <2>2 DEF Progress, Crash, Start, CheckMigration, ApplyMigration, CountRules, InsertRule,
                  SeedItem, NotifyItem
    <3>2. q # p => proc'[p] = proc[p]
      BY <2>2 DEF Progress, Crash, Start, CheckMigration, ApplyMigration, CountRules, InsertRule,
                  SeedItem, NotifyItem, Move, IInv, StartupTypeOK
    <3>3. q = p => proc'[p].pc # "insert"
      <4> SUFFICES ASSUME q = p PROVE proc'[p].pc # "insert"
        OBVIOUS
      <4>1. PICK pc, at : pc \in Pcs \ {"insert"} /\ Move(p, pc, at)
        BY <2>2 DEF Progress, Crash, Start, CheckMigration, ApplyMigration, CountRules, InsertRule,
                    SeedItem, NotifyItem, Pcs, Seeding
      <4> DEFINE x == [pc |-> pc, at |-> at]
      <4>2. x.pc = pc /\ pc # "insert"
        BY <4>1
      <4>3. proc'[p] = x
        BY <4>1 DEF Move, IInv, StartupTypeOK
      <4> HIDE DEF x
      <4> QED BY <4>2, <4>3
    <3> QED BY <3>1, <3>2, <3>3
  <2> QED BY <2>1, <2>2 DEF StartupNext
<1>3. Past => p \notin demoRules
  OBVIOUS
<1> HIDE DEF Past
<1> QED BY <1>1, <1>2, <1>3, Invariant, PTL DEF StartupSpec
=============================================================================
