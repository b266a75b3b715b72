--------------------------- MODULE DemoSiteProofs ---------------------------
(***************************************************************************)
(* Proofs about DemoSite: the composed site implements each of its parts,  *)
(* so that what is proved of Startup and of Timeline holds of the site.    *)
(***************************************************************************)
EXTENDS DemoSite, StartupProofs, TimelineProofs

\* The demo deployments in the list are those that were seeded.
SeededAreListed == rows \intersect Demo = {DemoEvent[i] : i \in deployed}

SiteInv == IInv /\ TimelineInv /\ SeededAreListed

\* A starting process seeds a deployment at a time.
LEMMA SeedsOne ==
    ASSUME StartupTypeOK, StartupNext
    PROVE  deployed' = deployed \/ \E i \in 1..Items : deployed' = deployed \union {i}
<1> SUFFICES ASSUME NEW p \in Procs, Progress(p) \/ Crash(p)
             PROVE  deployed' = deployed
                      \/ \E i \in 1..Items : deployed' = deployed \union {i}
  BY DEF StartupNext
<1>1. CASE SeedItem(p)
  <2>1. CASE At(p) > Items
    BY <1>1, <2>1 DEF SeedItem
  <2>2. CASE ~(At(p) > Items)
    <3>1. At(p) \in Nat \ {0}
      BY StartupAssumption DEF StartupTypeOK, At
    <3>2. At(p) \in 1..Items
      BY <2>2, <3>1, StartupAssumption
    <3> QED BY <1>1, <2>2, <3>2 DEF SeedItem
  <2> QED BY <2>1, <2>2
<1>2. CASE ~SeedItem(p)
  BY <1>2 DEF Progress, Crash, Start, CheckMigration, ApplyMigration, CountRules, InsertRule,
              NotifyItem
<1> QED BY <1>1, <1>2

\* What a starting process does is, to the list, the processing of one event or nothing.
LEMMA SeedingIsProcessing ==
    ASSUME SiteInv, Starting
    PROVE  [\E e \in Demo : Process(e)]_timelineVars /\ SeededAreListed'
<1> DEFINE new == {DemoEvent[i] : i \in deployed' \ deployed}
<1>1. StartupTypeOK /\ deployed \subseteq 1..Items
  BY DEF SiteInv, IInv, StartupTypeOK
<1>2. Store(new) /\ rows' = rows \union new /\ UNCHANGED reader
  BY DEF Starting, Store
<1>3. excerpt \in [Events -> SUBSET Nat]
  BY DEF SiteInv, TimelineInv
<1>4. CASE deployed' = deployed
  <2>1. new = {}
    BY <1>4
  <2>2. excerpt' = [e \in Events |-> excerpt[e]]
    BY <1>2, <2>1 DEF Store
  <2>3. UNCHANGED timelineVars
    BY <1>2, <1>3, <2>1, <2>2 DEF timelineVars
  <2> QED BY <1>4, <2>3 DEF timelineVars, SiteInv, SeededAreListed
<1>5. CASE deployed' # deployed
  <2>1. PICK i \in 1..Items : deployed' = deployed \union {i}
    BY <1>1, <1>5, SeedsOne DEF Starting
  <2>2. i \notin deployed /\ new = {DemoEvent[i]}
    BY <1>5, <2>1
  <2>3. DemoEvent[i] \in Demo /\ DemoEvent[i] \in Events /\ Demo \subseteq Events
    BY DemoAssumption DEF Demo
  <2>4. DemoEvent[i] \notin rows
    <3> SUFFICES ASSUME DemoEvent[i] \in rows PROVE FALSE
      OBVIOUS
    <3>1. PICK j \in deployed : DemoEvent[i] = DemoEvent[j]
      BY <2>3 DEF SiteInv, SeededAreListed
    <3> QED BY <1>1, <2>2, <3>1, DemoAssumption
  <2>5. \A d \in rows : Key(d) # Key(DemoEvent[i])
    BY <2>4, DemoAssumption DEF SiteInv, TimelineInv
  <2>6. Process(DemoEvent[i])
    BY <1>2, <2>2, <2>5, DemoAssumption DEF Process
  <2>7. rows' \intersect Demo = {DemoEvent[j] : j \in deployed'}
    BY <1>2, <2>1, <2>2, <2>3 DEF SiteInv, SeededAreListed
  <2>8. Demo' = Demo
    BY DEF Demo
  <2> QED BY <2>3, <2>6, <2>7, <2>8 DEF SeededAreListed
<1> QED BY <1>4, <1>5

\* What the site at work does is a step of the list that seeds nothing.
LEMMA ServingIsTimeline ==
    ASSUME SiteInv, Serve
    PROVE  TimelineNext /\ UNCHANGED startupVars /\ SeededAreListed'
<1>1. TimelineNext /\ UNCHANGED startupVars
  BY DEF Serve, TimelineNext
<1>2. rows' \intersect Demo = rows \intersect Demo
  BY DEF Serve, Process, Store, PruneRetained, OpenList, NextPage, Load
<1> QED BY <1>1, <1>2 DEF SiteInv, SeededAreListed, Demo, startupVars

\* Every step of the site is one of each part, and keeps the invariants.
LEMMA SiteStep ==
    ASSUME SiteInv, [SiteNext]_siteVars
    PROVE  [StartupNext]_startupVars /\ [TimelineNext]_timelineVars /\ SiteInv'
<1>1. [StartupNext]_startupVars
  BY ServingIsTimeline DEF SiteNext, Starting, siteVars
<1>2. [TimelineNext]_timelineVars /\ SeededAreListed'
  <2>1. CASE Starting
    <3>1. Demo \subseteq Events
      BY DemoAssumption DEF Demo
    <3> QED BY <2>1, <3>1, SeedingIsProcessing DEF TimelineNext
  <2>2. CASE Serve
    BY <2>2, ServingIsTimeline
  <2>3. CASE UNCHANGED siteVars
    BY <2>3 DEF siteVars, startupVars, timelineVars, SiteInv, SeededAreListed, Demo
  <2> QED BY <2>1, <2>2, <2>3 DEF SiteNext
<1>3. IInv'
  BY <1>1, StepInv DEF SiteInv
<1>4. TimelineInv'
  BY <1>2, TimelineStepHolds DEF SiteInv
<1> QED BY <1>1, <1>2, <1>3, <1>4 DEF SiteInv

\* The site starts as its parts do, with nothing seeded.
LEMMA SiteStart ==
    ASSUME SiteInit
    PROVE  StartupInit /\ TimelineInit /\ SiteInv
<1>1. SeededAreListed
  BY DEF SiteInit, StartupInit, TimelineInit, SeededAreListed
<1> QED BY <1>1, InitInv, TimelineInitHolds DEF SiteInit, SiteInv

-----------------------------------------------------------------------------
\* Processes of the site start like those of Startup, whatever the list does.
THEOREM SiteImplementsStartup == SiteSpec => StartupSpec
<1>1. SiteInit => StartupInit
  BY DEF SiteInit
<1>2. [SiteNext]_siteVars => [StartupNext]_startupVars
  BY DEF SiteNext, siteVars, Starting, Serve
<1> QED BY <1>1, <1>2, PTL DEF SiteSpec, StartupSpec

\* To the list, a deployment that is seeded is one that is processed, once, however
\* many processes seed it (the unique key and the created flag in saveDeployment).
THEOREM SiteImplementsTimeline == SiteSpec => TimelineSpec
<1>1. SiteInit => SiteInv /\ TimelineInit
  BY SiteStart
<1>2. SiteInv /\ [SiteNext]_siteVars => SiteInv' /\ [TimelineNext]_timelineVars
  BY SiteStep
<1> QED BY <1>1, <1>2, PTL DEF SiteSpec, TimelineSpec

\* While readers page and events come in, processes still start as Startup proves: on a
\* migrated database, with one alert for a demo failure and one rule for late starters.
THEOREM SiteStartIsSound == SiteSpec => []ServesMigrated /\ []AlertedByOne /\ LateStarterAddsNoRule
BY SiteImplementsStartup, MigrationSafety, AlertSafety, RuleSafety, PTL

\* On the site, demo deployments and crashing processes included, no reader skips a
\* deployment or sees one twice.
THEOREM SiteListIsSound == SiteSpec => [](PagesGoBack /\ NothingSkipped)
BY SiteImplementsTimeline, PagesSafety, SkipSafety, PTL

\* What the site shows of a demo deployment, and of any other, while processes seed,
\* crash and seed again: the outcome that was reported; the end of its log, up to lines
\* of one second whose order as text is not their order in time; and analytics that
\* count it on the day it started, up to a fraction in the first second of the window.
THEOREM SiteShowsWhatIsStored ==
    SiteSpec => [](ExcerptIsTail /\ OutcomeIsReported /\ AnalyticsCountWindow)
BY SiteImplementsTimeline, ExcerptSafety, OutcomeSafety, AnalyticsSafety, PTL
=============================================================================
