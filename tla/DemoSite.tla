------------------------------ MODULE DemoSite ------------------------------
(***************************************************************************)
(* Startup and Timeline together: a site with DEMO_DATA.  The demo         *)
(* deployments that starting processes seed are rows of the list; once a   *)
(* process serves, providers' events are processed and readers page        *)
(* through them, while others start, crash and seed again.                 *)
(***************************************************************************)
EXTENDS Startup, Timeline

CONSTANT DemoEvent   \* demo deployment -> its place among the events

ASSUME DemoAssumption ==
    /\ DemoEvent \in [1..Items -> Events]
    /\ \A i, j \in 1..Items : DemoEvent[i] = DemoEvent[j] => i = j
    /\ \A i \in 1..Items : Parses(Feed[DemoEvent[i]].provider, Feed[DemoEvent[i]].payload)
    /\ \A i \in 1..Items, e \in Events : Key(DemoEvent[i]) = Key(e) => e = DemoEvent[i]

siteVars == <<startupVars, timelineVars>>
Demo == {DemoEvent[i] : i \in 1..Items}
Serving == \E p \in Procs : proc[p].pc = "up"

SiteInit == StartupInit /\ TimelineInit

\* Mutant: the log lines are written also if the deployment was there.
StoreLinesAgain ==
    LET seeding == {p \in Procs : proc[p].pc = "seed" /\ proc'[p] # proc[p] /\ At(p) <= Items}
    IN  StartupNext /\ Store({DemoEvent[At(p)] : p \in seeding})

\* A step of a starting process; what it seeds is stored with its log lines.
Starting == StartupNext /\ Store({DemoEvent[i] : i \in deployed' \ deployed})

\* The site at work; in a run one process stands for the API and the worker.
Serve ==
    /\ Serving
    /\ \/ \E e \in Events \ Demo : Process(e)
       \/ PruneRetained
       \/ \E r \in Readers : OpenList(r) \/ NextPage(r)
    /\ UNCHANGED startupVars

SiteNext == Starting \/ Serve
SiteSpec == SiteInit /\ [][SiteNext]_siteVars

\* A process that ended is started again, and a started one goes on.
SiteFairSpec == SiteSpec /\ \A p \in Procs : WF_startupVars(Progress(p))
=============================================================================
