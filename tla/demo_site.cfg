CONSTANTS
  Procs = {p1, p2}
  Seeders = {p1, p2}
  Versions = 2
  Items = 1
  Alerting = {1}
  MaxCrashes = 1
  Events = {1, 2, 3, 4, 5, 6}
  Feed <- MCFeed
  Instants <- MCInstants
  Readers = {r1}
  Filters <- MCFilters
  Limits = {0}
  DefaultLimit = 1
  MaxLimit = 2
  Today = 4
  DayLength = 10
  Asked = {0, 5}
  DefaultDays = 1
  MaxDays = 2
  CutOffs <- MCCutOffs
  MaxLines = 3
  DemoEvent <- MCDemoEvent
SPECIFICATION SiteFairSpec
INVARIANTS StartupTypeOK ServesMigrated AlertedByOne TimelineTypeOK PagesGoBack NothingSkipped OutcomeIsReported AnalyticsCountWindow ExcerptIsTail
PROPERTIES TimelineSpec LateStarterAddsNoRule EveryProcessServes
\* A site whose processes all serve waits for the next request.
CHECK_DEADLOCK FALSE
