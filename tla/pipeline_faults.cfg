CONSTANTS
  Events = {good, bad}
  Malformed = {bad}
  Old = {good}
  Handlers = {h1, h2}
  Admins = {}
  Workers = {w1, w2}
  MaxAttempts = 2
  BatchSize = 2
  MaxEntries = 2
  MaxFaults = 1
SYMMETRY Symmetry
SPECIFICATION Spec
INVARIANTS TypeOK AckedIsSettled AcceptedIsKept ProcessedIsDeployed OneAlertPerDeployment
PROPERTIES OnlyRetentionEndsWorkers LedgerSpec
\* A drained pipeline waits for the next request.
CHECK_DEADLOCK FALSE
