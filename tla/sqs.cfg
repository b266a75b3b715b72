CONSTANTS
  Events = {good}
  Malformed = {}
  Old = {good}
  Handlers = {h1}
  Admins = {a1}
  Lambdas = {l1, l2}
  MaxReceives = 2
  BatchSize = 2
  MaxMessages = 3
  MaxFaults = 3
SPECIFICATION Spec
INVARIANTS TypeOK OneAlertPerDeployment GivenUpIsListed QueuedIsUnderWay AcceptedIsKept
PROPERTIES ProcessedIsFinal LedgerSpec
SYMMETRY Symmetry
\* A drained queue waits for the next request.
CHECK_DEADLOCK FALSE
