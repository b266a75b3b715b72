CONSTANTS
  Events = {good, bad}
  Malformed = {bad}
  Old = {bad}
  Handlers = {h1}
  Admins = {a1, a2}
  Workers = {w1}
  MaxAttempts = 2
  BatchSize = 1
  MaxEntries = 3
  MaxFaults = 1
SYMMETRY Symmetry
SPECIFICATION Spec
INVARIANT MissingWasReprocessed
PROPERTIES ClearedAfterRepublish LedgerSpec
\* A drained pipeline waits for the next request.
CHECK_DEADLOCK FALSE
