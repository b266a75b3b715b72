CONSTANTS
  Events = {good, bad}
  Malformed = {bad}
  Old = {}
  Handlers = {h1}
  Admins = {}
  Workers = {w1, w2}
  MaxAttempts = 3
  BatchSize = 2
  MaxEntries = 2
  MaxFaults = 1
SPECIFICATION FairTrackedSpec
INVARIANT TriesAreCounted
PROPERTIES EveryEntryFinishes
\* A drained pipeline waits for the next request.
CHECK_DEADLOCK FALSE
