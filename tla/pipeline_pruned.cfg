CONSTANTS
  Events = {good, bad}
  Malformed = {bad}
  Old = {bad}
  Handlers = {h1}
  Admins = {}
  Workers = {w1}
  MaxAttempts = 2
  BatchSize = 2
  MaxEntries = 2
  MaxFaults = 1
SPECIFICATION FairSpec
PROPERTY EveryKeptEntryFinishes
\* A drained pipeline waits for the next request.
CHECK_DEADLOCK FALSE
