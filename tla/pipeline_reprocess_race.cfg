CONSTANTS
  Events = {bad}
  Malformed = {bad}
  Old = {}
  Handlers = {h1}
  Admins = {a1}
  Workers = {w1}
  MaxAttempts = 2
  BatchSize = 1
  MaxEntries = 2
  MaxFaults = 0
SPECIFICATION Spec
INVARIANT DeadLetterIsRecoverable
\* A drained pipeline waits for the next request.
CHECK_DEADLOCK FALSE
