CONSTANTS
  Feed <- Recoveries
  Offered <- OneRule
  Wildcard = "*"
  Workers = {w1}
  MaxFaults = 0
SPECIFICATION Spec
INVARIANTS RecoveryIsSentOnce
\* Nothing is left to do when every event is notified.
CHECK_DEADLOCK FALSE
