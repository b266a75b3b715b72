CONSTANTS
  Feed <- ReusedIds
  Offered <- OneRule
  Wildcard = "*"
  Workers = {w1}
  MaxFaults = 0
SPECIFICATION FairSpec
PROPERTIES FailedEventIsAlerted
\* Nothing is left to do when every event is notified.
CHECK_DEADLOCK FALSE
