CONSTANTS
  Feed <- MCFeed
  Offered <- MCOffered
  Wildcard = "*"
  Workers = {w1, w2}
  MaxFaults = 1
SPECIFICATION Spec
INVARIANTS TypeOK DeliveryIsJustified
PROPERTIES NoneForgotten
\* Nothing is left to do when every event is notified.
CHECK_DEADLOCK FALSE
