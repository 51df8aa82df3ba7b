\* Capacity 2 for 8: empty, partly full and full. Four requests, so that the channel is
\* full with one more in the read loop's hand.
SPECIFICATION Spec
CONSTANTS
  Cap = 2
  MaxRequests = 4
  Tasks = {task}
  Sessions <- KeptInBounds
INVARIANTS
  TypeOK
  NobodyOutlivesServe
PROPERTIES
  ImplementsMailbox
  PingIsAnswered
  EmissionsReturn
CHECK_DEADLOCK FALSE
