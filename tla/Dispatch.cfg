\* A goroutine beside the worker keeps handles. Two requests, so that a handler of
\* the second uses a handle of the first; two handlers to an event; three calls.
SPECIFICATION Spec
CONSTANTS
  MaxRequests = 2
  MaxHandlers = 2
  MaxCalls = 3
  Keepers = {task}
  None = None
INVARIANTS
  TypeOK
  AcceptedEffectsTravel
  CancelledByItsHandlers
PROPERTIES
  EveryRequestIsAnswered
CHECK_DEADLOCK FALSE
