\* A command handler replies and panics.
SPECIFICATION Spec
CONSTANTS
  MaxRequests = 1
  MaxHandlers = 1
  MaxCalls = 2
  Keepers = {}
  None = None
PROPERTIES
  RepliesTravel
CHECK_DEADLOCK FALSE
