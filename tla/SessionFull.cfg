SPECIFICATION Spec
CONSTANTS
  Cap = 2
  MaxRequests = 4
  Tasks = {task}
  Sessions <- Overfull
PROPERTIES
  EmissionsReturn
CHECK_DEADLOCK FALSE
