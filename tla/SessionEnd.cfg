SPECIFICATION Spec
CONSTANTS
  Cap = 2
  MaxRequests = 2
  Tasks = {task}
  Sessions <- Ending
PROPERTIES
  EndReleasesCallers
CHECK_DEADLOCK FALSE
