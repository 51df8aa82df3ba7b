\* Two tasks and two clients: one task is scheduled, running or leaving while stop
\* copies the table, and two Cancels race it. A scheduler may stop for good.
SPECIFICATION Spec
CONSTANTS
  MaxTasks = 2
  Clients = {worker, other}
INVARIANTS
  TypeOK
  StoppedIsQuiet
  StopCoversEveryTask
PROPERTIES
  OneShotStartsOnce
  StopTerminates
  CancelledTaskEnds
CHECK_DEADLOCK FALSE
