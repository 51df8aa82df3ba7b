\* Three loads, so that tasks and goroutines hold the contexts of earlier loads while
\* the next is loaded, fails or is disabled; two tasks, so that one ends while another is waited for.
SPECIFICATION Spec
CONSTANTS
  MaxLoads = 3
  MaxTasks = 2
INVARIANTS
  TypeOK
  StaleContextsAreDead
  OnDisableRunsAlone
  DisablePairsWithLoad
  FailedLoadLeavesNothing
  HandlersRunEnabled
PROPERTIES
  LoadIsAnswered
  WorkerExits
CHECK_DEADLOCK FALSE
