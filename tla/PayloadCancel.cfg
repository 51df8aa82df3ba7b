\* One subscriber, which cancels.
SPECIFICATION Spec
CONSTANTS
  MaxDispatches = 1
  MaxWrites = 0
  Uint32 = 8
  None = None
INVARIANTS
  CancelsAreLeftToTheHost
CHECK_DEADLOCK FALSE
