\* Two goroutines and three numbers: either may emit again while the answer to
\* its first emission can still arrive a second time, or the emitter shut down.
SPECIFICATION Spec
CONSTANTS
  Callers = {worker, task}
  MaxSeq = 6
  None = None
INVARIANTS
  TypeOK
  NumbersAreNeverShared
  HandoffNeverBlocks
  ParkedCallerIsReachable
  NoEntryOutlivesItsCall
PROPERTIES
  ImplementsExchange
