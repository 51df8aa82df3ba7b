\* Two names and three levels, so that one path is a prefix or a sibling of another
\* and may have two values; five calls, enough to bind two paths of one command. A
\* loaded set may be left alone.
SPECIFICATION Spec
CONSTANTS
  Names = {a, b}
  Permissions = {p, q}
  Options = {x}
  MaxDepth = 3
  MaxCalls = 5
  None = None
INVARIANTS
  TypeOK
  BuildersSpellTheirNodes
  DeclaredPathsAreIndexed
  DeclarationsStand
  LoadBindsEverything
  LinesReachTheirHandler
  HandlersReadWhatWasTyped
CHECK_DEADLOCK FALSE
