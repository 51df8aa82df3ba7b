\* One command is enough: the bundle has a path the set no longer declares.
SPECIFICATION Spec
CONSTANTS
  Names = {a}
  Permissions = {p}
  Options = {x}
  MaxDepth = 1
  MaxCalls = 2
  None = None
INVARIANT DriftIsRefused
CHECK_DEADLOCK FALSE
