\* Two subscribers and three writes: a second subscriber writes over what the
\* first was refused, and a field is replaced before one of its elements is set.
\* Uint32 = 8 leaves an index beyond the last field on either side of the wrap.
SPECIFICATION Spec
CONSTANTS
  MaxDispatches = 2
  MaxWrites = 3
  Uint32 = 8
  None = None
CHECK_DEADLOCK FALSE
INVARIANTS
  TypeOK
  VerdictCarriesTheWrites
  CancelledByThoseWhoMay
  AuthorSeesWhatTheHostHas
