SPECIFICATION Spec
CONSTANTS
  high = high
  low1 = low1
  low2 = low2
  owner = owner
  r1 = r1
  r2 = r2
  User <- MCUser
  Owner <- MCOwner
  Priority <- MCPriority
  Initial <- MCInitial
  Owned <- MCOwned
  NoResource = NoResource
INVARIANTS PoolConsistent NoTurnSleptThrough
PROPERTY TopPriorityServed
CHECK_DEADLOCK FALSE
