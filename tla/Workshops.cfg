SPECIFICATION Spec
CONSTANTS
  Children = 3
  MaxDeaths = 1
  Content <- MCContent
  FileCount = 2
  Cores = {0, 1, 3}
  BlockSize = 2
  Machines = 3
  Workers = 5
  Blanks = 3
  BlankMachines = 2
  BlankWorkers = 4
  Employees = 4
  HighEvery = 3
  Initial = 2
  MaxExtra = 1
  Crowd = 2
  Priority <- MCPriority
  Duration <- MCDuration
  LineMachines = 2
  Broken = 2
  BreaksAfter = 2
  Arrays <- MCArrays
  Ks = {1, 2, 3}
  Half = 8
  Ns = {25}
  PrimeKs = {1, 3}
  TS = 2
  HEIGHT = 6
  WIDTH = 6
INVARIANTS BarrierConsistent ArchiverConsistent ResourcesConserved NobodySleptOver
  OrdersAccountedFor ResultsRight
PROPERTIES ParentPrintsTotal EveryProgramEnds
CHECK_DEADLOCK FALSE
