SPECIFICATION Spec
CONSTANTS
  Size = 9
  NThreads = 4
PROPERTY ComputeReturns
CHECK_DEADLOCK FALSE
