\* The 6 slots, 3 workers and tasks of 1..3 slots that main of task5.cpp uses.
SPECIFICATION Spec
CONSTANTS
  Worker = {w1, w2, w3}
  TotalSlots = 6
  MaxRequired = 3
  Priority = {1}
  TaskCount = 3
PROPERTY TasksComplete
CHECK_DEADLOCK FALSE
