SPECIFICATION Spec
CONSTANTS
  w1 = w1
  w2 = w2
  w3 = w3
  JobCount = 3
  JobPriority <- MCJobPriority
  Printers = 2
  MaxReturning = 2
  Worker <- MCWorker
  TotalSlots = 3
  MaxRequired = 2
  TaskPriority <- MCTaskPriority
  TaskCount = 3
  FileCount = 3
  TotalChunks <- MCTotalChunks
  MaxActiveFiles = 2
  MaxActiveChunks = 1
INVARIANTS QueueConsistent NoJobSleptOver SchedulerConsistent NoWorkSleptOver FilesConsistent
PROPERTIES JobsPrinted TasksCompleteIfEnoughSlots FilesCompleteIfFewWorkers
CHECK_DEADLOCK FALSE
