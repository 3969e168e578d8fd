SPECIFICATION DownloadsSpec
CONSTANTS
  w1 = w1
  w2 = w2
  w3 = w3
  JobCount = 3
  JobPriority <- MCJobPriority
  Printers = 2
  MaxReturning = 2
  Worker <- MainWorker
  TotalSlots = 3
  MaxRequired = 2
  TaskPriority <- MCTaskPriority
  TaskCount = 3
  FileCount = 2
  TotalChunks <- MainChunks
  MaxActiveFiles = 2
  MaxActiveChunks = 3
PROPERTY FilesComplete
CHECK_DEADLOCK FALSE
