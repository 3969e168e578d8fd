SPECIFICATION AccountSpec
CONSTANTS
  p1 = p1
  p2 = p2
  c1 = c1
  c2 = c2
  Size = 5
  NThreads = 3
  Producer <- MCProducer
  Consumer <- MCConsumer
  Capacity = 2
  Supply = 2
  Demands = {2, 3}
  Pushes <- MCPushes
  Consumers = 2
  InitialBalance <- MCInitialBalance
  Plans <- MCPlans
  Sets <- MCSets
  Gets <- MCGets
  Conversations <- MCConversations
  Sessions = 2
  ToSend = 2
  MaxLines = 3
  MessageCount <- MCMessageCount
  Clients = 2
  Ops = 2
  Amounts = {1, 2}
  Preset <- MCPreset
  Newcomers <- MCNewcomers
  Thresholds = {3, 5}
  MaxStudents = 5
  Tables <- MCTables
  Versions = {1, 2}
  Modulus = 8
  Writers = 3
  MainLines = 1
PROPERTIES BalanceCompared
CHECK_DEADLOCK FALSE
