SPECIFICATION FairSpec
CONSTANTS
  p1 = p1
  p2 = p2
  Connections <- MCConnections
  TradeIds <- MCTradeIds
  Batches <- MCBatches
  MaxCalls = 3
INVARIANTS
  LoggedIsDurable
  IdleHoldsNothing
PROPERTIES
  KeepsLog
  QueriesAreDurable
  CallsEnd
CHECK_DEADLOCK FALSE
