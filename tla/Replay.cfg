SPECIFICATION FairReplay
CONSTANTS
  p1 = p1
  p2 = p2
  EUR = EUR
  Malformed = Malformed
  Connections <- MCConnections
  Batches = {}
  TradeIds <- MCTradeIds
  Symbols <- MCSymbols
  Quantities <- MCQuantities
  Prices <- MCPrices
  Fees <- MCFees
  Files <- MCFiles
  LotMethods <- MCLotMethods
  Word = 65536
  MaxTrades = 2
  MaxStarts = 3
  MaxCalls = 6
INVARIANTS
  PassedIsJournaled
  MemoryMatchesJournal
PROPERTIES
  ReplayEnds
CHECK_DEADLOCK FALSE
