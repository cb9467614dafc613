SPECIFICATION BooksSpec
CONSTANTS
  EUR = EUR
  USD = USD
  Symbols <- Instruments
  Quantities <- MCQuantities
  Prices <- MCPrices
  Fees <- MCFees
  LotMethods <- MCLotMethods
  Word = 65536
  MaxTrades = 3
  MaxIngested = 3
SYMMETRY MCSymmetry
INVARIANTS
  EntryWithinPrices
  AuditTrail
  LedgerIdentity
  KeepersAgree
  ClientIdentity
  ClientTotal
CHECK_DEADLOCK FALSE
