SPECIFICATION AuditSpec
CONSTANTS
  EUR = EUR
  Symbols <- MCSymbols
  Quantities <- MCQuantities
  Prices <- MCPrices
  Fees <- MCFees
  LotMethods <- MCLotMethods
  MaxTrades = 4
INVARIANTS
  LotsInTradeOrder
  ConsumesInMethodOrder
  CoveredSaleEarnsMargin
  AverageCostBalances
CHECK_DEADLOCK FALSE
