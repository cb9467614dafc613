SPECIFICATION AuditSpec
CONSTANTS
  EUR = EUR
  USD = USD
  Momentum = Momentum
  Carry = Carry
  Symbols <- MCSymbols
  Strategies <- MCStrategies
  Hours <- MCHours
  Quantities <- MCQuantities
  Prices <- MCPrices
  Fees <- MCFees
  EntryPrices <- MCEntryPrices
  NetQuantities <- MCNetQuantities
  MaxCalls = 3
SYMMETRY MCSymmetry
INVARIANTS
  DayGainsSinceReset
  AttributionConserves
  DrawdownIsDeepestFall
PROPERTIES
  KeepsAccount
CHECK_DEADLOCK FALSE
