SPECIFICATION Desk
CONSTANTS
  EUR = EUR
  USD = USD
  AnySymbol = AnySymbol
  NoValue = NoValue
  Symbols <- MCSymbols
  PositionBounds <- MCPositionBounds
  LossLimits <- MCLossLimits
  ExposureLimits <- MCExposureLimits
  Values <- MCValues
  DefaultParams <- MCDefaultParams
  RiskParams <- MCRiskParams
  MaxLimits = 3
  MaxReading = 3
INVARIANTS
  JudgedByBook
  JudgesAgree
  ExposureAddsUp
