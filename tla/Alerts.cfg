SPECIFICATION Spec
CONSTANTS
  EUR = EUR
  Symbols <- MCSymbols
  NetQuantities <- MCNetQuantities
  Prices <- MCPrices
  DailyPnLs <- MCDailyPnLs
  Drawdowns <- MCDrawdowns
  Exposures <- MCExposures
  LargePosition = 2
  LossStop = 4
  LossWarning = 3
  DeepDrawdown = 1
  LargeExposure = 8
  OperatorIds <- MCOperatorIds
  Cooldowns <- MCCooldowns
  DefaultCooldown = 2
  ClockReadings <- MCClockReadings
  NsPerMs = 2
  Word = 1024
  MaxAlerts = 3
  MaxAnnounced = 2
INVARIANTS
  IndexSound
  AnnouncedOnceInOrder
  SilentOnlyAfterAlert
PROPERTIES
  CooldownSpacing
CHECK_DEADLOCK FALSE
