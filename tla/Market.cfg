SPECIFICATION Spec
CONSTANTS
  EUR = EUR
  USD = USD
  NoTick = NoTick
  Malformed = Malformed
  Missing = Missing
  Symbols <- MCSymbols
  Ticks <- MCTicks
  Files <- MCFiles
  Sessions <- MCSessions
  Questions <- MCQuestions
  HourLength = 1
  MaxTime = 2
  MaxAge = 1
  Word = 16
INVARIANTS
  ReplayInOrder
  FreshIsRecent
  SubscriberSeesCache
  AnswerJustified
