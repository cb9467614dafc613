SPECIFICATION FairSpec
CONSTANTS
  t1 = t1
  t2 = t2
  t3 = t3
  Threads <- MCThreads
  Components <- MCComponents
  Wirings <- MCWirings
  MaxCalls = 4
INVARIANTS
  DeadlockIsACircleOfSubscribers
PROPERTIES
  DeadlockIsForGood
  CallsReturnOrDeadlock
CHECK_DEADLOCK FALSE
