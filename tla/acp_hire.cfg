\* An operator hires twice; nothing else is fair but the deadline of the bridge.
SPECIFICATION Spec
CONSTANTS
  k1 = k1
  k2 = k2
  Keys = {k1, k2}
  Asks <- MCAsks
  MaxCalls = 2
  MaxReadings = 2
  Spent <- MCSpent
  Budget = 1
  DailyCap = 2
  NoTx = NoTx
INVARIANTS TypeOK OwnAnswer RetryCreatesNothing
PROPERTIES HiringSpec
CHECK_DEADLOCK FALSE
