SPECIFICATION FairSpec
CONSTANTS
  Calls = {c1, c2}
  Tokens = {t1, t2, t3}
  Foreign = {}
  maxConcurrentValidations = 1
  cacheCapacity = 2
  cacheMaxTTL = 1
  validationTimeout = 0
  remainingSecondsCeiling = 2
  absoluteEpochFloor = 4
  Pause = 0
  Start = 4
  MaxTime = 5
  Expiries = {5}
INVARIANTS TypeOK SlotsAccounted IndexMatchesList
PROPERTIES EveryCallIsDecided
