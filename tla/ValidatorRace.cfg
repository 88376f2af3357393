SPECIFICATION Spec
CONSTANTS
  Calls = {c1, c2}
  Tokens = {t1, t2}
  Foreign = {t2}
  maxConcurrentValidations = 2
  cacheCapacity = 1
  cacheMaxTTL = 2
  validationTimeout = 1
  remainingSecondsCeiling = 4
  absoluteEpochFloor = 6
  Pause = 1
  Start = 6
  MaxTime = 10
  Expiries = {7, 10}
INVARIANTS Freshness IndexMatchesList
PROPERTIES OnlyOursAccepted RevocationTail ExpiryTail
