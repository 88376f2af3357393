CONSTANTS
  Calls = {c1}
  Tokens = {"t1", "t2", "t3"}
  Foreign = {"t2"}
  maxConcurrentValidations = 1
  cacheCapacity = 1
  cacheMaxTTL = 1
  validationTimeout = 0
  remainingSecondsCeiling = 2
  absoluteEpochFloor = 4
  Pause = 0
  Start = 4
  MaxTime = 5
  Expiries = {5}
  Configs <- AllConfigs
  Credentials <- AllCredentials
  Claims <- AllClaims
  Blank = ""
  Malformed = {"nohost"}
  maxLifetime = 3
  clockSkew = 1
  Limit = 128
  UnixToInternal = 20
SPECIFICATION AdmissionSpec
INVARIANTS
  RefusalNamesTheRemedy
PROPERTIES
  AdmissionIsGrounded
  ChallengeIsFinal
