CONSTANTS
  MaxElements = 2
  MaxCount = 2
  MaxArgs = 11
  MaxBytes = 11
  Word = 4
  ByteBudget = 7
  Keys <- AllKeys
  Contents <- Values
  LastBucket = 1
  Bucket <- Buckets
  NameSize <- Sizes
  Compact = 1
  Chain = 2
  Groups = {0, 3}
  Argvs <- AllArgvs
  Elements <- Strings
  Initially <- Keyspaces
  MaxWrites = 2
SPECIFICATION FairSpec
INVARIANTS
  AdmittedIsBounded
  KeptIsLongestPrefix
  TextStaysText
  RecordIsTrue
  InspectIsOfOneKey
  ScanMissesNothing
PROPERTY
  EveryCallIsAnswered
