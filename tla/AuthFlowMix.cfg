SPECIFICATION FairSpec
CONSTANTS
  alice = alice
  bob = bob
  old = old
  new = new
  Flows = {f1, f2}
  Users = {alice, bob}
  URIs = {old, new}
  Configs <- TwoConfigs
  Requests = {r1}
  NoFlow = NoFlow
  NoUser = NoUser
  codeLifetime = 1
  accessLifetime = 1
  exchangeTimeout = 0
  MaxRotations = 0
  MaxSecret = 1
  MaxTime = 0
INVARIANTS SessionOfItsFlow SecretEndsSessions
PROPERTIES RunningConfigDecides EveryHandlerAnswers
