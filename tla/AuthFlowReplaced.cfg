SPECIFICATION Spec
CONSTANTS
  alice = alice
  bob = bob
  old = old
  new = new
  Flows = {f1}
  Users = {alice}
  URIs = {old}
  Configs <- OneConfig
  Requests = {r1}
  NoFlow = NoFlow
  NoUser = NoUser
  codeLifetime = 1
  accessLifetime = 1
  exchangeTimeout = 0
  MaxRotations = 1
  MaxSecret = 0
  MaxTime = 0
PROPERTIES HiccupNeverEvicts
