SPECIFICATION Spec
CONSTANTS
  alice = alice
  bob = bob
  old = old
  new = new
  Flows = {f1}
  Users = {alice}
  URIs = {old}
  Configs <- OneConfig
  Requests = {r1, r2}
  NoFlow = NoFlow
  NoUser = NoUser
  codeLifetime = 1
  accessLifetime = 1
  exchangeTimeout = 1
  MaxRotations = 1
  MaxSecret = 0
  MaxTime = 3
INVARIANTS TypeOK RevocationTail GrantReachable
SYMMETRY HandlersAlike
