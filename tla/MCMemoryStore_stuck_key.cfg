CONSTANTS
  MemIds = {1, 2, 3}
  Contents = {a, b}
  MaxRev = 2
  NoContent = NoContent
  Clients = {c1, c2}
  Keys = {k1}
  NoKey = NoKey
  PaddedForms = {FALSE}
  ExpiringKeys = {}
  Perishable = {}
  Embedders = {c1, c2}
  Ops = {"remember"}
  MaxTargets = 0
  MaxClaimAttempts = 3
SPECIFICATION Spec
INVARIANT RetryNeverInconsistent
