CONSTANTS
  MemIds = {1, 2, 3}
  Contents = {a, b}
  MaxRev = 1
  NoContent = NoContent
  Clients = {c1, c2}
  Keys = {k1}
  NoKey = NoKey
  PaddedForms = {TRUE, FALSE}
  ExpiringKeys = {k1}
  Perishable = {}
  Embedders = {c1, c2}
  Ops = {"remember"}
  MaxTargets = 1
  MaxClaimAttempts = 2
SPECIFICATION FairSpec
INVARIANTS TypeOK KeyNamesItsMemory
PROPERTY EveryCallReturns
\* remember uses up the ids of the instance; then the idle servers have nothing to do.
CHECK_DEADLOCK FALSE
