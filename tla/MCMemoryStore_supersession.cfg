CONSTANTS
  MemIds = {1, 2, 3, 4}
  Contents = {a, b, c, d}
  MaxRev = 1
  NoContent = NoContent
  Clients = {c1, c2}
  Keys = {}
  NoKey = NoKey
  PaddedForms = {FALSE}
  ExpiringKeys = {}
  Perishable = {}
  Embedders = {c1, c2}
  Ops = {"remember"}
  MaxTargets = 2
  MaxClaimAttempts = 3
SPECIFICATION Spec
SYMMETRY Symmetry
INVARIANTS LineageSound NoWaitCycle
\* remember uses up the ids of the instance; a wait cycle is NoWaitCycle's to find.
CHECK_DEADLOCK FALSE
