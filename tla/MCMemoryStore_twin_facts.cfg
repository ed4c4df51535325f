CONSTANTS
  MemIds = {1, 2}
  Contents = {a, b}
  MaxRev = 2
  NoContent = NoContent
  Clients = {c1, c2}
  Keys = {}
  NoKey = NoKey
  PaddedForms = {FALSE}
  ExpiringKeys = {}
  Perishable = {}
  Embedders = {}
  Ops = {"remember", "revise"}
  MaxTargets = 0
  MaxClaimAttempts = 3
SPECIFICATION Spec
INVARIANT ActiveContentsDiffer
