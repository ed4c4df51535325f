CONSTANTS
  MemIds = {1, 2}
  Contents = {a, b}
  MaxRev = 2
  NoContent = NoContent
  Clients = {c1, c2}
  Keys = {}
  NoKey = NoKey
  PaddedForms = {FALSE}
  ExpiringKeys = {}
  Perishable = {2}
  Embedders = {c1, c2}
  Ops = {"remember", "revise", "forget"}
  MaxTargets = 1
  MaxClaimAttempts = 3
SPECIFICATION Spec
SYMMETRY Symmetry
INVARIANTS RevisionsSound DedupUntilRevised NoStaleWrite OutboxComplete
PROPERTIES HistoryOnlyGrows LedgerSpec
