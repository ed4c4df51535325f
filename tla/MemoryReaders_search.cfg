CONSTANTS
  MemIds = {1, 2}
  Contents = {a, b, c}
  MaxRev = 2
  NoContent = NoContent
  Strict = {a}
  Loose = {a, b}
  Near = {a, c}
  Perishable = {2}
  Limit = 2
  Overfetch = 3
  Kinds = {"browse", "search", "hybrid", "history"}
SPECIFICATION Spec
INVARIANTS TypeOK OnlyInForce HistoryFitsMemory
