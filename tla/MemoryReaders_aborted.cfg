CONSTANTS
  MemIds = {1, 2}
  Contents = {a, b, c}
  MaxRev = 1
  NoContent = NoContent
  Strict = {a}
  Loose = {a, b}
  Near = {a, c}
  Perishable = {}
  Limit = 2
  Overfetch = 3
  Kinds = {"hybrid"}
SPECIFICATION Spec
INVARIANT NoStatementAfterAbort
