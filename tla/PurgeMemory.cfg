CONSTANTS
  Clients = {c1, c2}
  Workers = {w1}
  Operator = op
  Keyed = {c1}
  MaxRev = 2
SPECIFICATION Spec
INVARIANTS TypeOK ClearedTablesStayClear PurgeAlone
CHECK_DEADLOCK FALSE
