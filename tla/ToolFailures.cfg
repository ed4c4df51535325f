CONSTANTS
  Clients = {c1, c2}
  Keyed = {c1}
  Slots = {s1, s2}
  PoolSize = 2
  MaxFaults = 4
SPECIFICATION FairSpec
INVARIANTS TypeOK WrittenOnce AnswersTrue
PROPERTIES KeyedSettles
CHECK_DEADLOCK FALSE
