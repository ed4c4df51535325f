CONSTANTS
  Jobs = {j1, j2, j3}
  Servers = {s1, s2}
  BatchSize = 2
  MaxAttempts = 3
  MaxBatches = 2
  Unembeddable = {j1}
  MaxFaults = 2
SPECIFICATION FairSpec
INVARIANTS TypeOK BatchesExclusive VectorIffDone GivenUpAtLimit
PROPERTIES QueueSpec EveryJobSettles
