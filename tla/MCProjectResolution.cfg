CONSTANTS
  Clients = {c1, c2}
  ProjIds = {p1, p2}
  Slugs = {s1, s2}
  Remotes = {r}
  Paths = {w}
  None = None
SPECIFICATION Spec
SYMMETRY Symmetry
INVARIANTS TypeOK OneProjectPerSlug LookupsHonoured NoWaitCycle
PROPERTY NeverRepointed
