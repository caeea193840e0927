\* One video, three jobs that can overlap at their ends, two players.
SPECIFICATION Spec
CONSTANTS
  Videos = {v1}
  Jobs = {j1, j2, j3}
  Players = {p1, p2}
  None = None
INVARIANTS
  PromiseKept
  RegistryExact
  NoOrphans
PROPERTIES
  LateHitsCache
SYMMETRY Symmetry
