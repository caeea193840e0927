SPECIFICATION Spec
CONSTANTS
  Segments = {s1, s2}
  Manifests = {m1}
  Large = {}
  Slots = 2
  Capacity = 1
  Requests = {q1, q2, q3}
  None = None
INVARIANTS
  FailsForCause
