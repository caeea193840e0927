\* Two segments and a manifest, of which one each is too long; the cache
\* holds one entry, and three requests compete for two slots.
SPECIFICATION FairSpec
CONSTANTS
  Segments = {s1, s2}
  Manifests = {m1}
  Large = {s2, m1}
  Slots = 2
  Capacity = 1
  Requests = {q1, q2, q3}
  None = None
INVARIANTS
  OneFetchPerSegment
PROPERTIES
  RequestsEnd
