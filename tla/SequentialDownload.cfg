\* Both modes: the job with two live requests, in the end and on the way.
CONSTANTS
  Size = 3
  MaxRead = 2
  Pipe = 1
  Readers = {r1, r2}
SPECIFICATION FairSpec
INVARIANTS
  TypeOK
  CachedIsWhole
  WholeIsWhole
  SleepersHaveReason
  LengthSent
PROPERTIES
  IsDownload
  JobEnds
  ReadersEnd
