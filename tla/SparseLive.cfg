\* Slots held by other jobs; upstreams that fail, fall short or ignore ranges.
CONSTANTS
  Size = 2
  Chunk = 1
  MaxRead = 1
  MaxFills = 1
  Seeks = {s1}
  Driver = driver
  Readers = {r1}
  OtherFills = 1
  RangeHonoured = FALSE
SPECIFICATION FairSpec
PROPERTIES
  JobEnds
  ReadersEnd
