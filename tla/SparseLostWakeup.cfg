\* The last release falls between reserveLowest and waitProgress.
CONSTANTS
  Size = 2
  Chunk = 1
  MaxRead = 1
  MaxFills = 2
  Seeks = {s1}
  Driver = driver
  Readers = {r1}
  OtherFills = 0
  RangeHonoured = TRUE
SPECIFICATION Spec
INVARIANTS
  DriverSleepsOnFetch
