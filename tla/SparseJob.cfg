\* One live request beside the driver; its window covers the file, so that
\* one requestFillAt can start two fills, and other jobs take slots.
CONSTANTS
  Size = 3
  Chunk = 3
  MaxRead = 2
  MaxFills = 2
  Seeks = {s1, s2}
  Driver = driver
  Readers = {r1}
  OtherFills = 1
  RangeHonoured = TRUE
SPECIFICATION Spec
INVARIANTS
  TypeOK
  FetchedOnce
  PresentIsOnDisk
  CachedIsWhole
  SleepersHaveReason
  CutOnlyForCause
PROPERTIES
  IsDownload
