\* A file of five blocks, two to a chunk; a live stream over one and a half
\* lifetimes of a link, with a restart; int64 has eleven bits.
CONSTANTS
  Size = 5
  Chunk = 2
  Absent = Absent
  Empty = Empty
  Spaces = Spaces
  Garbage = Garbage
  Rejected = Rejected
  MaxInt = 1023
  Second = 2
  TTL = 3
  MaxClock = 6
  MaxFirst = 2
  MaxRestarts = 1
SPECIFICATION SmallSpec
INVARIANTS
  SlicesExact
  QueriesAgree
  ReservesFreeOffsets
  LiveAnswersAsCached
  AcceptedAsWritten
  CommandWhole
  RouteFits
  PlaylistExact
  LinksGood
  CallerUnderstands
