SPECIFICATION FairSpec
CONSTANTS
  Videos = {v1, v2}
  Jobs = {j1, j2}
  Players = {p1}
  None = None
PROPERTIES
  EveryoneEnds
