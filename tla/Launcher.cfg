SPECIFICATION Spec
CONSTANT GameCodes = {1, 3}
INVARIANTS
  ExitTellsAll
  LeavesNothing
PROPERTY
  LauncherEnds
