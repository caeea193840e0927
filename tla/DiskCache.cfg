\* Three videos, of which one is as large as the budget.
SPECIFICATION Spec
CONSTANTS
  small = small
  medium = medium
  large = large
  Videos = {small, medium, large}
  SizeOf <- MCSizeOf
  MaxSize = 3
  None = None
INVARIANTS
  BudgetKept
PROPERTIES
  NoNeedlessEviction
  EvictsLeastRecent
