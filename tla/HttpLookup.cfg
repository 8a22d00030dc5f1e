SPECIFICATION Spec
CONSTANTS
  MaxMethod = 2
  MaxUrl = 2
  MaxStatus = 3
  MaxHeaders = 9
  MaxData = 3
  LongSize = 100000
  Bodyless <- MCBodyless
  Messages <- MCLookup
INVARIANTS
  ValueOfRow
CHECK_DEADLOCK FALSE
