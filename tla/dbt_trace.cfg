CONSTANTS
  Size = 6
  Levels = 3
  MaxWrites = 5
  MaxPrint = 2
SPECIFICATION Spec
INVARIANT TypeOK
INVARIANT StopAtIndex
INVARIANT RecentKept
INVARIANT PrintsNewest
