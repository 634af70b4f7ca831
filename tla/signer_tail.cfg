SPECIFICATION Spec
CONSTANTS
  Bits = 7
  Radix = 4
  Kilo = 4
  Sig = 4
  Transfer = 60
  Options <- MCOptions
  Images <- MCImages
  Old <- MCOld
  MaxOptions = 3
INVARIANT ImageKept
CHECK_DEADLOCK FALSE
