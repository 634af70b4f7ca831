SPECIFICATION Spec
CONSTANTS
  Top = 65536
  Words <- MCWords
  Spell <- MCSpell
  Tried <- MCTried
  Data <- MCData
  Strays <- MCStrays
  Keys <- MCKeys
  DefaultCount = 2
  MaxSamples = 2
  MaxDigits = 3
  Shown <- MCShown
INVARIANTS LsmTypeOK SampleWhole FullEntryWritten AccessAsTyped LoopAsTyped DumpShows ReadBack
PROPERTY DisplayEnds
CHECK_DEADLOCK FALSE
