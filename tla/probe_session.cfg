SPECIFICATION ProbeSpec
CONSTANTS
  probe = probe
  i2c_reg = i2c_reg
  memory = memory
  i2c = i2c
  Cmds = {probe, i2c_reg}
  Cmd <- MCCmd
  cmd_list = cmd_list
  Null = Null
  MaxArgs = 2
  TokenChars <- MCTokens
  SpaceChars <- MCSpaces
  BufLen = 3
  Chars <- MCChars
  Lower <- MCLower
  Eol <- MCEol
  Erase <- MCErase
  Q = "q"
  Hash = "#"
  Startup <- MCStartup
  Does <- MCDoes
  MaxStarts = 1
  MaxQ = 1
  Target <- MCTarget
  Memory = memory
  Count <- MCCount
  Addresses = 8
  Digits <- MCDigits
  Hex <- MCHex
  Base = 2
  Top = 8
  Width <- MCWidth
  Inc = "+"
  Dec = "-"
  Close <- MCClose
  MaxDigits = 4
INVARIANTS ProbeTypeOK HookMeansProbe Aligned WrittenAsShown
CHECK_DEADLOCK FALSE
