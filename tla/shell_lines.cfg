SPECIFICATION ShellSpec
CONSTANTS
  help = help
  break = break
  quit = quit
  probe = probe
  Cmds = {help, break, quit, probe}
  Cmd <- MCCmd
  cmd_list = cmd_list
  Null = Null
  MaxArgs = 2
  TokenChars <- MCTokens
  SpaceChars <- MCSpaces
  BufLen = 6
  Chars <- MCChars
  Lower <- MCLower
  Eol <- MCEol
  Erase <- MCErase
  Q = "q"
  Hash = "#"
  Startup <- MCStartup
  Does <- MCDoes
  MaxStarts = 2
  MaxQ = 4
INVARIANTS ShellTypeOK LineIsShown RunsWhatWasTyped NoLineLost SessionOwnsInput ThirdQuits StartupListedOnce
CHECK_DEADLOCK FALSE
