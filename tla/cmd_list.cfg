SPECIFICATION Spec
CONSTANTS
  map = map
  loop = loop
  lsm = lsm
  quit = quit
  clash = clash
  bad = bad
  Cmds = {map, loop, lsm, quit, clash, bad}
  Cmd <- MCCmd
  cmd_list = cmd_list
  Null = Null
  MaxArgs = 10
INVARIANTS TypeOK WalkEnds OneAnswer LinksAgree
PROPERTY RegistrySpec
