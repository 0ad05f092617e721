SPECIFICATION FairSpec
CONSTANTS
  a = a
  b = b
  c = c
  Metas = {a, b}
  Roots <- MCBesideRoots
  Children <- MCBeside
  Options <- MCTwoProcesses
  Found <- MCFound
  MayFail = {}
  MaxSignals = 1
PROPERTY RunEnds
CHECK_DEADLOCK FALSE
