SPECIFICATION FairSpec
CONSTANTS
  a = a
  b = b
  c = c
  Metas = {a, b}
  Roots <- MCBesideRoots
  Children <- MCBeside
  Options <- MCLive
  Found <- MCFound
  MayFail = {"render"}
  MaxSignals = 1
PROPERTY RunEnds
