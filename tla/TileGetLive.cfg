SPECIFICATION FairSpec
CONSTANTS
  p1 = p1
  p2 = p2
  p3 = p3
  ta = ta
  tb = tb
  tc = tc
  mab = mab
  mc = mc
  Procs = {p1, p2, p3}
  Tiles = {ta, tc}
  Metas = {mab, mc}
  MetaSeq <- MCSingles
  Sourced = {mab}
  NonBlocking = {p3}
  AutoExpire = 1
  MultiSet = TRUE
  BlankTiles = TRUE
  MayFail = {}
  MaxTime = 3
  MaxCrashes = 1
  MaxCleanups = 0
INVARIANT AnsweredMeansCached
PROPERTY RequestsEnd
CHECK_DEADLOCK FALSE
