SPECIFICATION Spec
CONSTANTS
  p1 = p1
  p2 = p2
  p3 = p3
  ta = ta
  tb = tb
  tc = tc
  mab = mab
  mc = mc
  Procs = {p1, p2, p3}
  Tiles = {ta, tb}
  Metas = {mab}
  MetaSeq <- MCOneMeta
  Sourced = {mab}
  NonBlocking = {}
  AutoExpire = 1
  MultiSet = FALSE
  BlankTiles = FALSE
  MayFail = {"get", "delete", "lock", "source", "set"}
  MaxTime = 3
  MaxCrashes = 0
  MaxCleanups = 2
SYMMETRY Symmetry
INVARIANTS TypeOK ExclusiveWithoutCleanup NoLockOutlivesItsOwners OneMoreRendererPerCleanup
PROPERTY FillSpec
