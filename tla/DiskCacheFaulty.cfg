SPECIFICATION FairSpec
CONSTANTS
  p1 = p1
  p2 = p2
  p3 = p3
  ta = ta
  tb = tb
  i1 = i1
  i2 = i2
  i3 = i3
  i4 = i4
  i5 = i5
  i6 = i6
  Blank = Blank
  None = None
  Link = Link
  Procs = {p1, p2}
  Tiles = {ta, tb}
  Inodes = {i1, i2, i3, i4}
  Symlinks = TRUE
  Retries = 1
  Exclusive = TRUE
  Operations = {"set"}
  Images <- MCBlankBeside
  MayFail = {"mkdir", "remove", "lock", "write", "flush", "symlink"}
  MaxCrashes = 1
PROPERTIES CopiedTilesAreWhole SetsEnd
CHECK_DEADLOCK FALSE
