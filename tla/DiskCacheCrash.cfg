SPECIFICATION Spec
CONSTANTS
  p1 = p1
  p2 = p2
  p3 = p3
  ta = ta
  tb = tb
  i1 = i1
  i2 = i2
  i3 = i3
  i4 = i4
  i5 = i5
  i6 = i6
  Blank = Blank
  None = None
  Link = Link
  Procs = {p1, p2}
  Tiles = {ta}
  Inodes = {i1, i2, i3, i4}
  Symlinks = FALSE
  Retries = 0
  Exclusive = TRUE
  Operations = {"set", "get", "delete"}
  Images <- MCImages
  MayFail = {}
  MaxCrashes = 1
SYMMETRY Symmetry
PROPERTY ErrorsOnlyWhileWriting
CHECK_DEADLOCK FALSE
