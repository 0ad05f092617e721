SPECIFICATION FairSpec
CONSTANTS
  a = a  b = b  P = P  Q = Q  blank = blank  img = img
  Threads = {a, b}
  Processes = {P, Q}
  RoMax = 1
  MaxConns = 4
  Programs <- MCPrograms
  MayFail = {"pool", "open", "encode", "write", "commit"}
  None = none
  Tiles = {1, 2}
  Images = {blank, img}
  Blank = {blank}
  High = {2}
  MaxCalls = 3
INVARIANTS TypeOK ConnectionsExclusive NothingLeaks
PROPERTIES StoreSpec CallsEnd
CHECK_DEADLOCK FALSE
