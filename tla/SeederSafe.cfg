SPECIFICATION Spec
CONSTANTS
  a = a
  b = b
  c = c
  Metas = {a, b, c}
  Roots <- MCBelowRoots
  Children <- MCBelow
  Options <- MCSafe
  Found <- MCFound
  MayFail = {"render", "delete", "read"}
  MaxSignals = 2
INVARIANTS TypeOK StopsSuffice NoLocksLeft EndedMeansDone
CHECK_DEADLOCK FALSE
