CONSTANTS
  Hubs = {h1, h2, h3}
  NoHub = NoHub
  TTL = 1
  MaxTime = 4
SYMMETRY Symmetry
SPECIFICATION Spec
INVARIANT LockReclaimable
CHECK_DEADLOCK FALSE
