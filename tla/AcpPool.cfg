CONSTANTS
  p1 = p1
  p2 = p2
  r1 = r1
  r2 = r2
  r3 = r3
  Pools = {p1, p2}
  Requests = {r1, r2, r3}
  None = None
  PoolOf <- Pool
  KindOf <- Kind
  Limit = 1
  Stoppable = {p1}
  Mortal = {p2}
  Failing <- MayFail
  Overlapping = {}
SPECIFICATION LiveSpec
INVARIANTS
  TypeOK
  SlotsExact
  
PROPERTY RequestsEnd
CHECK_DEADLOCK FALSE
