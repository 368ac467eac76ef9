SPECIFICATION Spec
CONSTANTS
  Users = {u1}
  Txns = {t1, t2}
  SubIds = {s1, s2}
  Refs = {r1, r2}
  Requests = {q1, q2}
  Deliveries = {d1, d2}
  StkTimeout = 1
  Period = 1
  MaxTime = 3
  MaxFaults = 0
  None = None
SYMMETRY Symmetry
CHECK_DEADLOCK FALSE

INVARIANT AckIsSubscribed
