SPECIFICATION FairSpec
CONSTANTS
  Users = {u1}
  Txns = {t1}
  SubIds = {s1}
  Refs = {r1, r2}
  Requests = {q1}
  Deliveries = {d1, d2}
  StkTimeout = 1
  Period = 1
  MaxTime = 3
  MaxFaults = 0
  None = None

CHECK_DEADLOCK FALSE

PROPERTY EveryPaymentResolves
