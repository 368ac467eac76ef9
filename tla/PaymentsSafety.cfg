SPECIFICATION Spec
CONSTANTS
  Users = {u1, u2}
  Txns = {t1, t2}
  SubIds = {s1, s2}
  Refs = {r1, r2}
  Requests = {q1, q2}
  Deliveries = {d1, d2}
  StkTimeout = 1
  Period = 1
  MaxTime = 2
  MaxFaults = 1
  None = None
SYMMETRY Symmetry
CHECK_DEADLOCK FALSE

INVARIANT OneSubscriptionPerPayment
INVARIANT SubscriptionIsPaidFor
INVARIANT SucceededIsSubscribed
INVARIANT TimedOutIsOverdue
INVARIANT LinkFailsOnlyIfDeclined
INVARIANT BankAckIsSubscribed
INVARIANT PendingBounded
INVARIANT EntitlementViewsAgree
INVARIANT SuccessOverwritten
INVARIANT IInv
PROPERTY RefinesLedger
PROPERTY RefinesLife
