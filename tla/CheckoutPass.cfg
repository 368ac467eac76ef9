SPECIFICATION FairSpec
CONSTANTS
  Txns = {t1, t2}
  SubscribePages = {v1}
  ReturnPages = {v2}
  BillingPages = {b1}
  Slots = {k1, k2}
  None = None
CHECK_DEADLOCK FALSE

INVARIANT SuccessIsBought
INVARIANT FailureFreesUser
INVARIANT ReturnNeverStuck
INVARIANT BillingFollowsCheckout
INVARIANT IInv
PROPERTY PageHears
