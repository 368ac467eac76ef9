SPECIFICATION FairSpec
CONSTANTS
  Txns = {t1}
  SubscribePages = {v1}
  ReturnPages = {}
  BillingPages = {}
  Slots = {k1, k2}
  None = None
CHECK_DEADLOCK FALSE

PROPERTY SubscribePageMovesOn
