SPECIFICATION Spec
CONSTANTS
  Users = {u1, u2}
  Emails = {e1}
  Tokens = {t1, t2, t3}
  Browsers = {b1, b2}
  Calls = {c1, c2}
  MaxFaults = 0
  None = None
SYMMETRY Symmetry
CHECK_DEADLOCK FALSE

INVARIANT EndedForGood
