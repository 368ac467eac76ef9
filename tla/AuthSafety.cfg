SPECIFICATION Spec
CONSTANTS
  Users = {u1, u2}
  Emails = {e1}
  Tokens = {t1, t2, t3}
  Browsers = {b1, b2}
  Calls = {c1, c2}
  MaxFaults = 1
  None = None
SYMMETRY Symmetry
CONSTRAINT OneExpires
CHECK_DEADLOCK FALSE

INVARIANT IInv
INVARIANT OneAccountPerEmail
INVARIANT OneLivePerFamily
INVARIANT EndedIsOver
INVARIANT NoFalseAlarm
INVARIANT HonestSession
PROPERTY DeadStaysDead
