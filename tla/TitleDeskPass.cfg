SPECIFICATION Spec
CONSTANTS
  Seasons = {s1, s2}
  Numbers = {i1}
  Slots = {k1, k2}
  None = None
SYMMETRY Symmetry
CHECK_DEADLOCK FALSE

INVARIANT IInv
INVARIANT FiledWhereTouched
INVARIANT DeskIsCurrent
