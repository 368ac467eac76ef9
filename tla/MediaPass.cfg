SPECIFICATION FairSpec
CONSTANTS
  Owners = {o1}
  s1 = s1
  s2 = s2
  Sources <- MCSources
  Segments <- MCSegments
  Uploads = {c1, c2}
  Renditions = 2
  MaxFaults = 3
  None = None
CHECK_DEADLOCK FALSE

INVARIANT MediaInv
INVARIANT ReadyIsComplete
INVARIANT SettledIsWhole
INVARIANT UndisturbedIsExact
INVARIANT PendingIsAtWork
PROPERTY TranscodeSettles
