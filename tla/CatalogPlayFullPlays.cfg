SPECIFICATION Spec
CONSTANTS
  Movies = {m1}
  Series = {x1}
  Seasons = {n1}
  Episodes = {e1}
  Owners = {m1, e1}
  Sources = {s1, s2}
  Segments <- MCSegments
  Uploads = {c1}
  Edits = {d1}
  Visitors = {v1}
  Renditions = 1
  MaxFaults = 0
  None = None
CHECK_DEADLOCK FALSE

PROPERTY PlayFullPlays
