SPECIFICATION Spec
CONSTANTS
  Movies = {m1}
  Series = {x1}
  Seasons = {n1}
  Episodes = {e1, e2}
  Owners = {m1, e1, e2}
  Sources = {s1, s2}
  Segments <- MCSegments
  Uploads = {c1, c2}
  Edits = {d1, d2}
  Visitors = {v1}
  Renditions = 1
  MaxFaults = 0
  None = None
SYMMETRY Symmetry
CHECK_DEADLOCK FALSE

INVARIANT IInv
INVARIANT PublishedIsBacked
INVARIANT PublishedWhenReady
INVARIANT OfferIsBacked
