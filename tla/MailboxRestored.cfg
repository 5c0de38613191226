SPECIFICATION MCSpec
CONSTANTS
  p1 = p1
  p2 = p2
  d1 = d1
  d2 = d2
  m1 = m1
  w1 = w1
  y1 = y1
  Creation = Creation
  Patches = {p1}
  Deletions = {d1, d2}
  Incoming = {m1}
  Composed = {}
  Replies = {}
INVARIANT LostOnlyWhileDeleting
CHECK_DEADLOCK FALSE
