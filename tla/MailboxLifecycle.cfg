SPECIFICATION MCSpec
CONSTANTS
  p1 = p1
  p2 = p2
  d1 = d1
  d2 = d2
  m1 = m1
  w1 = w1
  y1 = y1
  Creation = Creation
  Patches = {p1, p2}
  Deletions = {d1}
  Incoming = {m1}
  Composed = {w1}
  Replies = {y1}
SYMMETRY Slots
INVARIANT DeletingIsArchived
INVARIANT RuleFollowsMailbox
INVARIANT LostOnlyWhileDeleting
INVARIANT OnlyRepliesOutlive
PROPERTY RestoreReturnsPrior
CHECK_DEADLOCK FALSE
