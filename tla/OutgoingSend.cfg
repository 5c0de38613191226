SPECIFICATION MCSpec
CONSTANTS
  c1 = c1
  y1 = y1
  s1 = s1
  s2 = s2
  u1 = u1
  NoDraft = NoDraft
  Mime = Mime
  Composed = {c1}
  Replies = {y1}
  Senders = {s1, s2}
  Uploads = {u1}
  MaxSaves = 1
  MaxDrafts = 2
  MaxMessages = 2
  Versions = {0, 1}
  Stored = 2
  MaxCallers <- MCCallers
  Sizes <- MCSizes
  Targets = {s1, s2}
  NoTarget = NoTarget
  MaxTexts = 2
SYMMETRY Requests
INVARIANT SentOnce
INVARIANT AcceptedIsRecorded
INVARIANT ArchiveIsFaithful
INVARIANT NothingForgotten
INVARIANT OneDraftPerMessage
PROPERTY ClosedIsSaved
PROPERTY SentIsApproved
PROPERTY SentIsShown
CHECK_DEADLOCK FALSE
