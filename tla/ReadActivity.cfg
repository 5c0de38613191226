SPECIFICATION Spec
CONSTANTS
  m1 = m1
  m2 = m2
  m3 = m3
  b1 = b1
  b2 = b2
  t1 = t1
  t2 = t2
  Messages = {m1, m2, m3}
  Mailboxes = {b1, b2}
  Revocable = {b1}
  Sent = {m1, m2, m3}
  Markers = {k1, k2}
  Undoers = {u1}
  MaxVersion <- FewChanges
  ThreadOf <- TwoThreads
  MailboxOf <- TwoMailboxes
SYMMETRY Slots
INVARIANT OneRecordPerMarking
PROPERTY UndoOnlyItsOwn
CHECK_DEADLOCK FALSE
