SPECIFICATION MCSpec
CONSTANTS
  d1 = d1
  d2 = d2
  d3 = d3
  r1 = r1
  r2 = r2
  id1 = id1
  m1 = m1
  NoOne = NoOne
  NoMailbox = NoMailbox
  NoRaw = NoRaw
  Deliveries = {d1, d2, d3}
  Replays = {p1}
  Raws = {r1, r2}
  MessageIds = {id1}
  Mailboxes = {m1}
  Relaying = {d1, d2}
  RawOf <- MCRawOf
  MailboxOf <- OneMailbox
  MessageIdOf <- SharedMessageId
INVARIANT SecondRelayIsExplained
INVARIANT AcknowledgedIsKept
INVARIANT StoredIsComplete
PROPERTY LedgerKeepsDuties
PROPERTY StaleClaimsReopen
