SPECIFICATION MCSpec
CONSTANTS
  Users = {u1, u2, u3}
  Operators = {o1, o2}
  Requests = {r1, r2}
  MaxInvitations = 2
  NoMember = NoMember
  NoInvitation = NoInvitation
  Calls = {c1, c2}
  MaxRows = 2
  MaxTokens = 3
SYMMETRY Symmetric
INVARIANT SomebodyRemains
INVARIANT VerifiedWasPublished
INVARIANT ShownIsInForce
PROPERTY InvitationsSettle
PROPERTY AuthorityIsCurrent
CHECK_DEADLOCK FALSE
