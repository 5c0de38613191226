SPECIFICATION Spec
CONSTANTS
  Browsers = {b1, b2}
  Requests = {r1, r2}
  Passkeys = {p1, p2}
  Tokens = {t1}
  CodesPerSet = 1
  MaxFailures = 1
  MaxVersion = 2
  MaxSets = 2
  MaxChallenges = 1
  NoSession = NoSession
SYMMETRY Symmetric
INVARIANT LiveKnowsPassword
INVARIANT MfaNotSkipped
PROPERTY SecretUsedOnce
PROPERTY AdminKeepsPasskey
CHECK_DEADLOCK FALSE
