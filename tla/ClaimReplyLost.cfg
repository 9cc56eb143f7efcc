SPECIFICATION Spec
CONSTANTS
  c1 = c1
  c2 = c2
  f1 = f1
  f2 = f2
  t1 = t1
  t2 = t2
  t3 = t3
  Correlators = {c1, c2}
  Fingerprints = {f1}
  Tokens = {t1, t2, t3}
  NoToken = NoToken
  Severities = {2, 3}
  MinSeverity = 3
  NumChannels = 1
  MaxAttempts = 3
  Faults <- LostClaimReply
INVARIANTS
  ClaimReturnsToken
