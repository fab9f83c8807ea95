\* Two overlapping verifications of one OTP.
CONSTANTS
  k1 = k1  c1 = c1  c2 = c2  g1 = g1  g2 = g2  v1 = v1  v2 = v2  a1 = a1
  Keys = {k1}
  Codes = {c1, c2}
  Generators = {g1}
  Verifiers = {v1, v2}
  KeyOf <- SameKey
  Askers = {}
  AskKey <- SameAskKey
  MaxAttempts = 2
  Expiry = 1
  Cooldown = 1
  MaxTime = 1
  CleanupScheduled = FALSE
SPECIFICATION StatusSpec
INVARIANT SingleUse
