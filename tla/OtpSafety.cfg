\* Two generations, two verifications and a status question about one address,
\* with expiry and cleanup.
CONSTANTS
  k1 = k1  c1 = c1  c2 = c2  g1 = g1  g2 = g2  v1 = v1  v2 = v2  a1 = a1
  Keys = {k1}
  Codes = {c1, c2}
  Generators = {g1, g2}
  Verifiers = {v1, v2}
  KeyOf <- SameKey
  Askers = {a1}
  AskKey <- SameAskKey
  MaxAttempts = 1
  Expiry = 1
  Cooldown = 1
  MaxTime = 2
  CleanupScheduled = TRUE
SPECIFICATION StatusSpec
INVARIANTS
  OtpInvariant
  NoReuseAfterAnswer
  SupersededRejected
  PendingOverlap
  GuessesBounded
  LockedOut
  CooldownRespected
PROPERTY PendingCanResend
ACTION_CONSTRAINT LateQuestion
SYMMETRY Symmetry
