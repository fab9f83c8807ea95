\* One mail of two kinds, two workers, one crash, three attempts.
CONSTANTS
  m1 = m1  w1 = w1  w2 = w2
  Mails = {m1}
  Contents <- OtpOrGeneric
  Workers = {w1, w2}
  NoWorker = NoWorker
  MaxAttempts = 3
  Backoff = 1
  MaxStalled = 1
  MaxCrashes = 1
SPECIFICATION FairSpec
INVARIANTS
  CopiesBounded
  OutageSurvived
  MailIsKept
PROPERTIES
  QueuedIsSettled
