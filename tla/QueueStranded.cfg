SPECIFICATION FairSpec
CONSTANTS
  None = None
  m1 = m1  m2 = m2  m3 = m3  w1 = w1  w2 = w2
  Mails = {m1}
  Workers = {w1}
  MaxAttempts = 2
  BatchSize = 1
  BackoffBase = 1
  BackoffMax = 2
  MaxFaults = 1
PROPERTIES
  EventuallySettled
