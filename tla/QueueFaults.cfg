SPECIFICATION Spec
CONSTANTS
  None = None
  m1 = m1  m2 = m2  m3 = m3  w1 = w1  w2 = w2
  Mails = {m1, m2, m3}
  Workers = {w1, w2}
  MaxAttempts = 2
  BatchSize = 2
  BackoffBase = 1
  BackoffMax = 2
  MaxFaults = 2
SYMMETRY Twins
INVARIANTS
  TypeOK
  Exclusive
  AttemptsBounded
  DeliveriesBounded
  StrandedByFaults
PROPERTIES
  ImplementsOutbox
