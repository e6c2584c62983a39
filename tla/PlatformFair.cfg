SPECIFICATION PlatformFairSpec
CONSTANTS
  None = None
  alice = alice  b1 = b1  j1 = j1  r1 = r1  m1 = m1  w1 = w1
  Bids = {b1}
  Users = {alice}
  Owner <- OwnedByAlice
  Jids = {j1}
  Requests = {r1}
  Forms <- PlainForms
  Days = {1}
  PublishDays = 1
  MaxTime = 1
  MaxFeatured = 2
  Mails = {m1}
  Workers = {w1}
  MaxAttempts = 2
  BatchSize = 1
  BackoffBase = 1
  BackoffMax = 2
  MaxFaults = 1
PROPERTIES
  ImplementsParts
  MailSettles
