SPECIFICATION ApplySpec
CONSTANTS
  None = None
  alice = alice  bob = bob   b1 = b1  j1 = j1  r1 = r1
  a1 = a1  a2 = a2  c1 = c1  c2 = c2
  Bids = {b1}
  Users = {alice, bob}
  Owner <- OwnedByAlice
  Jids = {j1}
  Requests = {r1}
  Forms <- Bodies
  Days = {}
  PublishDays = 1
  MaxTime = 1
  MaxFeatured = 0
  Aids = {a1, a2}
  Calls = {c1, c2}
SYMMETRY Symmetric
INVARIANTS
  ApplyTypeOK
  OneApplication
  ToldOnce
PROPERTIES
  AppliedJobsStayDated
