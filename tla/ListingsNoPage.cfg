SPECIFICATION Spec
CONSTANTS
  None = None
  alice = alice  b1 = b1  j1 = j1  r1 = r1  r2 = r2
  Bids = {b1}
  Users = {alice}
  Owner <- OwnedByAlice
  Jids = {j1}
  Requests = {r1}
  Forms <- DatedForms
  Days = {1}
  PublishDays = 1
  MaxTime = 1
  MaxFeatured = 2
INVARIANTS
  ListedHasPage
