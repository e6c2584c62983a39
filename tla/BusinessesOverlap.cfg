SPECIFICATION Spec
CONSTANTS
  None = None
  alice = alice  root = root  b1 = b1  b2 = b2  n1 = n1  n2 = n2
  r1 = r1  r2 = r2
  Users = {alice}
  Admins = {root}
  Bids = {b1, b2}
  Nipts = {n1, n2}
  Requests = {r1, r2}
SYMMETRY Twins
INVARIANTS
  TypeOK
  NiptUnique
  RowsCoherent
  MailFollowsDecision
PROPERTIES
  DecisionsStand
  KeepsPromise
