SPECIFICATION FairSpec
CONSTANTS
  None = None
  alice = alice  b1 = b1  j1 = j1  r1 = r1  r2 = r2
  Bids = {b1}  Users = {alice}  Owner <- OwnedByAlice  Jids = {j1}  Requests = {r1, r2}
  Forms <- MixedForms  Days = {1, 2}  PublishDays = 1  MaxTime = 1  MaxFeatured = 2
INVARIANTS
  TypeOK
  JobsCoherent
  SalariesValid
  JobsNeedVetting
PROPERTIES
  DueJobsExpire
  DeletedIsFrozen
  PromotionKept
  PublicationDateKept
