SPECIFICATION Spec
CONSTANTS
  None = None
  u1 = u1  u2 = u2  s1 = s1  s2 = s2  s3 = s3  t1 = t1  t2 = t2  r1 = r1  r2 = r2
  old = old  new = new
  Uids = {u1, u2}
  Emails = {"a@x"}
  AdminEmail = "a@x"
  Passwords = {old}
  Sids = {s1}
  Tids = {t1, t2}
  Requests = {r1, r2}
SYMMETRY AccountsSymmetric
INVARIANTS
  TypeOK
  OneAccountPerEmail
  VerifiedByLink
  OneLink
PROPERTY
  StaysVerified
