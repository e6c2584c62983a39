SPECIFICATION Spec
CONSTANTS
  Tabs = {t1, t2}
  Slots = {s1, s2}
  MaxPending = 2
  MaxLogouts = 1
  Families = {f1, f2}
  Rids = {r1, r2}
  None = None
SYMMETRY Symmetry
INVARIANTS TypeOK StoredIsCurrent RefusedForCause
PROPERTIES LateAnswerIgnored
