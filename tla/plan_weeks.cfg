SPECIFICATION FairSpec
CONSTANTS
  p1 = p1  p2 = p2  p3 = p3
  w1 = w1  w2 = w2
  za = za  zb = zb
  None = None
  WeekOf <- MCWeekOf
  Plan = {p1, p2, p3}
  Week = {w1, w2}
  Zone = {za, zb}
  Resolve = {r1, r2}
  Commit = {}
  Patch = {u1, u2}
CHECK_DEADLOCK FALSE
INVARIANTS PendingUnique
PROPERTIES EventuallyOnePlanPerWeek
