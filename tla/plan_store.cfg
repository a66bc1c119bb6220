SPECIFICATION Spec
CONSTANTS
  p1 = p1  p2 = p2  p3 = p3
  w1 = w1  w2 = w2
  za = za  zb = zb
  None = None
  WeekOf <- MCWeekOf
  Plan = {p1, p2}
  Week = {w1}
  Zone = {za}
  Resolve = {r1, r2}
  Commit = {c1, c2}
  Patch = {}
SYMMETRY MCSymmetry
CHECK_DEADLOCK FALSE
INVARIANTS AcceptOnce ClaimIsOwned
PROPERTIES ClaimHeld BookSpec
