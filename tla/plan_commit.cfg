SPECIFICATION OfferedSpec
CONSTANTS
  p1 = p1  w1 = w1  za = za  k1 = k1  k2 = k2  t1 = t1  t2 = t2  m1 = m1
  None = None
  Plan = {p1}
  Week = {w1}
  Zone = {za}
  WeekOf <- MCWeekOf
  Resolve = {}
  Commit = {c1, c2}
  Patch = {}
  Chunk = {k1, k2}
  Task = {t1, t2, m1}
  Meeting = {m1}
  TaskOf <- MCTaskOf
  Slot <- MCSlot
  Window <- MCWindow
  Sched <- MCSched
  MeetAt <- MCMeetAt
  Dropped <- MCDropped
  Event = {e1, e2, e3}
  MaxEdits = 1
SYMMETRY MCSymmetry
CHECK_DEADLOCK FALSE
PROPERTIES NeverMintsTwice NoChunkLost MarkMeansApplied
