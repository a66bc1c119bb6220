SPECIFICATION Spec
CONSTANTS
  SlotsPerDay = 4
  Wires <- WiresValue
  Pass1 <- SelectTasks
  Detour <- Resolve
  Pass2 <- Place
  PackNodeCap = 3
  Iterations = 20
  SelectCaps = {0, 4, 500}
  TestCaps = {2, 100}
  NodeCaps = {4, 1000}
  SubsolveCap = 6
  FreedMost = 2
  MaxRounds = 4
  MaxSweeps = 3
  MaxSubsolves = 3
  Sessions = {TRUE, FALSE}
  LeafFaults = {"fail", "lie"}
  Quitting = {TRUE, FALSE}
  Modes = {"container", "worker", "fallback"}
  Attempts = 2
  Faults = {"engine", "slow", "fetch"}
  Resolves <- Readings
INVARIANT ServedIsLegal
INVARIANT CertifiedIsBest
INVARIANT CoreExplains
INVARIANT NeverContradicts
INVARIANT LeavesNeverMatter
INVARIANT PlanFitsTheWeek
INVARIANT MeetingsMoveToFreeTime
INVARIANT SearchesSound
CHECK_DEADLOCK FALSE
