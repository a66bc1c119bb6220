-------------------------- MODULE SolverReference --------------------------
(***************************************************************************)
(* The reference solver (solver/model.py, solver/objective.py): a          *)
(* constraint model over one start slot per chunk and one dropped flag per *)
(* task, every constraint under an assumption literal, and the cost that   *)
(* is minimised.  What CP-SAT may return is a set here: the placements     *)
(* that satisfy the constraints whose assumptions are in A.  Chunks are    *)
(* numbered as in EngineProblem; x is a function from chunks to starts.    *)
(***************************************************************************)
EXTENDS EngineProblem

ChunksOf(p, t) == {ChunkBase(p, t) + k : k \in DOMAIN p.tasks[t].chunks}
FirstOf(p, t) == ChunkBase(p, t) + 1
LastOf(p, t) == ChunkBase(p, t) + Len(p.tasks[t].chunks)
TaskOf(p, c) == CHOOSE t \in DOMAIN p.tasks : c \in ChunksOf(p, t)
Length(p, c) == p.tasks[TaskOf(p, c)].chunks[c - ChunkBase(p, TaskOf(p, c))]
End(p, x, c) == x[c] + Length(p, c)

-----------------------------------------------------------------------------
(* build_model: one operator per family of constraints, on the starts x of *)
(* the task's chunks.                                                      *)

Pinned(p, A, t, x) ==
  <<"pinned_at", t, 0>> \in A => \A s \in p.tasks[t].pin : x[FirstOf(p, t)] = s

GroupPolicy(p, A, t, x) ==
  \A c \in ChunksOf(p, t) :
    /\ (p.tasks[t].sameDay /\ <<"group_same_day", t, 0>> \in A) => Day(x[c]) = Day(x[FirstOf(p, t)])
    /\ (p.tasks[t].ordered /\ <<"group_ordered", t, 0>> \in A /\ c # LastOf(p, t)) =>
         End(p, x, c) <= x[c + 1]

HardDeadline(p, A, t, x) ==
  <<"hard_deadline", t, 0>> \in A =>
    \A d \in p.tasks[t].deadline : d.hard => \A c \in ChunksOf(p, t) : End(p, x, c) <= d.at

EarliestStart(p, A, t, x) ==
  <<"earliest_start", t, 0>> \in A => \A c \in ChunksOf(p, t) : x[c] >= p.tasks[t].earliest

\* Inside a window of the day, on one of its days, not across midnight.
Within(p, w, x, c) ==
  /\ Weekday(Date(p, x[c])) \in w.days
  /\ Tod(p, x[c]) >= w.from /\ Tod(p, x[c]) + Length(p, c) <= w.to
  /\ Tod(p, x[c]) + Length(p, c) <= SlotsPerDay

PreferredWindows(p, A, t, x) ==
  <<"hard_preferred_window", t, 0>> \in A =>
    \A w \in p.tasks[t].windows : w.hard => \A c \in ChunksOf(p, t) : Within(p, w, x, c)

AvailabilityWindows(p, A, t, x) ==
  (<<"availability_window", t, 0>> \in A /\ p.tasks[t].avail # {}) =>
    \A c \in ChunksOf(p, t) : \E w \in p.tasks[t].avail : w.from <= x[c] /\ End(p, x, c) <= w.to

\* An explicit placement overrides the floor the business hours are.
BusinessHours(p, A, t, x) ==
  (/\ <<"business_hours", t, 0>> \in A
   /\ p.tasks[t].pin = {} /\ p.tasks[t].avail = {}
   /\ \A w \in p.tasks[t].windows : ~w.hard) =>
     \A h \in p.hours : \A c \in ChunksOf(p, t) : Within(p, h, x, c)

\* A dependency binds while both of its ends are scheduled.
Dependencies(p, A, K, t, x) ==
  \A i \in DOMAIN p.tasks[t].deps :
    LET d == p.tasks[t].deps[i]
        binds == /\ d.hard /\ <<"hard_dependency", t, i>> \in A
                 /\ d.ref \in IF d.type \in {"after_task", "before_task"} THEN K ELSE DOMAIN p.events
    IN binds =>
         CASE d.type = "after_task" -> x[FirstOf(p, t)] >= End(p, x, LastOf(p, d.ref))
           [] d.type = "before_task" -> End(p, x, LastOf(p, t)) <= x[FirstOf(p, d.ref)]
           [] d.type = "after_event" -> x[FirstOf(p, t)] >= p.events[d.ref].start + p.events[d.ref].dur
           [] d.type = "before_event" -> End(p, x, LastOf(p, t)) <= p.events[d.ref].start

Disjoint(s, d, u, e) == s + d <= u \/ u + e <= s

NoOverlap(p, x) ==
  /\ \A c, o \in DOMAIN x : c < o => Disjoint(x[c], Length(p, c), x[o], Length(p, o))
  /\ \A e \in DOMAIN p.events :
       /\ \A c \in DOMAIN x : Disjoint(x[c], Length(p, c), p.events[e].start, p.events[e].dur)
       /\ \A f \in DOMAIN p.events :
            e # f => Disjoint(p.events[e].start, p.events[e].dur, p.events[f].start, p.events[f].dur)

-----------------------------------------------------------------------------
(* What the model admits.                                                  *)

Starts(p, t) ==
  {x \in [ChunksOf(p, t) -> 0..(p.horizon - 1)] : \A c \in ChunksOf(p, t) : End(p, x, c) <= p.horizon}

\* The starts that suit a scheduled task on its own.
Suitable(p, A, t) ==
  {x \in Starts(p, t) :
     /\ Pinned(p, A, t, x) /\ GroupPolicy(p, A, t, x) /\ HardDeadline(p, A, t, x)
     /\ EarliestStart(p, A, t, x) /\ PreferredWindows(p, A, t, x)
     /\ AvailabilityWindows(p, A, t, x) /\ BusinessHours(p, A, t, x)}

\* A dropped task's chunks float; the group policies bind them all the same.
Floats(p, A, t) == \E x \in Starts(p, t) : GroupPolicy(p, A, t, x)

\* The placements xs with one more task, of the starts ys, beside them.
Beside(p, xs, ys) == {z \in {x @@ y : x \in xs, y \in ys} : NoOverlap(p, z)}

\* The tasks K placed one after the other, each on starts that fit it.
Joined(p, K, fitting) ==
  LET joined[n \in 0..Len(p.tasks)] ==
        IF n = 0 THEN {x \in {<<>>} : NoOverlap(p, x)}
        ELSE IF n \in K THEN Beside(p, joined[n - 1], fitting[n]) ELSE joined[n - 1]
  IN joined[Len(p.tasks)]

\* Every placement of exactly the tasks K.
Placements(p, A, K) ==
  {x \in IF \A t \in (DOMAIN p.tasks) \ K : Floats(p, A, t)
         THEN Joined(p, K, [t \in K |-> Suitable(p, A, t)]) ELSE {} :
     \A t \in K : Dependencies(p, A, K, t, x)}

Mandatory(p, A) == {t \in DOMAIN p.tasks : p.tasks[t].must /\ <<"task_present", t, 0>> \in A}

\* The partitions the model admits, by what they keep.
Partitions(p, A) ==
  {K \in SUBSET (DOMAIN p.tasks) : Mandatory(p, A) \subseteq K /\ Placements(p, A, K) # {}}

Satisfiable(p, A) == Partitions(p, A) # {}

\* The literals of a task, of all of them.
TaskLiterals(p, t) ==
  {<<k, t, 0>> : k \in {"task_present", "pinned_at", "group_same_day", "group_ordered",
                        "hard_deadline", "earliest_start", "hard_preferred_window",
                        "availability_window", "business_hours"}}
    \cup {<<"hard_dependency", t, i>> : i \in DOMAIN p.tasks[t].deps}
Literals(p) == UNION {TaskLiterals(p, t) : t \in DOMAIN p.tasks}

-----------------------------------------------------------------------------
(* The terms of the objective (objective.py), for a placement x of K.      *)

DropPenalty(p, K) ==
  SumOver((DOMAIN p.tasks) \ K, LAMBDA t : p.weights.base + p.tasks[t].priority * p.weights.unit)

\* How late the task ends, by its last chunk or by any.
Late(p, t, x) ==
  LET d == CHOOSE e \in p.tasks[t].deadline : TRUE
      ends == {End(p, x, c) : c \in IF p.tasks[t].ordered THEN {LastOf(p, t)} ELSE ChunksOf(p, t)}
  IN MaxOf({MaxOf(ends) - d.at, 0})

Lateness(p, K, x) ==
  SumOver({t \in K : \E d \in p.tasks[t].deadline : ~d.hard}, LAMBDA t :
    Late(p, t, x) * (CHOOSE e \in p.tasks[t].deadline : TRUE).penalty)

\* score_at_minute_of_day: 0 in the peak, linear to 100 away from it.
Distance(curve, m) ==
  CASE curve.peakStart <= m /\ m <= curve.peakEnd -> 0
    [] m < curve.peakStart -> PyRound((curve.peakStart - m) * 100, curve.peakStart)
    [] m > curve.peakEnd /\ (m >= curve.falloffEnd \/ curve.falloffEnd <= curve.peakEnd) -> 100
    [] OTHER -> PyRound((m - curve.peakEnd) * 100, curve.falloffEnd - curve.peakEnd)

\* The chunk's slots and the edge it ends on.
Fit(p, x) ==
  p.weights.fit * SumOver({c \in DOMAIN x : p.tasks[TaskOf(p, c)].ctx # 0}, LAMBDA c :
    LET curve == p.ctxs[p.tasks[TaskOf(p, c)].ctx].curve  d == Length(p, c)
    IN IF Tod(p, x[c]) + d > SlotsPerDay THEN 100 * d
       ELSE SumOver(0..(d - 1), LAMBDA k : Distance(curve, Tod(p, x[c]) + k))
              + Distance(curve, Tod(p, x[c]) + d))

Churn(p, x) ==
  SumOver({c \in DOMAIN x : \E k \in DOMAIN p.tasks[TaskOf(p, c)].prev :
                              /\ ChunkBase(p, TaskOf(p, c)) + k = c
                              /\ p.tasks[TaskOf(p, c)].prev[k] \in 0..(p.horizon - 1)},
    LAMBDA c : LET t == p.tasks[TaskOf(p, c)]
                   move == x[c] - t.prev[c - ChunkBase(p, TaskOf(p, c))]
               IN (IF move < 0 THEN -move ELSE move) * p.weights.churn * t.churn)

\* Slots of [from, to) a chunk covers.
OverlapWith(p, x, c, from, to) ==
  MaxOf({0, MinOf({End(p, x, c), to}) - MaxOf({x[c], from})})

\* What the daily caps cost on some days of the window.
CapsOn(p, x, days) ==
  SumOver({cx \in DOMAIN p.ctxs : p.ctxs[cx].cap >= 0} \X days, LAMBDA q :
    LET used == SumOver({c \in DOMAIN x : p.tasks[TaskOf(p, c)].ctx = q[1]},
                  LAMBDA c : OverlapWith(p, x, c, q[2] * SlotsPerDay, (q[2] + 1) * SlotsPerDay))
    IN MaxOf({0, used - p.ctxs[q[1]].cap}) * p.ctxs[q[1]].capPenalty)

\* Only whole days are capped: what is left of the window after them is not.
DailyCap(p, x) == CapsOn(p, x, WholeDays(p.horizon))

StreakCap(p, x) ==
  SumOver({c \in DOMAIN x : p.tasks[TaskOf(p, c)].ctx # 0}, LAMBDA c :
    LET cx == p.ctxs[p.tasks[TaskOf(p, c)].ctx]
    IN IF cx.streak < 0 THEN 0 ELSE MaxOf({0, Length(p, c) - cx.streak}) * cx.streakPenalty)

\* The nearest soft window, by days and by time of day.
PreferredMiss(p, x) ==
  SumOver({c \in DOMAIN x : \E w \in p.tasks[TaskOf(p, c)].windows : ~w.hard}, LAMBDA c :
    LET soft == {w \in p.tasks[TaskOf(p, c)].windows : ~w.hard}
        count == MaxOf({p.horizon \div SlotsPerDay, 1})
        today == Date(p, x[c]) - Date(p, 0)
        onDay(w) == {e \in 0..(count - 1) : Weekday(Date(p, e * SlotsPerDay)) \in w.days}
        Away(w) == IF Weekday(Date(p, x[c])) \in w.days THEN 0
                   ELSE MinOf(IF onDay(w) = {} THEN {count} ELSE {MaxOf({today - e, e - today}) : e \in onDay(w)})
        Off(w) == MaxOf({0, w.from - Tod(p, x[c])}) + MaxOf({0, Tod(p, x[c]) + Length(p, c) - w.to})
    IN IF Tod(p, x[c]) + Length(p, c) > SlotsPerDay
       THEN p.weights.dayMiss * count + p.weights.timeMiss * SlotsPerDay
       ELSE MinOf({p.weights.dayMiss * Away(w) + p.weights.timeMiss * Off(w) : w \in soft}))

\* The whole objective but the drops, which a partition fixes.
PlacementCost(p, K, x) ==
  Lateness(p, K, x) + Fit(p, x) + Churn(p, x) + DailyCap(p, x) + StreakCap(p, x) + PreferredMiss(p, x)
=============================================================================
