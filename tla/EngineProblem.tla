--------------------------- MODULE EngineProblem ---------------------------
(***************************************************************************)
(* The solver engine's input and what it bakes from it                     *)
(* (engine/substrate.ts).  Time is counted in slots from the window's      *)
(* start, which may be any slot of a day: a "day" of the daily caps and of *)
(* same-day groups is a day's length of slots from there, the time of day  *)
(* and the week day are those of the calendar.  An optional field of the   *)
(* wire problem is a set of at most one value, a previous placement a      *)
(* function from the chunk numbers it covers.                              *)
(*                                                                         *)
(* wire task:  chunks (lengths), pin, earliest, deadline ([at, hard,       *)
(*   penalty]), windows ([days, from, to, hard]), avail ([from, to]), prev,*)
(*   deps (<<[type, ref, hard]>>), ctx, must, priority, churn, sameDay,    *)
(*   ordered.                                                              *)
(* wire problem: origin (slots from a first midnight to the window),       *)
(*   horizon (its length), tasks, events (<<[start, dur]>>), ctxs, hours,  *)
(*   weights.                                                              *)
(***************************************************************************)
EXTENDS Integers, Sequences, FiniteSets, FiniteSetsExt, SequencesExt

CONSTANTS
  SlotsPerDay,
  Wires     \* the problems a resolve may send, a sequence

VARIABLE wire   \* the number of the one that is being solved

ASSUME ClockAssumption == SlotsPerDay \in Nat \ {0}

Infinity == 1000000

MaxOf(S) == Max(S)
MinOf(S) == Min(S)
SumOver(S, op(_)) == MapThenSumSet(op, S)
Over(n, limit) == IF n > limit THEN n - limit ELSE 0
Gap(a, b) == IF a < b THEN b - a ELSE a - b
SortedBy(S, before(_, _)) ==
  [i \in 1..Cardinality(S) |-> CHOOSE x \in S : Cardinality({y \in S : y # x /\ before(y, x)}) = i - 1]
Sorted(S) == SortedBy(S, LAMBDA a, c : a < c)
Elements(seq) == {seq[i] : i \in DOMAIN seq}

Span(s, d) == s..(s + d - 1)

\* The day's length of slots, counted from the window's start, that s lies in;
\* the whole ones of a window of h slots.
Day(s) == s \div SlotsPerDay
WholeDays(h) == 0..(Day(h) - 1)

\* What the clock and the calendar say at slot s of the window of p.
Tod(p, s) == (p.origin + s) % SlotsPerDay
Date(p, s) == (p.origin + s) \div SlotsPerDay
Weekday(d) == d % 7
CrossesMidnight(p, s, d) == Tod(p, s) + d > SlotsPerDay

\* The wire format (solver/schema.py), as far as what a problem means rests on it.
IsProblem(p) ==
  /\ {"origin", "horizon", "tasks", "events"} \subseteq DOMAIN p
  /\ p.origin \in Nat /\ p.horizon \in Nat \ {0}
  /\ Len(p.tasks) \in Nat /\ DOMAIN p.tasks = 1..Len(p.tasks)
  /\ \A t \in DOMAIN p.tasks :
       /\ {"deps", "must"} \subseteq DOMAIN p.tasks[t]
       /\ p.tasks[t].chunks \in Seq(Nat \ {0}) \ {<<>>} /\ p.tasks[t].earliest \in Int
       /\ p.tasks[t].pin \subseteq Int /\ \A a, b \in p.tasks[t].pin : a = b
       /\ \A d \in p.tasks[t].deadline : d.at \in Int
       /\ \A d, e \in p.tasks[t].deadline : d = e

ASSUME WiresAssumption == \A i \in DOMAIN Wires : IsProblem(Wires[i])

-----------------------------------------------------------------------------
(* How well a time of day suits a context, 0 to 100.                       *)

\* n / d rounded half to even.
PyRound(n, d) ==
  LET fl == n \div d  twice == 2 * (n % d)
  IN IF twice > d \/ (twice = d /\ fl % 2 = 1) THEN fl + 1 ELSE fl

ScoreAt(curve, m) ==
  IF curve.peakStart <= m /\ m <= curve.peakEnd THEN 0
  ELSE IF m < curve.peakStart THEN PyRound(100 * (curve.peakStart - m), curve.peakStart)
  ELSE IF m >= curve.falloffEnd \/ curve.falloffEnd <= curve.peakEnd THEN 100
  ELSE PyRound(100 * (m - curve.peakEnd), curve.falloffEnd - curve.peakEnd)

\* The slot after the chunk is scored too: the end of the last one.
RawChunkFit(p, curve, s, d) ==
  IF CrossesMidnight(p, s, d) THEN 100 * d
  ELSE SumOver(0..d, LAMBDA k : ScoreAt(curve, Tod(p, s) + k))

-----------------------------------------------------------------------------
(* Where a chunk may start.                                                *)

HardWindows(t) == {w \in t.windows : w.hard}
SoftWindows(t) == {w \in t.windows : ~w.hard}

Inside(p, w, s, d) ==
  /\ Weekday(Date(p, s)) \in w.days /\ Tod(p, s) >= w.from /\ Tod(p, s) + d <= w.to
  /\ ~CrossesMidnight(p, s, d)

\* Explicit beats implicit: a pin, a hard window or an availability mask
\* exempts the task from business hours; a soft window does not.
UsesHours(p, t) == p.hours # {} /\ t.pin = {} /\ HardWindows(t) = {} /\ t.avail = {}

Earliest(t) == MaxOf({0, t.earliest})

\* Only the first chunk of a pinned task is pinned.  `by` is what a hard
\* deadline takes off the last start.
AllowedStartsWhen(p, t, i, by) ==
  LET d == t.chunks[i]
      pins == IF i = 1 THEN t.pin ELSE {}
      lo == MaxOf({Earliest(t)} \cup pins)
      hi == MinOf({p.horizon - d} \cup pins \cup {x.at - by : x \in {y \in t.deadline : y.hard}})
  IN {s \in lo..hi :
        /\ UsesHours(p, t) => \A h \in p.hours : Inside(p, h, s, d)
        /\ \A w \in HardWindows(t) : Inside(p, w, s, d)
        /\ t.avail # {} => \E w \in t.avail : w.from <= s /\ s + d <= w.to}

\* Mutant of AllowedStarts: the last slot a hard deadline lets a chunk end in
\* is taken for the last one it may start in.
AllowedStartsLate(p, t, i) == AllowedStartsWhen(p, t, i, 0)

AllowedStarts(p, t, i) == AllowedStartsWhen(p, t, i, t.chunks[i])

-----------------------------------------------------------------------------
(* What a start costs whatever else is placed: fit, soft windows, churn.   *)

\* The days a window's preferences are measured over, one per whole day of it.
GapDays(p) == 0..(MaxOf({Day(p.horizon), 1}) - 1)

DayGap(p, w, s) ==
  LET near == {d \in GapDays(p) : Weekday(Date(p, 0) + d) \in w.days}
  IN IF Weekday(Date(p, s)) \in w.days THEN 0
     ELSE IF near = {} THEN Cardinality(GapDays(p))
     ELSE MinOf({Gap(d, Date(p, s) - Date(p, 0)) : d \in near})

WindowMiss(p, t, s, d) ==
  IF CrossesMidnight(p, s, d)
  THEN p.weights.dayMiss * Cardinality(GapDays(p)) + p.weights.timeMiss * SlotsPerDay
  ELSE MinOf({p.weights.dayMiss * DayGap(p, w, s)
                + p.weights.timeMiss * (Over(w.from, Tod(p, s)) + Over(Tod(p, s) + d, w.to))
              : w \in SoftWindows(t)})

\* A previous placement outside the window carries no churn and no warm start.
PrevSlot(p, t, i) == IF i \in DOMAIN t.prev /\ t.prev[i] \in 0..(p.horizon - 1) THEN t.prev[i] ELSE -1

StartCost(p, t, i, s) ==
  LET d == t.chunks[i]
  IN (IF p.weights.fit # 0 /\ t.ctx # 0
        THEN p.weights.fit * RawChunkFit(p, p.ctxs[t.ctx].curve, s, d) ELSE 0)
     + (IF SoftWindows(t) # {} THEN WindowMiss(p, t, s, d) ELSE 0)
     + (IF PrevSlot(p, t, i) >= 0
          THEN p.weights.churn * t.churn * Gap(s, PrevSlot(p, t, i)) ELSE 0)

-----------------------------------------------------------------------------
(* The baked problem: tasks and chunks numbered from 1, task by task.      *)

\* Hard dependencies with their other end resolved; soft and dangling ones go.
BakedDeps(p, t) ==
  LET hard == {d \in Elements(t.deps) : d.hard}
      onTask == {d \in hard : d.type \in {"after_task", "before_task"} /\ d.ref \in DOMAIN p.tasks
                                /\ p.tasks[d.ref].chunks # <<>>}
      onEvent == {d \in hard : d.type \in {"after_event", "before_event"} /\ d.ref \in DOMAIN p.events}
  IN {[type |-> d.type, task |-> d.ref, at |-> -1] : d \in onTask}
     \cup {[type |-> d.type, task |-> 0,
            at |-> p.events[d.ref].start
                     + (IF d.type = "after_event" THEN p.events[d.ref].dur ELSE 0)] : d \in onEvent}

ChunkBase(p, t) ==
  LET base[u \in 1..Len(p.tasks)] == IF u = 1 THEN 0 ELSE base[u - 1] + Len(p.tasks[u - 1].chunks)
  IN base[t]

BakedTask(p, i) ==
  LET t == p.tasks[i]
  IN [chunks |-> [k \in DOMAIN t.chunks |-> ChunkBase(p, i) + k],
      ctx |-> t.ctx, must |-> t.must,
      drop |-> p.weights.base + t.priority * p.weights.unit,
      sameDay |-> t.sameDay, ordered |-> t.ordered,
      soft |-> \E d \in t.deadline : ~d.hard,
      deadline |-> IF t.deadline = {} THEN -1 ELSE (CHOOSE d \in t.deadline : TRUE).at,
      penalty |-> IF t.deadline = {} THEN 0 ELSE (CHOOSE d \in t.deadline : TRUE).penalty,
      pinned |-> IF t.pin = {} THEN -1 ELSE CHOOSE s \in t.pin : TRUE,
      deps |-> BakedDeps(p, t)]

BakedChunk(p, i, k) ==
  LET t == p.tasks[i]  dom == AllowedStarts(p, t, k)
  IN [task |-> i, dur |-> t.chunks[k], dom |-> dom,
      cost |-> [s \in dom |-> StartCost(p, t, k, s)],
      prev |-> PrevSlot(p, t, k), placed |-> k \in DOMAIN t.prev]

EventSlots(p) ==
  (UNION {Span(p.events[e].start, p.events[e].dur) : e \in DOMAIN p.events}) \cap (0..(p.horizon - 1))

Bake(p) ==
  [horizon |-> p.horizon,
   tasks |-> [i \in DOMAIN p.tasks |-> BakedTask(p, i)],
   chunks |-> FlattenSeq([i \in DOMAIN p.tasks |->
                            [k \in DOMAIN p.tasks[i].chunks |-> BakedChunk(p, i, k)]]),
   ctxs |-> p.ctxs, ext |-> EventSlots(p)]

\* The first two immovable events that overlap, in the order of the sweep.
OverlapCore(p) ==
  LET end(e) == p.events[e].start + p.events[e].dur
      before(e, f) == \/ p.events[e].start < p.events[f].start
                      \/ p.events[e].start = p.events[f].start /\ end(e) < end(f)
                      \/ p.events[e].start = p.events[f].start /\ end(e) = end(f) /\ e < f
      Sweep(acc, e) ==
        [core |-> IF acc.core = {} /\ acc.prev # {} /\ \E q \in acc.prev : p.events[e].start < end(q)
                  THEN acc.prev \cup {e} ELSE acc.core,
         prev |-> IF \E q \in acc.prev : end(e) <= end(q) THEN acc.prev ELSE {e}]
  IN FoldLeft(Sweep, [core |-> {}, prev |-> {}], SortedBy(DOMAIN p.events, before)).core

-----------------------------------------------------------------------------
(* Reading a baked problem.                                                *)

Slots(b) == 0..(b.horizon - 1)
Days(b) == WholeDays(b.horizon)
FirstChunk(b, t) == b.tasks[t].chunks[1]
LastChunk(b, t) == b.tasks[t].chunks[Len(b.tasks[t].chunks)]
KeptChunks(b, K) == {c \in DOMAIN b.chunks : b.chunks[c].task \in K}

\* <<p, q>>: a hard task dependency wants p to end before q starts.
DependencyPairs(b) ==
  UNION {{IF d.type = "after_task" THEN <<LastChunk(b, d.task), FirstChunk(b, t)>>
                                   ELSE <<LastChunk(b, t), FirstChunk(b, d.task)>> :
            d \in {e \in b.tasks[t].deps : e.task # 0}} : t \in DOMAIN b.tasks}

DependencyInvolved(b) ==
  {t \in DOMAIN b.tasks :
     b.tasks[t].deps # {} \/ \E u \in DOMAIN b.tasks : \E d \in b.tasks[u].deps : d.task = t}

\* The problem at hand, and each problem baked once.
W == Wires[wire]
Baked == [i \in DOMAIN Wires |-> Bake(Wires[i])]
B == Baked[wire]

MustTasks(b) == {t \in DOMAIN b.tasks : b.tasks[t].must}
=============================================================================
