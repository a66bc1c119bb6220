-------------------------- MODULE SolverContainer --------------------------
(***************************************************************************)
(* The container's solve (solver/two_pass.py): drop minimisation, the core *)
(* and the demotion loop, then the whole objective over the partition that *)
(* was found.  Both passes run on fast models (solver/fast_model.py,       *)
(* solver/placements.py) that must mean what the reference model means; if *)
(* the fast path raises, the reference model answers.  CP-SAT is a choice: *)
(* an optimum, any solution when the search is stopped early, no answer.   *)
(***************************************************************************)
EXTENDS SolverReference

CONSTANT Quitting   \* subset of BOOLEAN: whether CP-SAT may run out of time

VARIABLES
  cpc,       \* idle, pass1, core, pass2, done
  path,      \* "fast" or "legacy"
  demotedC,  \* must-include tasks found unplaceable alone
  found,     \* the tasks the first pass keeps
  reply      \* [status, kept, placement, demoted, core, cost] the container answers

containerVars == <<cpc, path, demotedC, found, reply>>

NoReply == [status |-> "none", kept |-> {}, placement |-> <<>>, demoted |-> {}, core |-> {}, cost |-> 0]

-----------------------------------------------------------------------------
(* placements.py: the starts that satisfy every hard placement constraint  *)
(* of a chunk, and the cost of a start.                                    *)

FastHours(p, t) ==
  p.hours # {} /\ p.tasks[t].pin = {} /\ p.tasks[t].avail = {} /\ \A w \in p.tasks[t].windows : ~w.hard

FastStarts(p, c) ==
  LET t == TaskOf(p, c)  d == Length(p, c)
      pin == IF c = FirstOf(p, t) THEN p.tasks[t].pin ELSE {}
      hard == {e.at : e \in {f \in p.tasks[t].deadline : f.hard}}
      Fits(w, s) ==
        /\ Weekday(Date(p, s)) \in w.days
        /\ Tod(p, s) >= w.from /\ Tod(p, s) + d <= w.to /\ Tod(p, s) + d <= SlotsPerDay
  IN {s \in MaxOf({0, p.tasks[t].earliest} \cup pin)..MinOf({p.horizon - d} \cup pin \cup {h - d : h \in hard}) :
        /\ FastHours(p, t) => \A h \in p.hours : Fits(h, s)
        /\ \A w \in p.tasks[t].windows : w.hard => Fits(w, s)
        /\ p.tasks[t].avail # {} => \E w \in p.tasks[t].avail : w.from <= s /\ s + d <= w.to}

FitAt(p, c, s) ==
  LET curve == p.ctxs[p.tasks[TaskOf(p, c)].ctx].curve  d == Length(p, c)
  IN IF Tod(p, s) + d > SlotsPerDay THEN 100 * d
     ELSE SumOver(0..(d - 1), LAMBDA k : Distance(curve, Tod(p, s) + k)) + Distance(curve, Tod(p, s) + d)

PreferredAt(p, c, s) ==
  LET soft == {w \in p.tasks[TaskOf(p, c)].windows : ~w.hard}
      far == MaxOf({p.horizon \div SlotsPerDay, 1})
      near(w) == {Gap(d, Date(p, s) - Date(p, 0)) :
                    d \in {e \in 0..(far - 1) : Weekday(Date(p, e * SlotsPerDay)) \in w.days}}
      dgap(w) == IF Weekday(Date(p, s)) \in w.days THEN 0 ELSE MinOf(IF near(w) = {} THEN {far} ELSE near(w))
      tgap(w) == MaxOf({0, w.from - Tod(p, s)}) + MaxOf({0, Tod(p, s) + Length(p, c) - w.to})
  IN IF soft = {} THEN 0
     ELSE IF Tod(p, s) + Length(p, c) > SlotsPerDay
     THEN p.weights.dayMiss * far + p.weights.timeMiss * SlotsPerDay
     ELSE MinOf({p.weights.dayMiss * dgap(w) + p.weights.timeMiss * tgap(w) : w \in soft})

ChurnAt(p, c, s) ==
  LET t == p.tasks[TaskOf(p, c)]  k == c - ChunkBase(p, TaskOf(p, c))
  IN IF k \in DOMAIN t.prev /\ t.prev[k] \in 0..(p.horizon - 1)
     THEN p.weights.churn * t.churn * Gap(s, t.prev[k]) ELSE 0

\* combined_cost_table, of every chunk placed.
TableCost(p, x) ==
  SumOver(DOMAIN x, LAMBDA c :
    (IF p.weights.fit # 0 /\ p.tasks[TaskOf(p, c)].ctx # 0 THEN p.weights.fit * FitAt(p, c, x[c]) ELSE 0)
      + PreferredAt(p, c, x[c]) + ChurnAt(p, c, x[c]))

-----------------------------------------------------------------------------
(* fast_model.py.                                                          *)

\* Tasks with a hard dependency, and the tasks those name.
FastInvolved(p) ==
  {t \in DOMAIN p.tasks : \E u \in DOMAIN p.tasks : \E i \in DOMAIN p.tasks[u].deps :
     LET d == p.tasks[u].deps[i]
     IN d.hard /\ (u = t \/ (d.type \in {"after_task", "before_task"} /\ d.ref = t))}

\* Equal neighbours without a previous placement: the earlier one not later.
FastSymmetry(p, t, x) ==
  (t \notin FastInvolved(p) /\ ~p.tasks[t].ordered /\ p.tasks[t].pin = {}) =>
    \A c \in ChunksOf(p, t) :
      LET k == c - ChunkBase(p, t)
      IN (c # LastOf(p, t) /\ Length(p, c) = Length(p, c + 1) /\ {k, k + 1} \cap DOMAIN p.tasks[t].prev = {})
           => x[c] <= x[c + 1]

\* _add_capacity_cut: tasks that keep business hours, by the span between
\* their earliest start and hard deadline, fit the free hours of each band.
CapacityCut(p, K) ==
  LET free == {s \in Slots(p) :
                 /\ \E h \in p.hours : Weekday(Date(p, s)) \in h.days /\ h.from <= Tod(p, s) /\ Tod(p, s) < h.to
                 /\ \A e \in DOMAIN p.events : s \notin Span(p.events[e].start, p.events[e].dur)}
      clipped == {t \in DOMAIN p.tasks : FastHours(p, t)}
      from(t) == MaxOf({0, p.tasks[t].earliest})
      till(t) == MinOf({p.horizon} \cup {d.at : d \in {e \in p.tasks[t].deadline : e.hard}})
      Need(S) == SumOver(S, LAMBDA t : SumOver(ChunksOf(p, t), LAMBDA c : Length(p, c)))
  IN \A lo \in {0} \cup {from(t) : t \in clipped} : \A hi \in {p.horizon} \cup {till(t) : t \in clipped} :
       LET in == {t \in clipped : from(t) >= lo /\ till(t) <= hi}
       IN (hi > lo /\ (Cardinality(in) >= 2 \/ (lo = 0 /\ hi = p.horizon))) =>
            Need(in \cap K) <= Cardinality({s \in free : lo <= s /\ s < hi})

FastSuitable(p, t) ==
  {x \in [ChunksOf(p, t) -> UNION {FastStarts(p, c) : c \in ChunksOf(p, t)}] :
     /\ \A c \in ChunksOf(p, t) : x[c] \in FastStarts(p, c)
     /\ GroupPolicy(p, Literals(p), t, x) /\ FastSymmetry(p, t, x)}

\* Both passes' model over the tasks K; the first adds the cut (FirstModel), the
\* second what its prices admit (FastPriced).
FastPlacements(p, K) ==
  {x \in Joined(p, K, [t \in K |-> FastSuitable(p, t)]) : \A t \in K : Dependencies(p, Literals(p), K, t, x)}

\* _add_daily_cap_terms: a chunk no start of which lies across midnight counts
\* whole on the day it starts.
CountsWhole(p, c) ==
  /\ \A s \in FastStarts(p, c) : Tod(p, s) + Length(p, c) <= SlotsPerDay
  /\ Length(p, c) <= SlotsPerDay

FastCapped(p) == {cx \in DOMAIN p.ctxs : p.ctxs[cx].cap >= 0 /\ p.ctxs[cx].capPenalty # 0}

FastUsed(p, x, cx, d) ==
  SumOver({c \in DOMAIN x : p.tasks[TaskOf(p, c)].ctx = cx}, LAMBDA c :
    IF ~CountsWhole(p, c) THEN OverlapWith(p, x, c, d * SlotsPerDay, (d + 1) * SlotsPerDay)
    ELSE IF x[c] \div SlotsPerDay = d THEN Length(p, c) ELSE 0)

FastCap(p, x) ==
  SumOver(FastCapped(p) \X WholeDays(p.horizon), LAMBDA q :
    p.ctxs[q[1]].capPenalty * MaxOf({0, FastUsed(p, x, q[1], q[2]) - p.ctxs[q[1]].cap}))

\* What its variables admit: such a chunk starts in a whole day, if the window
\* has one, and no day is over its cap by more than a day.
CapsFit(p, x) ==
  \A cx \in FastCapped(p) :
    /\ \A c \in DOMAIN x : (p.tasks[TaskOf(p, c)].ctx = cx /\ CountsWhole(p, c)) =>
         x[c] \div SlotsPerDay <= MaxOf({(p.horizon \div SlotsPerDay) - 1, 0})
    /\ \A d \in WholeDays(p.horizon) : FastUsed(p, x, cx, d) - p.ctxs[cx].cap <= SlotsPerDay

\* A lateness variable holds no more than the window's length; only a deadline
\* that has passed before it can exceed that.
LateFits(p, t, x) == \A d \in p.tasks[t].deadline : d.hard \/ Late(p, t, x) <= p.horizon

\* The second pass's fast model; a lateness without a penalty is no part of it.
FastPriced(p, K, x) ==
  /\ CapsFit(p, x)
  /\ \A t \in K : (\E d \in p.tasks[t].deadline : d.penalty # 0) => LateFits(p, t, x)

\* attach_full_objective over the reference model: a dropped task's lateness is
\* a variable as well.
ReferencePriced(p, K, x) ==
  /\ \A t \in K : LateFits(p, t, x)
  /\ \A t \in (DOMAIN p.tasks) \ K : \E y \in Starts(p, t) : GroupPolicy(p, Literals(p), t, y) /\ LateFits(p, t, y)

FastCost(p, K, x) == TableCost(p, x) + StreakCap(p, x) + Lateness(p, K, x) + FastCap(p, x)

-----------------------------------------------------------------------------
(* Both models, worked out once for each problem: the placements of every  *)
(* set of tasks, those its prices admit and what the cheapest of them      *)
(* costs, -1 when there is none.                                           *)

Kept(p) == {K : K \in SUBSET (DOMAIN p.tasks)}   \* a list, so that TLC tabulates what follows

LeastOf(xs, cost(_)) == IF xs = {} THEN -1 ELSE MinOf({cost(x) : x \in xs})

Solved(xs, priced, cost(_)) == [xs |-> xs, priced |-> priced, least |-> LeastOf(priced, cost)]

\* f itself: TLC keeps a function as a rule until it is compared.
Tabulated(f) == CHOOSE g \in {f} : g = f

FastTable(p) ==
  LET Row(K, xs) == Solved(xs, {x \in xs : FastPriced(p, K, x)}, LAMBDA x : FastCost(p, K, x))
  IN Tabulated([K \in Kept(p) |-> Row(K, FastPlacements(p, K))])

ReferenceTable(p) ==
  LET Row(K, xs) == Solved(xs, {x \in xs : ReferencePriced(p, K, x)}, LAMBDA x : PlacementCost(p, K, x))
  IN Tabulated([K \in Kept(p) |-> Row(K, Placements(p, Literals(p), K))])

\* The sets the fast model's first pass may keep.
CutSets(p) == {K \in Kept(p) : CapacityCut(p, K)}

Fast == Tabulated([i \in DOMAIN Wires |-> FastTable(Wires[i])])
Cut == Tabulated([i \in DOMAIN Wires |-> CutSets(Wires[i])])
Reference == Tabulated([i \in DOMAIN Wires |-> ReferenceTable(Wires[i])])

MustOf(p) == {t \in DOMAIN p.tasks : p.tasks[t].must}

Model == (IF path = "fast" THEN Fast ELSE Reference)[wire]

\* build_pass1_model: a demoted task may be dropped.
FirstModel(demoted) ==
  {K \in IF path = "fast" THEN Cut[wire] ELSE Kept(W) :
     MustOf(W) \ demoted \subseteq K /\ Model[K].xs # {}}

\* build_pass2_model, or the reference with its whole objective.
SecondModel(K) == Model[K].priced
SecondCost(K, x) == IF path = "fast" THEN FastCost(W, K, x) ELSE PlacementCost(W, K, x)

\* The literals of the tasks S under the assumption model; a demoted task is
\* not assumed present.
Assumed(S, demoted) ==
  (UNION {TaskLiterals(W, t) : t \in S}) \ {<<"task_present", t, 0>> : t \in demoted}

\* sufficient_assumptions_for_infeasibility: some set that cannot hold, here
\* that of all the literals of some tasks.
Cores(demoted) ==
  {Assumed(S, demoted) : S \in {T \in Kept(W) : ~Satisfiable(W, Assumed(T, demoted))}}

\* The task alone, with the fixed calendar and without its dependencies.
Alone(t) == [W EXCEPT !.tasks = <<[W.tasks[t] EXCEPT !.deps = <<>>]>>]
IsolationFeasible(t) == Satisfiable(Alone(t), Literals(Alone(t)))

-----------------------------------------------------------------------------
(* solve.                                                                  *)

ContainerInit ==
  cpc = "idle" /\ path = "fast" /\ demotedC = {} /\ found = {} /\ reply = NoReply

\* What the request worked with is gone when it is answered, or given up.
Cleared == path' = "fast" /\ demotedC' = {} /\ found' = {}
ContainerUnsat(core) ==
  reply' = [NoReply EXCEPT !.status = "UNSAT", !.core = core] /\ cpc' = "done" /\ Cleared

\* A partition of least drop penalty, or any when the search stops early;
\* none; or no verdict in time, an empty core.
FirstPass ==
  /\ cpc = "pass1"
  /\ \/ \E first \in {FirstModel(demotedC)} :
          IF first = {} THEN cpc' = "core" /\ UNCHANGED <<path, demotedC, found, reply>>
          ELSE \E K \in first :
                 /\ TRUE \in Quitting \/ DropPenalty(W, K) = MinOf({DropPenalty(W, L) : L \in first})
                 /\ found' = K /\ cpc' = "pass2" /\ UNCHANGED <<path, demotedC, reply>>
     \/ TRUE \in Quitting /\ ContainerUnsat({})

\* Must-include tasks of the core that do not fit even alone.
Demotable(core) ==
  {t \in MustOf(W) \ demotedC : <<"task_present", t, 0>> \in core /\ ~IsolationFeasible(t)}

\* The core comes from the reference model.  If that finds a solution after
\* all, or no verdict, the fast path raises and the reference model starts over.
FindCore ==
  /\ cpc = "core"
  /\ \/ \E core \in Cores(demotedC) :
          IF Demotable(core) # {}
          THEN demotedC' = demotedC \cup Demotable(core) /\ cpc' = "pass1" /\ UNCHANGED <<path, found, reply>>
          ELSE ContainerUnsat(core)
     \/ /\ path = "fast" /\ (TRUE \in Quitting \/ Cores(demotedC) = {})
        /\ path' = "legacy" /\ demotedC' = {} /\ cpc' = "pass1" /\ UNCHANGED <<found, reply>>

\* The cheapest placement, any when the search stops early; without one, out of
\* time or because the prices admit none, the first pass's starts.  The legacy
\* path prices those as if they cost nothing.
SecondPass ==
  /\ cpc = "pass2"
  /\ \E status \in {"OPTIMAL", "FEASIBLE", "PASS1_FALLBACK"} :
       \E x \in IF status = "PASS1_FALLBACK" THEN Model[found].xs ELSE SecondModel(found) :
         /\ status = "OPTIMAL" => SecondCost(found, x) = Model[found].least
         /\ status = "FEASIBLE" => TRUE \in Quitting
         /\ status = "PASS1_FALLBACK" => TRUE \in Quitting \/ SecondModel(found) = {}
         /\ reply' = [NoReply EXCEPT !.status = status, !.kept = found, !.placement = x, !.demoted = demotedC,
                                     !.cost = IF path = "legacy" /\ status = "PASS1_FALLBACK" THEN 0
                                              ELSE PlacementCost(W, found, x)]
  /\ cpc' = "done" /\ Cleared

ContainerStep == FirstPass \/ FindCore \/ SecondPass
=============================================================================
