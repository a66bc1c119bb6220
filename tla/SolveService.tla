---------------------------- MODULE SolveService ----------------------------
(***************************************************************************)
(* The solve step of a resolve (planning/resolve-internal.ts): the engine  *)
(* in this isolate, the container over HTTP, or the engine with the        *)
(* container behind it.  The two solvers are written apart, in two         *)
(* languages, and must mean the same problem: who answers may change how   *)
(* good a plan is proved to be, never what a plan is.                      *)
(***************************************************************************)
EXTENDS EngineRun, SolverContainer, ProblemBuilding

CONSTANTS
  Modes,      \* SOLVER_ENGINE: "container", "worker", "fallback"
  Attempts,   \* requests to the container of one solve
  Faults      \* what may fail: "engine" throws, "slow" past the wall guard, "fetch"

VARIABLES
  mode,       \* the deployment's SOLVER_ENGINE
  spc,        \* idle, engine, container, served
  said,       \* the engine's verdict a fallback remembers: "", "unsat", "plan"
  tried,      \* requests sent
  served,     \* [kind, by, body]: what the resolve gets
  disagreed   \* solver_engine_disagreement was logged

serviceVars == <<mode, spc, said, tried, served, disagreed>>
vars == <<wire, engineVars, containerVars, serviceVars>>

NotServed == [kind |-> "none", by |-> "", body |-> <<>>]
Served(kind, by, body) == served' = [kind |-> kind, by |-> by, body |-> body] /\ spc' = "served"

\* engineMode: a deployment with no SOLVER_ENGINE, or an unknown one, is a container one.
Deployed == mode \in Modes

Init ==
  /\ wire \in DOMAIN Wires /\ Deployed
  /\ EngineInit /\ ContainerInit
  /\ spc = "idle" /\ said = "" /\ tried = 0 /\ served = NotServed /\ disagreed = FALSE

\* solveForResolve.  A shadow deployment answers as a container one does.
Start ==
  /\ spc = "idle"
  /\ IF mode = "container" THEN spc' = "container" /\ UNCHANGED pc
                           ELSE spc' = "engine" /\ pc' = "new"
  /\ UNCHANGED <<wire, sel, out, budget, rounds, rpc, local, answer, containerVars,
                 mode, said, tried, served, disagreed>>

\* The engine, in this isolate or, for a problem large enough, over a session.
EngineRuns == spc = "engine" /\ EngineStep /\ UNCHANGED <<wire, containerVars, serviceVars>>

-----------------------------------------------------------------------------
(* The engine's answer.                                                    *)

\* The run's state is dropped with its answer.
EngineEnds ==
  /\ answer' = NoAnswer /\ pc' = "idle" /\ sel' = NoSelection /\ out' = NoOutcome
  /\ local' = NoOutcome /\ budget' = NoBudget /\ rounds' = NoRounds /\ rpc' = NoSession

FallBack(verdict) == spc' = "container" /\ said' = verdict /\ UNCHANGED served

\* It throws: solver_error without a second solver, else the container.
EngineThrows ==
  /\ spc = "engine" /\ pc # "done" /\ "engine" \in Faults
  /\ IF mode = "worker" THEN Served("solver_error", "worker", 500) /\ UNCHANGED said ELSE FallBack("")
  /\ EngineEnds /\ UNCHANGED <<wire, containerVars, mode, tried, disagreed>>

Verdict == IF answer.status = "UNSAT" THEN "unsat" ELSE "plan"

EngineServed ==
  IF Verdict = "unsat" THEN Served("unsat", "worker", answer) ELSE Served("solution", "worker", answer)

\* engineWallGuardMs: whether the run took more than twice the budgets it was given.
TookTooLong == IF "slow" \in Faults THEN BOOLEAN ELSE {FALSE}

\* Fallback mode serves only what the engine certified, in good time.
EngineAnswers ==
  /\ spc = "engine" /\ pc = "done"
  /\ \E slow \in TookTooLong :
       IF mode = "fallback" /\ (slow \/ answer.status # "OPTIMAL")
       THEN FallBack(Verdict) ELSE EngineServed /\ UNCHANGED said
  /\ EngineEnds /\ UNCHANGED <<wire, containerVars, mode, tried, disagreed>>

-----------------------------------------------------------------------------
(* The container's.                                                        *)

Request ==
  /\ spc = "container" /\ cpc = "idle" /\ tried < Attempts
  /\ cpc' = "pass1" /\ tried' = tried + 1
  /\ UNCHANGED <<wire, engineVars, path, demotedC, found, reply, mode, spc, said, served, disagreed>>

ContainerRuns == spc = "container" /\ ContainerStep /\ UNCHANGED <<wire, engineVars, serviceVars>>

\* A timeout, a transport error or a 5xx: another request, or a gateway error.
RequestFails ==
  /\ spc = "container" /\ cpc # "idle" /\ "fetch" \in Faults
  /\ cpc' = "idle" /\ Cleared /\ reply' = NoReply
  /\ IF tried < Attempts THEN UNCHANGED <<spc, served>> ELSE Served("solver_error", "container", 504)
  /\ UNCHANGED <<wire, engineVars, mode, said, tried, disagreed>>

\* One solver planned the week the other calls infeasible.
Disagrees == said = (IF reply.status = "UNSAT" THEN "plan" ELSE "unsat")

\* The answer is served whatever the engine said; a contradiction is logged.
ContainerAnswers ==
  /\ spc = "container" /\ cpc = "done"
  /\ IF reply.status = "UNSAT" THEN Served("unsat", "container", reply)
                               ELSE Served("solution", "container", reply)
  /\ disagreed' = Disagrees
  /\ cpc' = "idle" /\ Cleared /\ reply' = NoReply
  /\ UNCHANGED <<wire, engineVars, mode, said, tried>>

Next ==
  Start \/ EngineRuns \/ EngineThrows \/ EngineAnswers
    \/ Request \/ ContainerRuns \/ RequestFails \/ ContainerAnswers

Spec == Init /\ [][Next]_vars

-----------------------------------------------------------------------------
(* Properties, against the reference model and not against either solver;  *)
(* i is the problem they are about.                                        *)

Alone1 == [i \in DOMAIN Wires |->
  LET Solo(t) == [Wires[i] EXCEPT !.tasks = <<[Wires[i].tasks[t] EXCEPT !.deps = <<>>]>>]
  IN {t \in DOMAIN Wires[i].tasks : Placements(Solo(t), Literals(Solo(t)), {1}) # {}}]

\* The solvers count a daily cap apart where the window's days and the
\* calendar's differ.  Slots of a chunk beyond the window's last whole day count
\* for nothing, yet the engine's bound reckons with them (pass2.ts
\* energeticCapFloor); the fast model counts a chunk whole on the day it starts.
CapPrice(p, x, Lost(_)) ==
  SumOver({c \in DOMAIN x : p.tasks[TaskOf(p, c)].ctx \in FastCapped(p)}, LAMBDA c :
    Lost(c) * p.ctxs[p.tasks[TaskOf(p, c)].ctx].capPenalty)

Spill(p, x) ==
  CapPrice(p, x, LAMBDA c : OverlapWith(p, x, c, Day(p.horizon) * SlotsPerDay, p.horizon))
Straddled(p, x) ==
  CapPrice(p, x, LAMBDA c :
    IF CountsWhole(p, c) THEN OverlapWith(p, x, c, (Day(x[c]) + 1) * SlotsPerDay, p.horizon) ELSE 0)

\* What the engine's account of a plan adds for the part of a day at the end.
PartDay(p, x) == CapsOn(p, x, {Day(p.horizon)})

\* The least cost of the tasks K with those slots counted in; for the fast model,
\* of the placements within its reach.
Spilled == Tabulated([i \in DOMAIN Wires |-> Tabulated([K \in Kept(Wires[i]) |->
  LeastOf(Reference[i][K].xs, LAMBDA x : PlacementCost(Wires[i], K, x) + Spill(Wires[i], x))])])
Reached == Tabulated([i \in DOMAIN Wires |-> Tabulated([K \in Kept(Wires[i]) |->
  LeastOf({x \in Reference[i][K].priced : FastPriced(Wires[i], K, x)},
          LAMBDA x : PlacementCost(Wires[i], K, x) + Straddled(Wires[i], x))])])

\* The least drop penalty of a week in which `demoted` need not be kept.
LeastDropAt(i, demoted) ==
  LET p == Wires[i]
  IN MinOf({DropPenalty(p, K) : K \in {L \in Kept(p) : MustOf(p) \ demoted \subseteq L /\ Reference[i][L].xs # {}}})

\* The events that a core leaves in the week; the container assumes all of them.
WithEvents(p, by, core) ==
  IF by = "container" THEN p
  ELSE [p EXCEPT !.events = [e \in {f \in DOMAIN @ : <<"external_pinned", f, 0>> \in core} |-> @[e]]]

Explained(p, by, a) ==
  a.core # {} =>
    /\ ~Satisfiable(WithEvents(p, by, a.core), a.core)
    /\ (by = "worker" /\ ~a.cut) => \A h \in a.core : Satisfiable(WithEvents(p, by, a.core \ {h}), a.core \ {h})

IsLegalPlan(i, a) ==
  /\ a.placement \in Reference[i][a.kept].xs
  /\ MustOf(Wires[i]) \ a.demoted \subseteq a.kept
  /\ a.demoted \cap Alone1[i] = {}

Truthful(i, by, a) ==
  LET p == Wires[i]  paid == PlacementCost(p, a.kept, a.placement)
  IN IF by = "worker"
     THEN /\ a.cost = paid + PartDay(p, a.placement)
          /\ a.gap >= 0 => /\ DropPenalty(p, a.kept) = LeastDropAt(i, a.demoted)
                           /\ paid - a.gap <= Spilled[i][a.kept]
          /\ a.status = "OPTIMAL" => a.gap = 0
     ELSE /\ a.status # "PASS1_FALLBACK" => a.cost = paid
          /\ (a.status = "OPTIMAL" /\ Reached[i][a.kept] >= 0) =>
               paid <= Reached[i][a.kept] + Straddled(p, a.placement)

\* A plan that is served, by whichever solver, satisfies every hard constraint
\* of the reference model, keeps every must-include task, and gives one up only
\* when it does not fit the week even alone (engine/mus.ts, two_pass.py).
ServedIsLegal == served.kind = "solution" => IsLegalPlan(wire, served.body)

\* What is reported of a plan is true: its cost, to which the engine adds the
\* caps of a part of a day at the end; the engine's OPTIMAL (fewest drops,
\* cheapest placement) and its bound gap; the container's OPTIMAL (cheapest
\* placement of what its first pass kept, among those its prices admit).  All of
\* it is exact where no chunk under a daily cap can lie across an end of one of
\* the window's days or after the last whole one, and off by no more than the
\* price of the slots that do where one can.
CertifiedIsBest == served.kind = "solution" => Truthful(wire, served.by, served.body)

\* The conflict of a 422: what it names cannot hold together, and, when the
\* engine was not cut short, all of it is needed (without the events it names
\* the week is that week without the other events).
CoreExplains == served.kind = "unsat" => Explained(W, served.by, served.body)

\* The two solvers never contradict each other on whether a week can be planned,
\* unless the container gave up without a verdict, an empty core.
NeverContradicts ==
  disagreed => served.kind = "unsat" /\ served.body.core = {}

\* Improvement rounds over RPC, whatever fails, reach the plan the same rounds
\* reach in this isolate; a leaf that lies never breaks the plan at hand.
LeavesNeverMatter ==
  pc \in {"rooted", "improved"} =>
                   /\ ~rpc.lied => out = local
                   /\ out.placement \in Reference[wire][sel.kept].xs

-----------------------------------------------------------------------------
(* What the service counts on.  Its searches answer in many ways, every    *)
(* call of one that the next step can make is answered truthfully.         *)

\* No plan keeps the mandatory tasks that fit the week alone.
Hopeless(i) ==
  \A K \in Kept(Wires[i]) : MustOf(Wires[i]) \cap Alone1[i] \subseteq K => Reference[i][K].xs = {}

Refuses(i, a) == Hopeless(i) /\ Explained(Wires[i], "worker", a)

Selects(i, s, demoted) ==
  /\ s.kept \in Kept(Wires[i]) /\ MustOf(Wires[i]) \ demoted \subseteq s.kept /\ demoted \cap Alone1[i] = {}
  /\ s.proved => DropPenalty(Wires[i], s.kept) = LeastDropAt(i, demoted)

\* A placement of the tasks K, at what it costs.
Places(i, K, x, cost) ==
  /\ x \in Reference[i][K].xs
  /\ cost = PlacementCost(Wires[i], K, x)
  /\ ReportedCost(Baked[i], K, x) = cost + PartDay(Wires[i], x)
  /\ cost \in Nat /\ PartDay(Wires[i], x) \in Nat /\ Spilled[i][K] \in Nat

\* The bound lies below every placement; a proof is of the cheapest.
Bounds(i, K, r) ==
  /\ r.gap \in Nat /\ BoundOf(r) <= Spilled[i][K]
  /\ r.proved => r.cost <= Spilled[i][K]

Repriced(x) == Pass2(B, sel.kept, <<>>, x, 0)

\* Pass 1 and the core's layer, or the overlap check.
SelectionSound ==
  IF OverlapCore(W) # {}
  THEN Refuses(wire, [core |-> {<<"external_pinned", e, 0>> : e \in OverlapCore(W)}, cut |-> FALSE])
  ELSE \A c \in SelectCaps : \A t \in TestCaps : \E pass1 \in {Pass1(W, c)} :
         IF ~NeedsDetour(pass1) THEN Selects(wire, pass1, {})
         ELSE \E detour \in {Detour(W, {}, c, [tests |-> 0, cap |-> t])} :
                IF detour.core # {} THEN Refuses(wire, detour) ELSE Selects(wire, detour.pass1, detour.demoted)

\* Pass 2 with no node to spend.
RootSound ==
  \E r \in {Pass2(B, sel.kept, sel.witness, <<>>, 0)} :
    IF r.descents = 0 THEN Places(wire, sel.kept, sel.witness, PlacementCost(W, sel.kept, sel.witness))
                      ELSE Places(wire, sel.kept, r.placement, r.cost) /\ Bounds(wire, sel.kept, r)

\* A round's sub-solves, and pinning an answer, a leaf's or a lie, to price it.
RoundSound ==
  /\ \A i \in DOMAIN rounds.asks : \E r \in {Subsolve(out.placement, rounds.asks[i], Each)} :
       r.descents # 0 => /\ Places(wire, sel.kept, r.placement, r.cost)
                         /\ Repriced(r.placement).descents # 0 /\ Repriced(r.placement).cost = r.cost
  /\ rpc.on => \A lie \in Lies(rounds.asks) : \E again \in {Repriced(lie.placement)} :
       again.descents # 0 => Places(wire, sel.kept, lie.placement, again.cost)

\* The proof search.
ProofSound ==
  \A left \in {0, budget.cap - budget.spent} :
    left <= 0 \/ \E r \in {Pass2(B, sel.kept, out.placement, <<>>, left)} :
      r.descents # 0 => Places(wire, sel.kept, r.placement, r.cost) /\ Bounds(wire, sel.kept, r)

\* The container's second pass costs what the reference does, but for the slots
\* that straddle, and its fast model misses no placement that its prices admit;
\* the tasks that the first pass drops fit the window.
ModelsAgree ==
  /\ \A t \in (DOMAIN W.tasks) \ found : Floats(W, Literals(W), t)
  /\ Reached[wire][found] \in Int
  /\ Reached[wire][found] >= 0 => Model[found].least \in 0..Reached[wire][found]
  /\ \A x \in SecondModel(found) :
       /\ PlacementCost(W, found, x) \in Nat /\ Straddled(W, x) \in Nat
       /\ PlacementCost(W, found, x) <= SecondCost(found, x) + Straddled(W, x)

\* Every search the next step may make is truthful: what pass 1 and the core's
\* layer select or refuse, what pass 2 places and proves, at the root, for a
\* neighbourhood, for an answer it prices again and in the end; and the cheapest
\* placement of the container's second pass is the reference's, as far as the
\* caps are counted alike (engine/pass1.ts, mus.ts, pass2.ts, fast_model.py).
SearchesSound ==
  /\ pc = "new" => SelectionSound
  /\ pc = "selected" => RootSound
  /\ (pc = "rooted" /\ rounds.asks # <<>> /\ Each > 0) => RoundSound
  /\ pc = "improved" => ProofSound
  /\ cpc = "pass2" => ModelsAgree

-----------------------------------------------------------------------------
(* Properties of a plan as the user reads it: in real time, against the    *)
(* calendar and the rows the resolve read.                                 *)

IsBuilt == wire \in DOMAIN Resolves
Reading == Resolves[wire]
PlanEntries == Entries(Reading, W, served.body.placement)
Taken(x) == x.start..(x.end - 1)

\* The instants an event keeps from the user's tasks, day by local day.
TakenBy(r, e) ==
  {t \in r.from..(r.till - 1) :
     LET date == DateOf(r.zone, t)
     IN IF e.allDay THEN e.start <= date /\ date < e.end
        ELSE IF e.away THEN DateOf(r.zone, e.start) <= date /\ date <= DateOf(r.zone, e.end - 1)
        ELSE e.start <= t /\ t < e.end}

\* Not the solver's own: it has no chunk of a task of ours, and is no meeting
\* the plan moves.
IsFixed(r, i) ==
  LET e == r.events[i]
  IN /\ e.status # "cancelled" /\ (e.status = "tentative" => r.tentative)
     /\ e.chunk # NoChunk => ~e.stamped /\ e.chunk[1] \notin DOMAIN r.rows
     /\ \A x \in Sending(r).movable : x.row.event # i

\* The user's word that a chunk is done: it is painted and nothing is on record,
\* or the event that put it on record is gone or still painted.
SaidDone(r, c) ==
  LET on == {x \in r.records : x.chunk = c}
  IN \/ on = {} /\ \E i \in DOMAIN r.events : r.events[i].chunk = c /\ r.events[i].painted
     \/ \E x \in on : x.event # 0
          /\ (x.event \in DOMAIN r.events /\ r.events[x.event].chunk = c) => r.events[x.event].painted

InOwnZone(w, z, x) ==
  LET date == DateOf(z, x.start)
  IN /\ Weekday(date) \in w.days
     /\ \A t \in Taken(x) : date * DayLength + w.from * Grain <= ToLocal(z, t)
                             /\ ToLocal(z, t) < date * DayLength + w.to * Grain

\* In a plan that is served, nothing lies in the past or outside the week, two
\* entries never share time, no entry takes time a fixed event of the calendar
\* holds, and nothing the user has marked done is planned again while an event
\* of its task is on the calendar; a floor, a hard deadline and a pin hold as
\* instants, and a hard window holds on the clock it was written for
\* (build-problem.ts, busy-blocks.ts, window-projection.ts, parse-solution.ts,
\* resolve-internal.ts reconcileChunkCompletions).
PlanFitsTheWeek ==
  (served.kind = "solution" /\ IsBuilt) =>
    LET r == Reading
        zone(w) == IF w.zone = {} THEN r.zone ELSE CHOOSE z \in w.zone : TRUE
        shown == TasksOf({r.events[i].chunk : i \in DOMAIN r.events})
    IN /\ \A x \in PlanEntries :
            /\ MaxOf({r.now, r.from}) <= x.start /\ x.end <= r.till
            /\ \A y \in PlanEntries : x # y => Apart(Interval(x.start, x.end), Interval(y.start, y.end))
            /\ \A i \in DOMAIN r.events : IsFixed(r, i) => Taken(x) \cap TakenBy(r, r.events[i]) = {}
            /\ x.task \in shown => ~SaidDone(r, <<x.task, x.chunk>>)
            /\ x.row.kind = "task" => \A t \in x.row.earliest : t <= x.start
            /\ \A d \in x.row.deadline : d.hard => x.end <= d.at
            /\ \A t \in x.row.pin : (x.chunk = 1 /\ t >= r.now) => x.start = t
            /\ \A w \in x.row.windows : w.hard => InOwnZone(w, zone(w), x)

\* A meeting the plan moves is one the user organises, is far enough off and was
\* not moved lately; and it stays where it is or lands, for the whole of the
\* time reserved for it, where every attendee whose reply counts is free, after
\* the notice and in business hours (meetings/availability.ts, identify.ts,
\* resolve-internal.ts promotion).
MeetingsMoveToFreeTime ==
  (served.kind = "solution" /\ IsBuilt) =>
    LET r == Reading
        free(t, e, row) ==
          /\ t >= r.now + r.notice
          /\ \A who \in Constraining(e, PolicyOf(r, row)) :
               Known(r, who) /\ \A b \in r.freeBusy[who].busy : t < b.s \/ t >= b.e
          /\ r.hours # {} => \E h \in r.hours :
               /\ Weekday(DateOf(r.zone, t)) \in h.days
               /\ (ToLocal(r.zone, t) % DayLength) \div Grain \in h.from..(h.to - 1)
    IN \A x \in {y \in PlanEntries : y.row.kind = "meeting"} :
         LET e == r.events[x.row.event]  reserved == CeilQ(e.end - e.start)
         IN /\ IsOwnedMovable(e) /\ e.start >= r.now + r.notice
            /\ \A m \in x.row.moved : r.now - m >= r.stability
            /\ x.start = FloorQ(e.start)
                 \/ \A t \in x.start..(x.start + reserved - 1) : free(t, e, x.row)
=============================================================================
