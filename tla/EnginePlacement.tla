-------------------------- MODULE EnginePlacement --------------------------
(***************************************************************************)
(* Pass 2 of the solver engine (engine/pass2.ts, engine/lagrangian.ts):    *)
(* the kept tasks are given, this layer decides where their chunks land.   *)
(* A branch and bound over partial placements: a placement is a function   *)
(* from chunks to start slots, its domain the chunks placed so far, and    *)
(* every quantity the code maintains by increments (occupancy, cap use,    *)
(* lateness) is a function of it.  The wall clock and the node cap stop    *)
(* the search the same way, so one node cap stands for both.               *)
(***************************************************************************)
EXTENDS EngineProblem

CONSTANTS Iterations    \* rounds of the subgradient ascent (50 to 200 there)

LambdaScale == 64
StepPatience == 8

-----------------------------------------------------------------------------
(* The search's own problem: the kept chunks, their working domains, the   *)
(* pairs of chunks that constrain each other, and the constant part of the *)
(* cost.  `pin` places some chunks beforehand (a neighbourhood's frozen    *)
(* chunks).                                                                *)

\* Where an event dependency of its task lets a chunk start.
EventFloor(b, c) ==
  MaxOf({0} \cup {d.at : d \in {e \in b.tasks[b.chunks[c].task].deps :
                       e.type = "after_event" /\ c = FirstChunk(b, b.chunks[c].task)}})
EventCeiling(b, c) ==
  MinOf({b.horizon} \cup {d.at - b.chunks[c].dur :
            d \in {e \in b.tasks[b.chunks[c].task].deps :
                     e.type = "before_event" /\ c = LastChunk(b, b.chunks[c].task)}})

WorkingDomain(b, c, pin) ==
  {s \in b.chunks[c].dom : /\ s >= EventFloor(b, c) /\ s <= EventCeiling(b, c)
                           /\ c \in DOMAIN pin => s = pin[c]}

\* <<p, q>>: p ends before q starts.  A dependency on a dropped task is void.
Precedes(b, K) ==
  {<<p, q>> \in KeptChunks(b, K) \X KeptChunks(b, K) :
     \/ <<p, q>> \in DependencyPairs(b)
     \/ b.chunks[p].task = b.chunks[q].task /\ b.tasks[b.chunks[p].task].ordered /\ q = p + 1}

\* <<p, q>>: p and q on the same day (every chunk against its task's first).
SameDayPairs(b, K) ==
  {<<p, q>> \in KeptChunks(b, K) \X KeptChunks(b, K) :
     /\ b.chunks[p].task = b.chunks[q].task
     /\ b.tasks[b.chunks[p].task].sameDay
     /\ p = FirstChunk(b, b.chunks[p].task) /\ q > p}

\* <<p, q>>: interchangeable neighbours, p not later than q.
Interchangeable(b, K) ==
  {<<p, q>> \in KeptChunks(b, K) \X KeptChunks(b, K) :
     /\ b.chunks[p].task = b.chunks[q].task /\ q = p + 1
     /\ LET t == b.tasks[b.chunks[p].task]
        IN /\ ~t.ordered /\ t.pinned < 0
           /\ b.chunks[p].task \notin DependencyInvolved(b)
     /\ b.chunks[p].dur = b.chunks[q].dur
     /\ ~b.chunks[p].placed /\ ~b.chunks[q].placed}

StreakBase(b, K) ==
  SumOver(KeptChunks(b, K), LAMBDA c :
     LET cx == b.tasks[b.chunks[c].task].ctx
     IN IF cx # 0 /\ b.ctxs[cx].streak >= 0 /\ b.chunks[c].dur > b.ctxs[cx].streak
        THEN (b.chunks[c].dur - b.ctxs[cx].streak) * b.ctxs[cx].streakPenalty ELSE 0)

SearchSetup(b, K, pin) ==
  [b |-> b, kept |-> K, all |-> KeptChunks(b, K), pin |-> pin,
   dom |-> [c \in KeptChunks(b, K) |-> WorkingDomain(b, c, pin)],
   before |-> Precedes(b, K), together |-> SameDayPairs(b, K),
   ranked |-> Interchangeable(b, K), base |-> StreakBase(b, K)]

-----------------------------------------------------------------------------
(* Legality and cost of a partial placement x of the search w.             *)

Occupied(w, x) ==
  w.b.ext \cup UNION {Span(x[c], w.b.chunks[c].dur) : c \in DOMAIN x}

Legal(w, x, c, s) ==
  LET end == s + w.b.chunks[c].dur
  IN /\ Span(s, w.b.chunks[c].dur) \cap Occupied(w, x) = {}
     /\ \A o \in DOMAIN x :
          /\ <<c, o>> \in w.before => end <= x[o]
          /\ <<o, c>> \in w.before => x[o] + w.b.chunks[o].dur <= s
          /\ (<<c, o>> \in w.together \/ <<o, c>> \in w.together) => Day(s) = Day(x[o])
          /\ <<c, o>> \in w.ranked => s <= x[o]
          /\ <<o, c>> \in w.ranked => x[o] <= s

Separable(w, x) == SumOver(DOMAIN x, LAMBDA c : w.b.chunks[c].cost[x[c]])

CappedContexts(b) ==
  {cx \in DOMAIN b.ctxs : b.ctxs[cx].cap >= 0 /\ b.ctxs[cx].capPenalty # 0}

DayUsed(w, x, cx, d) ==
  SumOver({c \in DOMAIN x : w.b.tasks[w.b.chunks[c].task].ctx = cx},
          LAMBDA c : Cardinality({k \in Span(x[c], w.b.chunks[c].dur) : Day(k) = d}))

CapCost(w, x) ==
  SumOver(CappedContexts(w.b) \X Days(w.b), LAMBDA p :
     w.b.ctxs[p[1]].capPenalty * Over(DayUsed(w, x, p[1], p[2]), w.b.ctxs[p[1]].cap))

\* The chunks whose end decides a task's lateness.
DeadlineChunks(b, t) ==
  IF b.tasks[t].ordered THEN {LastChunk(b, t)} ELSE Elements(b.tasks[t].chunks)

LateTasks(w) == {t \in w.kept : w.b.tasks[t].soft /\ w.b.tasks[t].penalty # 0}

LateCost(w, x, t) ==
  LET done == DeadlineChunks(w.b, t) \cap DOMAIN x
  IN IF done = {} THEN 0
     ELSE w.b.tasks[t].penalty
            * Over(MaxOf({x[c] + w.b.chunks[c].dur : c \in done}), w.b.tasks[t].deadline)

SoFar(w, x) ==
  w.base + Separable(w, x) + CapCost(w, x) + SumOver(LateTasks(w), LAMBDA t : LateCost(w, x, t))

-----------------------------------------------------------------------------
(* The price of contention: multipliers on slots, found by a subgradient   *)
(* ascent at the root and only evaluated below it.                         *)

LambdaOver(lam, s, d) == SumOver(Span(s, d), LAMBDA k : lam[k])

\* The cheapest priced start of each chunk, ties going to the least claimed
\* of them; the bound they add up to and the slots they claim.
PricedBound(w, lam) ==
  LET free == Slots(w.b) \ w.b.ext
      Priced(c, s) == LambdaScale * w.b.chunks[c].cost[s] + LambdaOver(lam, s, w.b.chunks[c].dur)
      Claim(acc, c) ==
        LET open == {s \in w.dom[c] : Span(s, w.b.chunks[c].dur) \subseteq free}
            least == MinOf({Priced(c, s) : s \in open})
            Crowd(s) == SumOver(Span(s, w.b.chunks[c].dur), LAMBDA k : acc.usage[k])
            ties == {s \in open : Priced(c, s) = least}
            s0 == CHOOSE s \in ties : \A u \in ties :
                     Crowd(s) < Crowd(u) \/ (Crowd(s) = Crowd(u) /\ s <= u)
        IN IF open = {} THEN acc
           ELSE [total |-> acc.total + least,
                 usage |-> [k \in Slots(w.b) |->
                              acc.usage[k] + (IF k \in Span(s0, w.b.chunks[c].dur) THEN 1 ELSE 0)]]
      sum == FoldLeft(Claim, [total |-> 0, usage |-> [k \in Slots(w.b) |-> 0]], Sorted(w.all))
  IN [total |-> sum.total - SumOver(free, LAMBDA k : lam[k]), usage |-> sum.usage]

PriceTarget(w, upper) ==
  LET free == Slots(w.b) \ w.b.ext
      Costs(c) == {w.b.chunks[c].cost[s] :
                      s \in {u \in w.dom[c] : Span(u, w.b.chunks[c].dur) \subseteq free}}
      ceiling == SumOver(w.all, LAMBDA c : MaxOf({0} \cup Costs(c)))
  IN LambdaScale * (IF upper < ceiling THEN MaxOf({0, upper}) ELSE ceiling)

RECURSIVE Ascend(_, _, _, _)
Ascend(w, target, iter, a) ==
  LET Stepped(now, better, at) ==
        LET G(k) == now.usage[k] - (IF k \in Slots(w.b) \ w.b.ext THEN 1 ELSE 0)
            moving == {k \in Slots(w.b) : G(k) # 0 /\ ~(G(k) < 0 /\ at.lam[k] = 0)}
            normSq == SumOver(moving, LAMBDA k : G(k) * G(k))
            step == MaxOf({1, (2 * (target - now.total)) \div (at.den * normSq)})
        IN IF ~better /\ at.stale >= StepPatience
           THEN [at EXCEPT !.den = 2 * @, !.stale = 0, !.lam = at.best]
           ELSE IF now.total >= target \/ normSq = 0 THEN [at EXCEPT !.halt = TRUE]
           ELSE [at EXCEPT !.lam = [k \in Slots(w.b) |-> MaxOf({0, at.lam[k] + step * G(k)})]]
      Priced(now) ==
        IF now.total > a.bestBound
        THEN Stepped(now, TRUE, [a EXCEPT !.best = a.lam, !.bestBound = now.total, !.stale = 0])
        ELSE Stepped(now, FALSE, [a EXCEPT !.stale = @ + 1])
  IN IF iter = 0 \/ a.halt THEN a ELSE Ascend(w, target, iter - 1, Priced(PricedBound(w, a.lam)))

Multipliers(w, upper) ==
  LET zero == [k \in Slots(w.b) |-> 0]
      a == Ascend(w, PriceTarget(w, upper), Iterations,
             [lam |-> zero, best |-> zero, bestBound |-> -Infinity, stale |-> 0, den |-> 1,
              halt |-> FALSE])
  IN a.best

\* Mutant of IntBound: a whole bound is rounded up too.
IntBoundPast(scaled) == scaled \div LambdaScale + 1

IntBound(scaled) == -((-scaled) \div LambdaScale)

-----------------------------------------------------------------------------
(* scan: the chunk to branch on and a floor on what is still to be paid.   *)

Live(w, x, c) == {s \in w.dom[c] : Legal(w, x, c, s)}
MinCost(w, c, live) == MinOf({w.b.chunks[c].cost[s] : s \in live})
Spread(w, c, live) == MaxOf({w.b.chunks[c].cost[s] : s \in live}) - MinCost(w, c, live)

\* Every completion places the remaining slots of a capped context on days its
\* chunks can still reach; what does not fit under the cap there is paid for.
CapFloor(w, x, live) ==
  SumOver(CappedContexts(w.b), LAMBDA cx :
    LET left == {c \in DOMAIN live : w.b.tasks[w.b.chunks[c].task].ctx = cx}
        remain == SumOver(left, LAMBDA c : w.b.chunks[c].dur)
        reach == UNION {UNION {{Day(k) : k \in Span(s, w.b.chunks[c].dur)} : s \in live[c]} : c \in left}
        freeCap == SumOver(reach \cap Days(w.b),
                           LAMBDA d : Over(w.b.ctxs[cx].cap, DayUsed(w, x, cx, d)))
    IN w.b.ctxs[cx].capPenalty * Over(remain, freeCap))

\* A task cannot end before its unplaced chunks' earliest live starts let it.
LateFloor(w, x, live) ==
  SumOver(LateTasks(w), LAMBDA t :
    LET cs == DeadlineChunks(w.b, t)
        End(c) == (IF c \in DOMAIN x THEN x[c] ELSE MinOf(live[c])) + w.b.chunks[c].dur
    IN IF cs \subseteq DOMAIN x THEN 0
       ELSE Over(w.b.tasks[t].penalty * Over(MaxOf({End(c) : c \in cs}), w.b.tasks[t].deadline),
                 LateCost(w, x, t)))

Scan(w, lam, x) ==
  LET left == w.all \ DOMAIN x
      live == [c \in left |-> Live(w, x, c)]
      Before(c, o) ==
        LET nc == Cardinality(live[c])  no == Cardinality(live[o])
            sc == Spread(w, c, live[c])  so == Spread(w, o, live[o])
        IN nc < no \/ (nc = no /\ (sc > so \/ (sc = so /\ c <= o)))
      sep == SumOver(left, LAMBDA c : MinCost(w, c, live[c]))
      Priced(c) == MinOf({LambdaScale * w.b.chunks[c].cost[s]
                            + LambdaOver(lam, s, w.b.chunks[c].dur) : s \in live[c]})
      lag == IntBound(SumOver(left, Priced)
                        - SumOver(Slots(w.b) \ Occupied(w, x), LAMBDA k : lam[k]))
  IN IF \E c \in left : live[c] = {} THEN [dead |-> TRUE, pick |-> 0, live |-> {}, sep |-> 0, floor |-> 0]
     ELSE LET pick == CHOOSE c \in left : \A o \in left : Before(c, o)
          IN [dead |-> FALSE, pick |-> pick, live |-> live[pick],
              sep |-> sep - MinCost(w, pick, live[pick]),
              floor |-> (IF lam # <<>> THEN MaxOf({sep, lag}) ELSE sep)
                          + CapFloor(w, x, live) + LateFloor(w, x, live)]

-----------------------------------------------------------------------------
(* Descents and the complete search.                                       *)

ByCost(w, c, starts) ==
  SortedBy(starts, LAMBDA s, u : w.b.chunks[c].cost[s] < w.b.chunks[c].cost[u]
                                  \/ (w.b.chunks[c].cost[s] = w.b.chunks[c].cost[u] /\ s < u))

Leaf(w, x, acc) ==
  [acc EXCEPT !.descents = @ + 1,
              !.best = IF SoFar(w, x) < acc.cost THEN x ELSE @,
              !.cost = MinOf({@, SoFar(w, x)})]

\* One greedy descent; a hint is taken wherever it is legal.
RECURSIVE Descend(_, _, _, _)
Descend(w, x, hint, acc) ==
  LET Start(v) == IF v.pick \in DOMAIN hint /\ hint[v.pick] \in v.live
                  THEN hint[v.pick] ELSE ByCost(w, v.pick, v.live)[1]
      Step(v) == IF v.dead THEN acc ELSE Descend(w, x @@ (v.pick :> Start(v)), hint, acc)
  IN IF DOMAIN x = w.all THEN Leaf(w, x, acc) ELSE Step(Scan(w, <<>>, x))

\* Mutant of Abandon: a subtree given up leaves no trace in the bound.
AbandonSilently(acc, bound) == [acc EXCEPT !.floor = @]

Abandon(acc, bound) == [acc EXCEPT !.floor = MinOf({@, bound})]

RECURSIVE Search(_, _, _, _, _, _)
Search(w, lam, cap, x, sepLeft, acc) ==
  LET Closed(a, bound) == IF a.aborted THEN Abandon(a, bound) ELSE a
      Branch(v, bound) ==
        LET Try(a, s) == IF a.aborted THEN a
                         ELSE Closed(Search(w, lam, cap, x @@ (v.pick :> s), v.sep, a), bound)
        IN IF v.dead THEN acc
           ELSE IF bound >= acc.cost THEN Abandon(acc, bound)
           ELSE IF acc.nodes >= cap THEN [Abandon(acc, bound) EXCEPT !.aborted = TRUE]
           ELSE FoldLeft(Try, [acc EXCEPT !.nodes = @ + 1], ByCost(w, v.pick, v.live))
      From(v, soFar) == Branch(v, soFar + v.floor)
  IN IF DOMAIN x = w.all THEN Leaf(w, x, acc)
     ELSE IF sepLeft >= 0 /\ SoFar(w, x) + sepLeft >= acc.cost THEN Abandon(acc, SoFar(w, x) + sepLeft)
     ELSE From(Scan(w, lam, x), SoFar(w, x))

Certified(acc) == acc.cost # Infinity /\ (~acc.aborted \/ acc.cost <= acc.floor)

-----------------------------------------------------------------------------
(* place: the whole of a pass-2 run.                                       *)

NoDescent(nodes, root) ==
  [placement |-> <<>>, cost |-> 0, proved |-> FALSE, gap |-> 0, nodes |-> nodes, descents |-> 0,
   root |-> root]

\* The pins as a placement, or none when one is not in its chunk's domain or
\* collides with another.
PinsHold(w) ==
  \A c \in DOMAIN w.pin \cap w.all :
    /\ w.dom[c] = {w.pin[c]}
    /\ Legal(w, [o \in (DOMAIN w.pin \cap w.all) \ {c} |-> w.pin[o]], c, w.pin[c])

Hint(b, K, warm) ==
  IF warm # <<>> THEN warm
  ELSE [c \in {k \in KeptChunks(b, K) : b.chunks[k].prev >= 0} |-> b.chunks[c].prev]

\* The searches from the pinned chunks x0, whose scan is v0: the descents, the
\* multipliers when there is a gap and nothing is pinned, the complete search.  The
\* root leaves out what the pinned chunks cost, a search's first bound does not.
Searched(w, x0, v0, hint, cap) ==
  LET start == [best |-> <<>>, cost |-> Infinity, nodes |-> 0, aborted |-> FALSE,
                floor |-> Infinity, descents |-> 0]
      Ended(done, root) ==
        IF done.cost = Infinity THEN NoDescent(done.nodes, root)
        ELSE [placement |-> done.best, cost |-> done.cost, proved |-> Certified(done),
              gap |-> IF Certified(done) THEN 0 ELSE done.cost - MinOf({done.floor, done.cost}),
              nodes |-> done.nodes, descents |-> done.descents, root |-> root]
      Proven(greedy, lam, root) ==
        Ended(IF greedy.cost > root THEN Search(w, lam, cap, x0, -1, greedy) ELSE greedy, root)
      Bounded(greedy, lam) == Proven(greedy, lam, w.base + (IF lam = <<>> THEN v0 ELSE Scan(w, lam, x0)).floor)
      Greedy(greedy) ==
        Bounded(greedy, IF greedy.cost > w.base + v0.floor /\ DOMAIN w.pin = {}
                        THEN Multipliers(w, greedy.cost - w.base) ELSE <<>>)
  IN Greedy(Descend(w, x0, <<>>, IF hint = <<>> THEN start ELSE Descend(w, x0, hint, start)))

Place(b, K, warm, pin, cap) ==
  LET From(w, x0, v0) ==
        IF ~PinsHold(w) THEN NoDescent(0, 0)
        ELSE IF DOMAIN x0 = w.all
        THEN [placement |-> x0, cost |-> SoFar(w, x0), proved |-> TRUE, gap |-> 0, nodes |-> 0,
              descents |-> 1, root |-> SoFar(w, x0)]
        ELSE IF v0.dead THEN NoDescent(0, 0)
        ELSE Searched(w, x0, v0, Hint(b, K, warm), cap)
      Pinned(w, x0) == From(w, x0, Scan(w, <<>>, x0))
      Set(w) == Pinned(w, [c \in DOMAIN pin \cap w.all |-> pin[c]])
  IN Set(SearchSetup(b, K, pin))
=============================================================================
