-------------------------- MODULE EngineSelection --------------------------
(***************************************************************************)
(* Pass 1 of the solver engine (engine/pass1.ts, engine/hall.ts): which    *)
(* tasks are kept.  A branch and bound over keep / drop decisions, whose   *)
(* feasibility check is a search for one packing of the kept chunks; both  *)
(* are cut short by capacity arguments (bands of the week, windows in the  *)
(* manner of Hall) that must never refute a set that packs.  A budget of   *)
(* nodes, which also stands for the wall clock, may stop either search.    *)
(***************************************************************************)
EXTENDS EngineProblem

CONSTANT PackNodeCap    \* nodes one packing attempt may spend

Clipped(dom, lo, hi) == {s \in dom : lo <= s /\ s <= hi}

-----------------------------------------------------------------------------
(* Static domains: what holds in every solution that keeps the task.       *)

\* External occupancy and hard event dependencies.
UnaryDomain(b, c) ==
  LET t == b.chunks[c].task  d == b.chunks[c].dur
      evLo == MaxOf({0} \cup {e.at : e \in {x \in b.tasks[t].deps : x.type = "after_event"}})
      evHi == MinOf({b.horizon} \cup {e.at : e \in {x \in b.tasks[t].deps : x.type = "before_event"}})
  IN {s \in Clipped(b.chunks[c].dom, IF c = FirstChunk(b, t) THEN evLo ELSE 0,
                    (IF c = LastChunk(b, t) THEN evHi ELSE b.horizon) - d) :
        Span(s, d) \cap b.ext = {}}

\* The ordered chain: each chunk after the earliest end of the one before it,
\* then each before the latest start of the one after it.
ChainClamped(b, t, dom) ==
  LET cs == b.tasks[t].chunks
      Forward(a, c) ==
        LET d == Clipped(a.dom[c], a.from, b.horizon)
        IN IF a.dead THEN a
           ELSE [dom |-> [a.dom EXCEPT ![c] = d], dead |-> d = {},
                 from |-> IF d = {} THEN a.from ELSE MinOf(d) + b.chunks[c].dur]
      Backward(a, c) ==
        LET d == Clipped(a.dom[c], 0, a.till - b.chunks[c].dur)
        IN IF a.dead THEN a
           ELSE [dom |-> [a.dom EXCEPT ![c] = d], dead |-> d = {},
                 till |-> IF d = {} THEN a.till ELSE MaxOf(d)]
      fwd == FoldLeft(Forward, [dom |-> dom, dead |-> FALSE, from |-> 0], cs)
  IN IF ~b.tasks[t].ordered \/ Len(cs) < 2 THEN dom
     ELSE FoldLeft(Backward, [dom |-> fwd.dom, dead |-> FALSE, till |-> b.horizon], Reverse(cs)).dom

\* A chunk that must follow itself has no start at all.
StaticDomains(b) ==
  LET unary == [c \in DOMAIN b.chunks |-> UnaryDomain(b, c)]
      chained == FoldLeft(LAMBDA dom, t : ChainClamped(b, t, dom), unary, Sorted(DOMAIN b.tasks))
  IN [c \in DOMAIN b.chunks |-> IF <<c, c>> \in DependencyPairs(b) THEN {} ELSE chained[c]]

\* Interchangeable neighbours: p not later than q.
SymmetricPairs(b) ==
  {<<p, q>> \in (DOMAIN b.chunks) \X (DOMAIN b.chunks) :
     /\ q = p + 1 /\ b.chunks[p].task = b.chunks[q].task
     /\ LET t == b.chunks[p].task
        IN ~b.tasks[t].ordered /\ b.tasks[t].pinned < 0 /\ t \notin DependencyInvolved(b)
     /\ b.chunks[p].dur = b.chunks[q].dur
     /\ b.chunks[p].prev < 0 /\ b.chunks[q].prev < 0}

-----------------------------------------------------------------------------
(* Capacity bands: kept tasks whose whole envelope lies in [lo, hi) need no *)
(* more slots than are free there.                                         *)

TaskDur(b, t) == SumOver(Elements(b.tasks[t].chunks), LAMBDA c : b.chunks[c].dur)

Envelope(b, dom, t) ==
  LET cs == Elements(b.tasks[t].chunks)
  IN [lo |-> MinOf({MinOf(dom[c]) : c \in cs}),
      hi |-> MaxOf({MaxOf(dom[c]) + b.chunks[c].dur : c \in cs})]

Unplaceable(b, dom) == {t \in DOMAIN b.tasks : \E c \in Elements(b.tasks[t].chunks) : dom[c] = {}}

\* The bands of one family: its member tasks and the slots it may count on.
FamilyBands(b, dom, members, free) ==
  LET env == [t \in members |-> Envelope(b, dom, t)]
      Cheaper(x, y) ==
        LET cross == b.tasks[x].drop * TaskDur(b, y) - b.tasks[y].drop * TaskDur(b, x)
        IN cross < 0 \/ (cross = 0 /\ x < y)
      Band(lo, hi) ==
        [cap |-> Cardinality({s \in free : lo <= s /\ s < hi}),
         in |-> {t \in members : env[t].lo >= lo /\ env[t].hi <= hi}]
      windows == {w \in ({0} \cup {env[t].lo : t \in members})
                          \X ({b.horizon} \cup {env[t].hi : t \in members}) : w[1] < w[2]}
      worth == {w \in windows :
                  /\ Cardinality(Band(w[1], w[2]).in) >= 2 \/ w = <<0, b.horizon>>
                  /\ SumOver(Band(w[1], w[2]).in, LAMBDA t : TaskDur(b, t)) > Band(w[1], w[2]).cap}
  IN {[cap |-> Band(w[1], w[2]).cap, in |-> SortedBy(Band(w[1], w[2]).in, Cheaper)] : w \in worth}

\* A general family over every free slot, and one of the tasks business hours
\* clip, over the free slots of those hours.
Bands(p, b, dom) ==
  LET placeable == (DOMAIN b.tasks) \ Unplaceable(b, dom)
      free == Slots(b) \ b.ext
      inHours == {s \in free : \E h \in p.hours : Weekday(Date(p, s)) \in h.days /\ h.from <= Tod(p, s) /\ Tod(p, s) < h.to}
      clipped == {t \in placeable : UsesHours(p, p.tasks[t])}
  IN (IF placeable = {} THEN {} ELSE FamilyBands(b, dom, placeable, free))
       \cup (IF p.hours = {} \/ clipped = {} THEN {} ELSE FamilyBands(b, dom, clipped, inHours))

BandsAdmit(s, S) ==
  \A band \in s.bands :
    SumOver(Elements(band.in) \cap S, LAMBDA t : TaskDur(s.b, t)) <= band.cap

\* What must still be paid in drops, a fraction of the last task counting for a
\* fraction of its weight; -1 when a band cannot be relieved.
BandPrice(s, band, kept, dropped) ==
  LET held == SumOver(Elements(band.in) \cap kept, LAMBDA t : TaskDur(s.b, t))
      excess == SumOver(Elements(band.in) \ dropped, LAMBDA t : TaskDur(s.b, t)) - band.cap
      Cover(a, t) ==
        LET d == TaskDur(s.b, t)  w == s.b.tasks[t].drop
        IN IF a.excess <= 0 \/ t \in kept \cup dropped \/ t \in s.mandatory THEN a
           ELSE IF d <= a.excess THEN [cost |-> a.cost + w, excess |-> a.excess - d]
           ELSE [cost |-> a.cost + (w * a.excess) \div d, excess |-> 0]
      paid == FoldLeft(Cover, [cost |-> 0, excess |-> excess], band.in)
  IN IF held > band.cap THEN -1 ELSE IF paid.excess > 0 THEN -1 ELSE paid.cost

BandBound(s, kept, dropped) ==
  LET prices == {BandPrice(s, band, kept, dropped) : band \in s.bands}
  IN IF -1 \in prices THEN -1 ELSE MaxOf({0} \cup prices)

-----------------------------------------------------------------------------
(* Hall's argument: the chunks whose envelopes lie in a window need no more *)
(* slots than are free in it.                                              *)

ChunkLo(b, c) == MinOf(b.chunks[c].dom)
ChunkHi(b, c) == MaxOf(b.chunks[c].dom) + b.chunks[c].dur

HallBoundaries(b) ==
  {0, b.horizon} \cup UNION {{ChunkLo(b, c), ChunkHi(b, c)} :
                              c \in {k \in DOMAIN b.chunks : b.chunks[k].dom # {}}}

HallRefutesWhen(b, S, x, End(_)) ==
  LET free == (Slots(b) \ b.ext) \ UNION {Span(x[c], b.chunks[c].dur) : c \in DOMAIN x}
      open == {c \in KeptChunks(b, S) \ DOMAIN x : b.chunks[c].dom # {}}
  IN /\ HallBoundaries(b) # {0, b.horizon}
     /\ \E lo, hi \in HallBoundaries(b) :
          /\ lo < hi
          /\ SumOver({c \in open : ChunkLo(b, c) >= lo /\ End(c) <= hi}, LAMBDA c : b.chunks[c].dur)
               > Cardinality({s \in free : lo <= s /\ s < hi})

\* Mutant of HallRefutes: an envelope ends at its last start.
HallRefutesStarts(b, S, x) == HallRefutesWhen(b, S, x, LAMBDA c : ChunkHi(b, c) - b.chunks[c].dur)

HallRefutes(b, S, x) == HallRefutesWhen(b, S, x, LAMBDA c : ChunkHi(b, c))

-----------------------------------------------------------------------------
(* Packing: one placement of every chunk of the set, or a proof of none.   *)

Consistent(s, S, x, c, v) ==
  LET b == s.b  d == b.chunks[c].dur  t == b.chunks[c].task
  IN /\ v + d <= b.horizon
     /\ Span(v, d) \cap (b.ext \cup UNION {Span(x[o], b.chunks[o].dur) : o \in DOMAIN x}) = {}
     /\ \A o \in DOMAIN x :
          /\ (b.chunks[o].task = t /\ b.tasks[t].sameDay) => Day(x[o]) = Day(v)
          /\ (b.chunks[o].task = t /\ b.tasks[t].ordered) =>
               IF o < c THEN x[o] + b.chunks[o].dur <= v ELSE v + d <= x[o]
          /\ <<c, o>> \in s.symmetric => v <= x[o]
          /\ <<o, c>> \in s.symmetric => x[o] <= v
          /\ <<o, c>> \in s.deps => x[o] + b.chunks[o].dur <= v
          /\ <<c, o>> \in s.deps => v + d <= x[o]

\* Narrow both ends of every dependency within the set, to a fixpoint.
Propagate(s, S) ==
  LET b == s.b
      pairs == SortedBy({pq \in s.deps : b.chunks[pq[1]].task \in S /\ b.chunks[pq[2]].task \in S},
                        LAMBDA x, y : x[1] < y[1] \/ (x[1] = y[1] /\ x[2] < y[2]))
      Narrow(dom, pq) ==
        IF dom[pq[1]] = {} \/ dom[pq[2]] = {} THEN dom
        ELSE LET later == {v \in dom[pq[2]] : v >= MinOf(dom[pq[1]]) + b.chunks[pq[1]].dur}
             IN [dom EXCEPT ![pq[2]] = later,
                            ![pq[1]] = IF later = {} THEN @
                                       ELSE {v \in @ : v <= MaxOf(later) - b.chunks[pq[1]].dur}]
      Round(dom, k) == FoldLeft(Narrow, dom, pairs)
  IN FoldLeft(Round, s.dom, [k \in 1..(Len(pairs) + 1) |-> k])

RECURSIVE PackDfs(_, _, _, _, _)
PackDfs(s, S, dom, x, g) ==
  LET left == KeptChunks(s.b, S) \ DOMAIN x
      g1 == [g EXCEPT !.nodes = @ + 1]
      live == [c \in left |-> {v \in dom[c] : Consistent(s, S, x, c, v)}]
      pick == CHOOSE c \in left : \A o \in left :
                \/ Cardinality(live[c]) < Cardinality(live[o])
                \/ Cardinality(live[c]) = Cardinality(live[o]) /\ c <= o
      Try(a, v) == IF a.result = "infeasible" THEN PackDfs(s, S, dom, x @@ (pick :> v), a.g) ELSE a
  IN IF left = {} THEN [result |-> "feasible", x |-> x, g |-> g]
     ELSE IF g1.nodes > g1.cap THEN [result |-> "budget", x |-> x, g |-> [g1 EXCEPT !.stopped = TRUE]]
     ELSE IF g1.nodes - g1.packStart > g1.packCap THEN [result |-> "limit", x |-> x, g |-> g1]
     ELSE IF \E c \in left : live[c] = {} THEN [result |-> "infeasible", x |-> x, g |-> g1]
     ELSE FoldLeft(Try, [result |-> "infeasible", x |-> x, g |-> g1], Sorted(live[pick]))

PackSearch(s, S, x, g, propagate) ==
  LET none == [result |-> "infeasible", x |-> x, g |-> [g EXCEPT !.packStart = g.nodes]]
      Packed(dom) == IF \E c \in KeptChunks(s.b, S) : dom[c] = {} THEN none
                     ELSE PackDfs(s, S, dom, x, none.g)
  IN IF \E c \in KeptChunks(s.b, S) : s.dom[c] = {} THEN none
     ELSE IF ~BandsAdmit(s, S) THEN none
     ELSE IF HallRefutes(s.b, S, x) THEN none
     ELSE Packed(IF propagate THEN Propagate(s, S) ELSE s.dom)

Context(p, relax) ==
  LET Of(b, dom) ==
        [b |-> b, dom |-> dom, bands |-> Bands(p, b, dom), symmetric |-> SymmetricPairs(b),
         deps |-> DependencyPairs(b), unplaceable |-> Unplaceable(b, dom),
         mandatory |-> IF relax THEN {} ELSE MustTasks(b)]
      Baking(b) == Of(b, StaticDomains(b))
  IN Baking(Bake(p))

Unbounded == [nodes |-> 0, cap |-> Infinity, packCap |-> Infinity, packStart |-> 0, stopped |-> FALSE]

\* Definite by contract: the deletion test and isolation test of mus.ts.
PackFeasible(p, S) == PackSearch(Context(p, FALSE), S, <<>>, Unbounded, TRUE)

-----------------------------------------------------------------------------
(* The selection tree.                                                     *)

\* Drop weight per slot, the dearest first.
BranchOrder(b) ==
  LET Dur(t) == MaxOf({1, TaskDur(b, t)})
      Before(x, y) == LET cross == b.tasks[y].drop * Dur(x) - b.tasks[x].drop * Dur(y)
                      IN cross < 0 \/ (cross = 0 /\ x < y)
  IN SortedBy(DOMAIN b.tasks, Before)

\* Keep t: around the placement at hand if it fits, else pack all afresh.
TryKeep(s, S, x, g) ==
  LET Else(e) == IF e.result # "infeasible" THEN e ELSE PackSearch(s, S, <<>>, e.g, TRUE)
  IN Else(PackSearch(s, S, x, g, FALSE))

RECURSIVE SelectDfs(_, _, _, _, _, _, _)
SelectDfs(s, order, level, kept, dropped, x, sel) ==
  LET acc == SumOver(dropped, LAMBDA u : s.b.tasks[u].drop)
      t == order[level]
      MayKeep(at, bound) == /\ t \notin s.unplaceable
                            /\ bound >= 0 /\ acc + bound < at.bound
                            /\ ~HallRefutes(s.b, kept \cup {t}, <<>>)
      Packing(at, packed) ==
        IF packed.result # "feasible" THEN at
        ELSE SelectDfs(s, order, level + 1, kept \cup {t}, dropped, packed.x, at)
      Keeping(at, packed) ==
        Packing([at EXCEPT !.g = packed.g, !.lost = @ \/ packed.result = "limit"], packed)
      Dropping(at) ==
        IF at.g.stopped \/ t \in s.mandatory \/ acc + s.b.tasks[t].drop >= at.bound THEN at
        ELSE SelectDfs(s, order, level + 1, kept, dropped \cup {t}, x, at)
      Branch(at) ==
        Dropping(IF MayKeep(at, BandBound(s, kept \cup {t}, dropped))
                 THEN Keeping(at, TryKeep(s, kept \cup {t}, x, at.g)) ELSE at)
      Visit(at, extra) ==
        IF at.g.stopped THEN at
        ELSE IF level > Len(order) THEN [at EXCEPT !.bound = acc, !.kept = kept, !.witness = x]
        ELSE IF extra < 0 \/ acc + extra >= at.bound THEN at
        ELSE Branch(at)
  IN Visit([sel EXCEPT !.g.nodes = @ + 1, !.g.stopped = @ \/ sel.g.nodes + 1 > sel.g.cap],
           BandBound(s, kept, dropped))

DropCost(b, T) == SumOver(T, LAMBDA t : b.tasks[t].drop)

\* Best effort over an infeasible must set: every task may be dropped.
RelaxedPartition(p, g) ==
  LET From(s) ==
        SelectDfs(s, BranchOrder(s.b), 1, {}, {}, <<>>,
          [g |-> g, bound |-> DropCost(s.b, DOMAIN s.b.tasks) + 1, kept |-> {}, witness |-> <<>>, lost |-> FALSE])
  IN From(Context(p, TRUE))

\* selectTasks: the must set is packed first, which decides feasibility and
\* seeds the search; a seed given up decides nothing.
SelectTasks(p, cap) ==
  LET g0 == [nodes |-> 0, cap |-> cap, packCap |-> PackNodeCap, packStart |-> 0, stopped |-> FALSE]
      Relaxed(sel) == [kept |-> sel.kept, witness |-> sel.witness, proved |-> FALSE,
                       infeasible |-> TRUE, decided |-> TRUE]
      Found(sel) == [kept |-> sel.kept, witness |-> sel.witness, proved |-> ~sel.g.stopped /\ ~sel.lost,
                     infeasible |-> FALSE, decided |-> TRUE]
      Seeded(s, must, seed) ==
        IF seed.result = "infeasible" THEN Relaxed(RelaxedPartition(p, seed.g))
        ELSE IF seed.result # "feasible"
        THEN [kept |-> must, witness |-> <<>>, proved |-> FALSE, infeasible |-> FALSE, decided |-> FALSE]
        ELSE Found(SelectDfs(s, BranchOrder(s.b), 1, {}, {}, <<>>,
                     [g |-> seed.g, bound |-> DropCost(s.b, (DOMAIN s.b.tasks) \ must) + 1,
                      kept |-> must, witness |-> seed.x, lost |-> FALSE]))
      From(s) == Seeded(s, MustTasks(s.b), PackSearch(s, MustTasks(s.b), <<>>, g0, TRUE))
  IN From(Context(p, FALSE))
=============================================================================
