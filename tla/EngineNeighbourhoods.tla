------------------------ MODULE EngineNeighbourhoods ------------------------
(***************************************************************************)
(* What an improvement round frees (engine/improve.ts): five rankings of   *)
(* the plan at hand each put some chunks forward.  A plan x is complete, a *)
(* function on the kept chunks; a family that has run out puts forward     *)
(* nothing, the empty set.  The cache the code keeps between rounds        *)
(* re-derives what an accepted answer touched; here everything is a        *)
(* function of x.  Costs are counted in fractions of a unit that make the  *)
(* shares exact while no chunk is longer than a day; the code adds floats. *)
(***************************************************************************)
EXTENDS EngineProblem

CONSTANT FreedMost      \* chunks a neighbourhood frees (8 there)

OwnTask(c) == B.tasks[B.chunks[c].task]
EndOf(x, c) == x[c] + B.chunks[c].dur
DaySlots(d) == Span(d * SlotsPerDay, SlotsPerDay)
Overlap(x, c, d) == Cardinality(Span(x[c], B.chunks[c].dur) \cap DaySlots(d))
DaysOf(x, c) == {d \in Days(B) : Overlap(x, c, d) > 0}

\* Units are split this finely, once for a share of a day's overrun and once
\* more for a chunk's share of two days.
Parts == ProductSet(1..SlotsPerDay)

\* A neighbourhood frees some chunks and never all of them.
FreedCap(chunks) == MaxOf({1, MinOf({FreedMost, Cardinality(chunks) - 1})})

-----------------------------------------------------------------------------
(* What each chunk costs where it is.                                      *)

\* The chunk's context if that prices a daily cap.
CappedContextOf(c) ==
  {cx \in {OwnTask(c).ctx} \ {0} : B.ctxs[cx].cap >= 0 /\ B.ctxs[cx].capPenalty # 0}

UsedOn(x, cx, d) == SumOver({c \in DOMAIN x : cx \in CappedContextOf(c)}, LAMBDA c : Overlap(x, c, d))

Overrun(x, cx, d) ==
  IF B.ctxs[cx].cap < 0 \/ B.ctxs[cx].capPenalty = 0 THEN 0
  ELSE Over(UsedOn(x, cx, d), B.ctxs[cx].cap) * B.ctxs[cx].capPenalty

\* The chunk whose end decides how late its task is: the last of an ordered
\* task, else the first of those that end last.
Decides(x, c) ==
  LET mates == Elements(OwnTask(c).chunks)
  IN IF OwnTask(c).ordered THEN c = MaxOf(mates)
     ELSE \A e \in mates : EndOf(x, e) < EndOf(x, c) \/ (EndOf(x, e) = EndOf(x, c) /\ c <= e)

LatenessOf(x, c) ==
  IF OwnTask(c).soft /\ Decides(x, c) THEN Over(EndOf(x, c), OwnTask(c).deadline) * OwnTask(c).penalty ELSE 0

SeparableCost(c, s) == IF s \in B.chunks[c].dom THEN B.chunks[c].cost[s] ELSE 0

\* The table entry, the lateness it decides, its share of the overruns.
AttributedCost(x, c) ==
  LET Share(cx, d) == (Parts * Overrun(x, cx, d) * Overlap(x, c, d)) \div UsedOn(x, cx, d)
  IN Parts * (SeparableCost(c, x[c]) + LatenessOf(x, c))
       + SumOver(CappedContextOf(c) \X DaysOf(x, c), LAMBDA p : Share(p[1], p[2]))

Costs(x) == [c \in DOMAIN x |-> AttributedCost(x, c)]

-----------------------------------------------------------------------------
(* Rankings: dearest first, then by number.                                *)

RankedBy(S, cost) == SortedBy(S, LAMBDA c, e : cost[c] > cost[e] \/ (cost[c] = cost[e] /\ c < e))

\* What the ranking holds at a place counted from 0, if anything.
At(ranking, round) == IF round < Len(ranking) THEN {ranking[round + 1]} ELSE {}

TopByCost(S, cost, most) == Elements(SubSeq(RankedBy(S, cost), 1, MinOf({most, Cardinality(S)})))

\* The windows of one ranking never share a chunk.
WindowOf(ranking, round, most) ==
  {ranking[i] : i \in (round * most + 1)..MinOf({(round + 1) * most, Len(ranking)})}

-----------------------------------------------------------------------------
(* The five families.                                                      *)

\* What the chunk would pay at s, were its end the task's.
PriceAt(c, s) ==
  Parts * (B.chunks[c].cost[s]
             + (IF OwnTask(c).soft THEN Over(s + B.chunks[c].dur, OwnTask(c).deadline) * OwnTask(c).penalty ELSE 0))

\* Where an evicted chunk could go once `target` has left its place.
HomesFor(x, target, c) ==
  LET held == UNION {Span(x[e], B.chunks[e].dur) : e \in DOMAIN x \ {target}}
      free == Slots(B) \ (B.ext \cup held)
  IN {s \in B.chunks[c].dom : Span(s, B.chunks[c].dur) \subseteq free}

\* Only what an eviction adds to the bill counts.
RelocationCost(x, cost, target, c) ==
  MaxOf({0, MinOf({PriceAt(c, s) : s \in HomesFor(x, target, c)}) - cost[c]})

\* The start with the least score, the earliest of several, if it is a gain.
LeastBelow(score, limit) ==
  {s \in DOMAIN score : /\ score[s] < limit
                        /\ \A r \in DOMAIN score : score[s] < score[r] \/ (score[s] = score[r] /\ s <= r)}

\* One of the dearest chunks, moved to where it would cost least once the
\* evictions are priced, together with exactly the chunks it evicts.
Displacement(x, cost, round, most) ==
  LET Evicted(target, s) ==
        {c \in DOMAIN x \ {target} : Span(x[c], B.chunks[c].dur) \cap Span(s, B.chunks[target].dur) # {}}
      Movable(target, chunks) ==
        Cardinality(chunks) < most /\ \A c \in chunks : HomesFor(x, target, c) # {}
      Open(target) ==
        {s \in B.chunks[target].dom \ {x[target]} :
           Span(s, B.chunks[target].dur) \cap B.ext = {} /\ Movable(target, Evicted(target, s))}
      Score(target) ==
        [s \in Open(target) |-> PriceAt(target, s)
           + SumOver(Evicted(target, s), LAMBDA c : RelocationCost(x, cost, target, c))]
  IN UNION {UNION {{t} \cup Evicted(t, s) : s \in LeastBelow(Score(t), cost[t])} :
              t \in At(RankedBy(DOMAIN x, cost), round)}

\* What a day carries: its chunks' costs, those of a chunk that spans midnight
\* split by slots, and the overruns of the day.
DayCost(x, cost, d) ==
  SumOver({c \in DOMAIN x : d \in DaysOf(x, c)},
          LAMBDA c : (Parts * cost[c] * Overlap(x, c, d)) \div B.chunks[c].dur)
    + Parts * Parts * SumOver(DOMAIN B.ctxs, LAMBDA cx : Overrun(x, cx, d))

CostliestDay(x, cost, round, most) ==
  LET days == UNION {DaysOf(x, c) : c \in DOMAIN x}
      carried == [d \in days |-> DayCost(x, cost, d)]
  IN UNION {TopByCost({c \in DOMAIN x : d \in DaysOf(x, c)}, cost, most) : d \in At(RankedBy(days, carried), round)}

\* The contexts that pay for overruns, the one that pays most first.
CappedRanked(x) ==
  LET total == [cx \in DOMAIN B.ctxs |-> SumOver(Days(B), LAMBDA d : Overrun(x, cx, d))]
  IN RankedBy({cx \in DOMAIN B.ctxs : total[cx] > 0}, total)

OverrunDays(x, cx) == {d \in Days(B) : Overrun(x, cx, d) > 0}

\* The chunks of an overrun context that start on a day that is over.
OverrunContext(x, cost, round, most) ==
  UNION {TopByCost({c \in DOMAIN x : OwnTask(c).ctx = cx /\ Day(x[c]) \in OverrunDays(x, cx)}, cost, most) :
           cx \in At(CappedRanked(x), round)}

\* What a chunk pays for having moved since last time.
MovedCost(x, c) ==
  IF B.chunks[c].prev < 0 THEN 0
  ELSE Gap(x[c], B.chunks[c].prev) * W.weights.churn * W.tasks[B.chunks[c].task].churn

ChurnRanked(x) ==
  LET churn == [c \in DOMAIN x |-> MovedCost(x, c)]
  IN RankedBy({c \in DOMAIN x : churn[c] > 0}, churn)

\* A round's menu: what each family puts forward, in their order.
Menu(x, round) ==
  LET most == FreedCap(DOMAIN x)
      Families(cost) == <<Displacement(x, cost, round, most), CostliestDay(x, cost, round, most),
                          OverrunContext(x, cost, round, most), WindowOf(RankedBy(DOMAIN x, cost), round, most),
                          WindowOf(ChurnRanked(x), round, most)>>
  IN Families(Costs(x))
=============================================================================
