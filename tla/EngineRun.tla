----------------------------- MODULE EngineRun -----------------------------
(***************************************************************************)
(* One solve (engine/engine.ts): overlap check, selection, the detour for  *)
(* mandatory tasks that do not fit, then pass 2 in its three steps (root   *)
(* evaluation, improvement by rounds of freed neighbourhoods, one proof    *)
(* search) and the assembly of the answer.  Budgets are chosen afresh for  *)
(* every solve; they may end any search anywhere.  The improvement rounds  *)
(* (engine/improve.ts) may run in this isolate or over an RPC session      *)
(* (engine/fanout.ts) whose leaves may fail and are not trusted.           *)
(***************************************************************************)
EXTENDS EngineNeighbourhoods

CONSTANTS
  Pass1(_, _), Detour(_, _, _, _), Pass2(_, _, _, _, _),
                  \* EngineSelection's SelectTasks, EngineCore's Resolve,
                  \* EnginePlacement's Place
  SelectCaps,     \* node budgets of pass 1
  TestCaps,       \* deletion tests the core extraction may spend
  NodeCaps,       \* node budgets of pass 2
  SubsolveCap,    \* nodes one neighbourhood may spend
  MaxRounds,      \* rounds of a sweep of the menus (32 there)
  MaxSweeps,      \* sweeps (16 there)
  MaxSubsolves,   \* RPC sub-solves of one solve
  Sessions,       \* subset of BOOLEAN: whether rounds run over RPC
  LeafFaults      \* what a leaf may do besides answering: "fail", "lie"

ASSUME RoundsAssumption == MaxRounds \in Nat /\ Sessions \subseteq BOOLEAN

VARIABLES
  pc,       \* idle, new, selected, rooted, improved, done
  sel,      \* pass 1's answer, and the tasks taken off the mandatory list
  out,      \* the phase's outcome: placement, cost, proved, bound
  budget,   \* [cap, spent, quota]: pass 2's nodes, spent, the improvement's share
  rounds,   \* [sweep, round, moved, tried, asks]: where the improvement's schedule is
  rpc,      \* [on, calls, degraded, lied]: the fan-out session
  local,    \* the outcome of the same rounds run in this isolate
  answer    \* what the engine returns

engineVars == <<pc, sel, out, budget, rounds, rpc, local, answer>>

NoAnswer == [status |-> "none", placement |-> <<>>, kept |-> {}, demoted |-> {},
             core |-> {}, cut |-> FALSE, gap |-> -1, cost |-> 0]
NoOutcome == [placement |-> <<>>, cost |-> 0, proved |-> FALSE, bound |-> 0]
NoSelection == [kept |-> {}, witness |-> <<>>, proved |-> FALSE, infeasible |-> FALSE,
                decided |-> FALSE, demoted |-> {}]
NoBudget == [cap |-> 0, spent |-> 0, quota |-> 0]
NoRounds == [sweep |-> 0, round |-> 0, moved |-> FALSE, tried |-> {}, asks |-> <<>>]
NoSession == [on |-> FALSE, calls |-> 0, degraded |-> FALSE, lied |-> FALSE]

EngineInit ==
  /\ pc = "idle" /\ sel = NoSelection /\ out = NoOutcome /\ local = NoOutcome
  /\ budget = NoBudget /\ rounds = NoRounds /\ rpc = NoSession /\ answer = NoAnswer

\* The engine returns; what it worked with is gone.
Return(a) ==
  /\ answer' = a /\ pc' = "done" /\ sel' = NoSelection /\ out' = NoOutcome
  /\ local' = NoOutcome /\ budget' = NoBudget /\ rounds' = NoRounds /\ rpc' = NoSession

-----------------------------------------------------------------------------
(* Selection.                                                              *)

Unsat(c, cut) == Return([NoAnswer EXCEPT !.status = "UNSAT", !.core = c, !.cut = cut])

\* Immovable events that overlap: no search at all.
OverlapEnds ==
  /\ pc = "new" /\ OverlapCore(W) # {}
  /\ Unsat({<<"external_pinned", e, 0>> : e \in OverlapCore(W)}, FALSE)

NeedsDetour(pass1) == pass1.infeasible \/ (~pass1.proved /\ ~pass1.decided)

\* runSelection: pass 1, and the core's layer when the must set does not fit
\* or nothing was decided about it.
RunSelection ==
  /\ pc = "new" /\ OverlapCore(W) = {}
  /\ \E c \in SelectCaps : \E t \in TestCaps : \E pass1 \in {Pass1(W, c)} :
       LET Selected(s, d) ==
             /\ sel' = [kept |-> s.kept, witness |-> s.witness, proved |-> s.proved,
                        infeasible |-> s.infeasible, decided |-> s.decided, demoted |-> d]
             /\ pc' = "selected" /\ UNCHANGED <<out, budget, rounds, rpc, local, answer>>
       IN IF ~NeedsDetour(pass1) THEN Selected(pass1, {})
          ELSE \E detour \in {Detour(W, {}, c, [tests |-> 0, cap |-> t])} :
                 IF detour.core # {} THEN Unsat(detour.core, detour.cut)
                 ELSE Selected(detour.pass1, detour.demoted)

-----------------------------------------------------------------------------
(* Pass 2.                                                                 *)

BoundOf(r) == r.cost - r.gap

\* The improvement's share of the budget: the relative root gap, clamped to
\* between a quarter and three quarters of it.
ImproveShare(bound, cost, left) ==
  LET n == cost - bound  d == Max({cost, 1})
  IN IF left <= 0 \/ cost <= bound THEN 0
     ELSE IF 4 * n <= d THEN left \div 4
     ELSE IF 4 * n >= 3 * d THEN (3 * left) \div 4
     ELSE (left * n) \div d

\* componentsFromPlacement: what a plan costs, told from the placement alone;
\* the drops left out.
ReportedCost(b, K, x) ==
  LET End(t) == IF b.tasks[t].ordered THEN x[LastChunk(b, t)] + b.chunks[LastChunk(b, t)].dur
                ELSE Max({x[c] + b.chunks[c].dur : c \in Elements(b.tasks[t].chunks)})
      lateness == SumOver({t \in K : b.tasks[t].soft},
                          LAMBDA t : Over(End(t), b.tasks[t].deadline) * b.tasks[t].penalty)
      placed == SumOver(DOMAIN x, LAMBDA c : b.chunks[c].cost[x[c]])
      streak == SumOver({c \in DOMAIN x : LET cx == b.tasks[b.chunks[c].task].ctx
                                          IN cx # 0 /\ b.ctxs[cx].streak >= 0},
                        LAMBDA c : LET cx == b.ctxs[b.tasks[b.chunks[c].task].ctx]
                                   IN Over(b.chunks[c].dur, cx.streak) * cx.streakPenalty)
      \* The rest of the window after its last whole day counts as a day.
      days == {d \in 0..b.horizon : d * SlotsPerDay < b.horizon}
      Used(cx, d) == Cardinality({k \in d * SlotsPerDay .. (d + 1) * SlotsPerDay - 1 :
                        \E c \in DOMAIN x : /\ b.tasks[b.chunks[c].task].ctx = cx
                                            /\ x[c] <= k /\ k < x[c] + b.chunks[c].dur})
      caps == SumOver({cx \in DOMAIN b.ctxs : b.ctxs[cx].cap >= 0} \X days,
                      LAMBDA p : Over(Used(p[1], p[2]), b.ctxs[p[1]].cap) * b.ctxs[p[1]].capPenalty)
  IN lateness + placed + streak + caps

\* assemble: the answer an outcome becomes.
Assembled(o) ==
  LET proved == sel.proved /\ o.proved
  IN [NoAnswer EXCEPT
        !.status = IF proved THEN "OPTIMAL" ELSE "FEASIBLE",
        !.placement = o.placement, !.kept = sel.kept, !.demoted = sel.demoted,
        !.gap = IF proved THEN 0 ELSE IF sel.proved THEN o.cost - Min({o.bound, o.cost}) ELSE -1,
        !.cost = ReportedCost(B, sel.kept, o.placement)]

Fallback ==
  [NoAnswer EXCEPT !.status = "PASS1_FALLBACK", !.placement = sel.witness, !.kept = sel.kept,
                   !.demoted = sel.demoted, !.cost = ReportedCost(B, sel.kept, sel.witness)]

\* rootEvaluation: pass 2 with no node to spend, then the budget's split.
EvaluateRoot ==
  /\ pc = "selected"
  /\ \E r \in {Pass2(B, sel.kept, sel.witness, <<>>, 0)} :
       LET o == [placement |-> r.placement, cost |-> r.cost, proved |-> r.proved, bound |-> BoundOf(r)]
       IN IF r.descents = 0 THEN Return(Fallback)
          ELSE IF r.proved THEN Return(Assembled(o))
          ELSE \E c \in NodeCaps : \E on \in Sessions :
                 /\ out' = o /\ local' = o
                 /\ budget' = [cap |-> c, spent |-> 0, quota |-> ImproveShare(r.root, r.cost, c)]
                 /\ rpc' = [NoSession EXCEPT !.on = on]
                 /\ pc' = "rooted" /\ UNCHANGED <<sel, rounds, answer>>

-----------------------------------------------------------------------------
(* Improvement rounds.                                                     *)

\* A round's menu without what was tried against this incumbent, each set once.
Fresh(menu) ==
  LET new == {i \in DOMAIN menu : /\ menu[i] # {} /\ <<out.cost, menu[i]>> \notin rounds.tried
                                 /\ \A j \in 1..(i - 1) : menu[j] # menu[i]}
  IN [n \in 1..Cardinality(new) |-> menu[Sorted(new)[n]]]

\* The schedule: the first round of this sweep that has something to ask for, the
\* current one first; another sweep if this one improved on the plan.
NextRound ==
  /\ pc = "rooted" /\ rounds.asks = <<>>
  /\ \E ahead \in {[r \in rounds.round..(MaxRounds - 1) |-> Fresh(Menu(out.placement, r))]} :
       LET asking == {r \in DOMAIN ahead : ahead[r] # <<>>}
       IN IF budget.spent >= budget.quota THEN pc' = "improved" /\ UNCHANGED rounds
          ELSE IF asking # {}
               THEN /\ rounds' = [rounds EXCEPT !.round = MinOf(asking), !.asks = ahead[MinOf(asking)]]
                    /\ UNCHANGED pc
          ELSE IF rounds.moved /\ rounds.sweep + 1 < MaxSweeps
               THEN rounds' = [rounds EXCEPT !.sweep = @ + 1, !.round = 0, !.moved = FALSE] /\ UNCHANGED pc
          ELSE pc' = "improved" /\ UNCHANGED rounds
  /\ UNCHANGED <<sel, out, budget, rpc, local, answer>>

Frozen(placement, freed) == [c \in (DOMAIN placement) \ freed |-> placement[c]]

Subsolve(placement, freed, nodes) ==
  LET Said(r) == [placement |-> r.placement, cost |-> r.cost, nodes |-> r.nodes, descents |-> r.descents]
  IN Said(Pass2(B, sel.kept, <<>>, Frozen(placement, freed), nodes))

Complete(placement) == DOMAIN placement = KeptChunks(B, sel.kept)

Displaces(r, frozen, cost) ==
  r.descents # 0 /\ r.cost < cost /\ Complete(r.placement) /\ \A c \in DOMAIN frozen : r.placement[c] = frozen[c]

\* The cost at which an answer may displace the incumbent, or Infinity.  What
\* came over the wire is priced again by pinning all of it.
AdmitWhen(r, frozen, cost, check) ==
  LET Priced(again) == IF again.descents = 0 \/ again.cost >= cost THEN Infinity ELSE again.cost
  IN IF ~Displaces(r, frozen, cost) THEN Infinity
     ELSE IF ~check THEN r.cost
     ELSE Priced(Pass2(B, sel.kept, <<>>, r.placement, 0))

\* Mutant of Admit: a leaf is taken at its word.
AdmitTrusting(r, frozen, cost, verify) == AdmitWhen(r, frozen, cost, FALSE)

Admit(r, frozen, cost, verify) == AdmitWhen(r, frozen, cost, verify)

\* Apply a round's results in the order of the menu.
Adopt(start, menu, results, verify) ==
  LET Taken(a, i, cost) ==
        IF cost = Infinity THEN a ELSE [a EXCEPT !.placement = results[i].placement, !.cost = cost]
      Offered(a, i) == Taken(a, i, Admit(results[i], Frozen(start.placement, menu[i]), a.cost, verify))
      adopted[i \in 0..Len(menu)] == IF i = 0 THEN start ELSE Offered(adopted[i - 1], i)
  IN adopted[Len(menu)]

\* What a leaf nobody vouches for may say: a freed chunk anywhere, at no cost.
Lies(menu) ==
  {[placement |-> [out.placement EXCEPT ![c] = s], cost |-> 0, nodes |-> 0, descents |-> 1] :
     c \in menu[1], s \in Slots(B)}

\* The nodes each of a round's sub-solves may spend.
Each == MinOf({SubsolveCap, (budget.quota - budget.spent) \div Len(rounds.asks)})

\* Too few nodes are left for the round.
Starved ==
  /\ pc = "rooted" /\ rounds.asks # <<>> /\ Each <= 0
  /\ pc' = "improved" /\ UNCHANGED <<sel, out, budget, rounds, rpc, local, answer>>

\* The session after a round of n sub-solves, sent over it or not.  The answers
\* that came back count, batch by batch, in a round that fails too; a round that
\* fails or may not be sent is the last the session is used for.
Dispatched(asks, n, fault) ==
  [rpc EXCEPT !.calls = IF asks THEN @ + n - (IF fault = "fail" THEN 1 ELSE 0) ELSE @,
              !.degraded = rpc.on /\ (~asks \/ fault = "fail"),
              !.lied = @ \/ (asks /\ fault = "lie")]

\* improveRounds with its driver.  A session past its cap or with a failed leaf
\* recomputes the whole round in this isolate, and does so from then on.
ImproveRound ==
  /\ pc = "rooted" /\ rounds.asks # <<>> /\ Each > 0
  /\ \E fault \in LeafFaults \cup {"none"} :
       LET menu == rounds.asks
           asks == rpc.on /\ ~rpc.degraded /\ rpc.calls + Len(menu) <= MaxSubsolves
           lies == asks /\ fault = "lie"
       IN /\ fault # "none" => asks
          /\ \E here \in {[i \in DOMAIN menu |-> Subsolve(out.placement, menu[i], Each)]} :
             \E rs \in IF lies THEN {[here EXCEPT ![1] = lie] : lie \in Lies(menu)} ELSE {here} :
             \E next \in {Adopt(out, menu, rs, rpc.on)} :
               /\ out' = next
               /\ budget' = [budget EXCEPT !.spent = @ + SumOver(DOMAIN rs, LAMBDA i : rs[i].nodes)]
               /\ rounds' = [rounds EXCEPT !.moved = @ \/ next.cost < out.cost, !.asks = <<>>,
                                           !.tried = @ \cup {<<out.cost, menu[i]>> : i \in DOMAIN menu}]
          /\ local' = IF rpc.lied \/ lies THEN NoOutcome
                      ELSE Adopt(local, menu, [i \in DOMAIN menu |-> Subsolve(local.placement, menu[i], Each)], FALSE)
          /\ rpc' = Dispatched(asks, Len(menu), fault)
  /\ UNCHANGED <<pc, sel, answer>>

-----------------------------------------------------------------------------
(* The proof search, and the end.                                          *)

\* An incumbent that reached the root's bound needs no proof.
Improved(o) == [o EXCEPT !.proved = o.cost <= o.bound]

\* The wall may have left nothing for it.
Prove ==
  /\ pc = "improved"
  /\ \E left \in {0, budget.cap - budget.spent} :
     LET Ended(o, r) == IF r.descents = 0 THEN o
                        ELSE [placement |-> r.placement, cost |-> r.cost, proved |-> r.proved, bound |-> BoundOf(r)]
         Ending(o) == IF o.proved \/ left <= 0 THEN o
                      ELSE Ended(o, Pass2(B, sel.kept, o.placement, <<>>, left))
     IN Return(Assembled(Ending(Improved(out))))

EngineStep == OverlapEnds \/ RunSelection \/ EvaluateRoot \/ NextRound \/ Starved \/ ImproveRound \/ Prove
=============================================================================
