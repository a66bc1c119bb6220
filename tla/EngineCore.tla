----------------------------- MODULE EngineCore -----------------------------
(***************************************************************************)
(* What the engine does when the mandatory tasks do not fit (engine/mus.ts)*)
(* : it deletes one hard commitment after another from the wire problem    *)
(* and asks again, which leaves a minimal core; tasks of the core that     *)
(* would not fit even alone are demoted to droppable and the selection is  *)
(* run again; a core that survives is the answer.                          *)
(* An assumption is <<kind, task, k>>; an event's is <<"external_pinned",  *)
(* event, 0>>.                                                             *)
(***************************************************************************)
EXTENDS EngineSelection

TaskKinds ==
  <<"task_present", "pinned_at", "group_same_day", "group_ordered", "hard_deadline",
    "earliest_start", "hard_preferred_window", "availability_window", "business_hours">>

\* Whether a mandatory task carries a commitment of this kind.
Carries(p, i, kind) ==
  LET t == p.tasks[i]
  IN CASE kind = "task_present" -> TRUE
       [] kind = "pinned_at" -> t.pin # {}
       [] kind = "group_same_day" -> Len(t.chunks) >= 2 /\ t.sameDay
       [] kind = "group_ordered" -> Len(t.chunks) >= 2 /\ t.ordered
       [] kind = "hard_deadline" -> \E d \in t.deadline : d.hard
       [] kind = "earliest_start" -> Earliest(t) > 0
       [] kind = "hard_preferred_window" -> HardWindows(t) # {}
       [] kind = "availability_window" -> t.avail # {}
       [] kind = "business_hours" -> UsesHours(p, t)

\* A dependency counts when both its ends are bound to be there.
Binds(p, i, k) ==
  LET d == p.tasks[i].deps[k]
  IN /\ d.hard
     /\ IF d.type \in {"after_task", "before_task"}
        THEN d.ref \in DOMAIN p.tasks /\ p.tasks[d.ref].must
        ELSE d.ref \in DOMAIN p.events

\* In the order the reference registers them: tasks, events, dependencies.
Assumptions(p) ==
  LET must == SelectSeq([i \in DOMAIN p.tasks |-> i], LAMBDA i : p.tasks[i].must)
      OfTask(i) == LET ks == SelectSeq(TaskKinds, LAMBDA k : Carries(p, i, k))
                   IN [j \in DOMAIN ks |-> <<ks[j], i, 0>>]
      Deps(i) == LET ks == SelectSeq([k \in DOMAIN p.tasks[i].deps |-> k], LAMBDA k : Binds(p, i, k))
                 IN [j \in DOMAIN ks |-> <<"hard_dependency", i, ks[j]>>]
      events == Sorted(DOMAIN p.events)
  IN FlattenSeq([j \in DOMAIN must |-> OfTask(must[j])])
       \o [j \in DOMAIN events |-> <<"external_pinned", events[j], 0>>]
       \o FlattenSeq([j \in DOMAIN must |-> Deps(must[j])])

-----------------------------------------------------------------------------
(* The wire problem without some of its commitments.                       *)

WholeWindow(p) == [from |-> 0, to |-> p.horizon]

\* A task the business hours never bound must not fall under them because its
\* own window, pin or mask was deleted: a whole-window mask keeps it exempt.
ReducedTask(p, i, gone) ==
  LET t == p.tasks[i]
      Gone(kind) == <<kind, i, 0>> \in gone
      r == [t EXCEPT
              !.must = @ /\ ~Gone("task_present"),
              !.pin = IF Gone("pinned_at") THEN {} ELSE @,
              !.sameDay = @ /\ ~Gone("group_same_day"),
              !.ordered = @ /\ ~Gone("group_ordered"),
              !.deadline = IF Gone("hard_deadline") THEN {} ELSE @,
              !.earliest = IF Gone("earliest_start") THEN 0 ELSE @,
              !.windows = IF Gone("hard_preferred_window") THEN SoftWindows(t) ELSE @,
              !.avail = IF Gone("availability_window") THEN {} ELSE @,
              !.deps = LET ks == SelectSeq([k \in DOMAIN t.deps |-> k],
                                           LAMBDA k : <<"hard_dependency", i, k>> \notin gone)
                       IN [j \in DOMAIN ks |-> t.deps[ks[j]]]]
      applies == UsesHours(p, t) /\ ~Gone("business_hours")
  IN IF UsesHours(p, r) /\ ~applies THEN [r EXCEPT !.avail = {WholeWindow(p)}] ELSE r

ReduceProblem(p, gone) ==
  [p EXCEPT !.tasks = [i \in DOMAIN @ |-> ReducedTask(p, i, gone)],
            !.events = [e \in {f \in DOMAIN @ : <<"external_pinned", f, 0>> \notin gone} |-> @[e]]]

-----------------------------------------------------------------------------
(* The core and the demotions.                                             *)

MustSet(p) == {i \in DOMAIN p.tasks : p.tasks[i].must}

\* [result, x, g]: definite, the must set alone decides pass 1.
MustSetPack(p) == PackFeasible(p, MustSet(p))
MustSetFits(p) == OverlapCore(p) = {} /\ MustSetPack(p).result = "feasible"

\* What a necessary assumption leaves behind is `Kept`: nothing is deleted.
ExtractWhen(p, run, Kept(_, _)) ==
  LET Test(a, h) ==
        IF a.run.tests >= a.run.cap THEN [a EXCEPT !.core = @ \cup {h}]
        ELSE LET gone == a.gone \cup {h}
                 r == [a.run EXCEPT !.tests = @ + 1]
             IN IF MustSetFits(ReduceProblem(p, gone))
                THEN [a EXCEPT !.core = @ \cup {h}, !.gone = Kept(@, h), !.run = r]
                ELSE [a EXCEPT !.gone = gone, !.run = r]
  IN FoldLeft(Test, [core |-> {}, gone |-> {}, run |-> run], Assumptions(p))

\* Mutant of ExtractCore: what was needed stays deleted.
ExtractCoreGreedy(p, run) == ExtractWhen(p, run, LAMBDA gone, h : gone \cup {h})

\* One deletion test per assumption; out of tests, the rest stays in.
ExtractCore(p, run) == ExtractWhen(p, run, LAMBDA gone, h : gone)

\* Alone in the week, its dependencies stripped.
FitsAlone(p, i) ==
  LET solo == [p EXCEPT !.tasks = <<[p.tasks[i] EXCEPT !.deps = <<>>]>>]
  IN OverlapCore(solo) = {} /\ PackFeasible(solo, {1}).result = "feasible"

Demote(p, demoted) ==
  [p EXCEPT !.tasks = [i \in DOMAIN @ |-> [@[i] EXCEPT !.must = @ /\ i \notin demoted]]]

\* The demotion loop: select, and while the mandatory tasks do not fit take the
\* tasks of the core that would not even fit alone off the mandatory list.
RECURSIVE Resolve(_, _, _, _)
Resolve(p, demoted, cap, run) ==
  LET Newly(core) == {i \in DOMAIN p.tasks \ demoted :
                        <<"task_present", i, 0>> \in core /\ ~FitsAlone(p, i)}
      Demoting(pass1, found, newly) ==
        IF newly # {} THEN Resolve(p, demoted \cup newly, cap, found.run)
        ELSE [demoted |-> demoted, core |-> found.core, tests |-> found.run.tests,
              cut |-> found.run.tests >= run.cap, pass1 |-> pass1]
      Explained(pass1, found) == Demoting(pass1, found, Newly(found.core))
      Selected(q, pass1, undecided) ==
        IF pass1.infeasible \/ (undecided /\ ~MustSetFits(q)) THEN Explained(pass1, ExtractCore(q, run))
        ELSE [demoted |-> demoted, core |-> {}, tests |-> run.tests, cut |-> FALSE,
              pass1 |-> IF undecided THEN [pass1 EXCEPT !.witness = MustSetPack(q).x] ELSE pass1]
      Selecting(q, pass1) ==
        Selected(q, pass1, ~pass1.infeasible /\ ~pass1.proved /\ ~pass1.decided)
      From(q) == Selecting(q, SelectTasks(q, cap))
  IN From(Demote(p, demoted))
=============================================================================
