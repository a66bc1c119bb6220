-------------------------- MODULE ProblemBuilding --------------------------
(***************************************************************************)
(* What a resolve reads, the problem it sends the solver for it, and how   *)
(* the answer is read back (planning/resolve-internal.ts and the modules   *)
(* it calls).  A resolve's reading is a record:                            *)
(*   now, from, till (the window's instants), upcoming (the Monday cron's  *)
(*   week), zone, rows (task rows), events (the calendar's), records       *)
(*   (chunk completions), accepted (the plans, newest first), freeBusy,      *)
(*   hours, ctxs, weights, and the deployment's tentative, meetings,       *)
(*   notice, stability, cap and policy.                                    *)
(* Instants are counted in halves of a quarter hour, so that rounding to   *)
(* quarters shows; a wire slot is a quarter of the local clock, counted    *)
(* from the floor of placements.  Rows and events are named by their       *)
(* number.                                                                 *)
(***************************************************************************)
EXTENDS EngineProblem

CONSTANT Resolves   \* the readings, a sequence

Grain == 2                        \* instants to a quarter hour
DayLength == SlotsPerDay * Grain

FloorQ(t) == (t \div Grain) * Grain
CeilQ(t) == FloorQ(t + Grain - 1)

Interval(s, e) == [s |-> s, e |-> e]
Apart(a, b) == a.e <= b.s \/ b.e <= a.s

-----------------------------------------------------------------------------
(* Local time.  A zone is [off, at, by]: its offset, the instant it        *)
(* changes and by how much; a clock set back repeats its last readings, one*)
(* set forward skips some.                                                 *)

ToLocal(z, t) == t + z.off + (IF t >= z.at THEN z.by ELSE 0)

\* The instants a clock reading n may name: none, one, or two.
InstantsOf(z, n) == {t \in {n - z.off, n - z.off - z.by} : ToLocal(z, t) = n}

\* The earlier of two; a skipped reading lands forward by what was skipped.
FromLocal(z, n) == IF InstantsOf(z, n) = {} THEN n - z.off ELSE MinOf(InstantsOf(z, n))

\* A skipped reading is the moment of the change.
FirstInstant(z, n) == IF InstantsOf(z, n) = {} THEN z.at ELSE MinOf(InstantsOf(z, n))

\* The first reading whose slot lands at or after t: past the hour a clock set
\* back repeats when t is in its second run.
FirstReading(z, t) ==
  IF FirstInstant(z, ToLocal(z, t)) >= t THEN ToLocal(z, t)
  ELSE MinOf({n \in ToLocal(z, t)..(ToLocal(z, t) + DayLength) :
                n % Grain = 0 /\ FirstInstant(z, n) >= t})

DateOf(z, t) == ToLocal(z, t) \div DayLength
Midnight(z, d) == FromLocal(z, d * DayLength)
Quarter(z, t) == ToLocal(z, t) \div Grain

-----------------------------------------------------------------------------
(* Busy time: external events, rounded outwards and merged.                *)

NoChunk == <<0, 0>>

\* The dates of an event that blocks whole local days: an all-day event carries
\* dates (the last one excluded), an out-of-office one the instants they hold.
BlockedDays(z, e) ==
  IF e.allDay THEN e.start..(e.end - 1) ELSE DateOf(z, e.start)..DateOf(z, e.end - 1)

BlockedSpan(z, e) ==
  IF e.allDay \/ e.away
  THEN Interval(Midnight(z, MinOf(BlockedDays(z, e))), Midnight(z, MaxOf(BlockedDays(z, e)) + 1))
  ELSE Interval(e.start, e.end)

Blocks(r, e) ==
  /\ e.chunk = NoChunk /\ e.status # "cancelled"
  /\ e.status = "tentative" => r.tentative

RoundedOut(iv) == Interval(FloorQ(iv.s), CeilQ(iv.e))

\* Overlapping blocks become one, which keeps the name of the first.
Merged(acc, b) ==
  IF acc # <<>> /\ b.s < acc[Len(acc)].e
  THEN [acc EXCEPT ![Len(acc)].e = MaxOf({@, b.e})] ELSE Append(acc, b)

BusyBlocks(r, events, movable) ==
  LET blocking == {i \in DOMAIN events : Blocks(r, events[i]) /\ i \notin movable}
      span == [i \in blocking |-> RoundedOut(BlockedSpan(r.zone, events[i]))]
      before(i, j) == span[i].s < span[j].s \/ (span[i].s = span[j].s /\ i < j)
      order == SortedBy(blocking, before)
  IN FoldLeft(Merged, <<>>, [n \in DOMAIN order |->
       [id |-> order[n], s |-> span[order[n]].s, e |-> span[order[n]].e]])

-----------------------------------------------------------------------------
(* Which rows belong to the window.                                        *)

\* The Monday cron's week counts as begun.
MembershipNow(r) == IF r.upcoming THEN MaxOf({r.now, r.from}) ELSE r.now

Anchor(row) ==
  IF row.pin # {} THEN row.pin
  ELSE IF row.stamp # {} THEN row.stamp
  ELSE IF row.template THEN row.earliest ELSE {}

Belongs(r, row) ==
  /\ \A t \in row.earliest : t < r.till
  /\ Anchor(row) \subseteq r.from..(r.till - 1)
  /\ Anchor(row) = {} =>
       /\ \A d \in row.deadline : d.at >= r.from
       /\ (r.from > MembershipNow(r) /\ row.deadline = {}) => \E t \in row.earliest : t >= r.from

Pending(r, rows) ==
  {i \in DOMAIN rows : rows[i].status \in {"pending", "scheduled", "committed"} /\ Belongs(r, rows[i])}

-----------------------------------------------------------------------------
(* Owned meetings as rows.                                                 *)

Others(e) == {a \in e.attendees : ~a.resource /\ ~a.self}

IsOwnedMovable(e) == ~e.poll /\ e.organised /\ Others(e) # {}

\* How strongly a meeting resists a move: its attendees, up to a cap.
AttendeeCount(r, e) ==
  MinOf({r.cap, MaxOf({1, Cardinality({a \in Others(e) : a.said # "declined"})})})

Enforced == [accepted |-> {"accepted"}, accepted_or_tentative |-> {"accepted", "tentative"},
             not_declined |-> {"accepted", "tentative", "needsAction"}]

Constraining(e, policy) == {a.who : a \in {x \in Others(e) : x.said \in Enforced[policy]}}

EventLength(e) == MaxOf({Grain, e.end - e.start})

MeetingRow(e, i) ==
  [kind |-> "meeting", event |-> i, status |-> "pending", chunks |-> <<EventLength(e)>>,
   pin |-> {}, stamp |-> {}, template |-> FALSE, earliest |-> {e.start}, deadline |-> {},
   windows |-> {}, deps |-> <<>>, ctx |-> 0, must |-> TRUE, priority |-> 100,
   sameDay |-> FALSE, ordered |-> FALSE, moved |-> {}, policy |-> {}]

\* A row follows its event; one whose event is gone from the window is
\* cancelled; an owned meeting without a row gets one.
Synced(r, events) ==
  LET owned == {i \in DOMAIN events : IsOwnedMovable(events[i])}
      Follow(row) ==
        IF row.kind # "meeting" THEN row
        ELSE IF row.event \in owned
        THEN [row EXCEPT !.chunks = <<EventLength(events[row.event])>>,
                         !.earliest = {events[row.event].start}]
        ELSE IF \E t \in row.earliest : r.from <= t /\ t < r.till
        THEN [row EXCEPT !.status = "cancelled"] ELSE row
      new == Sorted({i \in owned : \A t \in DOMAIN r.rows : r.rows[t].event # i})
  IN [t \in DOMAIN r.rows |-> Follow(r.rows[t])]
       \o [n \in DOMAIN new |-> MeetingRow(events[new[n]], new[n])]

-----------------------------------------------------------------------------
(* Completions.                                                            *)

\* A chunk without a deployment's stamp counts as ours only if its task is a
\* row of ours; any other is ordinary busy time.
Calendar(r) ==
  [i \in DOMAIN r.events |->
     LET e == r.events[i]
     IN IF e.chunk # NoChunk /\ ~e.stamped /\ e.chunk[1] \notin DOMAIN r.rows
        THEN [e EXCEPT !.chunk = NoChunk] ELSE e]

ChunkEvents(events, c) == {i \in DOMAIN events : events[i].chunk = c}
Chunks(events) == {events[i].chunk : i \in DOMAIN events} \ {NoChunk}
TasksOf(chunks) == {c[1] : c \in chunks}
ChunkIds(rows, t) == {<<t, k>> : k \in DOMAIN rows[t].chunks}

\* Every chunk painted done has a record, which names the event.
Recorded(r, events) ==
  LET painted(c) == {i \in ChunkEvents(events, c) : events[i].painted}
      new == {c \in Chunks(events) : painted(c) # {} /\ \A x \in r.records : x.chunk # c}
  IN r.records \cup {[chunk |-> c, confirmed |-> TRUE, event |-> MinOf(painted(c))] : c \in new}

\* Mutant of Revived: any event of the chunk off the colour is evidence.
RevivedByAny(r, events) ==
  {x \in Recorded(r, events) : x.confirmed /\ \E i \in ChunkEvents(events, x.chunk) : ~events[i].painted}

\* A record falls when the event whose colour made it is there without the
\* colour (of a record that names none, when no event of the chunk has it).
Revived(r, events) ==
  {x \in Recorded(r, events) :
     LET shown == ChunkEvents(events, x.chunk)
     IN /\ x.confirmed /\ shown # {}
        /\ IF x.event # 0 THEN x.event \in shown /\ ~events[x.event].painted
                          ELSE \A i \in shown : ~events[i].painted}

\* Looked up only for tasks with an event in the window.
Done(r, events) ==
  {x.chunk : x \in {y \in Recorded(r, events) \ Revived(r, events) :
                      y.chunk[1] \in TasksOf(Chunks(events))}}

RevivedTasks(r, events) == TasksOf({x.chunk : x \in Revived(r, events)})

\* Rows after the pass: a revived task is pending again, one with every chunk
\* recorded is done.
Reconciled(r, events, rows) ==
  [t \in DOMAIN rows |->
     LET back == t \in RevivedTasks(r, events) /\ rows[t].status = "done"
     IN [rows[t] EXCEPT
           !.status = IF t \in TasksOf(Done(r, events)) /\ ChunkIds(rows, t) \subseteq Done(r, events)
                      THEN "done" ELSE IF back THEN "pending" ELSE @,
           !.stamp = IF back THEN {} ELSE @]]

-----------------------------------------------------------------------------
(* The tasks of the problem.  The first load precedes the sync: a meeting  *)
(* that has a row is planned as the row stood before it.                   *)

Candidates(r, events) ==
  LET Listed(S, rows) == [n \in 1..Cardinality(S) |-> [id |-> Sorted(S)[n], row |-> rows[Sorted(S)[n]]]]
      Extra(loaded, synced) ==
        {t \in Pending(r, synced) \ loaded : r.meetings /\ synced[t].kind = "meeting"}
      Revive(seen, after) ==
        {t \in RevivedTasks(r, events) \ seen :
           t \in DOMAIN after /\ Belongs(r, [after[t] EXCEPT !.stamp = {}])}
      Reviving(seen, after) == Listed(Revive(seen, after), after)
      Joined(loaded, extra, synced) ==
        Listed(loaded, r.rows) \o Listed(extra, synced)
          \o Reviving(loaded \cup extra, Reconciled(r, events, synced))
      Loading(loaded, synced) == Joined(loaded, Extra(loaded, synced), synced)
  IN Loading(Pending(r, r.rows), IF r.meetings THEN Synced(r, events) ELSE r.rows)

Undone(r, events) ==
  LET fully(x) == /\ x.id \in TasksOf(Done(r, events))
                  /\ \A k \in DOMAIN x.row.chunks : <<x.id, k>> \in Done(r, events)
  IN SelectSeq(Candidates(r, events), LAMBDA x : ~fully(x))

\* The floor of placements: nothing is planned into what has passed.
Floor(r) == MaxOf({r.from, CeilQ(r.now)})

\* The window sent starts at the floor, and slots count from there.
Origin(r) == Quarter(r.zone, FloorQ(Floor(r)))
Slot(r, t) == Quarter(r.zone, t) - Origin(r)

-----------------------------------------------------------------------------
(* Where a meeting may move.                                               *)

\* Maximal runs of a set of instants.
Runs(S) ==
  {Interval(q[1], q[2] + 1) : q \in {p \in S \X S :
     p[1] <= p[2] /\ p[1] - 1 \notin S /\ p[2] + 1 \notin S /\ p[1]..p[2] \subseteq S}}

InHours(r, t) ==
  r.hours # {} => \E h \in r.hours : \E d \in (DateOf(r.zone, t) - 1)..(DateOf(r.zone, t) + 1) :
    /\ Weekday(d) \in h.days
    /\ FromLocal(r.zone, d * DayLength + h.from * Grain) <= t
    /\ t < FromLocal(r.zone, d * DayLength + h.to * Grain)

InNotice(r) == MaxOf({r.from, r.now + r.notice})..(r.till - 1)

\* Mutant of FreeForAll: the attendees' calendars are read and not used.
FreeForOwner(r, busy) == {t \in InNotice(r) : InHours(r, t)}

FreeForAll(r, busy) == {t \in InNotice(r) : InHours(r, t) /\ \A b \in busy : t < b.s \/ t >= b.e}

\* Rounded inwards, long enough; and, always, where the meeting is.
MeetingWindows(r, e, busy) ==
  LET length == CeilQ(EventLength(e))
      rounded == {Interval(CeilQ(iv.s), FloorQ(iv.e)) : iv \in Runs(FreeForAll(r, busy))}
      stay == Interval(FloorQ(e.start), FloorQ(e.start) + length)
  IN Runs(UNION {iv.s..(iv.e - 1) : iv \in {x \in rounded : x.e - x.s >= length} \cup {stay}})

PolicyOf(r, row) == IF row.policy = {} THEN r.policy ELSE CHOOSE p \in row.policy : TRUE

Known(r, who) == who \in DOMAIN r.freeBusy /\ r.freeBusy[who].known

\* The meetings the solver may move.  Any other stays a busy block.
Movable(r, events, tasks) ==
  {x \in Elements(tasks) :
     /\ r.meetings /\ x.row.kind = "meeting" /\ x.row.event \in DOMAIN events
     /\ LET e == events[x.row.event]  asked == Constraining(e, PolicyOf(r, x.row))
        IN /\ IsOwnedMovable(e)
           /\ e.start >= r.now + r.notice
           /\ \A m \in x.row.moved : r.now - m >= r.stability
           /\ asked # {} /\ \A who \in asked : Known(r, who)}

MeetingMask(r, events, x) ==
  LET e == events[x.row.event]
  IN MeetingWindows(r, e, UNION {r.freeBusy[who].busy : who \in Constraining(e, PolicyOf(r, x.row))})

-----------------------------------------------------------------------------
(* Preferred windows kept in another zone, as readings of the problem's.   *)

IsForeign(r, w) == \E z \in w.zone : z # r.zone

Horizons(r) == Interval(ToLocal(r.zone, Floor(r)), ToLocal(r.zone, CeilQ(r.till)))

ForeignIntervals(r, w) ==
  LET z == CHOOSE y \in w.zone : TRUE
      on(d) == Interval(FirstInstant(z, d * DayLength + w.from * Grain),
                        FirstInstant(z, d * DayLength + w.to * Grain))
      near == {d \in (DateOf(z, Floor(r)) - 2)..(DateOf(z, r.till) + 2) :
                 Weekday(d) \in w.days /\ on(d).s < on(d).e /\ ~Apart(on(d), Interval(Floor(r), r.till))}
  IN {iv \in {Interval(FirstReading(r.zone, on(d).s), FirstReading(r.zone, on(d).e)) : d \in near} : iv.s < iv.e}

Clip(S, h) == {iv \in {Interval(MaxOf({x.s, h.s}), MinOf({x.e, h.e})) : x \in S} : iv.s < iv.e}

\* Cut at the midnights of the problem's zone.
Pieces(S) ==
  UNION {{Interval(MaxOf({iv.s, d * DayLength}), MinOf({iv.e, (d + 1) * DayLength})) :
            d \in (iv.s \div DayLength)..((iv.e - 1) \div DayLength)} : iv \in S}

Shape(p) ==
  LET day == (p.s \div DayLength) * DayLength
  IN [from |-> (p.s - day) \div Grain, to |-> (p.e - day) \div Grain]

\* The pieces of one shape are one window on their days.
Grouped(pieces, hard) ==
  {[days |-> {Weekday(p.s \div DayLength) : p \in {q \in pieces : Shape(q) = shape}},
    from |-> shape.from, to |-> shape.to, hard |-> hard] : shape \in {Shape(q) : q \in pieces}}

\* The one hard window that allows exactly what S does within the horizon, if
\* there is one that stays clear of midnight.
SingleHard(r, S) ==
  LET h == Horizons(r)
      group == Grouped({p \in Pieces(S) : ~Apart(p, h)}, TRUE)
      implied(w) == {Interval(d * DayLength + w.from * Grain, d * DayLength + w.to * Grain) :
                       d \in {e \in (h.s \div DayLength)..(h.e \div DayLength) : Weekday(e) \in w.days}}
  IN {w \in group : Cardinality(group) = 1 /\ w.to < SlotsPerDay /\ Clip(implied(w), h) = Clip(S, h)}

Meet(S, T) ==
  {iv \in {Interval(MaxOf({x[1].s, x[2].s}), MinOf({x[1].e, x[2].e})) : x \in S \X T} : iv.s < iv.e}

Inwards(S) == {iv \in {Interval(CeilQ(x.s), FloorQ(x.e)) : x \in S} : iv.s < iv.e}

\* A mask without room would read as no mask: a quarter past the horizon instead.
MaskOf(r, S) == IF S = {} THEN {Interval(Horizons(r).e, Horizons(r).e + Grain)} ELSE S

\* The windows on the wire and the hard mask, if any window needs one.
Projected(r, row) ==
  LET plain(w) == [days |-> w.days, from |-> w.from, to |-> w.to, hard |-> w.hard]
      \* A window of another zone, as windows or as a mask.
      Soft(S) == [windows |-> Grouped({p \in Pieces(S) : ~Apart(p, Horizons(r))}, FALSE), masks |-> {}]
      Single(S, one) == IF one # {} THEN [windows |-> one, masks |-> {}]
                        ELSE [windows |-> {}, masks |-> {Inwards(Clip(S, Horizons(r)))}]
      Seen(w, S) == IF w.hard THEN Single(S, SingleHard(r, S)) ELSE Soft(S)
      Whole(seen, masks) ==
        [windows |-> {plain(w) : w \in {v \in row.windows : ~IsForeign(r, v)}} \cup UNION {s.windows : s \in seen},
         mask |-> IF masks = {} THEN {}
                  ELSE MaskOf(r, FoldSet(Meet, {Interval(-Infinity, Infinity)}, masks))]
      Both(seen) == Whole(seen, UNION {s.masks : s \in seen})
  IN Both({Seen(w, ForeignIntervals(r, w)) : w \in {v \in row.windows : IsForeign(r, v)}})

-----------------------------------------------------------------------------
(* The wire problem.                                                       *)

LocalWeek(z, t) == DateOf(z, t) \div 7

\* getCommittedPlanForWeek: what was last accepted for this week of this zone; a
\* plan made in another zone is none of it, wherever its window starts.
WeekPlan(r) ==
  LET same == {i \in DOMAIN r.accepted :
                 /\ r.accepted[i].zone = r.zone
                 /\ LocalWeek(r.zone, r.accepted[i].from) = LocalWeek(r.zone, r.from)}
  IN IF same = {} THEN {} ELSE r.accepted[MinOf(same)].chunks

\* What is where now: the week's committed plan, or, when nothing of it lies in
\* the window, the calendar; a chunk once, at its earliest.
Baseline(r, events) ==
  LET InWindow(S) ==
        LET in == {x \in S : r.from <= x.start /\ x.start < r.till}
        IN {x \in in : \A y \in in : y.chunk = x.chunk => x.start <= y.start}
      onCalendar == {[chunk |-> events[i].chunk, start |-> events[i].start] :
                       i \in {j \in DOMAIN events : events[j].chunk # NoChunk}}
  IN IF InWindow(WeekPlan(r)) # {} THEN InWindow(WeekPlan(r)) ELSE InWindow(onCalendar)

\* What the pass sends, and what it sends it from.
Sending(r) ==
  LET Sent(events, tasks, movable) ==
        [events |-> events, done |-> Done(r, events), movable |-> movable,
         tasks |-> SelectSeq(tasks, LAMBDA x : x.row.kind # "meeting" \/ x \in movable),
         blocks |-> BusyBlocks(r, events, {x.row.event : x \in movable}),
         previous |-> Baseline(r, events)]
      Planning(events, tasks) == Sent(events, tasks, Movable(r, events, tasks))
      Reading(events) == Planning(events, Undone(r, events))
  IN Reading(Calendar(r))

IndexOf(seq, id) == IF \E i \in DOMAIN seq : seq[i].id = id
                    THEN CHOOSE i \in DOMAIN seq : seq[i].id = id ELSE 0

Remaining(s, x) == Sorted({k \in DOMAIN x.row.chunks : <<x.id, k>> \notin s.done})

Windowed(r, S) == {[from |-> iv.s \div Grain - Origin(r), to |-> iv.e \div Grain - Origin(r)] : iv \in S}

\* A row without a floor of its own, and any row in a week that has begun, starts
\* at the floor; a pin that has passed is let go; a meeting starts after the
\* notice, in its mask, and would rather stay where it is.
WireTask(r, s, x) ==
  LET row == x.row  z == r.zone  meeting == x \in s.movable
      floor == IF meeting THEN {Floor(r) + r.notice} ELSE row.earliest
      known == {e \in s.previous : e.chunk[1] = x.id /\ e.start >= Floor(r)}
      live == IF meeting THEN {Interval(ToLocal(z, iv.s), ToLocal(z, iv.e)) : iv \in MeetingMask(r, s.events, x)}
                         ELSE {}
      At(k) == {e \in known : e.chunk = <<x.id, k>>}
      Sent(left, own) ==
        [chunks |-> [n \in DOMAIN left |-> CeilQ(row.chunks[left[n]]) \div Grain],
         pin |-> {Slot(r, t) : t \in {p \in row.pin : p >= Floor(r)}},
         earliest |-> MaxOf({Slot(r, t) : t \in floor \cup {Floor(r)}}),
         deadline |-> {[at |-> Slot(r, d.at), hard |-> d.hard, penalty |-> d.penalty] : d \in row.deadline},
         windows |-> own.windows,
         avail |-> Windowed(r, IF ~meeting THEN own.mask ELSE IF own.mask = {} THEN live
                          ELSE MaskOf(r, Meet(live, own.mask))),
         prev |-> IF meeting THEN (1 :> Slot(r, s.events[row.event].start))
                  ELSE [n \in {m \in DOMAIN left : At(left[m]) # {}} |-> Slot(r, (CHOOSE e \in At(left[n]) : TRUE).start)],
         deps |-> [i \in DOMAIN row.deps |->
                     [row.deps[i] EXCEPT !.ref =
                        IF row.deps[i].type \in {"after_task", "before_task"}
                        THEN IndexOf(s.tasks, @) ELSE IndexOf(s.blocks, @)]],
         ctx |-> row.ctx, must |-> row.must, priority |-> row.priority,
         churn |-> IF meeting THEN AttendeeCount(r, s.events[row.event]) ELSE 1,
         sameDay |-> row.sameDay, ordered |-> row.ordered]
  IN Sent(Remaining(s, x), Projected(r, row))

Problem(r) ==
  LET Sent(s) ==
        [origin |-> Origin(r), horizon |-> Slot(r, CeilQ(r.till)),
         tasks |-> [i \in DOMAIN s.tasks |-> WireTask(r, s, s.tasks[i])],
         events |-> [i \in DOMAIN s.blocks |->
                       [start |-> Slot(r, s.blocks[i].s), dur |-> (s.blocks[i].e - s.blocks[i].s) \div Grain]],
         ctxs |-> r.ctxs, hours |-> r.hours, weights |-> r.weights]
  IN Sent(Sending(r))

-----------------------------------------------------------------------------
(* The answer read back: an entry per placed chunk, at its real length.    *)

Entries(r, p, placement) ==
  LET placed == {q \in UNION {{i} \X DOMAIN p.tasks[i].chunks : i \in DOMAIN p.tasks} :
                   ChunkBase(p, q[1]) + q[2] \in DOMAIN placement}
      Entry(x, k, start) ==
        [task |-> x.id, row |-> x.row, chunk |-> k, start |-> start, end |-> start + x.row.chunks[k]]
      Start(q) == FromLocal(r.zone, (p.origin + placement[ChunkBase(p, q[1]) + q[2]]) * Grain)
      Placed(s) == {Entry(s.tasks[q[1]], Remaining(s, s.tasks[q[1]])[q[2]], Start(q)) : q \in placed}
  IN Placed(Sending(r))
=============================================================================
