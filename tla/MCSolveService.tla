--------------------------- MODULE MCSolveService ---------------------------
EXTENDS SolveService, EngineCore, EnginePlacement

\* Two days of four slots.  A context with a morning peak and a daily cap, one
\* without a cap.
Curve(a, b, c) == [peakStart |-> a, peakEnd |-> b, falloffEnd |-> c]
Ctxs == <<[curve |-> Curve(1, 2, 4), cap |-> 2, capPenalty |-> 70, streak |-> 1, streakPenalty |-> 9],
          [curve |-> Curve(0, 0, 3), cap |-> -1, capPenalty |-> 0, streak |-> -1, streakPenalty |-> 0]>>

Both == 0..1
Window(days, from, to, hard) == [days |-> days, from |-> from, to |-> to, hard |-> hard]
By(at, hard, penalty) == {[at |-> at, hard |-> hard, penalty |-> penalty]}
Dep(type, ref) == [type |-> type, ref |-> ref, hard |-> TRUE]

Plain == [chunks |-> <<1>>, pin |-> {}, earliest |-> 0, deadline |-> {}, windows |-> {}, avail |-> {},
          prev |-> <<>>, deps |-> <<>>, ctx |-> 1, must |-> FALSE, priority |-> 1, churn |-> 1,
          sameDay |-> FALSE, ordered |-> FALSE]
Must == [Plain EXCEPT !.must = TRUE]
Spanning(origin, horizon, tasks, events, hours) ==
  [origin |-> origin, horizon |-> horizon,
   tasks |-> tasks, events |-> events, ctxs |-> Ctxs, hours |-> hours,
   weights |-> [base |-> 100, unit |-> 50, fit |-> 1, churn |-> 13, dayMiss |-> 40, timeMiss |-> 21]]
Week(tasks, events, hours) == Spanning(0, 8, tasks, events, hours)
Event(s, d) == [start |-> s, dur |-> d]
Hours == {Window(Both, 1, 4, FALSE)}

\* Contention under business hours: more work than there is room for.
Crowded == Week(
  <<[Plain EXCEPT !.chunks = <<2>>, !.priority = 3, !.deadline = By(3, FALSE, 30)],
    [Plain EXCEPT !.chunks = <<1, 1>>, !.ctx = 2],
    [Plain EXCEPT !.chunks = <<2>>, !.priority = 2, !.windows = {Window({1}, 2, 4, FALSE)}]>>,
  <<Event(2, 1), Event(5, 1)>>, Hours)

\* Ordered chunks, dependencies, lateness, last week's place.
Chained == Week(
  <<[Must EXCEPT !.chunks = <<1, 1>>, !.ordered = TRUE, !.deadline = By(3, FALSE, 17)],
    [Plain EXCEPT !.ctx = 2, !.earliest = 3, !.prev = (1 :> 6)],
    [Plain EXCEPT !.chunks = <<2>>, !.deps = <<Dep("after_task", 1), Dep("before_event", 1)>>]>>,
  <<Event(7, 1), Event(0, 1)>>, {})

\* Cheap places and daily caps pull against each other.
Capped == Week(
  <<[Plain EXCEPT !.chunks = <<1, 1>>, !.priority = 4],
    [Plain EXCEPT !.chunks = <<2>>, !.priority = 4, !.prev = (1 :> 1)],
    [Plain EXCEPT !.chunks = <<1>>, !.windows = {Window({0}, 1, 3, FALSE)}, !.deadline = By(4, TRUE, 0), !.priority = 4]>>,
  <<Event(0, 1)>>, {})

\* Two mandatory tasks that want the same hours of the same day.
Conflict == Week(
  <<[Must EXCEPT !.chunks = <<2>>, !.windows = {Window({0}, 1, 4, TRUE)}],
    [Must EXCEPT !.chunks = <<2>>, !.deadline = By(4, TRUE, 0), !.earliest = 1],
    [Plain EXCEPT !.ctx = 2]>>,
  <<Event(6, 2)>>, {})

\* A mandatory task that fits nowhere beside one that does; a mask, a pin.
Unplaced == Week(
  <<[Must EXCEPT !.chunks = <<2>>, !.avail = {[from |-> 4, to |-> 5]}],
    [Must EXCEPT !.pin = {2}],
    [Plain EXCEPT !.avail = {[from |-> 1, to |-> 3], [from |-> 6, to |-> 8]}, !.deps = <<Dep("before_task", 2)>>]>>,
  <<>>, Hours)

\* A cycle of dependencies among mandatory tasks.
Cycle == Week(
  <<[Must EXCEPT !.deps = <<Dep("after_task", 2)>>],
    [Must EXCEPT !.deps = <<Dep("after_task", 1), Dep("after_event", 1)>>]>>,
  <<Event(0, 1)>>, {})

\* Immovable events that overlap.
Overlapping == Week(<<[Must EXCEPT !.ctx = 2]>>, <<Event(1, 2), Event(2, 2), Event(6, 1)>>, {})

\* A hard window exempts a mandatory task from business hours that would
\* refuse it; deleting the window must not bring them back.
Exempt == Week(
  <<[Must EXCEPT !.chunks = <<2>>, !.windows = {Window({0}, 0, 2, TRUE)}],
    [Must EXCEPT !.chunks = <<2>>, !.windows = {Window({0}, 0, 3, TRUE)}],
    [Must EXCEPT !.chunks = <<3>>, !.deadline = By(8, TRUE, 0)]>>,
  <<Event(4, 1)>>, {Window(Both, 1, 4, FALSE)})

\* Two mandatory tasks that fit in one order only.
Tight == Week(
  <<[Must EXCEPT !.chunks = <<2>>, !.windows = {Window({0}, 0, 3, TRUE)}],
    [Must EXCEPT !.deadline = By(2, TRUE, 0)],
    [Plain EXCEPT !.chunks = <<1, 1>>, !.sameDay = TRUE, !.earliest = 5]>>,
  <<Event(3, 2)>>, {})

\* Two tasks that want one place: the dearer is packed first and keeps it, and
\* only the price of contention bounds what the other order would gain.
Contended == Week(
  <<[Plain EXCEPT !.ctx = 0, !.chunks = <<2>>, !.prev = (1 :> 0), !.priority = 6],
    [Plain EXCEPT !.ctx = 0, !.prev = (1 :> 0)]>>, <<>>, {})

\* From the middle of a day: capped chunks that no window lets cross midnight may
\* lie across the window's own days, or in what is left after the last whole one.
Daytime == {Window(Both, 0, 4, TRUE)}
Midday == Spanning(2, 6,
  <<[Plain EXCEPT !.chunks = <<2>>, !.windows = Daytime, !.priority = 9, !.prev = (1 :> 0)],
    [Plain EXCEPT !.chunks = <<1>>, !.windows = Daytime, !.priority = 9, !.prev = (1 :> 0)],
    [Plain EXCEPT !.chunks = <<1>>, !.ctx = 2, !.earliest = 1]>>,
  <<>>, {})

\* More than the cap pinned after the last whole day; a deadline long past.
Leftover == Spanning(1, 7,
  <<[Must EXCEPT !.chunks = <<3>>, !.pin = {4}, !.windows = Daytime],
    [Plain EXCEPT !.chunks = <<2>>, !.deadline = By(-3, FALSE, 20)]>>,
  <<Event(1, 1)>>, {})

Overdue == Spanning(1, 4,
  <<[Plain EXCEPT !.deadline = By(-2, FALSE, 20)], [Must EXCEPT !.ctx = 2, !.earliest = 1, !.deadline = By(-3, FALSE, 11)]>>,
  <<>>, {})

\* More than the cap fits there, where nothing is charged; the engine's bound is
\* above the cheapest plan.
Evening == Spanning(1, 7,
  <<[Plain EXCEPT !.chunks = <<3>>, !.priority = 9, !.prev = (1 :> 0)], [Must EXCEPT !.ctx = 2]>>, <<>>, {})

Raw == <<Crowded, Chained, Capped, Conflict, Unplaced, Cycle, Overlapping, Exempt, Tight, Contended,
         Midday, Leftover, Overdue, Evening>>

-----------------------------------------------------------------------------
\* Weeks as a resolve reads them.
Steady == [off |-> 0, at |-> 1000, by |-> 0]
Eastern == [Steady EXCEPT !.off = Grain]
\* Its clock goes back by a quarter when it first reads the fourth.
Autumn == [off |-> 0, at |-> 3 * Grain, by |-> -Grain]

Row == [kind |-> "task", event |-> 0, status |-> "pending", chunks |-> <<2>>, pin |-> {}, stamp |-> {},
        template |-> FALSE, earliest |-> {}, deadline |-> {}, windows |-> {}, deps |-> <<>>, ctx |-> 1,
        must |-> FALSE, priority |-> 1, sameDay |-> FALSE, ordered |-> FALSE, moved |-> {}, policy |-> {}]
Held(s, e) == [start |-> s, end |-> e, allDay |-> FALSE, away |-> FALSE, status |-> "confirmed", chunk |-> NoChunk,
               stamped |-> TRUE, painted |-> FALSE, poll |-> FALSE, organised |-> FALSE, attendees |-> {}]
Chunk(t, k, s, e) == [Held(s, e) EXCEPT !.chunk = <<t, k>>]
Guest(who, response) == [who |-> who, said |-> response, self |-> FALSE, resource |-> FALSE]
Owned(s, e, guests) == [Held(s, e) EXCEPT !.organised = TRUE, !.attendees = guests]
Record(t, k, event) == [chunk |-> <<t, k>>, confirmed |-> TRUE, event |-> event]
Accepted(zone, from, chunks) == [zone |-> zone, from |-> from, chunks |-> chunks]
In(zone, days, from, to, hard) == [days |-> days, from |-> from, to |-> to, hard |-> hard, zone |-> {zone}]

Read(rows, events) ==
  [now |-> 0, from |-> 0, till |-> 2 * DayLength, upcoming |-> FALSE, zone |-> Steady, rows |-> rows,
   events |-> events, records |-> {}, accepted |-> <<>>, freeBusy |-> <<>>, hours |-> {}, ctxs |-> Ctxs,
   weights |-> Crowded.weights, tentative |-> FALSE, meetings |-> TRUE, notice |-> 2, stability |-> 4,
   cap |-> 3, policy |-> "not_declined"]

\* In the first day, two plans accepted, the newer in another zone: one chunk done, a pin that has passed, another week's task.
Begun == [Read(
  <<[Row EXCEPT !.chunks = <<2, 3>>, !.stamp = {0}],
    [Row EXCEPT !.pin = {0}, !.stamp = {0}, !.must = TRUE],
    [Row EXCEPT !.stamp = {20}],
    [Row EXCEPT !.deadline = {[at |-> 14, hard |-> TRUE, penalty |-> 0]},
                !.deps = <<Dep("after_task", 1), Dep("after_event", 3)>>]>>,
  <<[Chunk(1, 1, 0, 2) EXCEPT !.painted = TRUE], Chunk(1, 2, 4, 7), Held(8, 11),
    [Held(6, 8) EXCEPT !.status = "tentative"]>>)
  EXCEPT !.now = 3, !.accepted = <<Accepted(Eastern, 0, {[chunk |-> <<1, 2>>, start |-> 8]}),
                                   Accepted(Steady, 2, {[chunk |-> <<1, 2>>, start |-> 4]})>>]

\* A meeting in the way of a pin, one too soon to move, one nobody answers for.
Meeting(event) == [Row EXCEPT !.kind = "meeting", !.event = event, !.must = TRUE, !.ctx = 0, !.priority = 100]
Meetings == [Read(
  <<[Meeting(1) EXCEPT !.earliest = {4}], [Meeting(2) EXCEPT !.earliest = {1}], [Row EXCEPT !.pin = {4}, !.must = TRUE]>>,
  <<Owned(4, 6, {Guest("ann", "accepted"), Guest("bob", "declined")}), Owned(1, 3, {Guest("ann", "accepted")}),
    Owned(10, 12, {Guest("cy", "needsAction")})>>)
  EXCEPT !.freeBusy = ("ann" :> [known |-> TRUE, busy |-> {Interval(6, 9)}]) @@ ("cy" :> [known |-> FALSE, busy |-> {}]),
         !.hours = Hours]

\* A clock that goes back, and windows kept in another zone.
Travelling == [Read(
  <<[Row EXCEPT !.windows = {In(Eastern, {0}, 2, 4, TRUE)}, !.must = TRUE],
    [Row EXCEPT !.windows = {In(Eastern, {0, 1}, 0, 2, TRUE)}],
    [Row EXCEPT !.windows = {In(Eastern, {1}, 2, 4, FALSE)}]>>,
  <<Held(6, 7)>>)
  EXCEPT !.zone = Autumn, !.till = FromLocal(Autumn, 2 * DayLength)]

\* A record whose event is gone, beside a stray of it; a task taken up again; a
\* chunk of another deployment; a day away.
Repainted == [Read(
  <<[Row EXCEPT !.chunks = <<2, 2>>], [Row EXCEPT !.status = "done", !.stamp = {2}]>>,
  <<Chunk(1, 1, 0, 2), Chunk(2, 1, 2, 4), [Chunk(9, 1, 4, 6) EXCEPT !.stamped = FALSE],
    [Held(10, 11) EXCEPT !.away = TRUE]>>)
  EXCEPT !.records = {Record(1, 1, 9), Record(2, 1, 2)}]

Readings == <<Begun, Meetings, Travelling, Repainted>>

\* The same problem, evaluated once: TLC keeps a function over an interval as a
\* rule and a concatenation as a tuple.
Evaluated(p) ==
  LET Add(acc, t) == Append(acc, [t EXCEPT !.chunks = @ \o <<>>, !.deps = @ \o <<>>])
  IN [p EXCEPT !.tasks = FoldLeft(Add, <<>>, @), !.events = @ \o <<>>]

Weeks ==
  LET Sent(r) == Evaluated(Problem(r))
  IN [i \in DOMAIN Readings |-> Sent(Readings[i])] \o Raw

\* TLC works a definition out once, what replaces a constant at every use.
WiresValue == LET weeks == Weeks IN weeks
=============================================================================
