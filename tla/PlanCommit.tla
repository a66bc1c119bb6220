------------------------------- MODULE PlanCommit -------------------------------
(***************************************************************************)
(* What a commit does between its claim and its mark: it reads the user's  *)
(* calendar, updates, relocates, creates and deletes chunk events one call *)
(* at a time, moves meetings and their booking rows, and ends with one D1  *)
(* batch that writes the tasks and marks the plan.  The user edits the     *)
(* calendar and finishes tasks meanwhile, a call may throw, the worker may *)
(* be killed (it takes no more steps), and a second attempt may take the   *)
(* claim over after the lease.  Every behaviour of this module is one of   *)
(* ProposedPlans, whose properties it inherits.                            *)
(***************************************************************************)
EXTENDS ProposedPlans, Naturals

CONSTANTS Chunk,    \* chunk ids of the plans' entries that are not meetings
          Task,     \* tasks, owned meetings included
          TaskOf,   \* TaskOf[k]: the task chunk k is part of
          Meeting,  \* the tasks that mirror a calendar meeting
          Slot,     \* start times, as numbers; the wide scan reaches all of them
          Window,   \* Window[p]: the slots of plan p's window
          Sched,    \* Sched[p]: a function from p's chunks to slots
          MeetAt,   \* MeetAt[p]: a function from p's meetings to slots
          Dropped,  \* Dropped[p]: the tasks p drops
          Event,    \* event ids, handed out once each
          MaxEdits  \* bound on the edits the user makes

ASSUME PlanBody ==
  /\ Slot \subseteq Nat /\ MaxEdits \in Nat /\ Meeting \subseteq Task /\ TaskOf \in [Chunk -> Task \ Meeting]
  /\ \A p \in Plan :
       /\ DOMAIN Sched[p] \subseteq Chunk /\ DOMAIN MeetAt[p] \subseteq Meeting
       /\ \A k \in DOMAIN Sched[p] : Sched[p][k] \in Window[p]
       /\ \A m \in DOMAIN MeetAt[p] : MeetAt[p][m] \in Window[p]
       /\ Window[p] \subseteq Slot /\ Dropped[p] \subseteq Task

ASSUME NoneIsNothing == None \notin Chunk \cup Slot \cup Event \cup Meeting

VARIABLES events,   \* the chunk events: the chunk tag and the slot, None once deleted
          meet,     \* meet[m]: the slot of meeting m's own calendar event
          booking,  \* booking[m]: the slot in the booking row of m's event
          task,     \* the task rows: status, scheduled_for, last_committed_move_at set
          edits,    \* how many edits the user has made
          work      \* what each commit request holds while it applies its plan

calendar == <<events, meet, booking, task, edits>>
cvars    == <<vars, events, meet, booking, task, edits, work>>

NoEvent  == [chunk |-> None, slot |-> None]
IdleWork == [phase |-> "read", seen |-> [k \in Chunk |-> None], stray |-> [k \in Chunk |-> {}],
             todo |-> {}, extra |-> {}, drop |-> {}, moves |-> {}, sync |-> None,
             moved |-> {}, stale |-> FALSE, twin |-> FALSE]

Live(t) == task[t].status \in {"pending", "committed"}

\* The live events that carry chunk k, anywhere and in a set of slots.
Copies(k)       == {e \in Event : events[e].chunk = k /\ events[e].slot # None}
CopiesIn(k, W)  == {e \in Copies(k) : events[e].slot \in W}

\* Any calendar with at most one event per chunk, and booking rows that agree with it.
CalendarInit ==
  /\ events \in [Event -> {NoEvent} \cup [chunk : Chunk, slot : Slot]]
  /\ \A k \in Chunk : \A e, f \in Copies(k) : e = f
  /\ meet \in [Meeting -> Slot]
  /\ booking = meet
  /\ task = [t \in Task |-> [status |-> "pending", at |-> None, stamped |-> FALSE]]
  /\ edits = 0
  /\ work = [c \in Commit |-> IdleWork]

---------------------------------------------------------------------------------
(* The two reads.                                                               *)

Applying(c, phase) == commit[c].stage = "applying" /\ work[c].phase = phase

Proposed(c) == {k \in DOMAIN Sched[commit[c].plan] : Live(TaskOf[k])}

\* The in-window fetch and the task rows: which chunks, events and meetings need a
\* call.  Of several events with one chunk tag the map keeps the last one listed.
ReadWindow(c) == LET p == commit[c].plan  W == Window[p]  want == Proposed(c) IN
  /\ Applying(c, "read")
  /\ \E seen \in [Chunk -> Event \cup {None}] :
       /\ \A k \in Chunk : IF CopiesIn(k, W) = {} THEN seen[k] = None
                                                  ELSE seen[k] \in CopiesIn(k, W)
       /\ work' = [work EXCEPT ![c] = [IdleWork EXCEPT
            !.phase = IF \E k \in want : seen[k] = None THEN "wide" ELSE "apply",
            !.seen  = seen,
            !.todo  = {k \in want : seen[k] # None => events[seen[k]].slot # Sched[p][k]},
            !.drop  = {seen[k] : k \in Chunk \ want} \ {None},
            !.moves = {m \in DOMAIN MeetAt[p] : Live(m) /\ meet[m] \in W \ {MeetAt[p][m]}},
            !.twin  = \E k \in Chunk : \E e, f \in Copies(k) : e # f]]
  /\ UNCHANGED <<vars, calendar>>

\* Mutant of ReadWide: the far scan is skipped.
ReadNearOnly(c) ==
  /\ Applying(c, "wide")
  /\ work' = [work EXCEPT ![c].phase = "apply"]
  /\ UNCHANGED <<vars, calendar>>

\* Duplicate-mint guard: look for the missing chunks' events far around the window.
ReadWide(c) ==
  /\ Applying(c, "wide")
  /\ work' = [work EXCEPT
       ![c].phase = "apply",
       ![c].stray = [k \in Chunk |-> IF k \in work[c].todo /\ work[c].seen[k] = None
                                     THEN Copies(k) ELSE {}]]
  /\ UNCHANGED <<vars, calendar>>

---------------------------------------------------------------------------------
(* The calendar calls, in order: per proposed chunk an update, a relocation
   (with its extras deleted) or a creation; then deletions; then meetings.      *)

\* History: what every attempt that has read the calendar knows is out of date.
Stale(d) == [work[d] EXCEPT !.stale = @ \/ (commit[d].stage = "applying" /\ work[d].phase # "read")]

Writes(c, rec) == work' = [d \in Commit |-> IF d = c THEN rec ELSE Stale(d)]

Place(c, k, e) == events' = [events EXCEPT ![e] = [chunk |-> k, slot |-> Sched[commit[c].plan][k]]]

Chunks(c, k) == Applying(c, "apply") /\ work[c].extra = {} /\ k \in work[c].todo

Done(c, k) == [work[c] EXCEPT !.todo = @ \ {k}]

\* An update of an event that is gone throws (CommitThrow).
UpdateChunk(c, k) == LET e == work[c].seen[k] IN
  /\ Chunks(c, k) /\ e # None
  /\ events[e].slot # None
  /\ Place(c, k, e)
  /\ Writes(c, Done(c, k))
  /\ UNCHANGED <<vars, meet, booking, task, edits>>

\* Mutant of RelocateChunk: the relocated event is among the extras to delete.
RelocateAndDelete(c, k) ==
  /\ Chunks(c, k) /\ work[c].seen[k] = None
  /\ \E keep \in work[c].stray[k] :
       /\ events[keep].slot # None
       /\ Place(c, k, keep)
       /\ Writes(c, [Done(c, k) EXCEPT !.extra = work[c].stray[k]])
  /\ UNCHANGED <<vars, meet, booking, task, edits>>

RelocateChunk(c, k) ==
  /\ Chunks(c, k) /\ work[c].seen[k] = None
  /\ \E keep \in work[c].stray[k] :
       /\ events[keep].slot # None
       /\ Place(c, k, keep)
       /\ Writes(c, [Done(c, k) EXCEPT !.extra = work[c].stray[k] \ {keep}])
  /\ UNCHANGED <<vars, meet, booking, task, edits>>

CreateChunk(c, k) ==
  /\ Chunks(c, k) /\ work[c].seen[k] = None /\ work[c].stray[k] = {}
  /\ \E e \in Event : events[e] = NoEvent /\ Place(c, k, e)
  /\ Writes(c, Done(c, k))
  /\ UNCHANGED <<vars, meet, booking, task, edits>>

\* An extra copy at once, an unplanned event after the last placement.
DeleteEvent(c, e) ==
  /\ Applying(c, "apply")
  /\ e \in work[c].extra \/ (work[c].extra = {} /\ work[c].todo = {} /\ e \in work[c].drop)
  /\ events' = [events EXCEPT ![e].slot = None]
  /\ Writes(c, [work[c] EXCEPT !.extra = @ \ {e}, !.drop = @ \ {e}])
  /\ UNCHANGED <<vars, meet, booking, task, edits>>

Meets(c, m) == /\ Applying(c, "apply") /\ work[c].todo \cup work[c].extra \cup work[c].drop = {}
               /\ m \in work[c].moves /\ work[c].sync = None

\* The attendees are notified; the booking row is another call.
MoveMeeting(c, m) ==
  /\ Meets(c, m)
  /\ meet' = [meet EXCEPT ![m] = MeetAt[commit[c].plan][m]]
  /\ Writes(c, [work[c] EXCEPT !.sync = m])
  /\ UNCHANGED <<vars, events, booking, task, edits>>

SyncBooking(c) == LET m == work[c].sync IN
  /\ Applying(c, "apply") /\ m # None
  /\ booking' = [booking EXCEPT ![m] = MeetAt[commit[c].plan][m]]
  /\ work' = [work EXCEPT ![c].sync = None, ![c].moves = @ \ {m}, ![c].moved = @ \cup {m}]
  /\ UNCHANGED <<vars, events, meet, task, edits>>

---------------------------------------------------------------------------------
(* The batch.                                                                   *)

\* The slots plan p gives task t.
Starts(p, t) == {Sched[p][k] : k \in {k \in DOMAIN Sched[p] : TaskOf[k] = t}}
                  \cup {MeetAt[p][m] : m \in DOMAIN MeetAt[p] \cap {t}}

EarliestStart(p, t) == CHOOSE s \in Starts(p, t) : \A x \in Starts(p, t) : s <= x

\* Mutant of Ready: the batch does not wait for the deletions and the meetings.
ReadyEarly(c) == Applying(c, "apply") /\ work[c].todo \cup work[c].extra = {}

Ready(c) == Applying(c, "apply") /\ work[c].sync = None
            /\ work[c].todo \cup work[c].extra \cup work[c].drop \cup work[c].moves = {}

\* The task statements of the batch, live-status guard included.
TasksWritten(c) == LET p == commit[c].plan IN [t \in Task |->
  [ status  |-> IF ~Live(t) THEN task[t].status ELSE IF t \in Dropped[p] THEN "pending"
                ELSE IF Starts(p, t) # {} THEN "committed" ELSE task[t].status,
    at      |-> IF ~Live(t) THEN task[t].at ELSE IF t \in Dropped[p] THEN None
                ELSE IF Starts(p, t) # {} THEN EarliestStart(p, t) ELSE task[t].at,
    stamped |-> task[t].stamped \/ t \in work[c].moved ]]

\* The task statements take effect whether or not the mark, last, finds its row.
Batch(c) ==
  /\ Ready(c)
  /\ CommitBatch(c)
  /\ task' = TasksWritten(c)
  /\ work' = [work EXCEPT ![c] = IdleWork]
  /\ UNCHANGED <<events, meet, booking, edits>>

---------------------------------------------------------------------------------
(* The user, in the calendar application and in the task list.                  *)

UserEdit == /\ edits < MaxEdits /\ edits' = edits + 1
            /\ work' = [d \in Commit |-> Stale(d)]

UserMovesEvent(e, s) ==
  /\ events[e].slot \notin {None, s}
  /\ events' = [events EXCEPT ![e].slot = s]
  /\ UserEdit
  /\ UNCHANGED <<vars, meet, booking, task>>

UserFinishes(t) ==
  /\ t \notin Meeting /\ Live(t)
  /\ task' = [task EXCEPT ![t].status = "done"]
  /\ UserEdit
  /\ UNCHANGED <<vars, events, meet, booking>>

Apply(c) ==
  \/ ReadWindow(c) \/ ReadWide(c) \/ SyncBooking(c) \/ Batch(c)
  \/ \E k \in Chunk : UpdateChunk(c, k) \/ RelocateChunk(c, k) \/ CreateChunk(c, k)
  \/ \E e \in Event : DeleteEvent(c, e)
  \/ \E m \in Meeting : MoveMeeting(c, m)

User == \/ \E e \in Event, s \in Slot \cup {None} : UserMovesEvent(e, s)
        \/ \E t \in Task : UserFinishes(t)

\* The steps of ProposedPlans that touch no calendar and no task.  An attempt that
\* throws forgets what it held.
Bookkeeping == /\ \/ ResolveNext \/ PatchNext \/ TimeAndOwner
                  \/ \E c \in Commit : CommitProceeds(c)
               /\ work' = [c \in Commit |-> IF commit'[c].stage = "applying" THEN work[c] ELSE IdleWork]
               /\ UNCHANGED calendar

CommitsNext == Bookkeeping \/ User \/ \E c \in Commit : Apply(c)

CommitSpec == Init /\ CalendarInit /\ [][CommitsNext]_cvars

\* The same from the moment the resolves have offered every plan.
OfferedInit ==
  /\ home \in Zone
  /\ plan = [p \in Plan |-> [NoRow EXCEPT !.status = "pending", !.tz = home]]
  /\ resolve = [r \in Resolve |-> IdleResolve]
  /\ commit = [c \in Commit |-> IdleCommit]
  /\ patch = [u \in Patch |-> IdlePatch]
  /\ CalendarInit

OfferedSpec == OfferedInit /\ [][CommitsNext]_cvars

---------------------------------------------------------------------------------
(* Properties.  An attempt is undisturbed while nobody else has changed the
   calendar or finished a task since it read them.                              *)

EventRec == [chunk : Chunk, slot : Slot \cup {None}]

TaskRec == [status : {"pending", "committed", "done"}, at : Slot \cup {None}, stamped : BOOLEAN]

WorkRec == [phase : {"read", "wide", "apply"}, seen : [Chunk -> Event \cup {None}],
            stray : [Chunk -> SUBSET Event], todo : SUBSET Chunk, extra : SUBSET Event,
            drop : SUBSET Event, moves : SUBSET Meeting, sync : Meeting \cup {None},
            moved : SUBSET Meeting, stale : BOOLEAN, twin : BOOLEAN]

\* The calendar, the tasks and what a commit holds have their types, no event loses
\* its chunk tag, a committed task has a time, and an attempt that has read nothing
\* holds nothing.
CommitTypeOK ==
  /\ events \in [Event -> {NoEvent} \cup EventRec]
  /\ meet \in [Meeting -> Slot] /\ booking \in [Meeting -> Slot]
  /\ task \in [Task -> TaskRec]
  /\ work \in [Commit -> WorkRec]
  /\ \A t \in Task : task[t].status = "committed" => task[t].at \in Slot
  /\ \A c \in Commit : work[c].phase = "read" => work[c] = IdleWork

\* Duplicate-mint guard: an undisturbed commit creates no event for a chunk that
\* has one, in the window or in another week.
NeverMintsTwice ==
  [][\A c \in Commit, k \in Chunk :
       CreateChunk(c, k) /\ Copies(k) # {} => work[c].stale]_cvars

\* Placements first, deletions last: whatever call fails or whenever the worker
\* dies, an undisturbed commit never takes away the last event of a chunk it is
\* to place.
NoChunkLost ==
  [][\A c \in Commit : Apply(c) => \A k \in Proposed(c) :
       Copies(k) # {} => Copies(k)' # {} \/ work[c].stale]_cvars

\* The calendar shows plan p: one event per proposed chunk of commit c, where the
\* plan puts it, none of another chunk in the window, the meetings moved.
Shows(c) == LET p == commit[c].plan IN
  /\ \A k \in Proposed(c) : \E e \in Event :
        Copies(k) = {e} /\ events[e].slot = Sched[p][k]
  /\ \A k \in Chunk \ Proposed(c) : CopiesIn(k, Window[p]) = {}
  /\ \A m \in DOMAIN MeetAt[p] :
        Live(m) /\ meet[m] \in Window[p] => meet[m] = MeetAt[p][m]

\* After the mark a live task of the plan is scheduled for the earliest of its
\* events, and a dropped one is back in the backlog.
TasksAgree(c) == LET p == commit[c].plan IN
  \A t \in Task \ Meeting : Live(t) =>
    /\ t \in Dropped[p] => task'[t].status = "pending" /\ task'[t].at = None
    /\ t \notin Dropped[p] /\ Starts(p, t) # {} =>
         LET mine == {events[e].slot : e \in UNION {Copies(k) : k \in {k \in DOMAIN Sched[p] : TaskOf[k] = t}}}
         IN  task'[t].at \in mine /\ \A s \in mine : task'[t].at <= s

Marks(c) == Batch(c) /\ Markable(c)

\* A re-click converges: however many earlier attempts threw or died half way, an
\* undisturbed commit that marks its plan leaves the calendar and the tasks as
\* the plan says, provided no chunk had two events when it read them.
MarkMeansApplied ==
  [][\A c \in Commit : Marks(c) /\ ~work[c].stale /\ ~work[c].twin
       => Shows(c) /\ TasksAgree(c)]_cvars

\* The table of ProposedPlans is what a commit moves through.
TableSpec == Spec
=================================================================================
