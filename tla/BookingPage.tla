---------------------------- MODULE BookingPage ----------------------------
(***************************************************************************)
(* The public booking page: which starts it offers (booking/slots.ts,      *)
(* booking/availability.ts, booking/bookable-over.ts), a visitor's claim   *)
(* of one (booking/route.ts, db/bookings.ts), and what follows when the    *)
(* visitor declines the invitation: the webhook starts the grace clock     *)
(* (booking/decline-cancel.ts), unless its run fails on the way, and the   *)
(* sweep cancels the meeting (cron/booking-decline-sweep.ts), while the    *)
(* owner and a commit of a plan move or delete the same events             *)
(* (planning/commit.ts).                                                   *)
(*                                                                         *)
(* Time is counted in steps of the page's grid.  A visit is one claim; it, *)
(* its row and its event share an id, as the row's id is the event's tag.  *)
(* Every await that another actor can get between ends a step.             *)
(***************************************************************************)
EXTENDS Integers, FiniteSets

CONSTANTS
    Visits,
    Meetings,       \* the owner's own meetings, with somebody else invited
    MeetingAt,      \* when each of them starts
    Hours,          \* steps inside the page's opening hours
    OwnBusy,        \* steps the owner's other events and pinned chunks take
    Duration, Before, After, Notice,
    PageSize, Reach,   \* horizon_days and max_horizon_days
    MeetingNotice,  \* MEETING_MIN_NOTICE_MINUTES and the headroom over it
    Grace,          \* BOOKING_DECLINE_GRACE_MINUTES
    MaxNow,         \* bound: the clock
    MaxUpsets,      \* bound: what happens from outside: a visitor's answer, a
                    \* move, deletion or verdict, a failed call, a death
    None

Events == Visits \cup Meetings
ASSUME BookingAssumption ==
    /\ IsFiniteSet(Hours) /\ OwnBusy \subseteq Hours /\ Hours \subseteq Nat
    /\ Visits \cap Meetings = {} /\ MeetingAt \in [Meetings -> Hours]
    /\ {Duration, PageSize, Reach} \subseteq Nat \ {0} /\ PageSize <= Reach
    /\ {Before, After, Notice, MeetingNotice, Grace, MaxNow, MaxUpsets} \subseteq Nat
    /\ None \notin Nat

VARIABLES
    now, rows, events,
    visit,    \* the claim request of each visit
    armed,    \* the coordinator owes the webhook's replan a run
    news,     \* events that changed beyond the stored sync token
    taken,    \* what the run under way has read, its token not stored yet
    heard,    \* what it read of an event and has not applied yet
    sweep,    \* the sweep's progress with each row
    used,
    lost,     \* history: events left behind by a createEvent whose reply was lost
    missed    \* history: events whose last change the token has moved past unheard

replan == <<armed, news, taken, heard, missed>>
bvars == <<now, rows, events, visit, replan, sweep, used, lost>>

-----------------------------------------------------------------------------
(* What the page offers.                                                   *)

Span(t) == t..(t + Duration - 1)
\* Mutant of Gap: each side of a busy block padded by the larger buffer only.
WiderGap == IF Before > After THEN Before ELSE After
Gap == Before + After
Padded(t) == (t - Gap)..(t + Duration - 1 + Gap)

\* The half-open window of a page of a request made at n.
PageExists(page) == page * PageSize < Reach
PageWindow(n, page) ==
    LET to == (page + 1) * PageSize
    IN  [start |-> n + page * PageSize, end |-> n + IF to < Reach THEN to ELSE Reach]
PageForStart(n, t) == IF t < n THEN 0 ELSE (t - n) \div PageSize
Overlaps(window, t) == t < window.end /\ t + Duration > window.start

\* A start is offered when the whole meeting lies in the opening hours of the
\* window, past the notice, and clear of every padded busy block.
Fits(n, window, blocks, t) ==
    \A s \in Span(t) : /\ s \in Hours /\ n + Notice <= s
                       /\ window.start <= s /\ s < window.end
                       /\ \A b \in blocks : s \notin Padded(b)

Live(row) == row.status \in {"reserving", "confirmed"}
RowBlocks(window) == {rows[v].start : v \in {u \in Visits : Live(rows[u])
                                                /\ Overlaps(window, rows[u].start)}}
OwnBlocks(window) == {s \in OwnBusy : window.start <= s /\ s < window.end}
Shown(window) == {e \in Events : events[e].live /\ Overlaps(window, events[e].start)}

\* Meetings late enough to be moved, and those of them that may be booked over:
\* the last resolve found them movable and no confirmed booking holds them.
MovableAt(n, shown) == {e \in shown : events[e].start >= n + MeetingNotice}
Booked(n) == {v \in Visits : rows[v].status = "confirmed" /\ rows[v].event
                                /\ rows[v].start > n}
BookableOver(n) == {e \in Events : events[e].movable} \ Booked(n)

Starts(set) == {events[e].start : e \in set}
Bookable(n, window) ==
    LET shown == Shown(window)
        over == MovableAt(n, shown) \cap BookableOver(n)
    IN  {t \in Hours : Fits(n, window, OwnBlocks(window) \cup Starts(shown \ over)
                                            \cup RowBlocks(window), t)}

\* GET /book/:slug/slots, one page at a time; a page past the reach is refused.
Offered(n, page) == IF PageExists(page) THEN Bookable(n, PageWindow(n, page)) ELSE {}

-----------------------------------------------------------------------------
Row == [status : {"none", "reserving", "confirmed", "failed", "cancelled"},
        start : Hours \cup {None}, event : BOOLEAN, stamp : 0..MaxNow \cup {None}]
Event == [live : BOOLEAN, start : Hours \cup {None}, declined : BOOLEAN,
          movable : BOOLEAN, moved : BOOLEAN, sync : BOOLEAN]
Visit == [at : {"new", "look", "claim", "create", "release", "confirm", "done"},
          start : Hours \cup {None}, now : 0..MaxNow, over : SUBSET Events]
Sweep == [at : {"idle", "check", "delete", "mark"}, now : 0..MaxNow]
Heard == [what : {"nothing", "declined", "open"}, start : Hours \cup {None}]
Nothing == [what |-> "nothing", start |-> None]
Unheard == [v \in Visits |-> Nothing]
Idle == [at |-> "idle", now |-> 0]
Fresh == [at |-> "new", start |-> None, now |-> 0, over |-> {}]
Over(v) == [Fresh EXCEPT !.at = "done"]
NoEvent == [live |-> FALSE, start |-> None, declined |-> FALSE, movable |-> FALSE,
            moved |-> FALSE, sync |-> FALSE]

BookingTypeOK ==
    /\ now \in 0..MaxNow /\ rows \in [Visits -> Row] /\ events \in [Events -> Event]
    /\ visit \in [Visits -> Visit]
    /\ armed \in BOOLEAN /\ news \subseteq Visits /\ taken \subseteq Visits
    /\ heard \in [Visits -> Heard] /\ missed \subseteq Visits
    /\ sweep \in [Visits -> Sweep] /\ lost \subseteq Visits
    /\ used \in 0..MaxUpsets

Init ==
    /\ now = 0
    /\ rows = [v \in Visits |-> [status |-> "none", start |-> None, event |-> FALSE,
                                 stamp |-> None]]
    /\ events = [e \in Events |-> IF e \in Visits THEN NoEvent
                                  ELSE [NoEvent EXCEPT !.live = TRUE,
                                                       !.start = MeetingAt[e]]]
    /\ visit = [v \in Visits |-> Fresh]
    /\ armed = FALSE /\ news = {} /\ taken = {} /\ heard = Unheard /\ missed = {}
    /\ sweep = [v \in Visits |-> Idle]
    /\ used = 0 /\ lost = {}

Upset == used < MaxUpsets /\ used' = used + 1
Go(v, to) == visit' = [visit EXCEPT ![v].at = to]
Close(v) == visit' = [visit EXCEPT ![v] = Over(v)]

-----------------------------------------------------------------------------
(* POST /book/:slug.                                                       *)

\* A request that gets past the challenge, the body's checks and the counters, none
\* of which writes anything: the page holding its start, and the live calendar of
\* that page's window.
Ask(v, t) ==
    LET page == PageForStart(now, t)
        window == PageWindow(now, page)
        shown == Shown(window)
        near == {e \in shown : Span(t) \cap Padded(events[e].start) # {}}
    IN  /\ visit[v].at = "new"
        /\ IF /\ PageExists(page) /\ near \subseteq MovableAt(now, shown)
              /\ Fits(now, window, OwnBlocks(window), t)
           THEN visit' = [visit EXCEPT ![v] = [at |-> "look", start |-> t, now |-> now,
                                               over |-> near]]
           ELSE Close(v)
        /\ UNCHANGED <<now, rows, events, replan, sweep, used, lost>>

\* The rest of computeAvailability: the meetings' verdicts and the bookings.
Look(v) ==
    LET t == visit[v].start
        n == visit[v].now
        window == PageWindow(n, PageForStart(n, t))
    IN  /\ visit[v].at = "look"
        /\ IF visit[v].over \subseteq BookableOver(n) /\ Fits(n, window, RowBlocks(window), t)
           THEN visit' = [visit EXCEPT ![v].at = "claim", ![v].over = {}]
           ELSE Close(v)
        /\ UNCHANGED <<now, rows, events, replan, sweep, used, lost>>

\* claimSlot's guard: the claim's padded bounds, padded again, clear of every
\* live row that `among` admits.
ClearOf(t, among) ==
    \A v \in among : ~ /\ rows[v].start < t + Duration + After + Before
                       /\ rows[v].start + Duration > t - Before - After
\* Mutant of Claimable: only a confirmed booking blocks a claim.
ClaimableOverReserved(t) == ClearOf(t, {v \in Visits : rows[v].status = "confirmed"})
Claimable(t) == ClearOf(t, {v \in Visits : Live(rows[v])})

Claim(v) ==
    /\ visit[v].at = "claim"
    /\ IF Claimable(visit[v].start)
       THEN /\ rows' = [rows EXCEPT ![v].status = "reserving", ![v].start = visit[v].start]
            /\ Go(v, "create")
       ELSE Close(v) /\ UNCHANGED rows
    /\ UNCHANGED <<now, events, replan, sweep, used, lost>>

\* createEvent with the booking's id as the event's tag.  A failed call may
\* have created the event all the same.
Create(v) ==
    LET made == [events EXCEPT ![v] = [NoEvent EXCEPT !.live = TRUE, !.start = visit[v].start]]
    IN  /\ visit[v].at = "create"
        /\ \/ events' = made /\ Go(v, "confirm") /\ UNCHANGED <<used, lost>>
           \/ UNCHANGED <<events, lost>> /\ Go(v, "release") /\ Upset
           \/ events' = made /\ lost' = lost \cup {v} /\ Go(v, "release") /\ Upset
        /\ UNCHANGED <<now, rows, replan, sweep>>

\* failBooking: the slot opens again.
Release(v) ==
    /\ visit[v].at = "release"
    /\ rows' = [rows EXCEPT ![v].status = "failed"] /\ Close(v)
    /\ UNCHANGED <<now, events, replan, sweep, used, lost>>

\* The owner is told as soon as the event exists, whatever comes of the row:
\* confirmBooking; when it fails the row stays reserving, for the event exists.
ConfirmWhen(v, kept) ==
    /\ visit[v].at = "confirm" /\ Close(v)
    /\ \/ /\ rows' = [rows EXCEPT ![v].status = "confirmed", ![v].event = TRUE]
          /\ UNCHANGED used
       \/ rows' = [rows EXCEPT ![v].status = kept] /\ Upset
    /\ UNCHANGED <<now, events, replan, sweep, lost>>
Confirm(v) == ConfirmWhen(v, "reserving")

-----------------------------------------------------------------------------
(* The webhook's replan: it reads the changed events, marks declines,       *)
(* resolves their weeks, and stores the token of what it read last.         *)

\* Every change of a booked event is pushed, and the push arms the coordinator.
Changed(v) ==
    /\ armed' = TRUE /\ news' = news \cup {v} /\ missed' = missed \ {v}
    /\ UNCHANGED <<taken, heard>>

\* alarm() clears its flag and runs; a run with nothing new ends at once.
Fetch ==
    /\ armed /\ taken = {} /\ armed' = FALSE /\ taken' = news /\ news' = {}
    /\ heard' = [v \in Visits |->
                    IF v \in news /\ events[v].live
                    THEN [what |-> IF events[v].declined THEN "declined" ELSE "open",
                          start |-> events[v].start]
                    ELSE Nothing]
    /\ UNCHANGED <<now, rows, events, visit, sweep, used, lost, missed>>

\* markCancelPending keeps a running clock; clearCancelPending stops it.
Marked(v) == rows[v].status = "confirmed" /\ rows[v].stamp # None
SetStamp(v, at) == rows' = [rows EXCEPT ![v].stamp = at]
Hear(v) ==
    /\ heard[v] # Nothing /\ heard' = [heard EXCEPT ![v] = Nothing]
    /\ CASE /\ heard[v].what = "declined" /\ heard[v].start > now
            /\ rows[v].status = "confirmed" /\ rows[v].stamp = None -> SetStamp(v, now)
         [] heard[v].what = "open" /\ Marked(v) -> SetStamp(v, None)
         [] OTHER -> UNCHANGED rows
    /\ UNCHANGED <<now, events, visit, armed, news, taken, missed, sweep, used, lost>>

\* A failed write is caught: the run goes on, and hears no more of the events.
Unread == {v \in Visits : heard[v] # Nothing}
HearFails ==
    /\ Unread # {} /\ heard' = Unheard /\ missed' = missed \cup Unread /\ Upset
    /\ UNCHANGED <<now, rows, events, visit, armed, news, taken, sweep, lost>>

\* The resolves are over: the token of what the run read is stored.
Store ==
    /\ taken # {} /\ Unread = {} /\ taken' = {}
    /\ UNCHANGED <<now, rows, events, visit, armed, news, heard, missed, sweep, used, lost>>

\* The run throws, or dies and its alarm is fired again, before it has stored that
\* token.  Its own resolve may by then have stored a later one.
BreaksWhen(again) ==
    /\ taken # {} /\ taken' = {} /\ heard' = Unheard /\ armed' \in {armed, TRUE} /\ Upset
    /\ \/ news' = news \cup again /\ missed' = missed \ again
       \/ news' = {} /\ missed' = missed \cup Unread \cup news
    /\ UNCHANGED <<now, rows, events, visit, sweep, lost>>
\* Mutant of Breaks: the run's token is stored as soon as the events are read.
BreaksForgetting == BreaksWhen({})
Breaks == BreaksWhen(taken)

\* A resolve that no webhook asked for reads the calendar and stores its token.
Jump ==
    /\ taken = {} /\ news # {} /\ news' = {} /\ missed' = missed \cup news /\ Upset
    /\ UNCHANGED <<now, rows, events, visit, armed, taken, heard, sweep, lost>>

-----------------------------------------------------------------------------
(* The sweep of declined bookings.                                         *)

To(v, at) == sweep' = [sweep EXCEPT ![v].at = at]
Rest(v) == sweep' = [sweep EXCEPT ![v] = Idle]

Due(v) ==
    /\ sweep[v].at = "idle" /\ Marked(v) /\ rows[v].stamp + Grace <= now
    /\ sweep' = [sweep EXCEPT ![v] = [at |-> "check", now |-> now]]
    /\ UNCHANGED <<now, rows, events, visit, replan, used, lost>>

Cancelled(v) == rows' = IF rows[v].status = "confirmed"
                        THEN [rows EXCEPT ![v].status = "cancelled"] ELSE rows

\* getEvent: gone is closed quietly; started or no longer declined is let be.
CheckWhen(v, found) ==
    /\ sweep[v].at = "check"
    /\ CASE ~events[v].live -> Cancelled(v) /\ Rest(v)
         [] events[v].live /\ (events[v].start <= sweep[v].now \/ ~events[v].declined) ->
                /\ Rest(v)
                /\ IF Marked(v) THEN SetStamp(v, None) ELSE UNCHANGED rows
         [] OTHER -> To(v, found) /\ UNCHANGED rows
    /\ UNCHANGED <<now, events, visit, replan, used, lost>>
\* Mutant of Check: a declined event is taken for deleted already.
CheckThenMark(v) == CheckWhen(v, "mark")
Check(v) == CheckWhen(v, "delete")

\* The event is deleted before the row is closed; mail goes to both sides.
Delete(v) ==
    /\ sweep[v].at = "delete"
    /\ \/ events' = [events EXCEPT ![v] = NoEvent] /\ To(v, "mark") /\ UNCHANGED used
       \/ UNCHANGED events /\ Rest(v) /\ Upset
    /\ UNCHANGED <<now, rows, visit, replan, lost>>
Mark(v) ==
    /\ sweep[v].at = "mark" /\ Cancelled(v) /\ Rest(v)
    /\ UNCHANGED <<now, events, visit, replan, used, lost>>
SweepDies(v) ==
    /\ sweep[v].at # "idle" /\ Rest(v) /\ Upset
    /\ UNCHANGED <<now, rows, events, visit, replan, lost>>

-----------------------------------------------------------------------------
(* The visitor's answers, the owner, and a commit that moves a meeting.    *)

Respond(v) ==
    /\ events[v].live /\ Upset /\ Changed(v)
    /\ events' = [events EXCEPT ![v].declined = ~@]
    /\ UNCHANGED <<now, rows, visit, sweep, lost>>
OwnerDeletes(v) ==
    /\ events[v].live /\ Upset /\ Changed(v)
    /\ events' = [events EXCEPT ![v] = NoEvent]
    /\ UNCHANGED <<now, rows, visit, sweep, lost>>
\* A moved event asks everybody again.
Moved(e, t) == [events[e] EXCEPT !.start = t, !.declined = FALSE, !.moved = TRUE]
OwnerMoves(v, t) ==
    /\ events[v].live /\ t # events[v].start /\ Upset /\ Changed(v)
    /\ events' = [events EXCEPT ![v] = Moved(v, t)]
    /\ UNCHANGED <<now, rows, visit, sweep, lost>>
\* A resolve's verdict on a meeting; it also goes stale.
Judge(e) ==
    /\ events[e].live /\ Upset
    /\ events' = [events EXCEPT ![e].movable = ~@]
    /\ UNCHANGED <<now, rows, visit, replan, sweep, lost>>
\* A commit moves the event; then syncBookingTime moves its confirmed row.
Relocate(e, t) ==
    /\ events[e].live /\ events[e].movable /\ t # events[e].start /\ t > now /\ ~events[e].sync /\ Upset
    /\ events' = [events EXCEPT ![e] = [Moved(e, t) EXCEPT !.sync = e \in Visits]]
    /\ IF e \in Visits THEN Changed(e) ELSE UNCHANGED replan
    /\ UNCHANGED <<now, rows, visit, sweep, lost>>
SyncBookingTime(v) ==
    /\ events[v].live /\ events[v].sync /\ events' = [events EXCEPT ![v].sync = FALSE]
    /\ rows' = IF rows[v].status = "confirmed"
               THEN [rows EXCEPT ![v].start = events[v].start] ELSE rows
    /\ UNCHANGED <<now, visit, replan, sweep, used, lost>>
Tick ==
    /\ now < MaxNow /\ now' = now + 1
    /\ UNCHANGED <<rows, events, visit, replan, sweep, used, lost>>

SweepStep(v) == Due(v) \/ Check(v) \/ Delete(v) \/ Mark(v)
Next ==
    \/ \E v \in Visits :
        \/ \E t \in Hours : Ask(v, t) \/ OwnerMoves(v, t)
        \/ Look(v) \/ Claim(v) \/ Create(v) \/ Release(v) \/ Confirm(v)
        \/ Hear(v) \/ SweepStep(v) \/ SweepDies(v)
        \/ Respond(v) \/ OwnerDeletes(v) \/ SyncBookingTime(v)
    \/ \E e \in Events : Judge(e) \/ \E t \in Hours : Relocate(e, t)
    \/ Fetch \/ HearFails \/ Store \/ Breaks \/ Jump
    \/ Tick

\* A set alarm fires and a run goes on unless it fails; the sweep is a cron, and
\* the clock does not stop.
Fairness == /\ WF_bvars(Fetch \/ Store \/ \E v \in Visits : Hear(v))
            /\ \A v \in Visits : WF_bvars(SweepStep(v))
            /\ WF_bvars(Tick)
Spec == Init /\ [][Next]_bvars /\ Fairness

-----------------------------------------------------------------------------
\* Two invitations the page has sent out and nobody has moved are never for
\* overlapping times, nor inside one another's padding, whatever became of the
\* requests, the clocks and the sweeps in between.  Left out: an event whose
\* createEvent seemed to fail (booking/route.ts:546 takes it for not written).
HeldWhileInvited ==
    \A v, w \in Visits :
        v # w /\ events[v].live /\ events[w].live /\ ~events[v].moved /\ ~events[w].moved
            /\ {v, w} \cap lost = {}
        => Span(events[v].start) \cap Padded(events[w].start) = {}

\* Every start the page offers would pass claimSlot's guard (booking/slots.ts:
\* the padding of the offer and the padding of the claim compose).  Left out:
\* a booking outside the window of the page, which listBookings does not show
\* and whose padding reaches into it.
OfferedIsClaimable ==
    \A page \in 0..(Reach - 1) :
        LET window == PageWindow(now, page)
        IN  \A t \in Offered(now, page) :
                ClearOf(t, {v \in Visits : Live(rows[v]) /\ Overlaps(window, rows[v].start)})

\* A cancelled booking leaves no invitation standing, though the sweep deletes
\* the event and closes the row in two calls and may die between them
\* (cron/booking-decline-sweep.ts:123).
CancelledIsGone == \A v \in Visits : rows[v].status = "cancelled" => ~events[v].live

\* A decline that was pushed and is confirmed in the book is cancelled once the
\* grace is over, be it that writes fail and replans or sweeps die on the way.
\* Otherwise the visitor takes it back, the meeting moves, starts or goes, or the
\* clock ends before the grace does.  On record: a sync token has moved past the
\* decline unheard (webhooks/google-calendar.ts:352 catches a failed stamp; a resolve
\* stores its own token), or a run that threw left it to the next push
\* (durable-objects/resolve-coordinator.ts:84).
DeclineSettles ==
    \A v \in Visits :
        events[v].live /\ events[v].declined /\ rows[v].status = "confirmed"
            /\ v \in news /\ armed
        ~> \/ rows[v].status = "cancelled"
           \/ ~events[v].live \/ ~events[v].declined \/ events[v].start <= now
           \/ rows[v].stamp # None /\ rows[v].stamp + Grace > MaxNow
           \/ v \in missed
           \/ v \in news /\ ~armed
=============================================================================
