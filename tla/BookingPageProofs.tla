--------------------------- MODULE BookingPageProofs ---------------------------
(***************************************************************************)
(* The booking page, for every grid, set of visits and meetings, padding,  *)
(* reach and grace: invitations never clash, what is offered can be        *)
(* claimed, and a cancelled booking leaves no invitation.                  *)
(***************************************************************************)
EXTENDS BookingPage, TLAPS

USE DEF replan

\* Two meetings far enough from one another for the padding of both.
Apart(s, t) == ~ /\ s < t + Duration + After + Before
                 /\ s + Duration > t - Before - After

\* How far a request has got, and the sweep only after it.
Stage(v) ==
    /\ visit[v].at \in {"look", "claim", "create"} => visit[v].start \in Hours
    /\ visit[v].at \in {"new", "look", "claim"} => rows[v].status = "none" /\ ~events[v].live
    /\ visit[v].at \in {"create", "release", "confirm"} => rows[v].status = "reserving"
    /\ visit[v].at = "create" => ~events[v].live /\ rows[v].start = visit[v].start
    /\ visit[v].at = "release" /\ events[v].live => v \in lost
    /\ sweep[v].at # "idle" => visit[v].at = "done"
    /\ sweep[v].at = "mark" => ~events[v].live

\* An invitation as it was sent, and not by a call that seemed to fail.
AsSent(v) == events[v].live /\ ~events[v].moved /\ v \notin lost

\* Row and event agree.
Agree(v) ==
    /\ Live(rows[v]) => rows[v].start \in Hours
    /\ events[v].live => events[v].start \in Hours
    /\ events[v].sync => events[v].moved
    /\ rows[v].status = "cancelled" => ~events[v].live
    /\ AsSent(v) => Live(rows[v]) /\ rows[v].start = events[v].start

\* A claim holds its time until its event moves or goes.
Holds(v) == visit[v].at = "create" \/ AsSent(v)

HeldApart ==
    \A v, w \in Visits : v # w /\ Holds(v) /\ Holds(w) => Apart(rows[v].start, rows[w].start)

BookInv ==
    /\ BookingTypeOK
    /\ \A v \in Visits : Stage(v) /\ Agree(v)
    /\ HeldApart

\* What a run of the webhook's replan, and a resolve beside it, does.
Replans == Fetch \/ HearFails \/ Store \/ Breaks \/ Jump \/ \E v \in Visits : Hear(v)

Request(v) == \/ \E t \in Hours : Ask(v, t)
              \/ Look(v) \/ Claim(v) \/ Create(v) \/ Release(v) \/ Confirm(v)

\* Visitors' answers, the owner, a commit, a resolve's verdict and the clock.
Outside ==
    \/ \E v \in Visits : \/ Respond(v) \/ OwnerDeletes(v) \/ SyncBookingTime(v)
                         \/ \E t \in Hours : OwnerMoves(v, t)
    \/ \E e \in Events : Judge(e) \/ \E t \in Hours : Relocate(e, t)
    \/ Tick

-----------------------------------------------------------------------------
(* Types.                                                                    *)

Stations == {"new", "look", "claim", "create", "release", "confirm", "done"}
Statuses == {"none", "reserving", "confirmed", "failed", "cancelled"}

LEMMA MembershipIs == ASSUME NEW e, NEW S PROVE (e \in S) \in BOOLEAN
OBVIOUS

LEMMA RowForms ==
    ASSUME NEW r \in Row
    PROVE  /\ \A s \in Statuses : [r EXCEPT !.status = s] \in Row
           /\ \A t \in Hours \cup {None} : [r EXCEPT !.start = t] \in Row
           /\ \A n \in 0..MaxNow \cup {None} : [r EXCEPT !.stamp = n] \in Row
           /\ [r EXCEPT !.status = "confirmed", !.event = TRUE] \in Row
BY DEF Row, Statuses

LEMMA VisitForms ==
    ASSUME NEW x \in Visit
    PROVE  /\ \A p \in Stations : [x EXCEPT !.at = p] \in Visit
           /\ [x EXCEPT !.at = "claim", !.over = {}] \in Visit
BY DEF Visit, Stations

LEMMA EventForms ==
    ASSUME NEW x \in Event
    PROVE  /\ [x EXCEPT !.declined = ~@] \in Event
           /\ [x EXCEPT !.movable = ~@] \in Event
           /\ [x EXCEPT !.sync = FALSE] \in Event
           /\ \A t \in Hours :
                [x EXCEPT !.start = t, !.declined = FALSE, !.moved = TRUE] \in Event
<1>1. \A b \in BOOLEAN : /\ [x EXCEPT !.declined = b] \in Event
                         /\ [x EXCEPT !.movable = b] \in Event
                         /\ [x EXCEPT !.sync = b] \in Event
  BY DEF Event
<1>2. \A t \in Hours : [x EXCEPT !.start = t, !.declined = FALSE, !.moved = TRUE] \in Event
  BY DEF Event
<1>3. [x EXCEPT !.declined = ~@] = [x EXCEPT !.declined = ~x.declined]
  BY Zenon
<1>4. [x EXCEPT !.movable = ~@] = [x EXCEPT !.movable = ~x.movable]
  BY Zenon
<1>5. (~x.declined) \in BOOLEAN /\ (~x.movable) \in BOOLEAN /\ FALSE \in BOOLEAN
  BY Zenon
<1>6. [x EXCEPT !.declined = ~@] \in Event
  BY <1>1, <1>3, <1>5, Zenon
<1>7. [x EXCEPT !.movable = ~@] \in Event
  BY <1>1, <1>4, <1>5, Zenon
<1>8. [x EXCEPT !.sync = FALSE] \in Event
  BY <1>1, <1>5, Zenon
<1> QED
  BY <1>2, <1>6, <1>7, <1>8

\* What BookingAssumption says of the numbers, one by one.
LEMMA Numbers ==
    /\ Duration \in Nat /\ Duration > 0 /\ PageSize \in Nat /\ PageSize > 0
    /\ Reach \in Nat /\ Reach > 0 /\ Before \in Nat /\ After \in Nat /\ Notice \in Nat
    /\ MeetingNotice \in Nat /\ Grace \in Nat /\ MaxNow \in Nat /\ MaxUpsets \in Nat
<1>1. {Duration, PageSize, Reach} \subseteq Nat \ {0}
  BY BookingAssumption
<1>2. {Before, After, Notice, MeetingNotice, Grace, MaxNow, MaxUpsets} \subseteq Nat
  BY BookingAssumption
<1>3. /\ Before \in Nat /\ After \in Nat /\ Notice \in Nat
      /\ MeetingNotice \in Nat /\ Grace \in Nat /\ MaxNow \in Nat /\ MaxUpsets \in Nat
  BY <1>2
<1>4. /\ Duration \in Nat \ {0} /\ PageSize \in Nat \ {0} /\ Reach \in Nat \ {0}
  BY <1>1
<1> QED
  BY <1>3, <1>4

LEMMA NewForms ==
    /\ Nothing \in Heard /\ NoEvent \in Event /\ Idle \in Sweep
    /\ Fresh \in Visit /\ \A v : Over(v) \in Visit
    /\ \A t \in Hours : [NoEvent EXCEPT !.live = TRUE, !.start = t] \in Event
<1>1. 0 \in 0..MaxNow
  BY Numbers
<1>2. Nothing \in Heard
  BY DEF Nothing, Heard
<1>3. NoEvent \in Event
  BY DEF NoEvent, Event
<1>4. \A t \in Hours : [NoEvent EXCEPT !.live = TRUE, !.start = t] \in Event
  BY DEF NoEvent, Event
<1>5. Idle \in Sweep
  BY <1>1 DEF Idle, Sweep
<1>6. Fresh \in Visit
  BY <1>1 DEF Fresh, Visit
<1>7. \A v : Over(v) \in Visit
  BY <1>6, VisitForms DEF Over, Stations
<1> QED
  BY <1>2, <1>3, <1>4, <1>5, <1>6, <1>7

\* The tables after a write to one entry.
LEMMA Updates ==
    ASSUME BookingTypeOK, NEW v \in Visits
    PROVE  /\ \A r \in Row : [rows EXCEPT ![v] = r] \in [Visits -> Row]
           /\ \A x \in Visit : [visit EXCEPT ![v] = x] \in [Visits -> Visit]
           /\ \A e \in Events, x \in Event : [events EXCEPT ![e] = x] \in [Events -> Event]
           /\ \A x \in Sweep : [sweep EXCEPT ![v] = x] \in [Visits -> Sweep]
           /\ \A x \in Heard : [heard EXCEPT ![v] = x] \in [Visits -> Heard]
           /\ rows[v] \in Row /\ visit[v] \in Visit /\ events[v] \in Event
           /\ sweep[v] \in Sweep /\ heard[v] \in Heard
           /\ \A e \in Events : events[e] \in Event
BY DEF BookingTypeOK, Events

LEMMA UpsetTypes == BookingTypeOK /\ Upset => used' \in 0..MaxUpsets
BY Numbers DEF BookingTypeOK, Upset

LEMMA TypeStart == Init => BookingTypeOK
<1> SUFFICES ASSUME Init PROVE BookingTypeOK
  OBVIOUS
<1>1. now \in 0..MaxNow /\ used \in 0..MaxUpsets
  <2>1. now = 0 /\ used = 0
    BY Zenon DEF Init
  <2> QED
    BY <2>1, Numbers
<1>2. rows \in [Visits -> Row]
  BY DEF Init, Row
<1>3. \A m \in Meetings : [NoEvent EXCEPT !.live = TRUE, !.start = MeetingAt[m]] \in Event
  <2> TAKE m \in Meetings
  <2>1. MeetingAt[m] \in Hours
    BY BookingAssumption
  <2> QED
    BY <2>1, NewForms
<1>4. events \in [Events -> Event]
  BY <1>3, NewForms DEF Init, Events
<1> QED
  BY <1>1, <1>2, <1>4, NewForms DEF Init, Unheard, BookingTypeOK

LEMMA RequestTypes ==
    ASSUME BookingTypeOK, NEW v \in Visits, Request(v)
    PROVE  BookingTypeOK'
<1>0. v \in Events /\ Over(v) \in Visit
  BY NewForms DEF Events
<1>1. ASSUME NEW t \in Hours, Ask(v, t) PROVE BookingTypeOK'
  <2>1. \A over \in SUBSET Events :
          [at |-> "look", start |-> t, now |-> now, over |-> over] \in Visit
    BY DEF Visit, BookingTypeOK
  <2>2. visit' \in [Visits -> Visit]
    BY <1>0, <1>1, <2>1, Updates DEF Ask, Close, Shown
  <2> QED
    BY <1>1, <2>2 DEF Ask, BookingTypeOK
<1>2. CASE Look(v)
  <2>1. visit' = [visit EXCEPT ![v] = [visit[v] EXCEPT !.at = "claim", !.over = {}]] \/ Close(v)
    BY <1>2, Updates DEF Look, Visit, BookingTypeOK
  <2>2. [visit[v] EXCEPT !.at = "claim", !.over = {}] \in Visit
    BY Updates, VisitForms
  <2>3. visit' \in [Visits -> Visit]
    BY <1>0, <2>1, <2>2, Updates DEF Close
  <2> QED
    BY <1>2, <2>3 DEF Look, BookingTypeOK
<1>3. CASE Claim(v)
  <2>1. CASE Close(v) /\ UNCHANGED rows
    BY <1>0, <1>3, <2>1, Updates DEF Claim, Close, BookingTypeOK
  <2>2. CASE ~(Close(v) /\ UNCHANGED rows)
    <3>1. visit[v].start \in Hours \cup {None}
      BY Updates DEF Visit
    <3>2. rows' = [rows EXCEPT ![v] = [rows[v] EXCEPT !.status = "reserving", !.start = visit[v].start]]
      BY <1>3, <2>2, Updates DEF Claim, BookingTypeOK, Row
    <3>3. [rows[v] EXCEPT !.status = "reserving", !.start = visit[v].start] \in Row
      BY <3>1, Updates DEF Row
    <3>4. visit' = [visit EXCEPT ![v] = [visit[v] EXCEPT !.at = "create"]]
      BY <1>3, <2>2 DEF Claim, Go
    <3>5. [visit[v] EXCEPT !.at = "create"] \in Visit
      BY Updates, VisitForms DEF Stations
    <3>6. rows' \in [Visits -> Row] /\ visit' \in [Visits -> Visit]
      BY <3>2, <3>3, <3>4, <3>5, Updates
    <3> QED
      BY <1>3, <3>6 DEF Claim, BookingTypeOK
  <2> QED
    BY <2>1, <2>2
<1>4. CASE Create(v)
  <2>1. \E p \in Stations : visit' = [visit EXCEPT ![v] = [visit[v] EXCEPT !.at = p]]
    BY <1>4 DEF Create, Go, Stations
  <2>2. visit' \in [Visits -> Visit]
    <3>1. PICK p \in Stations : visit' = [visit EXCEPT ![v] = [visit[v] EXCEPT !.at = p]]
      BY <2>1
    <3>2. [visit[v] EXCEPT !.at = p] \in Visit
      BY Updates, VisitForms
    <3> QED
      BY <3>1, <3>2, Updates
  <2>3. used' \in 0..MaxUpsets
    BY <1>4, UpsetTypes DEF Create, BookingTypeOK
  <2>4. lost' \subseteq Visits
    BY <1>4 DEF Create, BookingTypeOK
  <2>5. visit[v].start \in Hours \cup {None}
    BY Updates DEF Visit
  <2>6. [NoEvent EXCEPT !.live = TRUE, !.start = visit[v].start] \in Event
    BY <2>5 DEF NoEvent, Event
  <2>7. events' \in [Events -> Event]
    BY <1>0, <1>4, <2>6, Updates DEF Create, BookingTypeOK
  <2> QED
    BY <1>4, <2>2, <2>3, <2>4, <2>7 DEF Create, BookingTypeOK
<1>5. CASE Release(v)
  BY <1>0, <1>5, Updates, RowForms DEF Release, Close, BookingTypeOK, Statuses
<1>6. CASE Confirm(v)
  <2>1. visit' \in [Visits -> Visit]
    BY <1>0, <1>6, Updates DEF Confirm, ConfirmWhen, Close
  <2>2. used' \in 0..MaxUpsets
    BY <1>6, UpsetTypes DEF Confirm, ConfirmWhen, BookingTypeOK
  <2>3. \/ rows' = [rows EXCEPT ![v] = [rows[v] EXCEPT !.status = "confirmed", !.event = TRUE]]
        \/ rows' = [rows EXCEPT ![v] = [rows[v] EXCEPT !.status = "reserving"]]
    BY <1>6, Updates DEF Confirm, ConfirmWhen, BookingTypeOK, Row
  <2>4. /\ [rows[v] EXCEPT !.status = "confirmed", !.event = TRUE] \in Row
        /\ [rows[v] EXCEPT !.status = "reserving"] \in Row
    BY Updates, RowForms DEF Statuses
  <2>5. rows' \in [Visits -> Row]
    BY <2>3, <2>4, Updates
  <2> QED
    BY <1>6, <2>1, <2>2, <2>5 DEF Confirm, ConfirmWhen, BookingTypeOK
<1> QED
  BY <1>1, <1>2, <1>3, <1>4, <1>5, <1>6 DEF Request

LEMMA ReplanTypes == ASSUME BookingTypeOK, Replans PROVE BookingTypeOK'
<1>0. /\ Visits \subseteq Events /\ Nothing \in Heard /\ Unheard \in [Visits -> Heard]
      /\ Unread \subseteq Visits
  BY NewForms DEF Events, Unheard, Unread
<1>1. CASE Fetch
  <2>1. \A v \in Visits : [what |-> IF events[v].declined THEN "declined" ELSE "open",
                           start |-> events[v].start] \in Heard
    BY Updates DEF Event, Heard
  <2>2. heard' \in [Visits -> Heard]
    BY <1>0, <1>1, <2>1 DEF Fetch
  <2> QED
    BY <1>1, <2>2 DEF Fetch, BookingTypeOK
<1>2. ASSUME NEW v \in Visits, Hear(v) PROVE BookingTypeOK'
  <2>1. heard' \in [Visits -> Heard]
    BY <1>0, <1>2, Updates DEF Hear
  <2>2. \A n \in 0..MaxNow \cup {None} : [rows[v] EXCEPT !.stamp = n] \in Row
    BY Updates, RowForms
  <2>3. \A n \in 0..MaxNow \cup {None} : SetStamp(v, n) => rows' \in [Visits -> Row]
    BY <2>2, Updates DEF SetStamp
  <2>4. SetStamp(v, now) \/ SetStamp(v, None) \/ rows' = rows
    BY <1>2 DEF Hear
  <2>5. rows' \in [Visits -> Row]
    BY <2>3, <2>4 DEF BookingTypeOK
  <2> QED
    BY <1>2, <2>1, <2>5 DEF Hear, BookingTypeOK
<1>3. CASE HearFails
  BY <1>0, <1>3, UpsetTypes DEF HearFails, BookingTypeOK
<1>4. CASE Store
  BY <1>4 DEF Store, BookingTypeOK
<1>5. CASE Breaks
  <2>1. used' \in 0..MaxUpsets
    BY <1>5, UpsetTypes DEF Breaks, BreaksWhen
  <2> QED
    BY <1>0, <1>5, <2>1 DEF Breaks, BreaksWhen, BookingTypeOK
<1>6. CASE Jump
  BY <1>6, UpsetTypes DEF Jump, BookingTypeOK
<1> QED
  BY <1>1, <1>2, <1>3, <1>4, <1>5, <1>6 DEF Replans

LEMMA SweepTypes ==
    ASSUME BookingTypeOK, NEW v \in Visits, SweepStep(v) \/ SweepDies(v)
    PROVE  BookingTypeOK'
<1>0. v \in Events /\ Idle \in Sweep
  BY NewForms DEF Events
<1>1. \A at \in {"idle", "check", "delete", "mark"} : To(v, at) => sweep' \in [Visits -> Sweep]
  <2>1. \A at \in {"idle", "check", "delete", "mark"} : [sweep[v] EXCEPT !.at = at] \in Sweep
    BY Updates DEF Sweep
  <2> QED
    BY <2>1, Updates DEF To
<1>2. Rest(v) => sweep' \in [Visits -> Sweep]
  BY <1>0, Updates DEF Rest
<1>3. Cancelled(v) => rows' \in [Visits -> Row]
  <2>1. [rows[v] EXCEPT !.status = "cancelled"] \in Row
    BY Updates, RowForms DEF Statuses
  <2> QED
    BY <2>1, Updates DEF Cancelled, BookingTypeOK
<1>4. SetStamp(v, None) => rows' \in [Visits -> Row]
  <2>1. [rows[v] EXCEPT !.stamp = None] \in Row
    BY Updates, RowForms
  <2> QED
    BY <2>1, Updates DEF SetStamp
<1>5. CASE Due(v)
  <2>1. [at |-> "check", now |-> now] \in Sweep
    BY DEF Sweep, BookingTypeOK
  <2>2. sweep' \in [Visits -> Sweep]
    BY <1>5, <2>1, Updates DEF Due
  <2> QED
    BY <1>5, <2>2 DEF Due, BookingTypeOK
<1>6. CASE Check(v)
  <2>1. rows' \in [Visits -> Row]
    BY <1>3, <1>4, <1>6 DEF Check, CheckWhen, BookingTypeOK
  <2>2. sweep' \in [Visits -> Sweep]
    BY <1>1, <1>2, <1>6 DEF Check, CheckWhen
  <2> QED
    BY <1>6, <2>1, <2>2 DEF Check, CheckWhen, BookingTypeOK
<1>7. CASE Delete(v)
  <2>1. sweep' \in [Visits -> Sweep]
    BY <1>1, <1>2, <1>7 DEF Delete
  <2>2. events' \in [Events -> Event]
    BY <1>0, <1>7, Updates, NewForms DEF Delete, BookingTypeOK
  <2>3. used' \in 0..MaxUpsets
    BY <1>7, UpsetTypes DEF Delete, BookingTypeOK
  <2> QED
    BY <1>7, <2>1, <2>2, <2>3 DEF Delete, BookingTypeOK
<1>8. CASE Mark(v)
  BY <1>2, <1>3, <1>8 DEF Mark, BookingTypeOK
<1>9. CASE SweepDies(v)
  BY <1>2, <1>9, UpsetTypes DEF SweepDies, BookingTypeOK
<1> QED
  BY <1>5, <1>6, <1>7, <1>8, <1>9 DEF SweepStep

LEMMA OutsideTypes ==
    ASSUME BookingTypeOK, Outside PROVE BookingTypeOK'
<1>1. ASSUME NEW e \in Events, NEW x \in Event, Upset, events' = [events EXCEPT ![e] = x]
      PROVE  events' \in [Events -> Event] /\ used' \in 0..MaxUpsets
  BY <1>1, UpsetTypes DEF BookingTypeOK
<1>2. Visits \subseteq Events
  BY DEF Events
<1>3. ASSUME NEW v \in Visits, Respond(v) PROVE BookingTypeOK'
  <2>1. [events[v] EXCEPT !.declined = ~@] \in Event
    BY Updates, EventForms
  <2>2. events' = [events EXCEPT ![v] = [events[v] EXCEPT !.declined = ~@]]
    BY <1>3 DEF Respond
  <2>3. events' \in [Events -> Event] /\ used' \in 0..MaxUpsets
    BY <1>1, <1>2, <1>3, <2>1, <2>2 DEF Respond
  <2> QED
    BY <1>3, <2>3 DEF Respond, Changed, BookingTypeOK
<1>4. ASSUME NEW v \in Visits, OwnerDeletes(v) PROVE BookingTypeOK'
  <2>1. events' \in [Events -> Event] /\ used' \in 0..MaxUpsets
    BY <1>1, <1>2, <1>4, NewForms DEF OwnerDeletes
  <2> QED
    BY <1>4, <2>1 DEF OwnerDeletes, Changed, BookingTypeOK
<1>5. ASSUME NEW v \in Visits, NEW t \in Hours, OwnerMoves(v, t) PROVE BookingTypeOK'
  <2>1. Moved(v, t) \in Event
    BY Updates, EventForms DEF Moved
  <2>2. events' \in [Events -> Event] /\ used' \in 0..MaxUpsets
    BY <1>1, <1>2, <1>5, <2>1 DEF OwnerMoves
  <2> QED
    BY <1>5, <2>2 DEF OwnerMoves, Changed, BookingTypeOK
<1>6. ASSUME NEW e \in Events, Judge(e) PROVE BookingTypeOK'
  <2>1. [events[e] EXCEPT !.movable = ~@] \in Event
    BY EventForms DEF BookingTypeOK
  <2>2. events' = [events EXCEPT ![e] = [events[e] EXCEPT !.movable = ~@]]
    BY <1>6 DEF Judge
  <2>3. events' \in [Events -> Event] /\ used' \in 0..MaxUpsets
    BY <1>1, <1>6, <2>1, <2>2 DEF Judge
  <2> QED
    BY <1>6, <2>3 DEF Judge, BookingTypeOK
<1>7. ASSUME NEW e \in Events, NEW t \in Hours, Relocate(e, t) PROVE BookingTypeOK'
  <2>1. Moved(e, t) \in Event
    BY EventForms DEF Moved, BookingTypeOK
  <2>2. [Moved(e, t) EXCEPT !.sync = e \in Visits] \in Event
    <3>1. (e \in Visits) \in BOOLEAN
      BY MembershipIs
    <3> DEFINE b == e \in Visits
    <3>2. b \in BOOLEAN
      BY <3>1
    <3> HIDE DEF b
    <3>3. [Moved(e, t) EXCEPT !.sync = b] \in Event
      BY <2>1, <3>2 DEF Event
    <3> QED
      BY <3>3 DEF b
  <2>3. events' \in [Events -> Event] /\ used' \in 0..MaxUpsets
    BY <1>1, <1>7, <2>2 DEF Relocate
  <2>4. /\ armed' \in BOOLEAN /\ news' \subseteq Visits /\ taken' \subseteq Visits
        /\ heard' \in [Visits -> Heard] /\ missed' \subseteq Visits
    BY <1>7 DEF Relocate, Changed, BookingTypeOK
  <2> QED
    BY <1>7, <2>3, <2>4 DEF Relocate, BookingTypeOK
<1>8. ASSUME NEW v \in Visits, SyncBookingTime(v) PROVE BookingTypeOK'
  <2>1. [events[v] EXCEPT !.sync = FALSE] \in Event
    BY Updates, EventForms
  <2>2. events' \in [Events -> Event]
    BY <1>2, <1>8, <2>1 DEF SyncBookingTime, BookingTypeOK
  <2>3. events[v].start \in Hours \cup {None}
    BY Updates DEF Event
  <2>4. [rows[v] EXCEPT !.start = events[v].start] \in Row
    BY <2>3, Updates, RowForms
  <2>5. rows' \in [Visits -> Row]
    BY <1>8, <2>4, Updates DEF SyncBookingTime, BookingTypeOK
  <2> QED
    BY <1>8, <2>2, <2>5 DEF SyncBookingTime, BookingTypeOK
<1>9. CASE Tick
  <2>1. now' \in 0..MaxNow
    BY <1>9, Numbers DEF Tick, BookingTypeOK
  <2> QED
    BY <1>9, <2>1 DEF Tick, BookingTypeOK
<1> QED
  BY <1>3, <1>4, <1>5, <1>6, <1>7, <1>8, <1>9 DEF Outside

LEMMA StepIs ==
    [Next]_bvars => \/ \E v \in Visits : \/ Request(v)
                                         \/ SweepStep(v) \/ SweepDies(v)
                    \/ Replans \/ Outside
                    \/ UNCHANGED bvars
BY DEF Next, Request, Replans, Outside

LEMMA TypeStep == BookingTypeOK /\ [Next]_bvars => BookingTypeOK'
<1>1. CASE UNCHANGED bvars
  BY <1>1 DEF bvars, BookingTypeOK
<1> QED
  BY <1>1, StepIs, RequestTypes, ReplanTypes, SweepTypes, OutsideTypes

-----------------------------------------------------------------------------
(* Row, event, request and sweep of a visit.                                 *)

\* What concerns u is as it was.
Same(u) ==
    /\ visit'[u].at = visit[u].at /\ visit'[u].start = visit[u].start
    /\ rows'[u].status = rows[u].status /\ rows'[u].start = rows[u].start
    /\ events'[u].live = events[u].live /\ events'[u].start = events[u].start
    /\ events'[u].moved = events[u].moved /\ events'[u].sync = events[u].sync
    /\ sweep'[u].at = sweep[u].at
    /\ u \in lost' <=> u \in lost

LEMMA SameKeeps ==
    ASSUME NEW u \in Visits, Same(u)
    PROVE  /\ Stage(u) => Stage(u)'
           /\ Agree(u) => Agree(u)'
           /\ Holds(u)' => Holds(u) /\ rows'[u].start = rows[u].start
BY DEF Same, Stage, Agree, AsSent, Holds, Live

\* The padding counts the same from either side.
LEMMA ApartEitherWay == \A s, t \in Nat : Apart(s, t) <=> Apart(t, s)
BY Numbers DEF Apart

\* Only v changes, and it holds no time that it did not hold before.
LEMMA OneChanges ==
    ASSUME BookInv, NEW v \in Visits, \A u \in Visits \ {v} : Same(u),
           Stage(v)', Agree(v)',
           Holds(v)' => Holds(v) /\ rows'[v].start = rows[v].start
    PROVE  /\ \A u \in Visits : Stage(u)' /\ Agree(u)'
           /\ HeldApart'
<1>1. \A u \in Visits : Stage(u)' /\ Agree(u)'
  BY SameKeeps DEF BookInv
<1>2. \A u \in Visits : Holds(u)' => Holds(u) /\ rows'[u].start = rows[u].start
  BY SameKeeps
<1>3. HeldApart'
  BY <1>2 DEF HeldApart, BookInv, Apart
<1> QED
  BY <1>1, <1>3

LEMMA NothingChanges ==
    ASSUME BookInv, \A u \in Visits : Same(u)
    PROVE  /\ \A u \in Visits : Stage(u)' /\ Agree(u)'
           /\ HeldApart'
<1>1. \A u \in Visits : Stage(u)' /\ Agree(u)'
  BY SameKeeps DEF BookInv
<1>2. \A u \in Visits : Holds(u)' => Holds(u) /\ rows'[u].start = rows[u].start
  BY SameKeeps
<1>3. HeldApart'
  BY <1>2 DEF HeldApart, BookInv, Apart
<1> QED
  BY <1>1, <1>3

\* What is left of the invariant when the types are known to stay.
Shape == (\A v \in Visits : Stage(v) /\ Agree(v)) /\ HeldApart

LEMMA RequestShape ==
    ASSUME BookInv, NEW v \in Visits, Request(v) PROVE Shape'
<1>0. /\ v \in Events /\ BookingTypeOK /\ Stage(v) /\ Agree(v)
      /\ rows[v] \in Row /\ visit[v] \in Visit /\ events[v] \in Event /\ sweep[v] \in Sweep
  BY Updates DEF BookInv, Events
<1> USE DEF BookingTypeOK, Events
<1>1. ASSUME NEW t \in Hours, Ask(v, t) PROVE Shape'
  <2>1. \A u \in Visits \ {v} : Same(u)
    BY <1>0, <1>1 DEF Ask, Close, Same
  <2>2. /\ visit'[v].at = "done" \/ (visit'[v].at = "look" /\ visit'[v].start = t)
        /\ UNCHANGED <<rows, events, sweep, lost>> /\ visit[v].at = "new"
    BY <1>0, <1>1 DEF Ask, Close, Over, Fresh
  <2>3. Stage(v)' /\ Agree(v)' /\ (Holds(v)' => Holds(v) /\ rows'[v].start = rows[v].start)
    BY <1>0, <2>2 DEF Stage, Agree, Holds, AsSent, Live
  <2> QED
    BY <2>1, <2>3, OneChanges DEF Shape
<1>2. CASE Look(v)
  <2>1. \A u \in Visits \ {v} : Same(u)
    BY <1>0, <1>2 DEF Look, Close, Same
  <2>2. /\ visit'[v].at = "done" \/ (visit'[v].at = "claim" /\ visit'[v].start = visit[v].start)
        /\ UNCHANGED <<rows, events, sweep, lost>> /\ visit[v].at = "look"
    BY <1>0, <1>2 DEF Look, Close, Over, Fresh, Visit
  <2>3. Stage(v)' /\ Agree(v)' /\ (Holds(v)' => Holds(v) /\ rows'[v].start = rows[v].start)
    BY <1>0, <2>2 DEF Stage, Agree, Holds, AsSent, Live
  <2> QED
    BY <2>1, <2>3, OneChanges DEF Shape
<1>3. CASE Create(v)
  <2>1. \A u \in Visits \ {v} : Same(u)
    BY <1>0, <1>3 DEF Create, Go, Same
  <2>2. /\ visit[v].at = "create" /\ rows' = rows /\ sweep' = sweep /\ visit'[v].start = visit[v].start
        /\ \/ /\ events'[v].live /\ events'[v].start = visit[v].start /\ ~events'[v].moved
              /\ ~events'[v].sync
              /\ visit'[v].at = "confirm" \/ (visit'[v].at = "release" /\ v \in lost')
           \/ events' = events /\ visit'[v].at = "release"
    <3>1. ASSUME events' = [events EXCEPT ![v] = [NoEvent EXCEPT !.live = TRUE, !.start = visit[v].start]]
          PROVE  /\ events'[v].live /\ events'[v].start = visit[v].start
                 /\ ~events'[v].moved /\ ~events'[v].sync
      BY <1>0, <3>1 DEF NoEvent
    <3> QED
      BY <1>0, <1>3, <3>1 DEF Create, Go, Visit
  <2>3. Stage(v)' /\ Agree(v)' /\ (Holds(v)' => Holds(v) /\ rows'[v].start = rows[v].start)
    BY <1>0, <2>2 DEF Stage, Agree, Holds, AsSent, Live
  <2> QED
    BY <2>1, <2>3, OneChanges DEF Shape
<1>4. CASE Release(v)
  <2>1. \A u \in Visits \ {v} : Same(u)
    BY <1>0, <1>4 DEF Release, Close, Same
  <2>2. /\ visit[v].at = "release" /\ visit'[v].at = "done"
        /\ rows'[v].status = "failed" /\ rows'[v].start = rows[v].start
        /\ UNCHANGED <<events, sweep, lost>>
    BY <1>0, <1>4 DEF Release, Close, Over, Fresh, Row
  <2>3. Stage(v)' /\ Agree(v)' /\ (Holds(v)' => Holds(v) /\ rows'[v].start = rows[v].start)
    BY <1>0, <2>2 DEF Stage, Agree, Holds, AsSent, Live
  <2> QED
    BY <2>1, <2>3, OneChanges DEF Shape
<1>5. CASE Confirm(v)
  <2>1. \A u \in Visits \ {v} : Same(u)
    BY <1>0, <1>5 DEF Confirm, ConfirmWhen, Close, Same
  <2>2. /\ visit[v].at = "confirm" /\ visit'[v].at = "done"
        /\ rows'[v].status \in {"reserving", "confirmed"} /\ rows'[v].start = rows[v].start
        /\ UNCHANGED <<events, sweep, lost>>
    BY <1>0, <1>5 DEF Confirm, ConfirmWhen, Close, Over, Fresh, Row
  <2>3. Stage(v)' /\ Agree(v)' /\ (Holds(v)' => Holds(v) /\ rows'[v].start = rows[v].start)
    BY <1>0, <2>2 DEF Stage, Agree, Holds, AsSent, Live
  <2> QED
    BY <2>1, <2>3, OneChanges DEF Shape
<1>6. CASE Claim(v)
  <2>1. \A u \in Visits \ {v} : Same(u)
    BY <1>0, <1>6 DEF Claim, Go, Close, Same
  <2>2. visit[v].at = "claim" /\ UNCHANGED <<events, sweep, lost>>
    BY <1>6 DEF Claim
  <2>3. CASE ~Claimable(visit[v].start)
    <3>1. visit'[v].at = "done" /\ rows' = rows
      BY <1>0, <1>6, <2>3 DEF Claim, Close, Over, Fresh
    <3>2. Stage(v)' /\ Agree(v)' /\ (Holds(v)' => Holds(v) /\ rows'[v].start = rows[v].start)
      BY <1>0, <2>2, <3>1 DEF Stage, Agree, Holds, AsSent, Live
    <3> QED
      BY <2>1, <3>2, OneChanges DEF Shape
  <2>4. CASE Claimable(visit[v].start)
    <3>1. PICK t \in Hours : t = visit[v].start
      BY <1>0, <2>2 DEF Stage
    <3>2. /\ visit'[v].at = "create" /\ visit'[v].start = t
          /\ rows'[v].status = "reserving" /\ rows'[v].start = t
      BY <1>0, <1>6, <2>4, <3>1 DEF Claim, Go, Visit, Row
    <3>3. Stage(v)' /\ Agree(v)'
      BY <1>0, <2>2, <3>1, <3>2 DEF Stage, Agree, AsSent, Live
    <3>4. ASSUME NEW u \in Visits \ {v}, Holds(u)'
          PROVE  /\ Holds(u) /\ rows'[u].start = rows[u].start
                 /\ Apart(rows'[u].start, t) /\ Apart(t, rows'[u].start)
      <4>1. Holds(u) /\ rows'[u].start = rows[u].start /\ Stage(u) /\ Agree(u)
        BY <2>1, <3>4, SameKeeps DEF BookInv
      <4>2. Live(rows[u]) /\ rows[u].start \in Hours
        BY <4>1 DEF Holds, Stage, Agree, Live
      <4>3. Apart(rows[u].start, t)
        BY <2>4, <3>1, <4>2 DEF Claimable, ClearOf, Apart
      <4>4. rows[u].start \in Nat /\ t \in Nat
        BY <4>2, BookingAssumption
      <4> QED
        BY <4>1, <4>3, <4>4, ApartEitherWay
    <3>5. \A u, w \in Visits \ {v} : u # w /\ Holds(u)' /\ Holds(w)' => Apart(rows'[u].start, rows'[w].start)
      BY <3>4 DEF BookInv, HeldApart
    <3>6. HeldApart'
      BY <3>2, <3>4, <3>5 DEF HeldApart, Apart
    <3>7. \A u \in Visits : Stage(u)' /\ Agree(u)'
      BY <2>1, <3>3, SameKeeps DEF BookInv
    <3> QED
      BY <3>6, <3>7 DEF Shape
  <2> QED
    BY <2>3, <2>4
<1> QED
  BY <1>1, <1>2, <1>3, <1>4, <1>5, <1>6 DEF Request

\* A write to a row that keeps its start, and its status unless that is confirmed
\* and becomes cancelled with the event gone.
LEMMA RowOnly ==
    ASSUME BookInv, NEW v \in Visits, UNCHANGED <<events, visit, lost>>,
           \A u \in Visits \ {v} : rows'[u] = rows[u] /\ sweep'[u] = sweep[u],
           rows'[v].start = rows[v].start,
           \/ rows'[v].status = rows[v].status
           \/ rows[v].status = "confirmed" /\ rows'[v].status = "cancelled" /\ ~events[v].live,
           sweep'[v].at # "idle" => sweep[v].at # "idle" \/ rows[v].status = "confirmed",
           sweep'[v].at = "mark" => ~events[v].live
    PROVE  Shape'
<1>1. \A u \in Visits \ {v} : Same(u)
  BY DEF Same
<1>2. Stage(v) /\ Agree(v) /\ visit[v].at \in Stations
  BY Updates DEF BookInv, Visit, Stations
<1>3. Stage(v)' /\ Agree(v)' /\ (Holds(v)' => Holds(v) /\ rows'[v].start = rows[v].start)
  BY <1>2 DEF Stage, Agree, Holds, AsSent, Live, Stations
<1> QED
  BY <1>1, <1>3, OneChanges DEF Shape

LEMMA ReplanShape == ASSUME BookInv, Replans PROVE Shape'
<1>1. ASSUME NEW v \in Visits, Hear(v) PROVE Shape'
  <2>0. BookingTypeOK /\ rows[v] \in Row
    BY Updates DEF BookInv
  <2>1. /\ UNCHANGED <<events, visit, lost, sweep>>
        /\ rows' = rows \/ SetStamp(v, now) \/ SetStamp(v, None)
    BY <1>1 DEF Hear
  <2>2. /\ \A u \in Visits \ {v} : rows'[u] = rows[u]
        /\ rows'[v].start = rows[v].start /\ rows'[v].status = rows[v].status
    BY <2>0, <2>1 DEF SetStamp, BookingTypeOK, Row
  <2>3. sweep[v].at = "mark" => ~events[v].live
    BY DEF BookInv, Stage
  <2> QED
    BY <2>1, <2>2, <2>3, RowOnly
<1>2. CASE UNCHANGED <<rows, events, visit, sweep, lost>>
  <2>1. \A u \in Visits : Same(u)
    BY <1>2 DEF Same
  <2> QED
    BY <2>1, NothingChanges DEF Shape
<1> QED
  BY <1>1, <1>2 DEF Replans, Fetch, HearFails, Store, Breaks, BreaksWhen, Jump

LEMMA SweepShape ==
    ASSUME BookInv, NEW v \in Visits, SweepStep(v) \/ SweepDies(v) PROVE Shape'
<1>0. /\ BookingTypeOK /\ v \in Events
      /\ rows[v] \in Row /\ sweep[v] \in Sweep /\ Stage(v) /\ Agree(v)
  BY Updates DEF BookInv, Events
<1>1. CASE Due(v)
  <2>1. /\ UNCHANGED <<rows, events, visit, lost>> /\ rows[v].status = "confirmed"
        /\ sweep'[v].at = "check" /\ \A u \in Visits \ {v} : sweep'[u] = sweep[u]
    BY <1>0, <1>1 DEF Due, Marked, BookingTypeOK
  <2> QED
    BY <2>1, RowOnly
<1>2. CASE Check(v)
  <2>1. /\ UNCHANGED <<events, visit, lost>>
        /\ \/ ~events[v].live /\ Cancelled(v) /\ Rest(v)
           \/ Rest(v) /\ (SetStamp(v, None) \/ rows' = rows)
           \/ To(v, "delete") /\ rows' = rows
    BY <1>2 DEF Check, CheckWhen
  <2>2. /\ \A u \in Visits \ {v} : rows'[u] = rows[u] /\ sweep'[u] = sweep[u]
        /\ rows'[v].start = rows[v].start
        /\ \/ rows'[v].status = rows[v].status
           \/ rows[v].status = "confirmed" /\ rows'[v].status = "cancelled" /\ ~events[v].live
        /\ sweep'[v].at \in {"idle", "delete"} /\ sweep[v].at = "check"
    BY <1>0, <1>2, <2>1 DEF Check, CheckWhen, Cancelled, Rest, Idle, To, SetStamp, BookingTypeOK, Row, Sweep
  <2> QED
    BY <2>1, <2>2, RowOnly
<1>3. CASE Delete(v)
  <2>1. UNCHANGED <<rows, visit, lost>> /\ sweep[v].at = "delete"
    BY <1>3 DEF Delete
  <2>2. \A u \in Visits \ {v} : Same(u)
    <3>1. \A u \in Visits \ {v} : events'[u] = events[u]
      BY <1>0, <1>3 DEF Delete, BookingTypeOK, Events
    <3>2. \A u \in Visits \ {v} : sweep'[u] = sweep[u]
      BY <1>0, <1>3 DEF Delete, To, Rest, BookingTypeOK
    <3> QED
      BY <2>1, <3>1, <3>2 DEF Same
  <2>3. \/ events'[v] = NoEvent /\ sweep'[v].at = "mark"
        \/ events' = events /\ sweep'[v].at = "idle"
    BY <1>0, <1>3 DEF Delete, To, Rest, Idle, BookingTypeOK, Sweep
  <2>4. Stage(v)' /\ Agree(v)' /\ (Holds(v)' => Holds(v) /\ rows'[v].start = rows[v].start)
    BY <1>0, <2>1, <2>3 DEF Stage, Agree, Holds, AsSent, Live, NoEvent
  <2> QED
    BY <2>2, <2>4, OneChanges DEF Shape
<1>4. CASE Mark(v)
  <2>1. /\ UNCHANGED <<events, visit, lost>> /\ ~events[v].live
        /\ Cancelled(v) /\ Rest(v)
    BY <1>0, <1>4 DEF Mark, Stage
  <2>2. /\ \A u \in Visits \ {v} : rows'[u] = rows[u] /\ sweep'[u] = sweep[u]
        /\ rows'[v].start = rows[v].start
        /\ \/ rows'[v].status = rows[v].status
           \/ rows[v].status = "confirmed" /\ rows'[v].status = "cancelled" /\ ~events[v].live
        /\ sweep'[v].at = "idle"
    BY <1>0, <2>1 DEF Cancelled, Rest, Idle, BookingTypeOK, Row
  <2> QED
    BY <2>1, <2>2, RowOnly
<1>5. CASE SweepDies(v)
  <2>1. /\ UNCHANGED <<rows, events, visit, lost>>
        /\ sweep'[v].at = "idle" /\ \A u \in Visits \ {v} : sweep'[u] = sweep[u]
    BY <1>0, <1>5 DEF SweepDies, Rest, Idle, BookingTypeOK
  <2> QED
    BY <2>1, RowOnly
<1> QED
  BY <1>1, <1>2, <1>3, <1>4, <1>5 DEF SweepStep

\* An event that is answered, moved or deleted, and nothing else.
LEMMA EventOnly ==
    ASSUME BookInv, NEW e \in Events, UNCHANGED <<rows, visit, sweep, lost>>,
           \A f \in Events \ {e} : events'[f] = events[f],
           events[e].live,
           \/ ~events'[e].live /\ ~events'[e].sync
           \/ /\ events'[e].live /\ events'[e].start = events[e].start
              /\ events'[e].moved = events[e].moved /\ events'[e].sync = events[e].sync
           \/ events'[e].live /\ events'[e].start \in Hours /\ events'[e].moved
    PROVE  Shape'
<1>1. CASE e \notin Visits
  <2>1. \A u \in Visits : Same(u)
    BY <1>1 DEF Same, Events
  <2> QED
    BY <2>1, NothingChanges DEF Shape
<1>2. CASE e \in Visits
  <2>1. \A u \in Visits \ {e} : Same(u)
    BY DEF Same, Events
  <2>2. Stage(e) /\ Agree(e) /\ visit[e].at \in Stations
    BY <1>2, Updates DEF BookInv, Visit, Stations
  <2>3. Stage(e)' /\ Agree(e)' /\ (Holds(e)' => Holds(e) /\ rows'[e].start = rows[e].start)
    BY <2>2 DEF Stage, Agree, Holds, AsSent, Live, Stations
  <2> QED
    BY <1>2, <2>1, <2>3, OneChanges DEF Shape
<1> QED
  BY <1>1, <1>2

LEMMA OutsideShape == ASSUME BookInv, Outside PROVE Shape'
<1>0. BookingTypeOK /\ Visits \subseteq Events
  BY DEF BookInv, Events
<1>1. ASSUME NEW v \in Visits, Respond(v) PROVE Shape'
  <2>1. /\ UNCHANGED <<rows, visit, sweep, lost>> /\ events[v].live /\ events[v] \in Event
        /\ events' = [events EXCEPT ![v].declined = ~@]
    BY <1>0, <1>1, Updates DEF Respond
  <2>2. /\ \A f \in Events \ {v} : events'[f] = events[f]
        /\ events'[v].live /\ events'[v].start = events[v].start
        /\ events'[v].moved = events[v].moved /\ events'[v].sync = events[v].sync
    BY <1>0, <2>1 DEF BookingTypeOK, Event
  <2> QED
    BY <1>0, <2>1, <2>2, EventOnly
<1>2. ASSUME NEW v \in Visits, OwnerDeletes(v) PROVE Shape'
  <2>1. /\ UNCHANGED <<rows, visit, sweep, lost>> /\ events[v].live
        /\ \A f \in Events \ {v} : events'[f] = events[f]
        /\ ~events'[v].live /\ ~events'[v].sync
    BY <1>0, <1>2 DEF OwnerDeletes, NoEvent, BookingTypeOK
  <2> QED
    BY <1>0, <2>1, EventOnly
<1>3. ASSUME NEW v \in Visits, NEW t \in Hours, OwnerMoves(v, t) PROVE Shape'
  <2>1. events[v] \in Event
    BY <1>0, Updates
  <2>2. /\ UNCHANGED <<rows, visit, sweep, lost>> /\ events[v].live
        /\ \A f \in Events \ {v} : events'[f] = events[f]
        /\ events'[v].live /\ events'[v].start = t /\ events'[v].moved
    BY <1>0, <1>3, <2>1 DEF OwnerMoves, Moved, BookingTypeOK, Event
  <2> QED
    BY <1>0, <2>2, EventOnly
<1>4. ASSUME NEW e \in Events, Judge(e) PROVE Shape'
  <2>1. /\ UNCHANGED <<rows, visit, sweep, lost>> /\ events[e].live /\ events[e] \in Event
        /\ events' = [events EXCEPT ![e].movable = ~@]
    BY <1>0, <1>4 DEF Judge, BookingTypeOK
  <2>2. /\ \A f \in Events \ {e} : events'[f] = events[f]
        /\ events'[e].live /\ events'[e].start = events[e].start
        /\ events'[e].moved = events[e].moved /\ events'[e].sync = events[e].sync
    BY <1>0, <2>1 DEF BookingTypeOK, Event
  <2> QED
    BY <2>1, <2>2, EventOnly
<1>5. ASSUME NEW e \in Events, NEW t \in Hours, Relocate(e, t) PROVE Shape'
  <2>1. events[e] \in Event
    BY <1>0 DEF BookingTypeOK
  <2>2. /\ UNCHANGED <<rows, visit, sweep, lost>> /\ events[e].live
        /\ \A f \in Events \ {e} : events'[f] = events[f]
        /\ events'[e].live /\ events'[e].start = t /\ events'[e].moved
    BY <1>0, <1>5, <2>1 DEF Relocate, Moved, BookingTypeOK, Event
  <2> QED
    BY <2>2, EventOnly
<1>6. ASSUME NEW v \in Visits, SyncBookingTime(v) PROVE Shape'
  <2>0. events[v] \in Event /\ rows[v] \in Row /\ Stage(v) /\ Agree(v)
    BY Updates DEF BookInv
  <2>1. \A u \in Visits \ {v} : Same(u)
    BY <1>0, <1>6 DEF SyncBookingTime, Same, BookingTypeOK
  <2>2. /\ UNCHANGED <<visit, sweep, lost>> /\ events[v].live /\ events[v].moved
        /\ events'[v].live /\ events'[v].moved /\ events'[v].start = events[v].start
        /\ rows'[v].status = rows[v].status
        /\ rows'[v].start \in {rows[v].start, events[v].start}
    BY <1>0, <1>6, <2>0 DEF SyncBookingTime, BookingTypeOK, Event, Row, Agree
  <2>3. Stage(v)' /\ Agree(v)' /\ (Holds(v)' => Holds(v) /\ rows'[v].start = rows[v].start)
    BY <2>0, <2>2 DEF Stage, Agree, Holds, AsSent, Live
  <2> QED
    BY <2>1, <2>3, OneChanges DEF Shape
<1>7. CASE Tick
  <2>1. \A u \in Visits : Same(u)
    BY <1>7 DEF Tick, Same
  <2> QED
    BY <2>1, NothingChanges DEF Shape
<1> QED
  BY <1>1, <1>2, <1>3, <1>4, <1>5, <1>6, <1>7 DEF Outside

LEMMA BookStart == Init => BookInv
<1> SUFFICES ASSUME Init PROVE BookInv
  OBVIOUS
<1>1. ASSUME NEW v \in Visits PROVE Stage(v) /\ Agree(v) /\ ~Holds(v)
  BY DEF Init, Stage, Agree, Holds, AsSent, Live, Fresh, NoEvent, Idle, Events
<1> QED
  BY <1>1, TypeStart DEF BookInv, HeldApart

LEMMA BookStep == BookInv /\ [Next]_bvars => BookInv'
<1> SUFFICES ASSUME BookInv, [Next]_bvars PROVE BookInv'
  OBVIOUS
<1>1. BookingTypeOK'
  BY TypeStep DEF BookInv
<1>2. CASE UNCHANGED bvars
  <2>1. \A u \in Visits : Same(u)
    BY <1>2 DEF bvars, Same
  <2> QED
    BY <1>1, <2>1, NothingChanges DEF BookInv
<1>3. Shape' \/ UNCHANGED bvars
  BY StepIs, RequestShape, ReplanShape, SweepShape, OutsideShape
<1> QED
  BY <1>1, <1>2, <1>3 DEF Shape, BookInv

LEMMA BookAlways == Spec => []BookInv
BY BookStart, BookStep, PTL DEF Spec

-----------------------------------------------------------------------------
(* The theorems.                                                             *)

\* What is apart does not overlap, padding included; and conversely.
LEMMA ApartIs ==
    ASSUME NEW s \in Nat, NEW t \in Nat
    PROVE  Apart(s, t) <=> Span(s) \cap Padded(t) = {}
<1>1. ASSUME Apart(s, t), NEW x \in Span(s) PROVE x \notin Padded(t)
  BY <1>1, Numbers DEF Apart, Span, Padded, Gap
<1>2. ASSUME ~Apart(s, t) PROVE \E x \in Span(s) : x \in Padded(t)
  <2>1. CASE s >= t - Gap
    <3>1. s \in Span(s) /\ s \in Padded(t)
      BY <1>2, <2>1, Numbers DEF Apart, Span, Padded, Gap
    <3> QED
      BY <3>1
  <2>2. CASE ~(s >= t - Gap)
    <3>1. (t - Gap) \in Span(s) /\ (t - Gap) \in Padded(t)
      BY <1>2, <2>2, Numbers DEF Apart, Span, Padded, Gap
    <3> QED
      BY <3>1
  <2> QED
    BY <2>1, <2>2
<1> QED
  BY <1>1, <1>2

\* Every variable of the page keeps its type.
THEOREM BookingsTyped == Spec => []BookingTypeOK
BY BookAlways, PTL DEF BookInv

\* Invitations sent out and not moved since never clash, padding included, whatever
\* requests, replans and sweeps race, fail or die (claimSlot's one INSERT decides).
THEOREM InvitationsNeverClash == Spec => []HeldWhileInvited
<1>1. BookInv => HeldWhileInvited
  <2> SUFFICES ASSUME BookInv, NEW v \in Visits, NEW w \in Visits, v # w,
                      AsSent(v), AsSent(w)
               PROVE  Span(events[v].start) \cap Padded(events[w].start) = {}
    BY DEF HeldWhileInvited, AsSent
  <2>1. Apart(rows[v].start, rows[w].start)
    BY DEF BookInv, HeldApart, Holds
  <2>2. /\ rows[v].start = events[v].start /\ rows[w].start = events[w].start
        /\ rows[v].start \in Hours /\ rows[w].start \in Hours
    BY DEF BookInv, Agree
  <2>3. rows[v].start \in Nat /\ rows[w].start \in Nat
    BY <2>2, BookingAssumption
  <2> QED
    BY <2>1, <2>2, <2>3, ApartIs
<1> QED
  BY <1>1, BookAlways, PTL

\* The offer's padding and the claim's compose: what a page shows, claimSlot would
\* let through, for any paddings, durations and page sizes.
THEOREM OffersAreClaimable == Spec => []OfferedIsClaimable
<1>1. BookInv => OfferedIsClaimable
  <2> SUFFICES ASSUME BookInv, NEW page \in 0..(Reach - 1), NEW t \in Offered(now, page),
                      NEW v \in Visits, Live(rows[v]),
                      Overlaps(PageWindow(now, page), rows[v].start)
               PROVE  Apart(rows[v].start, t)
    BY DEF OfferedIsClaimable, ClearOf, Apart
  <2>1. t \in Bookable(now, PageWindow(now, page))
    BY DEF Offered
  <2>2. PICK blocks : /\ RowBlocks(PageWindow(now, page)) \subseteq blocks /\ t \in Hours
                      /\ Fits(now, PageWindow(now, page), blocks, t)
    BY <2>1 DEF Bookable
  <2>3. rows[v].start \in RowBlocks(PageWindow(now, page))
    BY DEF RowBlocks
  <2>4. Span(t) \cap Padded(rows[v].start) = {}
    BY <2>2, <2>3 DEF Fits
  <2>5. rows[v].start \in Nat /\ t \in Nat
    BY <2>2, BookingAssumption DEF BookInv, Agree
  <2> QED
    BY <2>4, <2>5, ApartIs, ApartEitherWay
<1> QED
  BY <1>1, BookAlways, PTL

\* A row is cancelled only with its invitation gone, though the sweep deletes the
\* event and closes the row in two calls and may die between them.
THEOREM CancelledLeaveNothing == Spec => []CancelledIsGone
<1>1. BookInv => CancelledIsGone
  BY DEF BookInv, Agree, CancelledIsGone
<1> QED
  BY <1>1, BookAlways, PTL
=============================================================================
