---------------------------- MODULE PollBooking ----------------------------
(***************************************************************************)
(* A group poll and the engine that books it (worker/src/polls/booking.ts) *)
(* with everything that can start it or race it: the invitees' saves and   *)
(* the guest join (polls/route.ts), the hourly sweep (cron/poll-sweep.ts), *)
(* the organiser's book, bookBest, edit and cancel (handlers/polls.ts),    *)
(* visitors of the booking page who claim from the same bookings table     *)
(* (db/bookings.ts), and the organiser's calendar.                         *)
(*                                                                         *)
(* Each await that another actor can get between is a step of its own; a   *)
(* run of the engine, a save and an edit can die at any of them.  A slot   *)
(* stands for a start with its padding; two slots may overlap.             *)
(***************************************************************************)
EXTENDS Naturals, FiniteSets

CONSTANTS
    Invitees, Slots,
    Overlaps,    \* pairs of slots that overlap, padding included
    Runs,        \* runs of the engine under way at once
    Claims,      \* ids of poll rows of bookings; an event carries its claim's
    Paints,      \* answers an invitee gives: the slots they cover
    Edits,       \* edits the organiser makes
    Guests,      \* who is not invited, but may join through the guest link
    MaxDay,      \* bound: days
    MaxSaves,    \* bound: responses
    MaxAsks,     \* bound: book, bookBest, edit and cancel requests
    MaxUpsets,   \* bound: what happens to a run from outside: a provider call
                 \* fails, the calendar changes, the page claims, it dies
    MayDie,      \* whether runs, saves and edits may die
    None

Edit == [drop : SUBSET Invitees, add : SUBSET Invitees,
         guest : {"keep", "on", "off"}, extend : BOOLEAN]
ASSUME PollAssumption ==
    /\ Edits \subseteq Edit /\ Paints \subseteq SUBSET Slots /\ Guests \subseteq Invitees
    /\ None \notin Slots \cup Claims
    /\ \A s \in Slots : <<s, s>> \in Overlaps
    /\ \A s, t \in Slots : <<s, t>> \in Overlaps => <<t, s>> \in Overlaps
    /\ {MaxDay, MaxSaves, MaxAsks, MaxUpsets} \subseteq Nat /\ MayDie \in BOOLEAN

VARIABLES
    poll,     \* the polls row
    inv,      \* poll_invitees and poll_responses
    rows,     \* the poll's bookings rows, by claim
    taken,    \* slots of live bookings made on the booking page
    busy,     \* slots the organiser's calendar blocks otherwise
    cal,      \* claims whose event is in the calendar
    run, save, edit, cancel, sweep,
    day, used,
    lost,     \* history: claims whose event a failed call or a death left
    fresh,    \* history: a response or edit no run has looked at since
    gaveUp    \* history: a run ended on a failure, a death or another's claim

work == <<run, save, edit, cancel, sweep>>
table == <<rows, taken, busy, cal>>
past == <<lost, fresh, gaveUp>>
pvars == <<poll, inv, table, work, day, used, past>>

-----------------------------------------------------------------------------
Statuses == {"open", "booked", "cancelled", "needs_attention"}
Actionable(status) == status \in {"open", "needs_attention"}
Poll == [status : Statuses, deadline : 1..(MaxDay + 1), event : Claims \cup {None},
         guest : BOOLEAN, stamp : BOOLEAN]
Invitee == [on : {"absent", "on", "dropped"}, responded : BOOLEAN, cells : SUBSET Slots]
Booking == [slot : Slots, status : {"reserving", "confirmed", "failed"}]
ASSUME NoneAssumption == None \notin Booking
Kinds == {"none", "allin", "deadline", "best", "book"}
Places == {"idle", "begin", "rank", "walk", "claim", "explain", "create", "failed",
           "cas", "undo", "release", "confirm", "check", "live", "mail", "park"}
Run == [at : Places, kind : Kinds, need : SUBSET Invitees, todo : SUBSET Slots,
        slot : Slots \cup {None}, claim : Claims \cup {None}, stamp : BOOLEAN]
Rest == [at |-> "idle", kind |-> "none", need |-> {}, todo |-> {}, slot |-> None,
         claim |-> None, stamp |-> FALSE]
Save == [at : {"idle", "cells", "fire", "join"}, cells : SUBSET Slots]
Quiet == [at |-> "idle", cells |-> {}]
Nothing == [drop |-> {}, add |-> {}, guest |-> "keep", extend |-> FALSE]
EditState == [at : {"idle", "reopen", "roster", "deadline", "stamps", "book"},
              ask : Edit \cup {Nothing}, rebook : BOOLEAN]
AtRest == [at |-> "idle", ask |-> Nothing, rebook |-> FALSE]
Limit == [saves |-> MaxSaves, asks |-> MaxAsks, upsets |-> MaxUpsets]

PollTypeOK ==
    /\ poll \in Poll /\ (poll.status = "booked" <=> poll.event # None)
    /\ inv \in [Invitees -> Invitee]
    /\ rows \in [Claims -> Booking \cup {None}]
    /\ taken \subseteq Slots /\ busy \subseteq Slots
    /\ cal \subseteq Claims /\ lost \subseteq Claims
    /\ run \in [Runs -> Run] /\ save \in [Invitees -> Save] /\ edit \in EditState
    /\ cancel \in BOOLEAN /\ sweep \in BOOLEAN
    /\ day \in 0..MaxDay
    /\ used \in [DOMAIN Limit -> Nat] /\ \A b \in DOMAIN Limit : used[b] <= Limit[b]
    /\ fresh \in BOOLEAN /\ gaveUp \in BOOLEAN

\* createMeetingPoll stored the poll and its invitees.
Init ==
    /\ poll = [status |-> "open", deadline |-> 1, event |-> None,
               guest |-> Guests # {}, stamp |-> FALSE]
    /\ inv = [i \in Invitees |->
                [on |-> IF i \in Guests THEN "absent" ELSE "on",
                 responded |-> FALSE, cells |-> {}]]
    /\ rows = [c \in Claims |-> None]
    /\ taken = {} /\ busy = {} /\ cal = {}
    /\ run = [r \in Runs |-> Rest] /\ save = [i \in Invitees |-> Quiet]
    /\ edit = AtRest /\ cancel = FALSE /\ sweep = FALSE
    /\ day = 0 /\ used = [b \in DOMAIN Limit |-> 0]
    /\ lost = {} /\ fresh = FALSE /\ gaveUp = FALSE

Use(b) == used[b] < Limit[b] /\ used' = [used EXCEPT ![b] = @ + 1]

-----------------------------------------------------------------------------
(* The tables *)

On == {i \in Invitees : inv[i].on = "on"}
Responded == {i \in On : inv[i].responded}
Live(c) == rows[c] # None /\ rows[c].status \in {"reserving", "confirmed"}
LiveClaims == {c \in Claims : Live(c)}
Unused == {c \in Claims : rows[c] = None}
FreshId == CHOOSE c \in Unused : TRUE

\* Starts the organiser can offer: neither the calendar nor a live booking is
\* in the way.  A poll's own event is in the calendar too.
Clear(s, set) == \A t \in set : <<s, t>> \notin Overlaps
Free == {s \in Slots : Clear(s, busy \cup taken \cup {rows[c].slot : c \in LiveClaims \cup cal})}

\* casSetPollStatus, casSetBooked: only from a status still bookable.
SetPoll(new) == poll' = [poll EXCEPT !.status = new]
FailBooking(c) == rows' = [rows EXCEPT ![c].status = "failed"]

-----------------------------------------------------------------------------
(* A run of the engine *)

Goto(r, place) == run' = [run EXCEPT ![r].at = place]
End(r) == run' = [run EXCEPT ![r] = Rest]
Begun(r, kind, slots) ==
    /\ run[r] = Rest
    /\ run' = [run EXCEPT ![r] = [Rest EXCEPT !.at = IF kind = "book" THEN "walk" ELSE "begin",
                                              !.kind = kind, !.todo = slots]]
Automatic(r) == run[r].kind \in {"allin", "deadline"}

\* maybeBookOnAllIn, bookAtDeadline, bookBestNow: the poll is read again.
MayBegin(kind) ==
    CASE kind = "allin" -> /\ Actionable(poll.status)
                           /\ ~(poll.guest /\ poll.status = "open")
                           /\ On = Responded
      [] kind = "deadline" -> poll.status = "open" /\ day >= poll.deadline
      [] kind = "best" -> Actionable(poll.status) /\ Responded # {}

\* Whom the slot must suit: those on the poll, or those who answered.  With
\* nobody to suit there is nothing to rank, and the organiser is told.
Begin(r) ==
    LET need == IF run[r].kind = "allin" THEN On ELSE Responded IN
    /\ run[r].at = "begin"
    /\ IF MayBegin(run[r].kind)
       THEN /\ run' = [run EXCEPT ![r].need = need,
                                  ![r].at = IF need = {} THEN "check" ELSE "rank"]
            /\ fresh' = (fresh /\ need # {})
       ELSE End(r) /\ UNCHANGED fresh
    /\ UNCHANGED <<poll, inv, table, save, edit, cancel, sweep, day, used, lost, gaveUp>>

\* The calendar is read, then the responses; a failed read ends the run.
Rank(r) ==
    /\ run[r].at = "rank"
    /\ \/ /\ run' = [run EXCEPT ![r].at = "walk",
                       ![r].todo = {s \in Free : \A i \in run[r].need : s \in inv[i].cells}]
          /\ fresh' = FALSE /\ UNCHANGED <<used, gaveUp>>
       \/ End(r) /\ gaveUp' = TRUE /\ Use("upsets") /\ UNCHANGED fresh
    /\ UNCHANGED <<poll, inv, table, save, edit, cancel, sweep, day, lost>>

\* The walk is over: an automatic run escalates, the organiser is answered.
WalkEnds(r) ==
    /\ run[r].at = "walk" /\ run[r].todo = {}
    /\ IF Automatic(r) THEN Goto(r, "check") ELSE End(r)
    /\ UNCHANGED <<poll, inv, table, save, edit, cancel, sweep, day, used, past>>

Skip(r, s) == run' = [run EXCEPT ![r].todo = @ \ {s}, ![r].at = "walk", ![r].slot = None,
                                 ![r].claim = None]

\* bookPollSlotInternal, for the next slot of the ranking: the status and the
\* organiser's availability are read live.
Try(r, s) ==
    /\ run[r].at = "walk" /\ s \in run[r].todo
    /\ \/ /\ IF ~Actionable(poll.status) THEN End(r)
             ELSE IF s \notin Free THEN Skip(r, s)
             ELSE run' = [run EXCEPT ![r].at = "claim", ![r].slot = s]
          /\ UNCHANGED <<used, gaveUp>>
       \/ End(r) /\ gaveUp' = TRUE /\ Use("upsets")
    /\ UNCHANGED <<poll, inv, table, save, edit, cancel, sweep, day, lost, fresh>>

ClaimWhen(r, ok) ==
    /\ run[r].at = "claim"
    /\ IF ok
       THEN /\ Unused # {}
            /\ rows' = [rows EXCEPT ![FreshId] = [slot |-> run[r].slot, status |-> "reserving"]]
            /\ run' = [run EXCEPT ![r].at = "create", ![r].claim = FreshId]
       ELSE Goto(r, "explain") /\ UNCHANGED rows
    /\ UNCHANGED <<poll, inv, taken, busy, cal, save, edit, cancel, sweep, day, used, past>>

NoOverlap(s) == Clear(s, taken \cup {rows[c].slot : c \in LiveClaims})

\* Mutant of Claim: a poll may hold two claims that do not overlap.
ClaimTwice(r) == ClaimWhen(r, NoOverlap(run[r].slot))

\* Mutant of Claim: what was read before the claim decides.
ClaimBlind(r) == ClaimWhen(r, LiveClaims = {})

\* claimSlot: one INSERT ... WHERE NOT EXISTS, for the slot and for the poll.
Claim(r) == ClaimWhen(r, NoOverlap(run[r].slot) /\ LiveClaims = {})

\* Standing down for a claim that no automatic run will see through.
Yields == gaveUp' = (gaveUp \/ \E c \in LiveClaims :
                       ~\E q \in Runs : run[q].claim = c /\ Automatic(q))

\* hasLiveBookingForPoll tells a claimed poll from a taken slot.
Explain(r) ==
    /\ run[r].at = "explain"
    /\ IF LiveClaims # {} THEN End(r) /\ Yields
                          ELSE Skip(r, run[r].slot) /\ UNCHANGED gaveUp
    /\ UNCHANGED <<poll, inv, table, save, edit, cancel, sweep, day, used, lost, fresh>>

\* createEvent: a call that fails may have created the event all the same.
Create(r) ==
    /\ run[r].at = "create"
    /\ \/ Goto(r, "cas") /\ cal' = cal \cup {run[r].claim} /\ UNCHANGED <<used, lost>>
       \/ /\ Goto(r, "failed") /\ Use("upsets")
          /\ \/ UNCHANGED <<cal, lost>>
             \/ cal' = cal \cup {run[r].claim} /\ lost' = lost \cup {run[r].claim}
    /\ UNCHANGED <<poll, inv, rows, taken, busy, save, edit, cancel, sweep, day, fresh, gaveUp>>

\* calendar_write_failed: the slot is free again; bookBest stops there.
Failed(r) ==
    /\ run[r].at = "failed"
    /\ FailBooking(run[r].claim)
    /\ IF Automatic(r) THEN Skip(r, run[r].slot) ELSE End(r)
    /\ UNCHANGED <<poll, inv, taken, busy, cal, save, edit, cancel, sweep, day, used, past>>

\* casSetBooked, after the event exists.
Cas(r) ==
    /\ run[r].at = "cas"
    /\ IF Actionable(poll.status)
       THEN /\ poll' = [poll EXCEPT !.status = "booked", !.event = run[r].claim]
            /\ Goto(r, "confirm")
       ELSE Goto(r, "undo") /\ UNCHANGED poll
    /\ UNCHANGED <<inv, table, save, edit, cancel, sweep, day, used, past>>

\* Mutant of Undo: the claim is released, the event forgotten.
UndoSkipped(r) ==
    /\ run[r].at = "undo"
    /\ Goto(r, "release")
    /\ UNCHANGED <<poll, inv, table, save, edit, cancel, sweep, day, used, past>>

\* The poll went terminal meanwhile: the event is deleted, best effort.
Undo(r) ==
    /\ run[r].at = "undo"
    /\ Goto(r, "release")
    /\ \/ cal' = cal \ {run[r].claim} /\ UNCHANGED <<used, lost>>
       \/ Use("upsets") /\ lost' = lost \cup {run[r].claim} /\ UNCHANGED cal
    /\ UNCHANGED <<poll, inv, rows, taken, busy, save, edit, cancel, sweep, day, fresh, gaveUp>>

Release(r) ==
    /\ run[r].at = "release"
    /\ FailBooking(run[r].claim) /\ End(r)
    /\ UNCHANGED <<poll, inv, taken, busy, cal, save, edit, cancel, sweep, day, used, past>>

\* Mutant of Confirm: a notice that bounces fails the booking.
ConfirmUnlessBounced(r) ==
    /\ run[r].at = "confirm"
    /\ \/ rows' = [rows EXCEPT ![run[r].claim].status = "confirmed"]
       \/ FailBooking(run[r].claim)
    /\ End(r)
    /\ UNCHANGED <<poll, inv, taken, busy, cal, save, edit, cancel, sweep, day, used, past>>

\* confirmBooking; the notices that follow never undo it.
Confirm(r) ==
    /\ run[r].at = "confirm"
    /\ rows' = [rows EXCEPT ![run[r].claim].status = "confirmed"]
    /\ End(r)
    /\ UNCHANGED <<poll, inv, taken, busy, cal, save, edit, cancel, sweep, day, used, past>>

-----------------------------------------------------------------------------
(* Escalation *)

\* The fresh row decides, and its stamp whether the organiser is mailed.
EscalateCheck(r) ==
    /\ run[r].at = "check"
    /\ IF Actionable(poll.status)
       THEN run' = [run EXCEPT ![r].at = "live", ![r].stamp = poll.stamp]
       ELSE End(r)
    /\ UNCHANGED <<poll, inv, table, save, edit, cancel, sweep, day, used, past>>

\* Mutant of EscalateLive: every claim ever made counts, the failed too.
EscalateLiveEver(r) ==
    /\ run[r].at = "live"
    /\ IF Unused # Claims THEN End(r) /\ Yields
       ELSE Goto(r, IF run[r].stamp THEN "park" ELSE "mail") /\ UNCHANGED gaveUp
    /\ UNCHANGED <<poll, inv, table, save, edit, cancel, sweep, day, used, lost, fresh>>

\* A claim in flight will book the poll: no alarm.
EscalateLive(r) ==
    /\ run[r].at = "live"
    /\ IF LiveClaims # {} THEN End(r) /\ Yields
       ELSE Goto(r, IF run[r].stamp THEN "park" ELSE "mail") /\ UNCHANGED gaveUp
    /\ UNCHANGED <<poll, inv, table, save, edit, cancel, sweep, day, used, lost, fresh>>

EscalateMail(r) ==
    /\ run[r].at = "mail"
    /\ \/ Goto(r, "park") /\ UNCHANGED <<used, gaveUp>>
       \/ End(r) /\ gaveUp' = TRUE /\ Use("upsets")
    /\ UNCHANGED <<poll, inv, table, save, edit, cancel, sweep, day, lost, fresh>>

\* Parked by compare-and-set, and stamped with it.
EscalatePark(r) ==
    /\ run[r].at = "park"
    /\ End(r)
    /\ poll' = IF Actionable(poll.status)
               THEN [poll EXCEPT !.status = "needs_attention", !.stamp = TRUE] ELSE poll
    /\ UNCHANGED <<inv, table, save, edit, cancel, sweep, day, used, past>>

\* The isolate is evicted, or a statement throws.
RunDies(r) ==
    /\ run[r].at # "idle"
    /\ MayDie /\ Use("upsets") /\ End(r) /\ gaveUp' = TRUE
    /\ lost' = lost \cup (({run[r].claim} \cap cal) \ {poll.event})
    /\ UNCHANGED <<poll, inv, table, save, edit, cancel, sweep, day, fresh>>

-----------------------------------------------------------------------------
(* Invitees *)

At(i, place) == save' = [save EXCEPT ![i].at = place]

\* PUT response: token, status and deadline, then the paintable region, read
\* through a cache that may be behind the calendar.
SaveOpen(i, p) ==
    /\ save[i].at = "idle" /\ i \in On
    /\ \/ poll.status = "open" /\ day < poll.deadline
       \/ poll.status = "needs_attention"
    /\ p \subseteq Free \cup inv[i].cells
    /\ Use("saves")
    /\ \E kept \in {p, p \cap Free} : save' = [save EXCEPT ![i] = [at |-> "cells", cells |-> kept]]
    /\ UNCHANGED <<poll, inv, table, run, edit, cancel, sweep, day, past>>

\* The cells are replaced, then the invitee is marked; runs tell no difference.
SaveCells(i) ==
    /\ save[i].at = "cells"
    /\ inv' = [inv EXCEPT ![i].cells = save[i].cells, ![i].responded = TRUE]
    /\ save' = [save EXCEPT ![i] = [at |-> "fire", cells |-> {}]]
    /\ fresh' = TRUE
    /\ UNCHANGED <<poll, table, run, edit, cancel, sweep, day, used, lost, gaveUp>>

\* Mutant of SaveFire: only the first answer starts the check.
SaveFireOnce(i) ==
    /\ save[i].at = "fire"
    /\ IF poll.status = "open" /\ used["saves"] = 1
       THEN \E r \in Runs : Begun(r, "allin", {})
       ELSE UNCHANGED run
    /\ At(i, "idle")
    /\ UNCHANGED <<poll, inv, table, edit, cancel, sweep, day, used, past>>

\* The status is read again: an escalated poll is left to its organiser.
SaveFire(i) ==
    /\ save[i].at = "fire"
    /\ IF poll.status = "open"
       THEN (\E r \in Runs : Begun(r, "allin", {})) /\ UNCHANGED fresh
       ELSE fresh' = FALSE /\ UNCHANGED run
    /\ At(i, "idle")
    /\ UNCHANGED <<poll, inv, table, edit, cancel, sweep, day, used, lost, gaveUp>>

SaveDies(i) ==
    /\ save[i].at # "idle"
    /\ MayDie /\ Use("upsets") /\ save' = [save EXCEPT ![i] = Quiet] /\ gaveUp' = TRUE
    /\ UNCHANGED <<poll, inv, table, run, edit, cancel, sweep, day, lost, fresh>>

\* POST join: the poll is read, then the guest is stored, unless the address is
\* on the list by now (nobody who was dropped comes back this way) or there are
\* guests enough or no mail left to send the link with; the answer is the same.
JoinOpen(i) ==
    /\ save[i].at = "idle" /\ inv[i].on = "absent"
    /\ poll.guest /\ poll.status = "open" /\ day < poll.deadline
    /\ At(i, "join")
    /\ UNCHANGED <<poll, inv, table, run, edit, cancel, sweep, day, used, past>>

JoinStore(i) ==
    /\ save[i].at = "join"
    /\ \/ inv' = [inv EXCEPT ![i].on = IF @ = "absent" THEN "on" ELSE @]
       \/ UNCHANGED inv
    /\ At(i, "idle")
    /\ UNCHANGED <<poll, table, run, edit, cancel, sweep, day, used, past>>

-----------------------------------------------------------------------------
(* The organiser, the sweep and the rest of the world *)

\* resolveMeetingPoll: the poll's status, and for "book" the slot, are read.
AskBest(r) ==
    /\ Actionable(poll.status) /\ Use("asks") /\ Begun(r, "best", {})
    /\ UNCHANGED <<poll, inv, table, save, edit, cancel, sweep, day, past>>

AskBook(r, s) ==
    /\ Actionable(poll.status) /\ s \in Free
    /\ Use("asks") /\ Begun(r, "book", {s})
    /\ UNCHANGED <<poll, inv, table, save, edit, cancel, sweep, day, past>>

CancelRead ==
    /\ ~cancel /\ Actionable(poll.status)
    /\ cancel' = TRUE /\ Use("asks")
    /\ UNCHANGED <<poll, inv, table, run, save, edit, sweep, day, past>>

\* cancelPollCore: the notices go out only if the poll could be cancelled.
CancelCas ==
    /\ cancel /\ cancel' = FALSE
    /\ IF Actionable(poll.status) THEN SetPoll("cancelled") ELSE UNCHANGED poll
    /\ UNCHANGED <<inv, table, run, save, edit, sweep, day, used, past>>

\* updatePollCore: everything is validated on one reading of the poll.
EditRead(e) ==
    /\ edit = AtRest /\ Actionable(poll.status)
    /\ e.add \cap (On \ e.drop) = {}
    /\ e.drop \subseteq {i \in Invitees : inv[i].on # "absent"}
    /\ e.extend => day < MaxDay
    /\ Use("asks")
    /\ edit' = [at |-> "reopen", ask |-> e,
                rebook |-> \/ (e.drop \cap On) \ e.add # {}
                           \/ e.guest = "off" /\ poll.guest]
    /\ UNCHANGED <<poll, inv, table, run, save, cancel, sweep, day, past>>

EditTo(place) == edit' = [edit EXCEPT !.at = place]

\* The deadline arm's compare-and-set comes first: refused, nothing is written.
EditReopen ==
    /\ edit.at = "reopen"
    /\ IF ~edit.ask.extend THEN EditTo("roster") /\ UNCHANGED poll
       ELSE IF Actionable(poll.status) THEN EditTo("roster") /\ SetPoll("open")
       ELSE edit' = AtRest /\ UNCHANGED poll
    /\ UNCHANGED <<inv, table, run, save, cancel, sweep, day, used, past>>

\* Removals, then additions and restores, then the guest link; a restored row
\* keeps its answer.
EditRoster ==
    /\ edit.at = "roster"
    /\ inv' = [i \in Invitees |->
                 IF i \in edit.ask.add THEN [inv[i] EXCEPT !.on = "on"]
                 ELSE IF i \in edit.ask.drop THEN [inv[i] EXCEPT !.on = "dropped"]
                 ELSE inv[i]]
    /\ poll' = IF edit.ask.guest = "keep" THEN poll
               ELSE [poll EXCEPT !.guest = edit.ask.guest = "on"]
    /\ fresh' = (fresh \/ edit.rebook)
    /\ EditTo(IF edit.ask.extend THEN "deadline" ELSE "book")
    /\ UNCHANGED <<table, run, save, cancel, sweep, day, used, lost, gaveUp>>

\* setPollDeadline writes the deadline alone.
EditDeadline ==
    /\ edit.at = "deadline"
    /\ poll' = [poll EXCEPT !.deadline = IF @ > day THEN MaxDay + 1 ELSE day + 1]
    /\ EditTo("stamps")
    /\ UNCHANGED <<inv, table, run, save, cancel, sweep, day, used, past>>

\* clearPollEpisodeStamps: a new episode.
EditStamps ==
    /\ edit.at = "stamps"
    /\ poll' = [poll EXCEPT !.stamp = FALSE]
    /\ EditTo("book")
    /\ UNCHANGED <<inv, table, run, save, cancel, sweep, day, used, lost, fresh, gaveUp>>

\* A removal, or the guest link turned off, may have removed the last blocker.
EditBook ==
    /\ edit.at = "book" /\ edit' = AtRest
    /\ IF edit.rebook THEN \E r \in Runs : Begun(r, "allin", {}) ELSE UNCHANGED run
    /\ UNCHANGED <<poll, inv, table, save, cancel, sweep, day, used, past>>

EditDies ==
    /\ edit # AtRest /\ MayDie /\ Use("upsets") /\ edit' = AtRest /\ gaveUp' = TRUE
    /\ UNCHANGED <<poll, inv, table, run, save, cancel, sweep, day, lost, fresh>>

\* runPollSweep lists the open polls once, and works through the list.
SweepList ==
    /\ ~sweep /\ poll.status = "open" /\ day >= poll.deadline
    /\ sweep' = TRUE
    /\ UNCHANGED <<poll, inv, table, run, save, edit, cancel, day, used, past>>

SweepBook(r) ==
    /\ sweep /\ sweep' = FALSE
    /\ Begun(r, "deadline", {})
    /\ UNCHANGED <<poll, inv, table, save, edit, cancel, day, used, past>>

\* A visitor of the booking page claims a slot.
PageClaims(s) ==
    /\ NoOverlap(s) /\ Clear(s, busy)
    /\ Use("upsets") /\ taken' = taken \cup {s}
    /\ UNCHANGED <<poll, inv, rows, busy, cal, work, day, past>>

CalendarChanges(s) ==
    /\ Actionable(poll.status) /\ Use("upsets")
    /\ busy' = IF s \in busy THEN busy \ {s} ELSE busy \cup {s}
    /\ UNCHANGED <<poll, inv, rows, taken, cal, work, day, past>>

Tick ==
    /\ day < MaxDay /\ day' = day + 1
    /\ UNCHANGED <<poll, inv, table, work, used, past>>

RunStep(r) ==
    \/ Begin(r) \/ Rank(r) \/ WalkEnds(r) \/ (\E s \in Slots : Try(r, s))
    \/ Claim(r) \/ Explain(r) \/ Create(r) \/ Failed(r) \/ Cas(r) \/ Undo(r)
    \/ Release(r) \/ Confirm(r) \/ EscalateCheck(r) \/ EscalateLive(r)
    \/ EscalateMail(r) \/ EscalatePark(r)

SaveStep(i) == SaveCells(i) \/ SaveFire(i) \/ JoinStore(i)

EditStep ==
    EditReopen \/ EditRoster \/ EditDeadline \/ EditStamps \/ EditBook

Next ==
    \/ \E r \in Runs :
         \/ RunStep(r) \/ RunDies(r) \/ AskBest(r) \/ SweepBook(r)
         \/ \E s \in Slots : AskBook(r, s)
    \/ \E i \in Invitees :
         \/ SaveStep(i) \/ SaveDies(i) \/ JoinOpen(i)
         \/ \E p \in Paints : SaveOpen(i, p)
    \/ CancelRead \/ CancelCas \/ EditStep \/ EditDies \/ SweepList \/ Tick
    \/ \E e \in Edits : EditRead(e)
    \/ \E s \in Slots : PageClaims(s) \/ CalendarChanges(s)

Spec == Init /\ [][Next]_pvars

\* A request that is answered runs to its end; the sweep comes back.
Fairness ==
    /\ \A r \in Runs : WF_pvars(RunStep(r))
    /\ \A i \in Invitees : WF_pvars(SaveStep(i))
    /\ WF_pvars(EditStep) /\ WF_pvars(CancelCas)
    /\ WF_pvars(SweepList) /\ WF_pvars(\E r \in Runs : SweepBook(r))

FairSpec == Spec /\ Fairness

-----------------------------------------------------------------------------
(* Properties *)

\* The poll never has two meetings in the calendar, whichever runs race
\* (claimSlot's exclusion per poll, and the release after the deletion).
OneMeeting == Cardinality(cal \ lost) <= 1

\* No two live bookings of the organiser overlap, a poll's or the page's.
NoDoubleBooking ==
    /\ \A c, d \in LiveClaims : <<rows[c].slot, rows[d].slot>> \in Overlaps => c = d
    /\ \A c \in LiveClaims : Clear(rows[c].slot, taken)

\* A booked poll's event is in the calendar and its slot stays blocked, also
\* when the run died before it confirmed (bookPollSlotInternal's order).
BookedHolds == poll.status = "booked" => poll.event \in cal /\ Live(poll.event)

\* An event without a booked poll belongs to a run that will delete it, or to
\* a call that failed or died.
NoStrayMeeting ==
    \A c \in cal \ lost :
        \/ poll.status = "booked" /\ poll.event = c
        \/ \E r \in Runs : run[r].claim = c /\ run[r].at \in {"cas", "undo"}

\* The last answer is heard: with everybody in and nothing under way, an open
\* poll without a guest link was looked at since, or somebody gave up on record.
LastVoteHeard ==
    /\ \A r \in Runs : run[r].at = "idle"
    /\ \A i \in Invitees : save[i].at = "idle"
    /\ edit = AtRest
    /\ poll.status = "open" /\ ~poll.guest
    /\ On # {} /\ On = Responded
    => ~fresh \/ gaveUp

\* An overdue poll is booked, escalated, cancelled or extended in the end.
PollSettles ==
    (poll.status = "open" /\ day >= poll.deadline)
        ~> (poll.status # "open" \/ day < poll.deadline)
=============================================================================
