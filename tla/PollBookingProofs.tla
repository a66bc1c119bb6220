------------------------- MODULE PollBookingProofs -------------------------
(***************************************************************************)
(* Proofs about PollBooking: one meeting at a time, no slot booked twice,  *)
(* a booked poll keeps its event and its slot, no event is left behind     *)
(* that nobody answers for, and the last answer is heard, for any number   *)
(* of invitees, slots, engine runs, claims and edits.                      *)
(***************************************************************************)
EXTENDS PollBooking, FiniteSetTheorems, TLAPS

\* Where a run holds its claim.
Holding == {"create", "failed", "cas", "undo", "release", "confirm"}

\* A run has a claim exactly there, and the claim is live until it lets go.
RunShape ==
    \A r \in Runs :
        /\ run[r].claim # None <=> run[r].at \in Holding
        /\ run[r].at \in Holding => Live(run[r].claim)
        /\ run[r].at = "claim" => run[r].slot # None
        /\ run[r].at = "cas" => run[r].claim \in cal

\* One live claim per poll, and one run that holds it.
Exclusive ==
    /\ \A c, d \in LiveClaims : c = d
    /\ \A r, q \in Runs : run[r].claim # None /\ run[r].claim = run[q].claim => r = q
    /\ \A c \in LiveClaims : Clear(rows[c].slot, taken)

\* The event of a booked poll is the live claim; its run has only to confirm.
Settled ==
    poll.status = "booked" =>
        /\ poll.event \in cal /\ Live(poll.event)
        /\ \A r \in Runs : run[r].at \in Holding => run[r].at = "confirm"

\* Who answered is on the poll or was dropped from it.
RosterShape ==
    \A i \in Invitees :
        inv[i].on = "absent" => ~inv[i].responded /\ save[i].at \notin {"cells", "fire"}

\* An edit that will not try to book drops nobody who counts, and turns no
\* guest link off.
EditShape ==
    edit.at \in {"reopen", "roster"} =>
        /\ \A i \in edit.ask.drop : inv[i].on # "absent"
        /\ edit.rebook
             \/ /\ edit.ask.drop \cap On \subseteq edit.ask.add
                /\ edit.ask.guest = "off" => ~poll.guest

\* Who will look at the poll: a save on its way, an edit that tries to book,
\* a run that is yet to rank.
UnderWay ==
    \/ \E i \in Invitees : save[i].at \in {"cells", "fire"}
    \/ edit.at # "idle" /\ edit.rebook
    \/ \E r \in Runs : run[r].at = "rank" \/ (run[r].at = "begin" /\ run[r].kind = "allin")

\* Everybody is in, and something is new: somebody will look.
Heard ==
    fresh /\ ~gaveUp /\ Actionable(poll.status) /\ ~poll.guest /\ On = Responded
        => UnderWay

ClaimInv == PollTypeOK /\ RunShape /\ Exclusive /\ Settled /\ NoStrayMeeting
PollInv == ClaimInv /\ RosterShape /\ EditShape /\ Heard

-----------------------------------------------------------------------------
(* Types *)

\* What a run may become, one field at a time.
LEMMA RunMoves ==
    ASSUME run \in [Runs -> Run], NEW r \in Runs
    PROVE  /\ \A place \in Places : Goto(r, place) => run' \in [Runs -> Run]
           /\ End(r) => run' \in [Runs -> Run]
           /\ \A s \in Slots \cup {None} : Skip(r, s) => run' \in [Runs -> Run]
           /\ \A kind \in Kinds, slots \in SUBSET Slots :
                Begun(r, kind, slots) => run' \in [Runs -> Run]
<1>1. run[r] \in Run /\ Rest \in Run
  BY DEF Run, Rest, Places, Kinds
<1>2. \A place \in Places : [run[r] EXCEPT !.at = place] \in Run
  BY <1>1 DEF Run
<1>3. \A s \in Slots \cup {None} : [run[r] EXCEPT !.todo = @ \ {s}, !.at = "walk", !.slot = None, !.claim = None] \in Run
  BY <1>1 DEF Run, Places
<1>4. \A kind \in Kinds, slots \in SUBSET Slots :
        [Rest EXCEPT !.at = IF kind = "book" THEN "walk" ELSE "begin", !.kind = kind, !.todo = slots] \in Run
  BY <1>1 DEF Run, Places, Rest
<1>a. \A place \in Places : Goto(r, place) => run' \in [Runs -> Run]
  BY <1>1, <1>2 DEF Goto
<1>b. End(r) => run' \in [Runs -> Run]
  BY <1>1 DEF End
<1>c. ASSUME NEW s \in Slots \cup {None}, Skip(r, s) PROVE run' \in [Runs -> Run]
  <2> DEFINE new == [run[r] EXCEPT !.todo = @ \ {s}, !.at = "walk", !.slot = None, !.claim = None]
  <2>1. run' = [run EXCEPT ![r] = new]
    BY <1>c, <1>1 DEF Skip, Run
  <2>2. new \in Run
    BY <1>3
  <2> HIDE DEF new
  <2> QED
    BY <2>1, <2>2
<1>d. \A kind \in Kinds, slots \in SUBSET Slots :
        Begun(r, kind, slots) => run' \in [Runs -> Run]
  BY <1>1, <1>4 DEF Begun
<1> QED
  BY <1>a, <1>b, <1>c, <1>d

\* A bounded counter stays within its bound.
LEMMA UseCounts ==
    ASSUME used \in [DOMAIN Limit -> Nat], \A b \in DOMAIN Limit : used[b] <= Limit[b],
           NEW b \in DOMAIN Limit, Use(b)
    PROVE  used' \in [DOMAIN Limit -> Nat] /\ \A d \in DOMAIN Limit : used'[d] <= Limit[d]
<1>1. \A d \in DOMAIN Limit : Limit[d] \in Nat
  BY PollAssumption DEF Limit
<1> DEFINE D == DOMAIN Limit
<1>2. /\ used \in [D -> Nat] /\ b \in D /\ \A d \in D : used[d] <= Limit[d]
      /\ \A d \in D : Limit[d] \in Nat
      /\ used[b] < Limit[b] /\ used' = [used EXCEPT ![b] = used[b] + 1]
  BY <1>1 DEF Use
<1> HIDE DEF D
<1> QED
  <2> SUFFICES used' \in [D -> Nat] /\ \A d \in D : used'[d] <= Limit[d]
    BY DEF D
  <2> QED
    BY <1>2

\* The names of the counters.
LEMMA LimitNames == {"saves", "asks", "upsets"} = DOMAIN Limit
  BY DEF Limit

\* A step of a run of the engine keeps the types.
LEMMA RunTypes ==
    ASSUME PollTypeOK, RunShape, NEW r \in Runs, RunStep(r)
    PROVE  PollTypeOK'
<1> USE DEF pvars, table, past
<1>0. /\ run \in [Runs -> Run] /\ run[r] \in Run /\ Rest \in Run
      /\ "upsets" \in DOMAIN Limit
  BY LimitNames DEF PollTypeOK, Run, Rest, Places, Kinds
<1>1. CASE Begin(r)
  <2>1. On \subseteq Invitees /\ Responded \subseteq Invitees
    BY DEF On, Responded
  <2>2. run' \in [Runs -> Run]
    BY <1>0, <1>1, <2>1 DEF Begin, End, Run, Places
  <2> QED
    BY <1>1, <2>2 DEF Begin, PollTypeOK
<1>2. CASE Rank(r)
  <2>1. run' \in [Runs -> Run]
    BY <1>0, <1>2, RunMoves DEF Rank, Run, Places, Free
  <2>2. used' \in [DOMAIN Limit -> Nat] /\ \A d \in DOMAIN Limit : used'[d] <= Limit[d]
    BY <1>0, <1>2, UseCounts DEF Rank, PollTypeOK
  <2> QED
    BY <1>2, <2>1, <2>2 DEF Rank, PollTypeOK
<1>3. CASE WalkEnds(r)
  BY <1>0, <1>3, RunMoves DEF WalkEnds, PollTypeOK, Places
<1>4. CASE \E s \in Slots : Try(r, s)
  <2> PICK s \in Slots : Try(r, s)
    BY <1>4
  <2>1. run' \in [Runs -> Run]
    BY <1>0, RunMoves DEF Try, Run, Places
  <2>2. used' \in [DOMAIN Limit -> Nat] /\ \A d \in DOMAIN Limit : used'[d] <= Limit[d]
    BY <1>0, UseCounts DEF Try, PollTypeOK
  <2> QED
    BY <2>1, <2>2 DEF Try, PollTypeOK
<1>6. CASE Explain(r)
  <2>1. run' \in [Runs -> Run] /\ gaveUp' \in BOOLEAN
    BY <1>0, <1>6, RunMoves DEF Explain, Run, Yields, PollTypeOK
  <2> QED
    BY <1>6, <2>1 DEF Explain, PollTypeOK
<1>5. CASE Claim(r)
  <2>1. ASSUME Unused # {} PROVE FreshId \in Claims /\ rows[FreshId] = None
    BY <2>1 DEF FreshId, Unused
  <2>2. run[r].slot \in Slots
    BY <1>0, <1>5 DEF Claim, ClaimWhen, RunShape, Run
  <2>3. run' \in [Runs -> Run]
    BY <1>0, <1>5, <2>1, RunMoves DEF Claim, ClaimWhen, Run, Places
  <2>4. rows' \in [Claims -> Booking \cup {None}]
    BY <1>5, <2>1, <2>2 DEF Claim, ClaimWhen, PollTypeOK, Booking
  <2> QED
    BY <1>5, <2>3, <2>4 DEF Claim, ClaimWhen, PollTypeOK
<1>7. CASE Create(r)
  <2>1. run' \in [Runs -> Run]
    BY <1>0, <1>7, RunMoves DEF Create, Places
  <2>2. used' \in [DOMAIN Limit -> Nat] /\ \A d \in DOMAIN Limit : used'[d] <= Limit[d]
    BY <1>0, <1>7, UseCounts DEF Create, PollTypeOK
  <2>3. run[r].claim \in Claims
    BY <1>0, <1>7 DEF Create, RunShape, Holding, Run
  <2> QED
    BY <1>7, <2>1, <2>2, <2>3 DEF Create, PollTypeOK
<1>a. ASSUME run[r].at \in Holding
      PROVE  /\ run[r].claim \in Claims
             /\ \A status \in {"confirmed", "failed"} :
                  rows' = [rows EXCEPT ![run[r].claim].status = status]
                    => rows' \in [Claims -> Booking \cup {None}]
  <2>1. run[r].claim \in Claims /\ rows[run[r].claim] \in Booking
    BY <1>0, <1>a DEF RunShape, Run, Live, PollTypeOK
  <2>2. \A status \in {"confirmed", "failed"} :
          [rows[run[r].claim] EXCEPT !.status = status] \in Booking
    BY <2>1 DEF Booking
  <2> QED
    BY <2>1, <2>2 DEF PollTypeOK
<1>8. CASE Failed(r)
  <2>1. run' \in [Runs -> Run]
    BY <1>0, <1>8, RunMoves DEF Failed, Run
  <2>2. rows' \in [Claims -> Booking \cup {None}]
    BY <1>8, <1>a DEF Failed, FailBooking, Holding
  <2> QED
    BY <1>8, <2>1, <2>2 DEF Failed, PollTypeOK
<1>9. CASE Cas(r)
  <2>1. run' \in [Runs -> Run]
    BY <1>0, <1>9, RunMoves DEF Cas, Places
  <2>a. run[r].claim \in Claims /\ run[r].claim # None
    BY <1>9, <1>a, PollAssumption DEF Cas, Holding
  <2>2. poll' \in Poll /\ (poll'.status = "booked" <=> poll'.event # None)
    BY <1>9, <2>a DEF Cas, PollTypeOK, Poll, Statuses
  <2> QED
    BY <1>9, <2>1, <2>2 DEF Cas, PollTypeOK
<1>10. CASE Undo(r)
  <2>1. run' \in [Runs -> Run]
    BY <1>0, <1>10, RunMoves DEF Undo, Places
  <2>2. used' \in [DOMAIN Limit -> Nat] /\ \A d \in DOMAIN Limit : used'[d] <= Limit[d]
    BY <1>0, <1>10, UseCounts DEF Undo, PollTypeOK
  <2> QED
    BY <1>10, <1>a, <2>1, <2>2 DEF Undo, PollTypeOK, Holding
<1>11. CASE Release(r)
  <2>1. run' \in [Runs -> Run]
    BY <1>0, <1>11, RunMoves DEF Release
  <2>2. rows' \in [Claims -> Booking \cup {None}]
    BY <1>11, <1>a DEF Release, FailBooking, Holding
  <2> QED
    BY <1>11, <2>1, <2>2 DEF Release, PollTypeOK
<1>12. CASE Confirm(r)
  <2>1. run' \in [Runs -> Run]
    BY <1>0, <1>12, RunMoves DEF Confirm
  <2>2. rows' \in [Claims -> Booking \cup {None}]
    BY <1>12, <1>a DEF Confirm, Holding
  <2> QED
    BY <1>12, <2>1, <2>2 DEF Confirm, PollTypeOK
<1>13. CASE EscalateCheck(r)
  <2>1. run' \in [Runs -> Run]
    BY <1>0, <1>13, RunMoves DEF EscalateCheck, Run, Places, PollTypeOK, Poll
  <2> QED
    BY <1>13, <2>1 DEF EscalateCheck, PollTypeOK
<1>14. CASE EscalateLive(r)
  <2>1. run' \in [Runs -> Run] /\ gaveUp' \in BOOLEAN
    BY <1>0, <1>14, RunMoves DEF EscalateLive, Places, Yields, PollTypeOK
  <2> QED
    BY <1>14, <2>1 DEF EscalateLive, PollTypeOK
<1>15. CASE EscalateMail(r)
  <2>1. run' \in [Runs -> Run]
    BY <1>0, <1>15, RunMoves DEF EscalateMail, Places
  <2>2. used' \in [DOMAIN Limit -> Nat] /\ \A d \in DOMAIN Limit : used'[d] <= Limit[d]
    BY <1>0, <1>15, UseCounts DEF EscalateMail, PollTypeOK
  <2> QED
    BY <1>15, <2>1, <2>2 DEF EscalateMail, PollTypeOK
<1>16. CASE EscalatePark(r)
  <2>1. run' \in [Runs -> Run]
    BY <1>0, <1>16, RunMoves DEF EscalatePark
  <2>2. poll' \in Poll /\ (poll'.status = "booked" <=> poll'.event # None)
    BY <1>16 DEF EscalatePark, PollTypeOK, Poll, Statuses, Actionable
  <2> QED
    BY <1>16, <2>1, <2>2 DEF EscalatePark, PollTypeOK
<1> QED
  BY <1>1, <1>2, <1>3, <1>4, <1>5, <1>6, <1>7, <1>8, <1>9, <1>10, <1>11, <1>12,
     <1>13, <1>14, <1>15, <1>16
  DEF RunStep

\* A save or a join.
LEMMA SaveTypes ==
    ASSUME PollTypeOK, NEW i \in Invitees,
           SaveStep(i) \/ SaveDies(i) \/ JoinOpen(i) \/ (\E p \in Paints : SaveOpen(i, p))
    PROVE  PollTypeOK'
<1> USE DEF pvars, table, past
<1>0. /\ run \in [Runs -> Run] /\ save \in [Invitees -> Save] /\ inv \in [Invitees -> Invitee]
      /\ {"upsets", "saves"} \subseteq DOMAIN Limit
  BY LimitNames DEF PollTypeOK
<1>1. \A r \in Runs : Begun(r, "allin", {}) => run' \in [Runs -> Run]
  BY <1>0, RunMoves DEF Kinds
<1>2. \A place \in {"idle", "cells", "fire", "join"} : At(i, place) => save' \in [Invitees -> Save]
  BY <1>0 DEF At, Save
<1>3. CASE SaveCells(i)
  <2>1. save' \in [Invitees -> Save]
    BY <1>0, <1>3 DEF SaveCells, Save
  <2>2. inv' \in [Invitees -> Invitee]
    BY <1>0, <1>3 DEF SaveCells, Invitee, Save
  <2> QED
    BY <1>3, <2>1, <2>2 DEF SaveCells, PollTypeOK
<1>4. CASE SaveFire(i)
  <2>1. run' \in [Runs -> Run] /\ save' \in [Invitees -> Save]
    BY <1>0, <1>1, <1>2, <1>4 DEF SaveFire
  <2> QED
    BY <1>4, <2>1 DEF SaveFire, PollTypeOK
<1>5. CASE JoinStore(i)
  <2>1. save' \in [Invitees -> Save]
    BY <1>2, <1>5 DEF JoinStore
  <2>2. inv' \in [Invitees -> Invitee]
    BY <1>0, <1>5 DEF JoinStore, Invitee
  <2> QED
    BY <1>5, <2>1, <2>2 DEF JoinStore, PollTypeOK
<1>6. CASE SaveDies(i)
  <2>1. save' \in [Invitees -> Save]
    BY <1>0, <1>6 DEF SaveDies, Save, Quiet
  <2>2. used' \in [DOMAIN Limit -> Nat] /\ \A d \in DOMAIN Limit : used'[d] <= Limit[d]
    BY <1>0, <1>6, UseCounts DEF SaveDies, PollTypeOK
  <2> QED
    BY <1>6, <2>1, <2>2 DEF SaveDies, PollTypeOK
<1>7. CASE JoinOpen(i)
  BY <1>2, <1>7 DEF JoinOpen, PollTypeOK
<1>8. ASSUME NEW p \in Paints, SaveOpen(i, p) PROVE PollTypeOK'
  <2>1. save' \in [Invitees -> Save]
    BY <1>0, <1>8, PollAssumption DEF SaveOpen, Save
  <2>2. used' \in [DOMAIN Limit -> Nat] /\ \A d \in DOMAIN Limit : used'[d] <= Limit[d]
    BY <1>0, <1>8, UseCounts DEF SaveOpen, PollTypeOK
  <2> QED
    BY <1>8, <2>1, <2>2 DEF SaveOpen, PollTypeOK
<1> QED
  BY <1>3, <1>4, <1>5, <1>6, <1>7, <1>8 DEF SaveStep

\* A request of the organiser, the sweep, and the rest of the world.
LEMMA OtherTypes ==
    ASSUME PollTypeOK,
           \/ \E r \in Runs : RunDies(r) \/ AskBest(r) \/ SweepBook(r)
           \/ \E r \in Runs, s \in Slots : AskBook(r, s)
           \/ CancelRead \/ CancelCas \/ EditStep \/ EditDies \/ SweepList \/ Tick
           \/ \E e \in Edits : EditRead(e)
           \/ \E s \in Slots : PageClaims(s) \/ CalendarChanges(s)
    PROVE  PollTypeOK'
<1> USE DEF pvars, table, past, work
<1>0. /\ run \in [Runs -> Run] /\ edit \in EditState /\ poll \in Poll
      /\ {"upsets", "asks"} \subseteq DOMAIN Limit
  BY LimitNames DEF PollTypeOK
<1>1. \A r \in Runs, kind \in Kinds, slots \in SUBSET Slots :
        Begun(r, kind, slots) => run' \in [Runs -> Run]
  BY <1>0, RunMoves
<1>2. \A b \in {"upsets", "asks"} :
        Use(b) => used' \in [DOMAIN Limit -> Nat] /\ \A d \in DOMAIN Limit : used'[d] <= Limit[d]
  BY <1>0, UseCounts DEF PollTypeOK
<1>3. \A new \in {"open", "cancelled"} :
        Actionable(poll.status) /\ SetPoll(new)
          => poll' \in Poll /\ (poll'.status = "booked" <=> poll'.event # None)
  BY <1>0 DEF SetPoll, Poll, Statuses, PollTypeOK, Actionable
<1>4. \A place \in {"reopen", "roster", "deadline", "stamps", "book"} :
        EditTo(place) => edit' \in EditState
  BY <1>0 DEF EditTo, EditState
<1>5. AtRest \in EditState
  BY DEF AtRest, EditState
<1>6. ASSUME NEW r \in Runs, RunDies(r) PROVE PollTypeOK'
  <2>1. run' \in [Runs -> Run]
    BY <1>0, <1>6, RunMoves DEF RunDies
  <2> QED
    BY <1>2, <1>6, <2>1 DEF RunDies, PollTypeOK
<1>7. ASSUME NEW r \in Runs, AskBest(r) PROVE PollTypeOK'
  BY <1>1, <1>2, <1>7 DEF AskBest, Kinds, PollTypeOK
<1>8. ASSUME NEW r \in Runs, SweepBook(r) PROVE PollTypeOK'
  <2>1. sweep' \in BOOLEAN
    BY <1>8, Zenon DEF SweepBook
  <2>2. run' \in [Runs -> Run] /\ UNCHANGED <<poll, inv, table, save, edit, cancel, day, used, past>>
    BY <1>1, <1>8 DEF SweepBook, Kinds
  <2> QED
    BY <2>1, <2>2 DEF PollTypeOK
<1>9. ASSUME NEW r \in Runs, NEW s \in Slots, AskBook(r, s) PROVE PollTypeOK'
  BY <1>1, <1>2, <1>9 DEF AskBook, Kinds, PollTypeOK
<1>10. CASE CancelRead
  BY <1>2, <1>10 DEF CancelRead, PollTypeOK
<1>11. CASE CancelCas
  BY <1>3, <1>11 DEF CancelCas, PollTypeOK
<1>12. CASE EditReopen
  BY <1>3, <1>4, <1>5, <1>12 DEF EditReopen, PollTypeOK
<1>13. CASE EditRoster
  <2>1. inv' \in [Invitees -> Invitee]
    BY <1>13 DEF EditRoster, PollTypeOK, Invitee
  <2>2. poll' \in Poll /\ (poll'.status = "booked" <=> poll'.event # None)
    BY <1>0, <1>13 DEF EditRoster, Poll, PollTypeOK
  <2>3. edit' \in EditState
    BY <1>4, <1>13 DEF EditRoster
  <2>4. fresh' \in BOOLEAN
    BY <1>0, <1>13 DEF EditRoster, EditState, PollTypeOK
  <2> QED
    BY <1>13, <2>1, <2>2, <2>3, <2>4 DEF EditRoster, PollTypeOK
<1>14. CASE EditDeadline
  <2>1. poll' \in Poll /\ (poll'.status = "booked" <=> poll'.event # None)
    BY <1>0, <1>14, PollAssumption DEF EditDeadline, Poll, PollTypeOK
  <2> QED
    BY <1>4, <1>14, <2>1 DEF EditDeadline, PollTypeOK
<1>15. CASE EditStamps
  <2>1. poll' \in Poll /\ (poll'.status = "booked" <=> poll'.event # None)
    BY <1>0, <1>15 DEF EditStamps, Poll, PollTypeOK
  <2> QED
    BY <1>4, <1>15, <2>1 DEF EditStamps, PollTypeOK
<1>16. CASE EditBook
  BY <1>1, <1>5, <1>16 DEF EditBook, Kinds, PollTypeOK
<1>17. CASE EditDies
  BY <1>2, <1>5, <1>17 DEF EditDies, PollTypeOK
<1>18. CASE SweepList \/ Tick
  <2>1. sweep' \in BOOLEAN
    BY <1>18, Zenon DEF SweepList, Tick, PollTypeOK
  <2>2. day' \in 0..MaxDay
    BY <1>18, PollAssumption DEF SweepList, Tick, PollTypeOK
  <2>3. UNCHANGED <<poll, inv, table, run, save, edit, cancel, used, past>>
    BY <1>18 DEF SweepList, Tick
  <2> QED
    BY <2>1, <2>2, <2>3 DEF PollTypeOK
<1>19. ASSUME NEW e \in Edits, EditRead(e) PROVE PollTypeOK'
  <2>1. edit' \in EditState
    BY <1>19, PollAssumption DEF EditRead, EditState
  <2> QED
    BY <1>2, <1>19, <2>1 DEF EditRead, PollTypeOK
<1>20. ASSUME NEW s \in Slots, PageClaims(s) \/ CalendarChanges(s) PROVE PollTypeOK'
  BY <1>2, <1>20 DEF PageClaims, CalendarChanges, PollTypeOK
<1> QED
  BY <1>6, <1>7, <1>8, <1>9, <1>10, <1>11, <1>12, <1>13, <1>14, <1>15, <1>16, <1>17,
     <1>18, <1>19, <1>20
  DEF EditStep

-----------------------------------------------------------------------------
(* Claims, events and the poll *)

\* What leaves the claims alone: no row, no event and no booked poll changes,
\* and a run that moves neither held a claim nor holds one.
LEMMA ClaimsStay ==
    ASSUME ClaimInv, PollTypeOK',
           poll'.status = "booked" <=> poll.status = "booked", poll'.event = poll.event,
           UNCHANGED <<rows, cal>>, lost \subseteq lost',
           \A c \in LiveClaims : Clear(rows[c].slot, taken'),
           \A q \in Runs :
              \/ run'[q] = run[q]
              \/ /\ run[q].at \notin Holding /\ run'[q].at \notin Holding
                 /\ run'[q].claim = None
                 /\ run'[q].at = "claim" => run'[q].slot # None
    PROVE  ClaimInv'
<1>1. \A c : Live(c)' <=> Live(c)
  BY DEF Live
<1>2. LiveClaims' = LiveClaims
  BY <1>1 DEF LiveClaims
<1>3. RunShape'
  <2> SUFFICES ASSUME NEW r \in Runs
               PROVE  /\ run'[r].claim # None <=> run'[r].at \in Holding
                      /\ run'[r].at \in Holding => Live(run[r].claim)'
                      /\ run'[r].at = "claim" => run'[r].slot # None
                      /\ run'[r].at = "cas" => run'[r].claim \in cal'
    BY DEF RunShape
  <2>1. CASE run'[r] = run[r]
    BY <2>1 DEF RunShape, Live, ClaimInv
  <2>2. CASE run'[r].at \notin Holding /\ run'[r].claim = None
             /\ (run'[r].at = "claim" => run'[r].slot # None)
    BY <2>2 DEF Holding
  <2> QED
    BY <2>1, <2>2
<1>4. Exclusive'
  <2>1. \A c, d \in LiveClaims' : c = d
    BY <1>2 DEF Exclusive, ClaimInv
  <2>2. \A c \in LiveClaims' : Clear(rows'[c].slot, taken')
    BY <1>2
  <2>3. ASSUME NEW r \in Runs, NEW q \in Runs, run'[r].claim # None, run'[r].claim = run'[q].claim
        PROVE  r = q
    BY <2>3 DEF Exclusive, ClaimInv
  <2> QED
    BY <2>1, <2>2, <2>3 DEF Exclusive
<1>5. Settled'
  BY <1>1 DEF Settled, ClaimInv
<1>6. NoStrayMeeting'
  <2> SUFFICES ASSUME NEW c \in cal \ lost
               PROVE  \/ poll'.status = "booked" /\ poll'.event = c
                      \/ \E r \in Runs : run'[r].claim = c /\ run'[r].at \in {"cas", "undo"}
    BY DEF NoStrayMeeting
  <2>1. CASE poll.status = "booked" /\ poll.event = c
    BY <2>1
  <2>2. ASSUME NEW r \in Runs, run[r].claim = c, run[r].at \in {"cas", "undo"}
        PROVE  run'[r].claim = c /\ run'[r].at \in {"cas", "undo"}
    BY <2>2 DEF Holding
  <2> QED
    BY <2>1, <2>2 DEF NoStrayMeeting, ClaimInv
<1> QED
  BY <1>3, <1>4, <1>5, <1>6 DEF ClaimInv

\* What a run does before it holds a claim, or after.
LEMMA FreeRunSteps ==
    ASSUME ClaimInv, PollTypeOK', NEW r \in Runs,
           \/ Begin(r) \/ Rank(r) \/ WalkEnds(r) \/ (\E s \in Slots : Try(r, s))
           \/ Explain(r) \/ EscalateCheck(r) \/ EscalateLive(r) \/ EscalateMail(r)
           \/ EscalatePark(r)
    PROVE  ClaimInv'
<1> USE DEF pvars, table, past
<1>1. run \in [Runs -> Run] /\ run[r] \in Run /\ \A s \in Slots : s # None
  BY PollAssumption DEF ClaimInv, PollTypeOK
<1>2. run[r].at \notin Holding
  BY DEF Begin, Rank, WalkEnds, Try, Explain, EscalateCheck, EscalateLive, EscalateMail,
         EscalatePark, Holding
<1>3. run[r].claim = None
  BY <1>2 DEF RunShape, ClaimInv
<1> DEFINE Moved == /\ run'[r].at \notin Holding /\ run'[r].claim = None
                    /\ run'[r].at = "claim" => run'[r].slot # None
                    /\ \A q \in Runs : q # r => run'[q] = run[q]
<1>a. \A place \in Places \ (Holding \cup {"claim"}) : Goto(r, place) => Moved
  BY <1>1, <1>3 DEF Goto, Run, Holding
<1>b. End(r) => Moved
  BY <1>1 DEF End, Rest, Holding
<1>c. ASSUME NEW s, Skip(r, s) PROVE Moved
  BY <1>c, <1>1 DEF Skip, Run, Holding
<1>d. ASSUME Begin(r) PROVE Moved
  BY <1>1, <1>3, <1>b, <1>d DEF Begin, Run, Holding
<1>e. ASSUME Rank(r) PROVE Moved
  BY <1>1, <1>3, <1>b, <1>e DEF Rank, Run, Holding
<1>f. ASSUME NEW s \in Slots, Try(r, s) PROVE Moved
  BY <1>1, <1>3, <1>b, <1>c, <1>f DEF Try, Run, Holding
<1>g. ASSUME EscalateCheck(r) PROVE Moved
  BY <1>1, <1>3, <1>b, <1>g DEF EscalateCheck, Run, Holding
<1>h. ASSUME WalkEnds(r) \/ Explain(r) \/ EscalateLive(r) \/ EscalateMail(r) \/ EscalatePark(r)
      PROVE  Moved
  BY <1>a, <1>b, <1>c, <1>h
  DEF WalkEnds, Explain, EscalateLive, EscalateMail, EscalatePark, Places, Holding
<1>4. Moved
  BY <1>d, <1>e, <1>f, <1>g, <1>h
<1>5. /\ poll'.status = "booked" <=> poll.status = "booked"
      /\ poll'.event = poll.event
  BY DEF Begin, Rank, WalkEnds, Try, Explain, EscalateCheck, EscalateLive, EscalateMail,
         EscalatePark, Actionable, ClaimInv, PollTypeOK, Poll
<1>6. UNCHANGED <<rows, cal, taken, lost>>
  BY DEF Begin, Rank, WalkEnds, Try, Explain, EscalateCheck, EscalateLive, EscalateMail,
         EscalatePark
<1>7. \A c \in LiveClaims : Clear(rows[c].slot, taken')
  BY <1>6 DEF ClaimInv, Exclusive
<1> QED
  BY <1>2, <1>4, <1>5, <1>6, <1>7, ClaimsStay

\* A request that starts a run, a save, an edit, the page, the calendar.
LEMMA OutsideSteps ==
    ASSUME ClaimInv, PollTypeOK',
           \/ \E r \in Runs : AskBest(r) \/ SweepBook(r)
           \/ \E r \in Runs, s \in Slots : AskBook(r, s)
           \/ \E i \in Invitees : \/ SaveStep(i) \/ SaveDies(i) \/ JoinOpen(i)
                                  \/ \E p \in Paints : SaveOpen(i, p)
           \/ CancelRead \/ CancelCas \/ EditStep \/ EditDies \/ SweepList \/ Tick
           \/ \E e \in Edits : EditRead(e)
           \/ \E s \in Slots : PageClaims(s) \/ CalendarChanges(s)
    PROVE  ClaimInv'
<1> USE DEF pvars, table, past, work
<1>1. run \in [Runs -> Run]
  BY DEF ClaimInv, PollTypeOK
<1>2. ASSUME NEW r \in Runs, NEW kind, NEW slots, Begun(r, kind, slots)
      PROVE  \A q \in Runs :
                \/ run'[q] = run[q]
                \/ /\ run[q].at \notin Holding /\ run'[q].at \notin Holding
                   /\ run'[q].claim = None
                   /\ run'[q].at = "claim" => run'[q].slot # None
  BY <1>1, <1>2 DEF Begun, Rest, Holding
<1>3. \A q \in Runs :
         \/ run'[q] = run[q]
         \/ /\ run[q].at \notin Holding /\ run'[q].at \notin Holding
            /\ run'[q].claim = None
            /\ run'[q].at = "claim" => run'[q].slot # None
  BY <1>2
  DEF AskBest, SweepBook, AskBook, SaveStep, SaveCells, SaveFire, JoinStore, SaveDies,
      JoinOpen, SaveOpen, CancelRead, CancelCas, EditStep, EditReopen, EditRoster,
      EditDeadline, EditStamps, EditBook, EditDies, SweepList, Tick, EditRead,
      PageClaims, CalendarChanges
<1>4. /\ poll'.status = "booked" <=> poll.status = "booked"
      /\ poll'.event = poll.event
  BY DEF AskBest, SweepBook, AskBook, SaveStep, SaveCells, SaveFire, JoinStore, SaveDies,
      JoinOpen, SaveOpen, CancelRead, CancelCas, EditStep, EditReopen, EditRoster,
      EditDeadline, EditStamps, EditBook, EditDies, SweepList, Tick, EditRead,
      PageClaims, CalendarChanges, SetPoll, Actionable, ClaimInv, PollTypeOK, Poll
<1>5. UNCHANGED <<rows, cal, lost>>
  BY DEF AskBest, SweepBook, AskBook, SaveStep, SaveCells, SaveFire, JoinStore, SaveDies,
      JoinOpen, SaveOpen, CancelRead, CancelCas, EditStep, EditReopen, EditRoster,
      EditDeadline, EditStamps, EditBook, EditDies, SweepList, Tick, EditRead,
      PageClaims, CalendarChanges
<1>6. taken' = taken \/ \E s \in Slots : PageClaims(s)
  BY DEF AskBest, SweepBook, AskBook, SaveStep, SaveCells, SaveFire, JoinStore, SaveDies,
      JoinOpen, SaveOpen, CancelRead, CancelCas, EditStep, EditReopen, EditRoster,
      EditDeadline, EditStamps, EditBook, EditDies, SweepList, Tick, EditRead,
      CalendarChanges
<1>7. ASSUME NEW c \in LiveClaims PROVE Clear(rows[c].slot, taken')
  <2>1. rows[c].slot \in Slots /\ Clear(rows[c].slot, taken)
    BY DEF ClaimInv, PollTypeOK, Exclusive, Booking, Live, LiveClaims
  <2>2. ASSUME NEW s \in Slots, PageClaims(s) PROVE Clear(rows[c].slot, taken')
    <3>1. taken' = taken \cup {s} /\ <<s, rows[c].slot>> \notin Overlaps
      BY <2>2 DEF PageClaims, NoOverlap, Clear
    <3>2. <<rows[c].slot, s>> \notin Overlaps
      BY <2>1, <3>1, PollAssumption
    <3> QED
      BY <2>1, <3>1, <3>2 DEF Clear
  <2> QED
    BY <1>6, <2>1, <2>2
<1> QED
  BY <1>3, <1>4, <1>5, <1>7, ClaimsStay

\* A run that holds its claim: the claim is an id, its row is live, and no
\* other run has it.
LEMMA Holds ==
    ASSUME ClaimInv, NEW r \in Runs, run[r].at \in Holding
    PROVE  /\ run[r].claim \in Claims /\ run[r].claim # None
           /\ rows[run[r].claim] \in Booking /\ LiveClaims = {run[r].claim}
           /\ \A q \in Runs : q # r => run[q].at \notin Holding /\ run[q].claim = None
<1>1. run[r] \in Run /\ run[r].claim # None /\ Live(run[r].claim)
  BY DEF ClaimInv, PollTypeOK, RunShape
<1>2. run[r].claim \in Claims /\ rows[run[r].claim] \in Booking
  BY <1>1 DEF Run, Live, ClaimInv, PollTypeOK
<1>3. LiveClaims = {run[r].claim}
  BY <1>1, <1>2 DEF LiveClaims, ClaimInv, Exclusive
<1>4. ASSUME NEW q \in Runs, q # r, run[q].at \in Holding PROVE FALSE
  <2>1. run[q] \in Run /\ run[q].claim # None /\ Live(run[q].claim)
    BY <1>4 DEF ClaimInv, PollTypeOK, RunShape
  <2>2. run[q].claim \in LiveClaims
    BY <2>1 DEF Run, LiveClaims
  <2> QED
    BY <1>3, <1>4, <2>1, <2>2 DEF ClaimInv, Exclusive
<1>5. ASSUME NEW q \in Runs, q # r PROVE run[q].at \notin Holding /\ run[q].claim = None
  BY <1>4, <1>5 DEF ClaimInv, RunShape
<1> QED
  BY <1>1, <1>2, <1>3, <1>5

\* The claim is the poll's first live one, on a slot that nothing holds.
LEMMA ClaimStep ==
    ASSUME ClaimInv, PollTypeOK', NEW r \in Runs, Claim(r)
    PROVE  ClaimInv'
<1> USE DEF pvars, table, past
<1>1. /\ run \in [Runs -> Run] /\ run[r] \in Run /\ run[r].at = "claim" /\ run[r].claim = None
      /\ rows \in [Claims -> Booking \cup {None}]
  BY DEF Claim, ClaimWhen, ClaimInv, PollTypeOK, RunShape, Holding
<1>2. UNCHANGED <<poll, cal, taken, lost>>
  BY DEF Claim, ClaimWhen
<1>3. CASE Goto(r, "explain") /\ UNCHANGED rows
  <2>1. \A q \in Runs :
           \/ run'[q] = run[q]
           \/ /\ run[q].at \notin Holding /\ run'[q].at \notin Holding
              /\ run'[q].claim = None
              /\ run'[q].at = "claim" => run'[q].slot # None
    BY <1>1, <1>3 DEF Goto, Run, Holding
  <2>2. \A c \in LiveClaims : Clear(rows[c].slot, taken')
    BY <1>2 DEF ClaimInv, Exclusive
  <2> QED
    BY <1>2, <1>3, <2>1, <2>2, ClaimsStay
<1>4. CASE /\ NoOverlap(run[r].slot) /\ LiveClaims = {} /\ Unused # {}
           /\ rows' = [rows EXCEPT ![FreshId] = [slot |-> run[r].slot, status |-> "reserving"]]
           /\ run' = [run EXCEPT ![r].at = "create", ![r].claim = FreshId]
  <2> DEFINE new == [slot |-> run[r].slot, status |-> "reserving"]
  <2>1. PICK id \in Claims : id = FreshId
    BY <1>4 DEF FreshId, Unused
  <2>a. id # None
    BY PollAssumption
  <2>2. run[r].slot \in Slots /\ Clear(run[r].slot, taken)
    BY <1>1, <1>4 DEF NoOverlap, Clear, Run, ClaimInv, RunShape
  <2>3. new # None /\ new.slot = run[r].slot /\ new.status = "reserving"
    BY <2>2, NoneAssumption DEF Booking
  <2>4. rows' = [rows EXCEPT ![id] = new]
    BY <1>4, <2>1
  <2>5. /\ run'[r].at = "create" /\ run'[r].claim = id
        /\ \A q \in Runs : q # r => run'[q] = run[q]
    BY <1>1, <1>4, <2>1 DEF Run
  <2> HIDE DEF new
  <2>6. \A c \in Claims : rows'[c] = IF c = id THEN new ELSE rows[c]
    BY <1>1, <2>4
  <2>b. \A c \in Claims : ~(rows[c] # None /\ rows[c].status \in {"reserving", "confirmed"})
    BY <1>4 DEF LiveClaims, Live
  <2>7. LiveClaims' = {id} /\ Live(id)'
    BY <2>3, <2>6, <2>b DEF LiveClaims, Live
  <2>8. \A q \in Runs : run[q].at \notin Holding /\ run[q].claim = None
    <3> SUFFICES ASSUME NEW q \in Runs, run[q].at \in Holding PROVE FALSE
      BY DEF ClaimInv, RunShape
    <3> QED
      BY <1>4, Holds
  <2>9. RunShape'
    <3> SUFFICES ASSUME NEW q \in Runs
                 PROVE  /\ run'[q].claim # None <=> run'[q].at \in Holding
                        /\ run'[q].at \in Holding => Live(run[q].claim)'
                        /\ run'[q].at = "claim" => run'[q].slot # None
                        /\ run'[q].at = "cas" => run'[q].claim \in cal'
      BY DEF RunShape
    <3>1. CASE q = r
      BY <3>1, <2>a, <2>5, <2>7 DEF Holding, Live
    <3>2. CASE q # r
      BY <3>2, <2>5, <2>8 DEF Holding, ClaimInv, RunShape
    <3> QED
      BY <3>1, <3>2
  <2>10. Exclusive'
    BY <1>2, <2>2, <2>3, <2>5, <2>6, <2>7, <2>8, <2>a DEF Exclusive
  <2>11. Settled' /\ NoStrayMeeting'
    <3>1. poll.status # "booked"
      BY <1>4 DEF ClaimInv, Settled, LiveClaims, PollTypeOK
    <3>2. cal \ lost = {}
      BY <2>8, <3>1 DEF ClaimInv, NoStrayMeeting, Holding
    <3> QED
      BY <1>2, <3>1, <3>2 DEF Settled, NoStrayMeeting
  <2> QED
    BY <2>9, <2>10, <2>11 DEF ClaimInv
<1> QED
  BY <1>3, <1>4 DEF Claim, ClaimWhen

\* A step of the run that holds the claim keeps the claim for it, or lets go.
LEMMA HolderMoves ==
    ASSUME ClaimInv, PollTypeOK', NEW r \in Runs, run[r].at \in Holding,
           NEW c \in Claims, c = run[r].claim,
           \A q \in Runs : q # r => run'[q] = run[q],
           UNCHANGED taken, \A d \in Claims : d # c => rows'[d] = rows[d],
           rows'[c] \in Booking, rows'[c].slot = rows[c].slot,
           \/ /\ run'[r].at \in Holding /\ run'[r].claim = c
              /\ rows'[c].status # "failed"
              /\ run'[r].at = "cas" => c \in cal'
           \/ run'[r].at \notin Holding \cup {"claim"} /\ run'[r].claim = None,
           Settled', NoStrayMeeting'
    PROVE  ClaimInv'
<1>1. /\ c # None /\ rows[c] \in Booking /\ LiveClaims = {c} /\ rows'[c] # None
      /\ \A q \in Runs : q # r => run[q].at \notin Holding /\ run[q].claim = None
  BY Holds, NoneAssumption
<1>2. \A d \in Claims : d # c => ~Live(d)
  BY <1>1 DEF LiveClaims
<1>3. LiveClaims' \subseteq {c}
  BY <1>2 DEF LiveClaims, Live
<1>4. rows'[c].status # "failed" => Live(c)'
  BY <1>1 DEF Live, Booking
<1>5. RunShape'
  <2> SUFFICES ASSUME NEW q \in Runs
               PROVE  /\ run'[q].claim # None <=> run'[q].at \in Holding
                      /\ run'[q].at \in Holding => Live(run[q].claim)'
                      /\ run'[q].at = "claim" => run'[q].slot # None
                      /\ run'[q].at = "cas" => run'[q].claim \in cal'
    BY DEF RunShape
  <2>1. CASE q = r
    BY <2>1, <1>1, <1>4 DEF Holding, Live
  <2>2. CASE q # r
    BY <2>2, <1>1 DEF Holding, ClaimInv, RunShape
  <2> QED
    BY <2>1, <2>2
<1>6. Exclusive'
  BY <1>1, <1>3 DEF Exclusive, ClaimInv
<1> QED
  BY <1>5, <1>6 DEF ClaimInv

\* The event is created, or the call fails and may have created it.
LEMMA CreateStep ==
    ASSUME ClaimInv, PollTypeOK', NEW r \in Runs, Create(r) PROVE ClaimInv'
<1> USE DEF pvars, table, past
<1>1. run \in [Runs -> Run] /\ run[r] \in Run /\ run[r].at = "create" /\ run[r].at \in Holding
  BY DEF Create, Holding, ClaimInv, PollTypeOK
<1>2. PICK c \in Claims : c = run[r].claim
  BY <1>1, Holds
<1>3. /\ rows[c] \in Booking /\ LiveClaims = {c}
      /\ \A q \in Runs : q # r => run[q].at \notin Holding /\ run[q].claim = None
  BY <1>1, <1>2, Holds
<1>4. /\ run'[r].at \in {"cas", "failed"} /\ run'[r].claim = c
      /\ \A q \in Runs : q # r => run'[q] = run[q]
      /\ UNCHANGED <<poll, rows, taken>>
  BY <1>1, <1>2 DEF Create, Goto, Run
<1>5. rows[c].status # "failed"
  BY <1>3 DEF LiveClaims, Live
<1>6. poll.status # "booked"
  BY <1>1 DEF ClaimInv, Settled
<1>7. cal \ lost = {}
  BY <1>1, <1>3, <1>6 DEF ClaimInv, NoStrayMeeting, Holding
<1>8. NoStrayMeeting' /\ (run'[r].at = "cas" => c \in cal')
  <2>1. CASE Goto(r, "cas") /\ cal' = cal \cup {run[r].claim} /\ UNCHANGED lost
    BY <1>1, <1>2, <1>4, <1>7, <2>1 DEF NoStrayMeeting, Goto, Run
  <2>2. CASE Goto(r, "failed") /\ (cal' \ lost' = {})
    BY <1>1, <2>2 DEF NoStrayMeeting, Goto, Run
  <2>3. cal' \ lost' = {} \/ (Goto(r, "cas") /\ cal' = cal \cup {run[r].claim} /\ UNCHANGED lost)
    BY <1>7 DEF Create
  <2>4. Goto(r, "failed") \/ (Goto(r, "cas") /\ cal' = cal \cup {run[r].claim} /\ UNCHANGED lost)
    BY DEF Create
  <2> QED
    BY <2>1, <2>2, <2>3, <2>4
<1>9. Settled'
  BY <1>4, <1>6 DEF Settled
<1>10. run'[r].at \in Holding
  BY <1>4 DEF Holding
<1> QED
  BY <1>1, <1>2, <1>3, <1>4, <1>5, <1>8, <1>9, <1>10, HolderMoves

\* The poll is booked with the claim, or found terminal.
LEMMA CasStep ==
    ASSUME ClaimInv, PollTypeOK', NEW r \in Runs, Cas(r) PROVE ClaimInv'
<1> USE DEF pvars, table, past
<1>1. run \in [Runs -> Run] /\ run[r] \in Run /\ run[r].at = "cas" /\ run[r].at \in Holding
  BY DEF Cas, Holding, ClaimInv, PollTypeOK
<1>2. PICK c \in Claims : c = run[r].claim
  BY <1>1, Holds
<1>3. /\ rows[c] \in Booking /\ LiveClaims = {c} /\ c \in cal
      /\ \A q \in Runs : q # r => run[q].at \notin Holding /\ run[q].claim = None
  BY <1>1, <1>2, Holds DEF ClaimInv, RunShape
<1>4. /\ run'[r].at \in {"confirm", "undo"} /\ run'[r].claim = c
      /\ \A q \in Runs : q # r => run'[q] = run[q]
      /\ UNCHANGED <<rows, taken, cal, lost>>
  BY <1>1, <1>2 DEF Cas, Goto, Run
<1>5. rows[c].status # "failed" /\ Live(c) /\ (Live(c)' <=> Live(c))
  BY <1>3, <1>4 DEF LiveClaims, Live
<1>6. poll.status # "booked"
  BY <1>1 DEF ClaimInv, Settled
<1>7. \A d \in cal \ lost : d = c
  BY <1>2, <1>3, <1>6 DEF ClaimInv, NoStrayMeeting, Holding
<1>8. CASE Goto(r, "undo") /\ UNCHANGED poll
  <2>1. run'[r].at = "undo"
    BY <1>1, <1>8 DEF Goto, Run
  <2>2. Settled' /\ NoStrayMeeting'
    BY <1>4, <1>6, <1>7, <1>8, <2>1 DEF Settled, NoStrayMeeting
  <2> QED
    BY <1>1, <1>2, <1>3, <1>4, <1>5, <2>1, <2>2, HolderMoves DEF Holding
<1>9. CASE Goto(r, "confirm") /\ poll' = [poll EXCEPT !.status = "booked", !.event = run[r].claim]
  <2>1. run'[r].at = "confirm"
    BY <1>1, <1>9 DEF Goto, Run
  <2>2. poll'.status = "booked" /\ poll'.event = c
    BY <1>2, <1>9 DEF ClaimInv, PollTypeOK, Poll
  <2>3. Settled'
    BY <1>3, <1>4, <1>5, <2>1, <2>2 DEF Settled, Live
  <2>4. NoStrayMeeting'
    BY <1>4, <1>7, <2>2 DEF NoStrayMeeting
  <2> QED
    BY <1>1, <1>2, <1>3, <1>4, <1>5, <2>1, <2>3, <2>4, HolderMoves DEF Holding
<1> QED
  BY <1>8, <1>9 DEF Cas

\* The event goes before the claim does.
LEMMA UndoStep ==
    ASSUME ClaimInv, PollTypeOK', NEW r \in Runs, Undo(r) PROVE ClaimInv'
<1> USE DEF pvars, table, past
<1>1. run \in [Runs -> Run] /\ run[r] \in Run /\ run[r].at = "undo" /\ run[r].at \in Holding
  BY DEF Undo, Holding, ClaimInv, PollTypeOK
<1>2. PICK c \in Claims : c = run[r].claim
  BY <1>1, Holds
<1>3. /\ rows[c] \in Booking /\ LiveClaims = {c}
      /\ \A q \in Runs : q # r => run[q].at \notin Holding /\ run[q].claim = None
  BY <1>1, <1>2, Holds
<1>4. /\ run'[r].at = "release" /\ run'[r].claim = c
      /\ \A q \in Runs : q # r => run'[q] = run[q]
      /\ UNCHANGED <<poll, rows, taken>>
  BY <1>1, <1>2 DEF Undo, Goto, Run
<1>5. rows[c].status # "failed"
  BY <1>3 DEF LiveClaims, Live
<1>6. poll.status # "booked"
  BY <1>1 DEF ClaimInv, Settled
<1>7. \A d \in cal \ lost : d = c
  BY <1>2, <1>3, <1>6 DEF ClaimInv, NoStrayMeeting, Holding
<1>8. cal' \ lost' = {}
  BY <1>2, <1>7 DEF Undo
<1>9. Settled' /\ NoStrayMeeting'
  BY <1>4, <1>6, <1>8 DEF Settled, NoStrayMeeting
<1> QED
  BY <1>1, <1>2, <1>3, <1>4, <1>5, <1>9, HolderMoves DEF Holding

\* The claim is let go: the calendar refused, or the event is gone again.
LEMMA LetGoSteps ==
    ASSUME ClaimInv, PollTypeOK', NEW r \in Runs, Failed(r) \/ Release(r) PROVE ClaimInv'
<1> USE DEF pvars, table, past
<1>1. /\ run \in [Runs -> Run] /\ run[r] \in Run
      /\ run[r].at \in {"failed", "release"} /\ run[r].at \in Holding
  BY DEF Failed, Release, Holding, ClaimInv, PollTypeOK
<1>2. PICK c \in Claims : c = run[r].claim
  BY <1>1, Holds
<1>3. /\ rows[c] \in Booking /\ LiveClaims = {c}
      /\ \A q \in Runs : q # r => run[q].at \notin Holding /\ run[q].claim = None
  BY <1>1, <1>2, Holds
<1>4. /\ run'[r].at \notin Holding \cup {"claim"} /\ run'[r].claim = None
      /\ \A q \in Runs : q # r => run'[q] = run[q]
  BY <1>1 DEF Failed, Release, Skip, End, Run, Rest, Holding
<1>5. UNCHANGED <<poll, cal, lost, taken>> /\ rows' = [rows EXCEPT ![c].status = "failed"]
  BY <1>2 DEF Failed, Release, FailBooking
<1>6. /\ rows'[c] \in Booking /\ rows'[c].slot = rows[c].slot
      /\ \A d \in Claims : d # c => rows'[d] = rows[d]
  BY <1>3, <1>5 DEF Booking, ClaimInv, PollTypeOK
<1>7. poll.status # "booked"
  BY <1>1 DEF ClaimInv, Settled
<1>8. cal \ lost = {}
  BY <1>1, <1>3, <1>7 DEF ClaimInv, NoStrayMeeting, Holding
<1>9. Settled' /\ NoStrayMeeting'
  BY <1>5, <1>7, <1>8 DEF Settled, NoStrayMeeting
<1> QED
  BY <1>1, <1>2, <1>4, <1>5, <1>6, <1>9, HolderMoves

\* Only the run of the booked poll gets here.
LEMMA ConfirmStep ==
    ASSUME ClaimInv, PollTypeOK', NEW r \in Runs, Confirm(r) PROVE ClaimInv'
<1> USE DEF pvars, table, past
<1>1. /\ run \in [Runs -> Run] /\ run[r] \in Run
      /\ run[r].at = "confirm" /\ run[r].at \in Holding
  BY DEF Confirm, Holding, ClaimInv, PollTypeOK
<1>2. PICK c \in Claims : c = run[r].claim
  BY <1>1, Holds
<1>3. /\ rows[c] \in Booking /\ LiveClaims = {c}
      /\ \A q \in Runs : q # r => run[q].at \notin Holding /\ run[q].claim = None
  BY <1>1, <1>2, Holds
<1>4. /\ run'[r].at = "idle" /\ run'[r].claim = None
      /\ \A q \in Runs : q # r => run'[q] = run[q]
  BY <1>1 DEF Confirm, End, Rest
<1>5. UNCHANGED <<poll, cal, lost, taken>> /\ rows' = [rows EXCEPT ![c].status = "confirmed"]
  BY <1>2 DEF Confirm
<1>6. /\ rows'[c] \in Booking /\ rows'[c].slot = rows[c].slot /\ rows'[c].status = "confirmed"
      /\ \A d \in Claims : d # c => rows'[d] = rows[d]
  BY <1>3, <1>5 DEF Booking, ClaimInv, PollTypeOK
<1>7. \A d \in cal \ lost : poll.status = "booked" /\ poll.event = d
  BY <1>1, <1>3 DEF ClaimInv, NoStrayMeeting, Holding
<1>8. NoStrayMeeting'
  BY <1>5, <1>7 DEF NoStrayMeeting
<1>9. Settled'
  <2> SUFFICES ASSUME poll.status = "booked"
               PROVE  /\ poll.event \in cal /\ Live(poll.event)'
                      /\ \A q \in Runs : run'[q].at \notin Holding
    BY <1>5 DEF Settled
  <2>1. poll.event \in cal /\ Live(poll.event) /\ poll.event \in Claims
    BY DEF ClaimInv, Settled, PollTypeOK
  <2>2. poll.event = c
    BY <1>3, <2>1 DEF LiveClaims
  <2>3. rows'[c] # None
    BY <1>6, NoneAssumption
  <2> QED
    BY <1>3, <1>4, <1>5, <1>6, <2>1, <2>2, <2>3 DEF Live, Holding
<1> QED
  BY <1>1, <1>2, <1>4, <1>5, <1>6, <1>8, <1>9, HolderMoves DEF Holding

\* A run that dies leaves its claim as it is; the event it made, if the poll
\* did not take it, is on record as lost.
LEMMA DieStep ==
    ASSUME ClaimInv, PollTypeOK', NEW r \in Runs, RunDies(r) PROVE ClaimInv'
<1> USE DEF pvars, table, past
<1>1. /\ run'[r].at = "idle" /\ run'[r].claim = None
      /\ \A q \in Runs : q # r => run'[q] = run[q]
      /\ UNCHANGED <<poll, rows, cal, taken>>
      /\ lost' = lost \cup (({run[r].claim} \cap cal) \ {poll.event})
  BY DEF RunDies, End, Rest, ClaimInv, PollTypeOK
<1>2. CASE run[r].at \in Holding
  <2>1. PICK c \in Claims : c = run[r].claim
    BY <1>2, Holds
  <2>2. rows'[c] \in Booking
    BY <1>1, <1>2, <2>1, Holds
  <2>3. NoStrayMeeting'
    <3> SUFFICES ASSUME NEW d \in cal \ lost'
                 PROVE  poll.status = "booked" /\ poll.event = d
      BY <1>1 DEF NoStrayMeeting
    <3>1. CASE poll.event = d
      <4>1. d # None
        BY PollAssumption DEF ClaimInv, PollTypeOK
      <4> QED
        BY <3>1, <4>1 DEF ClaimInv, PollTypeOK
    <3>2. CASE poll.event # d
      <4>1. d # run[r].claim /\ d \in cal \ lost
        BY <1>1, <3>2
      <4>2. PICK q \in Runs : run[q].claim = d /\ run[q].at \in {"cas", "undo"}
        BY <3>2, <4>1 DEF ClaimInv, NoStrayMeeting
      <4> QED
        BY <1>2, <4>1, <4>2, Holds DEF Holding
    <3> QED
      BY <3>1, <3>2
  <2>4. Settled'
    BY <1>1 DEF ClaimInv, Settled, Live, Holding
  <2> QED
    BY <1>1, <1>2, <2>1, <2>2, <2>3, <2>4, HolderMoves DEF Holding
<1>3. CASE run[r].at \notin Holding
  <2>1. \A q \in Runs :
           \/ run'[q] = run[q]
           \/ /\ run[q].at \notin Holding /\ run'[q].at \notin Holding
              /\ run'[q].claim = None
              /\ run'[q].at = "claim" => run'[q].slot # None
    BY <1>1, <1>3 DEF Holding
  <2>2. \A c \in LiveClaims : Clear(rows[c].slot, taken')
    BY <1>1 DEF ClaimInv, Exclusive
  <2>3. lost \subseteq lost'
    BY <1>1
  <2> QED
    BY <1>1, <2>1, <2>2, <2>3, ClaimsStay
<1> QED
  BY <1>2, <1>3

\* Claims, events and the poll agree, whatever happens.
LEMMA ClaimsHold ==
    ASSUME ClaimInv, [Next]_pvars PROVE ClaimInv'
<1>1. CASE UNCHANGED pvars
  <2>1. UNCHANGED <<poll, inv, rows, taken, busy, cal, run, save, edit, cancel, sweep, day,
                    used, lost, fresh, gaveUp>>
    BY <1>1 DEF pvars, table, work, past
  <2>2. PollTypeOK'
    BY <2>1 DEF ClaimInv, PollTypeOK
  <2> QED
    BY <2>1, <2>2, ClaimsStay DEF ClaimInv, Exclusive
<1>2. ASSUME NEW r \in Runs, RunStep(r) PROVE ClaimInv'
  <2>1. PollTypeOK'
    BY <1>2, RunTypes DEF ClaimInv
  <2> QED
    BY <1>2, <2>1, FreeRunSteps, ClaimStep, CreateStep, CasStep, UndoStep, LetGoSteps,
       ConfirmStep
    DEF RunStep
<1>3. ASSUME NEW r \in Runs, RunDies(r) PROVE ClaimInv'
  BY <1>3, OtherTypes, DieStep DEF ClaimInv
<1>4. ASSUME NEW r \in Runs, AskBest(r) \/ SweepBook(r) \/ (\E s \in Slots : AskBook(r, s))
      PROVE  ClaimInv'
  BY <1>4, OtherTypes, OutsideSteps DEF ClaimInv
<1>5. ASSUME NEW i \in Invitees,
             SaveStep(i) \/ SaveDies(i) \/ JoinOpen(i) \/ (\E p \in Paints : SaveOpen(i, p))
      PROVE  ClaimInv'
  BY <1>5, SaveTypes, OutsideSteps DEF ClaimInv
<1>6. CASE \/ CancelRead \/ CancelCas \/ EditStep \/ EditDies \/ SweepList \/ Tick
           \/ \E e \in Edits : EditRead(e)
           \/ \E s \in Slots : PageClaims(s) \/ CalendarChanges(s)
  BY <1>6, OtherTypes, OutsideSteps DEF ClaimInv
<1> QED
  BY <1>1, <1>2, <1>3, <1>4, <1>5, <1>6 DEF Next

-----------------------------------------------------------------------------
(* The last answer *)

\* A step of a run leaves the roster and the edit alone; a run that was to
\* look looks, unless the poll is not to be booked now, or gives up on record.
LEMMA RunHears ==
    ASSUME PollInv, NEW r \in Runs, RunStep(r) \/ RunDies(r)
    PROVE  RosterShape' /\ EditShape' /\ Heard'
<1> USE DEF pvars, table, past
<1>1. UNCHANGED <<inv, save, edit>> /\ poll'.guest = poll.guest
  BY DEF RunStep, Begin, Rank, WalkEnds, Try, Claim, ClaimWhen, Explain, Create, Failed, Cas,
         Undo, Release, Confirm, EscalateCheck, EscalateLive, EscalateMail, EscalatePark,
         RunDies, PollInv, ClaimInv, PollTypeOK, Poll
<1>2. On' = On /\ Responded' = Responded
  BY <1>1 DEF On, Responded
<1>3. RosterShape' /\ EditShape'
  BY <1>1, <1>2 DEF PollInv, RosterShape, EditShape
<1>4. /\ run \in [Runs -> Run] /\ run[r] \in Run
      /\ \A q \in Runs : q # r => run'[q] = run[q]
  BY DEF RunStep, Begin, Rank, WalkEnds, Try, Claim, ClaimWhen, Explain, Create, Failed, Cas,
         Undo, Release, Confirm, EscalateCheck, EscalateLive, EscalateMail, EscalatePark,
         RunDies, Goto, End, Skip, PollInv, ClaimInv, PollTypeOK
<1>5. Actionable(poll'.status) => Actionable(poll.status)
  BY DEF RunStep, Begin, Rank, WalkEnds, Try, Claim, ClaimWhen, Explain, Create, Failed, Cas,
         Undo, Release, Confirm, EscalateCheck, EscalateLive, EscalateMail, EscalatePark,
         RunDies, Actionable, PollInv, ClaimInv, PollTypeOK, Poll
<1>6. CASE Begin(r)
  <2> SUFFICES ASSUME fresh', ~gaveUp', Actionable(poll'.status), ~poll'.guest,
                      On' = Responded'
               PROVE  UnderWay'
    BY <1>3 DEF Heard
  <2>1. fresh /\ ~gaveUp /\ UnderWay /\ On = Responded
    BY <1>1, <1>2, <1>5, <1>6 DEF Begin, PollInv, Heard
  <2>2. CASE run[r].kind = "allin"
    <3>1. MayBegin("allin")
      BY <1>1, <1>5, <2>1 DEF MayBegin
    <3>2. On # {}
      BY <1>6, <2>2, <3>1 DEF Begin
    <3>3. run'[r].at = "rank"
      BY <1>4, <1>6, <2>2, <3>1, <3>2 DEF Begin, Run
    <3> QED
      BY <3>3 DEF UnderWay
  <2>3. CASE run[r].kind # "allin"
    <3>1. run[r].at = "begin"
      BY <1>6 DEF Begin
    <3> QED
      BY <1>1, <1>4, <2>1, <2>3, <3>1 DEF UnderWay
  <2> QED
    BY <2>2, <2>3
<1>7. CASE Rank(r)
  BY <1>3, <1>7 DEF Rank, Heard
<1>8. CASE RunDies(r)
  BY <1>3, <1>8 DEF RunDies, Heard
<1>9. ASSUME RunStep(r), ~Begin(r), ~Rank(r) PROVE Heard'
  <2>1. run[r].at \notin {"begin", "rank"}
    BY <1>9
    DEF RunStep, WalkEnds, Try, Claim, ClaimWhen, Explain, Create, Failed, Cas, Undo, Release,
        Confirm, EscalateCheck, EscalateLive, EscalateMail, EscalatePark
  <2>2. UNCHANGED fresh
    BY <1>9
    DEF RunStep, WalkEnds, Try, Claim, ClaimWhen, Explain, Create, Failed, Cas, Undo, Release,
        Confirm, EscalateCheck, EscalateLive, EscalateMail, EscalatePark
  <2>3. gaveUp => gaveUp'
    BY <1>9
    DEF RunStep, WalkEnds, Try, Claim, ClaimWhen, Explain, Create, Failed, Cas, Undo, Release,
        Confirm, EscalateCheck, EscalateLive, EscalateMail, EscalatePark, Yields
  <2>4. UnderWay => UnderWay'
    BY <1>1, <1>4, <2>1 DEF UnderWay
  <2> QED
    BY <1>1, <1>2, <1>5, <2>2, <2>3, <2>4 DEF PollInv, Heard
<1> QED
  BY <1>3, <1>6, <1>7, <1>8, <1>9

\* A request for a run leaves the runs that are to look where they are.
LEMMA BegunLooks ==
    ASSUME NEW r \in Runs, NEW kind \in Kinds, NEW slots, run \in [Runs -> Run], Begun(r, kind, slots)
    PROVE  /\ \A q \in Runs : run[q].at \in {"rank", "begin"} => run'[q] = run[q]
           /\ kind = "allin" => run'[r].at = "begin" /\ run'[r].kind = "allin"
  BY DEF Begun, Rest

\* An answer is followed by its look at the poll; a guest who joins has not
\* answered.
LEMMA SaveHears ==
    ASSUME PollInv, NEW i \in Invitees,
           SaveStep(i) \/ SaveDies(i) \/ JoinOpen(i) \/ (\E p \in Paints : SaveOpen(i, p))
    PROVE  RosterShape' /\ EditShape' /\ Heard'
<1> USE DEF pvars, table, past
<1>0. /\ save \in [Invitees -> Save] /\ inv \in [Invitees -> Invitee] /\ run \in [Runs -> Run]
      /\ save[i] \in Save /\ inv[i] \in Invitee /\ edit.ask.drop \subseteq Invitees
  BY DEF PollInv, ClaimInv, PollTypeOK, EditState, Edit, Nothing
<1>1. UNCHANGED <<poll, edit>>
  BY DEF SaveStep, SaveCells, SaveFire, JoinStore, SaveDies, JoinOpen, SaveOpen
<1>2. CASE SaveCells(i)
  <2>1. /\ inv'[i].on = inv[i].on /\ save[i].at = "cells" /\ save'[i].at = "fire"
        /\ \A j \in Invitees : j # i => inv'[j] = inv[j] /\ save'[j] = save[j]
    BY <1>0, <1>2 DEF SaveCells, Invitee
  <2>2. On' = On
    BY <2>1 DEF On
  <2>3. RosterShape'
    BY <2>1 DEF PollInv, RosterShape
  <2>4. EditShape'
    BY <1>0, <1>1, <2>1, <2>2 DEF PollInv, EditShape
  <2>5. Heard'
    BY <2>1 DEF Heard, UnderWay
  <2> QED
    BY <2>3, <2>4, <2>5
<1>3. CASE SaveFire(i)
  <2>1. /\ UNCHANGED inv /\ save'[i].at = "idle"
        /\ \A j \in Invitees : j # i => save'[j] = save[j]
    BY <1>0, <1>3 DEF SaveFire, At, Save
  <2>2. On' = On /\ Responded' = Responded
    BY <2>1 DEF On, Responded
  <2>3. RosterShape' /\ EditShape'
    BY <1>1, <2>1, <2>2 DEF PollInv, RosterShape, EditShape
  <2>4. ASSUME NEW r \in Runs, Begun(r, "allin", {}) PROVE Heard'
    <3>1. run'[r].at = "begin" /\ run'[r].kind = "allin"
      BY <1>0, <2>4, BegunLooks DEF Kinds
    <3> QED
      BY <3>1 DEF Heard, UnderWay
  <2>5. ASSUME fresh' = FALSE PROVE Heard'
    BY <2>5 DEF Heard
  <2> QED
    BY <1>3, <2>3, <2>4, <2>5 DEF SaveFire
<1>4. CASE JoinStore(i)
  <2>1. /\ save'[i].at = "idle" /\ UNCHANGED <<run, fresh, gaveUp>>
        /\ \A j \in Invitees : j # i => inv'[j] = inv[j] /\ save'[j] = save[j]
        /\ inv'[i].responded = inv[i].responded
        /\ inv'[i].on # inv[i].on => inv[i].on = "absent" /\ inv'[i].on = "on"
        /\ save[i].at = "join"
    BY <1>0, <1>4 DEF JoinStore, At, Save, Invitee
  <2>2. RosterShape'
    BY <2>1 DEF PollInv, RosterShape
  <2>3. EditShape'
    <3> SUFFICES ASSUME edit.at \in {"reopen", "roster"}
                 PROVE  /\ \A j \in edit.ask.drop : inv'[j].on # "absent"
                        /\ edit.rebook
                             \/ /\ edit.ask.drop \cap On' \subseteq edit.ask.add
                                /\ edit.ask.guest = "off" => ~poll.guest
      BY <1>1 DEF EditShape
    <3>1. \A j \in edit.ask.drop : inv'[j].on = inv[j].on /\ inv[j].on # "absent"
      BY <1>0, <2>1 DEF PollInv, EditShape
    <3>2. edit.ask.drop \cap On' = edit.ask.drop \cap On
      BY <1>0, <3>1 DEF On
    <3> QED
      BY <3>1, <3>2 DEF PollInv, EditShape
  <2>4. On' = Responded' => On = Responded
    <3>1. ASSUME On' = Responded', inv'[i].on # inv[i].on PROVE FALSE
      BY <2>1, <3>1 DEF On, Responded, PollInv, RosterShape
    <3>2. ASSUME inv'[i].on = inv[i].on PROVE On' = On /\ Responded' = Responded
      BY <2>1, <3>2 DEF On, Responded
    <3> QED
      BY <3>1, <3>2
  <2>5. UnderWay => UnderWay'
    BY <1>1, <2>1 DEF UnderWay
  <2>6. Heard'
    BY <1>1, <2>1, <2>4, <2>5 DEF PollInv, Heard
  <2> QED
    BY <2>2, <2>3, <2>6
<1>5. CASE SaveDies(i)
  <2>1. /\ UNCHANGED inv /\ save'[i].at = "idle" /\ gaveUp' = TRUE
        /\ \A j \in Invitees : j # i => save'[j] = save[j]
    BY <1>0, <1>5 DEF SaveDies, Quiet
  <2>2. On' = On
    BY <2>1 DEF On
  <2> QED
    BY <1>1, <2>1, <2>2 DEF PollInv, RosterShape, EditShape, Heard
<1>6. CASE JoinOpen(i) \/ (\E p \in Paints : SaveOpen(i, p))
  <2>1. /\ UNCHANGED <<inv, run, fresh, gaveUp>>
        /\ save[i].at = "idle" /\ save'[i].at \in {"cells", "join"}
        /\ save'[i].at = "cells" => i \in On
        /\ \A j \in Invitees : j # i => save'[j] = save[j]
    BY <1>0, <1>6 DEF JoinOpen, SaveOpen, At, Save
  <2>2. On' = On /\ Responded' = Responded
    BY <2>1 DEF On, Responded
  <2>3. RosterShape'
    BY <2>1 DEF PollInv, RosterShape, On
  <2>4. EditShape'
    BY <1>1, <2>1, <2>2 DEF PollInv, EditShape
  <2>5. UnderWay => UnderWay'
    BY <1>1, <2>1 DEF UnderWay
  <2> QED
    BY <1>1, <2>1, <2>2, <2>3, <2>4, <2>5 DEF PollInv, Heard
<1> QED
  BY <1>2, <1>3, <1>4, <1>5, <1>6 DEF SaveStep

\* An edit that takes a blocker away tries to book; what else it does leaves
\* the poll as ready as it was.
LEMMA EditHears ==
    ASSUME PollInv, EditStep \/ EditDies \/ (\E e \in Edits : EditRead(e))
    PROVE  RosterShape' /\ EditShape' /\ Heard'
<1> USE DEF pvars, table, past
<1>0. /\ edit \in EditState /\ poll \in Poll /\ run \in [Runs -> Run]
      /\ inv \in [Invitees -> Invitee] /\ edit.ask.drop \subseteq Invitees
      /\ fresh \in BOOLEAN /\ edit.rebook \in BOOLEAN
  BY DEF PollInv, ClaimInv, PollTypeOK, EditState, Edit, Nothing
<1>1. UNCHANGED save
  BY DEF EditStep, EditReopen, EditRoster, EditDeadline, EditStamps, EditBook, EditDies,
         EditRead
<1>2. CASE EditRoster
  <2>1. /\ edit.at = "roster" /\ edit'.at \in {"deadline", "book"} /\ edit'.rebook = edit.rebook
        /\ UNCHANGED <<run, gaveUp>> /\ poll'.status = poll.status
        /\ poll'.guest = IF edit.ask.guest = "keep" THEN poll.guest ELSE edit.ask.guest = "on"
    BY <1>0, <1>2 DEF EditRoster, EditTo, EditState, Poll
  <2>2. \A i \in Invitees :
          /\ inv'[i].responded = inv[i].responded
          /\ inv'[i].on = IF i \in edit.ask.add THEN "on"
                          ELSE IF i \in edit.ask.drop THEN "dropped" ELSE inv[i].on
    BY <1>0, <1>2 DEF EditRoster, Invitee
  <2>3. RosterShape'
    BY <1>1, <2>1, <2>2 DEF PollInv, RosterShape, EditShape
  <2>4. EditShape'
    BY <2>1 DEF EditShape
  <2>5. ASSUME edit.rebook PROVE Heard'
    <3>1. edit'.at # "idle" /\ edit'.rebook
      BY <2>1, <2>5
    <3> QED
      BY <3>1, Zenon DEF Heard, UnderWay
  <2>6. ASSUME ~edit.rebook PROVE Heard'
    <3>1. /\ edit.ask.drop \cap On \subseteq edit.ask.add
          /\ edit.ask.guest = "off" => ~poll.guest
      <4>1. edit.at \in {"reopen", "roster"}
        BY <2>1
      <4> QED
        BY <4>1, <2>6, Zenon DEF PollInv, EditShape
    <3>2. poll'.guest \/ ~poll.guest
      <4>1. edit.ask.guest \in {"keep", "on", "off"}
        BY <1>0 DEF EditState, Edit, Nothing
      <4>2. edit.ask.guest = "keep" => poll'.guest = poll.guest
        BY <2>1
      <4>3. edit.ask.guest = "on" => poll'.guest
        BY <2>1
      <4>4. poll.guest \in BOOLEAN
        BY <1>0 DEF Poll
      <4> QED
        BY <3>1, <4>1, <4>2, <4>3, <4>4
    <3>3. On \subseteq On'
      BY <2>2, <3>1 DEF On
    <3>4. On' = Responded' => On = Responded
      BY <2>2, <3>3 DEF On, Responded
    <3>5. fresh' => fresh
      BY <1>2, <2>6 DEF EditRoster
    <3>6. UnderWay => UnderWay'
      BY <1>1, <2>1, <2>6 DEF UnderWay
    <3>7. Actionable(poll'.status) <=> Actionable(poll.status)
      BY <2>1 DEF Actionable
    <3>8. gaveUp' <=> gaveUp
      BY <2>1
    <3> QED
      BY <3>2, <3>4, <3>5, <3>6, <3>7, <3>8, Zenon DEF PollInv, Heard
  <2> QED
    BY <2>3, <2>4, <2>5, <2>6
<1>3. ASSUME ~EditRoster PROVE UNCHANGED inv /\ poll'.guest = poll.guest
  BY <1>0, <1>3
  DEF EditStep, EditReopen, EditDeadline, EditStamps, EditBook, EditDies, EditRead, SetPoll,
      Poll
<1>4. ASSUME ~EditRoster PROVE On' = On /\ Responded' = Responded /\ RosterShape'
  BY <1>1, <1>3, <1>4 DEF On, Responded, PollInv, RosterShape
<1>5. CASE EditReopen
  <2>1. EditRoster => FALSE
    BY <1>5 DEF EditReopen, EditRoster
  <2>2. /\ UNCHANGED <<run, fresh, gaveUp>>
        /\ Actionable(poll'.status) => Actionable(poll.status)
    BY <1>0, <1>5 DEF EditReopen, SetPoll, Poll
  <2>3. CASE EditTo("roster")
    <3>1. edit'.at = "roster" /\ edit'.ask = edit.ask /\ edit'.rebook = edit.rebook
      BY <1>0, <2>3 DEF EditTo, EditState
    <3>2. EditShape'
      BY <1>0, <1>3, <1>4, <1>5, <2>1, <3>1 DEF PollInv, EditShape, EditReopen
    <3>3. UnderWay => UnderWay'
      BY <1>1, <2>2, <3>1 DEF UnderWay
    <3> QED
      BY <1>3, <1>4, <2>1, <2>2, <3>2, <3>3 DEF PollInv, Heard
  <2>4. CASE edit' = AtRest /\ UNCHANGED poll /\ ~Actionable(poll.status)
    BY <1>4, <2>1, <2>4 DEF AtRest, EditShape, Heard
  <2> QED
    BY <1>5, <2>3, <2>4 DEF EditReopen
<1>6. CASE EditDeadline \/ EditStamps
  <2>1. EditRoster => FALSE
    BY <1>6 DEF EditDeadline, EditStamps, EditRoster
  <2>2. /\ UNCHANGED <<run, fresh, gaveUp>> /\ poll'.status = poll.status
        /\ edit.at # "idle" /\ edit'.at \in {"stamps", "book"} /\ edit'.rebook = edit.rebook
    BY <1>0, <1>6 DEF EditDeadline, EditStamps, EditTo, EditState, Poll
  <2>3. UnderWay => UnderWay'
    BY <1>1, <2>2 DEF UnderWay
  <2> QED
    BY <1>3, <1>4, <2>1, <2>2, <2>3 DEF PollInv, Heard, EditShape
<1>7. CASE EditBook
  <2>1. EditRoster => FALSE
    BY <1>7 DEF EditBook, EditRoster
  <2>2. edit'.at = "idle" /\ UNCHANGED <<poll, fresh, gaveUp>>
    BY <1>7 DEF EditBook, AtRest
  <2>3. ASSUME NEW r \in Runs, Begun(r, "allin", {}) PROVE UnderWay'
    BY <1>0, <2>3, BegunLooks DEF UnderWay, Kinds
  <2>4. ASSUME ~edit.rebook, UNCHANGED run, UnderWay PROVE UnderWay'
    BY <1>1, <2>4 DEF UnderWay
  <2> QED
    BY <1>4, <1>7, <2>1, <2>2, <2>3, <2>4 DEF EditBook, PollInv, Heard, EditShape
<1>8. CASE EditDies
  <2>1. EditRoster => FALSE
    BY <1>8 DEF EditDies, EditRoster, AtRest, EditTo
  <2> QED
    BY <1>4, <1>8, <2>1 DEF EditDies, AtRest, EditShape, Heard
<1>9. ASSUME NEW e \in Edits, EditRead(e) PROVE RosterShape' /\ EditShape' /\ Heard'
  <2>1. EditRoster => FALSE
    BY <1>9 DEF EditRead, EditRoster, AtRest
  <2>2. /\ UNCHANGED <<run, fresh, gaveUp, poll, inv>> /\ edit.at = "idle"
        /\ edit'.at = "reopen" /\ edit'.ask = e
        /\ edit'.rebook <=> \/ (e.drop \cap On) \ e.add # {}
                            \/ e.guest = "off" /\ poll.guest
        /\ e.drop \subseteq {i \in Invitees : inv[i].on # "absent"}
    BY <1>9 DEF EditRead, AtRest
  <2>3. EditShape'
    BY <1>4, <2>1, <2>2 DEF EditShape
  <2>4. UnderWay => UnderWay'
    BY <1>1, <2>2 DEF UnderWay
  <2> QED
    BY <1>4, <2>1, <2>2, <2>3, <2>4 DEF PollInv, Heard
<1> QED
  BY <1>2, <1>5, <1>6, <1>7, <1>8, <1>9 DEF EditStep

\* The other requests touch neither the roster nor an answer.
LEMMA RestHears ==
    ASSUME PollInv,
           \/ \E r \in Runs : AskBest(r) \/ SweepBook(r)
           \/ \E r \in Runs, s \in Slots : AskBook(r, s)
           \/ CancelRead \/ CancelCas \/ SweepList \/ Tick
           \/ \E s \in Slots : PageClaims(s) \/ CalendarChanges(s)
    PROVE  RosterShape' /\ EditShape' /\ Heard'
<1> USE DEF pvars, table, past, work
<1>1. UNCHANGED <<inv, save, edit, fresh, gaveUp>>
  BY DEF AskBest, SweepBook, AskBook, CancelRead, CancelCas, SweepList, Tick, PageClaims,
         CalendarChanges
<1>2. /\ poll'.guest = poll.guest
      /\ Actionable(poll'.status) => Actionable(poll.status)
  BY DEF AskBest, SweepBook, AskBook, CancelRead, CancelCas, SweepList, Tick, PageClaims,
         CalendarChanges, SetPoll, PollInv, ClaimInv, PollTypeOK, Poll, Actionable
<1>3. run \in [Runs -> Run]
  BY DEF PollInv, ClaimInv, PollTypeOK
<1>4. ASSUME NEW r \in Runs, NEW kind \in Kinds, NEW slots, Begun(r, kind, slots)
      PROVE  \A q \in Runs : run[q].at \in {"rank", "begin"} => run'[q] = run[q]
  BY <1>3, <1>4, BegunLooks
<1>5. \A q \in Runs : run[q].at \in {"rank", "begin"} => run'[q] = run[q]
  BY <1>4
  DEF AskBest, SweepBook, AskBook, CancelRead, CancelCas, SweepList, Tick, PageClaims,
      CalendarChanges, Kinds
<1>6. UnderWay => UnderWay'
  BY <1>1, <1>5 DEF UnderWay
<1>7. On' = On /\ Responded' = Responded
  BY <1>1 DEF On, Responded
<1> QED
  BY <1>1, <1>2, <1>6, <1>7 DEF PollInv, RosterShape, EditShape, Heard

-----------------------------------------------------------------------------
(* Theorems *)

LEMMA InitPoll == Init => PollInv
<1> SUFFICES ASSUME Init PROVE PollInv
  OBVIOUS
<1>1. PollTypeOK
  <2>1. poll \in Poll /\ (poll.status = "booked" <=> poll.event # None)
    BY PollAssumption DEF Init, Poll, Statuses
  <2>2. inv \in [Invitees -> Invitee] /\ rows \in [Claims -> Booking \cup {None}]
    BY DEF Init, Invitee
  <2>3. run \in [Runs -> Run] /\ save \in [Invitees -> Save] /\ edit \in EditState
    BY DEF Init, Rest, Run, Places, Kinds, Quiet, Save, AtRest, EditState, Nothing
  <2>4. used \in [DOMAIN Limit -> Nat] /\ \A b \in DOMAIN Limit : used[b] <= Limit[b]
    BY PollAssumption DEF Init, Limit
  <2>5. day \in 0..MaxDay
    BY PollAssumption DEF Init
  <2> QED
    BY <2>1, <2>2, <2>3, <2>4, <2>5 DEF Init, PollTypeOK
<1>2. LiveClaims = {}
  BY DEF Init, LiveClaims, Live
<1>3. RunShape /\ Exclusive /\ Settled /\ NoStrayMeeting
  BY <1>2 DEF Init, RunShape, Exclusive, Settled, NoStrayMeeting, Rest, Holding
<1>4. RosterShape /\ EditShape /\ Heard
  BY DEF Init, RosterShape, EditShape, Heard, Quiet, AtRest
<1> QED
  BY <1>1, <1>3, <1>4 DEF PollInv, ClaimInv

LEMMA NextPoll == PollInv /\ [Next]_pvars => PollInv'
<1> SUFFICES ASSUME PollInv, [Next]_pvars PROVE PollInv'
  OBVIOUS
<1>1. ClaimInv'
  BY ClaimsHold DEF PollInv
<1>2. CASE UNCHANGED pvars
  <2>1. UNCHANGED <<poll, inv, run, save, edit, fresh, gaveUp>>
    BY <1>2 DEF pvars, table, work, past
  <2>2. On' = On /\ Responded' = Responded
    BY <2>1 DEF On, Responded
  <2>3. RosterShape' /\ EditShape' /\ Heard'
    BY <2>1, <2>2 DEF PollInv, RosterShape, EditShape, Heard, UnderWay
  <2> QED
    BY <1>1, <2>3 DEF PollInv
<1>3. CASE Next
  BY <1>1, <1>3, RunHears, SaveHears, EditHears, RestHears DEF Next, PollInv
<1> QED
  BY <1>2, <1>3

\* PollInv is inductive: every reachable state of the poll and its engine runs
\* satisfies it, the types included.
THEOREM PollCorrect == Spec => []PollInv
BY InitPoll, NextPoll, PTL DEF Spec

\* The poll never has two meetings in the calendar that nobody lost, whichever
\* runs race: each is the booked one or belongs to the run that holds the only
\* live claim.
THEOREM NeverTwoMeetings == Spec => []OneMeeting
<1>1. PollInv => OneMeeting
  <2> SUFFICES ASSUME PollInv PROVE OneMeeting
    OBVIOUS
  <2>1. \A c \in cal \ lost : c \in LiveClaims
    <3> SUFFICES ASSUME NEW c \in cal \ lost PROVE c \in LiveClaims
      OBVIOUS
    <3>1. c \in Claims
      BY DEF PollInv, ClaimInv, PollTypeOK
    <3>2. CASE poll.status = "booked" /\ poll.event = c
      BY <3>1, <3>2 DEF PollInv, ClaimInv, Settled, LiveClaims
    <3>3. ASSUME NEW r \in Runs, run[r].claim = c, run[r].at \in {"cas", "undo"}
          PROVE  c \in LiveClaims
      BY <3>1, <3>3 DEF PollInv, ClaimInv, RunShape, Holding, LiveClaims
    <3> QED
      BY <3>2, <3>3 DEF PollInv, ClaimInv, NoStrayMeeting
  <2>2. \A c, d \in cal \ lost : c = d
    BY <2>1 DEF PollInv, ClaimInv, Exclusive
  <2>3. CASE cal \ lost = {}
    BY <2>3, FS_EmptySet DEF OneMeeting
  <2>4. ASSUME NEW c \in cal \ lost PROVE OneMeeting
    <3>1. cal \ lost = {c}
      BY <2>2
    <3> QED
      BY <3>1, FS_Singleton DEF OneMeeting
  <2> QED
    BY <2>3, <2>4
<1> QED
  BY <1>1, PollCorrect, PTL

\* No two live bookings of the organiser overlap, a poll's or the page's.
THEOREM SlotsBookedOnce == Spec => []NoDoubleBooking
<1>1. PollInv => NoDoubleBooking
  BY DEF PollInv, ClaimInv, Exclusive, NoDoubleBooking
<1> QED
  BY <1>1, PollCorrect, PTL

\* A booked poll's event is in the calendar and its slot stays blocked.
THEOREM BookedPollsHold == Spec => []BookedHolds
<1>1. PollInv => BookedHolds
  BY DEF PollInv, ClaimInv, Settled, BookedHolds
<1> QED
  BY <1>1, PollCorrect, PTL

\* An event without a booked poll has a run that will delete it, or is on
\* record as lost.
THEOREM NoMeetingStrays == Spec => []NoStrayMeeting
<1>1. PollInv => NoStrayMeeting
  BY DEF PollInv, ClaimInv
<1> QED
  BY <1>1, PollCorrect, PTL

\* With everybody in and nothing under way, an open poll without a guest link
\* was looked at since the last change, or somebody gave up on record.
THEOREM LastAnswerCounts == Spec => []LastVoteHeard
<1>1. PollInv => LastVoteHeard
  <2> SUFFICES ASSUME PollInv,
                      \A r \in Runs : run[r].at = "idle",
                      \A i \in Invitees : save[i].at = "idle",
                      edit = AtRest, poll.status = "open", ~poll.guest, On = Responded
               PROVE  ~fresh \/ gaveUp
    BY DEF LastVoteHeard
  <2>1. ~UnderWay
    BY DEF UnderWay, AtRest
  <2> QED
    BY <2>1 DEF PollInv, Heard, Actionable
<1> QED
  BY <1>1, PollCorrect, PTL
=============================================================================
