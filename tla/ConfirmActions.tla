--------------------------- MODULE ConfirmActions ---------------------------
(***************************************************************************)
(* Actions an agent asks for and the user confirms by mail: the            *)
(* pending_actions table (worker/src/db/pending-actions.ts), the deferral  *)
(* that reserves a row and mails its link (worker/src/confirm/defer.ts),   *)
(* the accept mail of a plan, which shares the table                       *)
(* (worker/src/confirm/plan-mail.ts, worker/src/planning/                  *)
(* commit-confirm.ts), the confirm page (worker/src/confirm/route.ts) and  *)
(* the deletion of the account (worker/src/lifecycle/offboard.ts).         *)
(*                                                                         *)
(* One owner: every statement is scoped to the owner's rows.  A request    *)
(* is named by the fresh id of the row it would store.  Each await is a    *)
(* step of its own, and a request or a page visit can die at any of them.  *)
(***************************************************************************)
EXTENDS Naturals, FiniteSets

CONSTANTS
    Ids,            \* requests, and the rows they reserve
    Ops,            \* gated actions: an op with its payload
    Plans,          \* plans whose accept mail a marker row stands for
    Visits,         \* POSTs of the confirm page
    LiveCap,        \* PENDING_ACTION_LIVE_CAP
    FallbackLimit,  \* SYSTEM_FALLBACK_DAILY_LIMIT
    TTL,            \* days an action's link lives; the fallback's window too
    PlanTTL,        \* days a plan's accept link lives
    Grace,          \* PENDING_ACTION_PRUNE_GRACE_MS in days
    MaxInFlight,    \* bound: requests under way at once
    MaxDay,         \* bound: days
    MaxFaults,      \* bound: requests and visits that die, deliveries that
                    \* look failed, the account's deletion
    NoRow, Nobody

ASSUME BoundsAssumption ==
    /\ LiveCap \in Nat /\ FallbackLimit \in Nat /\ MaxInFlight \in Nat
    /\ MaxDay \in Nat /\ MaxFaults \in Nat
    /\ TTL \in Nat \ {0} /\ PlanTTL \in Nat \ {0} /\ Grace \in Nat
\* A row is kept for longer than its mail counts.
ASSUME WindowAssumption == TTL <= Grace + 1
ASSUME AsksAssumption == Ops \cap Plans = {} /\ Nobody \notin Ids \cup Ops \cup Plans

VARIABLES
    rows,     \* pending_actions
    req,      \* the requests: where they are, what for, their clock and answer
    visit,    \* the page visits
    plan,     \* per plan: pending, or settled (committed, superseded, expired)
    account,  \* "active", "wiped" (rows deleted, not yet deactivated), "gone"
    day,
    faults,
    mail,     \* history: requests whose link was delivered
    sent,     \* history: until when a request's fallback mail counts
    ran       \* history: how often each row's action was replayed

cavars == <<rows, req, visit, plan, account, day, faults, mail, sent, ran>>
past == <<mail, sent, ran>>

-----------------------------------------------------------------------------
Asks == Ops \cup Plans
Row == [ask : Asks, blank : BOOLEAN, created : 0..MaxDay,
        expires : 1..(MaxDay + TTL + PlanTTL), consumed : BOOLEAN,
        channel : {"own", "system"}]
ASSUME NoRowAssumption == NoRow \notin Row

Mailing == {"send", "claim", "system", "drop"}
Steps == {"new", "prune", "release", "reserve", "lookup"} \cup Mailing \cup {"done", "dead"}
Answers == {"none", "awaiting", "deduped", "refused"}
\* onto: the row whose answer a repeated request was given.
Request == [at : Steps, ask : Asks \cup {Nobody}, now : 0..MaxDay, answer : Answers,
            onto : Ids \cup {Nobody}]
New == [at |-> "new", ask |-> Nobody, now |-> 0, answer |-> "none", onto |-> Nobody]
Visit == [at : {"away", "loaded", "won", "closed"}, id : Ids \cup {Nobody}]
Away == [at |-> "away", id |-> Nobody]

ConfirmTypeOK ==
    /\ rows \in [Ids -> Row \cup {NoRow}]
    /\ req \in [Ids -> Request]
    /\ visit \in [Visits -> Visit]
    /\ plan \in [Plans -> {"pending", "settled"}]
    /\ account \in {"active", "wiped", "gone"}
    /\ day \in 0..MaxDay
    /\ faults \in 0..MaxFaults
    /\ mail \subseteq Ids
    /\ sent \in [Ids -> 0..(MaxDay + TTL)]
    /\ ran \in [Ids -> Nat]

Init ==
    /\ rows = [i \in Ids |-> NoRow]
    /\ req = [i \in Ids |-> New]
    /\ visit = [v \in Visits |-> Away]
    /\ plan = [p \in Plans |-> "pending"]
    /\ account = "active" /\ day = 0 /\ faults = 0
    /\ mail = {} /\ sent = [i \in Ids |-> 0] /\ ran = [i \in Ids |-> 0]

Fault == faults < MaxFaults /\ faults' = faults + 1

-----------------------------------------------------------------------------
(* The table *)

Stored == {i \in Ids : rows[i] # NoRow}

\* Unconsumed and unexpired at time t: what the cap and the dedupe count.
LiveAt(t) == {i \in Stored : ~rows[i].consumed /\ rows[i].expires > t}

\* Live rows of the same op and payload; a blanked payload matches nothing.
SameAsk(a, t) == {i \in LiveAt(t) : rows[i].ask = a /\ ~rows[i].blank}

\* A row's action data is blanked when it expires or is consumed.
Blanked(is) == [i \in Ids |-> IF i \in is THEN [rows[i] EXCEPT !.blank = TRUE]
                                          ELSE rows[i]]

Without(is) == [i \in Ids |-> IF i \in is THEN NoRow ELSE rows[i]]

\* Housekeeping: rows a week past expiry go, expired ones lose their data.
Pruned(t) == [i \in Ids |->
    IF i \notin Stored THEN NoRow
    ELSE IF rows[i].expires + Grace < t THEN NoRow
    ELSE IF rows[i].expires <= t THEN [rows[i] EXCEPT !.blank = TRUE]
    ELSE rows[i]]

\* Markers of plans that can no longer be accepted free their slot.
Released(rs, t) == [i \in Ids |->
    IF /\ rs[i] # NoRow
       /\ rs[i].ask \in Plans /\ ~rs[i].consumed /\ rs[i].expires > t
       /\ plan[rs[i].ask] = "settled" \/ rs[i].blank
    THEN [rs[i] EXCEPT !.consumed = TRUE, !.blank = TRUE]
    ELSE rs[i]]

SystemMailed(t) == {i \in Stored : rows[i].channel = "system"
                                   /\ rows[i].created + TTL > t}

-----------------------------------------------------------------------------
(* A deferral: deferForConfirmation, sendPlanAcceptEmailOnce *)

Goto(i, step) == req' = [req EXCEPT ![i].at = step]

\* What the agent is told: the user was mailed, the action waits already, or
\* it was refused (over the cap, undeliverable, an error).
Answer(i, what) ==
    req' = [req EXCEPT ![i] = [New EXCEPT !.at = "done", !.answer = what]]
Closed(v) == visit' = [visit EXCEPT ![v] = [Away EXCEPT !.at = "closed"]]

\* A gated call of an agent.  A plan's commit got here because the plan was
\* pending and reviewable.  The owner's address is read before any row is
\* stored, and a failed read ends the request.
Ask(i, a) ==
    /\ account = "active"
    /\ req[i].at = "new"
    /\ Cardinality({j \in Ids : req[j].at \notin {"new", "done", "dead"}}) < MaxInFlight
    /\ a \in Plans => plan[a] = "pending"
    /\ \/ Answer(i, "refused")
       \/ req' = [req EXCEPT ![i] = [New EXCEPT !.at = "prune", !.ask = a, !.now = day]]
    /\ UNCHANGED <<rows, visit, plan, account, day, faults, past>>

\* Housekeeping before the reservation: expired rows of every owner, then the
\* owner's markers of plans that can no longer be accepted.
Prune(i) ==
    /\ req[i].at = "prune" /\ Goto(i, "release")
    /\ rows' = Pruned(req[i].now)
    /\ UNCHANGED <<visit, plan, account, day, faults, past>>
Release(i) ==
    /\ req[i].at = "release" /\ Goto(i, "reserve")
    /\ rows' = Released(rows, req[i].now)
    /\ UNCHANGED <<visit, plan, account, day, faults, past>>

Lifetimes(a) == IF a \in Ops THEN {TTL} ELSE 1..PlanTTL

StoreRow(i, life) ==
    rows' = [rows EXCEPT ![i] =
        [ask |-> req[i].ask, blank |-> FALSE, created |-> req[i].now,
         expires |-> req[i].now + life, consumed |-> FALSE, channel |-> "own"]]

ReserveWhen(i, ok, lives) ==
    /\ req[i].at = "reserve"
    /\ IF ok THEN (\E life \in lives : StoreRow(i, life)) /\ Goto(i, "send")
             ELSE Goto(i, "lookup") /\ UNCHANGED rows
    /\ UNCHANGED <<visit, plan, account, day, faults, past>>

Unasked(i) == SameAsk(req[i].ask, req[i].now) = {}
Room(i) == Cardinality(LiveAt(req[i].now)) < LiveCap

\* Mutant of Reserve: a second request for a live action stores its own row.
ReserveTwice(i) == ReserveWhen(i, Room(i), Lifetimes(req[i].ask))

\* One INSERT ... SELECT ... WHERE: no live row for the same ask, and room.
Reserve(i) == ReserveWhen(i, Unasked(i) /\ Room(i), Lifetimes(req[i].ask))

\* A second statement tells a duplicate from the cap; a duplicate is given the
\* first such row's answer, whether or not its mail has gone out.
Deduped(i, j) == req' = [req EXCEPT ![i] =
                            [New EXCEPT !.at = "done", !.answer = "deduped", !.onto = j]]
Lookup(i) ==
    /\ req[i].at = "lookup"
    /\ LET same == SameAsk(req[i].ask, req[i].now)
           first == {j \in same : \A k \in same : rows[j].created <= rows[k].created}
       IN  IF same = {} THEN Answer(i, "refused") ELSE \E j \in first : Deduped(i, j)
    /\ UNCHANGED <<rows, visit, plan, account, day, faults, past>>

Delivered(i) == mail' = mail \cup {i}

\* The user's own mailbox first.  A send that throws may have been delivered.
SendOwn(i) ==
    /\ req[i].at = "send"
    /\ \/ Delivered(i) /\ Answer(i, "awaiting") /\ UNCHANGED faults
       \/ Delivered(i) /\ Goto(i, "claim") /\ Fault
       \/ Goto(i, "claim") /\ UNCHANGED <<mail, faults>>
    /\ UNCHANGED <<rows, visit, plan, account, day, sent, ran>>

ClaimWhen(i, ok) ==
    /\ req[i].at = "claim"
    /\ IF ok THEN rows' = [rows EXCEPT ![i].channel = "system"] /\ Goto(i, "system")
             ELSE Goto(i, "drop") /\ UNCHANGED rows
    /\ UNCHANGED <<visit, plan, account, day, faults, past>>

\* Mutant of ClaimFallback: the count is not part of the statement.
ClaimFallbackFree(i) == ClaimWhen(i, i \in Stored)

\* claimSystemFallback: the system mailer, within the owner's daily limit.
ClaimFallback(i) ==
    ClaimWhen(i, i \in Stored /\ Cardinality(SystemMailed(day)) < FallbackLimit)

\* The system mailer never throws; "not ok" may have been delivered too.
SendSystem(i) ==
    /\ req[i].at = "system"
    /\ \/ /\ Delivered(i) /\ sent' = [sent EXCEPT ![i] = req[i].now + TTL]
          /\ Answer(i, "awaiting") /\ UNCHANGED faults
       \/ Delivered(i) /\ Goto(i, "drop") /\ Fault /\ UNCHANGED sent
       \/ Goto(i, "drop") /\ UNCHANGED <<mail, sent, faults>>
    /\ UNCHANGED <<rows, visit, plan, account, day, ran>>

\* Mutant of Undeliverable: the row stays, and its retry is deduped onto it.
UndeliverableKept(i) ==
    /\ req[i].at = "drop"
    /\ Answer(i, "refused")
    /\ UNCHANGED <<rows, visit, plan, account, day, faults, past>>

\* Nobody can confirm a link that never arrived: the row goes again.
Undeliverable(i) ==
    /\ req[i].at = "drop"
    /\ rows' = Without({i})
    /\ Answer(i, "refused")
    /\ UNCHANGED <<visit, plan, account, day, faults, past>>

RequestDies(i) ==
    /\ req[i].at \notin {"new", "done", "dead"}
    /\ req' = [req EXCEPT ![i] = [New EXCEPT !.at = "dead"]] /\ Fault
    /\ UNCHANGED <<rows, visit, plan, account, day, past>>

-----------------------------------------------------------------------------
(* The confirm page *)

\* Links of actions that arrived; a plan's accept link leads elsewhere.
Links == {i \in mail \cap Stored : rows[i].ask \in Ops}

Expired(i) == i \in Stored /\ ~rows[i].consumed /\ rows[i].expires <= day

\* The review page writes nothing, but an expired row loses its data.
View(i) ==
    /\ i \in Links /\ account # "gone" /\ Expired(i)
    /\ rows' = Blanked({i})
    /\ UNCHANGED <<req, visit, plan, account, day, faults, past>>

\* A POST: account, row, consumed, expiry and payload are read.
Load(v, i) ==
    /\ visit[v].at = "away"
    /\ i \in Links
    /\ account # "gone"
    /\ \/ /\ i \in LiveAt(day) /\ ~rows[i].blank
          /\ visit' = [visit EXCEPT ![v] = [at |-> "loaded", id |-> i]]
          /\ UNCHANGED rows
       \/ /\ Expired(i)
          /\ rows' = Blanked({i})
          /\ Closed(v)
    /\ UNCHANGED <<req, plan, account, day, faults, past>>

\* Mutant of Consume: what was loaded decides, not the row as it is now.
ConsumeLoaded(v) ==
    /\ visit[v].at = "loaded"
    /\ LET i == visit[v].id IN
         /\ rows' = IF i \in Stored
                    THEN [rows EXCEPT ![i].consumed = TRUE, ![i].blank = TRUE]
                    ELSE rows
         /\ visit' = [visit EXCEPT ![v].at = "won"]
    /\ UNCHANGED <<req, plan, account, day, faults, past>>

\* The single-use compare-and-set decides: one POST wins, and only while the
\* row is there, unconsumed and unexpired.
Consume(v) ==
    /\ visit[v].at = "loaded"
    /\ LET i == visit[v].id IN
         IF i \in LiveAt(day)
         THEN /\ rows' = [rows EXCEPT ![i].consumed = TRUE, ![i].blank = TRUE]
              /\ visit' = [visit EXCEPT ![v].at = "won"]
         ELSE /\ rows' = IF Expired(i) THEN Blanked({i}) ELSE rows
              /\ Closed(v)
    /\ UNCHANGED <<req, plan, account, day, faults, past>>

\* The winner replays the op; whatever comes of it, the row stays consumed.
Replay(v) ==
    /\ visit[v].at = "won"
    /\ ran' = [ran EXCEPT ![visit[v].id] = @ + 1]
    /\ Closed(v)
    /\ UNCHANGED <<rows, req, plan, account, day, faults, mail, sent>>

VisitDies(v) ==
    /\ visit[v].at \in {"loaded", "won"}
    /\ Closed(v) /\ Fault
    /\ UNCHANGED <<rows, req, plan, account, day, past>>

-----------------------------------------------------------------------------
(* The rest of the world *)

Settle(p) ==
    /\ plan[p] = "pending"
    /\ plan' = [plan EXCEPT ![p] = "settled"]
    /\ UNCHANGED <<rows, req, visit, account, day, faults, past>>

\* A resolve finds the same plan again: superseded or expired, it is pending once
\* more.  (A committed one takes no part in this step.)
Rearm(p) ==
    /\ plan[p] = "settled"
    /\ plan' = [plan EXCEPT ![p] = "pending"]
    /\ UNCHANGED <<rows, req, visit, account, day, faults, past>>

DailyCleanup ==
    /\ rows # Pruned(day)
    /\ rows' = Pruned(day)
    /\ UNCHANGED <<req, visit, plan, account, day, faults, past>>

\* The account is deleted: one batch drops its rows, a later statement
\* deactivates it; a request in between can still reserve.
Wipe ==
    /\ account = "active"
    /\ rows' = Without(Ids)
    /\ account' = "wiped" /\ Fault
    /\ UNCHANGED <<req, visit, plan, day, past>>

Deactivate ==
    /\ account = "wiped"
    /\ account' = "gone"
    /\ UNCHANGED <<rows, req, visit, plan, day, faults, past>>

Tick ==
    /\ day < MaxDay
    /\ day' = day + 1
    /\ UNCHANGED <<rows, req, visit, plan, account, faults, past>>

Next ==
    \/ \E i \in Ids :
         \/ \E a \in Asks : Ask(i, a)
         \/ Prune(i) \/ Release(i)
         \/ Reserve(i) \/ Lookup(i) \/ SendOwn(i) \/ ClaimFallback(i)
         \/ SendSystem(i) \/ Undeliverable(i) \/ RequestDies(i) \/ View(i)
    \/ \E v \in Visits :
         \/ \E i \in Ids : Load(v, i)
         \/ Consume(v) \/ Replay(v) \/ VisitDies(v)
    \/ \E p \in Plans : Settle(p) \/ Rearm(p)
    \/ DailyCleanup \/ Wipe \/ Deactivate \/ Tick

Spec == Init /\ [][Next]_cavars

-----------------------------------------------------------------------------
(* Properties *)

\* An action is replayed at most once, whoever follows its link and however
\* often (confirm/route.ts, consumePendingAction).
RunsAtMostOnce ==
    \A i \in Ids : ran[i] <= 1

\* While a row is live no second one asks the same, however the requests
\* interleave (reservePendingAction).
OneLinkPerAsk ==
    \A i, j \in LiveAt(day) : rows[i].ask = rows[j].ask => i = j

\* However requests, confirmations and clean-ups interleave, the owner never has
\* more live rows than the cap, and the mails the shared system mailer took for
\* requests of the last day stay within the owner's limit, also when one of
\* them was confirmed or its marker released since (claimSystemFallback);
\* deleting the account forgets them.
CapsHold ==
    /\ Cardinality(LiveAt(day)) <= LiveCap
    /\ account = "active" =>
         Cardinality({i \in Ids : sent[i] > day}) <= FallbackLimit

\* What a finished request told the agent is so: an awaited action's link was
\* delivered, and one that was refused left no row.  A repeated request was told
\* that the link was emailed: the request it was deduped onto has delivered it.
\* On record (confirm/defer.ts:173-179): that request is still at its mail, it died
\* there, or its mail failed after the answer, and its own caller was told so; a
\* retry is never deduped onto a request that was refused.  Only a request that
\* died leaves a live row nobody was told about (deliverConfirmation).
AnswerIsTrue ==
    \A i \in Ids :
        /\ req[i].answer = "awaiting" => i \in mail
        /\ req[i].answer \in {"deduped", "refused"} => i \notin Stored
        /\ req[i].answer = "deduped" =>
             LET j == req[i].onto
             IN  \/ j \in mail
                 \/ j \in Ids /\ (req[j].at \in Mailing \cup {"dead"} \/ req[j].answer = "refused")
        /\ i \in LiveAt(day) /\ i \notin mail => req[i].at \in Mailing \cup {"dead"}
=============================================================================
