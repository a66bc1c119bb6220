------------------------- MODULE ResolveCoordinator -------------------------
(***************************************************************************)
(* How a change of one user's calendar becomes a resolve of its week       *)
(* (worker/src/durable-objects/resolve-coordinator.ts,                     *)
(* worker/src/webhooks/google-calendar.ts, and the sync-token lines of     *)
(* worker/src/planning/resolve-internal.ts).                               *)
(*                                                                         *)
(* The provider keeps a log of changes and sends a push for each of them.  *)
(* The user's Durable Object (Coord) debounces pushes into one alarm; the  *)
(* alarm's run reads the changes since the stored sync token, resolves     *)
(* each week they fall in, and stores the token it read them with.  POST   *)
(* /resolve and the Monday cron (Requests) resolve one week each, beside   *)
(* it.  EVERY resolve also stores the token its own calendar read          *)
(* returned, and that token is past changes of all weeks.                  *)
(*                                                                         *)
(* A token is a position in the log, or None.                              *)
(***************************************************************************)
EXTENDS Integers, Sequences

CONSTANTS
    Weeks,       \* the weeks an event can fall in
    Near,        \* those the fallback full fetch reads: it starts now
    Past,        \* those whose window has elapsed
    Requests,    \* direct resolves: POST /resolve, the Monday cron
    Coord,       \* the Durable Object's own resolver
    Silent,      \* a change that asks for no replan: a deletion, or the
                 \* echo of an event the scheduler wrote
    None,        \* no token stored, and no value
    MaxChanges,  \* bound: changes of the calendar
    FaultKinds,  \* the faults that occur: "throw", "crash", "refuse"
    MaxFaults    \* bound: how many of them

ASSUME WeeksAssumption == /\ Near \subseteq Weeks /\ Past \subseteq Weeks
                          /\ Near \cap Past = {}
ASSUME NamesAssumption == /\ Silent \notin Weeks /\ None \notin Weeks \cup Nat
                          /\ Coord \notin Requests
ASSUME BoundsAssumption == /\ MaxChanges \in Nat /\ MaxFaults \in Nat
                           /\ FaultKinds \subseteq {"throw", "crash", "refuse"}

VARIABLES
    log,      \* the provider's changes, in order: the week of each, or Silent
    heard,    \* changes a delivered push announced
    token,    \* calendar_sync.next_sync_token
    dirty, alarm,  \* the Durable Object's storage: the flag, the alarm is set
    run,      \* the alarm's run of runWebhookReplan
    res,      \* per resolver, its call of runResolve
    covered,  \* history: changes a resolve of their week has answered for
    dropped,  \* history: changes a run that was cut short, or a reset, gave up
    jumped,   \* history: changes the token passed with nobody to resolve them
    faults

rcvars == <<log, heard, token, dirty, alarm, run, res, covered,
            dropped, jumped, faults>>
feed == <<log, heard>>
object == <<dirty, alarm>>
history == <<covered, dropped, jumped>>

-----------------------------------------------------------------------------
Resolvers == Requests \cup {Coord}
Positions == 1..MaxChanges
Tokens == (0..MaxChanges) \cup {None}

\* A run: where it is, the token it read, the position its fetch reached, the
\* changes it fetched and the weeks it still has to resolve.
Runs == [at : {"idle", "begin", "fetch", "weeks", "finish", "failed"}, base : Tokens,
         upto : 0..MaxChanges, seen : SUBSET Positions, todo : SUBSET Weeks]
NoRun == [at |-> "idle", base |-> None, upto |-> 0, seen |-> {}, todo |-> {}]

\* A call of runResolve: where it is, its week, the token it read first and
\* the position at which it read the calendar.
Calls == [at : {"idle", "sync", "read", "store", "solve", "done"},
          week : Weeks \cup {None}, sync : Tokens, upto : 0..MaxChanges]
NoCall == [at |-> "idle", week |-> None, sync |-> None, upto |-> 0]
Resolve(w) == [NoCall EXCEPT !.at = IF w \in Past THEN "read" ELSE "sync",
                             !.week = w]

TypeOK ==
    /\ log \in Seq(Weeks \cup {Silent}) /\ Len(log) <= MaxChanges
    /\ heard \subseteq Positions
    /\ token \in Tokens
    /\ dirty \in BOOLEAN /\ alarm \in BOOLEAN
    /\ run \in Runs
    /\ res \in [Resolvers -> Calls]
    /\ covered \subseteq Positions /\ dropped \subseteq Positions
    /\ jumped \subseteq Positions
    /\ faults \in 0..MaxFaults

Init ==
    /\ log = <<>> /\ heard = {}
    /\ token \in {None, 0}
    /\ dirty = FALSE /\ alarm = FALSE
    /\ run = NoRun /\ res = [p \in Resolvers |-> NoCall]
    /\ covered = {} /\ dropped = {} /\ jumped = {}
    /\ faults = 0

Fault(kind) ==
    /\ kind \in FaultKinds
    /\ faults < MaxFaults
    /\ faults' = faults + 1

-----------------------------------------------------------------------------
(* The provider *)

\* An event of week w changes, or one that asks for no replan does.
Change(w) ==
    /\ Len(log) < MaxChanges
    /\ log' = Append(log, w)
    /\ UNCHANGED <<heard, token, object, run, res, history, faults>>

\* notifyChange sets the flag and, when no alarm is set, sets one.  A set alarm
\* is not moved; the alarm is cleared when its handler starts, so a push during
\* a run sets one.
Notified == dirty' = TRUE /\ alarm' = TRUE

\* A push arrives, sooner, later or never: the webhook route finds the owner by
\* the channel (a push of an unknown channel or with another token is refused,
\* and the first push of a channel announces nothing) and notifies its object.
NotifyChange(c) ==
    /\ c \notin heard
    /\ heard' = heard \cup {c}
    /\ Notified
    /\ UNCHANGED <<log, token, run, res, history, faults>>

-----------------------------------------------------------------------------
(* The Durable Object's alarm and the run it starts *)

\* The alarm fires: the flag is cleared BEFORE the run.
Wake ==
    /\ alarm /\ run.at = "idle"
    /\ alarm' = FALSE
    /\ dirty' = FALSE
    /\ run' = [NoRun EXCEPT !.at = "begin"]
    /\ UNCHANGED <<feed, token, res, history, faults>>

\* runWebhookReplan reads the stored token.
ReadToken ==
    /\ run.at = "begin"
    /\ run' = [run EXCEPT !.at = "fetch", !.base = token]
    /\ UNCHANGED <<feed, token, object, res, history, faults>>

WeeksOf(cs) == {log[c] : c \in cs} \ {Silent}

\* The changes after the token, of whatever week.  When none of them asks for
\* a replan the token is stored at once and the run ends.
FetchSince ==
    LET seen == (run.base + 1)..Len(log)
    IN  run' = [NoRun EXCEPT !.at = "weeks", !.upto = Len(log),
                             !.seen = seen, !.todo = WeeksOf(seen)]

FetchChanges ==
    /\ run.at = "fetch"
    /\ run.base # None
    /\ FetchSince
    /\ UNCHANGED <<feed, token, object, res, history, faults>>

\* No token stored, or the provider refuses it (a fault): every event from now
\* on, a fixed number of days.  Changes of the other weeks are passed over.
FetchWindow ==
    /\ run.at = "fetch"
    /\ \/ run.base = None /\ UNCHANGED faults
       \/ run.base # None /\ Fault("refuse")
    /\ LET seen == {c \in 1..Len(log) : log[c] \in Near}
       IN  /\ run' = [NoRun EXCEPT !.at = "weeks", !.upto = Len(log),
                                   !.seen = seen, !.todo = WeeksOf(seen)]
           /\ jumped' = jumped \cup (1..Len(log) \ seen)
    /\ UNCHANGED <<feed, token, object, res, covered, dropped>>

\* The next week of the run.
ResolveWeek(w) ==
    /\ run.at = "weeks" /\ res[Coord].at = "idle"
    /\ w \in run.todo
    /\ run' = [run EXCEPT !.todo = @ \ {w}]
    /\ res' = [res EXCEPT ![Coord] = Resolve(w)]
    /\ UNCHANGED <<feed, token, object, history, faults>>

\* Mutant of Persist: the run's own token is not put back after the resolves.
PersistSkipped ==
    /\ run.at = "weeks" /\ res[Coord].at = "idle"
    /\ run.todo = {}
    /\ run' = [NoRun EXCEPT !.at = "finish"]
    /\ UNCHANGED <<feed, token, object, res, history, faults>>

\* After the last week, the token of the run's own fetch replaces whatever
\* the resolves stored.
Persist ==
    /\ run.at = "weeks" /\ res[Coord].at = "idle"
    /\ run.todo = {}
    /\ token' = run.upto
    /\ run' = [NoRun EXCEPT !.at = "finish"]
    /\ UNCHANGED <<feed, object, res, history, faults>>

\* The handler's finally, also after a throw: a flag set during the run arms
\* the next cycle.  Without one, a run that threw is not tried again.
Finish ==
    /\ run.at \in {"finish", "failed"}
    /\ alarm' = (alarm \/ dirty)
    /\ run' = NoRun
    /\ dropped' = IF run.at = "failed" /\ ~alarm' THEN dropped \cup heard
                  ELSE dropped
    /\ UNCHANGED <<feed, token, dirty, res, covered, jumped, faults>>

\* A run cut short leaves the token where its resolves put it, past changes
\* nobody has resolved.
CutShort(kind) ==
    /\ Fault(kind)
    /\ jumped' = jumped \cup (IF token = None THEN {} ELSE 1..token)
    /\ res' = [res EXCEPT ![Coord] = NoCall]

\* The run throws (a provider, the solver, the mail): alarm() swallows it, so
\* the runtime does not retry.
RunThrows ==
    /\ run.at \in {"begin", "fetch", "weeks"}
    /\ CutShort("throw")
    /\ run' = [NoRun EXCEPT !.at = "failed"]
    /\ UNCHANGED <<feed, token, object, covered, dropped>>

\* The object dies during a run: the runtime fires the alarm again.
Crash ==
    /\ run.at # "idle"
    /\ CutShort("crash")
    /\ alarm' = TRUE
    /\ run' = NoRun
    /\ UNCHANGED <<feed, token, dirty, covered, dropped>>

\* Offboarding clears the flag and the alarm.
Reset ==
    /\ alarm \/ dirty
    /\ alarm' = FALSE
    /\ dirty' = FALSE
    /\ dropped' = dropped \cup heard
    /\ UNCHANGED <<feed, token, run, res, covered, jumped, faults>>

-----------------------------------------------------------------------------
(* runResolve, for the run's weeks and for the direct resolves *)

\* POST /resolve or the Monday cron asks for week w.
Request(q, w) ==
    /\ res[q].at = "idle"
    /\ res' = [res EXCEPT ![q] = Resolve(w)]
    /\ UNCHANGED <<feed, token, object, run, history, faults>>

\* It reads the stored token,
ResolveSync(p) ==
    /\ res[p].at = "sync"
    /\ res' = [res EXCEPT ![p].at = "read", ![p].sync = token]
    /\ UNCHANGED <<feed, token, object, run, history, faults>>

\* Mutant of ResolveRead: a read whose token has not moved is taken for no change.
ResolveReadShortcut(p) ==
    /\ res[p].at = "read"
    /\ res' = [res EXCEPT ![p] =
                 IF @.sync = Len(log) THEN NoCall
                 ELSE [@ EXCEPT !.upto = Len(log), !.sync = None,
                                !.at = IF res[p].week \in Past THEN "solve"
                                       ELSE "store"]]
    /\ UNCHANGED <<feed, token, object, run, history, faults>>

\* reads the week's events, with the token of that read (an elapsed week is
\* only scanned for repaints: its token is not kept),
ResolveRead(p) ==
    /\ res[p].at = "read"
    /\ res' = [res EXCEPT ![p].upto = Len(log), ![p].sync = None,
                          ![p].at = IF \/ res[p].week \in Past
                                       \/ res[p].sync = Len(log)
                                    THEN "solve" ELSE "store"]
    /\ UNCHANGED <<feed, token, object, run, history, faults>>

\* The run has fetched change c, or will, or stores a token before it.
Held(c) ==
    \/ run.at = "fetch" /\ (run.base = None \/ c > run.base)
    \/ run.at = "weeks" /\ (c \in run.seen \/ c > run.upto)

\* The changes the token passes when it moves to n.
Passed(n) == {c \in 1..n : token = None \/ c > token}

\* stores that token when it is not the one it had read,
ResolveStore(p) ==
    /\ res[p].at = "store"
    /\ token' = res[p].upto
    /\ res' = [res EXCEPT ![p].at = "solve"]
    /\ jumped' = IF p = Coord THEN jumped ELSE jumped \cup {c \in Passed(res[p].upto) : ~Held(c)}
    /\ UNCHANGED <<feed, object, run, covered, dropped, faults>>

\* and answers: a plan, unsatisfiable, or the solver's error.
Solved(p) ==
    /\ res[p].at = "solve"
    /\ covered' = covered \cup {c \in 1..res[p].upto : log[c] = res[p].week}
    /\ res' = [res EXCEPT ![p] = IF p = Coord THEN NoCall
                                 ELSE [NoCall EXCEPT !.at = "done"]]
    /\ UNCHANGED <<feed, token, object, run, dropped, jumped, faults>>

\* A direct resolve throws: its caller is told.
RequestThrows(q) ==
    /\ res[q].at \notin {"idle", "done"}
    /\ Fault("throw")
    /\ res' = [res EXCEPT ![q] = [NoCall EXCEPT !.at = "done"]]
    /\ UNCHANGED <<feed, token, object, run, history>>

RunStep ==
    \/ Wake \/ ReadToken \/ FetchChanges \/ FetchWindow \/ Persist \/ Finish
    \/ \E w \in Weeks : ResolveWeek(w)

ResolveStep(p) ==
    ResolveSync(p) \/ ResolveRead(p) \/ ResolveStore(p) \/ Solved(p)

Next ==
    \/ \E w \in Weeks \cup {Silent} : Change(w)
    \/ \E c \in 1..Len(log) : NotifyChange(c)
    \/ RunStep \/ RunThrows \/ Crash \/ Reset
    \/ \E q \in Requests, w \in Weeks : Request(q, w)
    \/ \E q \in Requests : RequestThrows(q)
    \/ \E p \in Resolvers : ResolveStep(p)

Spec == Init /\ [][Next]_rcvars

\* The runtime fires a set alarm, and a run's awaits return: the object's own
\* steps are not postponed for ever.  Direct resolves and pushes may be.
FairSpec == Spec /\ WF_rcvars(RunStep) /\ WF_rcvars(ResolveStep(Coord))

-----------------------------------------------------------------------------
(* Properties *)

\* The object has nothing to do.
AtRest == run.at = "idle" /\ ~alarm

Wanted(cs) == {c \in cs : log[c] # Silent}

\* Once the object is at rest, every change a push announced has been answered
\* for by a resolve of its week that read the calendar after it, unless a run
\* that failed gave it up or the token was moved past it by a resolve of
\* another week: the debounce, the flag and the token restored after the
\* resolves lose nothing between them, in whatever order pushes, alarms and
\* direct resolves come.
NoChangeForgotten ==
    AtRest => Wanted(heard) \subseteq covered \cup dropped \cup jumped

\* Every announced change is eventually answered for, or given up: no stream of
\* pushes, direct resolves or failures keeps the object from its work for
\* ever.
EveryChangeAnswered ==
    \A c \in Positions :
        c \in heard /\ log[c] # Silent
            ~> c \in covered \cup dropped \cup jumped
=============================================================================
