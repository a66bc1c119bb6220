---------------------- MODULE ResolveCoordinatorProofs ----------------------
(***************************************************************************)
(* Safety of ResolveCoordinator for any number of weeks, changes, direct   *)
(* resolves and faults: once the object is at rest, every announced change *)
(* was answered for, or is on record as given up or passed by the token.   *)
(***************************************************************************)
EXTENDS ResolveCoordinator, TLAPS

\* Positions that were read are positions of the log.
Bounded ==
    /\ heard \subseteq 1..Len(log)
    /\ token # None => token <= Len(log)
    /\ run.base # None => run.base <= Len(log)
    /\ run.upto <= Len(log)
    /\ run.seen \subseteq 1..run.upto
    /\ \A p \in Resolvers : res[p].upto <= Len(log)

\* The object's resolver works for a run that is at its weeks, and reads the
\* calendar no earlier than the run did.
CoordWorks ==
    /\ res[Coord].at # "done"
    /\ res[Coord].at # "idle" => run.at = "weeks" /\ res[Coord].week \in Weeks
    /\ res[Coord].at \in {"store", "solve"} => res[Coord].upto >= run.upto

\* The changes that still have to be resolved.
Open == {c \in 1..Len(log) : log[c] # Silent} \ (covered \cup dropped \cup jumped)

\* An open change is ahead of the token, or in the hands of the run: ahead of
\* the token it has read, ahead of the position it will store, or of a week it
\* has still to resolve or is resolving.
Kept ==
    \A c \in Open :
        /\ run.at \in {"idle", "begin", "finish", "failed"} => token = None \/ c > token
        /\ run.at = "fetch" => run.base = None \/ c > run.base
        /\ run.at = "weeks" =>
             \/ c > run.upto
             \/ c \in run.seen /\ log[c] \in run.todo
             \/ c \in run.seen /\ res[Coord].at # "idle" /\ res[Coord].week = log[c]

\* An open change that was announced will be fetched or has been: by the run
\* under way, or by the one an armed alarm will start.
Awaited ==
    \A c \in heard \cap Open :
        \/ alarm
        \/ run.at \in {"begin", "fetch", "failed"}
        \/ run.at = "weeks" /\ c \in run.seen

CoordinatorInv == TypeOK /\ Bounded /\ CoordWorks /\ Kept /\ Awaited

-----------------------------------------------------------------------------
\* The records the actions start from.
LEMMA Records ==
    /\ NoRun \in Runs
    /\ NoCall \in Calls
    /\ \A w \in Weeks : Resolve(w) \in Calls /\ Resolve(w).week = w
<1>1. 0 \in 0..MaxChanges
  BY BoundsAssumption
<1>2. NoRun \in Runs /\ NoCall \in Calls
  BY <1>1 DEF NoRun, Runs, NoCall, Calls, Tokens
<1> QED
  BY <1>2 DEF Resolve, Calls, NoCall

\* A new change is past every position read.
LEMMA ChangeStep ==
    ASSUME CoordinatorInv, NEW w \in Weeks \cup {Silent}, Change(w)
    PROVE  CoordinatorInv'
<1> USE NamesAssumption, BoundsAssumption DEF CoordinatorInv, Change, feed, object, history
<1>1. TypeOK'
  BY DEF TypeOK
<1>2. Bounded'
  BY DEF TypeOK, Tokens, Runs, Calls, Bounded
<1>3. CoordWorks'
  BY DEF CoordWorks
<1>4. Kept'
  BY DEF TypeOK, Tokens, Runs, Bounded, Kept, Open
<1>5. Awaited'
  BY DEF Bounded, Awaited, Open
<1> QED
  BY <1>1, <1>2, <1>3, <1>4, <1>5

\* A push arms the alarm.
LEMMA NotifyChangeStep ==
    ASSUME CoordinatorInv, NEW c \in 1..Len(log), NotifyChange(c)
    PROVE  CoordinatorInv'
<1> USE NamesAssumption, BoundsAssumption DEF CoordinatorInv, NotifyChange, Notified, feed, object, history
<1>1. TypeOK'
  BY DEF TypeOK, Positions
<1>2. Bounded'
  BY DEF Bounded
<1>3. CoordWorks'
  BY DEF CoordWorks
<1>4. Kept'
  BY DEF Kept, Open
<1>5. Awaited'
  BY DEF Awaited, Open
<1> QED
  BY <1>1, <1>2, <1>3, <1>4, <1>5

\* The run that starts has still to read the token.
LEMMA WakeStep ==
    ASSUME CoordinatorInv, Wake
    PROVE  CoordinatorInv'
<1> USE NamesAssumption, BoundsAssumption DEF CoordinatorInv, Wake, feed, object, history
<1>1. TypeOK'
  <2>1. run' \in Runs
    BY Records DEF Runs
  <2> QED
    BY <2>1 DEF TypeOK
<1>2. Bounded'
  BY DEF NoRun, Bounded
<1>3. CoordWorks'
  BY DEF CoordWorks
<1>4. Kept'
  BY DEF Kept, Open
<1>5. Awaited'
  BY DEF Awaited, Open
<1> QED
  BY <1>1, <1>2, <1>3, <1>4, <1>5

\* Open changes are ahead of the token it reads.
LEMMA ReadTokenStep ==
    ASSUME CoordinatorInv, ReadToken
    PROVE  CoordinatorInv'
<1> USE NamesAssumption, BoundsAssumption DEF CoordinatorInv, ReadToken, feed, object, history
<1>1. TypeOK'
  BY DEF TypeOK, Runs
<1>2. Bounded'
  BY DEF Bounded
<1>3. CoordWorks'
  BY DEF CoordWorks
<1>4. Kept'
  BY DEF Kept, Open
<1>5. Awaited'
  BY DEF Awaited, Open
<1> QED
  BY <1>1, <1>2, <1>3, <1>4, <1>5

\* All open changes are fetched, and their weeks are to be resolved.
LEMMA FetchChangesStep ==
    ASSUME CoordinatorInv, FetchChanges
    PROVE  CoordinatorInv'
<1> USE NamesAssumption, BoundsAssumption DEF CoordinatorInv, FetchChanges, FetchSince, WeeksOf, feed, object, history
<1>1. TypeOK'
  <2> DEFINE seen == (run.base + 1)..Len(log)
  <2>1. run.base \in 0..MaxChanges /\ Len(log) \in 0..MaxChanges
    BY DEF TypeOK, Runs, Tokens
  <2>2. seen \in SUBSET Positions /\ WeeksOf(seen) \in SUBSET Weeks
    BY <2>1 DEF TypeOK, Positions
  <2>3. run' \in Runs
    BY <2>1, <2>2, Records DEF Runs
  <2> QED
    BY <2>3 DEF TypeOK
<1>2. Bounded'
  BY DEF TypeOK, Tokens, Runs, NoRun, Bounded
<1>3. CoordWorks'
  BY DEF CoordWorks
<1>4. Kept'
  BY DEF TypeOK, Tokens, Runs, Kept, Open
<1>5. Awaited'
  BY DEF TypeOK, Tokens, Runs, Kept, Awaited, Open
<1> QED
  BY <1>1, <1>2, <1>3, <1>4, <1>5

\* Those the window misses are on record as passed.
LEMMA FetchWindowStep ==
    ASSUME CoordinatorInv, FetchWindow
    PROVE  CoordinatorInv'
<1> USE NamesAssumption, BoundsAssumption DEF CoordinatorInv, FetchWindow, Fault, WeeksOf, feed, object, history
<1>1. TypeOK'
  <2> DEFINE seen == {c \in 1..Len(log) : log[c] \in Near}
  <2>1. Len(log) \in 0..MaxChanges
    BY DEF TypeOK
  <2>2. seen \in SUBSET Positions /\ WeeksOf(seen) \in SUBSET Weeks
    BY <2>1 DEF TypeOK, Positions
  <2>3. run' = [NoRun EXCEPT !.at = "weeks", !.upto = Len(log),
                             !.seen = seen, !.todo = WeeksOf(seen)]
    OBVIOUS
  <2> HIDE DEF seen, WeeksOf
  <2>4. run' \in Runs
    BY <2>1, <2>2, <2>3, Records DEF Runs
  <2>5. jumped' \subseteq Positions /\ faults' \in 0..MaxFaults
    BY <2>1 DEF TypeOK, Positions
  <2> QED
    BY <2>4, <2>5 DEF TypeOK
<1>2. Bounded'
  BY DEF NoRun, Bounded
<1>3. CoordWorks'
  BY DEF CoordWorks
<1>4. Kept'
  BY DEF Kept, Open
<1>5. Awaited'
  BY DEF Awaited, Open
<1> QED
  BY <1>1, <1>2, <1>3, <1>4, <1>5

\* A week moves from the run to its resolver.
LEMMA ResolveWeekStep ==
    ASSUME CoordinatorInv, NEW w \in Weeks, ResolveWeek(w)
    PROVE  CoordinatorInv'
<1> USE NamesAssumption, BoundsAssumption DEF CoordinatorInv, ResolveWeek, Resolve, feed, object, history
<1>1. TypeOK'
  <2>1. run' \in Runs
    BY DEF TypeOK, Runs
  <2>2. res' = [res EXCEPT ![Coord] = Resolve(w)]
    OBVIOUS
  <2> HIDE DEF Resolve
  <2>3. res' \in [Resolvers -> Calls]
    BY <2>2, Records DEF TypeOK, Resolvers
  <2> QED
    BY <2>1, <2>3 DEF TypeOK
<1>2. Bounded'
  BY DEF NoCall, Bounded
<1>3. CoordWorks'
  BY DEF CoordWorks
<1>4. Kept'
  BY DEF TypeOK, Resolvers, Kept, Open
<1>5. Awaited'
  BY DEF Awaited, Open
<1> QED
  BY <1>1, <1>2, <1>3, <1>4, <1>5

\* With no week left, what is open is past the position the run stores.
LEMMA PersistStep ==
    ASSUME CoordinatorInv, Persist
    PROVE  CoordinatorInv'
<1> USE NamesAssumption, BoundsAssumption DEF CoordinatorInv, Persist, feed, object, history
<1>1. TypeOK'
  BY DEF TypeOK, Tokens, Runs, NoRun, Resolvers
<1>2. Bounded'
  BY DEF NoRun, Bounded
<1>3. CoordWorks'
  BY DEF CoordWorks
<1>4. Kept'
  BY DEF Kept, Open
<1>5. Awaited'
  BY DEF TypeOK, Runs, Bounded, Kept, Awaited, Open
<1> QED
  BY <1>1, <1>2, <1>3, <1>4, <1>5

\* A push during the run has armed the alarm; a failed run gives up the rest.
LEMMA FinishStep ==
    ASSUME CoordinatorInv, Finish
    PROVE  CoordinatorInv'
<1> USE NamesAssumption, BoundsAssumption DEF CoordinatorInv, Finish, feed, object, history
<1>1. TypeOK'
  BY DEF TypeOK, Tokens, Runs, NoRun
<1>2. Bounded'
  BY DEF NoRun, Bounded
<1>3. CoordWorks'
  BY DEF CoordWorks
<1>4. Kept'
  BY DEF NoRun, Kept, Open
<1>5. Awaited'
  BY DEF Awaited, Open
<1> QED
  BY <1>1, <1>2, <1>3, <1>4, <1>5

\* What the token has passed by then is on record.
LEMMA RunThrowsStep ==
    ASSUME CoordinatorInv, RunThrows
    PROVE  CoordinatorInv'
<1> USE NamesAssumption, BoundsAssumption DEF CoordinatorInv, RunThrows, CutShort, Fault, feed, object, history
<1>1. TypeOK'
  <2>1. run' \in Runs
    BY Records DEF Runs
  <2>2. res' \in [Resolvers -> Calls]
    BY Records DEF TypeOK
  <2>3. jumped' \subseteq Positions /\ faults' \in 0..MaxFaults
    BY DEF TypeOK, Positions, Tokens
  <2> QED
    BY <2>1, <2>2, <2>3 DEF TypeOK
<1>2. Bounded'
  BY DEF NoRun, NoCall, Bounded
<1>3. CoordWorks'
  BY DEF TypeOK, NoCall, Resolvers, CoordWorks
<1>4. Kept'
  BY DEF TypeOK, Tokens, Kept, Open
<1>5. Awaited'
  BY DEF Awaited, Open
<1> QED
  BY <1>1, <1>2, <1>3, <1>4, <1>5

\* The same, and the alarm fires again.
LEMMA CrashStep ==
    ASSUME CoordinatorInv, Crash
    PROVE  CoordinatorInv'
<1> USE NamesAssumption, BoundsAssumption DEF CoordinatorInv, Crash, CutShort, Fault, feed, object, history
<1>1. TypeOK'
  BY DEF TypeOK, Positions, Tokens, Runs, NoRun, Calls, NoCall, Resolvers
<1>2. Bounded'
  BY DEF NoRun, NoCall, Bounded
<1>3. CoordWorks'
  BY DEF TypeOK, NoCall, Resolvers, CoordWorks
<1>4. Kept'
  BY DEF TypeOK, Tokens, NoRun, Kept, Open
<1>5. Awaited'
  BY DEF Awaited, Open
<1> QED
  BY <1>1, <1>2, <1>3, <1>4, <1>5

\* Everything announced is given up.
LEMMA ResetStep ==
    ASSUME CoordinatorInv, Reset
    PROVE  CoordinatorInv'
<1> USE NamesAssumption, BoundsAssumption DEF CoordinatorInv, Reset, feed, object, history
<1>1. TypeOK'
  BY DEF TypeOK
<1>2. Bounded'
  BY DEF Bounded
<1>3. CoordWorks'
  BY DEF CoordWorks
<1>4. Kept'
  BY DEF Kept, Open
<1>5. Awaited'
  BY DEF Awaited, Open
<1> QED
  BY <1>1, <1>2, <1>3, <1>4, <1>5

\* A direct resolve touches nothing the run holds.
LEMMA RequestStep ==
    ASSUME CoordinatorInv, NEW q \in Requests, NEW w \in Weeks, Request(q, w)
    PROVE  CoordinatorInv'
<1> USE NamesAssumption, BoundsAssumption DEF CoordinatorInv, Request, Resolve, feed, object, history
<1>1. TypeOK'
  <2>1. res' = [res EXCEPT ![q] = Resolve(w)]
    OBVIOUS
  <2> HIDE DEF Resolve
  <2>2. res' \in [Resolvers -> Calls]
    BY <2>1, Records DEF TypeOK, Resolvers
  <2> QED
    BY <2>2 DEF TypeOK
<1>2. Bounded'
  BY DEF NoCall, Bounded
<1>3. CoordWorks'
  BY DEF CoordWorks
<1>4. Kept'
  BY DEF Kept, Open
<1>5. Awaited'
  BY DEF Awaited, Open
<1> QED
  BY <1>1, <1>2, <1>3, <1>4, <1>5

\* Nor does its end.
LEMMA RequestThrowsStep ==
    ASSUME CoordinatorInv, NEW q \in Requests, RequestThrows(q)
    PROVE  CoordinatorInv'
<1> USE NamesAssumption, BoundsAssumption DEF CoordinatorInv, RequestThrows, Fault, feed, object, history
<1>1. TypeOK'
  BY DEF TypeOK, Tokens, Calls, NoCall, Resolvers
<1>2. Bounded'
  BY DEF NoCall, Bounded
<1>3. CoordWorks'
  BY DEF CoordWorks
<1>4. Kept'
  BY DEF Kept, Open
<1>5. Awaited'
  BY DEF Awaited, Open
<1> QED
  BY <1>1, <1>2, <1>3, <1>4, <1>5

\* A resolver's reading of the token moves nothing.
LEMMA ResolveSyncStep ==
    ASSUME CoordinatorInv, NEW p \in Resolvers, ResolveSync(p)
    PROVE  CoordinatorInv'
<1> USE NamesAssumption, BoundsAssumption DEF CoordinatorInv, ResolveSync, feed, object, history
<1>1. TypeOK'
  <2>1. [res[p] EXCEPT !.at = "read", !.sync = token] \in Calls
    BY DEF TypeOK, Calls
  <2>2. res' \in [Resolvers -> Calls]
    BY <2>1 DEF TypeOK
  <2> QED
    BY <2>2 DEF TypeOK
<1>2. Bounded'
  BY DEF TypeOK, Bounded
<1>3. CoordWorks'
  BY DEF TypeOK, Resolvers, CoordWorks
<1>4. Kept'
  BY DEF TypeOK, Resolvers, Kept, Open
<1>5. Awaited'
  BY DEF Awaited, Open
<1> QED
  BY <1>1, <1>2, <1>3, <1>4, <1>5

\* A resolver reads the calendar after the run did.
LEMMA ResolveReadStep ==
    ASSUME CoordinatorInv, NEW p \in Resolvers, ResolveRead(p)
    PROVE  CoordinatorInv'
<1> USE NamesAssumption, BoundsAssumption DEF CoordinatorInv, ResolveRead, feed, object, history
<1>1. TypeOK'
  BY DEF TypeOK, Positions, Calls
<1>2. Bounded'
  BY DEF TypeOK, Bounded
<1>3. CoordWorks'
  BY DEF TypeOK, Calls, CoordWorks
<1>4. Kept'
  BY DEF TypeOK, Calls, Kept, Open
<1>5. Awaited'
  BY DEF Awaited, Open
<1> QED
  BY <1>1, <1>2, <1>3, <1>4, <1>5

\* What a direct resolve's token passes is held by the run or on record.
LEMMA ResolveStoreStep ==
    ASSUME CoordinatorInv, NEW p \in Resolvers, ResolveStore(p)
    PROVE  CoordinatorInv'
<1> USE NamesAssumption, BoundsAssumption DEF CoordinatorInv, ResolveStore, Passed, Held, feed, object, history
<1>1. TypeOK'
  BY DEF TypeOK, Positions, Tokens, Calls, Resolvers
<1>2. Bounded'
  BY DEF Bounded
<1>3. CoordWorks'
  BY DEF CoordWorks
<1>4. Kept'
  BY DEF TypeOK, Calls, CoordWorks, Kept, Open
<1>5. Awaited'
  BY DEF Awaited, Open
<1> QED
  BY <1>1, <1>2, <1>3, <1>4, <1>5

\* A solved week covers all changes its resolver has read.
LEMMA SolvedStep ==
    ASSUME CoordinatorInv, NEW p \in Resolvers, Solved(p)
    PROVE  CoordinatorInv'
<1> USE NamesAssumption, BoundsAssumption DEF CoordinatorInv, Solved, feed, object, history
<1>1. TypeOK'
  BY DEF TypeOK, Positions, Tokens, Calls, NoCall
<1>2. Bounded'
  BY DEF NoCall, Bounded
<1>3. CoordWorks'
  BY DEF NoCall, CoordWorks
<1>4. Kept'
  BY DEF TypeOK, Runs, Calls, CoordWorks, Kept, Open
<1>5. Awaited'
  BY DEF Awaited, Open
<1> QED
  BY <1>1, <1>2, <1>3, <1>4, <1>5

-----------------------------------------------------------------------------
\* CoordinatorInv is inductive.
LEMMA CoordinatorInvariant == Spec => []CoordinatorInv
<1>1. Init => CoordinatorInv
  <2> SUFFICES ASSUME Init PROVE CoordinatorInv
    OBVIOUS
  <2>1. /\ NoRun.at = "idle" /\ NoRun.base = None /\ NoRun.upto = 0 /\ NoRun.seen = {}
        /\ NoCall.at = "idle" /\ NoCall.upto = 0
    BY DEF NoRun, NoCall
  <2>2. TypeOK
    <3>1. token \in Tokens /\ faults \in 0..MaxFaults
      BY BoundsAssumption DEF Init, Tokens
    <3>2. log \in Seq(Weeks \cup {Silent}) /\ Len(log) <= MaxChanges
      BY BoundsAssumption DEF Init
    <3>3. run \in Runs /\ res \in [Resolvers -> Calls]
      BY Records DEF Init
    <3> QED
      BY <3>1, <3>2, <3>3 DEF Init, TypeOK
  <2>3. Bounded /\ CoordWorks
    BY <2>1, NamesAssumption DEF Init, Bounded, CoordWorks, Resolvers
  <2>4. Open = {} /\ heard = {}
    BY DEF Init, Open
  <2> QED
    BY <2>2, <2>3, <2>4 DEF CoordinatorInv, Kept, Awaited
<1>2. CoordinatorInv /\ UNCHANGED rcvars => CoordinatorInv'
  BY DEF CoordinatorInv, rcvars, TypeOK, Bounded, CoordWorks, Kept, Awaited, Open
<1>3. CoordinatorInv /\ Next => CoordinatorInv'
  BY ChangeStep, NotifyChangeStep, WakeStep, ReadTokenStep, FetchChangesStep,
     FetchWindowStep, ResolveWeekStep, PersistStep, FinishStep, RunThrowsStep, CrashStep,
     ResetStep, RequestStep, RequestThrowsStep, ResolveSyncStep, ResolveReadStep,
     ResolveStoreStep, SolvedStep
     DEF Next, RunStep, ResolveStep
<1> QED
  BY <1>1, <1>2, <1>3, PTL DEF Spec

\* The object, its run, the resolves and the token keep their types.
THEOREM CoordinatorTyped == Spec => []TypeOK
BY CoordinatorInvariant, PTL DEF CoordinatorInv

\* NoChangeForgotten: at rest there is neither an alarm nor a run to await, so
\* no announced change is open.
THEOREM NothingIsForgotten == Spec => []NoChangeForgotten
<1>1. CoordinatorInv => NoChangeForgotten
  BY DEF CoordinatorInv, Bounded, Awaited, Open, NoChangeForgotten, AtRest, Wanted
<1> QED
  BY <1>1, CoordinatorInvariant, PTL
=============================================================================
