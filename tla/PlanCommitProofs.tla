---------------------------- MODULE PlanCommitProofs ----------------------------
(***************************************************************************)
(* ProposedPlans, for every set of plans, weeks, zones and requests: its   *)
(* type, one pending plan per week, claims and acceptance (who may mark a  *)
(* plan, who is told so), and that the table implements PlanBook.          *)
(*                                                                         *)
(* A commit with its calendar side is a commit of ProposedPlans: what is   *)
(* proved of the table holds of PlanCommit too.                            *)
(*                                                                         *)
(* Of the calendar: what an attempt has read stays true of it, call after  *)
(* call, until somebody else writes (CommitInv).  So an undisturbed        *)
(* attempt creates no second event for a chunk, loses none, and has        *)
(* applied its plan when it marks it.                                      *)
(***************************************************************************)
EXTENDS PlanCommit, TLAPS, WellFoundedInduction

-----------------------------------------------------------------------------
(* The table.                                                              *)

\* The table's initial state is well typed.
LEMMA TypeInit == Init => TypeOK
BY WeekOfType, NoneIsNew
   DEF Init, TypeOK, Row, NoRow, ResolveRec, CommitRec, PatchRec,
       IdleResolve, IdleCommit, IdlePatch

\* Deleting pending rows leaves a well-typed table.
LEMMA WithoutType ==
  ASSUME plan \in [Plan -> Row], NEW S
  PROVE  Without(S) \in [Plan -> Row]
BY DEF Without, Row, NoRow, Pending

\* Every step keeps the rows and the requests well typed.
LEMMA TypeStep == ASSUME TypeOK, [Next]_vars PROVE TypeOK'
<1>1. CASE UNCHANGED vars
  BY <1>1 DEF TypeOK, vars
<1>2. CASE ResolveNext
  <2>1. ASSUME NEW r \in Resolve, NEW w \in Week, ResolveStart(r, w) PROVE TypeOK'
    BY <2>1 DEF TypeOK, ResolveStart, ResolveRec
  <2>2. ASSUME NEW r \in Resolve, ResolveGivesUp(r) PROVE TypeOK'
    BY <2>2 DEF TypeOK, ResolveGivesUp, ResolveRec
  <2>3. ASSUME NEW r \in Resolve, NEW p \in Plan, ResolveInsert(r, p) PROVE TypeOK'
    <3>1. resolve[r].tz \in Zone
      BY <2>3 DEF TypeOK, ResolveInsert
    <3> plan[p] \in Row /\ (plan[p].status = "committed" => plan[p].tz \in Zone)
      BY DEF TypeOK, ResolveRec
    <3>2. Upserted(p, r) \in Row /\ Upserted(p, r).tz \in Zone
      <4>1. Upserted(p, r) \in Row
        BY <3>1 DEF Upserted, Row
      <4>2. Upserted(p, r).tz \in Zone
        BY <3>1 DEF Upserted, Row
      <4>3. QED  BY <4>1, <4>2
    <3>3. plan' \in [Plan -> Row] /\ \A q \in Plan : plan'[q].status # "absent" => plan'[q].tz \in Zone
      BY <2>3, <3>2 DEF TypeOK, ResolveInsert
    <3>4. resolve' \in [Resolve -> ResolveRec]
            /\ \A s \in Resolve : resolve'[s].stage # "idle" => resolve'[s].tz \in Zone
      BY <2>3, <3>1 DEF TypeOK, ResolveInsert, ResolveRec
    <3>5. QED
      BY <2>3, <3>3, <3>4 DEF TypeOK, ResolveInsert
  <2>4. ASSUME NEW r \in Resolve, SupersedeSelect(r) PROVE TypeOK'
    <3>1. OthersOfWeek(r) \in SUBSET Plan
      BY DEF OthersOfWeek
    <3>2. QED
      <4> DEFINE X == IF OthersOfWeek(r) = {} THEN "superseded" ELSE "selected"
                 rec == [resolve[r] EXCEPT !.doomed = OthersOfWeek(r), !.stage = X]
      <4>1. resolve[r] \in ResolveRec /\ X \in {"superseded", "selected"}
        BY DEF TypeOK
      <4> HIDE DEF X
      <4>2. rec \in ResolveRec /\ rec.tz = resolve[r].tz
        BY <3>1, <4>1 DEF ResolveRec
      <4>3. resolve' = [resolve EXCEPT ![r] = rec] /\ resolve[r].tz \in Zone
        BY <2>4 DEF SupersedeSelect, TypeOK, X
      <4> HIDE DEF rec
      <4>4. QED
        BY <2>4, <4>2, <4>3 DEF TypeOK, SupersedeSelect
  <2>5. ASSUME NEW r \in Resolve, SupersedeDelete(r) PROVE TypeOK'
    BY <2>5, WithoutType DEF TypeOK, SupersedeDelete, Without, NoRow, ResolveRec
  <2>6. ASSUME NEW r \in Resolve, ResolveReturn(r) PROVE TypeOK'
    BY <2>6 DEF TypeOK, ResolveReturn, ResolveRec
  <2>7. ASSUME NEW r \in Resolve, ResolveNoDiff(r) PROVE TypeOK'
    BY <2>7, WithoutType DEF TypeOK, ResolveNoDiff, Without, NoRow, ResolveRec
  <2>8. QED
    BY <1>2, <2>1, <2>2, <2>3, <2>4, <2>5, <2>6, <2>7 DEF ResolveNext, ResolveProceeds
<1>3. CASE CommitNext
  <2>1. ASSUME NEW c \in Commit, NEW p \in Plan, CommitBegin(c, p) PROVE TypeOK'
    BY <2>1 DEF TypeOK, CommitBegin, CommitRec
  <2>2. ASSUME NEW c \in Commit, CommitCheck(c) PROVE TypeOK'
    <3>1. commit[c].plan \in Plan /\ plan[commit[c].plan] \in Row
      BY <2>2 DEF TypeOK, CommitCheck
    <3>2. Refusal(c) \in {None, "not_found", "already", "expired"}
      BY <3>1 DEF Refusal, Row
    <3> DEFINE X == IF Refusal(c) = None THEN "checked" ELSE "done"
               rec == [commit[c] EXCEPT !.answer = Refusal(c), !.stage = X]
    <3>3. commit[c] \in CommitRec /\ X \in {"checked", "done"}
      BY DEF TypeOK
    <3>4. commit' = [commit EXCEPT ![c] = rec]
      BY <2>2 DEF CommitCheck
    <3> HIDE DEF X
    <3>5. rec \in CommitRec /\ rec.plan = commit[c].plan
      BY <3>2, <3>3 DEF CommitRec, Answer
    <3> HIDE DEF rec
    <3>6. QED
      BY <2>2, <3>1, <3>4, <3>5 DEF TypeOK, CommitCheck
  <2>3. ASSUME NEW c \in Commit, CommitClaim(c) PROVE TypeOK'
    <3>1. plan' \in [Plan -> Row] /\ \A q \in Plan : plan'[q].status # "absent" => plan'[q].tz \in Zone
      <4> DEFINE m == commit[c].plan
                 row == [plan[m] EXCEPT !.claim = c, !.lapsed = FALSE]
      <4>1. m \in Plan /\ plan[m] \in Row /\ plan[m].status = "pending"
        BY <2>3 DEF TypeOK, CommitClaim, Claimable, Pending
      <4>2. row \in Row /\ row.tz = plan[m].tz
        BY <4>1 DEF Row
      <4>3. QED
        BY <2>3, <4>1, <4>2 DEF TypeOK, CommitClaim
    <3>2. commit' \in [Commit -> CommitRec]
            /\ \A d \in Commit : commit'[d].stage # "idle" => commit'[d].plan \in Plan
      BY <2>3 DEF TypeOK, CommitClaim, CommitRec
    <3>3. QED
      BY <2>3, <3>1, <3>2 DEF TypeOK, CommitClaim
  <2>4. ASSUME NEW c \in Commit, CommitClaimMisses(c) PROVE TypeOK'
    BY <2>4 DEF TypeOK, CommitClaimMisses, CommitRec
  <2>5. ASSUME NEW c \in Commit, CommitRefuse(c) PROVE TypeOK'
    <3>1. commit[c].plan \in Plan /\ plan[commit[c].plan] \in Row
      BY <2>5 DEF TypeOK, CommitRefuse
    <3>2. SecondLook(c) \in {"not_found", "already", "in_progress"}
      BY <3>1 DEF SecondLook, Row
    <3> DEFINE X == IF commit[c].stage = "unclaimed" THEN "done" ELSE "releasing"
               rec == [commit[c] EXCEPT !.answer = SecondLook(c), !.stage = X]
    <3>3. commit[c] \in CommitRec /\ X \in {"done", "releasing"}
      BY DEF TypeOK
    <3>4. commit' = [commit EXCEPT ![c] = rec]
      BY <2>5 DEF CommitRefuse
    <3> HIDE DEF X
    <3>5. rec \in CommitRec /\ rec.plan = commit[c].plan
      BY <3>2, <3>3 DEF CommitRec, Answer
    <3> HIDE DEF rec
    <3>6. QED
      BY <2>5, <3>1, <3>4, <3>5 DEF TypeOK, CommitRefuse
  <2>6. ASSUME NEW c \in Commit, CommitThrow(c) PROVE TypeOK'
    BY <2>6 DEF TypeOK, CommitThrow, CommitRec, Answer
  <2>7. ASSUME NEW c \in Commit, CommitRelease(c) PROVE TypeOK'
    <3>1. plan' \in [Plan -> Row] /\ \A q \in Plan : plan'[q].status # "absent" => plan'[q].tz \in Zone
      <4> DEFINE m == commit[c].plan
                 row == [plan[m] EXCEPT !.claim = None, !.lapsed = FALSE]
      <4>1. m \in Plan /\ plan[m] \in Row
        BY <2>7 DEF TypeOK, CommitRelease
      <4>2. row \in Row /\ row.tz = plan[m].tz /\ row.status = plan[m].status
        BY <4>1 DEF Row
      <4>3. QED
        BY <2>7, <4>1, <4>2 DEF TypeOK, CommitRelease
    <3>2. commit' \in [Commit -> CommitRec]
            /\ \A d \in Commit : commit'[d].stage # "idle" => commit'[d].plan \in Plan
      BY <2>7 DEF TypeOK, CommitRelease, CommitRec
    <3>3. QED
      BY <2>7, <3>1, <3>2 DEF TypeOK, CommitRelease
  <2>8. ASSUME NEW c \in Commit, CommitReleaseFails(c) PROVE TypeOK'
    BY <2>8 DEF TypeOK, CommitReleaseFails, CommitRec
  <2>9. ASSUME NEW c \in Commit, CommitMarkMisses(c) PROVE TypeOK'
    BY <2>9 DEF TypeOK, CommitMarkMisses, CommitRec
  <2>10. ASSUME NEW c \in Commit, NEW heard \in BOOLEAN, CommitMark(c, heard) PROVE TypeOK'
    <3>1. plan' \in [Plan -> Row] /\ \A q \in Plan : plan'[q].status # "absent" => plan'[q].tz \in Zone
      <4> DEFINE m == commit[c].plan
                 row == [plan[m] EXCEPT !.status = "committed", !.claim = None,
                                        !.lapsed = FALSE, !.expired = FALSE, !.by = c]
      <4>1. m \in Plan /\ plan[m] \in Row /\ plan[m].status = "pending"
        BY <2>10 DEF CommitMark, Markable, Pending, TypeOK
      <4>2. row \in Row /\ row.tz = plan[m].tz
        BY <4>1 DEF Row
      <4>3. plan' = [plan EXCEPT ![m] = row] /\ plan[m].tz \in Zone
        BY <2>10, <4>1 DEF CommitMark, Accepted, TypeOK
      <4>4. QED
        BY <4>1, <4>2, <4>3 DEF TypeOK
    <3>2. resolve' \in [Resolve -> ResolveRec]
            /\ \A s \in Resolve : resolve'[s].stage # "idle" => resolve'[s].tz \in Zone
      BY <2>10 DEF TypeOK, CommitMark
    <3>3. commit' \in [Commit -> CommitRec]
            /\ \A d \in Commit : commit'[d].stage # "idle" => commit'[d].plan \in Plan
      <4> DEFINE X == IF heard THEN "done" ELSE "releasing"
                 Y == IF heard THEN "committed" ELSE "failed"
                 rec == [commit[c] EXCEPT !.stage = X, !.answer = Y]
      <4>1. commit[c] \in CommitRec /\ X \in {"done", "releasing"} /\ Y \in {"committed", "failed"}
        BY DEF TypeOK
      <4>2. commit' = [commit EXCEPT ![c] = rec] /\ commit[c].plan \in Plan
        BY <2>10 DEF CommitMark, TypeOK
      <4> HIDE DEF X, Y
      <4>3. rec \in CommitRec /\ rec.plan = commit[c].plan
        BY <4>1 DEF CommitRec, Answer
      <4> HIDE DEF rec
      <4>4. QED
        BY <4>2, <4>3 DEF TypeOK
    <3>4. QED
      BY <2>10, <3>1, <3>2, <3>3 DEF TypeOK, CommitMark
  <2>11. QED
    BY <1>3, <2>1, <2>2, <2>3, <2>4, <2>5, <2>6, <2>7, <2>8, <2>9, <2>10
       DEF CommitNext, CommitProceeds, CommitBatch
<1>4. CASE PatchNext
  <2>1. ASSUME NEW u \in Patch, NEW z \in Zone, PatchRead(u, z) PROVE TypeOK'
    BY <2>1 DEF TypeOK, PatchRead, PatchRec
  <2>2. ASSUME NEW u \in Patch, PatchWrite(u) PROVE TypeOK'
    BY <2>2, WithoutType DEF TypeOK, PatchWrite, Without, NoRow, PatchRec
  <2>3. QED
    BY <1>4, <2>1, <2>2 DEF PatchNext
<1>5. CASE TimeAndOwner
  <2>1. CASE CleanupExpired
    BY <2>1, WithoutType DEF TypeOK, CleanupExpired, Without, NoRow
  <2>2. ASSUME NEW p \in Plan, Expire(p) PROVE TypeOK'
    BY <2>2 DEF TypeOK, Expire, Row
  <2>3. ASSUME NEW p \in Plan, ClaimLapses(p) PROVE TypeOK'
    BY <2>3 DEF TypeOK, ClaimLapses, Row
  <2>4. ASSUME NEW p \in Plan, Discard(p) PROVE TypeOK'
    BY <2>4, WithoutType DEF TypeOK, Discard, Without, NoRow
  <2>5. QED
    BY <1>5, <2>1, <2>2, <2>3, <2>4 DEF TimeAndOwner
<1>6. QED
  BY <1>1, <1>2, <1>3, <1>4, <1>5 DEF Next

\* In every state of the plan table, rows and requests hold what their columns
\* and variables may hold, and a row that exists names its zone.
THEOREM TypeCorrect == Spec => []TypeOK
<1>1. Init => TypeOK
  BY TypeInit
<1>2. TypeOK /\ [Next]_vars => TypeOK'
  BY TypeStep
<1>3. QED
  BY <1>1, <1>2, PTL DEF Spec

---------------------------------------------------------------------------------
(* At most one pending plan a week.                                             *)

\* A resolve that has inserted its plan and still supersedes knows the plan's week.
KnowsWeek ==
  \A r \in Resolve : resolve[r].stage \in {"inserted", "selected"} =>
    resolve[r].plan \in Plan /\ resolve[r].week = WeekOf[resolve[r].plan][resolve[r].tz]

\* Only an insert makes rows pending or moves them to another zone, and no step but
\* a resolve's own changes what that resolve still has to delete.
NoNewPending == \A p \in Plan : Pending(p)' => Pending(p) /\ plan'[p].tz = plan[p].tz

SameWork(r) == /\ resolve'[r].stage  = resolve[r].stage
               /\ resolve'[r].plan   = resolve[r].plan
               /\ resolve'[r].tz     = resolve[r].tz
               /\ resolve'[r].week   = resolve[r].week
               /\ resolve'[r].doomed = resolve[r].doomed

\* Deleting pending rows makes none pending.
LEMMA WithoutLoses ==
  ASSUME TypeOK, NEW S, plan' = Without(S)
  PROVE  NoNewPending
BY DEF NoNewPending, Without, Pending, NoRow, TypeOK

\* A step that makes no row pending keeps PendingUnique when every resolve that had
\* to separate a pair still has to.
LEMMA FrameUnique ==
  ASSUME TypeOK, PendingUnique, NoNewPending,
         \A r \in Resolve : resolve[r].stage \in {"inserted", "selected"} => SameWork(r)
  PROVE  PendingUnique'
<1> SUFFICES ASSUME NEW p \in Plan, NEW q \in Plan,
                    p # q, Pending(p)', Pending(q)', SameWeek(p, q)'
             PROVE  \E r \in Resolve : WillSeparate(r, p, q)'
  BY DEF PendingUnique
<1>1. Pending(p) /\ Pending(q) /\ SameWeek(p, q) /\ plan'[p].tz = plan[p].tz
  BY DEF NoNewPending, SameWeek
<1>2. PICK r \in Resolve : WillSeparate(r, p, q)
  BY <1>1 DEF PendingUnique
<1>3. SameWork(r)
  BY <1>2 DEF WillSeparate
<1>4. QED
  BY <1>1, <1>2, <1>3 DEF WillSeparate, SameWork

\* Neither time, nor the owner, nor a commit, nor a PATCH makes a row pending.
LEMMA OthersLose ==
  ASSUME TypeOK, PatchNext \/ TimeAndOwner \/ CommitNext
  PROVE  NoNewPending /\ \A r \in Resolve : SameWork(r)
<1>1. CASE PatchNext
  <2>1. ASSUME NEW u \in Patch, NEW z \in Zone, PatchRead(u, z)
        PROVE  NoNewPending /\ \A r \in Resolve : SameWork(r)
    BY <2>1 DEF PatchRead, NoNewPending, SameWork, Pending
  <2>2. ASSUME NEW u \in Patch, PatchWrite(u)
        PROVE  NoNewPending /\ \A r \in Resolve : SameWork(r)
    <3>1. NoNewPending
      BY <2>2, WithoutLoses DEF PatchWrite, NoNewPending, Pending
    <3>2. QED
      BY <2>2, <3>1 DEF PatchWrite, SameWork
  <2>3. QED
    BY <1>1, <2>1, <2>2 DEF PatchNext
<1>2. CASE TimeAndOwner
  <2>1. resolve' = resolve
    BY <1>2 DEF TimeAndOwner, CleanupExpired, Expire, ClaimLapses, Discard
  <2>2. CASE CleanupExpired
    BY <2>1, <2>2, WithoutLoses DEF CleanupExpired, SameWork
  <2>3. ASSUME NEW p \in Plan, Discard(p) PROVE NoNewPending
    BY <2>3, WithoutLoses DEF Discard
  <2>4. ASSUME NEW p \in Plan, Expire(p) \/ ClaimLapses(p) PROVE NoNewPending
    BY <2>4 DEF Expire, ClaimLapses, NoNewPending, Pending, TypeOK, Row
  <2>5. QED
    BY <1>2, <2>1, <2>2, <2>3, <2>4 DEF TimeAndOwner, SameWork
<1>3. CASE CommitNext
  <2>1. ASSUME NEW c \in Commit, NEW heard \in BOOLEAN, CommitMark(c, heard)
        PROVE  NoNewPending /\ \A r \in Resolve : SameWork(r)
    <3>1. NoNewPending
      BY <2>1 DEF CommitMark, Accepted, NoNewPending, Pending, TypeOK, Row
    <3>2. ASSUME NEW r \in Resolve PROVE SameWork(r)
      BY <2>1 DEF CommitMark, SameWork
    <3>3. QED
      BY <3>1, <3>2
  <2>2. ASSUME NEW c \in Commit, CommitClaim(c) \/ CommitRelease(c)
        PROVE  NoNewPending /\ \A r \in Resolve : SameWork(r)
    <3>1. NoNewPending
      <4>1. ASSUME NEW p \in Plan
            PROVE  plan'[p].status = plan[p].status /\ plan'[p].tz = plan[p].tz
        <5>1. plan[p] \in Row
          BY DEF TypeOK
        <5>2. CASE CommitClaim(c)
          BY <5>1, <5>2 DEF CommitClaim, TypeOK, Row
        <5>3. CASE CommitRelease(c)
          BY <5>1, <5>3 DEF CommitRelease, TypeOK, Row
        <5>4. QED
          BY <2>2, <5>2, <5>3
      <4>2. QED
        BY <4>1 DEF NoNewPending, Pending
    <3>2. QED
      BY <2>2, <3>1 DEF CommitClaim, CommitRelease, SameWork
  <2>3. ASSUME NEW c \in Commit,
               \/ CommitCheck(c) \/ CommitClaimMisses(c) \/ CommitRefuse(c) \/ CommitThrow(c)
               \/ CommitReleaseFails(c) \/ CommitMarkMisses(c)
               \/ \E p \in Plan : CommitBegin(c, p)
        PROVE  NoNewPending /\ \A r \in Resolve : SameWork(r)
    <3>1. plan' = plan /\ resolve' = resolve
      BY <2>3 DEF CommitCheck, CommitClaimMisses, CommitRefuse, CommitThrow,
                  CommitReleaseFails, CommitMarkMisses, CommitBegin
    <3>2. QED
      BY <3>1 DEF NoNewPending, SameWork, Pending
  <2>4. QED
    BY <1>3, <2>1, <2>2, <2>3 DEF CommitNext, CommitProceeds, CommitBatch
<1>4. QED
  BY <1>1, <1>2, <1>3

UniqueInv == TypeOK /\ KnowsWeek /\ PendingUnique

LEMMA KnowsWeekStep == ASSUME TypeOK, KnowsWeek, [Next]_vars PROVE KnowsWeek'
<1>1. ASSUME \A r \in Resolve : SameWork(r) PROVE KnowsWeek'
  BY <1>1 DEF KnowsWeek, SameWork
<1>2. CASE UNCHANGED vars
  BY <1>2 DEF vars, KnowsWeek
<1>3. CASE ResolveNext
  <2>1. ASSUME NEW r \in Resolve, NEW p \in Plan, ResolveInsert(r, p) PROVE KnowsWeek'
    BY <2>1 DEF ResolveInsert, KnowsWeek, TypeOK, ResolveRec
  <2>2. ASSUME NEW r \in Resolve, SupersedeSelect(r) PROVE KnowsWeek'
    BY <2>2 DEF SupersedeSelect, KnowsWeek, TypeOK, ResolveRec
  <2>3. ASSUME NEW r \in Resolve, NEW w \in Week, ResolveStart(r, w) PROVE KnowsWeek'
    BY <2>3 DEF ResolveStart, KnowsWeek, TypeOK, ResolveRec
  <2>4. ASSUME NEW r \in Resolve,
               ResolveGivesUp(r) \/ SupersedeDelete(r) \/ ResolveReturn(r) \/ ResolveNoDiff(r)
        PROVE  KnowsWeek'
    BY <2>4 DEF ResolveGivesUp, SupersedeDelete, ResolveReturn, ResolveNoDiff,
                KnowsWeek, TypeOK, ResolveRec
  <2>5. QED
    BY <1>3, <2>1, <2>2, <2>3, <2>4 DEF ResolveNext, ResolveProceeds
<1>4. QED
  BY <1>1, <1>2, <1>3, OthersLose DEF Next

\* Every step keeps PendingUnique: an insert appoints its resolve, a select hands
\* the pair to the delete, and the delete ends it.
LEMMA UniqueStep == ASSUME TypeOK, KnowsWeek, PendingUnique, [Next]_vars PROVE PendingUnique'
<1>1. CASE UNCHANGED vars
  BY <1>1, FrameUnique DEF vars, NoNewPending, SameWork, Pending
<1>2. CASE PatchNext \/ TimeAndOwner \/ CommitNext
  BY <1>2, OthersLose, FrameUnique
<1>3. ASSUME NEW r \in Resolve, NEW w \in Week, ResolveStart(r, w) PROVE PendingUnique'
  <2>1. NoNewPending
    BY <1>3 DEF ResolveStart, NoNewPending, Pending
  <2>2. ASSUME NEW s \in Resolve, resolve[s].stage \in {"inserted", "selected"} PROVE SameWork(s)
    BY <1>3, <2>2 DEF ResolveStart, SameWork, TypeOK
  <2>3. QED
    BY <2>1, <2>2, FrameUnique
<1>4. ASSUME NEW r \in Resolve, ResolveGivesUp(r) \/ ResolveReturn(r) \/ ResolveNoDiff(r)
      PROVE  PendingUnique'
  <2>1. NoNewPending
    <3>1. CASE ResolveNoDiff(r)
      BY <3>1, WithoutLoses DEF ResolveNoDiff
    <3>2. CASE plan' = plan
      BY <3>2 DEF NoNewPending, Pending
    <3>3. QED
      BY <1>4, <3>1, <3>2 DEF ResolveGivesUp, ResolveReturn
  <2>2. ASSUME NEW s \in Resolve, resolve[s].stage \in {"inserted", "selected"} PROVE SameWork(s)
    BY <1>4, <2>2 DEF ResolveGivesUp, ResolveReturn, ResolveNoDiff, SameWork, TypeOK
  <2>3. QED
    BY <2>1, <2>2, FrameUnique
<1>5. ASSUME NEW r \in Resolve, NEW x \in Plan, ResolveInsert(r, x) PROVE PendingUnique'
  <2> SUFFICES ASSUME NEW p \in Plan, NEW q \in Plan,
                      p # q, Pending(p)', Pending(q)', SameWeek(p, q)'
               PROVE  \E s \in Resolve : WillSeparate(s, p, q)'
    BY DEF PendingUnique
  <2>1. /\ resolve'[r].stage = "inserted" /\ resolve'[r].plan = x
        /\ resolve'[r].tz = resolve[r].tz
        /\ \A s \in Resolve \ {r} : resolve'[s] = resolve[s]
        /\ \A y \in Plan \ {x} : plan'[y] = plan[y]
        /\ plan'[x] = Upserted(x, r)
    BY <1>5 DEF ResolveInsert, TypeOK, ResolveRec
  <2>2. CASE x \in {p, q}
    <3>1. plan'[x].status = "pending" /\ plan'[x].tz = plan'[p].tz
      BY <2>2 DEF Pending, SameWeek
    <3>2. plan[x] \in Row
      BY DEF TypeOK
    <3>3. plan'[x].tz = resolve[r].tz
      BY <2>1, <3>1, <3>2 DEF Upserted, Row
    <3>4. WillSeparate(r, p, q)'
      BY <2>1, <2>2, <3>1, <3>3 DEF WillSeparate
    <3>5. QED
      BY <3>4
  <2>3. CASE x \notin {p, q}
    <3>1. plan'[p] = plan[p] /\ plan'[q] = plan[q]
      BY <2>1, <2>3
    <3>2. Pending(p) /\ Pending(q) /\ SameWeek(p, q)
      BY <3>1 DEF Pending, SameWeek
    <3>3. PICK s \in Resolve : WillSeparate(s, p, q)
      BY <3>2 DEF PendingUnique
    <3>4. s # r
      BY <1>5, <3>3 DEF WillSeparate, ResolveInsert
    <3>5. resolve'[s] = resolve[s]
      BY <2>1, <3>4
    <3>6. WillSeparate(s, p, q)'
      BY <3>1, <3>3, <3>5 DEF WillSeparate
    <3>7. QED
      BY <3>6
  <2>4. QED
    BY <2>2, <2>3
<1>6. ASSUME NEW r \in Resolve, SupersedeSelect(r) PROVE PendingUnique'
  <2> SUFFICES ASSUME NEW p \in Plan, NEW q \in Plan,
                      p # q, Pending(p)', Pending(q)', SameWeek(p, q)'
               PROVE  \E s \in Resolve : WillSeparate(s, p, q)'
    BY DEF PendingUnique
  <2>1. plan' = plan /\ Pending(p) /\ Pending(q) /\ SameWeek(p, q)
    BY <1>6 DEF SupersedeSelect, Pending, SameWeek
  <2>2. PICK s \in Resolve : WillSeparate(s, p, q)
    BY <2>1 DEF PendingUnique
  <2>3. CASE s # r
    BY <1>6, <2>1, <2>2, <2>3 DEF WillSeparate, SupersedeSelect, TypeOK
  <2>4. CASE s = r
    <3> DEFINE own == resolve[r].plan
    <3>1. resolve[r].stage = "inserted" /\ own \in {p, q} /\ resolve[r].tz = plan[p].tz
      BY <1>6, <2>2, <2>4 DEF SupersedeSelect, WillSeparate
    <3>2. resolve[r].tz \in Zone /\ resolve[r].week = WeekOf[own][resolve[r].tz]
      BY <3>1 DEF KnowsWeek, TypeOK
    <3>3. {p, q} \ {own} \subseteq OthersOfWeek(r)
      BY <2>1, <3>1, <3>2 DEF OthersOfWeek, InWeek, SameWeek
    <3>4. OthersOfWeek(r) # {}
      BY <3>1, <3>3
    <3>5. /\ resolve'[r].stage = "selected" /\ resolve'[r].doomed = OthersOfWeek(r)
          /\ resolve'[r].plan = own /\ resolve'[r].tz = resolve[r].tz
      BY <1>6, <3>4 DEF SupersedeSelect, TypeOK, ResolveRec
    <3>6. WillSeparate(r, p, q)'
      BY <2>1, <3>1, <3>3, <3>5 DEF WillSeparate
    <3>7. QED
      BY <3>6
  <2>5. QED
    BY <2>3, <2>4
<1>7. ASSUME NEW r \in Resolve, SupersedeDelete(r) PROVE PendingUnique'
  <2> SUFFICES ASSUME NEW p \in Plan, NEW q \in Plan,
                      p # q, Pending(p)', Pending(q)', SameWeek(p, q)'
               PROVE  \E s \in Resolve : WillSeparate(s, p, q)'
    BY DEF PendingUnique
  <2>1. ASSUME NEW y \in Plan, Pending(y)'
        PROVE  plan'[y] = plan[y] /\ Pending(y) /\ y \notin resolve[r].doomed
    BY <1>7, <2>1 DEF SupersedeDelete, Without, Pending, NoRow
  <2>2. Pending(p) /\ Pending(q) /\ SameWeek(p, q) /\ plan'[p] = plan[p]
    BY <2>1 DEF SameWeek
  <2>3. PICK s \in Resolve : WillSeparate(s, p, q)
    BY <2>2 DEF PendingUnique
  <2>4. s # r
    BY <1>7, <2>1, <2>3 DEF SupersedeDelete, WillSeparate
  <2>5. resolve'[s] = resolve[s]
    BY <1>7, <2>4 DEF SupersedeDelete, TypeOK
  <2>6. WillSeparate(s, p, q)'
    BY <2>2, <2>3, <2>5 DEF WillSeparate
  <2>7. QED
    BY <2>6
<1>8. QED
  BY <1>1, <1>2, <1>3, <1>4, <1>5, <1>6, <1>7 DEF Next, ResolveNext, ResolveProceeds

\* In every state of the plan table, two pending plans of one zone and week are
\* there only while a resolve that inserted one of them has yet to supersede.
THEOREM OnePendingPlanPerWeek == Spec => []PendingUnique
<1>1. Init => UniqueInv
  BY TypeInit DEF Init, UniqueInv, KnowsWeek, PendingUnique, Pending, NoRow, IdleResolve
<1>2. UniqueInv /\ [Next]_vars => UniqueInv'
  BY TypeStep, KnowsWeekStep, UniqueStep DEF UniqueInv
<1>3. UniqueInv => PendingUnique
  BY DEF UniqueInv
<1>4. QED
  BY <1>1, <1>2, <1>3, PTL DEF Spec

-----------------------------------------------------------------------------
(* Claims and acceptance.                                                  *)

\* Only a pending row is claimed, only a committed one has an accepter, and a
\* request that has not begun has no answer.
RowShape ==
  /\ \A p \in Plan : /\ plan[p].status # "pending" => plan[p].claim = None
                     /\ plan[p].by # None => plan[p].status = "committed"
  /\ \A c \in Commit : commit[c].stage = "idle" => commit[c].answer = None

ClaimInv == RowShape /\ ClaimIsOwned /\ AcceptOnce

(* What a step of anybody but a commit does to the rows: it deletes pending ones,
   or inserts or re-arms one.                                                   *)
RowSame(p)    == /\ plan'[p].claim = plan[p].claim /\ plan'[p].by = plan[p].by
                 /\ plan'[p].status = plan[p].status
RowGoes(p)    == Pending(p) /\ plan'[p] = NoRow
RowOffered(p) == /\ plan'[p].claim = plan[p].claim /\ plan'[p].by = plan[p].by
                 /\ \/ plan[p].status = "committed" /\ plan'[p].status = "committed"
                    \/ plan[p].status # "committed" /\ plan'[p].status = "pending"

OnlyOffered(p) == RowOffered(p) /\ \A q \in Plan \ {p} : RowSame(q)

OthersTouch == /\ commit' = commit
               /\ \/ \A p \in Plan : RowGoes(p) \/ RowSame(p)
                  \/ \E p \in Plan : OnlyOffered(p)

(* What a commit's three writes to the table do: it claims its plan, lets it go,
   or marks it.                                                                 *)
OnlyClaims(m, x) == /\ plan'[m].claim = x /\ plan'[m].by = plan[m].by
                    /\ plan[m].status = "pending" /\ plan'[m].status = "pending"
                    /\ \A p \in Plan \ {m} : plan'[p] = plan[p]

LEMMA ClaimEffect ==
  ASSUME TypeOK, NEW c \in Commit, CommitClaim(c)
  PROVE  Claimable(commit[c].plan) /\ OnlyClaims(commit[c].plan, c)
<1> DEFINE m == commit[c].plan
<1>1. m \in Plan /\ plan[m] \in Row
  BY DEF CommitClaim, TypeOK
<1>2. QED
  BY <1>1 DEF CommitClaim, TypeOK, Row, Claimable, Pending, OnlyClaims

LEMMA ReleaseEffect ==
  ASSUME TypeOK, ClaimInv, NEW c \in Commit, CommitRelease(c)
  PROVE  \/ plan[commit[c].plan].claim = c /\ OnlyClaims(commit[c].plan, None)
         \/ plan[commit[c].plan].claim # c /\ plan' = plan
<1> DEFINE m == commit[c].plan
<1>1. m \in Plan /\ plan[m] \in Row
  BY DEF CommitRelease, TypeOK
<1>2. CASE plan[m].claim = c
  BY <1>1, <1>2, NoneIsNew DEF CommitRelease, TypeOK, Row, OnlyClaims, ClaimInv, RowShape
<1>3. CASE plan[m].claim # c
  BY <1>3 DEF CommitRelease
<1>4. QED
  BY <1>2, <1>3

OnlyMarks(m, c) ==
  /\ plan[m].status = "pending" /\ plan[m].claim = c
  /\ plan'[m].claim = None /\ plan'[m].by = c /\ plan'[m].status = "committed"
  /\ \A p \in Plan \ {m} : RowSame(p)

LEMMA MarkEffect ==
  ASSUME TypeOK, NEW c \in Commit, NEW heard \in BOOLEAN, CommitMark(c, heard)
  PROVE  OnlyMarks(commit[c].plan, c)
<1> DEFINE m == commit[c].plan
<1>1. m \in Plan /\ plan[m] \in Row /\ plan[m].status = "pending" /\ plan[m].claim = c
  BY DEF CommitMark, Markable, Pending, TypeOK
<1>2. plan'[m] = Accepted(m, c)[m] /\ \A p \in Plan \ {m} : plan'[p] = Accepted(m, c)[p]
  BY <1>1 DEF CommitMark
<1>3. ASSUME NEW p \in Plan \ {m}
      PROVE  /\ Accepted(m, c)[p].claim = plan[p].claim /\ Accepted(m, c)[p].by = plan[p].by
             /\ Accepted(m, c)[p].status = plan[p].status
  <2>1. plan[p] \in Row
    BY DEF TypeOK
  <2>2. QED
    BY <2>1 DEF Accepted, Row
<1>4. /\ Accepted(m, c)[m].claim = None /\ Accepted(m, c)[m].by = c
      /\ Accepted(m, c)[m].status = "committed"
  BY <1>1 DEF Accepted, Row, TypeOK
<1>5. QED
  BY <1>1, <1>2, <1>3, <1>4 DEF OnlyMarks, RowSame

LEMMA WithoutTouches ==
  ASSUME NEW S, plan' = Without(S), commit' = commit
  PROVE  OthersTouch
BY DEF OthersTouch, Without, RowGoes, RowSame

LEMMA OthersStep == ASSUME TypeOK, ResolveNext \/ PatchNext \/ TimeAndOwner PROVE OthersTouch
<1>1. ASSUME plan' = plan, commit' = commit PROVE OthersTouch
  BY <1>1 DEF OthersTouch, RowSame
<1>2. CASE ResolveNext
  <2>1. ASSUME NEW r \in Resolve, NEW p \in Plan, ResolveInsert(r, p) PROVE OthersTouch
    <3>1. commit' = commit /\ \A q \in Plan \ {p} : plan'[q] = plan[q]
      BY <2>1 DEF ResolveInsert, TypeOK
    <3>2. plan'[p] = Upserted(p, r) /\ plan[p] \in Row
      BY <2>1 DEF ResolveInsert, TypeOK
    <3>3. RowOffered(p)
      BY <3>2 DEF Upserted, RowOffered, Row
    <3>4. QED
      BY <3>1, <3>3 DEF OthersTouch, OnlyOffered, RowSame
  <2>2. ASSUME NEW r \in Resolve, SupersedeDelete(r) \/ ResolveNoDiff(r) PROVE OthersTouch
    BY <2>2, WithoutTouches DEF SupersedeDelete, ResolveNoDiff
  <2>3. ASSUME NEW r \in Resolve,
               \/ ResolveGivesUp(r) \/ SupersedeSelect(r) \/ ResolveReturn(r)
               \/ \E w \in Week : ResolveStart(r, w)
        PROVE  OthersTouch
    BY <1>1, <2>3 DEF ResolveGivesUp, SupersedeSelect, ResolveReturn, ResolveStart
  <2>4. QED
    BY <1>2, <2>1, <2>2, <2>3 DEF ResolveNext, ResolveProceeds
<1>3. CASE PatchNext
  BY <1>1, <1>3, WithoutTouches DEF PatchNext, PatchRead, PatchWrite
<1>4. CASE TimeAndOwner
  <2>1. ASSUME NEW p \in Plan, Expire(p) \/ ClaimLapses(p) PROVE OthersTouch
    <3>1. plan[p] \in Row /\ commit' = commit /\ \A q \in Plan \ {p} : plan'[q] = plan[q]
      BY <2>1 DEF Expire, ClaimLapses, TypeOK
    <3>2. RowSame(p)
      BY <2>1, <3>1 DEF Expire, ClaimLapses, TypeOK, RowSame, Row
    <3>3. QED
      BY <3>1, <3>2 DEF OthersTouch, RowSame
  <2>2. QED
    BY <1>4, <2>1, WithoutTouches DEF TimeAndOwner, CleanupExpired, Discard
<1>5. QED
  BY <1>2, <1>3, <1>4

LEMMA OthersKeepClaims == ASSUME TypeOK, ClaimInv, OthersTouch PROVE ClaimInv'
<1> DEFINE Kept(p) == plan'[p].claim = plan[p].claim /\ plan'[p].by = plan[p].by
<1>1. ASSUME NEW p \in Plan
      PROVE  \/ RowGoes(p)
             \/ /\ Kept(p)
                /\ \/ plan'[p].status = plan[p].status
                   \/ plan[p].status # "committed" /\ plan'[p].status = "pending"
  BY DEF OthersTouch, OnlyOffered, RowOffered, RowSame
<1>2. commit' = commit
  BY DEF OthersTouch
<1>3. RowShape'
  BY <1>1, <1>2, NoneIsNew DEF ClaimInv, RowShape, RowGoes, NoRow, Pending
<1>4. ClaimIsOwned'
  BY <1>1, <1>2 DEF ClaimInv, ClaimIsOwned, RowGoes, NoRow
<1>5. AcceptOnce'
  <2> SUFFICES ASSUME NEW c \in Commit, commit[c].answer \in {"committed", "already"}
               PROVE  /\ commit[c].answer = "committed" => plan'[commit[c].plan].by = c
                      /\ commit[c].answer = "already" => plan'[commit[c].plan].status = "committed"
    BY <1>2 DEF AcceptOnce
  <2> DEFINE p == commit[c].plan
  <2>1. p \in Plan
    BY NoneIsNew DEF TypeOK, ClaimInv, RowShape, Answer
  <2>2. plan[p].status = "committed"
    BY <2>1, NoneIsNew DEF ClaimInv, AcceptOnce, RowShape
  <2>3. Kept(p) /\ plan'[p].status = "committed"
    BY <1>1, <2>1, <2>2 DEF RowGoes, Pending
  <2>4. QED
    BY <2>2, <2>3 DEF ClaimInv, AcceptOnce
<1>6. QED
  BY <1>3, <1>4, <1>5 DEF ClaimInv

\* A commit step that leaves the table alone keeps the claims in order, when it
\* keeps the request's plan, does not finish with a claim of its own left behind,
\* and answers "already" only of a committed plan.
LEMMA QuietKeepsClaims ==
  ASSUME TypeOK, ClaimInv, NEW c \in Commit, plan' = plan,
         \A d \in Commit \ {c} : commit'[d] = commit[d],
         commit'[c].plan \in Plan, commit'[c].stage # "idle",
         commit[c].stage # "idle" => commit'[c].plan = commit[c].plan,
         \/ commit[c].stage \in {"idle", "begun", "checked", "unclaimed"}
         \/ commit'[c].stage \in {"applying", "unmarked", "releasing", "leaked"},
         commit'[c].answer = "committed" => commit[c].answer = "committed" /\ commit[c].stage # "idle",
         commit'[c].answer = "already" =>
           plan[commit'[c].plan].status = "committed"
  PROVE  ClaimInv'
<1>1. RowShape'
  BY DEF ClaimInv, RowShape
<1>2. ClaimIsOwned'
  <2> SUFFICES ASSUME NEW p \in Plan, plan[p].claim # None
               PROVE  LET d == plan[p].claim IN
                        /\ commit'[d].plan = p
                        /\ commit'[d].stage \in {"applying", "unmarked", "releasing", "leaked"}
    BY DEF ClaimIsOwned
  <2> DEFINE d == plan[p].claim
  <2>1. d \in Commit /\ commit[d].plan = p /\ commit[d].stage \in {"applying", "unmarked", "releasing", "leaked"}
    BY DEF ClaimInv, ClaimIsOwned, TypeOK, Row
  <2>2. CASE d = c
    BY <2>1, <2>2
  <2>3. CASE d # c
    BY <2>1, <2>3
  <2>4. QED
    BY <2>2, <2>3
<1>3. AcceptOnce'
  BY DEF ClaimInv, AcceptOnce
<1>4. QED
  BY <1>1, <1>2, <1>3 DEF ClaimInv

LEMMA CommitKeepsClaims == ASSUME TypeOK, ClaimInv, CommitNext PROVE ClaimInv'
<1>1. ASSUME NEW c \in Commit, NEW p \in Plan, CommitBegin(c, p) PROVE ClaimInv'
  <2>1. commit[c] \in CommitRec /\ commit[c].answer = None
    BY <1>1 DEF CommitBegin, TypeOK, ClaimInv, RowShape
  <2>2. commit'[c].plan = p /\ commit'[c].stage = "begun" /\ commit'[c].answer = None
    BY <1>1, <2>1 DEF CommitBegin, TypeOK, CommitRec
  <2>3. plan' = plan /\ \A d \in Commit \ {c} : commit'[d] = commit[d]
    BY <1>1 DEF CommitBegin, TypeOK
  <2>4. QED
    BY <1>1, <2>2, <2>3, NoneIsNew, QuietKeepsClaims DEF CommitBegin, Answer
<1>2. ASSUME NEW c \in Commit, CommitCheck(c) PROVE ClaimInv'
  <2>1. commit[c] \in CommitRec /\ commit[c].plan \in Plan /\ plan[commit[c].plan] \in Row
    BY <1>2 DEF CommitCheck, TypeOK
  <2>2. /\ commit'[c].plan = commit[c].plan /\ commit'[c].answer = Refusal(c)
        /\ commit'[c].stage \in {"checked", "done"}
    BY <1>2, <2>1 DEF CommitCheck, TypeOK, CommitRec
  <2>3. Refusal(c) # "committed"
        /\ (Refusal(c) = "already" => plan[commit[c].plan].status = "committed")
    BY <2>1, NoneIsNew DEF Refusal, Row, Answer
  <2>4. plan' = plan /\ \A d \in Commit \ {c} : commit'[d] = commit[d]
    BY <1>2 DEF CommitCheck, TypeOK
  <2>5. QED
    BY <1>2, <2>1, <2>2, <2>3, <2>4, QuietKeepsClaims DEF CommitCheck
<1>3. ASSUME NEW c \in Commit, CommitClaimMisses(c) \/ CommitMarkMisses(c) \/ CommitReleaseFails(c)
      PROVE  ClaimInv'
  <2>1. commit[c] \in CommitRec /\ commit[c].plan \in Plan
    BY <1>3 DEF CommitClaimMisses, CommitMarkMisses, CommitReleaseFails, TypeOK
  <2>2. /\ commit'[c].plan = commit[c].plan /\ commit'[c].answer = commit[c].answer
        /\ \/ commit[c].stage = "checked" /\ commit'[c].stage = "unclaimed"
           \/ commit[c].stage \in {"applying", "releasing"} /\ commit'[c].stage \in {"unmarked", "leaked"}
    BY <1>3, <2>1 DEF CommitClaimMisses, CommitMarkMisses, CommitReleaseFails, TypeOK, CommitRec
  <2>3. plan' = plan /\ \A d \in Commit \ {c} : commit'[d] = commit[d]
    BY <1>3 DEF CommitClaimMisses, CommitMarkMisses, CommitReleaseFails, TypeOK
  <2>4. commit[c].answer = "already" => plan[commit[c].plan].status = "committed"
    BY DEF ClaimInv, AcceptOnce
  <2>5. QED
    BY <2>1, <2>2, <2>3, <2>4, QuietKeepsClaims
<1>4. ASSUME NEW c \in Commit, CommitRefuse(c) PROVE ClaimInv'
  <2>1. commit[c] \in CommitRec /\ commit[c].plan \in Plan /\ plan[commit[c].plan] \in Row
    BY <1>4 DEF CommitRefuse, TypeOK
  <2>2. /\ commit'[c].plan = commit[c].plan /\ commit'[c].answer = SecondLook(c)
        /\ \/ commit[c].stage = "unclaimed" /\ commit'[c].stage = "done"
           \/ commit'[c].stage = "releasing"
    BY <1>4, <2>1 DEF CommitRefuse, TypeOK, CommitRec
  <2>3. SecondLook(c) # "committed"
        /\ (SecondLook(c) = "already" => plan[commit[c].plan].status = "committed")
    BY <2>1 DEF SecondLook, Row
  <2>4. plan' = plan /\ \A d \in Commit \ {c} : commit'[d] = commit[d]
    BY <1>4 DEF CommitRefuse, TypeOK
  <2>5. QED
    BY <1>4, <2>1, <2>2, <2>3, <2>4, QuietKeepsClaims DEF CommitRefuse
<1>5. ASSUME NEW c \in Commit, CommitThrow(c) PROVE ClaimInv'
  <2>1. commit[c] \in CommitRec /\ commit[c].plan \in Plan
    BY <1>5 DEF CommitThrow, TypeOK
  <2>2. commit'[c].plan = commit[c].plan /\ commit'[c].answer = "failed" /\ commit'[c].stage = "releasing"
    BY <1>5, <2>1 DEF CommitThrow, TypeOK, CommitRec
  <2>3. plan' = plan /\ \A d \in Commit \ {c} : commit'[d] = commit[d]
    BY <1>5 DEF CommitThrow, TypeOK
  <2>4. QED
    BY <2>1, <2>2, <2>3, QuietKeepsClaims
<1>6. ASSUME NEW c \in Commit, CommitClaim(c) PROVE ClaimInv'
  <2> DEFINE m == commit[c].plan
  <2>1. /\ commit[c] \in CommitRec /\ m \in Plan /\ plan[m] \in Row
        /\ commit[c].stage = "checked" /\ Claimable(m)
    BY <1>6 DEF CommitClaim, TypeOK
  <2>2. /\ commit'[c].plan = m /\ commit'[c].stage = "applying" /\ commit'[c].answer = commit[c].answer
        /\ \A d \in Commit \ {c} : commit'[d] = commit[d]
    BY <1>6, <2>1 DEF CommitClaim, TypeOK, CommitRec
  <2>3. OnlyClaims(m, c)
    BY <1>6, ClaimEffect
  <2>4. RowShape'
    BY <2>1, <2>2, <2>3 DEF ClaimInv, RowShape, OnlyClaims
  <2>5. ClaimIsOwned'
    <3> SUFFICES ASSUME NEW p \in Plan, plan'[p].claim # None
                 PROVE  LET d == plan'[p].claim IN
                          /\ commit'[d].plan = p
                          /\ commit'[d].stage \in {"applying", "unmarked", "releasing", "leaked"}
      BY DEF ClaimIsOwned
    <3>1. CASE p = m
      BY <2>2, <2>3, <3>1 DEF OnlyClaims
    <3>2. CASE p # m
      <4>1. plan[p].claim \in Commit
        BY <2>3, <3>2 DEF TypeOK, Row, OnlyClaims
      <4>2. plan[p].claim # c
        BY <2>1, <2>3, <3>2, <4>1 DEF ClaimInv, ClaimIsOwned, OnlyClaims
      <4>3. QED
        BY <2>2, <2>3, <3>2, <4>1, <4>2 DEF ClaimInv, ClaimIsOwned, OnlyClaims
    <3>3. QED
      BY <3>1, <3>2
  <2>6. AcceptOnce'
    <3> SUFFICES ASSUME NEW d \in Commit, commit'[d].answer \in {"committed", "already"}
                 PROVE  /\ commit'[d].answer = "committed" => plan'[commit'[d].plan].by = d
                        /\ commit'[d].answer = "already" => plan'[commit'[d].plan].status = "committed"
      BY DEF AcceptOnce
    <3>1. commit'[d].answer = commit[d].answer /\ commit'[d].plan = commit[d].plan
      BY <2>2
    <3>2. commit[d].plan \in Plan
      BY <3>1, NoneIsNew DEF TypeOK, ClaimInv, RowShape, Answer
    <3>3. QED
      BY <2>3, <3>1, <3>2 DEF ClaimInv, AcceptOnce, OnlyClaims
  <2>7. QED
    BY <2>4, <2>5, <2>6 DEF ClaimInv
<1>7. ASSUME NEW c \in Commit, CommitRelease(c) PROVE ClaimInv'
  <2> DEFINE m == commit[c].plan
  <2>1. /\ commit[c] \in CommitRec /\ m \in Plan /\ plan[m] \in Row /\ commit[c].stage = "releasing"
    BY <1>7 DEF CommitRelease, TypeOK
  <2>2. /\ commit'[c].plan = m /\ commit'[c].stage = "done" /\ commit'[c].answer = commit[c].answer
        /\ \A d \in Commit \ {c} : commit'[d] = commit[d]
    BY <1>7, <2>1 DEF CommitRelease, TypeOK, CommitRec
  <2>3. \/ plan[m].claim = c /\ OnlyClaims(m, None)
        \/ plan[m].claim # c /\ plan' = plan
    BY <1>7, ReleaseEffect
  <2>4. RowShape'
    BY <2>1, <2>2, <2>3 DEF ClaimInv, RowShape, OnlyClaims
  <2>5. ClaimIsOwned'
    <3> SUFFICES ASSUME NEW p \in Plan, plan'[p].claim # None
                 PROVE  LET d == plan'[p].claim IN
                          /\ commit'[d].plan = p
                          /\ commit'[d].stage \in {"applying", "unmarked", "releasing", "leaked"}
      BY DEF ClaimIsOwned
    <3>1. plan'[p].claim = plan[p].claim /\ plan[p].claim \in Commit
      BY <2>3 DEF TypeOK, Row, OnlyClaims
    <3>2. plan[p].claim # c
      BY <2>3, <3>1 DEF ClaimInv, ClaimIsOwned, OnlyClaims
    <3>3. QED
      BY <2>2, <3>1, <3>2 DEF ClaimInv, ClaimIsOwned
  <2>6. AcceptOnce'
    <3> SUFFICES ASSUME NEW d \in Commit, commit'[d].answer \in {"committed", "already"}
                 PROVE  /\ commit'[d].answer = "committed" => plan'[commit'[d].plan].by = d
                        /\ commit'[d].answer = "already" => plan'[commit'[d].plan].status = "committed"
      BY DEF AcceptOnce
    <3>1. commit'[d].answer = commit[d].answer /\ commit'[d].plan = commit[d].plan
      BY <2>2
    <3>2. commit[d].plan \in Plan
      BY <3>1, NoneIsNew DEF TypeOK, ClaimInv, RowShape, Answer
    <3>3. QED
      BY <2>3, <3>1, <3>2 DEF ClaimInv, AcceptOnce, OnlyClaims
  <2>7. QED
    BY <2>4, <2>5, <2>6 DEF ClaimInv
<1>8. ASSUME NEW c \in Commit, NEW heard \in BOOLEAN, CommitMark(c, heard) PROVE ClaimInv'
  <2> DEFINE m == commit[c].plan
  <2>1. /\ commit[c] \in CommitRec /\ m \in Plan /\ plan[m] \in Row /\ commit[c].stage = "applying"
        /\ plan[m].status = "pending" /\ plan[m].claim = c
    BY <1>8 DEF CommitMark, Markable, Pending, TypeOK
  <2>2. /\ commit'[c].plan = m /\ commit'[c].stage \in {"done", "releasing"}
        /\ commit'[c].answer \in {"committed", "failed"}
        /\ \A d \in Commit \ {c} : commit'[d] = commit[d]
    BY <1>8, <2>1 DEF CommitMark, TypeOK, CommitRec
  <2>3. OnlyMarks(m, c)
    BY <1>8, MarkEffect
  <2>4. RowShape'
    BY <2>1, <2>2, <2>3 DEF ClaimInv, RowShape, OnlyMarks, RowSame
  <2>5. ClaimIsOwned'
    <3> SUFFICES ASSUME NEW p \in Plan, plan'[p].claim # None
                 PROVE  LET d == plan'[p].claim IN
                          /\ commit'[d].plan = p
                          /\ commit'[d].stage \in {"applying", "unmarked", "releasing", "leaked"}
      BY DEF ClaimIsOwned
    <3>1. p # m /\ plan'[p].claim = plan[p].claim /\ plan[p].claim \in Commit
      BY <2>3 DEF TypeOK, Row, OnlyMarks, RowSame
    <3>2. plan[p].claim # c
      BY <2>1, <3>1 DEF ClaimInv, ClaimIsOwned
    <3>3. QED
      BY <2>2, <3>1, <3>2 DEF ClaimInv, ClaimIsOwned
  <2>6. AcceptOnce'
    <3> SUFFICES ASSUME NEW d \in Commit, commit'[d].answer \in {"committed", "already"}
                 PROVE  /\ commit'[d].answer = "committed" => plan'[commit'[d].plan].by = d
                        /\ commit'[d].answer = "already" => plan'[commit'[d].plan].status = "committed"
      BY DEF AcceptOnce
    <3>1. CASE d = c
      BY <2>2, <2>3, <3>1 DEF OnlyMarks, RowSame
    <3>2. CASE d # c
      <4>1. commit'[d] = commit[d]
        BY <2>2, <3>2
      <4>2. commit[d].plan \in Plan
        BY <4>1, NoneIsNew DEF TypeOK, ClaimInv, RowShape, Answer
      <4>3. commit[d].plan # m
        <5>1. plan[commit[d].plan].status = "committed"
          BY <4>1, <4>2, NoneIsNew DEF ClaimInv, AcceptOnce, RowShape
        <5>2. QED
          BY <2>1, <5>1
      <4>4. QED
        BY <2>3, <4>1, <4>2, <4>3 DEF ClaimInv, AcceptOnce, OnlyMarks, RowSame
    <3>3. QED
      BY <3>1, <3>2
  <2>7. QED
    BY <2>4, <2>5, <2>6 DEF ClaimInv
<1>9. QED
  BY <1>1, <1>2, <1>3, <1>4, <1>5, <1>6, <1>7, <1>8 DEF CommitNext, CommitProceeds, CommitBatch

LEMMA ClaimStep == TypeOK /\ ClaimInv /\ [Next]_vars => ClaimInv'
<1> SUFFICES ASSUME TypeOK, ClaimInv, [Next]_vars PROVE ClaimInv'
  OBVIOUS
<1>1. CASE UNCHANGED vars
  BY <1>1, OthersKeepClaims DEF vars, OthersTouch, RowSame
<1>2. CASE Next
  BY <1>2, OthersStep, OthersKeepClaims, CommitKeepsClaims DEF Next
<1>3. QED
  BY <1>1, <1>2

LEMMA ClaimInit == Init => ClaimInv
BY NoneIsNew DEF Init, ClaimInv, RowShape, ClaimIsOwned, AcceptOnce, NoRow, IdleCommit, Answer

LEMMA ClaimAlways == Spec => [](TypeOK /\ ClaimInv)
<1>1. Init => TypeOK /\ ClaimInv
  BY TypeInit, ClaimInit
<1>2. TypeOK /\ ClaimInv /\ [Next]_vars => (TypeOK /\ ClaimInv)'
  BY TypeStep, ClaimStep
<1>3. QED
  BY <1>1, <1>2, PTL DEF Spec

\* At most one commit request of a plan is told that it committed it, and that one
\* marked the row; "already committed" is said of committed plans only.
THEOREM AcceptedOnce == Spec => []AcceptOnce
BY ClaimAlways, PTL DEF ClaimInv

\* A claim on the table belongs to an attempt that has not finished, or whose
\* release failed.
THEOREM ClaimsAreOwned == Spec => []ClaimIsOwned
BY ClaimAlways, PTL DEF ClaimInv

LEMMA HeldStep ==
  ASSUME TypeOK, ClaimInv, [Next]_vars, NEW c \in Commit,
         commit[c].stage = "applying", commit'[c].stage = "applying",
         plan[commit[c].plan].claim = c, plan'[commit[c].plan].claim # c
  PROVE  plan[commit[c].plan].lapsed \/ plan'[commit[c].plan].status = "absent"
<1> DEFINE p == commit[c].plan
<1>1. p \in Plan /\ plan' # plan
  BY DEF TypeOK
<1>2. CASE OthersTouch
  BY <1>1, <1>2 DEF OthersTouch, OnlyOffered, RowOffered, RowSame, RowGoes, NoRow
<1>3. ASSUME NEW d \in Commit, CommitClaim(d) PROVE plan[p].lapsed
  BY <1>1, <1>3, ClaimEffect, NoneIsNew DEF OnlyClaims, Claimable
<1>4. ASSUME NEW d \in Commit, CommitRelease(d) PROVE FALSE
  <2>1. commit[d].plan = p /\ plan[p].claim = d
    BY <1>1, <1>4, ReleaseEffect DEF OnlyClaims
  <2>2. d = c
    BY <2>1
  <2>3. QED
    BY <1>4, <2>2 DEF CommitRelease
<1>5. ASSUME NEW d \in Commit, NEW heard \in BOOLEAN, CommitMark(d, heard) PROVE FALSE
  <2>1. d = c
    BY <1>1, <1>5, MarkEffect DEF OnlyMarks, RowSame
  <2>2. commit'[c].stage # "applying"
    BY <1>5, <2>1 DEF CommitMark, TypeOK, CommitRec
  <2>3. QED
    BY <2>2
<1>6. ASSUME NEW d \in Commit,
             \/ CommitCheck(d) \/ CommitClaimMisses(d) \/ CommitRefuse(d) \/ CommitThrow(d)
             \/ CommitReleaseFails(d) \/ CommitMarkMisses(d) \/ \E q \in Plan : CommitBegin(d, q)
      PROVE  FALSE
  BY <1>1, <1>6 DEF CommitCheck, CommitClaimMisses, CommitRefuse, CommitThrow,
                    CommitReleaseFails, CommitMarkMisses, CommitBegin
<1>7. Next
  BY <1>1 DEF vars
<1>8. CommitNext \/ OthersTouch
  BY <1>7, OthersStep DEF Next
<1>9. QED
  BY <1>2, <1>3, <1>4, <1>5, <1>6, <1>8 DEF CommitNext, CommitProceeds, CommitBatch

\* An attempt that is applying its plan loses the claim only after the lease or
\* together with the row.
THEOREM ClaimIsHeld == Spec => ClaimHeld
<1>1. TypeOK /\ ClaimInv /\ [Next]_vars =>
        [\A c \in Commit : LET p == commit[c].plan IN
           commit[c].stage = "applying" /\ commit'[c].stage = "applying"
             /\ plan[p].claim = c /\ plan'[p].claim # c
           => plan[p].lapsed \/ plan'[p].status = "absent"]_vars
  BY HeldStep
<1>2. QED
  BY <1>1, ClaimAlways, PTL DEF Spec, ClaimHeld

---------------------------------------------------------------------------------
(* The refinement.                                                              *)

LEMMA BookOfRow ==
  ASSUME TypeOK, NEW p \in Plan
  PROVE  /\ plan[p].status = "absent"    => Offers[p] = "none"     /\ Holders[p] = plan[p].claim
         /\ plan[p].status = "pending"   => Offers[p] = "open"     /\ Holders[p] = plan[p].claim
         /\ plan[p].status = "committed" => Offers[p] = "accepted" /\ Holders[p] = plan[p].by
         /\ plan[p].status \in {"absent", "pending", "committed"}
<1>1. plan[p] \in Row
  BY DEF TypeOK
<1>2. QED
  BY <1>1 DEF Row, Offers, Holders

LEMMA BookOfRowNext ==
  ASSUME TypeOK', NEW p \in Plan
  PROVE  /\ plan'[p].status = "absent"    => Offers'[p] = "none"     /\ Holders'[p] = plan'[p].claim
         /\ plan'[p].status = "pending"   => Offers'[p] = "open"     /\ Holders'[p] = plan'[p].claim
         /\ plan'[p].status = "committed" => Offers'[p] = "accepted" /\ Holders'[p] = plan'[p].by
         /\ plan'[p].status \in {"absent", "pending", "committed"}
<1>1. plan'[p] \in Row
  BY DEF TypeOK
<1>2. QED
  BY <1>1 DEF Row, Offers, Holders

LEMMA BookFunctions ==
  /\ Offers  = [p \in Plan |-> Offers[p]]  /\ Offers'  = [p \in Plan |-> Offers'[p]]
  /\ Holders = [p \in Plan |-> Holders[p]] /\ Holders' = [p \in Plan |-> Holders'[p]]
<1> DEFINE F(p) == CASE plan[p].status = "absent" -> "none"
                     [] plan[p].status = "pending" -> "open"
                     [] plan[p].status = "committed" -> "accepted"
           G(p) == IF plan[p].status = "committed" THEN plan[p].by ELSE plan[p].claim
           O == [p \in Plan |-> F(p)]
           H == [p \in Plan |-> G(p)]
<1>1. Offers = O /\ Holders = H /\ Offers' = O' /\ Holders' = H'
  BY DEF Offers, Holders
<1> HIDE DEF F, G
<1>2. O = [p \in Plan |-> O[p]] /\ O' = [p \in Plan |-> O'[p]]
  OBVIOUS
<1>3. H = [p \in Plan |-> H[p]] /\ H' = [p \in Plan |-> H'[p]]
  OBVIOUS
<1>4. QED
  BY <1>1, <1>2, <1>3

LEMMA SameRowSamePage ==
  ASSUME TypeOK, TypeOK', NEW p \in Plan, RowSame(p)
  PROVE  Offers'[p] = Offers[p] /\ Holders'[p] = Holders[p]
BY BookOfRow, BookOfRowNext DEF RowSame

LEMMA BookStep == ASSUME TypeOK, TypeOK', ClaimInv, [Next]_vars PROVE [Book!Next]_<<Offers, Holders>>
<1> USE DEF Book!Next, Book!Open
<1>1. ASSUME \A p \in Plan : RowSame(p) PROVE UNCHANGED <<Offers, Holders>>
  BY <1>1, SameRowSamePage, BookFunctions
<1>2. ASSUME \A p \in Plan : RowGoes(p) \/ RowSame(p) PROVE Book!Next
  <2> DEFINE S == {p \in Plan : RowGoes(p)}
  <2>1. ASSUME NEW p \in S PROVE Offers[p] = "open" /\ Offers'[p] = "none" /\ Holders'[p] = None
    BY <2>1, BookOfRow, BookOfRowNext DEF RowGoes, NoRow, Pending
  <2>2. ASSUME NEW p \in Plan \ S PROVE Offers'[p] = Offers[p] /\ Holders'[p] = Holders[p]
    BY <1>2, SameRowSamePage
  <2>3. Book!Withdraw(S)
    BY <2>1, <2>2, BookFunctions DEF Book!Withdraw
  <2>4. QED
    BY <2>3
<1>3. ASSUME NEW m \in Plan, OnlyOffered(m) PROVE [Book!Next]_<<Offers, Holders>>
  <2>1. CASE plan[m].status = "committed"
    BY <1>1, <1>3, <2>1 DEF OnlyOffered, RowOffered, RowSame
  <2>2. CASE plan[m].status # "committed"
    <3>1. /\ Offers[m] # "accepted" /\ Offers'[m] = "open" /\ Holders'[m] = Holders[m]
          /\ \A p \in Plan \ {m} : Offers'[p] = Offers[p] /\ Holders'[p] = Holders[p]
      BY <1>3, <2>2, BookOfRow, BookOfRowNext, SameRowSamePage DEF OnlyOffered, RowOffered
    <3>2. Book!Offer(m)
      BY <3>1, BookFunctions DEF Book!Offer
    <3>3. QED
      BY <3>2
  <2>3. QED
    BY <2>1, <2>2
<1>4. ASSUME NEW m \in Plan, NEW x, OnlyClaims(m, x)
      PROVE  Offers[m] = "open" /\ Offers' = Offers /\ Holders' = [Holders EXCEPT ![m] = x]
  <2>1. /\ Offers[m] = "open" /\ Offers'[m] = "open" /\ Holders'[m] = x
        /\ \A p \in Plan \ {m} : Offers'[p] = Offers[p] /\ Holders'[p] = Holders[p]
    BY <1>4, BookOfRow, BookOfRowNext, SameRowSamePage DEF OnlyClaims, RowSame
  <2>2. QED
    BY <2>1, BookFunctions
<1>5. ASSUME NEW c \in Commit, CommitClaim(c) PROVE Book!Next
  <2>1. commit[c].plan \in Plan
    BY <1>5 DEF CommitClaim, TypeOK
  <2>2. Book!Hold(commit[c].plan, c)
    BY <1>4, <1>5, <2>1, ClaimEffect DEF Book!Hold
  <2>3. QED
    BY <2>1, <2>2
<1>6. ASSUME NEW c \in Commit, CommitRelease(c) PROVE [Book!Next]_<<Offers, Holders>>
  <2>1. commit[c].plan \in Plan
    BY <1>6 DEF CommitRelease, TypeOK
  <2>2. CASE plan' = plan
    BY <1>1, <2>2 DEF RowSame
  <2>3. CASE OnlyClaims(commit[c].plan, None)
    <3>1. Book!LetGo(commit[c].plan)
      BY <1>4, <2>1, <2>3 DEF Book!LetGo
    <3>2. QED
      BY <2>1, <3>1
  <2>4. QED
    BY <1>6, <2>2, <2>3, ReleaseEffect
<1>7. ASSUME NEW c \in Commit, NEW heard \in BOOLEAN, CommitMark(c, heard) PROVE Book!Next
  <2> DEFINE m == commit[c].plan
  <2>1. m \in Plan /\ OnlyMarks(m, c)
    BY <1>7, MarkEffect DEF CommitMark, TypeOK
  <2>2. /\ Offers[m] = "open" /\ Offers'[m] = "accepted" /\ Holders[m] = c /\ Holders'[m] = c
        /\ \A p \in Plan \ {m} : Offers'[p] = Offers[p] /\ Holders'[p] = Holders[p]
    BY <2>1, BookOfRow, BookOfRowNext, SameRowSamePage DEF OnlyMarks
  <2>3. Book!Accept(m)
    BY <2>1, <2>2, NoneIsNew, BookFunctions DEF Book!Accept
  <2>4. QED
    BY <2>1, <2>3
<1>8. ASSUME NEW c \in Commit,
             \/ CommitCheck(c) \/ CommitClaimMisses(c) \/ CommitRefuse(c) \/ CommitThrow(c)
             \/ CommitReleaseFails(c) \/ CommitMarkMisses(c) \/ \E q \in Plan : CommitBegin(c, q)
      PROVE  UNCHANGED <<Offers, Holders>>
  <2>1. plan' = plan
    BY <1>8 DEF CommitCheck, CommitClaimMisses, CommitRefuse, CommitThrow,
                CommitReleaseFails, CommitMarkMisses, CommitBegin
  <2>2. QED
    BY <1>1, <2>1 DEF RowSame
<1>9. CASE CommitNext
  BY <1>5, <1>6, <1>7, <1>8, <1>9 DEF CommitNext, CommitProceeds, CommitBatch
<1>10. CASE ResolveNext \/ PatchNext \/ TimeAndOwner
  <2>1. OthersTouch
    BY <1>10, OthersStep
  <2>2. QED
    BY <1>2, <1>3, <2>1 DEF OthersTouch
<1>11. CASE UNCHANGED vars
  BY <1>1, <1>11 DEF vars, RowSame
<1>12. QED
  BY <1>9, <1>10, <1>11 DEF Next

\* The table implements the book of plans: acceptance is final and goes to the
\* attempt that holds the claim when it marks.
THEOREM TableIsBook == Spec => BookSpec
<1>1. Init => Book!Init
  BY DEF Init, Book!Init, Offers, Holders, NoRow
<1>2. TypeOK /\ TypeOK' /\ ClaimInv /\ [Next]_vars => [Book!Next]_Book!vars
  BY BookStep DEF Book!vars
<1>3. QED
  BY <1>1, <1>2, ClaimAlways, PTL DEF Spec, BookSpec, Book!Spec

-----------------------------------------------------------------------------
(* Commits with their calendar calls.                                      *)

LEMMA CommitsStep == [CommitsNext]_cvars => [Next]_vars
<1>1. ASSUME NEW c \in Commit, Apply(c) PROVE [Next]_vars
  <2>1. CASE Batch(c)
    BY <2>1 DEF Batch, Next, CommitNext
  <2>2. CASE ~Batch(c)
    BY <1>1, <2>2 DEF Apply, ReadWindow, ReadWide, SyncBooking, UpdateChunk, RelocateChunk,
                      CreateChunk, DeleteEvent, MoveMeeting
  <2>3. QED
    BY <2>1, <2>2
<1>2. CASE Bookkeeping
  BY <1>2 DEF Bookkeeping, Next, CommitNext
<1>3. CASE User
  BY <1>3 DEF User, UserMovesEvent, UserFinishes
<1>4. CASE UNCHANGED cvars
  BY <1>4 DEF cvars
<1>5. QED
  BY <1>1, <1>2, <1>3, <1>4 DEF CommitsNext

\* Every behaviour of the commits with their calendar calls is a behaviour of the
\* table: the mark and the claim are never stepped around.
THEOREM CommitsUseTable == CommitSpec => TableSpec
<1>1. Init /\ CalendarInit => Init
  OBVIOUS
<1>2. QED
  BY CommitsStep, PTL DEF CommitSpec, TableSpec, Spec

\* So at most one of several commits that write the calendar is told that it
\* committed the plan.
THEOREM CommitsAcceptOnce == CommitSpec => []AcceptOnce
BY CommitsUseTable, AcceptedOnce, PTL DEF TableSpec

\* An attempt that is still writing the calendar loses its claim only after the
\* lease or together with the row.
THEOREM CommitsHoldClaim == CommitSpec => ClaimHeld
BY CommitsUseTable, ClaimIsHeld, PTL DEF TableSpec
-----------------------------------------------------------------------------
(* What an attempt knows.  Its plan is commit[c].plan throughout.            *)

\* An attempt has read the calendar, and nobody else has written since.
Knows(c) == work[c].phase # "read" /\ ~work[c].stale

\* Whoever has read the calendar is applying, and works off its own plan.
Planned(c) ==
    work[c].phase # "read" =>
      /\ commit[c].stage = "applying"
      /\ work[c].todo \subseteq DOMAIN Sched[commit[c].plan]
      /\ work[c].moves \subseteq DOMAIN MeetAt[commit[c].plan]
      /\ work[c].sync \in work[c].moves \cup {None}

\* A chunk still to be placed is proposed; its event is where it was found, and
\* after the wide scan a chunk without one in the window has what that found.
Found(c) ==
    \A k \in work[c].todo :
      /\ k \in Proposed(c)
      /\ work[c].seen[k] # None => work[c].seen[k] \in Copies(k)
      /\ work[c].seen[k] = None /\ work[c].phase = "apply" => Copies(k) = work[c].stray[k]

\* What is to be deleted: further copies of a chunk that has been placed, and
\* events of chunks that are not proposed.
Doomed(c) ==
    /\ work[c].phase = "wide" => work[c].extra = {}
    /\ \A e \in work[c].extra :
         /\ events[e].chunk \in Chunk \ work[c].todo
         /\ \E f \in Event \ work[c].extra : f \in Copies(events[e].chunk)
    /\ \A e \in work[c].drop : events[e].chunk \in Chunk \ Proposed(c)

\* When no chunk had two events: a chunk that needs no call is in its place, and
\* what is in the window and not proposed is to be deleted.
Placed(c) ==
    ~work[c].twin =>
      /\ work[c].extra = {}
      /\ \A k \in Chunk : \A e, f \in Copies(k) : e = f
      /\ \A k \in Proposed(c) \ work[c].todo :
           \E e \in Copies(k) : events[e].slot = Sched[commit[c].plan][k]
      /\ \A k \in Chunk \ Proposed(c) : CopiesIn(k, Window[commit[c].plan]) \subseteq work[c].drop

\* A meeting that is in the window and not in its place is to be moved; one whose
\* booking row is to be synced has been.
Moving(c) ==
    LET at == MeetAt[commit[c].plan] IN
    /\ \A m \in DOMAIN at :
         Live(m) /\ meet[m] \in Window[commit[c].plan] /\ meet[m] # at[m] => m \in work[c].moves
    /\ work[c].sync # None => meet[work[c].sync] = at[work[c].sync]

Fresh(c) == Found(c) /\ Doomed(c) /\ Placed(c) /\ Moving(c)

CommitInv ==
    /\ TypeOK /\ CommitTypeOK
    /\ \A c \in Commit : Planned(c) /\ (Knows(c) => Fresh(c))

-----------------------------------------------------------------------------
(* Starts, events and records.                                               *)

LEMMA Least == ASSUME NEW T, T \subseteq Nat, T # {} PROVE \E x \in T : \A y \in T : x <= y
<1>1. PICK x \in T : \A y \in T : ~(<<y, x>> \in OpToRel(<, Nat))
  BY NatLessThanWellFounded, WFMin, Zenon
<1>2. \A y \in T : ~(y < x)
  <2> SUFFICES ASSUME NEW y \in T, y < x PROVE FALSE
    OBVIOUS
  <2>1. x \in Nat /\ y \in Nat
    OBVIOUS
  <2> QED
    BY <1>1, <2>1, Zenon DEF OpToRel
<1> QED
  BY <1>2

\* A task that a plan schedules has an earliest start.
LEMMA EarliestIs ==
    ASSUME NEW p \in Plan, NEW t, Starts(p, t) # {}
    PROVE  /\ EarliestStart(p, t) \in Starts(p, t) \cap Slot
           /\ \A x \in Starts(p, t) : EarliestStart(p, t) <= x
<1>1. Starts(p, t) \subseteq Slot
  BY PlanBody DEF Starts
<1>2. Starts(p, t) \subseteq Nat
  BY <1>1, PlanBody
<1>3. \E s \in Starts(p, t) : \A x \in Starts(p, t) : s <= x
  BY <1>2, Least
<1> QED
  BY <1>1, <1>3 DEF EarliestStart

\* Placing a chunk on one of its events, or on a new one.
LEMMA PlacedEvent ==
    ASSUME CommitTypeOK, NEW e \in Event, NEW k \in Chunk, NEW s \in Slot,
           events' = [events EXCEPT ![e] = [chunk |-> k, slot |-> s]],
           events[e].chunk = k \/ events[e] = NoEvent
    PROVE  /\ events' \in [Event -> {NoEvent} \cup EventRec]
           /\ events'[e].chunk = k /\ events'[e].slot = s
           /\ \A f \in Event \ {e} : events'[f] = events[f]
           /\ \A f \in Event : events[f].chunk \in Chunk => events'[f].chunk = events[f].chunk
           /\ Copies(k)' = Copies(k) \cup {e}
           /\ \A j \in Chunk \ {k} : Copies(j)' = Copies(j)
<1> USE NoneIsNothing
<1>1. events \in [Event -> {NoEvent} \cup EventRec] /\ [chunk |-> k, slot |-> s] \in EventRec
  BY DEF CommitTypeOK, EventRec
<1>2. events' \in [Event -> {NoEvent} \cup EventRec]
  BY <1>1
<1>3. events'[e].chunk = k /\ events'[e].slot = s /\ s # None /\ k # None
  BY <1>1
<1>4. \A f \in Event \ {e} : events'[f] = events[f]
  BY <1>1
<1>5. events[e].chunk \in {k, None}
  BY DEF NoEvent
<1>6. \A f \in Event : events[f].chunk \in Chunk => events'[f].chunk = events[f].chunk
  BY <1>3, <1>4, <1>5
<1>7. Copies(k)' = Copies(k) \cup {e}
  BY <1>3, <1>4 DEF Copies
<1>8. \A j \in Chunk \ {k} : Copies(j)' = Copies(j)
  BY <1>3, <1>4, <1>5 DEF Copies
<1> QED
  BY <1>2, <1>3, <1>4, <1>6, <1>7, <1>8

LEMMA DeletedEvent ==
    ASSUME CommitTypeOK, NEW e \in Event, events' = [events EXCEPT ![e].slot = None]
    PROVE  /\ events' \in [Event -> {NoEvent} \cup EventRec]
           /\ \A f \in Event : events'[f].chunk = events[f].chunk
           /\ \A f \in Event \ {e} : events'[f] = events[f]
           /\ \A j : Copies(j)' = Copies(j) \ {e}
<1>1. events \in [Event -> {NoEvent} \cup EventRec] /\ events[e] \in {NoEvent} \cup EventRec
  BY DEF CommitTypeOK
<1>2. [events[e] EXCEPT !.slot = None] \in {NoEvent} \cup EventRec
  BY <1>1 DEF NoEvent, EventRec
<1>3. /\ [events[e] EXCEPT !.slot = None].chunk = events[e].chunk
      /\ [events[e] EXCEPT !.slot = None].slot = None
  BY <1>1 DEF NoEvent, EventRec
<1> DEFINE gone == [events[e] EXCEPT !.slot = None]
<1>4. events' = [events EXCEPT ![e] = gone]
  OBVIOUS
<1> HIDE DEF gone
<1>5. events'[e] = gone /\ \A f \in Event \ {e} : events'[f] = events[f]
  BY <1>1, <1>4
<1>6. events' \in [Event -> {NoEvent} \cup EventRec]
  BY <1>1, <1>2, <1>4 DEF gone
<1>7. gone.chunk = events[e].chunk /\ gone.slot = None
  BY <1>3 DEF gone
<1>8. \A j : Copies(j)' = Copies(j) \ {e}
  BY <1>5, <1>7 DEF Copies
<1> QED
  BY <1>5, <1>6, <1>7, <1>8

\* What a write of somebody else's does to what an attempt holds.
LEMMA StaleIs ==
    ASSUME CommitTypeOK, NEW d \in Commit
    PROVE  /\ Stale(d) \in WorkRec
           /\ work[d].phase = "read" => Stale(d) = work[d]
           /\ Stale(d).phase = work[d].phase /\ Stale(d).todo = work[d].todo
           /\ Stale(d).moves = work[d].moves /\ Stale(d).sync = work[d].sync
           /\ commit[d].stage = "applying" /\ work[d].phase # "read" => Stale(d).stale
<1>1. work[d] \in WorkRec
  BY DEF CommitTypeOK
<1> DEFINE known == work[d].stale \/ (commit[d].stage = "applying" /\ work[d].phase # "read")
<1>2. known \in BOOLEAN
  BY Zenon
<1>3. Stale(d) = [work[d] EXCEPT !.stale = known]
  BY <1>1 DEF Stale, WorkRec
<1>4. work[d].phase = "read" => work[d].stale = FALSE /\ known = FALSE
  <2> SUFFICES ASSUME work[d].phase = "read" PROVE work[d].stale = FALSE /\ known = FALSE
    OBVIOUS
  <2>1. work[d].stale = FALSE
    BY DEF CommitTypeOK, IdleWork
  <2>2. known = FALSE
    BY <2>1
  <2> QED
    BY <2>1, <2>2
<1>5. commit[d].stage = "applying" /\ work[d].phase # "read" => known
  OBVIOUS
<1> HIDE DEF known
<1> QED
  BY <1>1, <1>2, <1>3, <1>4, <1>5 DEF WorkRec

\* A call of c's on the calendar.
LEMMA WritesAre ==
    ASSUME CommitTypeOK, NEW c \in Commit, NEW rec \in WorkRec, Writes(c, rec)
    PROVE  /\ work' \in [Commit -> WorkRec] /\ work'[c] = rec
           /\ \A d \in Commit \ {c} : work'[d] = Stale(d)
BY StaleIs DEF Writes

-----------------------------------------------------------------------------
(* What leaves an attempt's knowledge alone, or ends it.                     *)

LEMMA PlanIs ==
    ASSUME TypeOK, NEW c \in Commit, commit[c].stage = "applying"
    PROVE  /\ commit[c].plan \in Plan /\ Window[commit[c].plan] \subseteq Slot
           /\ \A k \in DOMAIN Sched[commit[c].plan] :
                k \in Chunk /\ TaskOf[k] \in Task /\ Sched[commit[c].plan][k] \in Slot
           /\ \A m \in DOMAIN MeetAt[commit[c].plan] :
                m \in Meeting /\ m \in Task /\ MeetAt[commit[c].plan][m] \in Slot
<1>1. commit[c].plan \in Plan
  BY DEF TypeOK
<1> DEFINE p == commit[c].plan
<1> HIDE DEF p
<1>2. p \in Plan
  BY <1>1 DEF p
<1>3. /\ Window[p] \subseteq Slot
      /\ \A k \in DOMAIN Sched[p] : k \in Chunk /\ TaskOf[k] \in Task /\ Sched[p][k] \in Slot
      /\ \A m \in DOMAIN MeetAt[p] : m \in Meeting /\ m \in Task /\ MeetAt[p][m] \in Slot
  BY <1>2, PlanBody
<1> QED
  BY <1>2, <1>3 DEF p

\* Neither the calendar nor the liveness of a task has changed, and the attempt
\* holds what it held.
LEMMA Untouched ==
    ASSUME TypeOK, CommitTypeOK, NEW d \in Commit, Planned(d), Knows(d) => Fresh(d),
           work'[d] = work[d], work[d].phase # "read" => commit'[d] = commit[d],
           UNCHANGED <<events, meet>>, \A t \in Task : Live(t)' = Live(t)
    PROVE  Planned(d)' /\ (Knows(d)' => Fresh(d)')
<1>1. CASE work[d].phase = "read"
  BY <1>1 DEF Planned, Knows
<1>2. CASE work[d].phase # "read"
  <2>1. commit'[d] = commit[d] /\ commit[d].stage = "applying"
    BY <1>2 DEF Planned
  <2>2. Planned(d)'
    BY <2>1 DEF Planned
  <2>3. ASSUME Knows(d)' PROVE Fresh(d)'
    <3>1. Fresh(d)
      BY <2>3 DEF Knows
    <3>2. \A k : Copies(k)' = Copies(k)
      BY DEF Copies
    <3>3. \A k, S : CopiesIn(k, S)' = CopiesIn(k, S)
      BY <3>2 DEF CopiesIn
    <3>4. /\ \A k \in DOMAIN Sched[commit[d].plan] : TaskOf[k] \in Task
          /\ \A m \in DOMAIN MeetAt[commit[d].plan] : m \in Task
      BY <2>1, PlanIs
    <3>5. Proposed(d)' = Proposed(d)
      BY <2>1, <3>4 DEF Proposed
    <3>6. Found(d)'
      BY <3>1, <3>2, <3>5 DEF Fresh, Found
    <3>7. Doomed(d)'
      BY <3>1, <3>2, <3>5 DEF Fresh, Doomed
    <3>8. Placed(d)'
      BY <2>1, <3>1, <3>2, <3>3, <3>5 DEF Fresh, Placed
    <3>9. Moving(d)'
      BY <2>1, <3>1, <3>4 DEF Fresh, Moving
    <3> QED
      BY <3>6, <3>7, <3>8, <3>9 DEF Fresh
  <2> QED
    BY <2>2, <2>3
<1> QED
  BY <1>1, <1>2

\* Somebody else has written: nothing is known any more.
LEMMA Disturbed ==
    ASSUME CommitTypeOK, NEW d \in Commit, Planned(d), work'[d] = Stale(d), commit'[d] = commit[d]
    PROVE  Planned(d)' /\ (Knows(d)' => Fresh(d)')
BY StaleIs DEF Planned, Knows

-----------------------------------------------------------------------------
(* The calls on the chunk events.                                            *)

\* A chunk is placed on e, one of its copies or its first; of the others some are extras.
LEMMA ChunkPlaced ==
    ASSUME TypeOK, CommitTypeOK, NEW c \in Commit, NEW k \in Chunk, NEW e \in Event, NEW others,
           Planned(c), Knows(c), Fresh(c), Chunks(c, k), Place(c, k, e),
           UNCHANGED <<meet, task>>, commit'[c] = commit[c],
           others \subseteq Copies(k) \ {e}, e \in Copies(k) \/ (events[e] = NoEvent /\ Copies(k) = {}),
           work'[c] = [work[c] EXCEPT !.todo = @ \ {k}, !.extra = others]
    PROVE  Fresh(c)'
<1> USE NoneIsNothing
<1> DEFINE p == commit[c].plan
<1>1. work[c] \in WorkRec /\ work[c].phase = "apply" /\ k \in work[c].todo
  BY DEF CommitTypeOK, Chunks, Applying
<1>2. /\ work'[c].todo = work[c].todo \ {k} /\ work'[c].extra = others
      /\ work'[c].phase = "apply" /\ work'[c].seen = work[c].seen
      /\ work'[c].stray = work[c].stray /\ work'[c].drop = work[c].drop
      /\ work'[c].moves = work[c].moves /\ work'[c].sync = work[c].sync
      /\ work'[c].twin = work[c].twin
  BY <1>1 DEF WorkRec
<1>3. Sched[p][k] \in Slot
  BY <1>1, PlanIs DEF Planned, Chunks, Applying
<1>4. /\ events'[e].chunk = k /\ events'[e].slot = Sched[p][k]
      /\ \A f \in Event \ {e} : events'[f] = events[f]
      /\ \A f \in Event : events[f].chunk \in Chunk => events'[f].chunk = events[f].chunk
      /\ Copies(k)' = Copies(k) \cup {e}
      /\ \A j \in Chunk \ {k} : Copies(j)' = Copies(j)
  <2>1. events[e].chunk = k \/ events[e] = NoEvent
    BY DEF Copies
  <2>2. PICK s \in Slot : s = Sched[p][k]
    BY <1>3
  <2>3. events' = [events EXCEPT ![e] = [chunk |-> k, slot |-> s]]
    BY <2>2 DEF Place
  <2>4. /\ events'[e].chunk = k /\ events'[e].slot = s
        /\ \A f \in Event \ {e} : events'[f] = events[f]
        /\ \A f \in Event : events[f].chunk \in Chunk => events'[f].chunk = events[f].chunk
        /\ Copies(k)' = Copies(k) \cup {e}
        /\ \A j \in Chunk \ {k} : Copies(j)' = Copies(j)
    BY <2>1, <2>3, PlacedEvent
  <2> QED
    BY <2>2, <2>4
<1>5. Proposed(c)' = Proposed(c) /\ \A t : Live(t)' = Live(t)
  BY DEF Proposed, Live
<1>6. \A j \in Chunk \ {k} : e \notin Copies(j)
  BY DEF Copies, NoEvent
<1>7. p' = p
  OBVIOUS
<1>8. Proposed(c) \subseteq Chunk
  BY PlanIs DEF Proposed, Chunks, Applying
<1>a. Found(c)'
  <2>1. \A j \in work[c].todo \ {k} : j \in Chunk \ {k}
    BY <1>1 DEF WorkRec
  <2> QED
    BY <1>1, <1>2, <1>4, <1>5, <2>1 DEF Fresh, Found
<1>b. Doomed(c)'
  <2>1. \A f \in others : events'[f].chunk = k /\ f \in Event /\ f # e
    BY <1>4 DEF Copies
  <2>2. e \in Copies(k)'
    BY <1>4
  <2>3. \A f \in work[c].drop : events'[f].chunk \in Chunk \ Proposed(c)
    BY <1>1, <1>4 DEF Fresh, Doomed, WorkRec
  <2> QED
    BY <1>2, <1>5, <2>1, <2>2, <2>3 DEF Doomed
<1>c. Placed(c)'
  <2> SUFFICES ASSUME ~work[c].twin
               PROVE  /\ others = {}
                      /\ \A j \in Chunk : \A f, g \in Copies(j)' : f = g
                      /\ \A j \in Proposed(c) \ (work[c].todo \ {k}) :
                           \E f \in Copies(j)' : events'[f].slot = Sched[p][j]
                      /\ \A j \in Chunk \ Proposed(c) : CopiesIn(j, Window[p])' \subseteq work[c].drop
    BY <1>2, <1>5, <1>7 DEF Placed
  <2>0. Placed(c)
    BY DEF Fresh
  <2>1. \A j \in Chunk : \A f, g \in Copies(j) : f = g
    BY <2>0 DEF Placed
  <2>2. others = {}
    BY <2>1
  <2>3. \A j \in Chunk : \A f, g \in Copies(j)' : f = g
    BY <1>4, <2>1, <2>2
  <2>4. ASSUME NEW j \in Proposed(c) \ (work[c].todo \ {k})
        PROVE  \E f \in Copies(j)' : events'[f].slot = Sched[p][j]
    <3>1. CASE j = k
      BY <1>4, <3>1
    <3>2. CASE j # k
      <4>1. PICK f \in Copies(j) : events[f].slot = Sched[p][j]
        BY <2>0, <3>2 DEF Placed
      <4>2. f # e /\ f \in Event /\ f \in Copies(j)'
        BY <1>4, <1>6, <1>8, <3>2 DEF Copies
      <4> QED
        BY <1>4, <4>1, <4>2
    <3> QED
      BY <3>1, <3>2
  <2>5. ASSUME NEW j \in Chunk \ Proposed(c)
        PROVE  CopiesIn(j, Window[p])' \subseteq work[c].drop
    <3>1. j # k
      BY <1>1 DEF Fresh, Found
    <3>2. CopiesIn(j, Window[p])' = CopiesIn(j, Window[p])
      BY <1>4, <1>6, <1>7, <3>1 DEF CopiesIn, Copies
    <3> QED
      BY <2>0, <3>2 DEF Placed
  <2> QED
    BY <2>2, <2>3, <2>4, <2>5
<1>d. Moving(c)'
  BY <1>2, <1>5, <1>7 DEF Fresh, Moving
<1> QED
  BY <1>a, <1>b, <1>c, <1>d DEF Fresh

\* A call is about an event, a chunk of the plan, or a meeting of the plan.
LEMMA CallTypes ==
    ASSUME CommitTypeOK, NEW c \in Commit
    PROVE  /\ \A k \in Chunk : Done(c, k) \in WorkRec
           /\ \A k \in Chunk : \A x \in SUBSET Event : [Done(c, k) EXCEPT !.extra = x] \in WorkRec
           /\ \A e : [work[c] EXCEPT !.extra = @ \ {e}, !.drop = @ \ {e}] \in WorkRec
           /\ \A m \in Meeting : [work[c] EXCEPT !.sync = m] \in WorkRec
           /\ \A m \in Meeting :
                [work[c] EXCEPT !.sync = None, !.moves = @ \ {m}, !.moved = @ \cup {m}] \in WorkRec
           /\ \A x \in [Chunk -> SUBSET Event] :
                [work[c] EXCEPT !.phase = "apply", !.stray = x] \in WorkRec
<1>1. work[c] \in WorkRec
  BY DEF CommitTypeOK
<1> QED
  BY <1>1 DEF Done, WorkRec

LEMMA UpdateKnows ==
    ASSUME TypeOK, CommitTypeOK, NEW c \in Commit, NEW k \in Chunk, Planned(c), Knows(c), Fresh(c),
           UpdateChunk(c, k)
    PROVE  Fresh(c)'
<1>1. work[c] \in WorkRec /\ k \in work[c].todo /\ work[c].extra = {} /\ work[c].seen[k] # None
  BY DEF CommitTypeOK, UpdateChunk, Chunks, Applying
<1>2. PICK e \in Event : e = work[c].seen[k]
  BY <1>1 DEF WorkRec
<1>3. e \in Copies(k)
  BY <1>1, <1>2 DEF Fresh, Found
<1>4. Place(c, k, e) /\ Writes(c, Done(c, k)) /\ Chunks(c, k)
  BY <1>2 DEF UpdateChunk
<1>5. work'[c] = [work[c] EXCEPT !.todo = @ \ {k}, !.extra = {}]
  BY <1>1, <1>4 DEF Writes, Done, WorkRec
<1>6. UNCHANGED <<meet, task>> /\ commit'[c] = commit[c]
  BY DEF UpdateChunk, vars
<1> QED
  BY <1>3, <1>4, <1>5, <1>6, ChunkPlaced

LEMMA RelocateKnows ==
    ASSUME TypeOK, CommitTypeOK, NEW c \in Commit, NEW k \in Chunk, Planned(c), Knows(c), Fresh(c),
           RelocateChunk(c, k)
    PROVE  Fresh(c)'
<1>1. /\ work[c] \in WorkRec /\ k \in work[c].todo /\ work[c].phase = "apply"
      /\ work[c].seen[k] = None
  BY DEF CommitTypeOK, RelocateChunk, Chunks, Applying
<1>2. work[c].stray[k] = Copies(k)
  BY <1>1 DEF Fresh, Found
<1>3. PICK keep \in Copies(k) :
        /\ Place(c, k, keep)
        /\ Writes(c, [Done(c, k) EXCEPT !.extra = work[c].stray[k] \ {keep}])
  BY <1>2 DEF RelocateChunk
<1>4. PICK others : others = Copies(k) \ {keep}
  OBVIOUS
<1>5. work'[c] = [work[c] EXCEPT !.todo = @ \ {k}, !.extra = others]
  BY <1>1, <1>2, <1>3, <1>4 DEF Writes, Done, WorkRec
<1>6. UNCHANGED <<meet, task>> /\ commit'[c] = commit[c] /\ Chunks(c, k)
  BY DEF RelocateChunk, vars
<1>7. keep \in Event
  BY DEF Copies
<1> QED
  BY <1>3, <1>4, <1>5, <1>6, <1>7, ChunkPlaced

LEMMA CreateKnows ==
    ASSUME TypeOK, CommitTypeOK, NEW c \in Commit, NEW k \in Chunk, Planned(c), Knows(c), Fresh(c),
           CreateChunk(c, k)
    PROVE  Fresh(c)' /\ Copies(k) = {}
<1>1. /\ work[c] \in WorkRec /\ k \in work[c].todo /\ work[c].phase = "apply"
      /\ work[c].seen[k] = None /\ work[c].stray[k] = {} /\ work[c].extra = {}
  BY DEF CommitTypeOK, CreateChunk, Chunks, Applying
<1>2. Copies(k) = {}
  BY <1>1 DEF Fresh, Found
<1>3. PICK e \in Event : events[e] = NoEvent /\ Place(c, k, e)
  BY DEF CreateChunk
<1>5. work'[c] = [work[c] EXCEPT !.todo = @ \ {k}, !.extra = {}]
  BY <1>1 DEF CreateChunk, Writes, Done, WorkRec
<1>6. UNCHANGED <<meet, task>> /\ commit'[c] = commit[c] /\ Chunks(c, k)
  BY DEF CreateChunk, vars
<1> QED
  BY <1>2, <1>3, <1>5, <1>6, ChunkPlaced

\* A further copy goes while another stays, or what is not proposed goes.
LEMMA DeleteKnows ==
    ASSUME TypeOK, CommitTypeOK, NEW c \in Commit, NEW e \in Event, Planned(c), Knows(c), Fresh(c),
           DeleteEvent(c, e)
    PROVE  /\ Fresh(c)'
           /\ \A k \in Proposed(c) : Copies(k) # {} => Copies(k)' # {}
<1> DEFINE p == commit[c].plan
<1>1. work[c] \in WorkRec /\ work[c].phase = "apply" /\ commit[c].stage = "applying"
  BY DEF CommitTypeOK, DeleteEvent, Applying
<1>2. /\ work'[c].todo = work[c].todo /\ work'[c].extra = work[c].extra \ {e}
      /\ work'[c].phase = "apply" /\ work'[c].seen = work[c].seen
      /\ work'[c].stray = work[c].stray /\ work'[c].drop = work[c].drop \ {e}
      /\ work'[c].moves = work[c].moves /\ work'[c].sync = work[c].sync
      /\ work'[c].twin = work[c].twin
  BY <1>1 DEF DeleteEvent, Writes, WorkRec
<1>3. /\ \A f \in Event : events'[f].chunk = events[f].chunk
      /\ \A f \in Event \ {e} : events'[f] = events[f]
      /\ \A j : Copies(j)' = Copies(j) \ {e}
  BY DeletedEvent DEF DeleteEvent
<1>4. Proposed(c)' = Proposed(c) /\ (\A t : Live(t)' = Live(t)) /\ p' = p /\ UNCHANGED <<meet, task>>
  BY DEF DeleteEvent, vars, Proposed, Live
<1>5. \/ e \in work[c].extra
      \/ e \in work[c].drop /\ work[c].extra = {} /\ work[c].todo = {}
  BY DEF DeleteEvent
<1>6. \A j \in work[c].todo : Copies(j)' = Copies(j)
  <2> SUFFICES ASSUME NEW j \in work[c].todo, e \in Copies(j) PROVE FALSE
    BY <1>3
  <2>1. events[e].chunk = j
    BY DEF Copies
  <2> QED
    BY <1>5, <2>1 DEF Fresh, Doomed
<1>7. \A f \in Event \ work[c].extra : f # e \/ e \in work[c].drop
  BY <1>5
<1>8. \A k \in Proposed(c) : e \in Copies(k) => e \in work[c].extra
  BY <1>5 DEF Fresh, Doomed, Copies
<1>9. Proposed(c) \subseteq Chunk
  BY <1>1, PlanIs DEF Proposed
<1>a. Found(c)'
  BY <1>1, <1>2, <1>4, <1>6 DEF Fresh, Found
<1>b. Doomed(c)'
  <2>1. ASSUME NEW g \in work[c].extra \ {e}
        PROVE  /\ events'[g].chunk \in Chunk \ work[c].todo
               /\ \E f \in Event \ (work[c].extra \ {e}) : f \in Copies(events[g].chunk)'
    <3>1. g \in Event /\ e \in work[c].extra
      BY <1>1, <1>5 DEF WorkRec
    <3>2. PICK f \in Event \ work[c].extra : f \in Copies(events[g].chunk)
      BY DEF Fresh, Doomed
    <3>3. PICK j : j = events[g].chunk
      OBVIOUS
    <3>4. f # e /\ f \in Copies(j)' /\ events'[g].chunk = j
      BY <1>3, <3>1, <3>2, <3>3
    <3>5. f \in {x \in Event : events'[x].chunk = j /\ events'[x].slot # None}
      BY <3>4 DEF Copies
    <3>6. f \in Copies(events[g].chunk)'
      BY <3>4, <3>5 DEF Copies
    <3>7. j \in Chunk \ work[c].todo
      BY <3>3 DEF Fresh, Doomed
    <3> QED
      BY <3>4, <3>6, <3>7
  <2>2. \A f \in work[c].drop : events'[f].chunk \in Chunk \ Proposed(c)
    BY <1>1, <1>3 DEF Fresh, Doomed, WorkRec
  <2> QED
    BY <1>2, <1>4, <2>1, <2>2 DEF Doomed
<1>c. Placed(c)'
  <2> SUFFICES ASSUME ~work[c].twin
               PROVE  /\ work[c].extra \ {e} = {}
                      /\ \A j \in Chunk : \A f, g \in Copies(j)' : f = g
                      /\ \A j \in Proposed(c) \ work[c].todo :
                           \E f \in Copies(j)' : events'[f].slot = Sched[p][j]
                      /\ \A j \in Chunk \ Proposed(c) :
                           CopiesIn(j, Window[p])' \subseteq work[c].drop \ {e}
    BY <1>2, <1>4 DEF Placed
  <2>1. Placed(c)
    BY DEF Fresh
  <2>2. work[c].extra = {} /\ \A k \in Proposed(c) : e \notin Copies(k)
    BY <1>8, <2>1 DEF Placed
  <2>3. \A j \in Proposed(c) \ work[c].todo : \E f \in Copies(j)' : events'[f].slot = Sched[p][j]
    <3> SUFFICES ASSUME NEW j \in Proposed(c) \ work[c].todo
                 PROVE  \E f \in Copies(j)' : events'[f].slot = Sched[p][j]
      OBVIOUS
    <3>1. PICK f \in Copies(j) : events[f].slot = Sched[p][j]
      BY <2>1 DEF Placed
    <3>2. f # e /\ f \in Event
      BY <2>2 DEF Copies
    <3> QED
      BY <1>3, <3>1, <3>2
  <2>4. \A j \in Chunk : \A f, g \in Copies(j)' : f = g
    BY <1>3, <2>1 DEF Placed
  <2>5. ASSUME NEW j \in Chunk \ Proposed(c)
        PROVE  CopiesIn(j, Window[p])' \subseteq work[c].drop \ {e}
    <3>1. CopiesIn(j, Window[p])' = CopiesIn(j, Window[p]) \ {e}
      BY <1>3, <1>4 DEF CopiesIn, Copies
    <3> QED
      BY <2>1, <3>1 DEF Placed
  <2> QED
    BY <2>2, <2>3, <2>4, <2>5
<1>d. Moving(c)'
  BY <1>2, <1>4 DEF Fresh, Moving
<1>e. ASSUME NEW k \in Proposed(c), Copies(k) # {} PROVE Copies(k)' # {}
  <2>1. CASE e \notin Copies(k)
    BY <1>3, <1>e, <2>1
  <2>2. CASE e \in Copies(k)
    <3>1. e \in work[c].extra /\ events[e].chunk = k
      BY <1>8, <2>2 DEF Copies
    <3>2. PICK f \in Event \ work[c].extra : f \in Copies(k)
      BY <3>1 DEF Fresh, Doomed
    <3> QED
      BY <1>3, <3>1, <3>2
  <2> QED
    BY <2>1, <2>2
<1> QED
  BY <1>a, <1>b, <1>c, <1>d, <1>e DEF Fresh

-----------------------------------------------------------------------------
(* The calls on the meetings.                                                *)

\* Only a meeting, or what is left to do about meetings, has changed.
LEMMA MeetingsOnly ==
    ASSUME TypeOK, CommitTypeOK, NEW c \in Commit, Planned(c), Knows(c), Fresh(c),
           commit[c].stage = "applying",
           UNCHANGED <<events, task>>, commit'[c] = commit[c],
           work'[c].phase = work[c].phase, work'[c].todo = work[c].todo,
           work'[c].seen = work[c].seen, work'[c].stray = work[c].stray,
           work'[c].extra = work[c].extra, work'[c].drop = work[c].drop,
           work'[c].twin = work[c].twin, Moving(c)'
    PROVE  Fresh(c)'
<1>1. \A k : Copies(k)' = Copies(k)
  BY DEF Copies
<1>2. \A k, S : CopiesIn(k, S)' = CopiesIn(k, S)
  BY <1>1 DEF CopiesIn
<1>3. Proposed(c)' = Proposed(c)
  BY DEF Proposed, Live
<1>4. Found(c)'
  BY <1>1, <1>3 DEF Fresh, Found
<1>5. Doomed(c)'
  BY <1>1, <1>3 DEF Fresh, Doomed
<1>6. Placed(c)'
  BY <1>1, <1>2, <1>3 DEF Fresh, Placed
<1> QED
  BY <1>4, <1>5, <1>6 DEF Fresh

LEMMA MoveKnows ==
    ASSUME TypeOK, CommitTypeOK, NEW c \in Commit, NEW m \in Meeting, Planned(c), Knows(c), Fresh(c),
           MoveMeeting(c, m)
    PROVE  Fresh(c)'
<1> USE NoneIsNothing
<1> DEFINE at == MeetAt[commit[c].plan]
<1>1. /\ work[c] \in WorkRec /\ commit[c].stage = "applying" /\ work[c].phase # "read"
      /\ meet \in [Meeting -> Slot]
  BY DEF CommitTypeOK, MoveMeeting, Meets, Applying
<1>2. UNCHANGED <<events, task>> /\ commit'[c] = commit[c] /\ \A t : Live(t)' = Live(t)
  BY DEF MoveMeeting, vars, Live
<1>3. work'[c] = [work[c] EXCEPT !.sync = m]
  BY DEF MoveMeeting, Writes
<1>4. /\ work'[c].phase = work[c].phase /\ work'[c].todo = work[c].todo
      /\ work'[c].seen = work[c].seen /\ work'[c].stray = work[c].stray
      /\ work'[c].extra = work[c].extra /\ work'[c].drop = work[c].drop
      /\ work'[c].twin = work[c].twin
      /\ work'[c].sync = m /\ work'[c].moves = work[c].moves
  BY <1>1, <1>3 DEF WorkRec
<1>5. meet'[m] = at[m] /\ \A n \in Meeting \ {m} : meet'[n] = meet[n]
  BY <1>1 DEF MoveMeeting
<1>6. m \in work[c].moves /\ \A n \in DOMAIN at : n \in Meeting
  BY <1>1, PlanIs DEF MoveMeeting, Meets
<1>7. at' = at /\ Window[commit[c].plan]' = Window[commit[c].plan]
  BY <1>2
<1>8. Moving(c)'
  BY <1>2, <1>4, <1>5, <1>6, <1>7 DEF Fresh, Moving
<1> QED
  BY <1>1, <1>2, <1>4, <1>8, MeetingsOnly

LEMMA SyncKnows ==
    ASSUME TypeOK, CommitTypeOK, NEW c \in Commit, Planned(c), Knows(c), Fresh(c), SyncBooking(c)
    PROVE  Fresh(c)'
<1> USE NoneIsNothing
<1> DEFINE at == MeetAt[commit[c].plan]
<1>1. work[c] \in WorkRec /\ commit[c].stage = "applying" /\ work \in [Commit -> WorkRec]
  BY DEF CommitTypeOK, SyncBooking, Applying
<1>2. UNCHANGED <<events, task, meet>> /\ commit'[c] = commit[c] /\ \A t : Live(t)' = Live(t)
  BY DEF SyncBooking, vars, Live
<1>3. work'[c] = [work[c] EXCEPT !.sync = None, !.moves = @ \ {work[c].sync}, !.moved = @ \cup {work[c].sync}]
  BY <1>1 DEF SyncBooking, WorkRec
<1>4. /\ work'[c].phase = work[c].phase /\ work'[c].todo = work[c].todo
      /\ work'[c].seen = work[c].seen /\ work'[c].stray = work[c].stray
      /\ work'[c].extra = work[c].extra /\ work'[c].drop = work[c].drop
      /\ work'[c].twin = work[c].twin
      /\ work'[c].sync = None /\ work'[c].moves = work[c].moves \ {work[c].sync}
  BY <1>1, <1>3 DEF WorkRec
<1>5. work[c].sync # None
  BY DEF SyncBooking
<1>6. meet[work[c].sync] = at[work[c].sync]
  BY <1>5 DEF Fresh, Moving
<1>7. at' = at /\ Window[commit[c].plan]' = Window[commit[c].plan]
  BY <1>2
<1>8. Moving(c)'
  BY <1>2, <1>4, <1>5, <1>6, <1>7 DEF Fresh, Moving
<1> QED
  BY <1>1, <1>2, <1>4, <1>8, MeetingsOnly

-----------------------------------------------------------------------------
(* The reads.                                                                *)

LEMMA WindowReads ==
    ASSUME TypeOK, CommitTypeOK, NEW c \in Commit, ReadWindow(c)
    PROVE  /\ work'[c] \in WorkRec /\ work'[c].phase # "read"
           /\ work' = [work EXCEPT ![c] = work'[c]]
           /\ Planned(c)' /\ Fresh(c)'
<1> USE NoneIsNothing
<1> DEFINE p == commit[c].plan
           W == Window[p]
           want == Proposed(c)
<1>1. work \in [Commit -> WorkRec] /\ commit[c].stage = "applying"
  BY DEF CommitTypeOK, ReadWindow, Applying
<1>2. p \in Plan /\ W \subseteq Slot /\ want \subseteq Chunk
  BY <1>1, PlanIs DEF Proposed
<1>3. PICK seen \in [Chunk -> Event \cup {None}] :
        /\ \A k \in Chunk : IF CopiesIn(k, W) = {} THEN seen[k] = None ELSE seen[k] \in CopiesIn(k, W)
        /\ work' = [work EXCEPT ![c] = [IdleWork EXCEPT
             !.phase = IF \E k \in want : seen[k] = None THEN "wide" ELSE "apply",
             !.seen  = seen,
             !.todo  = {k \in want : seen[k] # None => events[seen[k]].slot # Sched[p][k]},
             !.drop  = {seen[k] : k \in Chunk \ want} \ {None},
             !.moves = {m \in DOMAIN MeetAt[p] : Live(m) /\ meet[m] \in W \ {MeetAt[p][m]}},
             !.twin  = \E k \in Chunk : \E e, f \in Copies(k) : e # f]]
  BY DEF ReadWindow
<1> DEFINE twins == \E k \in Chunk : \E e, f \in Copies(k) : e # f
           phase == IF \E k \in want : seen[k] = None THEN "wide" ELSE "apply"
           todo == {k \in want : seen[k] # None => events[seen[k]].slot # Sched[p][k]}
           drop == {seen[k] : k \in Chunk \ want} \ {None}
           moves == {m \in DOMAIN MeetAt[p] : Live(m) /\ meet[m] \in W \ {MeetAt[p][m]}}
           rec == [IdleWork EXCEPT !.phase = phase, !.seen = seen, !.todo = todo, !.drop = drop,
                                   !.moves = moves, !.twin = twins]
<1>4. twins \in BOOLEAN
  BY Zenon
<1>5. phase \in {"wide", "apply"} /\ todo \subseteq Chunk /\ drop \subseteq Event
  BY <1>2
<1>6. moves \subseteq DOMAIN MeetAt[p] /\ moves \subseteq Meeting
  BY <1>1, PlanIs
<1>7. work' = [work EXCEPT ![c] = rec]
  BY <1>3
<1>8. /\ rec \in WorkRec
      /\ rec.phase = phase /\ rec.seen = seen /\ rec.todo = todo /\ rec.drop = drop
      /\ rec.moves = moves /\ rec.twin = twins /\ rec.extra = {} /\ rec.sync = None
  <2> HIDE DEF twins, phase, todo, drop, moves
  <2> QED
    BY <1>4, <1>5, <1>6 DEF IdleWork, WorkRec
<1>9. work'[c] = rec /\ rec \in WorkRec /\ work' = [work EXCEPT ![c] = work'[c]]
  <2> HIDE DEF rec
  <2> QED
    BY <1>1, <1>7, <1>8
<1>10. commit'[c] = commit[c] /\ UNCHANGED <<events, meet, task>>
  BY DEF ReadWindow, vars, calendar
<1>11. /\ \A k : Copies(k)' = Copies(k)
       /\ \A k, S : CopiesIn(k, S)' = CopiesIn(k, S)
       /\ \A t : Live(t)' = Live(t)
       /\ Proposed(c)' = want
  BY <1>10 DEF Copies, CopiesIn, Live, Proposed
<1>12. /\ work'[c].phase = phase /\ work'[c].seen = seen /\ work'[c].todo = todo
       /\ work'[c].drop = drop /\ work'[c].moves = moves /\ work'[c].twin = twins
       /\ work'[c].extra = {} /\ work'[c].sync = None
  BY <1>8, <1>9
<1>13. \A k \in Chunk : seen[k] # None => seen[k] \in CopiesIn(k, W) /\ seen[k] \in Copies(k)
  BY <1>3 DEF CopiesIn
<1>a. Found(c)'
  <2>1. \A k \in todo : k \in want /\ (seen[k] # None => seen[k] \in Copies(k))
    BY <1>2, <1>13
  <2>2. phase = "apply" => \A k \in todo : seen[k] # None
    OBVIOUS
  <2> HIDE DEF twins, phase, todo, drop, moves, want
  <2> QED
    BY <1>11, <1>12, <2>1, <2>2 DEF Found
<1>b. Doomed(c)'
  <2>1. \A e \in drop : events'[e].chunk \in Chunk \ want
    BY <1>10, <1>13 DEF Copies
  <2> HIDE DEF twins, phase, todo, drop, moves, want
  <2> QED
    BY <1>11, <1>12, <2>1 DEF Doomed
<1>c. Placed(c)'
  <2> SUFFICES ASSUME ~twins
               PROVE  /\ \A k \in Chunk : \A e, f \in Copies(k) : e = f
                      /\ \A k \in want \ todo : \E e \in Copies(k) : events[e].slot = Sched[p][k]
                      /\ \A k \in Chunk \ want : CopiesIn(k, W) \subseteq drop
    <3> HIDE DEF twins, phase, todo, drop, moves, want
    <3> QED
      BY <1>10, <1>11, <1>12 DEF Placed
  <2>1. \A k \in Chunk : \A e, f \in Copies(k) : e = f
    OBVIOUS
  <2>2. \A k \in want \ todo : \E e \in Copies(k) : events[e].slot = Sched[p][k]
    BY <1>2, <1>13
  <2>3. ASSUME NEW k \in Chunk \ want, NEW e \in CopiesIn(k, W) PROVE e \in drop
    <3>1. seen[k] \in CopiesIn(k, W) /\ e \in Copies(k) /\ e \in Event
      BY <1>3, <2>3 DEF CopiesIn, Copies
    <3>2. e = seen[k]
      BY <1>13, <2>1, <3>1 DEF CopiesIn
    <3> QED
      BY <3>1, <3>2
  <2> QED
    BY <2>1, <2>2, <2>3
<1>d. Moving(c)'
  <2>1. \A m \in DOMAIN MeetAt[p] : Live(m) /\ meet[m] \in W /\ meet[m] # MeetAt[p][m] => m \in moves
    OBVIOUS
  <2> HIDE DEF twins, phase, todo, drop, moves, want
  <2> QED
    BY <1>10, <1>11, <1>12, <2>1 DEF Moving
<1>e. Planned(c)'
  <2>1. todo \subseteq DOMAIN Sched[p]
    BY DEF Proposed
  <2> HIDE DEF twins, phase, todo, drop, moves, want
  <2> QED
    BY <1>1, <1>6, <1>10, <1>12, <2>1 DEF Planned
<1>f. work'[c].phase # "read"
  <2> HIDE DEF phase
  <2> QED
    BY <1>5, <1>12
<1> QED
  BY <1>9, <1>a, <1>b, <1>c, <1>d, <1>e, <1>f DEF Fresh

LEMMA WideReads ==
    ASSUME TypeOK, CommitTypeOK, NEW c \in Commit, Planned(c), Knows(c) => Fresh(c), ReadWide(c)
    PROVE  /\ work'[c] \in WorkRec /\ work'[c].phase = "apply"
           /\ work' = [work EXCEPT ![c] = work'[c]]
           /\ Planned(c)' /\ (Knows(c)' => Fresh(c)')
<1> DEFINE stray == [k \in Chunk |-> IF k \in work[c].todo /\ work[c].seen[k] = None
                                     THEN Copies(k) ELSE {}]
           rec == [work[c] EXCEPT !.phase = "apply", !.stray = stray]
<1>1. work[c] \in WorkRec /\ work \in [Commit -> WorkRec] /\ work[c].phase = "wide"
  BY DEF CommitTypeOK, ReadWide, Applying
<1>2. work' = [work EXCEPT ![c] = rec]
  BY <1>1 DEF ReadWide, WorkRec
<1>3. stray \in [Chunk -> SUBSET Event]
  BY DEF Copies
<1>4. rec \in WorkRec /\ rec.phase = "apply" /\ rec.stray = stray
      /\ rec.seen = work[c].seen /\ rec.todo = work[c].todo /\ rec.extra = work[c].extra
      /\ rec.drop = work[c].drop /\ rec.moves = work[c].moves /\ rec.sync = work[c].sync
      /\ rec.stale = work[c].stale /\ rec.twin = work[c].twin
  <2> HIDE DEF stray
  <2> QED
    BY <1>1, <1>3 DEF WorkRec
<1>5. work'[c] = rec /\ work' = [work EXCEPT ![c] = work'[c]]
  <2> HIDE DEF rec
  <2> QED
    BY <1>1, <1>2
<1>6. /\ work'[c] \in WorkRec /\ work'[c].phase = "apply" /\ work'[c].stray = stray
      /\ work'[c].seen = work[c].seen /\ work'[c].todo = work[c].todo
      /\ work'[c].extra = work[c].extra /\ work'[c].drop = work[c].drop
      /\ work'[c].moves = work[c].moves /\ work'[c].sync = work[c].sync
      /\ work'[c].stale = work[c].stale /\ work'[c].twin = work[c].twin
  BY <1>4, <1>5
<1>7. commit'[c] = commit[c] /\ UNCHANGED <<events, meet, task>>
  BY DEF ReadWide, vars, calendar
<1>8. /\ \A k : Copies(k)' = Copies(k)
      /\ \A k, S : CopiesIn(k, S)' = CopiesIn(k, S)
      /\ \A t : Live(t)' = Live(t)
      /\ Proposed(c)' = Proposed(c)
  BY <1>7 DEF Copies, CopiesIn, Live, Proposed
<1>9. Planned(c)'
  <2> HIDE DEF stray
  <2> QED
    BY <1>1, <1>6, <1>7 DEF Planned
<1>10. ASSUME Knows(c)' PROVE Fresh(c)'
  <2>1. Fresh(c)
    BY <1>1, <1>6, <1>10 DEF Knows
  <2>2. \A k \in work[c].todo : work[c].seen[k] = None => stray[k] = Copies(k)
    BY <1>1 DEF WorkRec
  <2> HIDE DEF stray
  <2>3. Found(c)'
    BY <1>6, <1>8, <2>1, <2>2 DEF Fresh, Found
  <2>4. Doomed(c)'
    BY <1>1, <1>6, <1>7, <1>8, <2>1 DEF Fresh, Doomed
  <2>5. Placed(c)'
    BY <1>6, <1>7, <1>8, <2>1 DEF Fresh, Placed
  <2>6. Moving(c)'
    BY <1>6, <1>7, <1>8, <2>1 DEF Fresh, Moving
  <2> QED
    BY <2>3, <2>4, <2>5, <2>6 DEF Fresh
<1> QED
  BY <1>5, <1>6, <1>9, <1>10

-----------------------------------------------------------------------------
(* The steps.                                                                *)

\* The calls of one attempt that write the calendar and stale the others.
Call(c) ==
    \/ \E k \in Chunk : UpdateChunk(c, k) \/ RelocateChunk(c, k) \/ CreateChunk(c, k)
    \/ \E e \in Event : DeleteEvent(c, e)
    \/ \E m \in Meeting : MoveMeeting(c, m)

\* What every call does: it goes on with c's plan, and all the others are stale.
LEMMA CallGoesOn ==
    ASSUME TypeOK, CommitTypeOK, NEW c \in Commit, Planned(c), Call(c)
    PROVE  /\ UNCHANGED <<vars, booking, task, edits>>
           /\ work' \in [Commit -> WorkRec] /\ work'[c].phase = "apply" /\ work[c].phase = "apply"
           /\ work'[c].stale = work[c].stale
           /\ \A d \in Commit \ {c} : work'[d] = Stale(d)
           /\ Planned(c)'
           /\ events' \in [Event -> {NoEvent} \cup EventRec] /\ meet' \in [Meeting -> Slot]
<1> USE NoneIsNothing
<1> DEFINE p == commit[c].plan
<1>0. work[c] \in WorkRec /\ commit[c].stage = "applying" /\ work[c].phase = "apply"
  BY DEF CommitTypeOK, Call, UpdateChunk, RelocateChunk, CreateChunk, DeleteEvent, MoveMeeting,
         Chunks, Meets, Applying
<1>1. UNCHANGED <<vars, booking, task, edits>>
  BY DEF Call, UpdateChunk, RelocateChunk, CreateChunk, DeleteEvent, MoveMeeting
<1>2. events \in [Event -> {NoEvent} \cup EventRec] /\ meet \in [Meeting -> Slot]
  BY DEF CommitTypeOK
<1> DEFINE Goes(rec) ==
             /\ rec \in WorkRec /\ Writes(c, rec) /\ rec.phase = "apply"
             /\ rec.stale = work[c].stale /\ rec.todo \subseteq work[c].todo
             /\ rec.moves = work[c].moves /\ rec.sync \in rec.moves \cup {None}
<1>3. \E rec \in WorkRec : Goes(rec) /\ events' \in [Event -> {NoEvent} \cup EventRec]
                                     /\ meet' \in [Meeting -> Slot]
  <2>0. work[c].sync \in work[c].moves \cup {None}
    BY <1>0 DEF Planned
  <2>1. ASSUME NEW k \in Chunk, UpdateChunk(c, k) \/ CreateChunk(c, k)
        PROVE  Goes(Done(c, k)) /\ UNCHANGED meet
    <3>1. Writes(c, Done(c, k)) /\ UNCHANGED meet /\ Done(c, k) \in WorkRec
      BY <2>1, CallTypes DEF UpdateChunk, CreateChunk
    <3>2. /\ Done(c, k).phase = "apply" /\ Done(c, k).stale = work[c].stale
          /\ Done(c, k).todo \subseteq work[c].todo
          /\ Done(c, k).moves = work[c].moves /\ Done(c, k).sync = work[c].sync
      BY <1>0 DEF Done, WorkRec
    <3> QED
      BY <2>0, <3>1, <3>2
  <2>2. ASSUME NEW k \in Chunk, RelocateChunk(c, k)
        PROVE  \E x \in SUBSET Event : Goes([Done(c, k) EXCEPT !.extra = x]) /\ UNCHANGED meet
    <3>1. PICK keep : Writes(c, [Done(c, k) EXCEPT !.extra = work[c].stray[k] \ {keep}])
      BY <2>2 DEF RelocateChunk
    <3>2. PICK x \in SUBSET Event : x = work[c].stray[k] \ {keep}
      BY <1>0 DEF WorkRec
    <3>3. Writes(c, [Done(c, k) EXCEPT !.extra = x]) /\ UNCHANGED meet
      BY <2>2, <3>1, <3>2 DEF RelocateChunk
    <3>4. [Done(c, k) EXCEPT !.extra = x] \in WorkRec
      BY CallTypes
    <3>5. LET r == [Done(c, k) EXCEPT !.extra = x] IN
             /\ r.phase = "apply" /\ r.stale = work[c].stale /\ r.todo \subseteq work[c].todo
             /\ r.moves = work[c].moves /\ r.sync = work[c].sync
      BY <1>0 DEF Done, WorkRec
    <3> QED
      BY <2>0, <3>3, <3>4, <3>5
  <2>3. ASSUME NEW k \in Chunk, UpdateChunk(c, k) \/ RelocateChunk(c, k) \/ CreateChunk(c, k)
        PROVE  events' \in [Event -> {NoEvent} \cup EventRec]
    <3>1. PICK e \in Event : Place(c, k, e)
      <4>1. CASE UpdateChunk(c, k)
        BY <1>0, <4>1 DEF UpdateChunk, WorkRec
      <4>2. CASE RelocateChunk(c, k)
        BY <1>0, <4>2 DEF RelocateChunk, WorkRec
      <4>3. CASE CreateChunk(c, k)
        BY <4>3 DEF CreateChunk
      <4> QED
        BY <2>3, <4>1, <4>2, <4>3
    <3>2. k \in DOMAIN Sched[p]
      BY <1>0, <2>3 DEF Planned, UpdateChunk, RelocateChunk, CreateChunk, Chunks
    <3>3. Sched[p][k] \in Slot
      BY <1>0, <3>2, PlanIs
    <3>4. [chunk |-> k, slot |-> Sched[p][k]] \in EventRec
      BY <3>3 DEF EventRec
    <3> QED
      BY <1>2, <3>1, <3>4 DEF Place
  <2>4. ASSUME NEW e \in Event, DeleteEvent(c, e)
        PROVE  /\ Goes([work[c] EXCEPT !.extra = @ \ {e}, !.drop = @ \ {e}]) /\ UNCHANGED meet
               /\ events' \in [Event -> {NoEvent} \cup EventRec]
    <3>1. /\ Writes(c, [work[c] EXCEPT !.extra = @ \ {e}, !.drop = @ \ {e}]) /\ UNCHANGED meet
          /\ [work[c] EXCEPT !.extra = @ \ {e}, !.drop = @ \ {e}] \in WorkRec
      BY <2>4, CallTypes DEF DeleteEvent
    <3>2. LET r == [work[c] EXCEPT !.extra = @ \ {e}, !.drop = @ \ {e}] IN
             /\ r.phase = "apply" /\ r.stale = work[c].stale /\ r.todo \subseteq work[c].todo
             /\ r.moves = work[c].moves /\ r.sync = work[c].sync
      BY <1>0 DEF WorkRec
    <3>3. events' \in [Event -> {NoEvent} \cup EventRec]
      BY <2>4, DeletedEvent DEF DeleteEvent
    <3> QED
      BY <2>0, <3>1, <3>2, <3>3
  <2>5. ASSUME NEW m \in Meeting, MoveMeeting(c, m)
        PROVE  /\ Goes([work[c] EXCEPT !.sync = m]) /\ UNCHANGED events
               /\ meet' \in [Meeting -> Slot]
    <3>1. /\ Writes(c, [work[c] EXCEPT !.sync = m]) /\ UNCHANGED events /\ m \in work[c].moves
          /\ [work[c] EXCEPT !.sync = m] \in WorkRec
      BY <2>5, CallTypes DEF MoveMeeting, Meets
    <3>2. LET r == [work[c] EXCEPT !.sync = m] IN
             /\ r.phase = "apply" /\ r.stale = work[c].stale /\ r.todo \subseteq work[c].todo
             /\ r.moves = work[c].moves /\ r.sync = m
      BY <1>0 DEF WorkRec
    <3>3. MeetAt[p][m] \in Slot
      BY <1>0, <3>1, PlanIs DEF Planned
    <3>4. meet' \in [Meeting -> Slot]
      BY <1>2, <2>5, <3>3 DEF MoveMeeting
    <3> QED
      BY <3>1, <3>2, <3>4
  <2> HIDE DEF Goes
  <2>6. CASE \E k \in Chunk : UpdateChunk(c, k) \/ RelocateChunk(c, k) \/ CreateChunk(c, k)
    <3>1. PICK k \in Chunk : UpdateChunk(c, k) \/ RelocateChunk(c, k) \/ CreateChunk(c, k)
      BY <2>6
    <3>2. \E rec \in WorkRec : Goes(rec) /\ UNCHANGED meet
      BY <2>1, <2>2, <3>1 DEF Goes
    <3> QED
      BY <1>2, <2>3, <3>1, <3>2
  <2>7. CASE \E e \in Event : DeleteEvent(c, e)
    BY <1>2, <2>4, <2>7 DEF Goes
  <2>8. CASE \E m \in Meeting : MoveMeeting(c, m)
    BY <1>2, <2>5, <2>8 DEF Goes
  <2> QED
    BY <2>6, <2>7, <2>8 DEF Call
<1>4. PICK rec \in WorkRec : Goes(rec)
  BY <1>3
<1>5. work' \in [Commit -> WorkRec] /\ work'[c] = rec /\ \A d \in Commit \ {c} : work'[d] = Stale(d)
  BY <1>4, WritesAre
<1>6. Planned(c)'
  BY <1>0, <1>1, <1>4, <1>5 DEF Planned, vars
<1> QED
  BY <1>0, <1>1, <1>3, <1>4, <1>5, <1>6

LEMMA CallKnows ==
    ASSUME TypeOK, CommitTypeOK, NEW c \in Commit, Planned(c), Knows(c), Fresh(c), Call(c)
    PROVE  Fresh(c)'
BY UpdateKnows, RelocateKnows, CreateKnows, DeleteKnows, MoveKnows DEF Call

\* Writing the tasks schedules or unschedules them; none is finished or revived.
LEMMA TasksAre ==
    ASSUME TypeOK, CommitTypeOK, NEW c \in Commit, commit[c].stage = "applying",
           task' = TasksWritten(c)
    PROVE  /\ task' \in [Task -> TaskRec]
           /\ \A t \in Task : task'[t].status = "committed" => task'[t].at \in Slot
           /\ \A t \in Task : Live(t)' = Live(t)
<1> DEFINE p == commit[c].plan
<1>1. p \in Plan
  BY PlanIs
<1>2. ASSUME NEW t \in Task
      PROVE  /\ task'[t] \in TaskRec
             /\ task'[t].status = "committed" => task'[t].at \in Slot
             /\ Live(t)' = Live(t)
  <2> DEFINE moved == task[t].stamped \/ t \in work[c].moved
             status == IF ~Live(t) THEN task[t].status ELSE IF t \in Dropped[p] THEN "pending"
                       ELSE IF Starts(p, t) # {} THEN "committed" ELSE task[t].status
             at == IF ~Live(t) THEN task[t].at ELSE IF t \in Dropped[p] THEN None
                   ELSE IF Starts(p, t) # {} THEN EarliestStart(p, t) ELSE task[t].at
  <2>1. task[t] \in TaskRec /\ (task[t].status = "committed" => task[t].at \in Slot)
    BY DEF CommitTypeOK
  <2>2. moved \in BOOLEAN
    BY Zenon
  <2>3. Starts(p, t) # {} => EarliestStart(p, t) \in Slot
    <3>1. PICK q \in Plan : q = p
      BY <1>1
    <3>2. Starts(q, t) # {} => EarliestStart(q, t) \in Slot
      BY EarliestIs
    <3> QED
      BY <3>1, <3>2
  <2>4. task'[t] = [status |-> status, at |-> at, stamped |-> moved]
    BY DEF TasksWritten
  <2>5. status \in {"pending", "committed", "done"} /\ at \in Slot \cup {None}
    BY <2>1, <2>3 DEF TaskRec
  <2>6. status = "committed" => at \in Slot
    BY <2>1, <2>3 DEF Live
  <2>7. Live(t) <=> status \in {"pending", "committed"}
    BY <2>1 DEF Live
  <2> HIDE DEF moved, status, at
  <2>8. task'[t].status = status /\ task'[t].at = at /\ task'[t] \in TaskRec
    BY <2>2, <2>4, <2>5 DEF TaskRec
  <2>9. Live(t)' <=> status \in {"pending", "committed"}
    BY <2>8 DEF Live
  <2>10. Live(t)' = Live(t)
    BY <2>7, <2>9 DEF Live
  <2> QED
    BY <2>6, <2>8, <2>10
<1>3. task' \in [Task -> TaskRec]
  <2>1. task' = [t \in Task |-> task'[t]]
    BY DEF TasksWritten
  <2> QED
    BY <1>2, <2>1
<1> QED
  BY <1>2, <1>3

\* The steps of the table alone leave a commit that goes on applying as it is.
LEMMA ApplyingStays ==
    ASSUME TypeOK, Bookkeeping, NEW d \in Commit,
           commit[d].stage = "applying", commit'[d].stage = "applying"
    PROVE  commit'[d] = commit[d]
<1>1. CASE ResolveNext \/ PatchNext \/ TimeAndOwner
  BY <1>1 DEF ResolveNext, ResolveProceeds, ResolveStart, ResolveGivesUp, SupersedeSelect,
     SupersedeDelete, ResolveReturn, ResolveNoDiff, ResolveInsert, PatchNext, PatchWrite, PatchRead,
     TimeAndOwner, CleanupExpired, Expire, ClaimLapses, Discard
<1>2. CASE \E c \in Commit : CommitProceeds(c)
  <2>1. PICK c \in Commit : CommitProceeds(c)
    BY <1>2
  <2>2. commit \in [Commit -> CommitRec] /\ commit[c] \in CommitRec
    BY DEF TypeOK
  <2>3. CASE d # c
    BY <2>1, <2>2, <2>3 DEF CommitProceeds, CommitCheck, CommitClaim, CommitClaimMisses,
       CommitRefuse, CommitThrow, CommitRelease, CommitReleaseFails, CommitBegin
  <2>4. CASE d = c
    <3>1. CommitThrow(c)
      BY <2>1, <2>4 DEF CommitProceeds, CommitCheck, CommitClaim, CommitClaimMisses,
         CommitRefuse, CommitRelease, CommitReleaseFails, CommitBegin
    <3>2. commit'[c].stage = "releasing"
      BY <2>2, <3>1 DEF CommitThrow, CommitRec
    <3> QED
      BY <2>4, <3>2
  <2> QED
    BY <2>3, <2>4
<1> QED
  BY <1>1, <1>2 DEF Bookkeeping

LEMMA IdleIs == IdleWork \in WorkRec
BY DEF IdleWork, WorkRec

\* One lemma per kind of step: types, and what every attempt knows.
Known == \A d \in Commit : Planned(d) /\ (Knows(d) => Fresh(d))

LEMMA BookkeepingStep ==
    ASSUME TypeOK, CommitTypeOK, Known, Bookkeeping
    PROVE  CommitTypeOK' /\ Known'
<1>1. /\ UNCHANGED <<events, meet, booking, task, edits>>
      /\ work' = [c \in Commit |-> IF commit'[c].stage = "applying" THEN work[c] ELSE IdleWork]
  BY DEF Bookkeeping, calendar
<1>2. CommitTypeOK'
  BY <1>1, IdleIs DEF CommitTypeOK
<1>3. ASSUME NEW d \in Commit PROVE Planned(d)' /\ (Knows(d)' => Fresh(d)')
  <2>1. CASE commit'[d].stage # "applying"
    <3>1. work'[d].phase = "read"
      BY <1>1, <2>1 DEF IdleWork
    <3> QED
      BY <3>1 DEF Planned, Knows
  <2>2. CASE commit'[d].stage = "applying"
    <3>1. work'[d] = work[d]
      BY <1>1, <2>2
    <3>2. work[d].phase # "read" => commit'[d] = commit[d]
      BY <2>2, ApplyingStays DEF Known, Planned
    <3>3. \A t \in Task : Live(t)' = Live(t)
      BY <1>1 DEF Live
    <3> QED
      BY <1>1, <3>1, <3>2, <3>3, Untouched DEF Known
  <2> QED
    BY <2>1, <2>2
<1> QED
  BY <1>2, <1>3 DEF Known

LEMMA UserStep ==
    ASSUME TypeOK, CommitTypeOK, Known, User
    PROVE  CommitTypeOK' /\ Known'
<1> USE NoneIsNothing
<1>1. UNCHANGED <<vars, meet, booking>> /\ work' = [d \in Commit |-> Stale(d)]
  BY DEF User, UserMovesEvent, UserFinishes, UserEdit
<1>2. /\ events' \in [Event -> {NoEvent} \cup EventRec] /\ task' \in [Task -> TaskRec]
      /\ \A t \in Task : task'[t].status = "committed" => task'[t].at \in Slot
  <2>1. CASE \E e \in Event, s \in Slot \cup {None} : UserMovesEvent(e, s)
    <3>1. PICK e \in Event, s \in Slot \cup {None} : UserMovesEvent(e, s)
      BY <2>1
    <3>2. events \in [Event -> {NoEvent} \cup EventRec] /\ events[e] \in EventRec
      BY <3>1 DEF UserMovesEvent, CommitTypeOK, NoEvent
    <3>3. [events[e] EXCEPT !.slot = s] \in EventRec
      BY <3>2 DEF EventRec
    <3>4. events' \in [Event -> {NoEvent} \cup EventRec] /\ UNCHANGED task
      BY <3>1, <3>2, <3>3 DEF UserMovesEvent
    <3> QED
      BY <3>4 DEF CommitTypeOK
  <2>2. CASE \E t \in Task : UserFinishes(t)
    <3>1. PICK t \in Task : UserFinishes(t)
      BY <2>2
    <3>2. task \in [Task -> TaskRec] /\ [task[t] EXCEPT !.status = "done"] \in TaskRec
      BY DEF CommitTypeOK, TaskRec
    <3>3. [task[t] EXCEPT !.status = "done"].status = "done"
      BY <3>2 DEF CommitTypeOK, TaskRec
    <3> DEFINE new == [task[t] EXCEPT !.status = "done"]
    <3>4. task' = [task EXCEPT ![t] = new] /\ UNCHANGED events
      BY <3>1 DEF UserFinishes
    <3>5. new \in TaskRec /\ new.status = "done"
      BY <3>2, <3>3
    <3> HIDE DEF new
    <3>6. task' \in [Task -> TaskRec] /\ \A u \in Task : u # t => task'[u] = task[u]
      BY <3>2, <3>4, <3>5
    <3>7. task'[t].status = "done"
      BY <3>2, <3>4, <3>5
    <3> QED
      BY <3>4, <3>6, <3>7 DEF CommitTypeOK
  <2> QED
    BY <2>1, <2>2 DEF User
<1>3. work' \in [Commit -> WorkRec] /\ \A c \in Commit : work'[c].phase = "read" => work'[c] = IdleWork
  BY <1>1, StaleIs DEF CommitTypeOK
<1>4. CommitTypeOK'
  BY <1>1, <1>2, <1>3 DEF CommitTypeOK
<1>5. ASSUME NEW d \in Commit PROVE Planned(d)' /\ (Knows(d)' => Fresh(d)')
  BY <1>1, Disturbed DEF Known, vars
<1> QED
  BY <1>4, <1>5 DEF Known

LEMMA CallStep ==
    ASSUME TypeOK, CommitTypeOK, Known, NEW c \in Commit, Call(c)
    PROVE  CommitTypeOK' /\ Known'
<1>1. Planned(c) /\ (Knows(c) => Fresh(c))
  BY DEF Known
<1>2. /\ UNCHANGED <<vars, booking, task, edits>>
      /\ work' \in [Commit -> WorkRec] /\ work'[c].phase = "apply" /\ work[c].phase = "apply"
      /\ work'[c].stale = work[c].stale
      /\ \A d \in Commit \ {c} : work'[d] = Stale(d)
      /\ Planned(c)'
      /\ events' \in [Event -> {NoEvent} \cup EventRec] /\ meet' \in [Meeting -> Slot]
  BY <1>1, CallGoesOn
<1>3. \A d \in Commit : work'[d].phase = "read" => work'[d] = IdleWork
  BY <1>2, StaleIs DEF CommitTypeOK
<1>4. CommitTypeOK'
  BY <1>2, <1>3 DEF CommitTypeOK
<1>5. Knows(c)' => Fresh(c)'
  BY <1>1, <1>2, CallKnows DEF Knows
<1>6. ASSUME NEW d \in Commit \ {c} PROVE Planned(d)' /\ (Knows(d)' => Fresh(d)')
  BY <1>2, Disturbed DEF Known, vars
<1> QED
  BY <1>2, <1>4, <1>5, <1>6 DEF Known

LEMMA BookingSynced ==
    ASSUME TypeOK, CommitTypeOK, NEW c \in Commit, Planned(c), SyncBooking(c)
    PROVE  /\ work'[c] \in WorkRec /\ work'[c].phase # "read"
           /\ work' = [work EXCEPT ![c] = work'[c]]
           /\ Planned(c)' /\ booking' \in [Meeting -> Slot]
           /\ Knows(c)' => Knows(c)
<1> USE NoneIsNothing
<1> DEFINE p == commit[c].plan
           m == work[c].sync
           rec == [work[c] EXCEPT !.sync = None, !.moves = @ \ {m}, !.moved = @ \cup {m}]
<1>1. /\ work[c] \in WorkRec /\ work \in [Commit -> WorkRec] /\ booking \in [Meeting -> Slot]
      /\ commit[c].stage = "applying" /\ work[c].phase = "apply" /\ m # None
  BY DEF CommitTypeOK, SyncBooking, Applying
<1>2. m \in work[c].moves /\ m \in DOMAIN MeetAt[p] /\ m \in Meeting /\ MeetAt[p][m] \in Slot
  <2>1. m \in work[c].moves /\ work[c].moves \subseteq DOMAIN MeetAt[p]
    BY <1>1 DEF Planned
  <2> QED
    BY <1>1, <2>1, PlanIs
<1>3. rec \in WorkRec
  BY <1>1, <1>2, CallTypes
<1>4. work' = [work EXCEPT ![c] = rec]
  BY <1>1 DEF SyncBooking, WorkRec
<1>5. /\ rec.phase = "apply" /\ rec.stale = work[c].stale /\ rec.todo = work[c].todo
      /\ rec.sync = None /\ rec.moves \subseteq work[c].moves
  BY <1>1 DEF WorkRec
<1>6. booking' \in [Meeting -> Slot] /\ commit' = commit
  BY <1>1, <1>2 DEF SyncBooking, vars
<1> HIDE DEF rec
<1>7. work'[c] = rec /\ work' = [work EXCEPT ![c] = work'[c]]
  BY <1>1, <1>4
<1>8. Planned(c)'
  BY <1>1, <1>5, <1>6, <1>7 DEF Planned
<1>9. Knows(c)' => Knows(c)
  BY <1>1, <1>5, <1>7 DEF Knows
<1> QED
  BY <1>3, <1>5, <1>6, <1>7, <1>8, <1>9

\* A read, or the booking row: only what c holds changes, and that row.
LEMMA QuietStep ==
    ASSUME TypeOK, CommitTypeOK, Known, NEW c \in Commit,
           ReadWindow(c) \/ ReadWide(c) \/ SyncBooking(c)
    PROVE  CommitTypeOK' /\ Known'
<1>0. Planned(c) /\ (Knows(c) => Fresh(c)) /\ work \in [Commit -> WorkRec]
  BY DEF Known, CommitTypeOK
<1>1. UNCHANGED <<vars, events, meet, task>>
  BY DEF ReadWindow, ReadWide, SyncBooking, calendar
<1>2. /\ work'[c] \in WorkRec /\ work' = [work EXCEPT ![c] = work'[c]] /\ work'[c].phase # "read"
      /\ Planned(c)' /\ (Knows(c)' => Fresh(c)') /\ booking' \in [Meeting -> Slot]
  <2>1. CASE ReadWindow(c)
    BY <2>1, WindowReads DEF ReadWindow, calendar, CommitTypeOK
  <2>2. CASE ReadWide(c)
    BY <1>0, <2>2, WideReads DEF ReadWide, calendar, CommitTypeOK
  <2>3. CASE SyncBooking(c)
    BY <1>0, <2>3, BookingSynced, SyncKnows
  <2> QED
    BY <2>1, <2>2, <2>3
<1>3. /\ work' \in [Commit -> WorkRec] /\ \A d \in Commit \ {c} : work'[d] = work[d]
  <2>1. PICK rec \in WorkRec : rec = work'[c]
    BY <1>2
  <2>2. work' = [work EXCEPT ![c] = rec]
    BY <1>2, <2>1
  <2> QED
    BY <1>0, <2>2
<1>4. CommitTypeOK'
  BY <1>1, <1>2, <1>3 DEF CommitTypeOK
<1>5. ASSUME NEW d \in Commit \ {c} PROVE Planned(d)' /\ (Knows(d)' => Fresh(d)')
  <2>1. \A t \in Task : Live(t)' = Live(t)
    BY <1>1 DEF Live
  <2>2. commit'[d] = commit[d] /\ work'[d] = work[d] /\ UNCHANGED <<events, meet>>
    BY <1>1, <1>3 DEF vars
  <2> QED
    BY <2>1, <2>2, Untouched DEF Known
<1> QED
  BY <1>2, <1>4, <1>5 DEF Known

LEMMA BatchStep ==
    ASSUME TypeOK, CommitTypeOK, Known, NEW c \in Commit, Batch(c)
    PROVE  CommitTypeOK' /\ Known'
<1>1. /\ UNCHANGED <<events, meet, booking>> /\ task' = TasksWritten(c)
      /\ work' = [work EXCEPT ![c] = IdleWork] /\ commit[c].stage = "applying"
      /\ work \in [Commit -> WorkRec]
  BY DEF Batch, Ready, Applying, CommitTypeOK
<1>2. /\ task' \in [Task -> TaskRec]
      /\ \A t \in Task : task'[t].status = "committed" => task'[t].at \in Slot
      /\ \A t \in Task : Live(t)' = Live(t)
  BY <1>1, TasksAre
<1>3. /\ work' \in [Commit -> WorkRec] /\ work'[c] = IdleWork
      /\ \A d \in Commit \ {c} : work'[d] = work[d]
  BY <1>1, IdleIs
<1>4. CommitTypeOK'
  BY <1>1, <1>2, <1>3 DEF CommitTypeOK
<1>5. Planned(c)' /\ ~Knows(c)'
  BY <1>3 DEF Planned, Knows, IdleWork
<1>6. ASSUME NEW d \in Commit \ {c} PROVE Planned(d)' /\ (Knows(d)' => Fresh(d)')
  <2>1. commit'[d] = commit[d]
    BY DEF Batch, CommitBatch, CommitMark, CommitMarkMisses, TypeOK
  <2> QED
    BY <1>1, <1>2, <1>3, <2>1, Untouched DEF Known
<1> QED
  BY <1>4, <1>5, <1>6 DEF Known

LEMMA CommitStep == CommitInv /\ [CommitsNext]_cvars => CommitInv'
<1> SUFFICES ASSUME TypeOK, CommitTypeOK, Known, [CommitsNext]_cvars PROVE CommitInv'
  BY DEF CommitInv, Known
<1>1. TypeOK'
  BY CommitsStep, TypeStep
<1>2. CommitTypeOK' /\ Known'
  <2>1. CASE Bookkeeping
    BY <2>1, BookkeepingStep
  <2>2. CASE User
    BY <2>2, UserStep
  <2>3. ASSUME NEW c \in Commit, Apply(c) PROVE CommitTypeOK' /\ Known'
    <3>1. Call(c) \/ Batch(c) \/ ReadWindow(c) \/ ReadWide(c) \/ SyncBooking(c)
      BY <2>3 DEF Apply, Call
    <3> QED
      BY <3>1, CallStep, BatchStep, QuietStep
  <2>4. CASE UNCHANGED cvars
    <3>1. UNCHANGED <<vars, events, meet, booking, task, work>>
      BY <2>4 DEF cvars
    <3>2. CommitTypeOK'
      BY <3>1 DEF CommitTypeOK
    <3>3. \A t \in Task : Live(t)' = Live(t)
      BY <3>1 DEF Live
    <3>4. ASSUME NEW d \in Commit PROVE Planned(d)' /\ (Knows(d)' => Fresh(d)')
      BY <3>1, <3>3, Untouched DEF Known, vars
    <3> QED
      BY <3>2, <3>4 DEF Known
  <2> QED
    BY <2>1, <2>2, <2>3, <2>4 DEF CommitsNext
<1> QED
  BY <1>1, <1>2 DEF CommitInv, Known

LEMMA CalendarStart == CalendarInit => CommitTypeOK /\ Known
<1> SUFFICES ASSUME CalendarInit PROVE CommitTypeOK /\ Known
  OBVIOUS
<1>1. work = [c \in Commit |-> IdleWork]
  BY DEF CalendarInit
<1>2. work \in [Commit -> WorkRec] /\ \A c \in Commit : work[c] = IdleWork
  BY <1>1, IdleIs
<1>3. task \in [Task -> TaskRec] /\ \A t \in Task : task[t].status = "pending"
  BY DEF CalendarInit, TaskRec
<1>4. events \in [Event -> {NoEvent} \cup EventRec]
  BY DEF CalendarInit, EventRec
<1>5. CommitTypeOK
  BY <1>2, <1>3, <1>4 DEF CommitTypeOK, CalendarInit
<1>6. Known
  BY <1>2 DEF Known, Planned, Knows, IdleWork
<1> QED
  BY <1>5, <1>6

LEMMA OfferedTypes == OfferedInit => TypeOK
<1> SUFFICES ASSUME OfferedInit PROVE TypeOK
  OBVIOUS
<1>1. [NoRow EXCEPT !.status = "pending", !.tz = home] \in Row
  BY DEF OfferedInit, NoRow, Row
<1>2. \A p \in Plan : plan[p] = [NoRow EXCEPT !.status = "pending", !.tz = home]
  BY DEF OfferedInit
<1>3. plan \in [Plan -> Row] /\ \A p \in Plan : plan[p].tz = home
  BY <1>1, <1>2 DEF OfferedInit, NoRow
<1> QED
  BY <1>3 DEF OfferedInit, TypeOK, IdleResolve, ResolveRec, IdleCommit, CommitRec, IdlePatch, PatchRec

\* What an attempt knows is never wrong, from an empty table and from an offer.
LEMMA CommitAlways == CommitSpec \/ OfferedSpec => []CommitInv
<1>1. Init /\ CalendarInit => CommitInv
  BY TypeInit, CalendarStart DEF CommitInv, Known
<1>2. OfferedInit => CommitInv
  BY OfferedTypes, CalendarStart DEF CommitInv, Known, OfferedInit
<1> QED
  BY <1>1, <1>2, CommitStep, PTL DEF CommitSpec, OfferedSpec

-----------------------------------------------------------------------------
(* The theorems.                                                             *)

\* Placing a chunk takes no event away from any.
LEMMA PlacingAdds ==
    ASSUME TypeOK, CommitTypeOK, NEW c \in Commit, NEW k \in Chunk, Planned(c), Knows(c), Fresh(c),
           UpdateChunk(c, k) \/ RelocateChunk(c, k) \/ CreateChunk(c, k)
    PROVE  \A j \in Chunk : Copies(j) \subseteq Copies(j)'
<1>1. /\ work[c] \in WorkRec /\ k \in work[c].todo /\ work[c].phase = "apply"
      /\ commit[c].stage = "applying"
  BY DEF CommitTypeOK, UpdateChunk, RelocateChunk, CreateChunk, Chunks, Applying
<1>2. PICK s \in Slot : s = Sched[commit[c].plan][k]
  BY <1>1, PlanIs DEF Planned
<1>3. PICK e \in Event : Place(c, k, e) /\ (e \in Copies(k) \/ events[e] = NoEvent)
  <2>1. CASE UpdateChunk(c, k)
    BY <1>1, <2>1 DEF UpdateChunk, Fresh, Found, WorkRec, Copies
  <2>2. CASE RelocateChunk(c, k)
    <3>1. work[c].stray[k] = Copies(k)
      BY <1>1, <2>2 DEF RelocateChunk, Fresh, Found
    <3> QED
      BY <2>2, <3>1 DEF RelocateChunk, Copies
  <2>3. CASE CreateChunk(c, k)
    BY <2>3 DEF CreateChunk
  <2> QED
    BY <2>1, <2>2, <2>3
<1>4. events' = [events EXCEPT ![e] = [chunk |-> k, slot |-> s]]
  BY <1>2, <1>3 DEF Place
<1>5. events[e].chunk = k \/ events[e] = NoEvent
  BY <1>3 DEF Copies
<1>6. /\ events'[e].chunk = k
      /\ \A g \in Event \ {e} : events'[g] = events[g]
      /\ \A g \in Event : events[g].chunk \in Chunk => events'[g].chunk = events[g].chunk
      /\ Copies(k)' = Copies(k) \cup {e}
  BY <1>4, <1>5, PlacedEvent
<1>7. ASSUME NEW j \in Chunk, NEW f \in Copies(j) PROVE f \in Copies(j)'
  <2>1. CASE j = k
    BY <1>6, <2>1
  <2>2. CASE j # k
    <3>1. f \in Event /\ events[f].chunk = j /\ events[f].slot # None
      BY DEF Copies
    <3>2. f # e
      BY <1>6, <2>2, <3>1
    <3> QED
      BY <1>6, <3>1, <3>2 DEF Copies
  <2> QED
    BY <2>1, <2>2
<1> QED
  BY <1>7

LEMMA LosesNone ==
    ASSUME CommitInv, NEW c \in Commit, Apply(c), NEW k \in Proposed(c), Copies(k) # {},
           ~work[c].stale
    PROVE  Copies(k)' # {}
<1>1. TypeOK /\ CommitTypeOK /\ Planned(c) /\ (Knows(c) => Fresh(c))
  BY DEF CommitInv
<1>2. CASE UNCHANGED events
  BY <1>2 DEF Copies
<1>3. CASE Call(c)
  <2>1. work[c].phase = "apply" /\ commit[c].stage = "applying"
    BY <1>3 DEF Call, UpdateChunk, RelocateChunk, CreateChunk, DeleteEvent, MoveMeeting, Chunks,
                Meets, Applying
  <2>2. Knows(c) /\ Fresh(c) /\ k \in Chunk
    BY <1>1, <2>1, PlanIs DEF Knows, Proposed
  <2>3. CASE \E j \in Chunk : UpdateChunk(c, j) \/ RelocateChunk(c, j) \/ CreateChunk(c, j)
    BY <1>1, <2>2, <2>3, PlacingAdds
  <2>4. CASE \E e \in Event : DeleteEvent(c, e)
    BY <1>1, <2>2, <2>4, DeleteKnows
  <2>5. CASE \E m \in Meeting : MoveMeeting(c, m)
    BY <1>2, <2>5 DEF MoveMeeting
  <2> QED
    BY <1>3, <2>3, <2>4, <2>5 DEF Call
<1>4. Call(c) \/ UNCHANGED events
  BY DEF Apply, Call, ReadWindow, ReadWide, SyncBooking, Batch, calendar
<1> QED
  BY <1>2, <1>3, <1>4

LEMMA MarkShows ==
    ASSUME CommitInv, NEW c \in Commit, Marks(c), ~work[c].stale, ~work[c].twin
    PROVE  Shows(c) /\ TasksAgree(c)
<1> USE NoneIsNothing
<1> DEFINE p == commit[c].plan
<1>1. /\ commit[c].stage = "applying" /\ work[c].phase = "apply"
      /\ work[c].todo = {} /\ work[c].drop = {} /\ work[c].moves = {}
  BY DEF Marks, Batch, Ready, Applying
<1>2. Fresh(c) /\ TypeOK /\ CommitTypeOK
  BY <1>1 DEF CommitInv, Knows
<1>3. Proposed(c) \subseteq Chunk /\ p \in Plan
  BY <1>1, <1>2, PlanIs DEF Proposed
<1>4. /\ \A k \in Chunk : \A e, f \in Copies(k) : e = f
      /\ \A k \in Proposed(c) : \E e \in Copies(k) : events[e].slot = Sched[p][k]
      /\ \A k \in Chunk \ Proposed(c) : CopiesIn(k, Window[p]) = {}
  BY <1>1, <1>2 DEF Fresh, Placed
<1>5. \A k \in Proposed(c) : \E e \in Event : Copies(k) = {e} /\ events[e].slot = Sched[p][k]
  <2> SUFFICES ASSUME NEW k \in Proposed(c)
               PROVE  \E e \in Event : Copies(k) = {e} /\ events[e].slot = Sched[p][k]
    OBVIOUS
  <2>1. PICK e \in Copies(k) : events[e].slot = Sched[p][k]
    BY <1>4
  <2>2. Copies(k) = {e} /\ e \in Event
    BY <1>3, <1>4 DEF Copies
  <2> QED
    BY <2>1, <2>2
<1>6. \A m \in DOMAIN MeetAt[p] : Live(m) /\ meet[m] \in Window[p] => meet[m] = MeetAt[p][m]
  BY <1>1, <1>2 DEF Fresh, Moving
<1>7. Shows(c)
  BY <1>4, <1>5, <1>6 DEF Shows
<1>8. TasksAgree(c)
  <2> SUFFICES ASSUME NEW t \in Task \ Meeting, Live(t)
               PROVE  /\ t \in Dropped[p] => task'[t].status = "pending" /\ task'[t].at = None
                      /\ t \notin Dropped[p] /\ Starts(p, t) # {} =>
                           LET mine == {events[e].slot : e \in UNION {Copies(k) : k \in {k \in DOMAIN Sched[p] : TaskOf[k] = t}}}
                           IN  task'[t].at \in mine /\ \A s \in mine : task'[t].at <= s
    BY DEF TasksAgree
  <2> DEFINE own == {k \in DOMAIN Sched[p] : TaskOf[k] = t}
             mine == {events[e].slot : e \in UNION {Copies(k) : k \in own}}
  <2>1. task' = TasksWritten(c)
    BY DEF Marks, Batch
  <2>2. t \in Dropped[p] => task'[t].status = "pending" /\ task'[t].at = None
    BY <2>1 DEF TasksWritten
  <2>3. t \notin Dropped[p] /\ Starts(p, t) # {} => task'[t].at = EarliestStart(p, t)
    BY <2>1 DEF TasksWritten
  <2>4. \A k \in own : k \in Proposed(c)
    BY DEF Proposed
  <2>5. mine = {Sched[p][k] : k \in own}
    <3>1. ASSUME NEW s \in mine PROVE s \in {Sched[p][k] : k \in own}
      <4>1. PICK k \in own : \E e \in Copies(k) : s = events[e].slot
        BY <3>1
      <4>2. s = Sched[p][k]
        BY <1>5, <2>4, <4>1
      <4> QED
        BY <4>2
    <3>2. ASSUME NEW k \in own PROVE Sched[p][k] \in mine
      <4>1. PICK e \in Copies(k) : events[e].slot = Sched[p][k]
        BY <1>4, <2>4
      <4> QED
        BY <4>1
    <3> HIDE DEF mine, own
    <3> QED
      BY <3>1, <3>2
  <2>6. Starts(p, t) = {Sched[p][k] : k \in own}
    <3>1. DOMAIN MeetAt[p] \subseteq Meeting
      BY <1>1, <1>2, PlanIs
    <3> QED
      BY <3>1 DEF Starts
  <2>7. Starts(p, t) # {} =>
          /\ EarliestStart(p, t) \in Starts(p, t)
          /\ \A x \in Starts(p, t) : EarliestStart(p, t) <= x
    <3>1. PICK q \in Plan : q = p
      BY <1>3
    <3>2. Starts(q, t) # {} =>
          /\ EarliestStart(q, t) \in Starts(q, t)
          /\ \A x \in Starts(q, t) : EarliestStart(q, t) <= x
      BY EarliestIs
    <3> QED
      BY <3>1, <3>2
  <2>8. mine = Starts(p, t)
    BY <2>5, <2>6
  <2> HIDE DEF mine
  <2>9. t \notin Dropped[p] /\ Starts(p, t) # {} =>
           task'[t].at \in mine /\ \A s \in mine : task'[t].at <= s
    BY <2>3, <2>7, <2>8
  <2> QED
    BY <2>2, <2>9 DEF mine
<1> QED
  BY <1>7, <1>8

\* Types of the calendar, the tasks and what the attempts hold; no event loses its
\* chunk tag, and a committed task has a time.
THEOREM CommitsTyped == CommitSpec => []CommitTypeOK
BY CommitAlways, PTL DEF CommitInv

\* The duplicate-mint guard: an attempt that nobody has disturbed since its reads
\* creates an event only for a chunk that has none anywhere.
THEOREM MintsOnce == CommitSpec \/ OfferedSpec => NeverMintsTwice
<1>1. CommitInv /\ [CommitsNext]_cvars =>
        [\A c \in Commit, k \in Chunk : CreateChunk(c, k) /\ Copies(k) # {} => work[c].stale]_cvars
  <2> SUFFICES ASSUME CommitInv, NEW c \in Commit, NEW k \in Chunk, CreateChunk(c, k), ~work[c].stale
               PROVE  Copies(k) = {}
    OBVIOUS
  <2>1. Knows(c)
    BY DEF Knows, CreateChunk, Chunks, Applying
  <2> QED
    BY <2>1, CreateKnows DEF CommitInv
<1> QED
  BY <1>1, CommitAlways, PTL DEF NeverMintsTwice, CommitSpec, OfferedSpec

\* Whatever call fails and whenever the worker dies, an undisturbed attempt never
\* takes away the last event of a chunk it is to place.
THEOREM ChunksAreKept == CommitSpec \/ OfferedSpec => NoChunkLost
<1>1. CommitInv /\ [CommitsNext]_cvars =>
        [\A c \in Commit : Apply(c) => \A k \in Proposed(c) :
           Copies(k) # {} => Copies(k)' # {} \/ work[c].stale]_cvars
  BY LosesNone
<1> QED
  BY <1>1, CommitAlways, PTL DEF NoChunkLost, CommitSpec, OfferedSpec

\* A re-click converges: an undisturbed attempt that marks its plan leaves the
\* calendar and the tasks as the plan says.
THEOREM MarksAreTrue == CommitSpec \/ OfferedSpec => MarkMeansApplied
<1>1. CommitInv /\ [CommitsNext]_cvars =>
        [\A c \in Commit : Marks(c) /\ ~work[c].stale /\ ~work[c].twin
           => Shows(c) /\ TasksAgree(c)]_cvars
  BY MarkShows
<1> QED
  BY <1>1, CommitAlways, PTL DEF MarkMeansApplied, CommitSpec, OfferedSpec
=============================================================================
