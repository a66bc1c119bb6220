----------------------------- MODULE ProposedPlans ------------------------------
(***************************************************************************)
(* The proposed_plans table of one user, and everything that writes it:    *)
(* resolves that insert a plan and supersede the week's others, commits    *)
(* that claim a plan, apply it and mark it, PATCH /v1/timezone, the        *)
(* owner's DELETE and the daily clean-up.  Each D1 statement (or batch) is *)
(* one step; what a request read stays in its own record until it is used. *)
(*                                                                         *)
(* Every request below runs at most once.  A request that stops taking     *)
(* steps is one whose worker was killed: Spec promises no progress, and    *)
(* FairSpec only that a resolve which inserted its plan is not killed.     *)
(***************************************************************************)
CONSTANTS Plan,     \* plan hashes (a hash determines the plan's content)
          Week,     \* local calendar weeks
          Zone,     \* canonical time zones
          WeekOf,   \* WeekOf[p][z]: the week of zone z that p's window starts in
          Resolve,  \* resolve requests
          Commit,   \* commit requests (POST commit, POST accept)
          Patch,    \* PATCH /v1/timezone requests
          None

ASSUME WeekOfType == WeekOf \in [Plan -> [Zone -> Week]]
\* What a commit request is told: 404, 200 already, 410, 409, 200, an error.
Answer == {"not_found", "already", "expired", "in_progress", "committed", "failed"}

ASSUME NoneIsNew == None \notin Commit /\ None \notin Plan /\ None \notin Zone /\ None \notin Answer

VARIABLES home,     \* the user's effective zone: home_tz ?? SCHEDULER_TZ
          plan,     \* the rows, by plan hash
          resolve,  \* what each resolve request holds
          commit,   \* what each commit request holds
          patch     \* what each PATCH request holds

vars == <<home, plan, resolve, commit, patch>>

---------------------------------------------------------------------------------
(* The rows.  expired: expires_at has passed.  lapsed: the claim is older than
   COMMIT_CLAIM_LEASE_MS.  by is history, in no column: the commit that marked
   the plan.                                                                    *)

Row == [status : {"absent", "pending", "committed"}, tz : Zone \cup {None},
        expired : BOOLEAN, claim : Commit \cup {None}, lapsed : BOOLEAN,
        by : Commit \cup {None}]

NoRow == [status |-> "absent", tz |-> None, expired |-> FALSE, claim |-> None,
          lapsed |-> FALSE, by |-> None]

Pending(p)     == plan[p].status = "pending"
InWeek(p, z, w) == plan[p].tz = z /\ z \in Zone /\ WeekOf[p][z] = w

\* The rows without S, pending or not there at all.
Without(S) == [p \in Plan |-> IF p \in S /\ Pending(p) THEN NoRow ELSE plan[p]]

IdleResolve == [stage |-> "idle", tz |-> None, week |-> None, plan |-> None,
                doomed |-> {}]
IdleCommit  == [stage |-> "idle", tz |-> None, plan |-> None, answer |-> None]
IdlePatch   == [stage |-> "idle", from |-> None, to |-> None]

Init == /\ home \in Zone
        /\ plan    = [p \in Plan |-> NoRow]
        /\ resolve = [r \in Resolve |-> IdleResolve]
        /\ commit  = [c \in Commit |-> IdleCommit]
        /\ patch   = [u \in Patch |-> IdlePatch]

---------------------------------------------------------------------------------
(* A resolve of one week: read the zone, the tasks and the calendar; solve;
   insert; select the week's other pending plans; delete them; answer.          *)

ResolveStart(r, w) ==
  /\ resolve[r].stage = "idle"
  /\ resolve' = [resolve EXCEPT ![r] = [@ EXCEPT !.stage = "solving", !.tz = home,
                                                 !.week = w]]
  /\ UNCHANGED <<home, plan, commit, patch>>

\* The week is over, or no solver produced a solution: nothing is inserted.
ResolveGivesUp(r) ==
  /\ resolve[r].stage = "solving"
  /\ resolve' = [resolve EXCEPT ![r] = [@ EXCEPT !.stage = "done"]]
  /\ UNCHANGED <<home, plan, commit, patch>>

\* Mutant of Upserted: the re-arm reopens a committed row.
UpsertedReopens(p, r) ==
  [plan[p] EXCEPT !.status = "pending", !.tz = resolve[r].tz, !.expired = FALSE]

\* INSERT ... ON CONFLICT: a pending row of the same hash is re-armed and keeps
\* its claim; a committed row is left alone.
Upserted(p, r) ==
  IF plan[p].status = "committed" THEN plan[p]
  ELSE [plan[p] EXCEPT !.status = "pending", !.tz = resolve[r].tz, !.expired = FALSE]

ResolveInsert(r, p) ==
  /\ resolve[r].stage = "solving"
  /\ WeekOf[p][resolve[r].tz] = resolve[r].week
  /\ plan' = [plan EXCEPT ![p] = Upserted(p, r)]
  /\ resolve' = [resolve EXCEPT ![r] = [@ EXCEPT !.stage = "inserted", !.plan = p]]
  /\ UNCHANGED <<home, commit, patch>>

\* Mutants of OthersOfWeek: expired plans are left alone, and the week is taken in
\* the user's zone instead of the resolve's.
OthersUnexpired(r) ==
  {p \in Plan \ {resolve[r].plan} :
     Pending(p) /\ ~plan[p].expired /\ InWeek(p, resolve[r].tz, resolve[r].week)}
OthersAtHome(r) ==
  {p \in Plan \ {resolve[r].plan} :
     Pending(p) /\ InWeek(p, home, WeekOf[resolve[r].plan][home])}

\* The pending plans of resolve r's zone and week, its own excluded.
OthersOfWeek(r) ==
  {p \in Plan \ {resolve[r].plan} :
     Pending(p) /\ InWeek(p, resolve[r].tz, resolve[r].week)}

SupersedeSelect(r) ==
  /\ resolve[r].stage = "inserted"
  /\ resolve' = [resolve EXCEPT ![r] = [@ EXCEPT
       !.doomed = OthersOfWeek(r),
       !.stage  = IF OthersOfWeek(r) = {} THEN "superseded" ELSE "selected"]]
  /\ UNCHANGED <<home, plan, commit, patch>>

SupersedeDelete(r) ==
  /\ resolve[r].stage = "selected"
  /\ plan' = Without(resolve[r].doomed)
  /\ resolve' = [resolve EXCEPT ![r] = [@ EXCEPT !.stage = "superseded"]]
  /\ UNCHANGED <<home, commit, patch>>

\* The plan stays on offer: POST /resolve answers with it, the webhook's and the
\* cron's resolves mail its accept link (or are refused the mail), the row as it is.
ResolveReturn(r) ==
  /\ resolve[r].stage = "superseded"
  /\ resolve' = [resolve EXCEPT ![r] = [@ EXCEPT !.stage = "done"]]
  /\ UNCHANGED <<home, plan, commit, patch>>

\* The webhook's resolve and the Monday cron's delete a plan whose diff from the
\* calendar is empty: it would never be mailed, and the accept page would offer it.
ResolveNoDiff(r) ==
  /\ resolve[r].stage = "superseded"
  /\ plan' = Without({resolve[r].plan})
  /\ resolve' = [resolve EXCEPT ![r] = [@ EXCEPT !.stage = "done"]]
  /\ UNCHANGED <<home, commit, patch>>

---------------------------------------------------------------------------------
(* Time, the owner and the clean-up.                                            *)

Expire(p) ==
  /\ Pending(p) /\ ~plan[p].expired
  /\ plan' = [plan EXCEPT ![p] = [@ EXCEPT !.expired = TRUE]]
  /\ UNCHANGED <<home, resolve, commit, patch>>

ClaimLapses(p) ==
  /\ Pending(p) /\ plan[p].claim # None /\ ~plan[p].lapsed
  /\ plan' = [plan EXCEPT ![p] = [@ EXCEPT !.lapsed = TRUE]]
  /\ UNCHANGED <<home, resolve, commit, patch>>

\* DELETE /v1/plans/{plan_hash}; claimed or not, a pending row goes.
Discard(p) ==
  /\ Pending(p)
  /\ plan' = Without({p})
  /\ UNCHANGED <<home, resolve, commit, patch>>

CleanupExpired ==
  /\ \E p \in Plan : Pending(p) /\ plan[p].expired
  /\ plan' = Without({p \in Plan : plan[p].expired})
  /\ UNCHANGED <<home, resolve, commit, patch>>

PatchRead(u, z) ==
  /\ patch[u].stage = "idle"
  /\ patch' = [patch EXCEPT ![u] = [stage |-> "read", from |-> home, to |-> z]]
  /\ UNCHANGED <<home, plan, resolve, commit>>

\* One batch.  Whether the pending plans go depends on the zone read before it.
PatchWrite(u) ==
  /\ patch[u].stage = "read"
  /\ home' = patch[u].to
  /\ plan' = IF patch[u].from = patch[u].to THEN plan ELSE Without(Plan)
  /\ patch' = [patch EXCEPT ![u] = [@ EXCEPT !.stage = "done"]]
  /\ UNCHANGED <<resolve, commit>>

---------------------------------------------------------------------------------
(* A commit: read the zone; check the plan; claim it; apply it (PlanCommit has
   the calendar side); mark it, or release the claim.                           *)

CommitBegin(c, p) ==
  /\ commit[c].stage = "idle"
  /\ commit' = [commit EXCEPT ![c] = [@ EXCEPT !.stage = "begun", !.plan = p, !.tz = home]]
  /\ UNCHANGED <<home, plan, resolve, patch>>

\* checkPlanCommittable: None when the plan can be committed now.
Refusal(c) == LET row == plan[commit[c].plan] IN
  CASE row.status = "absent"                               -> "not_found"
    [] row.status = "committed"                            -> "already"
    [] row.status = "pending" /\ row.tz # commit[c].tz      -> "not_found"
    [] row.status = "pending" /\ row.tz = commit[c].tz /\ row.expired  -> "expired"
    [] row.status = "pending" /\ row.tz = commit[c].tz /\ ~row.expired -> None

CommitCheck(c) ==
  /\ commit[c].stage = "begun"
  /\ commit' = [commit EXCEPT ![c] = [@ EXCEPT
       !.answer = Refusal(c),
       !.stage  = IF Refusal(c) = None THEN "checked" ELSE "done"]]
  /\ UNCHANGED <<home, plan, resolve, patch>>

\* Mutant of Claimable: the lease is not looked at.
ClaimableLeaseless(p) == Pending(p)

Claimable(p) == Pending(p) /\ (plan[p].claim = None \/ plan[p].lapsed)

CommitClaim(c) == LET p == commit[c].plan IN
  /\ commit[c].stage = "checked"
  /\ Claimable(p)
  /\ plan' = [plan EXCEPT ![p] = [@ EXCEPT !.claim = c, !.lapsed = FALSE]]
  /\ commit' = [commit EXCEPT ![c] = [@ EXCEPT !.stage = "applying"]]
  /\ UNCHANGED <<home, resolve, patch>>

CommitClaimMisses(c) ==
  /\ commit[c].stage = "checked"
  /\ ~Claimable(commit[c].plan)
  /\ commit' = [commit EXCEPT ![c] = [@ EXCEPT !.stage = "unclaimed"]]
  /\ UNCHANGED <<home, plan, resolve, patch>>

\* claimRefusal: read the row again to say why this attempt stops.
SecondLook(c) == CASE plan[commit[c].plan].status = "absent"    -> "not_found"
                   [] plan[commit[c].plan].status = "committed" -> "already"
                   [] plan[commit[c].plan].status = "pending"   -> "in_progress"

CommitRefuse(c) ==
  /\ commit[c].stage \in {"unclaimed", "unmarked"}
  /\ commit' = [commit EXCEPT ![c] = [@ EXCEPT
       !.answer = SecondLook(c),
       !.stage  = IF commit[c].stage = "unclaimed" THEN "done" ELSE "releasing"]]
  /\ UNCHANGED <<home, plan, resolve, patch>>

\* A calendar or D1 call threw before the mark.
CommitThrow(c) ==
  /\ commit[c].stage \in {"applying", "unmarked"}
  /\ commit' = [commit EXCEPT ![c] = [@ EXCEPT !.stage = "releasing", !.answer = "failed"]]
  /\ UNCHANGED <<home, plan, resolve, patch>>

\* Mutant of Markable: the UPDATE names the plan hash only.
MarkableByHash(c) == plan[commit[c].plan].status # "absent"

Markable(c) == Pending(commit[c].plan) /\ plan[commit[c].plan].claim = c

\* Mutant of Accepted: the mark leaves the claim on the row.
AcceptedClaimed(m, c) == [plan EXCEPT ![m] = [@ EXCEPT !.status = "committed", !.by = c]]

\* The rows once c's plan m is accepted.
Accepted(m, c) == [plan EXCEPT ![m] = [@ EXCEPT !.status = "committed", !.claim = None,
                                                !.lapsed = FALSE, !.expired = FALSE, !.by = c]]

\* The batch took effect; heard says whether its result reached the worker.
CommitMark(c, heard) ==
  /\ commit[c].stage = "applying"
  /\ Markable(c)
  /\ plan' = Accepted(commit[c].plan, c)
  /\ commit' = [commit EXCEPT ![c] = [@ EXCEPT
       !.stage  = IF heard THEN "done" ELSE "releasing",
       !.answer = IF heard THEN "committed" ELSE "failed"]]
  /\ UNCHANGED <<home, resolve, patch>>

CommitMarkMisses(c) ==
  /\ commit[c].stage = "applying"
  /\ ~Markable(c)
  /\ commit' = [commit EXCEPT ![c] = [@ EXCEPT !.stage = "unmarked"]]
  /\ UNCHANGED <<home, plan, resolve, patch>>

CommitRelease(c) == LET p == commit[c].plan IN
  /\ commit[c].stage = "releasing"
  /\ plan' = IF plan[p].claim = c
             THEN [plan EXCEPT ![p] = [@ EXCEPT !.claim = None, !.lapsed = FALSE]] ELSE plan
  /\ commit' = [commit EXCEPT ![c] = [@ EXCEPT !.stage = "done"]]
  /\ UNCHANGED <<home, resolve, patch>>

\* The release is best effort; its failure is only logged.
CommitReleaseFails(c) ==
  /\ commit[c].stage = "releasing"
  /\ commit' = [commit EXCEPT ![c] = [@ EXCEPT !.stage = "leaked"]]
  /\ UNCHANGED <<home, plan, resolve, patch>>

---------------------------------------------------------------------------------
ResolveProceeds(r) ==
  \/ ResolveGivesUp(r) \/ SupersedeSelect(r) \/ SupersedeDelete(r)
  \/ ResolveReturn(r) \/ ResolveNoDiff(r)
  \/ \E p \in Plan : ResolveInsert(r, p)

CommitProceeds(c) ==
  \/ CommitCheck(c) \/ CommitClaim(c) \/ CommitClaimMisses(c) \/ CommitRefuse(c)
  \/ CommitThrow(c) \/ CommitRelease(c) \/ CommitReleaseFails(c)
  \/ \E p \in Plan : CommitBegin(c, p)

\* The D1 batch that ends an attempt.
CommitBatch(c) == CommitMarkMisses(c) \/ \E heard \in BOOLEAN : CommitMark(c, heard)

ResolveNext == \E r \in Resolve : ResolveProceeds(r) \/ \E w \in Week : ResolveStart(r, w)

CommitNext == \E c \in Commit : CommitProceeds(c) \/ CommitBatch(c)

PatchNext == \E u \in Patch : PatchWrite(u) \/ \E z \in Zone : PatchRead(u, z)

TimeAndOwner == CleanupExpired \/ \E p \in Plan : Expire(p) \/ ClaimLapses(p) \/ Discard(p)

Next == ResolveNext \/ CommitNext \/ PatchNext \/ TimeAndOwner

Spec == Init /\ [][Next]_vars

\* A resolve that is past its insert gets to finish.
FairSpec == Spec /\ \A r \in Resolve : WF_vars(ResolveProceeds(r))

---------------------------------------------------------------------------------
(* Properties.                                                                  *)

ResolveRec == [stage : {"idle", "solving", "inserted", "selected", "superseded", "done"},
               tz : Zone \cup {None}, week : Week \cup {None}, plan : Plan \cup {None},
               doomed : SUBSET Plan]

CommitRec == [stage : {"idle", "begun", "checked", "unclaimed", "applying", "unmarked",
                       "releasing", "done", "leaked"},
              tz : Zone \cup {None}, plan : Plan \cup {None},
              answer : Answer \cup {None}]

PatchRec == [stage : {"idle", "read", "done"}, from : Zone \cup {None}, to : Zone \cup {None}]

\* Rows and requests hold values of their columns' and variables' types; a row that
\* exists has a zone, a request that has begun knows its zone and its plan.
TypeOK ==
  /\ home \in Zone
  /\ plan \in [Plan -> Row]
  /\ resolve \in [Resolve -> ResolveRec]
  /\ commit \in [Commit -> CommitRec]
  /\ patch \in [Patch -> PatchRec]
  /\ \A p \in Plan : plan[p].status # "absent" => plan[p].tz \in Zone
  /\ \A r \in Resolve : resolve[r].stage # "idle" => resolve[r].tz \in Zone
  /\ \A c \in Commit : commit[c].stage # "idle" => commit[c].plan \in Plan
  /\ \A u \in Patch : patch[u].stage = "read" => patch[u].to \in Zone

\* Resolve r still has to delete one of p and q: it inserted one of them and has
\* not selected yet, or it selected the other and has not deleted it yet.
WillSeparate(r, p, q) ==
  /\ resolve[r].plan \in {p, q}
  /\ resolve[r].tz = plan[p].tz
  /\ \/ resolve[r].stage = "inserted"
     \/ resolve[r].stage = "selected" /\ {p, q} \subseteq resolve[r].doomed \cup {resolve[r].plan}

SameWeek(p, q) == plan[p].tz = plan[q].tz
                  /\ WeekOf[p][plan[p].tz] = WeekOf[q][plan[q].tz]

\* Two plans of one zone and week are pending only while a resolve that inserted
\* one of them is between its insert and its supersede: once the resolves of a
\* week have finished, the accept page has at most one plan to offer for it.
PendingUnique ==
  \A p, q \in Plan :
    p # q /\ Pending(p) /\ Pending(q) /\ SameWeek(p, q)
      => \E r \in Resolve : WillSeparate(r, p, q)

\* However double-clicks, lapsed claims, re-armed rows and lost answers
\* interleave, at most one commit request of a plan is told that it committed
\* it, that one marked the row, and "already committed" is said of a committed
\* plan only.
AcceptOnce ==
  \A c \in Commit :
    /\ commit[c].answer = "committed" => plan[commit[c].plan].by = c
    /\ commit[c].answer = "already"   => plan[commit[c].plan].status = "committed"

\* A claim on the table belongs to an attempt that can still mark or release it,
\* or whose release failed: a finished commit never leaves its plan claimed, so
\* a retry need not wait for the lease.
ClaimIsOwned ==
  \A p \in Plan : plan[p].claim # None =>
    LET c == plan[p].claim IN
      /\ commit[c].plan = p
      /\ commit[c].stage \in {"applying", "unmarked", "releasing", "leaked"}

\* An attempt that is applying its plan loses the claim only after the lease or
\* together with the row: no second attempt writes the calendar at its side.
ClaimHeld ==
  [][\A c \in Commit : LET p == commit[c].plan IN
       commit[c].stage = "applying" /\ commit'[c].stage = "applying"
         /\ plan[p].claim = c /\ plan'[p].claim # c
       => plan[p].lapsed \/ plan'[p].status = "absent"]_vars

\* When resolves are not killed, each week comes to have at most one pending plan.
OnePlanPerWeek == \A p, q \in Plan :
  p # q => ~(Pending(p) /\ Pending(q) /\ SameWeek(p, q))
EventuallyOnePlanPerWeek == <>[]OnePlanPerWeek

---------------------------------------------------------------------------------
(* The abstract book of plans.                                                  *)
Offers  == [p \in Plan |-> CASE plan[p].status = "absent"    -> "none"
                             [] plan[p].status = "pending"   -> "open"
                             [] plan[p].status = "committed" -> "accepted"]
Holders == [p \in Plan |-> IF plan[p].status = "committed" THEN plan[p].by ELSE plan[p].claim]

Book == INSTANCE PlanBook WITH offer <- Offers, holder <- Holders

\* The table implements the book: acceptance is final and goes to the attempt
\* that holds the claim when it marks, and a withdrawal takes the claim along.
BookSpec == Book!Spec
=================================================================================
