# A TLA+ model of Optical

Optical plans a user's week. It runs as a Cloudflare Worker in TypeScript
(`src/worker`) over a D1 (SQLite) database, KV and one Durable Object per user,
next to the user's Google or Microsoft calendar and a solver (in-process, or the
Python service in `src/solver`). Nothing in the Worker holds a lock: a request
reads, awaits, and writes single D1 statements or one D1 batch, while webhooks,
crons, agents and the user's own clicks do the same. What keeps it correct are the
`WHERE` clauses of those statements and the order of the calls; that is what these
modules model.

## 1. Inventory

| Component | State it keeps | Operations | Interacts with | What makes it correct |
|---|---|---|---|---|
| Proposed plans (`planning/proposed-plans.ts`, tail of `resolve-internal.ts`, `handlers/timezone.ts`, `cron/cleanup-proposed-plans.ts`) | `proposed_plans` rows: body, window, zone, created/expires/committed, claim | insert or re-arm, supersede, discard, expire, clean up, zone change | resolves insert, commits claim and mark, the accept page reads | one pending plan per week once resolves are done; a committed row never changes |
| Commit (`planning/commit.ts`, `planning/accept.ts`) | the claim on the row, the calendar's chunk events, meetings, booking rows, task rows | check, claim, reconcile, batch, release | calendar provider, D1, the user editing at the same time | accepted once, nothing minted twice, no chunk lost, the mark means applied, a re-click converges |
| Resolve (`planning/resolve-internal.ts`, `planning/*`, `engine/`, `src/solver`) | none of its own | read, build the problem, solve, insert | tasks, calendar, solver | a pure function of what it read; races are those of the two rows above |
| Resolve coordinator (`durable-objects/resolve-coordinator.ts`) | dirty flag, account, alarm | notifyChange, alarm, reset | webhooks notify it; it runs the webhook replan | no change lost, no two resolves at once |
| Push channels, sync (`webhooks/`, `db/calendar-sync.ts`, `cron/renew-subscriptions.ts`) | `calendar_sync` row: channel, expiry, sync token | subscribe, renew, receive, upsert, compare-and-swap | provider, coordinator | one live channel, whose notifications are recognised |
| OAuth, identities (`auth/`) | grants, tokens, identity rows, caches | authorise, refresh, rotate, revoke, rebind | every request | a refresh token is used once; revoked credentials stay revoked |
| Agent confirmations (`confirm/`, `db/pending-actions.ts`) | pending actions | reserve, mail, confirm, consume, fall back | commit, mail cap | an action runs at most once and only after its confirmation |
| Outbound mail (`mail/`) | a counter per day | reserve, send, credit | everything that mails | never above the cap; credit only what was not sent |
| Retention (`lifecycle/`) | users' last activity, warnings | warn, delete, off-board, purge | channels, coordinator, all tables | nobody deleted unwarned; off-boarding repeatable |
| Polls (`handlers/polls.ts`, `polls/`, `cron/poll-sweep.ts`) | polls, participants, votes, the booking | create, vote, close, book, cancel | calendar, bookings, mail | booked once, for a slot its voters accept |
| Booking page (`booking/`, `db/bookings.ts`, `cron/booking-decline-sweep.ts`) | bookings | claim a slot, confirm, cancel, decline | calendar, commit | a slot is claimed once; row and event agree |
| Manual moves, completions (`planning/manual-move-writeback.ts`, `db/chunk-completions.ts`) | task rows, chunk completions | write back, complete, revive | webhook, resolve | a task is done when its chunks are |
| Recurrence, meetings, diff | template instances, mirrored meetings | sweep, sync, compare | resolve | one instance per occurrence |
| Public read, feed | cached events in KV | read, refresh | calendar | never serves past its bound |
| Task, account, preference handlers; web, schema, middleware, admin | rows of their own | CRUD | all | single statements |

The behaviours that are hard to test are listed one by one, at their line, under
`hazards` in `PROJECT.json`.

## 2. Plan

*Done* means modelled and checked here; *proved* that its safety properties are theorems.

1. **Done, proved** `ProposedPlans` implementing the abstract `PlanBook`; `PlanCommit` on top.
2. **Done, proved** `ResolveCoordinator`: debounce, flag, alarm, webhook replan, sync token.
3. **Done, proved** `PushChannels`: the `calendar_sync` row and the provider's channels.
4. **Done, proved** `ConfirmActions`: reserve, mail, confirm, consume, fall back, clean up.
5. **Done, proved** `PollBooking`, `BookingPage`: one claim protocol each over the bookings
   table.
6. **Done, proved** `Accounts`: credentials, sessions, rebinds, off-boarding, retention.
7. **Done, proved** the solve: `EngineProblem` to `EngineRun` (the TypeScript engine, with
   `EngineNeighbourhoods`, what its improvement rounds ask for), `SolverReference` and
   `SolverContainer` (Python), `ProblemBuilding` (what a resolve reads, sends and reads
   back), composed in `SolveService`.
8. Left: that each search is truthful (`SearchesSound`) for every problem, which needs induction
   over data; what a plan is in real time (`PlanFitsTheWeek`, `MeetingsMoveToFreeTime`).

## 3. Modules

| Module | What it is |
|---|---|
| `PlanBook` | what a user may rely on: plans are offered, withdrawn, held and accepted, in single steps |
| `ProposedPlans` | the `proposed_plans` table of one user and every writer of it; implements `PlanBook` |
| `PlanCommit` | extends it with the calendar, the booking rows, the tasks and the calls of `applyClaimedPlan` |
| `ResolveCoordinator` | one user's Durable Object, its webhook replan, the direct resolves beside it, and the sync token |
| `PushChannels` | one user's `calendar_sync` row and the channels that live at the provider |
| `ConfirmActions` | one owner's `pending_actions`, the requests that reserve and mail, the page visits |
| `PollBooking` | one poll: rows, the booking engine's runs, saves, sweep, organiser, the bookings table |
| `BookingPage` | the public page: what it offers, a visitor's claim, the decline clock and its sweep |
| `Accounts` | one account's credential, sessions, rebinds, off-boarding, retention |
| `EngineProblem` | the wire problem and what the engine bakes from it |
| `EngineSelection` | pass 1: which tasks are kept; domains, bands, Hall cuts, packing |
| `EnginePlacement` | pass 2: where kept chunks land; bounds, multipliers, branch and bound |
| `EngineCore` | minimal cores of an impossible week, demotion |
| `EngineNeighbourhoods` | what an improvement round frees: five rankings of the plan at hand |
| `EngineRun` | one engine solve: phases, budgets, schedule of improvement rounds, leaves, assembly |
| `SolverReference` | the Python constraint model and objective, as sets and costs of placements |
| `SolverContainer` | the container's two passes with their fast models |
| `ProblemBuilding` | what a resolve reads, the problem it sends, the plan it reads back |
| `SolveService` | engine and container answering for one another; composes all of the solve |
| `MC*` | values of the constants for TLC |
| `PlanCommitProofs` (also `ProposedPlans`), `ResolveCoordinatorProofs`, `PushChannelsProofs`, `ConfirmActionsProofs`, `PollBookingProofs`, `BookingPageProofs`, `AccountsProofs`, `SolveServiceProofs` | theorems |

Every module of a concurrent component follows one rule: a step is what runs between two
awaits (one D1 statement or batch, one KV or provider call), and between two steps of a
request anything else may run. Definitions that begin *Mutant of* are the same definition
with a plausible slip; they are used by no specification.

### ProposedPlans

One variable per kind of state: `plan` is the table, `home` the user's effective zone,
`resolve`, `commit` and `patch` what a request has read and still holds. A step is one
D1 statement, or one batch; between two steps of a request any other request may run.

- A resolve: `ResolveStart` (zone and calendar read), `ResolveInsert` (`INSERT ... ON
  CONFLICT`, guarded by `committed_at IS NULL`), `SupersedeSelect` and `SupersedeDelete`
  (two statements), then `ResolveReturn` or, when the plan changes nothing,
  `ResolveNoDiff`. `ResolveGivesUp` is a past week or a failed solve.
- A commit: `CommitBegin` (zone read), `CommitCheck`, `CommitClaim` or
  `CommitClaimMisses`, then `CommitMark`, `CommitMarkMisses` or `CommitThrow`, and
  `CommitRelease` or `CommitReleaseFails`. `CommitRefuse` is the second read that
  decides between 404, 200 and 409. `CommitMark(c, FALSE)` is a batch that took effect
  although its result never arrived.
- `Expire` and `ClaimLapses` are time passing; `Discard`, `CleanupExpired`, `PatchRead`
  and `PatchWrite` are the other writers.

Times are abstracted to what the code compares: `expired` and `lapsed` (claim older than
the lease). `by` is history inside the row, in no column.

### PlanCommit

Every behaviour is one of `ProposedPlans` (theorem `CommitsUseTable`): the steps of a
commit between claim and mark are refined into `ReadWindow`, `ReadWide`, one of
`UpdateChunk`, `RelocateChunk`, `CreateChunk` per chunk, `DeleteEvent`, `MoveMeeting`,
`SyncBooking`, and `Batch`, which is `CommitMark` or `CommitMarkMisses` together with the
task statements. `UserMovesEvent` and `UserFinishes` run in between. `work[c]` is what
attempt `c` holds from its reads; `stale` (somebody else has written since) and `twin`
(a chunk had two events when it was read) are history.

### ResolveCoordinator

The provider's calendar is a `log` of changes; a sync token is a position in it, so
"changes since the token" is a suffix. A change's week is all a replan uses of it;
`Silent` stands for the changes that ask for none (a deletion has no time, the
scheduler's own events are filtered).

- `NotifyChange` is the webhook route's call: a push for any change, sooner, later or never.
  What it does to the object is `Notified`: sets the flag, arms the alarm when none is
  armed. `Wake` is the alarm: it clears the flag first. `Finish` is the handler's `finally`,
  after a run that returned or threw. `Reset` is offboarding's call. The statements of one
  of these calls are one step: a Durable Object takes no other event while it waits for its
  own storage.
- A run: `ReadToken`; `FetchChanges`, or `FetchWindow` without a token or with one the
  provider refuses; `ResolveWeek` per week; `Persist`. `RunThrows` is swallowed by
  `alarm()`; `Crash` is the object dying, upon which the runtime fires the alarm again.
- A resolve, the run's or a direct one (`Request`): `ResolveSync`, `ResolveRead`,
  `ResolveStore` (only when the token moved, never for an elapsed week), `Solved`.

`covered`, `dropped` and `jumped` are histories: changes a resolve of their week has
answered for, given up with a run that threw or a reset, or passed over by the token while
no run held them. "Answered" is any of plan, unsatisfiable and solver error: all three end
a resolve normally. `NoChangeForgotten` says these three cover everything announced
whenever the object rests; `jumped` is the code's known weak point (section 7, e).

### PushChannels

`row` is the `calendar_sync` row, `channel` what lives at the provider. A rotation is
`EnsureRead`, `EnsureSubscribe`, `EnsureStore` (a compare-and-swap, refused without a
grant), `EnsureStop`; an in-place renewal is `EnsureRenew` and `EnsureRestamp`. The daily
sweep, sign-in, the subscribe route and Microsoft's lifecycle notifications all make that
one call, the last with `force`. `UpsertRead` and `UpsertWrite` are the two halves of
`upsertCalendarSync`, `OffRead`, `OffStop`, `OffDelete` those of an offboarding,
`SignIn` and `SignInElsewhere` a stored credential. `leaked` marks a channel somebody
failed to stop or dropped, so `NoOrphan` is about the others: every live channel is stored
or in the hands of a call that will store or stop it. `reverted` and `revived` record what
an upsert wrote back: the stopped channel over a new one (section 7, f), or the
row of a user offboarded in between.

### ConfirmActions

`rows` is `pending_actions`; `req[i]` is a request named by the row it would store, with the
instant it took at its start. `Ask` starts one (an operation of an agent, or a plan's accept
mail, whose marker row shares the table), `Prune` and `Release` are the housekeeping before
the insert, `Reserve` the conditional insert that counts and dedupes in one statement,
`Lookup` what a refused insert reads to explain itself (`onto` is the row whose answer a
duplicate is given), `SendOwn` the mail through the owner's mailbox, `ClaimFallback` and
`SendSystem` the shared mailer under its daily limit, `Undeliverable` the compensating
delete. `Load`, `Consume` and `Replay` are the confirm page; `View` a plan opened;
`DailyCleanup`, `Wipe`, `Deactivate` and `Tick` the crons, an off-boarding and time.
`Settle` stands for a plan that another module commits or discards, `Rearm` for a resolve
that finds a discarded one again. `mail`, `sent` and `ran` are history: what was delivered,
until when it counts, how often it was replayed. `AnswerIsTrue` says of a duplicate's
answer, "a link was emailed", that the request it was deduped onto has delivered one; on
record, that request may still be at its mail, have died there, or have failed since and
told its own caller so (section 7, g).

### PollBooking

A slot is a start with its padding; `Overlaps` says which of them clash. `poll` and `inv`
are the poll's rows, `rows` its bookings by claim, `taken` the booking
page's, `busy` and `cal` the calendar. `run[r]` is one run of `bookPollSlotInternal` and its
callers: `Begin`, `Rank`, then per slot `Try` or `Skip`, `Claim`, `Create`, `Cas`,
`Confirm`; `Failed`, `Undo` and `Release` take a step back; `Explain` and the `Escalate*`
steps park the poll. A save (`SaveOpen`, `SaveCells`, `SaveFire`), a guest's join (which at
its guest or mail limit stores nothing and answers the same), the sweep (`SweepList`,
`SweepBook`), the organiser's `AskBest`, `AskBook`, `Edit*` and `Cancel*` race it. `used`
counts against the three bounds. History: `lost` events left by a call that failed or died
after taking effect, `fresh` an answer no ranking has seen, `gaveUp` a run that ended on a
failure, a death or another run's claim.

### BookingPage

Time is a grid of steps. `Bookable` is what a page offers: starts whose whole span lies in
the opening hours, past the notice, and clear of every padded busy block, where a movable
meeting does not block (`BookableOver`); `Offered` is what the slots route answers. `Ask`,
`Look`, `Claim`, `Create`, `Confirm`, `Release` are a visitor's request; `Claimable` is
`claimSlot`'s guard inside its one insert. A change of a booked event arms the coordinator
(`Changed`); its run reads what lies beyond the sync token (`Fetch`), stamps or clears the
row's decline event by event (`Hear`), and after the resolves stores its token (`Store`). A
failed write is caught, and the run goes on without that event (`HearFails`); a run that
throws or dies (`Breaks`) has not stored its token, but its own resolve may have stored a
later one, as may a resolve nobody pushed for (`Jump`). `missed` records the events whose
change the token has moved past unheard. `Due`, `Check`, `Delete` and `Mark` are the sweep.
The owner moves and deletes events, a commit relocates them and syncs the row (`Relocate`,
`SyncBookingTime`).

### Accounts

`row` is the identity row: which anchor, which ciphertext (0 when wiped) and, as history,
whose grant it holds. `cache` is KV's access token. A refresh is `Read`, `Check`,
`WriteBack` (the guarded upsert), `Why` (the re-read when it lost), `Put` and `Late` (the
check after the cache is set). A sign-in begins with the provider's `Callback`; it is
`Store`, `Admit`, `Keep`, `Touch`, `MintCode`; a code is `Present`ed, `Consume`d and
`Issue`d a pair; a refresh token goes through `Refresh`, `Rotate`, `Reissue`. `AskRebind`,
`Clear`, `Forget` are the administrator's, `OffboardBatch`, `OffboardDrop`, `Deactivate` the
off-boarding, `StartSweep` to `Purge` the daily sweep. `deploy` holds the two settings that
change what happens: whether a rebind is refused, whether system mail is on. KV is taken as
linearizable.
`HoldersOnly` leaves out, on record: `torn`, a cache left by a request that died between
writing the cache and checking it, or set by a sign-in that had lost the account; and
`late`, a token or code that was being written as the account changed hands (the inserts at
oauth-provider.ts:521 and :617 outlive a rebind's revocation). `DeletedAfterWarning` leaves
out `raced`: activity between the sweep's last look and its batch, which the source calls
its residual window. With system mail on the warning it speaks of is one that was mailed
(`told`); with it off `Mail` sends nothing and the stamp is set all the same, so all that is
asked is that the stamp is old enough (section 7, h).

### The solve

Every time in a wire problem is a slot. The slots of a solve count from the start of its
window, which is the floor of placements (build-problem.ts:216) and may be any slot of a
day: `origin` is how far that lies past a midnight. A *day* of the daily caps and of same-day
groups is a day's length of slots from there (`Day`), and `WholeDays` are those the window
holds completely; the time of day and the week day of a slot (`Tod`, `Weekday`) are the
calendar's.

- `ProblemBuilding` is a function: `Problem(r)` is what a resolve sends for a reading `r`
  (rows, calendar, chunk completions, free/busy, preferences, last plan), `Entries` what it
  makes of a placement. It includes the reconciliation of completions, the mirror of
  meetings, business-hour masks, the notice, the projection across a change of clocks and
  the order and rounding of busy blocks. The baseline for churn is `WeekPlan`, the last
  accepted plan of this week in this zone, or the calendar. Instants are halves of a quarter
  hour, so that rounding shows.
- `EngineProblem` bakes the wire problem (allowed starts, fit, churn, windows, order), as
  `substrate.ts` does. `EngineSelection` is pass 1, a branch and bound over keep/drop with
  packing, bands and Hall's counting as refutations. `EnginePlacement` is pass 2 with its
  bounds (late, cap, streak, Lagrangian), its separable tail and its certification rule.
  `EngineCore` shrinks an infeasible must set and demotes what fits nowhere. These are
  recursive functions and folds over sets of chunks: branch order, tie-breaks and budgets
  are those of the code, what a budget is charged for is a node.
- `EngineRun` sequences them: `OverlapEnds`, `RunSelection`, `EvaluateRoot`, `NextRound`,
  `ImproveRound` (or `Starved`), `Prove`. A budget is chosen per solve, so a search may stop
  anywhere, and the wall may leave nothing for the proof. `NextRound` is the schedule: the
  next round of the sweep whose menu holds something not yet `tried` against this incumbent,
  another sweep if this one improved on the plan. A round may run over a session whose leaf
  fails or answers falsely (`Dispatched`); `local` runs the same rounds here, so that
  `LeavesNeverMatter` compares the two.
- `EngineNeighbourhoods` is a round's menu: a displacement with what it evicts, a window of
  the dearest chunks, the costliest day, the worst context over its cap, the chunks that
  moved furthest. The code adds floats; here a share is an exact fraction of `Parts`.
- `SolverReference` gives the legal placements of a set of tasks and their cost, translated from
  `model.py` and `objective.py`; it is the judge of both solvers. `SolverContainer` is
  `two_pass.py` with the fast models of `fast_model.py` and `placements.py`; CP-SAT is any
  solver that may stop early and whose proofs are right.
- `Pass1`, `Detour` and `Pass2` of `EngineRun` are constants, so that a run may be reasoned
  about whatever its searches do; `solve.cfg` gives them `SelectTasks`, `Resolve` and
  `Place`, which only `MCSolveService` extends. `Fast`, `Cut` and `Reference` list what the
  two Python models make of every set of tasks of every week.
- `SolveService` is `solveForResolve` with `SOLVER_ENGINE` in its three live modes; a shadow
  deployment answers as a container one does. `Deployed` is the choice of mode,
  `TookTooLong` the wall guard, `Disagrees` what the log of a second opinion records.
  `SearchesSound` says what the service counts on: of every search the next step can make,
  whatever it answers is true (`SelectionSound`, `RootSound`, `RoundSound`, `ProofSound`), and
  the container's two models agree on the price of a placement (`ModelsAgree`).
- Windows that start in the middle of a day are where the solvers' accounts of the daily caps
  part (section 7, i to k), and the properties say by how much. `Spill` is the price of a
  placement's capped slots after the last whole day: they cost nothing, and the engine's bound
  counts them all the same, so its OPTIMAL is cheapest, and its gap true, up to it. `Straddled`
  is the price of the slots that a chunk the fast model counts whole has in the next of the
  window's days: the container's OPTIMAL is cheapest up to it, among the placements its prices
  admit (`Reached`). `PartDay` is what the engine's account adds for the rest of the window.
  All are zero when the window is of whole days from a midnight and no chunk crosses one.

## 4. Runs

| Run | Properties | Shows |
|---|---|---|
| `plan_store` | `AcceptOnce`, `ClaimIsOwned`, `ClaimHeld`, `BookSpec` | two resolves and two commits over two plans of a week, every interleaving; the table implements `PlanBook` |
| `plan_weeks` | `PendingUnique`, `EventuallyOnePlanPerWeek` | two resolves, two zone changes, three plans of which one changes week with the zone |
| `plan_commit` | `NeverMintsTwice`, `NoChunkLost`, `MarkMeansApplied` | two attempts of one plan, a user edit, throws, kills and takeovers |
| `replan` | `NoChangeForgotten`, `EveryChangeAnswered` | two changes, three weeks (one beyond the full fetch, one elapsed), a direct resolve, one throw, crash or refused token |
| `channels` | `NoOrphan`, `NeverDark`, `GoneStaysGone` | two callers of `ensureSubscription` (one forced), an upsert, a sign-in elsewhere, an off-boarding, one fault |
| `channels_back` | `ChannelComesBack` | the sweep beside an upsert, an off-boarding and a fault |
| `confirm` | `RunsAtMostOnce`, `OneLinkPerAsk`, `CapsHold`, `AnswerIsTrue` | three requests over two operations and a plan, two page visits, expiry, clean-up, off-boarding, one fault |
| `polls` | `OneMeeting`, `NoDoubleBooking`, `BookedHolds`, `NoStrayMeeting`, `LastVoteHeard` | two invitees, three slots of which one overlaps the others, two runs at once, organiser requests, one upset or death |
| `polls_settle` | `PollSettles` | a deadline that may be extended, a guest link, one failed call or calendar change, nobody dying |
| `booking` | `HeldWhileInvited`, `OfferedIsClaimable`, `CancelledIsGone`, `DeclineSettles` | two visitors, one meeting of the owner's, two upsets |
| `accounts` | `HoldersOnly`, `OneChain`, `DeletedAfterWarning` | four requests, two at a time, by three identities, beside the daily sweep |
| `solve` | `ServedIsLegal`, `CertifiedIsBest`, `CoreExplains`, `NeverContradicts`, `LeavesNeverMatter`, `PlanFitsTheWeek`, `MeetingsMoveToFreeTime`, `SearchesSound` | eighteen weeks through engine, container and the fallback between them |

Each property has in `mutants` one slip of the code under which its run reports it violated.
No run lists the type invariants `TypeOK`, `CommitTypeOK`, `ConfirmTypeOK`, `PollTypeOK` and
`BookingTypeOK`: they are proved (section 5), alone or as part of an inductive invariant.

### Bounds

*Plans.* Two requests of a kind are enough for every race between two of them; a third adds
only repetition, because a request's own record is never read by another. Three plans are
needed where the week depends on the zone, two otherwise. In `plan_commit` one chunk is to
be placed, one is to go, and one meeting moves; three slots separate the week from
elsewhere, and the calendar starts in every state with at most one event per chunk.
`MaxEdits` bounds the user's edits to one and the three events bound what can be created;
both are guards of the model, not of the code. It starts with the plan on offer
(`OfferedInit`), because the table's own runs cover how it gets there. Requests run once, so
a finished instance stops: `CHECK_DEADLOCK FALSE`, here as in every run below that has it.

*Replan, channels.* Two changes are enough for one that a run has fetched and one that it has
not, which is all its code distinguishes; `MaxChanges` bounds the calendar, `MaxFaults` the
throws, crashes and refusals, `FaultKinds` which of them occur. Three channel ids are the
stored one and one per ensurer; an id nobody refers to stands for a new one. `channels_back`
has a fourth so that the sweep never lacks one.

*Confirmations.* Three ids, two operations and a plan against a live cap of 2 and a fallback
limit of 1, so both limits bind; `TTL`, `PlanTTL` 1 and `Grace` 0 days within `MaxDay` 1 let a
row expire and be pruned. At most `MaxInFlight` 2 requests overlap; `MaxFaults` 1 is a death, a
delivery that looks failed or the account's deletion. Ids, operations and visits are
symmetric.

*Polls.* In `polls` the middle of three slots overlaps the two others, which are apart; it is
for page visitors and the organiser, the invitees answer for the others. Two claims are one
per run. `MaxSaves`, `MaxAsks` and `MaxUpsets` bound answers, organiser requests and
what happens to a run from outside; `MayDie` allows deaths. `polls` allows two answers, one
request (an edit drops an invitee and turns the guest link off) and one upset; every pair of an
answer, the sweep and an organiser's request meets in it. `polls_settle` has one slot, a guest
and an edit that extends the deadline; nobody dies, since an escalation that dies for good is
the code's own loss. Ids of claims are opaque, so which unused one is next is a `CHOOSE`.

*Booking page.* Steps 1..7 with opening hours over all of them and one taken; a one-step
meeting with one step of buffer on either side makes padding of offer and claim differ from
the span; two pages of 4 out of a reach of 7 make the border of a page and of the horizon;
the clock runs to `MaxNow` 2 with a notice and a grace of one step. `MaxUpsets` 2 are needed
for a decline and then a death or an edit.

*Accounts.* Two identities of a provider that keeps its refresh token, one of a provider
that rotates it; two workers, of which two may be in flight beside nothing, or one beside
the sweep (`MaxInFlight` 2); `MaxAsks` 4 covers a sign-in, an exchange, a rebind and a
second sign-in or exchange. Whether rebinds are refused and whether system mail is on is any
of the four. Two days of retention with one day's lead and one until the purge let a sweep
warn, wait, delete and purge. Requests end by midnight. This run has no final state, and
deadlock is checked.

*Solve.* Days of `SlotsPerDay` 4 slots. Fourteen weeks are written on the wire: ten of two
days from midnight (contention, twice: of work for room, of two tasks for one place; chains,
caps, two conflicts, a cycle, overlapping events, an exempting window, a tight order) and
four that start within a day or end within one (`Midday`, where capped chunks lie across the
window's days; `Leftover`, where they are pinned after the last whole day and the
container's second pass has no placement; `Overdue`, a deadline before the window;
`Evening`, where the engine's bound is above the cheapest plan). Four are built from
readings (a day already begun, meetings, a change of clocks, completions painted back). Node
budgets are 0, 4 or 500 for pass 1, 4 or 1000 for pass 2, 2 or 100 deletion tests: none, one
that bites, one that suffices; `PackNodeCap` 3 stops packing attempts, `SubsolveCap` 6 a
neighbourhood, which frees `FreedMost` 2 chunks; `MaxRounds` 4 rounds of a sweep (32 there),
so that rankings of up to four entries are walked to their end, and `MaxSweeps` 3 sweeps (16
there), so that one can improve on another, against `MaxSubsolves` 3 requests to leaves;
`Attempts` 2 requests to the container. `Iterations` 20 rounds of the subgradient replace 50
to 200: any multiplier gives a lower bound, and in that second week 20 find the one that is
tight. `CertifiedIsBest` compares with the least cost over *all* legal placements of the
same week.

### Fairness

`Spec` of `ProposedPlans`, `PlanCommit`, `PushChannels`, `ConfirmActions`, `PollBooking`,
`Accounts` and `SolveService` has none: a request may stop anywhere, which is how a killed
worker is modelled. `ProposedPlans!FairSpec` adds weak fairness of `ResolveProceeds(r)` and of
nothing else: a resolve whose worker is not killed takes its next statement. Commits, zone
changes, time and the user are never required to act. `ResolveCoordinator!FairSpec` is fair
to the alarm, to the steps of the run it starts and to that run's resolves: Cloudflare
fires a set alarm at least once and again when its object dies, and `alarm()` returns from
a throw by itself. Pushes, direct resolves and faults are not. `PushChannels!FairSpec` is
fair to each ensurer (the sweep runs every day and its calls return), to the expiry coming
near and to channels lapsing. `PollBooking!FairSpec` is fair to the steps of a run, a save, an
edit and a cancellation under way, and to the hourly sweep; nobody is required to answer or
ask. `BookingPage!Spec` is fair to the webhook's replan as a whole: a set alarm fires, and a run
goes on to its end unless it fails. A run that fails is not repeated for it: `alarm()`
swallows the throw and only a further push sets the alarm again, which `DeclineSettles` leaves
out on record. The sweep's cron and the clock are fair too.

## 5. Proofs

`tlapm` checks, for all values of the constants that satisfy the named assumptions of the
modules. Most only say what a constant is (`NamesAssumption`, `BoundsAssumption`,
`FaultsAssumption`, `PollAssumption`, `BookingAssumption`, `AccountsAssumption`, and that
the value standing for "no row" or "nothing" is none of the others: `NoneIsNew`,
`NoneIsNothing`, `NoRowAssumption`, `NoneAssumption`). Four say more: `WeekOfType`, that a
window has a week in each zone; `PlanBody`, that a plan places chunks and meetings inside
its window, at starts that are natural numbers (so that a task has an earliest one); and
`WindowAssumption`, that a row is kept at least as long as its mail counts against the
fallback's limit (a day of counting against seven days of grace in the code); without it a
clean-up would forget mails and `CapsHold` would be false. `WiresAssumption` is the wire
format as `schema.py` validates it: every task has a chunk, every chunk a length, a task at
most one pin and one deadline.

- `TypeCorrect`: `TypeOK` is inductive.
- `OnePendingPlanPerWeek`: `PendingUnique` is not inductive, because a resolve that has
  inserted must still know the zone and week of its plan, and the `doomed` set must still
  name a week-mate whose row may have been re-armed under another zone.
  `UniqueInv` adds `KnowsWeek`; `OthersTouch` says which rows a step can add to a week.
- `AcceptedOnce`, `ClaimsAreOwned`, `ClaimIsHeld`: the inductive invariant is `ClaimInv`
  (`RowShape`, `ClaimIsOwned`, `AcceptOnce` together): a claim identifies an attempt that
  is still between claim and release, so no two attempts can pass `Markable`. The lemmas
  `ClaimEffect`, `MarkEffect` and `ReleaseEffect` say what each statement does to a row.
- `TableIsBook`: initial states map to initial states and each step to a step of
  `PlanBook` or a stutter, using `TypeOK` and `ClaimInv`.
- `CommitsUseTable`, and with it `CommitsAcceptOnce` and `CommitsHoldClaim`: `PlanCommit`
  inherits the table's theorems although its module never mentions their proofs.
- `MintsOnce` (`NeverMintsTwice`), `ChunksAreKept` (`NoChunkLost`), `MarksAreTrue`
  (`MarkMeansApplied`), `CommitsTyped`, from `CommitInv`: what an attempt has read stays
  true until somebody else writes. While attempt `c` knows the calendar (`Knows`: it has
  read, and is not `stale`), a chunk it has yet to place has its event where it was found,
  and, after the wide scan, no other (`Found`); an event it will delete is a further copy of
  a chunk already placed, or of a chunk that is not proposed (`Doomed`); a chunk it is
  through with is in its place, and what else is in the window is on its list to delete
  (`Placed`, unless it met a `twin`); a meeting out of place is on its list to move
  (`Moving`). A call of `c` keeps these of `c` and makes every other attempt stale; so does
  a call that failed after taking effect, and a user's edit; a new attempt starts with what
  the dead one left behind, which is why a takeover is covered. An attempt that has been
  overtaken is promised nothing: that is the weak point the properties leave out by `stale`
  (section 7, c). The three properties are proved for `CommitSpec`, which begins with an
  empty table, and for the `OfferedSpec` that TLC runs.
- `NothingIsForgotten` (`NoChangeForgotten`): the property speaks of rest, so the invariant
  `CoordinatorInv` says where each unanswered change is meanwhile. `Kept`: ahead of the
  token, of the token the run has read, or of the position the run will store, or of a week
  the run still has to resolve or is resolving. `Awaited`: if announced, the alarm is set or
  the run under way has it or will fetch it. `Bounded` (what was read is in the log) and
  `CoordWorks` (the run's resolver reads no earlier than the run) carry the two.
- `NoChannelIsOrphaned`, `RotationsNeverGoDark`, `OffboardedStayGone`: `ChannelsInv` adds
  that a channel a call has created and not stored was read by nobody (`OwnIsPrivate`) and
  not stopped (`OwnIsBorn`), and that a replaced channel being stopped is not the stored one
  unless an upsert wrote it back (`PriorIsReplaced`). The lemmas `EnsureEffect`,
  `ElsewhereEffect`, `RowEffect` and `StoppedOnly` say what a step can do to the row, to
  what the calls hold and to a channel. `ChannelsTyped` and `CoordinatorTyped` are the type
  invariants.

- `ReplayedOnce` (`RunsAtMostOnce`), `LinksAreUnique` (`OneLinkPerAsk`), `BothCapsHold`
  (`CapsHold`), `AnswersAreTrue` (`AnswerIsTrue`), from `ConfirmInv`. Each cap counts rows
  or mails, and what is counted changes when a row is pruned, so the invariant ties mails to
  rows: a mail that counts has its row (`SentShape`), a row carries the clock of its request
  until that has mailed (`RowPlace`), only a finished request has an answer (`ReqShape`),
  what a duplicate was answered from is a request past its reservation and stays one
  (`OntoShape`), only a dead row has lost its data (`RowData`). `VisitShape` is the consume
  statement's guarantee: a visit that won has consumed the row, and no other visit won it.
  Clean-up, off-boarding, confirmation and the compensating delete only wear rows down; that
  is one relation, `Fading`, and one lemma per part of the invariant says that fading keeps
  it.
- `NeverTwoMeetings`, `SlotsBookedOnce` (any symmetric relation of overlaps),
  `BookedPollsHold`, `NoMeetingStrays`, from `ClaimInv`: a run holds a claim exactly between
  claiming and letting go (`RunShape`), there is one live claim per poll and one run that
  holds it (`Exclusive`), and when the poll is booked its event is that claim and its run
  has only to confirm (`Settled`). Claims are counted over rows, not runs, because a dead
  run leaves its row behind.
- `LastAnswerCounts` (`LastVoteHeard`), from `PollInv`: if everybody is in and something is new,
  somebody is on the way to look (`Heard`); this needs to know whom an edit may drop without
  looking (`EditShape`) and that who was dropped is not answering (`RosterShape`).
- `InvitationsNeverClash` (`HeldWhileInvited`), `OffersAreClaimable` (`OfferedIsClaimable`),
  `CancelledLeaveNothing` (`CancelledIsGone`), `BookingsTyped`, from `BookInv`. `Stage`
  follows a request and says that the sweep comes only after it; `Agree` that an invitation
  as it was sent has a live row for its time; `HeldApart` that two visits which hold a time,
  between claim and event or by an unmoved invitation, hold times far enough `Apart`. The
  claim's guard, which compares padded spans, the offer's, which compares single steps, and
  the property's are the same relation (`ApartIs`, `ApartEitherWay`): that needs a duration
  of at least one step.
- `ActsForHolder` (`HoldersOnly`), `NeverTwoChains` (`OneChain`), `NobodyDeletedUnwarned`
  (`DeletedAfterWarning`), from `AccountsInv`. `Grants` says that a ciphertext is one grant of
  one identity, also in the hands of a refresh that read it before a rebind; `Cached` that a
  cached token of somebody else has a request that will replace or drop it; `Chains` that a
  sign-in has one code, or one request about to mint, or one pair; `Terms` that a token is of
  the present term unless it was being written as the term ended; `Warned` what the sweep's
  stamp means while the sweep is between its statements, and `told` where system mail is on.

- Of the two solvers' models, with nothing assumed: `SameStarts`, that `substrate.ts` and
  `placements.py` allow a chunk the same starts, and `FastIsReference`, that what the fast
  model of `fast_model.py` and `placements.py` places `model.py` allows. The fast model adds
  constraints (symmetry breaking) and drops a task without a look at it; in `model.py` a dropped
  task's chunks still float (model.py:177), so a dropped task that no week could hold,
  longer than the window or under a same-day policy it cannot keep, would make the reference
  model infeasible. That is the theorem's one hypothesis, `Floats`. The proof says that a
  placement joined task by task grows with what each task is allowed (`JoinedGrows`).
- `ServedPlansAreLegal` (`ServedIsLegal`), `CertificatesAreTrue` (`CertifiedIsBest`),
  `ConflictsExplain` (`CoreExplains`), `SolversNeverContradict` (`NeverContradicts`),
  `LeavesAreHarmless` (`LeavesNeverMatter`): of every behaviour of `Spec` that satisfies
  `[]SearchesSound`. The searches recurse over data, so that they are truthful is beyond
  these provers; it is an invariant that run `solve` checks on every call its weeks lead to.
  What is proved from it is what the code around the searches adds: the run may stop
  anywhere, repair, take a plan from a leaf, prove in what is left of the budget, demote,
  fall back, retry, and is still right. The inductive invariant is `SolveInv`.
  `EngineSound`: a selection is one of the problem (`Selects`), the plan at hand is a
  placement at its price, above a bound below every placement with its spilled slots counted
  (`Planned`), and equals the one made without leaves unless one has lied. `ContainerSound`:
  only tasks that fit no week alone are demoted, and the second pass keeps what the first
  one has to. `ServiceSound`: the verdict a fallback remembers is right. That the solvers
  agree then rests on one fact both sides reach by different routes: no plan keeps the
  mandatory tasks that fit the week alone (`Hopeless`). The engine gets there by its core
  and demotions; the container because assuming fewer constraints admits more placements
  (`FewerLiterals`), so a core without a task to give up condemns the whole week
  (`CoreHopeless`), while any legal plan refutes it (`PlanHopeful`). Of a round: what is
  admitted is a plan at the price it is admitted for, checked or honest (`AdmitSound`), and
  checking an honest answer again changes nothing (`HonestNeedsNoCheck`), which is why local
  and remote rounds meet (`AdoptSound`). `Adopt`, `Joined` and `ChunkBase` are recursive
  functions; that each meets the equation it is defined by is proved first (`AdoptIs`,
  `JoinedIs`, `BaseIs`).

These invariants were checked by TLC on the runs' instances before they were proved.

Model-checked only: the liveness properties (`EventuallyOnePlanPerWeek`,
`EveryChangeAnswered`, `ChannelComesBack`, `PollSettles`, `DeclineSettles`), since liveness
under fairness is beyond these provers; `SearchesSound`, which is about recursive functions over
data; and `PlanFitsTheWeek` and `MeetingsMoveToFreeTime`, which depend on what folds over a
calendar's events and a week's rows compute. Every other safety property of a run is a
theorem, those of the solve given `SearchesSound`.

## 6. Not modelled

- Rows of other users: every statement carries the owner, so one user's slice suffices.
- *Plans.* `ReadWindow` is the calendar's and the tasks' read (commit.ts:207, :235) as one
  step, as neither decides anything before the other. Legacy data: a NULL `window_tz`,
  unstamped chunks (`deletableChunks`), the renaming of a zone's spelling. The accept page's
  filter over `created_at`. Every meeting has a booking row and none is deleted while a
  commit runs; the wide scan reaches every slot.
- *Webhook replan.* Its write-back of dragged chunks (a read-modify-write the source
  marks as unguarded, X7), its decline detection beyond the booking page's, its mail; a
  forced replan without changes; the membership check that ends a delisted user's run.
- *Channels.* A new callback URL, the sweep's lists, an admin rebind, the channel token.
- *Confirmations.* The replayed operation, the page, the rate limits of the confirm route. A
  plan that was committed and one that was discarded are both `settled`, and `Rearm` takes
  either back; in the code only the second can come back.
- *Polls.* The ranking is any order of the slots everybody needed can make; mails other than
  the escalation, reminders, rendering, templates. `Begin`, `Rank` and `Try` each do a few
  reads that nothing is decided between; `EditRoster` is the drops and inserts of an edit as one
  step: a run that begins between them would rank over a roster that two edits could have left.
  A location that cannot be placed (booking.ts:540) is refused when the poll is made. A
  commit that moves the poll's booked event (db/bookings.ts:167) is left to `BookingPage`.
- *Booking page.* The challenge, rate limits, mails and cache; its configuration is constant.
- *Accounts.* Registration, PKCE, scopes, revocation at the provider, the refresh token's 90
  days; the tables other modules own.
- *Solve.* The improvement phase that production switches off; how a core is found when the
  container looks for one; isolation tests are taken as decided in time (in two_pass.py:155-157
  one that ends UNKNOWN at its limit demotes its task); a shadow engine's
  log. Problem building leaves out parsing, field checks, SQL and readings in a zone whose
  clock goes forward in the week.
- Outbound mail cap (one conditional upsert per reservation), public read cache and feed
  (only pages are answered from them), recurrence sweep (`INSERT OR IGNORE` on a key derived
  from template and date), task, context and preference handlers (single statements), web
  pages, schema, middleware, admin, utilities.

## 7. Where the code differs from what it says of itself

Met while modelling; the properties above are stated so that they hold beside them, and say
on record (`jumped`, `reverted`, `lost`, `torn`, ...) where they had to step aside.

- (a) accept.ts:76, "A pending plan created AFTER the accept is a fresh re-resolve and stays":
  `created_at` is taken after the solve (resolve-internal.ts:1659), so a plan computed before
  an accept and inserted after it stays too.
- (b) accept.ts:232, "a vanished pending hash almost certainly means a newer resolve replaced
  it": two resolves that both insert before either selects delete each other's plan
  (proposed-plans.ts:172-195).
- (c) accept.ts:281, a retry "reconciles": the in-window map keeps one event per chunk
  (commit.ts:215-226), so of two events two overlapping attempts created both stay.
- (d) commit.ts:284, "Reconcile is idempotent": a meeting's booking row is synced only when its
  event had yet to move (commit.ts:361-374); a death between the calls leaves the row behind.
- (e) resolve-coordinator.ts:75, "a change arriving during the resolve re-arms the next cycle
  instead of being lost": a week's resolve has by then stored a token past all changes
  (resolve-internal.ts:1211), and a throw before the run's last statement
  (google-calendar.ts:409-411) is swallowed: the re-armed run finds no change (`jumped`).
- (f) subscription-manager.ts:146, "Subscribe the new channel FIRST (never go dark)":
  `upsertCalendarSync` (calendar-sync.ts:73-107) writes all of the row it read, the stopped
  channel included (`reverted`).
- (g) defer.ts:36-37, "Optical emailed the user a link": a repeated request is given this
  answer from the row alone (defer.ts:173-179), while the first one may still be at its mail,
  and the mail may then fail (defer.ts:140-144). The first caller learns of it; the second
  does not, unless its agent asks again.
- (h) sweep-inactive.ts:66-67, "so a user is never deleted unwarned while mail is on": holds
  as said (`DeletedAfterWarning`); a deployment with system mail off deletes users nobody told
  (sweep-inactive.ts:125-128).
- (i) pass2.ts:1227-1240, of the energetic bound, "It stays admissible": it lets a remaining
  slot of a capped context escape the cap only on a whole day (`dayReach` is clipped to
  those, pass2.ts:1117), while one placed after the last whole day costs nothing
  (pass2.ts:1442). In a window that starts within a day and ends at a midnight, the plan
  certified OPTIMAL may be dearer than another by up to `Spill` (week `Evening`; the property
  without that allowance is violated there).
- (j) fast_model.py:487-501, "slot accounting stays identical" with objective.py: a chunk that
  cannot cross midnight is charged whole to `start // 96` (fast_model.py:527-534), which is the
  day it lies in only if the window's days are the calendar's (week `Midday`, `Begun`:
  `Straddled`). Its day variable ends at the last whole day (fast_model.py:528), so a capped
  chunk that must lie after it leaves pass 2 without a placement and the whole plan as pass 1
  left it, against two_pass.py:249, "Pass 2 should not fail" (week `Leftover`).
- (k) engine.ts:611 prices the rest of the window after the last whole day as a day in the cost
  it reports; pass2.ts:373 and objective.py:190 do not (`PartDay`, week `Leftover`).
- A lateness variable holds at most the window's length (objective.py:81, fast_model.py:466): a
  soft deadline far enough before the window forbids late starts, or every start, to the
  container alone (weeks `Leftover`, `Overdue`).
- google-calendar.ts:340-346, of decline detection, a delivery "is naturally replayed on the
  next webhook delivery for that event": a failed stamp is caught (google-calendar.ts:352) and
  the token stored past the event, so a decline can go unheard until the event changes again
  (`missed`).
- two_pass.py:9, "model.py remains the reference implementation": a task with a chunk longer
  than the window is dropped by the fast model (fast_model.py:147-154), while model.py gives
  that chunk an empty range of starts (model.py:177) whether the task is dropped or not, and
  calls the week infeasible. Hence the hypothesis of `FastIsReference`.
- Off-boarding: a sign-in between its batch and `deactivateUser` (offboard.ts:172, :186)
  leaves a fresh credential on an inactive user.
- Problem building: meeting rows are loaded before the sync that mirrors them
  (resolve-internal.ts:1200), so an existing meeting is planned at its former length. A busy
  block that spans a change of clocks is a naive start with a real duration: forward it
  blocks too little, back two disjoint blocks may overlap and the whole week is refused
  (substrate.ts:486-490), although busy-blocks.ts collapses overlaps before. A pin moves to
  the first chunk still to do when chunk 0 is done early; a dependency on an event that was
  merged into another is silently none; a must-include meeting that cannot be placed is
  dropped from the plan while its event stays.
