------------------------------ MODULE Accounts ------------------------------
(***************************************************************************)
(* One account and everything that can act as its holder: the upstream     *)
(* credential and its cached access token (auth/identity-store.ts), the    *)
(* sign-ins and the bearer and refresh tokens handed out for them          *)
(* (auth/oauth-provider.ts), the administrator's rebind                    *)
(* (auth/identity-rebind.ts), off-boarding (lifecycle/offboard.ts) and the *)
(* daily retention sweep and purge (lifecycle/sweep-inactive.ts,           *)
(* lifecycle/purge-deleted.ts).                                            *)
(*                                                                         *)
(* A statement of the database, a batch and a KV call are steps; between   *)
(* two awaits of one request any other request may run, and a request may  *)
(* die at any await.  Requests are short: none lasts past midnight.  The   *)
(* tables a rebind and an off-boarding also clear (plans, polls, bookings, *)
(* push channels, pending actions) are other modules' state.               *)
(***************************************************************************)
EXTENDS Integers, FiniteSets

CONSTANTS
    Identities,     \* upstream identities that can sign in with the address
    Google,         \* those at Google, which never rotates a refresh token
    Workers,        \* the requests
    Cron,           \* the daily lifecycle sweep
    RetentionDays, LeadDays, PurgeDays,
    MaxAsks,        \* bound: requests started and deaths of one
    MaxInFlight,    \* bound: requests and sweeps in flight together
    None

Actors == Workers \cup {Cron}
ASSUME AccountsAssumption ==
    /\ Google \subseteq Identities /\ Cron \notin Workers
    /\ {RetentionDays, LeadDays, MaxAsks} \subseteq Nat \ {0}
    /\ {PurgeDays, MaxInFlight} \subseteq Nat
    /\ None \notin Identities \cup Nat

VARIABLES
    deploy,     \* REFUSE_PROVIDER_REBIND, SYSTEM_MAIL_ENABLED
    row,        \* identity_tokens: the anchor, the ciphertext (0 once wiped)
                \* and, as history, whose grant the ciphertext holds
    cache,      \* whose access token KV holds
    codes, pairs,   \* unspent authorisation codes; access and refresh tokens
    user,       \* the row of users: days since it was last seen, warned, gone
    job,        \* the request each actor is running
    used, made, \* bound; ciphertexts made so far
    holder,     \* history: who last signed in, None once handed over
    term,       \* history: handovers (rebinds and off-boardings) so far
    torn,       \* history: a request died before it had set or dropped the
                \* cache, or a sign-in that had lost the account set it
    told        \* history: days since the last warning mail, None from activity on

credential == <<row, cache, holder, torn, made>>
sessions == <<codes, pairs>>
people == <<user, told>>
clock == <<deploy, term>>
avars == <<deploy, row, cache, codes, pairs, user, job, used, made,
           holder, term, torn, told>>

Row == [provider : {"google", "microsoft"}, sub : Identities \cup {None},
        cred : Nat, of : Identities \cup {None}]
User == [active : BOOLEAN, seen : Nat \cup {None}, warned : Nat \cup {None},
         gone : Nat \cup {None}]
ASSUME NoneAssumption == None \notin Row \cup User

ProviderOf(i) == IF i \in Google THEN "google" ELSE "microsoft"
Idle == [at |-> "idle"]
Goes(a, j) == job' = [job EXCEPT ![a] = j]
At(a, place) == job[a].at = place
On(a, place) == Goes(a, [job[a] EXCEPT !.at = place])
Free == Cardinality({a \in Actors : job[a] # Idle}) < MaxInFlight
Ask(w) == job[w] = Idle /\ Free /\ used < MaxAsks /\ used' = used + 1

-----------------------------------------------------------------------------
(* Calendar access: a refresh of the access token.                         *)

HasCredential(r) == r # None /\ r.cred # 0

\* A request misses the cache, or is told to pass it by, and reads the row.
Read(w) ==
    /\ Ask(w) /\ HasCredential(row)
    /\ Goes(w, [at |-> "check", read |-> row])
    /\ UNCHANGED <<credential, sessions, people, clock>>

Moved(before, r) ==
    \/ ~HasCredential(r) \/ r.provider # before.provider \/ r.sub # before.sub

\* The provider has answered, or has refused; the row is read again.
Check(w) ==
    /\ At(w, "check")
    /\ \/ Goes(w, Idle)
       \/ ~Moved(job[w].read, row) /\ On(w, "put")
       \/ ~Moved(job[w].read, row) /\ job[w].read.provider = "microsoft" /\ On(w, "write")
    /\ UNCHANGED <<credential, sessions, people, clock, used>>

\* Mutant of Unchanged: the rotation is written back under the anchor alone.
SameAnchor(before) ==
    row # None /\ row.provider = before.provider /\ row.sub = before.sub
Unchanged(before) ==
    /\ row # None /\ row.provider = before.provider /\ row.sub = before.sub
    /\ row.cred = before.cred

WriteBack(w) ==
    /\ At(w, "write")
    /\ IF Unchanged(job[w].read)
       THEN /\ row' = [row EXCEPT !.cred = made + 1, !.of = job[w].read.of]
            /\ made' = made + 1 /\ On(w, "put")
       ELSE On(w, "why") /\ UNCHANGED <<row, made>>
    /\ UNCHANGED <<cache, holder, torn, sessions, people, clock, used>>

Why(w) ==
    /\ At(w, "why")
    /\ IF Moved(job[w].read, row) THEN Goes(w, Idle) ELSE On(w, "put")
    /\ UNCHANGED <<credential, sessions, people, clock, used>>

Put(w) ==
    /\ At(w, "put") /\ cache' = job[w].read.of /\ On(w, "late")
    /\ UNCHANGED <<row, holder, torn, made, sessions, people, clock, used>>

Late(w) ==
    /\ At(w, "late") /\ Goes(w, Idle)
    /\ cache' = IF Moved(job[w].read, row) THEN None ELSE cache
    /\ UNCHANGED <<row, holder, torn, made, sessions, people, clock, used>>

-----------------------------------------------------------------------------
(* Sign-in.                                                                *)

MayBind(i) == deploy.refuse /\ row # None => row.sub \in {None, i}

\* The provider sends identity i back.  An expired login, a consent short of a
\* scope, a person who is no member and a credential bound to somebody else all
\* end here, nothing written; the grant of a refused one is revoked.
Callback(w, i) == Ask(w) /\ MayBind(i)

\* The guarded upsert of the credential.
Store(w, i) ==
    /\ Callback(w, i)
    /\ row' = [provider |-> ProviderOf(i), sub |-> i, cred |-> made + 1, of |-> i]
    /\ made' = made + 1 /\ holder' = i
    /\ Goes(w, [at |-> "admit", who |-> i, sign |-> made + 1, term |-> term])
    /\ UNCHANGED <<cache, torn, sessions, people, clock>>

Seen(u, day) == [active |-> TRUE, seen |-> day, warned |-> None, gone |-> None]

Admit(w) ==
    /\ At(w, "admit") /\ On(w, "keep")
    /\ user' = IF user = None THEN Seen(user, None)
               ELSE [user EXCEPT !.active = TRUE, !.gone = None]
    /\ UNCHANGED <<credential, sessions, told, clock, used>>

Keep(w) ==
    /\ At(w, "keep") /\ cache' = job[w].who /\ On(w, "touch")
    /\ torn' = (torn \/ ~HasCredential(row) \/ row.sub # job[w].who)
    /\ UNCHANGED <<row, holder, made, sessions, people, clock, used>>

\* Activity that a sweep about to off-board the account can no longer see.
Racing == At(Cron, "batch")
Active(a, j) ==
    /\ user' = Seen(user, 0) /\ told' = None
    /\ job' = [job EXCEPT ![a] = j, ![Cron] =
               IF Racing THEN [@ EXCEPT !.raced = TRUE] ELSE @]

Touch(w) ==
    /\ At(w, "touch") /\ Active(w, [job[w] EXCEPT !.at = "code"])
    /\ UNCHANGED <<credential, sessions, clock, used>>

MintCode(w) ==
    /\ At(w, "code") /\ Goes(w, Idle)
    /\ codes' = codes \cup {[sign |-> job[w].sign, term |-> job[w].term,
                             late |-> job[w].term # term]}
    /\ UNCHANGED <<credential, pairs, people, clock, used>>

-----------------------------------------------------------------------------
(* Bearer and refresh tokens.  A pair neither half of which is live is     *)
(* forgotten, and so is a spent code: presenting either changes nothing.   *)

Key(p) == [sign |-> p.sign, n |-> p.n]
Live(set) == {p \in set : p.access \/ p.refresh}
Fresh(sign) == CHOOSE n \in 1..(MaxAsks + 1) : ~\E p \in pairs : Key(p) = [sign |-> sign, n |-> n]
Issued(j, set) ==
    set \cup {[sign |-> j.sign, n |-> Fresh(j.sign), term |-> j.since,
               late |-> j.late \/ j.term # term, access |-> TRUE, refresh |-> TRUE]}
Issuing(c) == [at |-> "issue", sign |-> c.sign, since |-> c.term, late |-> c.late, term |-> term]
Reissuing(p) == [at |-> "reissue", sign |-> p.sign, since |-> p.term, late |-> p.late,
                 term |-> term, old |-> Key(p)]

Present(w, c) ==
    /\ Ask(w) /\ c \in codes /\ Goes(w, [at |-> "consume", code |-> c])
    /\ UNCHANGED <<credential, sessions, people, clock>>

Consume(w) ==
    /\ At(w, "consume")
    /\ IF job[w].code \in codes
       THEN codes' = codes \ {job[w].code} /\ Goes(w, Issuing(job[w].code))
       ELSE Goes(w, Idle) /\ UNCHANGED codes
    /\ UNCHANGED <<credential, pairs, people, clock, used>>

Issue(w) ==
    /\ At(w, "issue") /\ Goes(w, Idle) /\ pairs' = Issued(job[w], pairs)
    /\ UNCHANGED <<credential, codes, people, clock, used>>

Refresh(w, p) ==
    /\ Ask(w) /\ p \in pairs /\ p.refresh
    /\ Goes(w, [at |-> "rotate", old |-> Key(p)])
    /\ UNCHANGED <<credential, sessions, people, clock>>

\* Mutant of Unspent: the rotation trusts the read before it.
StillKnown(old) == {p \in pairs : Key(p) = old}
Unspent(old) == {p \in pairs : Key(p) = old /\ p.refresh}

Rotate(w) ==
    /\ At(w, "rotate")
    /\ \/ \E p \in Unspent(job[w].old) :
            /\ pairs' = Live((pairs \ {p}) \cup {[p EXCEPT !.refresh = FALSE]})
            /\ Goes(w, Reissuing(p))
       \/ Unspent(job[w].old) = {} /\ Goes(w, Idle) /\ UNCHANGED pairs
    /\ UNCHANGED <<credential, codes, people, clock, used>>

\* One batch: the paired access token ends and the new pair begins.
Reissue(w) ==
    /\ At(w, "reissue") /\ Goes(w, Idle)
    /\ pairs' = Issued(job[w], Live({IF Key(p) = job[w].old THEN [p EXCEPT !.access = FALSE]
                                     ELSE p : p \in pairs}))
    /\ UNCHANGED <<credential, codes, people, clock, used>>

\* A client revokes one of its tokens; a delisted member's refresh loses both.
Revoke(w, p) ==
    /\ Ask(w) /\ p \in pairs /\ Goes(w, Idle)
    /\ \E gone \in {[p EXCEPT !.refresh = FALSE], [p EXCEPT !.access = FALSE],
                    [p EXCEPT !.refresh = FALSE, !.access = FALSE]} :
         pairs' = Live((pairs \ {p}) \cup {gone})
    /\ UNCHANGED <<credential, codes, people, clock>>

\* Any call with a live bearer token: activity, at most once between two sweeps.
Use(w, p) ==
    /\ Ask(w) /\ p \in pairs /\ p.access
    /\ user # None /\ user.active /\ (user.seen # 0 \/ user.warned # None)
    /\ Active(w, Idle)
    /\ UNCHANGED <<credential, sessions, clock>>

-----------------------------------------------------------------------------
(* The account is handed over: an administrator's rebind, an off-boarding. *)

EndSessions == codes' = {} /\ pairs' = {} /\ term' = term + 1 /\ holder' = None

AskRebind(w) ==
    /\ Ask(w) /\ row # None
    /\ Goes(w, [at |-> "clear", expected |-> [provider |-> row.provider, sub |-> row.sub]])
    /\ UNCHANGED <<credential, sessions, people, clock>>

Expected(w) ==
    row # None /\ [provider |-> row.provider, sub |-> row.sub] = job[w].expected

Clear(w) ==
    /\ At(w, "clear")
    /\ IF Expected(w)
       THEN /\ row' = [row EXCEPT !.sub = None, !.cred = 0, !.of = None]
            /\ EndSessions /\ Goes(w, [at |-> "forget"])
       ELSE Goes(w, Idle) /\ UNCHANGED <<row, sessions, term, holder>>
    /\ UNCHANGED <<cache, torn, made, people, deploy, used>>

Forget(w) ==
    /\ At(w, "forget") /\ cache' = None /\ Goes(w, Idle)
    /\ UNCHANGED <<row, holder, torn, made, sessions, people, clock, used>>

\* The owner or an administrator asks; channel and chunk events go first.
AskOffboard(w) ==
    /\ Ask(w) /\ Goes(w, [at |-> "batch", raced |-> FALSE])
    /\ UNCHANGED <<credential, sessions, people, clock>>

OffboardBatch(a) ==
    /\ At(a, "batch") /\ row' = None /\ EndSessions /\ Goes(a, [at |-> "drop"])
    /\ UNCHANGED <<cache, torn, made, people, deploy, used>>

OffboardDrop(a) ==
    /\ At(a, "drop") /\ cache' = None /\ Goes(a, [at |-> "deactivate"])
    /\ UNCHANGED <<row, holder, torn, made, sessions, people, clock, used>>

Deactivate(a) ==
    /\ At(a, "deactivate") /\ Goes(a, IF a = Cron THEN [at |-> "purge"] ELSE Idle)
    /\ user' = IF user = None THEN None
               ELSE [user EXCEPT !.active = FALSE,
                                 !.gone = IF user.active \/ @ = None THEN 0 ELSE @]
    /\ UNCHANGED <<credential, sessions, told, clock, used>>

-----------------------------------------------------------------------------
(* The daily sweep.  A day runs from one sweep to the next, so a time is   *)
(* older than n days at a sweep exactly when more than n have begun since. *)

WarnAfter == IF RetentionDays - LeadDays > 1 THEN RetentionDays - LeadDays ELSE 1
IdleFor(days) == user # None /\ user.active /\ user.seen # None /\ user.seen > days
ToWarn == IdleFor(WarnAfter) /\ user.warned = None
\* Mutant of StillToWarn: the stamp does not ask again whether the user is idle.
Unwarned == user # None /\ user.active /\ user.warned = None
StillToWarn == ToWarn
ToDelete == IdleFor(RetentionDays) /\ user.warned # None /\ user.warned >= LeadDays
ToPurge == user # None /\ ~user.active /\ user.gone # None /\ user.gone > PurgeDays

StartSweep ==
    /\ At(Cron, "idle") /\ Free /\ On(Cron, IF ToWarn THEN "mail" ELSE "due")
    /\ (ToWarn \/ ToDelete \/ ToPurge)
    /\ UNCHANGED <<credential, sessions, people, clock, used>>

\* The mailer says whether it sent; an unsent warning leaves no stamp.  Where
\* system mail is off nothing is sent, and the stamp is set all the same.
Mail ==
    /\ At(Cron, "mail")
    /\ \/ deploy.mailing /\ told' = 0 /\ On(Cron, "stamp")
       \/ deploy.mailing /\ On(Cron, "due") /\ UNCHANGED told
       \/ ~deploy.mailing /\ On(Cron, "stamp") /\ UNCHANGED told
    /\ UNCHANGED <<credential, sessions, user, clock, used>>

Stamp ==
    /\ At(Cron, "stamp") /\ On(Cron, "due")
    /\ user' = IF StillToWarn THEN [user EXCEPT !.warned = 0] ELSE user
    /\ UNCHANGED <<credential, sessions, told, clock, used>>

Due ==
    /\ At(Cron, "due") /\ On(Cron, IF ToDelete THEN "again" ELSE "purge")
    /\ UNCHANGED <<credential, sessions, people, clock, used>>

Again ==
    /\ At(Cron, "again")
    /\ Goes(Cron, IF ToDelete THEN [at |-> "batch", raced |-> FALSE] ELSE [at |-> "purge"])
    /\ UNCHANGED <<credential, sessions, people, clock, used>>

Purge ==
    /\ At(Cron, "purge") /\ Goes(Cron, Idle)
    /\ user' = IF ToPurge THEN None ELSE user
    /\ UNCHANGED <<credential, sessions, told, clock, used>>

-----------------------------------------------------------------------------
\* A request dies at an await, or a database or provider call throws.
Die(a) ==
    /\ job[a] # Idle /\ used < MaxAsks /\ used' = used + 1 /\ Goes(a, Idle)
    /\ torn' = (torn \/ job[a].at \in {"late", "admit", "keep", "forget", "drop"})
    /\ UNCHANGED <<row, cache, holder, made, sessions, people, clock>>

\* Counting stops where no comparison tells two counts apart.
Longer(days) == IF days = None THEN None
                ELSE IF \A n \in {RetentionDays, LeadDays, PurgeDays} : days > n THEN days
                ELSE days + 1

\* Midnight: the hour-long access tokens and ten-minute codes are long dead.
Tick ==
    /\ \A a \in Actors : job[a] = Idle
    /\ told' = Longer(told) /\ cache' = None /\ codes' = {}
    /\ user' = IF user = None THEN None
               ELSE [user EXCEPT !.seen = Longer(@), !.warned = Longer(@), !.gone = Longer(@)]
    /\ pairs' = Live({[p EXCEPT !.access = FALSE] : p \in pairs})
    /\ UNCHANGED <<deploy, row, job, used, made, holder, term, torn>>

\* A new address, a row from before anchors were kept, or a bound account.
Init ==
    /\ deploy \in [refuse : BOOLEAN, mailing : BOOLEAN] /\ cache = None /\ codes = {} /\ pairs = {}
    /\ job = [a \in Actors |-> Idle] /\ used = 0 /\ made = 1
    /\ term = 0 /\ torn = FALSE /\ told = None
    /\ \/ row = None /\ user = None /\ holder = None
       \/ \E i \in Identities : \E sub \in {None, i} :
            /\ holder = i /\ user = Seen(None, 0)
            /\ row = [provider |-> ProviderOf(i), sub |-> sub, cred |-> 1, of |-> i]

Next ==
    \/ \E w \in Workers :
         \/ Read(w) \/ Check(w) \/ WriteBack(w) \/ Why(w) \/ Put(w) \/ Late(w)
         \/ \E i \in Identities : Store(w, i)
         \/ Admit(w) \/ Keep(w) \/ Touch(w) \/ MintCode(w)
         \/ \E c \in codes : Present(w, c)
         \/ Consume(w) \/ Issue(w) \/ Rotate(w) \/ Reissue(w)
         \/ \E p \in pairs : Refresh(w, p) \/ Revoke(w, p) \/ Use(w, p)
         \/ AskRebind(w) \/ Clear(w) \/ Forget(w) \/ AskOffboard(w)
    \/ \E a \in Actors : OffboardBatch(a) \/ OffboardDrop(a) \/ Deactivate(a) \/ Die(a)
    \/ StartSweep \/ Mail \/ Stamp \/ Due \/ Again \/ Purge \/ Tick

Spec == Init /\ [][Next]_avars

-----------------------------------------------------------------------------
(* Requests that have written the cache, or are about to clear it.         *)
Settling == \E a \in Actors : job[a].at \in {"late", "keep", "admit", "forget", "drop"}

\* Whoever last signed in, and nobody else, is who the account acts for: the
\* stored credential is a grant of theirs, the cached access token too unless
\* a request that will check or drop it is under way, and no code or token
\* minted before a rebind or off-boarding outlives it except one that was being
\* written as it happened (getAccessToken's guards and re-reads,
\* clearIdentityAnchor, offboardUser).
HoldersOnly ==
    /\ HasCredential(row) => row.of = holder
    /\ cache # None /\ ~Settling /\ ~torn => HasCredential(row) /\ cache = row.of
    /\ \A s \in codes \cup pairs : s.late \/ s.term = term

\* However often and however concurrently its code and its refresh tokens are
\* presented, one sign-in never has two live refresh tokens or two live access
\* tokens (the used_at and revoked_at gates of /oauth/token).
OneChain ==
    \A p, q \in pairs : p.sign = q.sign /\ p # q =>
        ~(p.refresh /\ q.refresh) /\ ~(p.access /\ q.access)

\* The sweep off-boards nobody who has been active since their last warning,
\* or was warned less than LeadDays ago, unless they come back between its
\* last look and its batch: the warning was mailed if system mail is on.  On
\* record: where it is off the user is told nothing, and all that is LeadDays
\* old is the stamp of a warning that was only logged (retentionSweep).
Stamped == IF user = None THEN None ELSE user.warned
WarnedInTime ==
    LET since == IF deploy.mailing THEN told ELSE Stamped
    IN  since # None /\ since >= LeadDays
DeletedAfterWarning ==
    [][At(Cron, "batch") /\ job'[Cron].at = "drop" =>
         job[Cron].raced \/ WarnedInTime]_avars
=============================================================================
