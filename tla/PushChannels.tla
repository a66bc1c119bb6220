---------------------------- MODULE PushChannels ----------------------------
(***************************************************************************)
(* The push channel of one user's calendar: its calendar_sync row          *)
(* (worker/src/db/calendar-sync.ts), the calls of ensureSubscription that  *)
(* renew or rotate it (worker/src/webhooks/subscription-manager.ts), the   *)
(* resolves that store a sync token in the same row, sign-in               *)
(* (worker/src/auth/identity-store.ts) and offboarding                     *)
(* (worker/src/lifecycle/offboard.ts).                                     *)
(*                                                                         *)
(* A channel lives at the provider from its creation until it is stopped   *)
(* or lapses; its pushes count only while the row names it.  Creating,     *)
(* storing and stopping are three calls, and any of them can fail.  The    *)
(* id of a channel nobody refers to any more stands for a new one.         *)
(***************************************************************************)
EXTENDS Naturals, FiniteSets

CONSTANTS
    Channels,    \* channel ids
    Ensurers,    \* callers of ensureSubscription: the daily sweep, sign-in,
                 \* the route, a lifecycle notification
    Forced,      \* those that pass force: lifecycle notifications
    Upserters,   \* bound: resolves that store a sync token, one token each
    None,        \* no channel
    NoRow,       \* no calendar_sync row
    MaxFaults    \* bound: failed stops, throws, lapses, cleared channels

ASSUME NamesAssumption == None \notin Channels /\ Forced \subseteq Ensurers
ASSUME FaultsAssumption == MaxFaults \in Nat

VARIABLES
    grant,     \* identity_tokens holds a usable credential
    row,       \* the calendar_sync row: its channel, and its expiry is far off
    channel,   \* per channel: "none" (unborn, or stopped), "live", "leaked" (live,
               \* but somebody failed to stop it or dropped it) or "ended" (by
               \* the provider or an offboarding)
    ens, ups, off,  \* the callers' local states
    reverted,  \* history: the row's channel was written back by an upsert
    revived,   \* history: the row was written by an upsert, without a grant
    faults

pcvars == <<grant, row, channel, ens, ups, off, reverted, revived, faults>>
callers == <<ens, ups, off>>
past == <<reverted, revived>>

-----------------------------------------------------------------------------
Rows == [channel : Channels \cup {None}, fresh : BOOLEAN]
ASSUME NoRowAssumption == NoRow \notin Rows
Blank == [channel |-> None, fresh |-> FALSE]
Stored(r) == IF r = NoRow THEN None ELSE r.channel

Idle == [at |-> "idle", prior |-> None, own |-> None]
Ensures == [at : {"idle", "renew", "restamp", "subscribe", "store",
                  "stopOwn", "stopPrior"},
            prior : Channels \cup {None}, own : Channels \cup {None}]
Upserts == [at : {"idle", "resolve", "write", "done"}, saw : Rows \cup {NoRow}]
Resting == [at |-> "idle", saw |-> NoRow]
Offboards == [at : {"idle", "stop", "delete", "done"}, saw : Channels \cup {None}]

ChannelsTypeOK ==
    /\ grant \in BOOLEAN
    /\ row \in Rows \cup {NoRow}
    /\ channel \in [Channels -> {"none", "live", "leaked", "ended"}]
    /\ ens \in [Ensurers -> Ensures]
    /\ ups \in [Upserters -> Upserts]
    /\ off \in Offboards
    /\ reverted \in BOOLEAN /\ revived \in BOOLEAN
    /\ faults \in 0..MaxFaults

Init ==
    /\ grant = TRUE /\ row = NoRow
    /\ channel = [c \in Channels |-> "none"]
    /\ ens = [e \in Ensurers |-> Idle]
    /\ ups = [u \in Upserters |-> Resting]
    /\ off = [at |-> "idle", saw |-> None]
    /\ reverted = FALSE /\ revived = FALSE
    /\ faults = 0

Fault == faults < MaxFaults /\ faults' = faults + 1

Live == {c \in Channels : channel[c] \in {"live", "leaked"}}

\* The channels of cs, gone to status s where they are live.
Gone(cs, s) == [c \in Channels |-> IF c \in cs \cap Live THEN s ELSE channel[c]]

InUse == Live \cup {Stored(row), off.saw}
         \cup {ens[e].prior : e \in Ensurers} \cup {ens[e].own : e \in Ensurers}
         \cup {Stored(ups[u].saw) : u \in Upserters}

-----------------------------------------------------------------------------
(* ensureSubscription *)

\* Mutant of Needs: an expiry that comes near does not count.
NeedsNone == Stored(row) = None

\* The row has no channel, or one that expires within the threshold.
Needs == Stored(row) # None => ~row.fresh

\* It reads the row.  A channel that is fresh is left alone unless the caller
\* forces; another is renewed in place (Microsoft, six days a week) or rotated.
EnsureRead(e) ==
    /\ grant
    /\ ens[e].at = "idle"
    /\ e \notin Forced => Needs
    /\ \E way \in {"renew", "subscribe"} :
        /\ way = "renew" => Stored(row) # None
        /\ ens' = [ens EXCEPT ![e].at = way, ![e].prior = Stored(row)]
    /\ UNCHANGED <<grant, row, channel, ups, off, past, faults>>

\* The provider renews a channel that lives; a failure falls through to the
\* rotation.
EnsureRenew(e) ==
    /\ ens[e].at = "renew"
    /\ \/ /\ ens[e].prior \in Live
          /\ ens' = [ens EXCEPT ![e].at = "restamp"]
          /\ UNCHANGED faults
       \/ /\ ens[e].prior \notin Live
          /\ ens' = [ens EXCEPT ![e].at = "subscribe"]
          /\ UNCHANGED faults
       \/ /\ Fault
          /\ ens' = [ens EXCEPT ![e].at = "subscribe"]
    /\ UNCHANGED <<grant, row, channel, ups, off, past>>

\* The new expiry is stored only while the row still names the channel;
\* otherwise the renewed channel is stopped.
EnsureRestamp(e) ==
    /\ ens[e].at = "restamp"
    /\ IF Stored(row) = ens[e].prior
       THEN /\ row' = [row EXCEPT !.fresh = TRUE]
            /\ ens' = [ens EXCEPT ![e] = Idle]
       ELSE /\ ens' = [ens EXCEPT ![e].at = "stopPrior"]
            /\ UNCHANGED row
    /\ UNCHANGED <<grant, channel, ups, off, past, faults>>

\* A new channel is created at the provider (its id is any that is free),
EnsureSubscribe(e) ==
    /\ ens[e].at = "subscribe"
    /\ ~(Channels \subseteq InUse)
    /\ LET c == CHOOSE c \in Channels : c \notin InUse
       IN  /\ channel' = [channel EXCEPT ![c] = "live"]
           /\ ens' = [ens EXCEPT ![e].at = "store", ![e].own = c]
    /\ UNCHANGED <<grant, row, ups, off, past, faults>>

\* Mutants of Wins: the write is unconditional; the grant is not looked at.
WinsAlways(e) == grant
WinsGrantless(e) == row = NoRow \/ Stored(row) = ens[e].prior

\* and stored, while the row still names the channel read before (a missing
\* row is inserted) and the user still holds a grant.
Wins(e) == grant /\ (row = NoRow \/ Stored(row) = ens[e].prior)

\* The loser stops its own channel, the winner the one it replaced.
EnsureStore(e) ==
    /\ ens[e].at = "store"
    /\ IF Wins(e)
       THEN /\ row' = [channel |-> ens[e].own, fresh |-> TRUE]
            /\ reverted' = FALSE
            /\ ens' = [ens EXCEPT ![e] =
                        IF ens[e].prior = None THEN Idle
                        ELSE [@ EXCEPT !.at = "stopPrior", !.own = None]]
       ELSE /\ ens' = [ens EXCEPT ![e].at = "stopOwn", ![e].prior = None]
            /\ UNCHANGED <<row, reverted>>
    /\ UNCHANGED <<grant, channel, ups, off, revived, faults>>

\* Mutant of Condemned: the channel to stop is read from the row again.
CondemnedNow(e) == CASE ens[e].at = "stopOwn" -> {ens[e].own}
                     [] ens[e].at = "stopPrior" -> {Stored(row)} \ {None}
                     [] OTHER -> {}

\* What is being stopped.  Best effort: a failed stop leaves it to lapse.
Condemned(e) == CASE ens[e].at = "stopOwn" -> {ens[e].own}
                  [] ens[e].at = "stopPrior" -> {ens[e].prior}
                  [] OTHER -> {}

EnsureStop(e) ==
    /\ ens[e].at \in {"stopOwn", "stopPrior"}
    /\ \/ channel' = Gone(Condemned(e), "none") /\ UNCHANGED faults
       \/ Fault /\ channel' = Gone(Condemned(e), "leaked")
    /\ ens' = [ens EXCEPT ![e] = Idle]
    /\ UNCHANGED <<grant, row, ups, off, past>>

\* A provider or database call throws, or the worker dies: the call ends where
\* it is, and a channel it has created or was about to stop stays.
EnsureThrows(e) ==
    /\ ens[e].at # "idle"
    /\ Fault
    /\ channel' = Gone(Condemned(e) \cup {ens[e].own}, "leaked")
    /\ ens' = [ens EXCEPT ![e] = Idle]
    /\ UNCHANGED <<grant, row, ups, off, past>>

EnsureStep(e) ==
    \/ EnsureRead(e) \/ EnsureRenew(e) \/ EnsureRestamp(e)
    \/ EnsureSubscribe(e) \/ EnsureStore(e) \/ EnsureStop(e)

-----------------------------------------------------------------------------
(* upsertCalendarSync, called to store a sync token *)

ResolveBegin(u) ==
    /\ grant
    /\ ups[u].at = "idle"
    /\ ups' = [ups EXCEPT ![u].at = "resolve"]
    /\ UNCHANGED <<grant, row, channel, ens, off, past, faults>>

UpsertRead(u) ==
    /\ ups[u].at = "resolve"
    /\ ups' = [ups EXCEPT ![u] = [at |-> "write", saw |-> row]]
    /\ UNCHANGED <<grant, row, channel, ens, off, past, faults>>

\* Every column is written back as it was read, the channel included.
UpsertWrite(u) ==
    LET back == IF ups[u].saw = NoRow THEN Blank ELSE ups[u].saw
        other == back.channel # Stored(row)
    IN  /\ ups[u].at = "write"
        /\ row' = back
        /\ reverted' = (reverted \/ other)
        /\ channel' = IF other THEN Gone({Stored(row)}, "leaked") ELSE channel
        /\ revived' = (revived \/ ~grant)
        /\ ups' = [ups EXCEPT ![u] = [Resting EXCEPT !.at = "done"]]
        /\ UNCHANGED <<grant, ens, off, faults>>

-----------------------------------------------------------------------------
(* Sign-in, offboarding, and time *)

\* A sign-in stores a grant.
SignIn ==
    /\ ~grant
    /\ grant' = TRUE
    /\ revived' = FALSE
    /\ UNCHANGED <<row, channel, callers, reverted, faults>>

\* One under another provider, or that anchors an identity, clears the row's
\* channel in the same batch, without stopping it.
SignInElsewhere ==
    /\ grant /\ row # NoRow
    /\ Fault
    /\ row' = Blank
    /\ reverted' = FALSE
    /\ channel' = Gone({row.channel}, "leaked")
    /\ UNCHANGED <<grant, callers, revived>>

\* Offboarding (bound: one that goes through) reads the row's channel,
OffRead ==
    /\ grant /\ off.at = "idle"
    /\ off' = [at |-> "stop", saw |-> Stored(row)]
    /\ UNCHANGED <<grant, row, channel, ens, ups, past, faults>>

\* stops it, best effort,
OffStop ==
    /\ off.at = "stop"
    /\ off' = [off EXCEPT !.at = "delete"]
    /\ \/ channel' = Gone({off.saw}, "ended") /\ UNCHANGED faults
       \/ Fault /\ UNCHANGED channel
    /\ UNCHANGED <<grant, row, ens, ups, past>>

\* and deletes the user's rows in one batch.
OffDelete ==
    /\ off.at = "delete"
    /\ grant' = FALSE
    /\ row' = NoRow
    /\ reverted' = FALSE
    /\ channel' = Gone({Stored(row)}, "leaked")
    /\ off' = [at |-> "done", saw |-> None]
    /\ UNCHANGED <<ens, ups, revived, faults>>

\* It throws before the batch.
OffThrows ==
    /\ off.at \in {"stop", "delete"}
    /\ Fault
    /\ off' = [at |-> "idle", saw |-> None]
    /\ UNCHANGED <<grant, row, channel, ens, ups, past>>

\* The stored expiry comes near.
Age ==
    /\ row # NoRow /\ row.fresh
    /\ row' = [row EXCEPT !.fresh = FALSE]
    /\ UNCHANGED <<grant, channel, callers, past, faults>>

\* The provider ends a channel: one nobody stores by its expiry, the stored
\* one by a failure of the provider or of every renewal.
Lapse(c) ==
    /\ \/ channel[c] = "leaked" /\ c # Stored(row) /\ UNCHANGED faults
       \/ channel[c] \in {"live", "leaked"} /\ Fault
    /\ channel' = [channel EXCEPT ![c] = "ended"]
    /\ UNCHANGED <<grant, row, callers, past>>

Next ==
    \/ \E e \in Ensurers : EnsureStep(e) \/ EnsureThrows(e)
    \/ \E u \in Upserters : ResolveBegin(u) \/ UpsertRead(u) \/ UpsertWrite(u)
    \/ SignIn \/ SignInElsewhere
    \/ OffRead \/ OffStop \/ OffDelete \/ OffThrows
    \/ Age
    \/ \E c \in Channels : Lapse(c)

Spec == Init /\ [][Next]_pcvars

\* The sweep runs every day: its calls return and it comes round again, and
\* days pass.  Resolves, sign-ins and offboardings may never happen.
FairSpec ==
    /\ Spec
    /\ \A e \in Ensurers : WF_pcvars(EnsureStep(e))
    /\ \A c \in Channels : WF_pcvars(Lapse(c))
    /\ WF_pcvars(Age)

-----------------------------------------------------------------------------
(* Properties *)

\* A live channel is the stored one, or a call that is under way will store or
\* stop it, or somebody is on record for having failed to stop it: no
\* interleaving of renewals, rotations, offboarding and sign-in loses track of
\* a channel.
NoOrphan ==
    \A c \in Channels : channel[c] = "live" =>
        \/ c = Stored(row)
        \/ \E e \in Ensurers : \/ ens[e].at = "store" /\ ens[e].own = c
                               \/ c \in Condemned(e)

Delivers == Stored(row) \in Live
Ended == Stored(row) # None /\ channel[Stored(row)] = "ended"

\* The stored channel delivers, unless the provider or an offboarding ended it
\* or an upsert wrote it back: no rotation stops the channel the row names.
NeverDark == Stored(row) # None => Delivers \/ Ended \/ reverted

\* A user without a grant has no row, unless an upsert wrote it: a subscribe in
\* flight when the user is offboarded does not bring the row back.
GoneStaysGone == ~grant /\ row # NoRow => revived

\* A user who keeps a grant gets a live stored channel again, whatever ended
\* the last one.
ChannelComesBack ==
    grant ~> ~grant \/ Delivers
=============================================================================
