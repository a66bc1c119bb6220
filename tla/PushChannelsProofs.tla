------------------------- MODULE PushChannelsProofs -------------------------
(***************************************************************************)
(* Safety of PushChannels for any number of channels and callers: no live  *)
(* channel is lost track of, no rotation stops the stored channel, and an  *)
(* offboarded user's row comes back by an upsert only.                     *)
(***************************************************************************)
EXTENDS PushChannels, TLAPS

\* A call that restamps or stops a channel it has read has read one, and only
\* a call between creating its channel and giving it up has one of its own.
Shape ==
    \A e \in Ensurers :
        /\ ens[e].at \in {"renew", "restamp", "stopPrior"} => ens[e].prior # None
        /\ ens[e].at \in {"store", "stopOwn"} <=> ens[e].own # None

\* Nobody else has ever read the channel a call has created and not stored.
OwnIsPrivate ==
    \A e \in Ensurers : ens[e].own # None =>
        /\ ens[e].own # Stored(row)
        /\ ens[e].own # off.saw
        /\ \A u \in Upserters : ens[e].own # Stored(ups[u].saw)
        /\ \A f \in Ensurers : ens[e].own # ens[f].prior
        /\ \A f \in Ensurers \ {e} : ens[e].own # ens[f].own

\* That channel was not stopped.
OwnIsBorn ==
    \A e \in Ensurers : ens[e].at = "store" => channel[ens[e].own] # "none"

\* A channel that is being stopped as replaced is not stored, unless an upsert
\* wrote it back.
PriorIsReplaced ==
    \A e \in Ensurers :
        ens[e].at = "stopPrior" => ens[e].prior # Stored(row) \/ reverted

ChannelsInv == ChannelsTypeOK /\ Shape /\ OwnIsPrivate /\ OwnIsBorn /\ PriorIsReplaced

-----------------------------------------------------------------------------
\* What a row stores is a channel or none.
LEMMA StoredType ==
    ASSUME NEW r \in Rows \cup {NoRow}
    PROVE  Stored(r) \in Channels \cup {None}
BY NoRowAssumption DEF Stored, Rows

\* Ending channels keeps the type of their statuses.
LEMMA GoneType ==
    ASSUME ChannelsTypeOK, NEW cs, NEW s \in {"none", "leaked", "ended"}
    PROVE  Gone(cs, s) \in [Channels -> {"none", "live", "leaked", "ended"}]
BY DEF Gone, ChannelsTypeOK

\* A new id is one that nobody refers to.
LEMMA NewId ==
    ASSUME ~(Channels \subseteq InUse)
    PROVE  /\ (CHOOSE c \in Channels : c \notin InUse) \in Channels
           /\ (CHOOSE c \in Channels : c \notin InUse) \notin InUse
<1>1. \E c \in Channels : c \notin InUse
  OBVIOUS
<1> QED
  BY <1>1

-----------------------------------------------------------------------------
\* What a step that changes one call's record has to show.
LEMMA CallStep ==
    ASSUME ens \in [Ensurers -> Ensures], Shape,
           NEW e \in Ensurers, NEW r \in Ensures,
           r.at \in {"renew", "restamp", "stopPrior"} => r.prior # None,
           r.at \in {"store", "stopOwn"} <=> r.own # None,
           ens' = [ens EXCEPT ![e] = r]
    PROVE  ens' \in [Ensurers -> Ensures] /\ Shape'
<1>1. ens' \in [Ensurers -> Ensures]
  OBVIOUS
<1>2. \A f \in Ensurers : ens'[f] = IF f = e THEN r ELSE ens[f]
  OBVIOUS
<1> QED
  BY <1>1, <1>2 DEF Shape

\* Every step keeps the types and the shape of the calls.
LEMMA TypeStep ==
    ASSUME ChannelsTypeOK, Shape, [Next]_pcvars
    PROVE  ChannelsTypeOK' /\ Shape'
<1> USE NamesAssumption, NoRowAssumption
<1>a. Stored(row) \in Channels \cup {None}
  BY StoredType DEF ChannelsTypeOK
<1>b. None \notin Channels
  BY NamesAssumption
<1>1. ASSUME NEW e \in Ensurers, EnsureRead(e) PROVE ChannelsTypeOK' /\ Shape'
  <2>1. PICK way \in {"renew", "subscribe"} :
             /\ way = "renew" => Stored(row) # None
             /\ ens' = [ens EXCEPT ![e].at = way, ![e].prior = Stored(row)]
    BY <1>1 DEF EnsureRead
  <2>2. ens[e] \in Ensures /\ ens[e].at = "idle" /\ ens[e].own = None
    BY <1>1 DEF EnsureRead, ChannelsTypeOK, Shape, Ensures
  <2> DEFINE r == [ens[e] EXCEPT !.at = way, !.prior = Stored(row)]
  <2>3. r \in Ensures
    BY <1>a, <2>2 DEF Ensures
  <2>4. r.at = way /\ r.prior = Stored(row) /\ r.own = None
    BY <2>2 DEF Ensures
  <2>5. ens' = [ens EXCEPT ![e] = r]
    BY <2>1, <2>2 DEF ChannelsTypeOK, Ensures
  <2> HIDE DEF r
  <2>6. ens' \in [Ensurers -> Ensures] /\ Shape'
    BY <2>1, <2>3, <2>4, <2>5, CallStep DEF ChannelsTypeOK
  <2> QED
    BY <1>1, <2>6 DEF EnsureRead, ChannelsTypeOK, past
<1>2. ASSUME NEW e \in Ensurers, EnsureRenew(e) PROVE ChannelsTypeOK' /\ Shape'
  BY <1>2, FaultsAssumption DEF EnsureRenew, ChannelsTypeOK, Shape, Ensures, past, Fault
<1>3. ASSUME NEW e \in Ensurers, EnsureRestamp(e) PROVE ChannelsTypeOK' /\ Shape'
  <2>1. ens[e] \in Ensures /\ ens[e].prior # None /\ ens[e].own = None
    BY <1>3 DEF EnsureRestamp, ChannelsTypeOK, Shape, Ensures
  <2>2. CASE Stored(row) = ens[e].prior
    <3>1. row \in Rows
      BY <2>1, <2>2 DEF ChannelsTypeOK, Stored
    <3>2. [row EXCEPT !.fresh = TRUE] \in Rows
      BY <3>1 DEF Rows
    <3>3. row' \in Rows /\ ens' = [ens EXCEPT ![e] = Idle]
      BY <1>3, <2>2, <3>2 DEF EnsureRestamp
    <3>4. Idle \in Ensures
      BY DEF Idle, Ensures
    <3>5. ens' \in [Ensurers -> Ensures] /\ Shape'
      BY <3>3, <3>4, CallStep DEF ChannelsTypeOK, Idle
    <3> QED
      BY <1>3, <3>3, <3>5 DEF EnsureRestamp, ChannelsTypeOK, past
  <2>3. CASE Stored(row) # ens[e].prior
    <3>1. ens' = [ens EXCEPT ![e] = [ens[e] EXCEPT !.at = "stopPrior"]]
      BY <1>3, <2>3 DEF EnsureRestamp
    <3>2. [ens[e] EXCEPT !.at = "stopPrior"] \in Ensures
      BY <2>1 DEF Ensures
    <3>3. ens' \in [Ensurers -> Ensures] /\ Shape'
      BY <2>1, <3>1, <3>2, CallStep DEF ChannelsTypeOK, Ensures
    <3> QED
      BY <1>3, <2>3, <3>3 DEF EnsureRestamp, ChannelsTypeOK, past
  <2> QED
    BY <2>2, <2>3
<1>4. ASSUME NEW e \in Ensurers, EnsureSubscribe(e) PROVE ChannelsTypeOK' /\ Shape'
  BY <1>4, <1>b, NewId DEF EnsureSubscribe, ChannelsTypeOK, Shape, Ensures, past
<1>5. ASSUME NEW e \in Ensurers, EnsureStore(e) PROVE ChannelsTypeOK' /\ Shape'
  <2>1. ens[e] \in Ensures /\ ens[e].at = "store" /\ ens[e].own \in Channels
    BY <1>5 DEF EnsureStore, ChannelsTypeOK, Shape, Ensures
  <2> DEFINE lost == [ens[e] EXCEPT !.at = "stopOwn", !.prior = None]
             won == [ens[e] EXCEPT !.at = "stopPrior", !.own = None]
  <2>2. lost \in Ensures /\ lost.at = "stopOwn" /\ lost.own = ens[e].own
    BY <2>1 DEF Ensures
  <2>3. won \in Ensures /\ won.at = "stopPrior" /\ won.prior = ens[e].prior /\ won.own = None
    BY <2>1 DEF Ensures
  <2>4. Idle \in Ensures
    BY DEF Idle, Ensures
  <2>5. ens' \in [Ensurers -> Ensures] /\ Shape'
    <3>1. CASE Wins(e) /\ ens[e].prior = None
      <4>1. ens' = [ens EXCEPT ![e] = Idle]
        BY <1>5, <3>1 DEF EnsureStore
      <4> QED
        BY <2>4, <4>1, CallStep DEF ChannelsTypeOK, Idle
    <3>2. CASE Wins(e) /\ ens[e].prior # None
      <4>1. ens' = [ens EXCEPT ![e] = won]
        BY <1>5, <3>2 DEF EnsureStore
      <4> HIDE DEF won
      <4> QED
        BY <2>3, <3>2, <4>1, CallStep DEF ChannelsTypeOK
    <3>3. CASE ~Wins(e)
      <4>1. ens' = [ens EXCEPT ![e].at = "stopOwn", ![e].prior = None]
        BY <1>5, <3>3 DEF EnsureStore
      <4>2. ens' = [ens EXCEPT ![e] = lost]
        BY <2>1, <4>1 DEF ChannelsTypeOK, Ensures
      <4> HIDE DEF lost
      <4> QED
        BY <2>1, <2>2, <4>2, <1>b, CallStep DEF ChannelsTypeOK
    <3> QED
      BY <3>1, <3>2, <3>3
  <2>6. row' \in Rows \cup {NoRow} /\ reverted' \in BOOLEAN
    <3>1. [channel |-> ens[e].own, fresh |-> TRUE] \in Rows
      BY <2>1 DEF Rows
    <3> QED
      BY <1>5, <3>1 DEF EnsureStore, ChannelsTypeOK
  <2> QED
    BY <1>5, <2>5, <2>6 DEF EnsureStore, ChannelsTypeOK
<1>6. ASSUME NEW e \in Ensurers, EnsureStop(e) PROVE ChannelsTypeOK' /\ Shape'
  BY <1>6, GoneType, FaultsAssumption
     DEF EnsureStop, ChannelsTypeOK, Shape, Ensures, past, Idle, Fault
<1>7. ASSUME NEW e \in Ensurers, EnsureThrows(e) PROVE ChannelsTypeOK' /\ Shape'
  BY <1>7, GoneType, FaultsAssumption
     DEF EnsureThrows, ChannelsTypeOK, Shape, Ensures, past, Idle, Fault
<1>8. ASSUME NEW u \in Upserters, ResolveBegin(u) \/ UpsertRead(u) \/ UpsertWrite(u)
      PROVE  ChannelsTypeOK' /\ Shape'
  <2>1. ups[u] \in Upserts /\ Blank \in Rows /\ Resting \in Upserts
    BY DEF ChannelsTypeOK, Blank, Rows, Resting, Upserts
  <2>2. CASE ResolveBegin(u)
    BY <2>1, <2>2 DEF ResolveBegin, ChannelsTypeOK, Shape, Upserts, past
  <2>3. CASE UpsertRead(u)
    BY <2>1, <2>3 DEF UpsertRead, ChannelsTypeOK, Shape, Upserts, past
  <2>4. CASE UpsertWrite(u)
    <3>1. row' \in Rows \cup {NoRow}
      BY <2>1, <2>4 DEF UpsertWrite, Upserts
    <3>2. ups' \in [Upserters -> Upserts]
      BY <2>1, <2>4 DEF UpsertWrite, ChannelsTypeOK, Upserts, Resting
    <3>3. channel' \in [Channels -> {"none", "live", "leaked", "ended"}]
      BY <2>4, GoneType DEF UpsertWrite, ChannelsTypeOK
    <3>4. reverted' \in BOOLEAN /\ revived' \in BOOLEAN
      BY <2>4 DEF UpsertWrite, ChannelsTypeOK
    <3> QED
      BY <2>4, <3>1, <3>2, <3>3, <3>4 DEF UpsertWrite, ChannelsTypeOK, Shape
  <2> QED
    BY <1>8, <2>2, <2>3, <2>4
<1>9. ASSUME SignIn \/ SignInElsewhere PROVE ChannelsTypeOK' /\ Shape'
  <2>1. CASE SignIn
    BY <2>1 DEF SignIn, ChannelsTypeOK, Shape, callers
  <2>2. CASE SignInElsewhere
    <3>1. channel' \in [Channels -> {"none", "live", "leaked", "ended"}]
      BY <2>2, GoneType DEF SignInElsewhere
    <3>2. row' \in Rows /\ faults' \in 0..MaxFaults
      BY <2>2, FaultsAssumption DEF SignInElsewhere, Blank, Rows, Fault, ChannelsTypeOK
    <3> QED
      BY <2>2, <3>1, <3>2 DEF SignInElsewhere, ChannelsTypeOK, Shape, callers
  <2> QED
    BY <1>9, <2>1, <2>2
<1>10. ASSUME OffRead \/ OffStop \/ OffDelete \/ OffThrows PROVE ChannelsTypeOK' /\ Shape'
  <2>1. CASE OffRead
    BY <2>1, <1>a DEF OffRead, ChannelsTypeOK, Shape, Offboards, past
  <2>2. CASE OffStop
    <3>1. channel' \in [Channels -> {"none", "live", "leaked", "ended"}]
      BY <2>2, GoneType DEF OffStop, ChannelsTypeOK
    <3>2. off' \in Offboards /\ faults' \in 0..MaxFaults
      BY <2>2, FaultsAssumption DEF OffStop, ChannelsTypeOK, Offboards, Fault
    <3> QED
      BY <2>2, <3>1, <3>2 DEF OffStop, ChannelsTypeOK, Shape, past
  <2>3. CASE OffDelete
    BY <2>3, GoneType DEF OffDelete, ChannelsTypeOK, Shape, Offboards
  <2>4. CASE OffThrows
    BY <2>4, FaultsAssumption DEF OffThrows, ChannelsTypeOK, Shape, Offboards, past, Fault
  <2> QED
    BY <1>10, <2>1, <2>2, <2>3, <2>4
<1>11. ASSUME Age PROVE ChannelsTypeOK' /\ Shape'
  BY <1>11 DEF Age, ChannelsTypeOK, Shape, Rows, callers, past
<1>12. ASSUME NEW c \in Channels, Lapse(c) PROVE ChannelsTypeOK' /\ Shape'
  BY <1>12, FaultsAssumption DEF Lapse, ChannelsTypeOK, Shape, callers, past, Fault
<1>13. ASSUME UNCHANGED pcvars PROVE ChannelsTypeOK' /\ Shape'
  BY <1>13 DEF pcvars, ChannelsTypeOK, Shape
<1> QED
  BY <1>1, <1>2, <1>3, <1>4, <1>5, <1>6, <1>7, <1>8, <1>9, <1>10, <1>11, <1>12, <1>13
     DEF Next, EnsureStep

-----------------------------------------------------------------------------
\* What a step of ensureSubscription can do to what is read and owned.
LEMMA EnsureEffect ==
    ASSUME ChannelsTypeOK, Shape, NEW e \in Ensurers, EnsureStep(e) \/ EnsureThrows(e)
    PROVE  /\ \A f \in Ensurers \ {e} : ens'[f] = ens[f]
           /\ UNCHANGED <<ups, off>>
           /\ \/ ens'[e].own \in {None, ens[e].own}
              \/ ens'[e].own \in Channels \ InUse
           /\ ens'[e].prior \in {None, ens[e].prior, Stored(row)}
           /\ \/ Stored(row') = Stored(row) /\ reverted' = reverted
              \/ /\ ens[e].at = "store" /\ Stored(row') = ens[e].own
                 /\ ens'[e].own = None /\ channel' = channel
<1> USE NoRowAssumption
<1>a. ens[e] \in Ensures
  BY DEF ChannelsTypeOK
<1>1. CASE EnsureRead(e)
  BY <1>1, <1>a DEF EnsureRead, ChannelsTypeOK, Ensures, past
<1>2. CASE EnsureRenew(e)
  BY <1>2, <1>a DEF EnsureRenew, ChannelsTypeOK, Ensures, past
<1>3. CASE EnsureRestamp(e)
  <2>1. ens[e].prior # None
    BY <1>3 DEF EnsureRestamp, Shape
  <2>2. Stored(row') = Stored(row)
    <3>1. CASE Stored(row) = ens[e].prior
      <4>1. row \in Rows /\ row # NoRow
        BY <2>1, <3>1 DEF ChannelsTypeOK, Stored
      <4>2. row' = [row EXCEPT !.fresh = TRUE]
        BY <1>3, <3>1 DEF EnsureRestamp
      <4>3. row' \in Rows /\ row'.channel = row.channel
        BY <4>1, <4>2 DEF Rows
      <4> QED
        BY <4>1, <4>3 DEF Stored
    <3>2. CASE Stored(row) # ens[e].prior
      BY <1>3, <3>2 DEF EnsureRestamp
    <3> QED
      BY <3>1, <3>2
  <2> QED
    BY <1>3, <1>a, <2>2 DEF EnsureRestamp, ChannelsTypeOK, Ensures, Idle, past
<1>4. CASE EnsureSubscribe(e)
  BY <1>4, <1>a, NewId DEF EnsureSubscribe, ChannelsTypeOK, Ensures, past
<1>5. CASE EnsureStore(e)
  <2>1. [channel |-> ens[e].own, fresh |-> TRUE] \in Rows
    BY <1>a DEF Rows, Ensures
  <2>2. Stored([channel |-> ens[e].own, fresh |-> TRUE]) = ens[e].own
    BY <2>1 DEF Stored
  <2>3. CASE Wins(e)
    <3>1. row' = [channel |-> ens[e].own, fresh |-> TRUE]
      BY <1>5, <2>3 DEF EnsureStore
    <3>2. ens' = [ens EXCEPT ![e] = IF ens[e].prior = None THEN Idle
                         ELSE [ens[e] EXCEPT !.at = "stopPrior", !.own = None]]
      BY <1>5, <2>3 DEF EnsureStore
    <3>3. ens'[e].own = None /\ ens'[e].prior \in {None, ens[e].prior}
      BY <1>a, <3>2 DEF ChannelsTypeOK, Ensures, Idle
    <3> QED
      BY <1>5, <2>2, <3>1, <3>2, <3>3 DEF EnsureStore, ChannelsTypeOK
  <2>4. CASE ~Wins(e)
    BY <1>5, <1>a, <2>4 DEF EnsureStore, ChannelsTypeOK, Ensures
  <2> QED
    BY <2>3, <2>4
<1>6. CASE EnsureStop(e) \/ EnsureThrows(e)
  BY <1>6, <1>a DEF EnsureStop, EnsureThrows, ChannelsTypeOK, Idle, past
<1> QED
  BY <1>1, <1>2, <1>3, <1>4, <1>5, <1>6 DEF EnsureStep

\* What the other steps can do to what is read and owned.
Elsewhere ==
    \/ \E u \in Upserters : ResolveBegin(u) \/ UpsertRead(u) \/ UpsertWrite(u)
    \/ SignIn \/ SignInElsewhere
    \/ OffRead \/ OffStop \/ OffDelete \/ OffThrows
    \/ Age
    \/ \E c \in Channels : Lapse(c)
    \/ UNCHANGED pcvars

LEMMA ElsewhereEffect ==
    ASSUME ChannelsTypeOK, Elsewhere
    PROVE  /\ ens' = ens
           /\ \/ Stored(row') \in {Stored(row), None}
              \/ \E u \in Upserters : Stored(row') = Stored(ups[u].saw)
           /\ off'.saw \in {off.saw, None, Stored(row)}
           /\ \A u \in Upserters :
                Stored(ups'[u].saw) \in {Stored(ups[u].saw), None, Stored(row)}
<1> USE NoRowAssumption
<1>a. /\ Blank \in Rows /\ Stored(Blank) = None /\ Stored(NoRow) = None
      /\ Resting.saw = NoRow
  BY DEF Blank, Rows, Stored, Resting
<1>1. ASSUME NEW u \in Upserters, ResolveBegin(u) \/ UpsertRead(u)
      PROVE  /\ \A v \in Upserters : ups'[v].saw \in {ups[v].saw, row}
             /\ UNCHANGED <<ens, row, off>>
  BY <1>1 DEF ResolveBegin, UpsertRead, ChannelsTypeOK, Upserts
<1>2. ASSUME NEW u \in Upserters, UpsertWrite(u)
      PROVE  /\ \A v \in Upserters : ups'[v].saw \in {ups[v].saw, NoRow}
             /\ Stored(row') \in {None, Stored(ups[u].saw)}
             /\ UNCHANGED <<ens, off>>
  BY <1>2, <1>a DEF UpsertWrite, ChannelsTypeOK, Upserts, Resting
<1>3. ASSUME SignIn \/ SignInElsewhere
      PROVE  Stored(row') \in {Stored(row), None} /\ UNCHANGED <<ens, ups, off>>
  BY <1>3, <1>a DEF SignIn, SignInElsewhere, callers
<1>4. ASSUME OffRead \/ OffStop \/ OffDelete \/ OffThrows
      PROVE  /\ Stored(row') \in {Stored(row), None} /\ UNCHANGED <<ens, ups>>
             /\ off'.saw \in {off.saw, None, Stored(row)}
  BY <1>4, <1>a DEF OffRead, OffStop, OffDelete, OffThrows, ChannelsTypeOK, Offboards
<1>5. ASSUME Age PROVE Stored(row') = Stored(row) /\ UNCHANGED <<ens, ups, off>>
  <2>1. row \in Rows /\ row # NoRow /\ row' = [row EXCEPT !.fresh = FALSE]
    BY <1>5 DEF Age, ChannelsTypeOK
  <2>2. row' \in Rows /\ row'.channel = row.channel
    BY <2>1 DEF Rows
  <2> QED
    BY <1>5, <2>1, <2>2 DEF Age, Stored, callers
<1>6. ASSUME (\E c \in Channels : Lapse(c)) \/ UNCHANGED pcvars
      PROVE  UNCHANGED <<row, ens, ups, off>>
  BY <1>6 DEF Lapse, pcvars, callers
<1> QED
  BY <1>1, <1>2, <1>3, <1>4, <1>5, <1>6, <1>a DEF Elsewhere

\* A step is one of ensureSubscription or one of the others.
LEMMA StepCases ==
    ASSUME [Next]_pcvars
    PROVE  \/ \E e \in Ensurers : EnsureStep(e) \/ EnsureThrows(e)
           \/ Elsewhere
BY DEF Next, Elsewhere

-----------------------------------------------------------------------------
\* What a call owns stays private: it is compared with what was read before,
\* and whatever is read later is read from the row.
LEMMA PrivateStep ==
    ASSUME ChannelsTypeOK, Shape, OwnIsPrivate, [Next]_pcvars
    PROVE  OwnIsPrivate'
<1>a. None \notin Channels
  BY NamesAssumption
<1>1. ASSUME NEW e \in Ensurers, EnsureStep(e) \/ EnsureThrows(e) PROVE OwnIsPrivate'
  <2>1. /\ \A f \in Ensurers \ {e} : ens'[f] = ens[f]
        /\ UNCHANGED <<ups, off>>
        /\ \/ ens'[e].own \in {None, ens[e].own}
           \/ ens'[e].own \in Channels \ InUse
        /\ ens'[e].prior \in {None, ens[e].prior, Stored(row)}
        /\ \/ Stored(row') = Stored(row)
           \/ /\ ens[e].at = "store" /\ Stored(row') = ens[e].own
              /\ ens'[e].own = None
    BY <1>1, EnsureEffect
  <2>2. \A c \in Channels \ InUse :
            /\ c # Stored(row) /\ c # off.saw
            /\ \A u \in Upserters : c # Stored(ups[u].saw)
            /\ \A f \in Ensurers : c # ens[f].prior /\ c # ens[f].own
    BY DEF InUse
  <2>3. ens[e].at = "store" => ens[e].own # None
    BY DEF Shape
  <2> SUFFICES ASSUME NEW g \in Ensurers, ens'[g].own # None
               PROVE  /\ ens'[g].own # Stored(row')
                      /\ ens'[g].own # off.saw
                      /\ \A u \in Upserters : ens'[g].own # Stored(ups[u].saw)
                      /\ \A f \in Ensurers : ens'[g].own # ens'[f].prior
                      /\ \A f \in Ensurers \ {g} : ens'[g].own # ens'[f].own
    BY <2>1 DEF OwnIsPrivate, Stored
  <2>4. CASE g = e
    <3>1. CASE ens'[e].own = ens[e].own
      BY <2>1, <2>4, <3>1 DEF OwnIsPrivate
    <3>2. CASE ens'[e].own \in Channels \ InUse
      BY <2>1, <2>2, <2>4, <3>2, <1>a
    <3> QED
      BY <2>1, <2>4, <3>1, <3>2
  <2>5. CASE g # e
    <3>1. ens'[g] = ens[g] /\ ens[g].own # None
      BY <2>1, <2>5
    <3>2. /\ ens[g].own # Stored(row) /\ ens[g].own # off.saw
          /\ \A u \in Upserters : ens[g].own # Stored(ups[u].saw)
          /\ \A f \in Ensurers : ens[g].own # ens[f].prior
          /\ \A f \in Ensurers \ {g} : ens[g].own # ens[f].own
      BY <3>1 DEF OwnIsPrivate
    <3>3. ens'[e].own # ens[g].own
      BY <2>1, <2>2, <2>5, <3>1, <3>2
    <3> QED
      BY <2>1, <2>5, <3>1, <3>2, <3>3
  <2> QED
    BY <2>4, <2>5
<1>2. ASSUME Elsewhere PROVE OwnIsPrivate'
  <2>1. /\ ens' = ens
        /\ \/ Stored(row') \in {Stored(row), None}
           \/ \E u \in Upserters : Stored(row') = Stored(ups[u].saw)
        /\ off'.saw \in {off.saw, None, Stored(row)}
        /\ \A u \in Upserters :
             Stored(ups'[u].saw) \in {Stored(ups[u].saw), None, Stored(row)}
    BY <1>2, ElsewhereEffect
  <2> SUFFICES ASSUME NEW g \in Ensurers, ens[g].own # None
               PROVE  /\ ens[g].own # Stored(row')
                      /\ ens[g].own # off'.saw
                      /\ \A u \in Upserters : ens[g].own # Stored(ups'[u].saw)
                      /\ \A f \in Ensurers : ens[g].own # ens[f].prior
                      /\ \A f \in Ensurers \ {g} : ens[g].own # ens[f].own
    BY <2>1 DEF OwnIsPrivate, Stored
  <2> QED
    BY <2>1 DEF OwnIsPrivate
<1> QED
  BY <1>1, <1>2, StepCases

\* Only the stops of Condemned return a channel to "none".
LEMMA BornStep ==
    ASSUME ChannelsTypeOK, Shape, OwnIsPrivate, OwnIsBorn, [Next]_pcvars
    PROVE  OwnIsBorn'
<1> USE NamesAssumption
<1>1. ASSUME NEW e \in Ensurers, EnsureSubscribe(e) PROVE OwnIsBorn'
  <2> DEFINE c == CHOOSE x \in Channels : x \notin InUse
  <2>1. c \in Channels
    BY <1>1, NewId DEF EnsureSubscribe
  <2>2. /\ channel' = [channel EXCEPT ![c] = "live"]
        /\ ens' = [ens EXCEPT ![e].at = "store", ![e].own = c]
    BY <1>1 DEF EnsureSubscribe
  <2> HIDE DEF c
  <2>3. ens'[e].own = c /\ \A f \in Ensurers \ {e} : ens'[f] = ens[f]
    BY <2>2 DEF ChannelsTypeOK, Ensures
  <2>4. \A x \in Channels : channel'[x] \in {"live", channel[x]} /\ channel'[c] = "live"
    BY <2>1, <2>2 DEF ChannelsTypeOK
  <2>5. \A f \in Ensurers : ens[f].at = "store" => ens[f].own \in Channels
    BY DEF Shape, ChannelsTypeOK, Ensures
  <2> QED
    BY <2>1, <2>3, <2>4, <2>5 DEF OwnIsBorn
<1>2. ASSUME NEW e \in Ensurers, EnsureStop(e) PROVE OwnIsBorn'
  <2>1. \A f \in Ensurers : ens'[f].at = "store" =>
            ens[f].at = "store" /\ ens'[f] = ens[f] /\ f # e
    BY <1>2 DEF EnsureStop, ChannelsTypeOK, Idle
  <2>2. \A f \in Ensurers \ {e} : ens[f].at = "store" =>
            ens[f].own \in Channels /\ ens[f].own \notin Condemned(e)
    BY <1>2 DEF EnsureStop, Condemned, OwnIsPrivate, Shape, ChannelsTypeOK, Ensures
  <2>3. \A c \in Channels \ Condemned(e) : channel'[c] = channel[c]
    BY <1>2 DEF EnsureStop, Gone
  <2> QED
    BY <2>1, <2>2, <2>3 DEF OwnIsBorn
<1>3. ASSUME NEW e \in Ensurers,
             EnsureRead(e) \/ EnsureRenew(e) \/ EnsureRestamp(e) \/ EnsureStore(e)
      PROVE  OwnIsBorn'
  <2>1. channel' = channel
    BY <1>3 DEF EnsureRead, EnsureRenew, EnsureRestamp, EnsureStore
  <2>2. \A f \in Ensurers : ens'[f].at = "store" => ens'[f] = ens[f]
    <3>1. \A f \in Ensurers \ {e} : ens'[f] = ens[f]
      BY <1>3 DEF EnsureRead, EnsureRenew, EnsureRestamp, EnsureStore, ChannelsTypeOK
    <3>2. ens'[e].at # "store"
      <4>1. ens[e] \in Ensures
        BY DEF ChannelsTypeOK
      <4>2. CASE EnsureRead(e) \/ EnsureRenew(e)
        BY <4>1, <4>2 DEF EnsureRead, EnsureRenew, ChannelsTypeOK, Ensures
      <4>3. CASE EnsureRestamp(e)
        BY <4>1, <4>3 DEF EnsureRestamp, ChannelsTypeOK, Ensures, Idle
      <4>4. CASE EnsureStore(e)
        <5>1. CASE Wins(e)
          <6>1. ens' = [ens EXCEPT ![e] = IF ens[e].prior = None THEN Idle
                           ELSE [ens[e] EXCEPT !.at = "stopPrior", !.own = None]]
            BY <4>4, <5>1 DEF EnsureStore
          <6> QED
            BY <4>1, <6>1 DEF ChannelsTypeOK, Ensures, Idle
        <5>2. CASE ~Wins(e)
          BY <4>1, <4>4, <5>2 DEF EnsureStore, ChannelsTypeOK, Ensures
        <5> QED
          BY <5>1, <5>2
      <4> QED
        BY <1>3, <4>2, <4>3, <4>4
    <3> QED
      BY <3>1, <3>2
  <2> QED
    BY <2>1, <2>2 DEF OwnIsBorn
<1>4. ASSUME \/ \E e \in Ensurers : EnsureThrows(e)
             \/ Elsewhere
      PROVE  OwnIsBorn'
  <2>1. \A f \in Ensurers : ens'[f].at = "store" => ens'[f] = ens[f]
    <3>1. ASSUME NEW e \in Ensurers, EnsureThrows(e)
          PROVE  \A f \in Ensurers : ens'[f].at = "store" => ens'[f] = ens[f]
      BY <3>1 DEF EnsureThrows, ChannelsTypeOK, Idle
    <3>2. ASSUME Elsewhere PROVE ens' = ens
      BY <3>2, ElsewhereEffect
    <3> QED
      BY <1>4, <3>1, <3>2
  <2>2. \A c \in Channels : channel[c] # "none" => channel'[c] # "none"
    BY <1>4 DEF Elsewhere, EnsureThrows, ResolveBegin, UpsertRead, UpsertWrite, SignIn,
                SignInElsewhere, OffRead, OffStop, OffDelete, OffThrows, Age, Lapse, Gone,
                pcvars, ChannelsTypeOK
  <2>3. \A f \in Ensurers : ens[f].at = "store" => ens[f].own \in Channels
    BY DEF Shape, ChannelsTypeOK, Ensures
  <2> QED
    BY <2>1, <2>2, <2>3 DEF OwnIsBorn
<1> QED
  BY <1>1, <1>2, <1>3, <1>4, StepCases DEF EnsureStep

\* Outside ensureSubscription a stored channel changes to none, or by an upsert.
LEMMA RowEffect ==
    ASSUME ChannelsTypeOK, Elsewhere
    PROVE  \/ reverted'
           \/ Stored(row') = None
           \/ Stored(row') = Stored(row) /\ ~reverted
<1> USE NoRowAssumption
<1>a. Blank \in Rows /\ Stored(Blank) = None /\ Stored(NoRow) = None
  BY DEF Blank, Rows, Stored
<1>1. ASSUME NEW u \in Upserters, UpsertWrite(u)
      PROVE  reverted' \/ (Stored(row') = Stored(row) /\ ~reverted)
  <2> DEFINE back == IF ups[u].saw = NoRow THEN Blank ELSE ups[u].saw
  <2>1. row' = back /\ reverted' = (reverted \/ back.channel # Stored(row))
    BY <1>1 DEF UpsertWrite
  <2>2. back \in Rows
    BY <1>a DEF ChannelsTypeOK, Upserts
  <2> HIDE DEF back
  <2>3. Stored(row') = back.channel
    BY <2>1, <2>2 DEF Stored
  <2> QED
    BY <2>1, <2>3
<1>2. ASSUME SignInElsewhere \/ OffDelete PROVE Stored(row') = None
  BY <1>2, <1>a DEF SignInElsewhere, OffDelete
<1>3. ASSUME Age PROVE Stored(row') = Stored(row) /\ reverted' = reverted
  <2>1. row \in Rows /\ row # NoRow /\ row' = [row EXCEPT !.fresh = FALSE]
    BY <1>3 DEF Age, ChannelsTypeOK
  <2>2. row' \in Rows /\ row'.channel = row.channel
    BY <2>1 DEF Rows
  <2> QED
    BY <1>3, <2>1, <2>2 DEF Age, Stored, past
<1>4. ASSUME \/ \E u \in Upserters : ResolveBegin(u) \/ UpsertRead(u)
             \/ SignIn \/ OffRead \/ OffStop \/ OffThrows
             \/ \E c \in Channels : Lapse(c)
             \/ UNCHANGED pcvars
      PROVE  row' = row /\ reverted' = reverted
  BY <1>4 DEF ResolveBegin, UpsertRead, SignIn, OffRead, OffStop, OffThrows, Lapse,
              pcvars, past
<1> QED
  BY <1>1, <1>2, <1>3, <1>4 DEF Elsewhere, Stored, ChannelsTypeOK

\* A channel that was created is only taken away by a stop.
LEMMA StoppedOnly ==
    ASSUME ChannelsTypeOK, [Next]_pcvars, NEW c \in Channels,
           channel[c] # "none", channel'[c] = "none"
    PROVE  \E e \in Ensurers : EnsureStop(e) /\ c \in Condemned(e)
<1>1. ASSUME NEW e \in Ensurers, EnsureSubscribe(e) PROVE FALSE
  <2> DEFINE x == CHOOSE x \in Channels : x \notin InUse
  <2>1. channel' = [channel EXCEPT ![x] = "live"]
    BY <1>1 DEF EnsureSubscribe
  <2> HIDE DEF x
  <2> QED
    BY <2>1 DEF ChannelsTypeOK
<1>2. ASSUME NEW e \in Ensurers,
             EnsureRead(e) \/ EnsureRenew(e) \/ EnsureRestamp(e) \/ EnsureStore(e)
      PROVE  FALSE
  BY <1>2 DEF EnsureRead, EnsureRenew, EnsureRestamp, EnsureStore
<1>3. ASSUME \/ \E e \in Ensurers : EnsureThrows(e)
             \/ Elsewhere
      PROVE  FALSE
  BY <1>3 DEF Elsewhere, EnsureThrows, ResolveBegin, UpsertRead, UpsertWrite, SignIn,
              SignInElsewhere, OffRead, OffStop, OffDelete, OffThrows, Age, Lapse, Gone,
              pcvars, ChannelsTypeOK
<1>4. ASSUME NEW e \in Ensurers, EnsureStop(e) PROVE c \in Condemned(e)
  BY <1>4 DEF EnsureStop, Gone
<1> QED
  BY <1>1, <1>2, <1>3, <1>4, StepCases DEF EnsureStep

\* A channel that is being stopped as replaced does not become the stored one.
LEMMA PriorStep ==
    ASSUME ChannelsInv, [Next]_pcvars
    PROVE  PriorIsReplaced'
<1> USE DEF ChannelsInv
<1>1. ASSUME NEW e \in Ensurers, EnsureStep(e) \/ EnsureThrows(e) PROVE PriorIsReplaced'
  <2>1. /\ \A f \in Ensurers \ {e} : ens'[f] = ens[f]
        /\ \/ Stored(row') = Stored(row) /\ reverted' = reverted
           \/ ens[e].at = "store" /\ Stored(row') = ens[e].own
    BY <1>1, EnsureEffect
  <2>2. ens[e].at = "store" => \A f \in Ensurers : ens[e].own # ens[f].prior
    BY DEF OwnIsPrivate, Shape
  <2>3. \A f \in Ensurers : ens[f].at = "stopPrior" =>
            ens[f].prior # Stored(row') \/ reverted'
    BY <2>1, <2>2 DEF PriorIsReplaced
  <2>4. ens'[e].at = "stopPrior" => ens'[e].prior # Stored(row') \/ reverted'
    <3>1. ens[e] \in Ensures
      BY DEF ChannelsTypeOK
    <3>2. CASE EnsureRestamp(e)
      BY <3>1, <3>2 DEF EnsureRestamp, ChannelsTypeOK, Ensures, Idle
    <3>3. CASE EnsureStore(e)
      <4>1. CASE Wins(e)
        <5>1. row' = [channel |-> ens[e].own, fresh |-> TRUE]
          BY <3>3, <4>1 DEF EnsureStore
        <5>2. Stored(row') = ens[e].own
          <6>1. [channel |-> ens[e].own, fresh |-> TRUE] \in Rows
            BY <3>1 DEF Rows, Ensures
          <6> QED
            BY <5>1, <6>1, NoRowAssumption DEF Stored
        <5>3. ens' = [ens EXCEPT ![e] = IF ens[e].prior = None THEN Idle
                           ELSE [ens[e] EXCEPT !.at = "stopPrior", !.own = None]]
          BY <3>3, <4>1 DEF EnsureStore
        <5>4. ens'[e].prior \in {None, ens[e].prior}
          BY <3>1, <5>3 DEF ChannelsTypeOK, Ensures, Idle
        <5>5. ens[e].own # None /\ ens[e].own # ens[e].prior
          BY <2>2, <3>3 DEF EnsureStore, Shape
        <5> QED
          BY <5>2, <5>4, <5>5
      <4>2. CASE ~Wins(e)
        BY <3>1, <3>3, <4>2 DEF EnsureStore, ChannelsTypeOK, Ensures
      <4> QED
        BY <4>1, <4>2
    <3>4. CASE EnsureRead(e) \/ EnsureRenew(e)
      BY <3>1, <3>4 DEF EnsureRead, EnsureRenew, ChannelsTypeOK, Ensures
    <3>5. CASE EnsureSubscribe(e)
      BY <3>1, <3>5 DEF EnsureSubscribe, ChannelsTypeOK, Ensures
    <3>6. CASE EnsureStop(e) \/ EnsureThrows(e)
      BY <3>6 DEF EnsureStop, EnsureThrows, ChannelsTypeOK, Idle
    <3> QED
      BY <1>1, <3>2, <3>3, <3>4, <3>5, <3>6 DEF EnsureStep
  <2> QED
    BY <2>1, <2>3, <2>4 DEF PriorIsReplaced, Stored
<1>2. ASSUME Elsewhere PROVE PriorIsReplaced'
  <2>1. ens' = ens
    BY <1>2, ElsewhereEffect
  <2>2. \A e \in Ensurers : ens[e].at = "stopPrior" => ens[e].prior # None
    BY DEF Shape
  <2>3. \A e \in Ensurers : ens[e].at = "stopPrior" =>
            ens[e].prior # Stored(row') \/ reverted'
    BY <1>2, <2>2, RowEffect DEF PriorIsReplaced
  <2> QED
    BY <2>1, <2>3 DEF PriorIsReplaced, Stored
<1> QED
  BY <1>1, <1>2, StepCases

-----------------------------------------------------------------------------
\* ChannelsInv is inductive.
LEMMA ChannelsInvariant == Spec => []ChannelsInv
<1>1. Init => ChannelsInv
  <2> SUFFICES ASSUME Init PROVE ChannelsInv
    OBVIOUS
  <2>1. Idle \in Ensures /\ Resting \in Upserts /\ [at |-> "idle", saw |-> None] \in Offboards
    BY DEF Idle, Ensures, Resting, Upserts, Offboards
  <2>2. ChannelsTypeOK
    <3>1. faults \in 0..MaxFaults
      BY FaultsAssumption DEF Init
    <3>2. channel \in [Channels -> {"none", "live", "leaked", "ended"}]
      BY DEF Init
    <3> QED
      BY <2>1, <3>1, <3>2 DEF Init, ChannelsTypeOK
  <2>3. \A e \in Ensurers : ens[e].at = "idle" /\ ens[e].own = None
    BY DEF Init, Idle
  <2>4. Shape /\ OwnIsPrivate /\ OwnIsBorn /\ PriorIsReplaced
    BY <2>3 DEF Shape, OwnIsPrivate, OwnIsBorn, PriorIsReplaced
  <2> QED
    BY <2>2, <2>4 DEF ChannelsInv
<1>2. ChannelsInv /\ [Next]_pcvars => ChannelsInv'
  BY TypeStep, PrivateStep, BornStep, PriorStep DEF ChannelsInv
<1> QED
  BY <1>1, <1>2, PTL DEF Spec

\* The calls, the row and the channels keep their types.
THEOREM ChannelsTyped == Spec => []ChannelsTypeOK
BY ChannelsInvariant, PTL DEF ChannelsInv

\* A call that gives up a channel stops it, stores it or marks it.
LEMMA OrphanStep ==
    ASSUME ChannelsInv, NoOrphan, [Next]_pcvars
    PROVE  NoOrphan'
<1> USE DEF ChannelsInv
<1>1. ASSUME NEW e \in Ensurers, EnsureSubscribe(e) PROVE NoOrphan'
  <2> DEFINE c == CHOOSE x \in Channels : x \notin InUse
  <2>1. /\ channel' = [channel EXCEPT ![c] = "live"]
        /\ ens' = [ens EXCEPT ![e].at = "store", ![e].own = c]
        /\ row' = row /\ ens[e].at = "subscribe"
    BY <1>1 DEF EnsureSubscribe
  <2> HIDE DEF c
  <2>2. /\ ens'[e].at = "store" /\ ens'[e].own = c
        /\ \A f \in Ensurers \ {e} : ens'[f] = ens[f]
    BY <2>1 DEF ChannelsTypeOK, Ensures
  <2>3. \A x \in Channels : x # c => channel'[x] = channel[x]
    BY <2>1 DEF ChannelsTypeOK
  <2>4. Condemned(e) = {} /\ \A f \in Ensurers \ {e} : Condemned(f)' = Condemned(f)
    BY <2>1, <2>2 DEF Condemned
  <2> QED
    BY <2>1, <2>2, <2>3, <2>4 DEF NoOrphan, Stored
<1>2. ASSUME NEW e \in Ensurers, EnsureStore(e) PROVE NoOrphan'
  <2>1. ens[e] \in Ensures /\ ens[e].at = "store" /\ channel' = channel
    BY <1>2 DEF EnsureStore, ChannelsTypeOK
  <2>2. \A f \in Ensurers \ {e} : ens'[f] = ens[f]
    BY <1>2, EnsureEffect DEF EnsureStep
  <2>3. CASE Wins(e)
    <3>1. [channel |-> ens[e].own, fresh |-> TRUE] \in Rows
      BY <2>1 DEF Rows, Ensures
    <3>2. Stored(row') = ens[e].own
      <4>1. row' = [channel |-> ens[e].own, fresh |-> TRUE]
        BY <1>2, <2>3 DEF EnsureStore
      <4> QED
        BY <3>1, <4>1, NoRowAssumption DEF Stored
    <3>3. ens' = [ens EXCEPT ![e] = IF ens[e].prior = None THEN Idle
                         ELSE [ens[e] EXCEPT !.at = "stopPrior", !.own = None]]
      BY <1>2, <2>3 DEF EnsureStore
    <3>4. ens[e].prior # None =>
              ens'[e].at = "stopPrior" /\ ens'[e].prior = ens[e].prior
      BY <2>1, <3>3 DEF ChannelsTypeOK, Ensures
    <3>5. Stored(row) \in {None, ens[e].prior}
      BY <2>3 DEF Wins, Stored
    <3> QED
      BY <2>1, <2>2, <3>2, <3>4, <3>5, NamesAssumption DEF NoOrphan, Condemned
  <2>4. CASE ~Wins(e)
    <3>1. row' = row /\ ens'[e].at = "stopOwn" /\ ens'[e].own = ens[e].own
      BY <1>2, <2>1, <2>4 DEF EnsureStore, ChannelsTypeOK, Ensures
    <3> QED
      BY <2>1, <2>2, <3>1 DEF NoOrphan, Condemned, Stored
  <2> QED
    BY <2>3, <2>4
<1>3. ASSUME NEW e \in Ensurers, EnsureRead(e) \/ EnsureRenew(e) \/ EnsureRestamp(e)
      PROVE  NoOrphan'
  <2>1. /\ channel' = channel
        /\ Condemned(e) = {} /\ ens[e].at # "store"
    BY <1>3 DEF EnsureRead, EnsureRenew, EnsureRestamp, Condemned
  <2>2. Stored(row') = Stored(row) /\ \A f \in Ensurers \ {e} : ens'[f] = ens[f]
    BY <1>3, <2>1, EnsureEffect DEF EnsureStep
  <2> QED
    BY <2>1, <2>2 DEF NoOrphan, Condemned, Stored
<1>4. ASSUME NEW e \in Ensurers, EnsureStop(e) \/ EnsureThrows(e) PROVE NoOrphan'
  <2>1. /\ \A c \in Channels : channel'[c] = "live" =>
              /\ channel[c] = "live" /\ c \notin Condemned(e)
              /\ ~(ens[e].at = "store" /\ ens[e].own = c)
        /\ \A f \in Ensurers \ {e} : ens'[f] = ens[f]
        /\ row' = row
    BY <1>4 DEF EnsureStop, EnsureThrows, Gone, Live, ChannelsTypeOK
  <2> QED
    BY <2>1 DEF NoOrphan, Condemned, Stored
<1>5. ASSUME Elsewhere PROVE NoOrphan'
  <2>1. ens' = ens
    BY <1>5, ElsewhereEffect
  <2>2. \A c \in Channels : channel'[c] = "live" =>
            channel[c] = "live" /\ (c = Stored(row) => c = Stored(row'))
    <3>1. CASE \E u \in Upserters : UpsertWrite(u)
      <4>1. PICK u \in Upserters : UpsertWrite(u)
        BY <3>1
      <4> DEFINE back == IF ups[u].saw = NoRow THEN Blank ELSE ups[u].saw
      <4>2. back \in Rows
        BY DEF ChannelsTypeOK, Upserts, Blank, Rows
      <4>3. /\ row' = back
            /\ channel' = IF back.channel # Stored(row)
                          THEN Gone({Stored(row)}, "leaked") ELSE channel
        BY <4>1 DEF UpsertWrite
      <4> HIDE DEF back
      <4>4. Stored(row') = back.channel
        BY <4>2, <4>3, NoRowAssumption DEF Stored
      <4> QED
        BY <4>3, <4>4 DEF Gone, Live
    <3>2. CASE SignInElsewhere \/ OffDelete
      <4>1. channel' = Gone({Stored(row)}, "leaked")
        BY <3>2 DEF SignInElsewhere, OffDelete, Stored
      <4> QED
        BY <4>1 DEF Gone, Live
    <3>3. CASE Age
      <4>1. channel' = channel /\ row \in Rows /\ row # NoRow
        BY <3>3 DEF Age, ChannelsTypeOK
      <4>2. row' \in Rows /\ row'.channel = row.channel
        BY <3>3, <4>1 DEF Age, Rows
      <4> QED
        BY <4>1, <4>2, NoRowAssumption DEF Stored
    <3>4. CASE \/ \E u \in Upserters : ResolveBegin(u) \/ UpsertRead(u)
               \/ SignIn \/ OffRead \/ OffStop \/ OffThrows
               \/ \E c \in Channels : Lapse(c)
               \/ UNCHANGED pcvars
      BY <3>4 DEF ResolveBegin, UpsertRead, SignIn, OffRead, OffStop, OffThrows, Lapse,
                  Gone, pcvars, ChannelsTypeOK, Stored
    <3> QED
      BY <1>5, <3>1, <3>2, <3>3, <3>4 DEF Elsewhere
  <2> QED
    BY <2>1, <2>2 DEF NoOrphan, Condemned, Stored
<1> QED
  BY <1>1, <1>2, <1>3, <1>4, <1>5, StepCases DEF EnsureStep

\* NoOrphan: no interleaving of renewals, rotations, sign-in, offboarding and
\* failures leaves a live channel that nobody stores, stops or has on record.
THEOREM NoChannelIsOrphaned == Spec => []NoOrphan
<1>1. Init => NoOrphan
  BY DEF Init, NoOrphan
<1>2. ChannelsInv /\ NoOrphan /\ [Next]_pcvars => NoOrphan'
  BY OrphanStep
<1> QED
  BY <1>1, <1>2, ChannelsInvariant, PTL DEF Spec

\* Only a stop takes the stored channel away, and no stop is aimed at it.
LEMMA DarkStep ==
    ASSUME ChannelsInv, ChannelsTypeOK', NeverDark, [Next]_pcvars
    PROVE  NeverDark'
<1> USE DEF ChannelsInv
<1> SUFFICES ASSUME Stored(row') # None, ~reverted'
             PROVE  channel'[Stored(row')] # "none"
  <2>1. Stored(row') \in Channels \cup {None}
    BY StoredType DEF ChannelsTypeOK
  <2> QED
    BY <2>1 DEF NeverDark, Live, Stored, Delivers, Ended, ChannelsTypeOK
<1>1. \/ Stored(row') = Stored(row) /\ ~reverted
      \/ \E e \in Ensurers : /\ ens[e].at = "store" /\ Stored(row') = ens[e].own
                             /\ channel' = channel
  BY StepCases, EnsureEffect, RowEffect
<1>2. CASE Stored(row') = Stored(row) /\ ~reverted
  <2>1. Stored(row) \in Channels /\ channel[Stored(row)] # "none"
    BY <1>2, StoredType DEF NeverDark, Live, Delivers, Ended, ChannelsTypeOK
  <2>2. \A e \in Ensurers : Stored(row) \notin Condemned(e)
    BY <1>2, <2>1, NamesAssumption DEF Condemned, OwnIsPrivate, PriorIsReplaced, Shape
  <2> QED
    BY <1>2, <2>1, <2>2, StoppedOnly
<1>3. CASE \E e \in Ensurers : /\ ens[e].at = "store" /\ Stored(row') = ens[e].own
                               /\ channel' = channel
  BY <1>3 DEF OwnIsBorn
<1> QED
  BY <1>1, <1>2, <1>3

\* NeverDark: a rotation stores its own new channel and stops another one, so
\* the stored channel was never stopped, unless an upsert wrote it back.
THEOREM RotationsNeverGoDark == Spec => []NeverDark
<1>1. Init => NeverDark
  BY DEF Init, NeverDark, Stored
<1>2. ChannelsInv /\ ChannelsTypeOK' /\ NeverDark /\ [Next]_pcvars => NeverDark'
  BY DarkStep
<1> QED
  BY <1>1, <1>2, ChannelsInvariant, ChannelsTyped, PTL DEF Spec

\* Only the compare-and-swap and the upsert can create the row.
LEMMA GoneStep ==
    ASSUME ChannelsInv, GoneStaysGone, [Next]_pcvars
    PROVE  GoneStaysGone'
<1> USE DEF ChannelsInv
<1>1. ASSUME NEW e \in Ensurers, EnsureStep(e) \/ EnsureThrows(e) PROVE GoneStaysGone'
  <2>1. CASE EnsureRestamp(e)
    BY <2>1 DEF EnsureRestamp, GoneStaysGone, Shape, Stored, past
  <2>2. CASE EnsureStore(e)
    BY <2>2 DEF EnsureStore, Wins, GoneStaysGone
  <2>3. CASE \/ EnsureRead(e) \/ EnsureRenew(e) \/ EnsureSubscribe(e) \/ EnsureStop(e)
             \/ EnsureThrows(e)
    BY <2>3 DEF EnsureRead, EnsureRenew, EnsureSubscribe, EnsureStop, EnsureThrows,
                GoneStaysGone, past
  <2> QED
    BY <1>1, <2>1, <2>2, <2>3 DEF EnsureStep
<1>2. ASSUME Elsewhere PROVE GoneStaysGone'
  BY <1>2 DEF Elsewhere, ResolveBegin, UpsertRead, UpsertWrite, SignIn, SignInElsewhere,
              OffRead, OffStop, OffDelete, OffThrows, Age, Lapse, pcvars, callers, past,
              GoneStaysGone
<1> QED
  BY <1>1, <1>2, StepCases

\* GoneStaysGone: the compare-and-swap's look at the grant keeps a subscribe in
\* flight from bringing back an offboarded user's row; only an upsert does.
THEOREM OffboardedStayGone == Spec => []GoneStaysGone
<1>1. Init => GoneStaysGone
  BY DEF Init, GoneStaysGone
<1>2. ChannelsInv /\ GoneStaysGone /\ [Next]_pcvars => GoneStaysGone'
  BY GoneStep
<1> QED
  BY <1>1, <1>2, ChannelsInvariant, PTL DEF Spec
=============================================================================
