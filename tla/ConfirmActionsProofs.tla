------------------------ MODULE ConfirmActionsProofs ------------------------
(***************************************************************************)
(* Safety of ConfirmActions for any number of requests, operations, plans  *)
(* and visits: an action is replayed at most once, its link is unique      *)
(* while it lives, both caps hold, and what an agent was told is so.       *)
(***************************************************************************)
EXTENDS ConfirmActions, FiniteSetTheorems, TLAPS

USE DEF Mailing

Early == {"prune", "release", "reserve"}

\* Only a finished request has an answer; a link was delivered, and a mail
\* counted, by a request that had reserved its row.
ReqShape ==
    \A i \in Ids :
        /\ req[i].at \in Early => req[i].ask \in Asks
        /\ req[i].answer # "none" => req[i].at = "done"
        /\ req[i].answer = "awaiting" => i \in mail
        /\ req[i].now <= day
        /\ i \in mail => req[i].at \notin Early \cup {"new", "lookup"}
        /\ sent[i] > 0 => req[i].at = "done"

\* A request that others may have been deduped onto: past its reservation, and
\* if it was answered, then for itself.
First(r) == \/ r.at \in Mailing \cup {"dead"}
            \/ r.at = "done" /\ r.answer \in {"awaiting", "refused"}

\* What a repeated request was deduped onto stays such a request.
OntoShape ==
    \A i \in Ids :
        /\ req[i].answer = "deduped" => req[i].onto # Nobody
        /\ req[i].onto # Nobody => First(req[req[i].onto])

\* A link lives for a day at least, and only a dead row has lost its data.
RowData ==
    \A i \in Stored :
        /\ rows[i].created < rows[i].expires
        /\ rows[i].blank => rows[i].consumed \/ rows[i].expires <= day

\* A row is stored by a request that is past its reservation and was not
\* refused; until the request has mailed, the row carries its clock.
RowPlace ==
    \A i \in Stored :
        /\ \/ req[i].at \in {"send", "claim", "system", "drop", "dead"}
           \/ req[i].at = "done" /\ req[i].answer = "awaiting"
        /\ req[i].at \in {"send", "claim", "system"} => rows[i].created = req[i].now
        /\ req[i].at = "system" => rows[i].channel = "system"

\* A mail that counts has its row, as long as the account is there: nothing
\* removes the row within the window of the count.
SentShape ==
    account = "active" => \A i \in Ids :
        /\ sent[i] > day => /\ i \in Stored /\ rows[i].channel = "system"
                            /\ rows[i].created + TTL = sent[i]
        /\ req[i].at = "system" /\ i \notin Stored => req[i].now + TTL <= day

\* A visit that will replay, or has replayed, an action found it delivered and
\* consumed its row, and no other visit did.
VisitShape ==
    /\ \A v \in Visits :
         /\ visit[v].at \in {"loaded", "won"} => visit[v].id \in mail
         /\ visit[v].at = "won" =>
              /\ ran[visit[v].id] = 0
              /\ visit[v].id \in Stored => rows[visit[v].id].consumed
              /\ \A w \in Visits : visit[w] = visit[v] => w = v
    /\ \A i \in Ids : ran[i] # 0 =>
         ran[i] = 1 /\ i \in mail /\ (i \in Stored => rows[i].consumed)

Capped ==
    /\ OneLinkPerAsk
    /\ IsFiniteSet(Stored)
    /\ Cardinality(LiveAt(day)) <= LiveCap
    /\ Cardinality(SystemMailed(day)) <= FallbackLimit

ConfirmInv ==
    /\ ConfirmTypeOK /\ ReqShape /\ OntoShape
    /\ RowData /\ RowPlace /\ SentShape /\ VisitShape /\ Capped

-----------------------------------------------------------------------------
(* What can happen to a row.                                               *)

\* Clean-ups, confirmations and deletions take a row away or wear it down:
\* what it stands for and its times stay, and only a dead row is blanked.
FadesTo(i, r) ==
    \/ r = rows[i]
    \/ r = NoRow
    \/ /\ r \in Row /\ rows[i] \in Row
       /\ r.ask = rows[i].ask /\ r.created = rows[i].created
       /\ r.expires = rows[i].expires /\ r.channel = rows[i].channel
       /\ rows[i].consumed => r.consumed
       /\ r.blank => rows[i].blank \/ r.consumed \/ rows[i].expires <= day

Fading == \A i \in Ids : FadesTo(i, rows'[i])

LEMMA StoredRow ==
    ASSUME ConfirmTypeOK
    PROVE  \A i \in Stored : i \in Ids /\ rows[i] \in Row
BY DEF ConfirmTypeOK, Stored

\* Losing its data is a way to fade, for a row that is dead.
LEMMA BlankFades ==
    ASSUME ConfirmTypeOK, NEW i \in Stored,
           rows[i].consumed \/ rows[i].expires <= day
    PROVE  /\ FadesTo(i, [rows[i] EXCEPT !.blank = TRUE])
           /\ [rows[i] EXCEPT !.blank = TRUE] \in Row
<1>1. rows[i] \in Row
  BY StoredRow
<1>2. [rows[i] EXCEPT !.blank = TRUE] \in Row
  BY <1>1 DEF Row
<1> QED
  BY <1>1, <1>2 DEF FadesTo, Row

\* So is being consumed.
LEMMA ConsumeFades ==
    ASSUME ConfirmTypeOK, NEW i \in Stored
    PROVE  /\ FadesTo(i, [rows[i] EXCEPT !.consumed = TRUE, !.blank = TRUE])
           /\ [rows[i] EXCEPT !.consumed = TRUE, !.blank = TRUE] \in Row
<1>1. rows[i] \in Row
  BY StoredRow
<1>2. [rows[i] EXCEPT !.consumed = TRUE, !.blank = TRUE] \in Row
  BY <1>1 DEF Row
<1> QED
  BY <1>1, <1>2 DEF FadesTo, Row

\* Housekeeping fades rows, and takes none away while its mail counts.
LEMMA PrunedFades ==
    ASSUME ConfirmTypeOK, RowData, NEW i \in Ids, NEW t \in Nat, t <= day
    PROVE  /\ FadesTo(i, Pruned(t)[i])
           /\ Pruned(t)[i] \in Row \cup {NoRow}
           /\ i \in Stored /\ Pruned(t)[i] = NoRow => rows[i].created + TTL <= day
<1> USE BoundsAssumption, WindowAssumption, NoRowAssumption
<1>1. CASE i \notin Stored
  BY <1>1 DEF Pruned, FadesTo
<1>2. CASE i \in Stored
  <2>1. /\ rows[i] \in Row /\ rows[i].created \in Nat /\ rows[i].expires \in Nat
        /\ rows[i].created < rows[i].expires /\ day \in Nat
    BY <1>2, StoredRow DEF Row, RowData, ConfirmTypeOK
  <2>2. CASE rows[i].expires + Grace < t
    <3>1. Pruned(t)[i] = NoRow
      BY <1>2, <2>2 DEF Pruned
    <3> QED
      BY <2>1, <2>2, <3>1 DEF FadesTo
  <2>3. CASE ~(rows[i].expires + Grace < t) /\ rows[i].expires <= t
    <3>1. Pruned(t)[i] = [rows[i] EXCEPT !.blank = TRUE]
      BY <1>2, <2>3 DEF Pruned
    <3> QED
      BY <1>2, <2>1, <2>3, <3>1, BlankFades
  <2>4. CASE ~(rows[i].expires + Grace < t) /\ ~(rows[i].expires <= t)
    BY <1>2, <2>1, <2>4 DEF Pruned, FadesTo
  <2> QED
    BY <2>2, <2>3, <2>4
<1> QED
  BY <1>1, <1>2

\* Releasing the markers of settled plans fades what housekeeping left.
LEMMA ReleasedFades ==
    ASSUME ConfirmTypeOK, NEW rs, NEW t, NEW i \in Ids,
           FadesTo(i, rs[i]), rs[i] \in Row \cup {NoRow}
    PROVE  /\ FadesTo(i, Released(rs, t)[i])
           /\ Released(rs, t)[i] \in Row \cup {NoRow}
           /\ Released(rs, t)[i] = NoRow => rs[i] = NoRow
<1> USE NoRowAssumption
<1> DEFINE r == rs[i]
           q == [r EXCEPT !.consumed = TRUE, !.blank = TRUE]
<1>1. CASE Released(rs, t)[i] = r
  BY <1>1
<1>2. CASE Released(rs, t)[i] # r
  <2>1. r # NoRow /\ Released(rs, t)[i] = q
    BY <1>2 DEF Released
  <2>2. r \in Row
    BY <2>1
  <2>3. /\ q \in Row /\ q.ask = r.ask /\ q.created = r.created /\ q.blank
        /\ q.expires = r.expires /\ q.channel = r.channel /\ q.consumed
    BY <2>2 DEF Row
  <2>4. rows[i] \in Row
    BY <2>1, <2>2 DEF FadesTo
  <2> QED
    BY <2>1, <2>2, <2>3, <2>4 DEF FadesTo
<1> QED
  BY <1>1, <1>2

\* Either way no row goes while its mail counts.
LEMMA HousekeepingFades ==
    ASSUME ConfirmTypeOK, RowData, NEW t \in Nat, t <= day,
           rows' = Pruned(t) \/ rows' = Released(rows, t)
    PROVE  /\ Fading /\ rows' \in [Ids -> Row \cup {NoRow}]
           /\ \A i \in Stored : rows'[i] = NoRow => rows[i].created + TTL <= day
<1>1. ASSUME NEW i \in Ids
      PROVE  /\ FadesTo(i, rows'[i]) /\ rows'[i] \in Row \cup {NoRow}
             /\ i \in Stored /\ rows'[i] = NoRow => rows[i].created + TTL <= day
  <2>1. CASE rows' = Pruned(t)
    BY <2>1, PrunedFades
  <2>2. CASE rows' = Released(rows, t)
    <3>1. FadesTo(i, rows[i]) /\ rows[i] \in Row \cup {NoRow}
      BY DEF FadesTo, ConfirmTypeOK
    <3> QED
      BY <2>2, <3>1, ReleasedFades DEF Stored
  <2> QED
    BY <2>1, <2>2
<1>2. rows' = [i \in Ids |-> rows'[i]]
  BY DEF Released, Pruned
<1> QED
  BY <1>1, <1>2, StoredRow DEF Fading

\* Fading keeps the rows' data and both caps, whatever day it is by then.
LEMMA FadingKeeps ==
    ASSUME ConfirmTypeOK, RowData, Capped, Fading, day' \in Nat, day <= day'
    PROVE  RowData' /\ Capped'
<1> USE BoundsAssumption, NoRowAssumption
<1>1. ASSUME NEW i \in Stored'
      PROVE  /\ i \in Stored /\ rows[i] \in Row /\ rows'[i] \in Row
             /\ rows'[i].ask = rows[i].ask /\ rows'[i].created = rows[i].created
             /\ rows'[i].expires = rows[i].expires
             /\ rows'[i].channel = rows[i].channel
             /\ rows[i].consumed => rows'[i].consumed
             /\ rows'[i].blank => rows[i].blank \/ rows'[i].consumed
                                                \/ rows[i].expires <= day
  <2>1. i \in Ids /\ rows'[i] # NoRow /\ FadesTo(i, rows'[i])
    BY DEF Stored, Fading
  <2>2. rows[i] # NoRow
    BY <2>1 DEF FadesTo
  <2>3. i \in Stored /\ rows[i] \in Row
    BY <2>1, <2>2 DEF Stored, ConfirmTypeOK
  <2> QED
    BY <2>1, <2>3 DEF FadesTo
<1>2. \A i \in Stored : rows[i].created \in Nat /\ rows[i].expires \in Nat /\ day \in Nat
  BY StoredRow DEF Row, ConfirmTypeOK
<1>3. RowData'
  <2> SUFFICES ASSUME NEW i \in Stored'
               PROVE  /\ rows'[i].created < rows'[i].expires
                      /\ rows'[i].blank => rows'[i].consumed \/ rows'[i].expires <= day'
    BY DEF RowData
  <2> QED
    BY <1>1, <1>2 DEF RowData
<1>4. Stored' \subseteq Stored
  BY <1>1
<1>5. LiveAt(day)' \subseteq LiveAt(day)
  BY <1>1, <1>2 DEF LiveAt
<1>6. SystemMailed(day)' \subseteq SystemMailed(day)
  BY <1>1, <1>2 DEF SystemMailed
<1>7. OneLinkPerAsk'
  BY <1>1, <1>5 DEF Capped, OneLinkPerAsk, LiveAt
<1>8. IsFiniteSet(LiveAt(day)) /\ IsFiniteSet(SystemMailed(day))
  BY FS_Subset DEF Capped, LiveAt, SystemMailed
<1>9. IsFiniteSet(Stored')
  BY <1>4, FS_Subset DEF Capped
<1>10. Cardinality(LiveAt(day)') <= LiveCap
  BY <1>5, <1>8, FS_Subset, FS_CardinalityType DEF Capped
<1>11. Cardinality(SystemMailed(day)') <= FallbackLimit
  BY <1>6, <1>8, FS_Subset, FS_CardinalityType DEF Capped
<1> QED
  BY <1>3, <1>7, <1>9, <1>10, <1>11 DEF Capped

\* While rows fade, the surviving ones stay where their requests left them, if
\* these only move on.
LEMMA FadingPlace ==
    ASSUME ConfirmTypeOK, RowPlace, Fading,
           \A i \in Stored' :
              /\ \/ req'[i].at \in {"send", "claim", "system", "drop", "dead"}
                 \/ req'[i].at = "done" /\ req'[i].answer = "awaiting"
              /\ req'[i].at \in {"send", "claim", "system"} =>
                   req[i].at \in {"send", "claim", "system"} /\ req'[i].now = req[i].now
              /\ req'[i].at = "system" => req[i].at = "system"
    PROVE  RowPlace'
<1> SUFFICES ASSUME NEW i \in Stored'
             PROVE  /\ i \in Stored /\ rows'[i].created = rows[i].created
                    /\ rows'[i].channel = rows[i].channel
  BY DEF RowPlace
<1>1. i \in Ids /\ rows'[i] # NoRow /\ FadesTo(i, rows'[i])
  BY DEF Stored, Fading
<1>2. rows[i] # NoRow
  BY <1>1, NoRowAssumption DEF FadesTo
<1> QED
  BY <1>1, <1>2 DEF FadesTo, Stored

\* A mail that counts keeps its row while rows fade, if a row goes only when
\* its mail counts no longer or was never sent.
LEMMA FadingSent ==
    ASSUME ConfirmTypeOK, ReqShape, RowPlace, SentShape, Fading,
           sent' = sent, day' \in Nat, day <= day',
           account' = "active" => account = "active",
           account' = "active" => \A i \in Stored : rows'[i] = NoRow =>
              \/ rows[i].created + TTL <= day
              \/ req[i].at # "done" /\ req'[i].at # "system",
           \A i \in Ids : req'[i].at = "system" =>
              req[i].at = "system" /\ req'[i].now = req[i].now
    PROVE  SentShape'
<1> USE BoundsAssumption, NoRowAssumption
<1> SUFFICES ASSUME account' = "active", NEW i \in Ids
             PROVE  /\ sent[i] > day' => /\ i \in Stored' /\ rows'[i].channel = "system"
                                         /\ rows'[i].created + TTL = sent[i]
                    /\ req'[i].at = "system" /\ i \notin Stored' =>
                         req'[i].now + TTL <= day'
  BY DEF SentShape
<1>1. sent[i] \in Nat /\ req[i].now \in Nat /\ day \in Nat
  BY DEF ConfirmTypeOK, Request
<1>2. FadesTo(i, rows'[i])
  BY DEF Fading
<1>3. ASSUME sent[i] > day'
      PROVE  i \in Stored' /\ rows'[i].channel = "system" /\ rows'[i].created + TTL = sent[i]
  <2>1. /\ i \in Stored /\ rows[i].channel = "system"
        /\ rows[i].created + TTL = sent[i] /\ sent[i] > day
    BY <1>1, <1>3 DEF SentShape
  <2>2. req[i].at = "done"
    BY <1>1, <2>1 DEF ReqShape
  <2>3. rows'[i] # NoRow
    BY <1>1, <2>1, <2>2
  <2> QED
    BY <1>2, <2>1, <2>3 DEF FadesTo, Stored
<1>4. ASSUME req'[i].at = "system", i \notin Stored'
      PROVE  req'[i].now + TTL <= day'
  <2>1. req[i].at = "system" /\ req'[i].now = req[i].now
    BY <1>4
  <2>2. CASE i \notin Stored
    BY <1>1, <2>1, <2>2 DEF SentShape
  <2>3. CASE i \in Stored
    <3>1. rows'[i] = NoRow
      BY <1>4 DEF Stored
    <3>2. rows[i].created = req[i].now /\ rows[i].created + TTL <= day
      BY <1>4, <2>1, <2>3, <3>1 DEF RowPlace
    <3> QED
      BY <1>1, <2>1, <3>2
  <2> QED
    BY <2>2, <2>3
<1> QED
  BY <1>3, <1>4

\* The visits' invariant outlives every step that replays nothing, wins no
\* visit and keeps the consumed rows of delivered links consumed.
LEMMA VisitKeeps ==
    ASSUME VisitShape, ran' = ran, mail \subseteq mail',
           \A i \in mail : i \in Stored' =>
              i \in Stored /\ (rows[i].consumed => rows'[i].consumed),
           \A v \in Visits :
              \/ visit'[v] = visit[v]
              \/ visit'[v].at = "closed"
              \/ visit'[v].at = "loaded" /\ visit'[v].id \in mail
    PROVE  VisitShape'
<1>1. ASSUME NEW v \in Visits
      PROVE  /\ visit'[v].at \in {"loaded", "won"} => visit'[v].id \in mail'
             /\ visit'[v].at = "won" =>
                  /\ ran[visit'[v].id] = 0
                  /\ visit'[v].id \in Stored' => rows'[visit'[v].id].consumed
                  /\ \A w \in Visits : visit'[w] = visit'[v] => w = v
  <2>1. CASE visit'[v] = visit[v]
    <3>1. ASSUME visit'[v].at = "won", NEW w \in Visits, visit'[w] = visit'[v]
          PROVE  w = v
      <4>1. visit'[w] = visit[w]
        BY <3>1
      <4> QED
        BY <2>1, <3>1, <4>1 DEF VisitShape
    <3> QED
      BY <2>1, <3>1 DEF VisitShape
  <2>2. CASE visit'[v].at \in {"closed", "loaded"} /\ visit'[v] # visit[v]
    BY <2>2
  <2> QED
    BY <2>1, <2>2
<1>2. \A i \in Ids : ran[i] # 0 =>
         ran[i] = 1 /\ i \in mail' /\ (i \in Stored' => rows'[i].consumed)
  BY DEF VisitShape
<1> QED
  BY <1>1, <1>2 DEF VisitShape

\* Rows that fade, and requests that deliver, leave the visits be.
LEMMA FadingVisits ==
    ASSUME ConfirmTypeOK, VisitShape, Fading, ran' = ran, mail \subseteq mail',
           \A v \in Visits :
              \/ visit'[v] = visit[v]
              \/ visit'[v].at = "closed"
              \/ visit'[v].at = "loaded" /\ visit'[v].id \in mail
    PROVE  VisitShape'
<1>1. ASSUME NEW i \in mail, i \in Stored'
      PROVE  i \in Stored /\ (rows[i].consumed => rows'[i].consumed)
  <2>1. i \in Ids /\ rows'[i] # NoRow /\ FadesTo(i, rows'[i])
    BY <1>1 DEF Stored, Fading
  <2>2. rows[i] # NoRow
    BY <2>1, NoRowAssumption DEF FadesTo
  <2> QED
    BY <2>1, <2>2 DEF FadesTo, Stored
<1> QED
  BY <1>1, VisitKeeps

-----------------------------------------------------------------------------
(* The steps that only wear rows down.                                     *)

\* Blanking one dead row.
LEMMA BlankedFades ==
    ASSUME ConfirmTypeOK, NEW i \in Stored,
           rows[i].consumed \/ rows[i].expires <= day, rows' = Blanked({i})
    PROVE  Fading /\ rows' \in [Ids -> Row \cup {NoRow}] /\ Stored' = Stored
<1>1. /\ FadesTo(i, [rows[i] EXCEPT !.blank = TRUE])
      /\ [rows[i] EXCEPT !.blank = TRUE] \in Row
  BY BlankFades
<1>2. \A j \in Ids : rows'[j] = IF j = i THEN [rows[i] EXCEPT !.blank = TRUE] ELSE rows[j]
  BY DEF Blanked
<1>3. Fading
  BY <1>1, <1>2 DEF Fading, FadesTo
<1>4. rows' \in [Ids -> Row \cup {NoRow}]
  BY <1>1 DEF Blanked, ConfirmTypeOK
<1>5. Stored' = Stored
  BY <1>1, <1>2, NoRowAssumption DEF Stored
<1> QED
  BY <1>3, <1>4, <1>5

\* What Consume does to the row it wins.
LEMMA ConsumedFades ==
    ASSUME ConfirmTypeOK, NEW i \in Stored,
           rows' = [rows EXCEPT ![i].consumed = TRUE, ![i].blank = TRUE]
    PROVE  /\ Fading /\ rows' \in [Ids -> Row \cup {NoRow}] /\ Stored' = Stored
           /\ rows'[i].consumed
<1> DEFINE r == [rows[i] EXCEPT !.consumed = TRUE, !.blank = TRUE]
<1>1. FadesTo(i, r) /\ r \in Row /\ i \in Ids /\ rows[i] \in Row
  BY ConsumeFades, StoredRow
<1>2. r.consumed
  BY <1>1 DEF Row
<1>3. rows' = [rows EXCEPT ![i] = r]
  BY <1>1 DEF ConfirmTypeOK
<1> HIDE DEF r
<1>4. rows' \in [Ids -> Row \cup {NoRow}] /\ \A j \in Ids : rows'[j] = IF j = i THEN r ELSE rows[j]
  BY <1>1, <1>3 DEF ConfirmTypeOK
<1>5. Fading
  BY <1>1, <1>4 DEF Fading, FadesTo
<1>6. Stored' = Stored
  BY <1>1, <1>4, NoRowAssumption DEF Stored
<1> QED
  BY <1>1, <1>2, <1>4, <1>5, <1>6

\* Steps of the requests and the world that take no row and store none.
LEMMA SameRows ==
    ASSUME rows' = rows
    PROVE  Fading /\ Stored' = Stored
BY DEF Fading, FadesTo, Stored

-----------------------------------------------------------------------------
(* The requests' records.                                                  *)

Answered(what) == [New EXCEPT !.at = "done", !.answer = what]
AnsweredOnto(j) == [New EXCEPT !.at = "done", !.answer = "deduped", !.onto = j]
Asking(a) == [New EXCEPT !.at = "prune", !.ask = a, !.now = day]
Died == [New EXCEPT !.at = "dead"]
Moves(i, step) == [req[i] EXCEPT !.at = step]

LEMMA NewRecords ==
    ASSUME ConfirmTypeOK
    PROVE  /\ \A what \in Answers : /\ Answered(what) \in Request
                                    /\ Answered(what).at = "done"
                                    /\ Answered(what).answer = what
                                    /\ Answered(what).now = 0
                                    /\ Answered(what).onto = Nobody
           /\ \A j \in Ids : /\ AnsweredOnto(j) \in Request
                              /\ AnsweredOnto(j).at = "done"
                              /\ AnsweredOnto(j).answer = "deduped"
                              /\ AnsweredOnto(j).now = 0
                              /\ AnsweredOnto(j).onto = j
           /\ \A a \in Asks : /\ Asking(a) \in Request
                              /\ Asking(a).at = "prune"
                              /\ Asking(a).answer = "none"
                              /\ Asking(a).ask = a
                              /\ Asking(a).now = day
                              /\ Asking(a).onto = Nobody
           /\ Died \in Request /\ Died.at = "dead" /\ Died.onto = Nobody
           /\ Died.answer = "none" /\ Died.now = 0
<1>1. New \in Request /\ New.answer = "none" /\ New.now = 0 /\ New.onto = Nobody
  BY BoundsAssumption DEF New, Request, Steps, Answers
<1>2. day \in 0..MaxDay
  BY DEF ConfirmTypeOK
<1>3. \A j \in Ids : /\ AnsweredOnto(j) \in Request
                     /\ AnsweredOnto(j).at = "done" /\ AnsweredOnto(j).answer = "deduped"
                     /\ AnsweredOnto(j).now = 0 /\ AnsweredOnto(j).onto = j
  BY <1>1 DEF AnsweredOnto, Request, Steps, Answers
<1> QED
  BY <1>1, <1>2, <1>3 DEF Answered, Asking, Died, Request, Steps, Answers

LEMMA MovedRecord ==
    ASSUME ConfirmTypeOK, NEW i \in Ids, NEW step \in Steps
    PROVE  /\ Moves(i, step) \in Request /\ Moves(i, step).at = step
           /\ Moves(i, step).ask = req[i].ask /\ Moves(i, step).now = req[i].now
           /\ Moves(i, step).answer = req[i].answer /\ Moves(i, step).onto = req[i].onto
BY DEF Moves, ConfirmTypeOK, Request

\* One request's record changes.
LEMMA RequestStep ==
    ASSUME ConfirmTypeOK, NEW i \in Ids, NEW r \in Request,
           req' = [req EXCEPT ![i] = r]
    PROVE  /\ req' \in [Ids -> Request]
           /\ \A j \in Ids : req'[j] = IF j = i THEN r ELSE req[j]
BY DEF ConfirmTypeOK

-----------------------------------------------------------------------------
(* The invariant is inductive: one lemma per statement of a request.       *)

\* A request that others were deduped onto still is one, if its record changes to
\* such a record; and it is deduped itself only onto a stored row.
LEMMA OntoKeeps ==
    ASSUME ConfirmTypeOK, OntoShape, RowPlace, NEW i \in Ids, NEW r \in Request,
           \A j \in Ids : req'[j] = IF j = i THEN r ELSE req[j],
           r.onto \in Stored \cup {Nobody, req[i].onto},
           r.answer = "deduped" => r.onto # Nobody,
           First(req[i]) => First(r)
    PROVE  OntoShape'
<1>1. \A j \in Ids : First(req[j]) => First(req'[j])
  OBVIOUS
<1>2. \A j \in Stored : j \in Ids /\ First(req[j])
  BY DEF RowPlace, First, Stored
<1>3. ASSUME NEW j \in Ids
      PROVE  /\ req'[j].answer = "deduped" => req'[j].onto # Nobody
             /\ req'[j].onto # Nobody => First(req'[req'[j].onto])
  <2>1. req'[j].onto # Nobody => req'[j].onto \in Ids
    BY DEF ConfirmTypeOK, Request
  <2>2. CASE j = i
    <3>1. CASE r.onto \in Stored
      BY <1>1, <1>2, <2>2, <3>1
    <3>2. CASE r.onto = req[i].onto
      BY <1>1, <2>1, <2>2, <3>2 DEF OntoShape
    <3> QED
      BY <2>2, <3>1, <3>2
  <2>3. CASE j # i
    BY <1>1, <2>1, <2>3 DEF OntoShape
  <2> QED
    BY <2>2, <2>3
<1> QED
  BY <1>3 DEF OntoShape

\* A request that moves on while rows fade, none of them while its mail counts
\* except at most the request's own.
LEMMA RequestChanges ==
    ASSUME ConfirmInv, NEW i \in Ids, NEW r \in Request,
           req[i].at # "done", r.at \notin {"new", "system"},
           req' = [req EXCEPT ![i] = r], r.now <= day,
           r.answer # "none" => r.at = "done",
           r.answer = "awaiting" => i \in mail',
           r.at = "send" => req[i].at = "send" /\ r.now = req[i].now,
           r.at = "claim" => req[i].at \in {"send", "claim"} /\ r.now = req[i].now,
           r.at \in Early => r.ask \in Asks,
           r.at \in Early \cup {"lookup"} => i \notin mail',
           r.onto \in Stored \cup {Nobody, req[i].onto},
           r.answer = "deduped" => r.onto # Nobody,
           First(req[i]) => First(r),
           Fading, rows' \in [Ids -> Row \cup {NoRow}],
           \A j \in Stored : rows'[j] = NoRow => j = i \/ rows[j].created + TTL <= day,
           i \in Stored' => \/ r.at \in {"send", "claim", "drop", "dead"}
                            \/ r.at = "done" /\ r.answer = "awaiting",
           mail' = mail \/ mail' = mail \cup {i},
           faults' = faults \/ Fault,
           UNCHANGED <<visit, plan, account, day, sent, ran>>
    PROVE  ConfirmInv'
<1> USE DEF ConfirmInv
<1>1. req' \in [Ids -> Request] /\ \A j \in Ids : req'[j] = IF j = i THEN r ELSE req[j]
  BY RequestStep
<1>2. Stored' \subseteq Stored
  BY NoRowAssumption DEF Fading, FadesTo, Stored
<1>3. ConfirmTypeOK'
  BY <1>1, BoundsAssumption DEF ConfirmTypeOK, Fault
<1>4. ReqShape'
  BY <1>1 DEF ReqShape, ConfirmTypeOK
<1>5. RowData' /\ Capped'
  BY FadingKeeps DEF ConfirmTypeOK
<1>6. RowPlace'
  <2> SUFFICES ASSUME NEW j \in Stored'
               PROVE  /\ \/ req'[j].at \in {"send", "claim", "system", "drop", "dead"}
                         \/ req'[j].at = "done" /\ req'[j].answer = "awaiting"
                      /\ req'[j].at \in {"send", "claim", "system"} =>
                           /\ req[j].at \in {"send", "claim", "system"}
                           /\ req'[j].now = req[j].now
                      /\ req'[j].at = "system" => req[j].at = "system"
    BY FadingPlace
  <2> QED
    BY <1>1, <1>2 DEF RowPlace, Stored
<1>7. SentShape'
  BY <1>1, FadingSent DEF ConfirmTypeOK
<1>8. VisitShape'
  BY FadingVisits
<1>9. OntoShape'
  BY <1>1, OntoKeeps
<1> QED
  BY <1>3, <1>4, <1>5, <1>6, <1>7, <1>8, <1>9

\* The same when the rows stay, or the request's own goes.
LEMMA RequestMoves ==
    ASSUME ConfirmInv, NEW i \in Ids, NEW r \in Request,
           req[i].at # "done", r.at \notin Early \cup {"new", "system"},
           req' = [req EXCEPT ![i] = r], r.now <= day,
           r.answer # "none" => r.at = "done",
           r.answer = "awaiting" => i \in mail',
           r.at = "send" => req[i].at = "send" /\ r.now = req[i].now,
           r.at = "claim" => req[i].at \in {"send", "claim"} /\ r.now = req[i].now,
           r.at = "lookup" => i \notin mail',
           r.onto \in Stored \cup {Nobody, req[i].onto},
           r.answer = "deduped" => r.onto # Nobody,
           First(req[i]) => First(r),
           rows' = rows \/ rows' = Without({i}),
           i \in Stored' => \/ r.at \in {"send", "claim", "drop", "dead"}
                            \/ r.at = "done" /\ r.answer = "awaiting",
           mail' = mail \/ mail' = mail \cup {i},
           faults' = faults \/ Fault,
           UNCHANGED <<visit, plan, account, day, sent, ran>>
    PROVE  ConfirmInv'
<1>1. /\ Fading /\ rows' \in [Ids -> Row \cup {NoRow}]
      /\ \A j \in Stored : rows'[j] = NoRow => j = i
  <2>1. CASE rows' = rows
    BY <2>1, SameRows DEF Stored, ConfirmTypeOK, ConfirmInv
  <2>2. CASE rows' = Without({i})
    BY <2>2 DEF Without, Fading, FadesTo, Stored, ConfirmTypeOK, ConfirmInv
  <2> QED
    BY <2>1, <2>2
<1> QED
  BY <1>1, RequestChanges

\* A fresh request stores nothing and was mailed nothing.
LEMMA AskStep ==
    ASSUME ConfirmInv, NEW i \in Ids, NEW a \in Asks, Ask(i, a)
    PROVE  ConfirmInv'
<1>1. /\ req[i].at = "new" /\ i \notin mail /\ i \notin Stored /\ ~First(req[i])
      /\ day \in Nat
  BY DEF Ask, ConfirmInv, ReqShape, RowPlace, First, ConfirmTypeOK
<1>2. UNCHANGED <<rows, visit, plan, account, day, faults, mail, sent, ran>>
  BY DEF Ask, past
<1>3. /\ Fading /\ rows' \in [Ids -> Row \cup {NoRow}] /\ Stored' = Stored
      /\ \A j \in Stored : rows'[j] # NoRow
  BY <1>2, SameRows DEF Stored, ConfirmTypeOK, ConfirmInv
<1>4. PICK r \in {Answered("refused"), Asking(a)} : req' = [req EXCEPT ![i] = r]
  BY DEF Ask, Answer, Answered, Asking
<1>5. /\ r \in Request /\ r.now <= day /\ r.onto = Nobody
      /\ \/ r.at = "done" /\ r.answer = "refused"
         \/ r.at = "prune" /\ r.answer = "none" /\ r.ask \in Asks
  BY <1>1, NewRecords DEF Answers, ConfirmTypeOK, ConfirmInv
<1> QED
  BY <1>1, <1>2, <1>3, <1>4, <1>5, RequestChanges DEF Early

\* Housekeeping takes no row that still counts.
LEMMA HousekeepingStep ==
    ASSUME ConfirmInv, NEW i \in Ids, Prune(i) \/ Release(i)
    PROVE  ConfirmInv'
<1>1. /\ req[i].at \in {"prune", "release"} /\ req[i].ask \in Asks /\ req[i].answer = "none"
      /\ i \notin mail /\ i \notin Stored /\ ~First(req[i])
      /\ req[i].now \in Nat /\ req[i].now <= day
  BY DEF Prune, Release, ConfirmInv, ReqShape, RowPlace, First, Early, ConfirmTypeOK, Request
<1>2. UNCHANGED <<visit, plan, account, day, faults, mail, sent, ran>>
  BY DEF Prune, Release, past
<1>3. /\ Fading /\ rows' \in [Ids -> Row \cup {NoRow}]
      /\ \A j \in Stored : rows'[j] = NoRow => rows[j].created + TTL <= day
  BY <1>1, HousekeepingFades DEF Prune, Release, ConfirmInv
<1>4. PICK step \in {"release", "reserve"} : req' = [req EXCEPT ![i] = Moves(i, step)]
  BY DEF Prune, Release, Goto, Moves
<1> DEFINE r == Moves(i, step)
<1>5. /\ r \in Request /\ r.at = step /\ r.ask = req[i].ask /\ r.now = req[i].now
      /\ r.answer = "none" /\ r.onto = req[i].onto
  BY <1>1, MovedRecord DEF Steps, ConfirmInv
<1> HIDE DEF r
<1>6. i \notin Stored'
  BY <1>1, <1>3, NoRowAssumption DEF Fading, FadesTo, Stored
<1>7. r.at \in Early /\ r.at \notin {"new", "system", "send", "claim", "done"}
  BY <1>5 DEF Early
<1>8. req' = [req EXCEPT ![i] = r]
  BY <1>4 DEF r
<1> QED
  BY <1>1, <1>2, <1>3, <1>5, <1>6, <1>7, <1>8, RequestChanges

\* The conditional insert stores a row only if the same request finds no live
\* row for what it asks, and room; it counts as of its own clock, which is
\* never ahead of the day.
LEMMA ReserveStep ==
    ASSUME ConfirmInv, NEW i \in Ids, Reserve(i)
    PROVE  ConfirmInv'
<1> USE DEF ConfirmInv
<1> USE BoundsAssumption, NoRowAssumption
<1>1. /\ req[i].at = "reserve" /\ req[i].ask \in Asks /\ i \notin mail /\ i \notin Stored
      /\ req[i].now \in Nat /\ req[i].now \in 0..MaxDay /\ day \in Nat /\ req[i].now <= day
      /\ req[i].answer = "none" /\ sent[i] = 0
  BY DEF Reserve, ReserveWhen, ReqShape, RowPlace, Early, ConfirmTypeOK, Request
<1>2. CASE ~(Unasked(i) /\ Room(i))
  <2>1. req' = [req EXCEPT ![i] = Moves(i, "lookup")] /\ rows' = rows
    BY <1>2 DEF Reserve, ReserveWhen, Goto, Moves
  <2>2. /\ Moves(i, "lookup") \in Request /\ Moves(i, "lookup").at = "lookup"
        /\ Moves(i, "lookup").now = req[i].now /\ Moves(i, "lookup").answer = "none"
        /\ Moves(i, "lookup").onto = req[i].onto
    BY <1>1, MovedRecord DEF Steps
  <2> QED
    BY <1>1, <2>1, <2>2, RequestMoves DEF Reserve, ReserveWhen, past, Stored, First, Early
<1>3. CASE Unasked(i) /\ Room(i)
  <2> DEFINE m == Moves(i, "send")
  <2>1. PICK life \in Lifetimes(req[i].ask) : StoreRow(i, life)
    BY <1>3 DEF Reserve, ReserveWhen
  <2>2. life \in Nat /\ 1 <= life /\ life <= TTL + PlanTTL
    BY DEF Lifetimes
  <2> DEFINE r == [ask |-> req[i].ask, blank |-> FALSE, created |-> req[i].now,
                   expires |-> req[i].now + life, consumed |-> FALSE, channel |-> "own"]
  <2>3. /\ r \in Row /\ r.created = req[i].now /\ r.expires = req[i].now + life
        /\ r.ask = req[i].ask /\ ~r.blank /\ ~r.consumed /\ r.channel = "own"
    BY <1>1, <2>2 DEF Row
  <2>4. rows' = [rows EXCEPT ![i] = r]
    BY <2>1 DEF StoreRow
  <2> HIDE DEF r
  <2>5. /\ rows' \in [Ids -> Row \cup {NoRow}]
        /\ \A j \in Ids : rows'[j] = IF j = i THEN r ELSE rows[j]
        /\ Stored' = Stored \cup {i}
    BY <2>3, <2>4 DEF ConfirmTypeOK, Stored
  <2>6. req' = [req EXCEPT ![i] = m]
    BY <1>3 DEF Reserve, ReserveWhen, Goto, Moves
  <2>7. /\ m \in Request /\ m.at = "send" /\ m.now = req[i].now /\ m.answer = "none"
        /\ m.onto = req[i].onto
    BY <1>1, MovedRecord DEF Steps
  <2> HIDE DEF m
  <2>8. req' \in [Ids -> Request] /\ \A j \in Ids : req'[j] = IF j = i THEN m ELSE req[j]
    BY <2>6, <2>7, RequestStep
  <2>9. UNCHANGED <<visit, plan, account, day, faults, mail, sent, ran>>
    BY DEF Reserve, ReserveWhen, past
  <2>10. ConfirmTypeOK'
    BY <2>5, <2>8, <2>9 DEF ConfirmTypeOK
  <2>11. ReqShape' /\ OntoShape'
    <3>1. ReqShape'
      BY <1>1, <2>7, <2>8, <2>9 DEF ReqShape, Early
    <3>2. OntoShape'
      BY <2>7, <2>8, OntoKeeps DEF First
    <3> QED
      BY <3>1, <3>2
  <2>12. RowData' /\ RowPlace'
    <3> SUFFICES ASSUME NEW j \in Stored'
                 PROVE  /\ rows'[j].created < rows'[j].expires
                        /\ rows'[j].blank => rows'[j].consumed \/ rows'[j].expires <= day
                        /\ \/ req'[j].at \in {"send", "claim", "system", "drop", "dead"}
                           \/ req'[j].at = "done" /\ req'[j].answer = "awaiting"
                        /\ req'[j].at \in {"send", "claim", "system"} =>
                             rows'[j].created = req'[j].now
                        /\ req'[j].at = "system" => rows'[j].channel = "system"
      BY <2>9 DEF RowData, RowPlace
    <3>1. CASE j = i
      BY <1>1, <2>2, <2>3, <2>5, <2>7, <2>8, <3>1
    <3>2. CASE j # i
      BY <2>5, <2>8, <3>2 DEF RowData, RowPlace, Stored
    <3> QED
      BY <3>1, <3>2
  <2>13. SentShape'
    BY <1>1, <2>5, <2>7, <2>8, <2>9 DEF SentShape, Stored
  <2>14. VisitShape'
    <3>1. \A j \in mail : j \in Stored' =>
             j \in Stored /\ (rows[j].consumed => rows'[j].consumed)
      BY <1>1, <2>5 DEF Stored
    <3> QED
      BY <2>9, <3>1, VisitKeeps
  <2>15. Capped'
    <3>1. \A j \in Stored : j \in Ids /\ rows[j] \in Row /\ rows[j].expires \in Nat
                            /\ rows[j].created \in Nat
      BY StoredRow DEF Row
    <3>2. LiveAt(day)' \subseteq LiveAt(day) \cup {i}
      BY <2>5, <2>9, <3>1 DEF LiveAt
    <3>3. LiveAt(day) \subseteq LiveAt(req[i].now)
      BY <1>1, <3>1 DEF LiveAt
    <3>4. SystemMailed(day)' \subseteq SystemMailed(day)
      BY <2>3, <2>5, <2>9, <3>1 DEF SystemMailed
    <3>5. IsFiniteSet(Stored') /\ IsFiniteSet(LiveAt(req[i].now)) /\ IsFiniteSet(SystemMailed(day))
      BY <2>5, FS_AddElement, FS_Subset DEF Capped, LiveAt, SystemMailed
    <3>6. Cardinality(LiveAt(day)') <= LiveCap
      <4>1. IsFiniteSet(LiveAt(day))
        BY <3>3, <3>5, FS_Subset
      <4>2. Cardinality(LiveAt(day)) <= Cardinality(LiveAt(req[i].now))
        BY <3>3, <3>5, FS_Subset
      <4>3. /\ IsFiniteSet(LiveAt(day) \cup {i})
            /\ Cardinality(LiveAt(day) \cup {i}) <= Cardinality(LiveAt(day)) + 1
        <5>1. Cardinality(LiveAt(day)) \in Nat /\ i \notin LiveAt(day)
          BY <1>1, <4>1, FS_CardinalityType DEF LiveAt
        <5>2. /\ IsFiniteSet(LiveAt(day) \cup {i})
              /\ Cardinality(LiveAt(day) \cup {i}) =
                   IF i \in LiveAt(day) THEN Cardinality(LiveAt(day))
                                        ELSE Cardinality(LiveAt(day)) + 1
          BY <4>1, FS_AddElement, Zenon
        <5> QED
          BY <5>1, <5>2
      <4>4. Cardinality(LiveAt(day)') <= Cardinality(LiveAt(day) \cup {i})
        BY <3>2, <4>3, FS_Subset
      <4>5. Cardinality(LiveAt(req[i].now)) < LiveCap
        BY <1>3 DEF Room
      <4>6. /\ Cardinality(LiveAt(day)') \in Nat /\ Cardinality(LiveAt(day)) \in Nat
            /\ Cardinality(LiveAt(day) \cup {i}) \in Nat
            /\ Cardinality(LiveAt(req[i].now)) \in Nat
        BY <3>2, <3>5, <4>1, <4>3, FS_Subset, FS_CardinalityType
      <4> QED
        BY <4>2, <4>3, <4>4, <4>5, <4>6
    <3>7. Cardinality(SystemMailed(day)') <= FallbackLimit
      <4>1. /\ IsFiniteSet(SystemMailed(day)')
            /\ Cardinality(SystemMailed(day)') <= Cardinality(SystemMailed(day))
        BY <3>4, <3>5, FS_Subset
      <4> QED
        BY <3>5, <4>1, FS_CardinalityType DEF Capped
    <3>8. OneLinkPerAsk'
      <4> SUFFICES ASSUME NEW j \in LiveAt(day)', NEW k \in LiveAt(day)',
                          rows'[j].ask = rows'[k].ask
                   PROVE  j = k
        BY DEF OneLinkPerAsk
      <4>1. ASSUME NEW l \in LiveAt(day), rows[l].ask = req[i].ask PROVE FALSE
        <5>1. ~rows[l].blank
          <6>1. l \in Stored /\ ~rows[l].consumed /\ rows[l].expires > day
            BY DEF LiveAt
          <6> QED
            BY <1>1, <3>1, <6>1 DEF RowData
        <5>2. l \in SameAsk(req[i].ask, req[i].now)
          BY <3>3, <4>1, <5>1 DEF SameAsk
        <5> QED
          BY <1>3, <5>2 DEF Unasked
      <4>2. \A l \in LiveAt(day)' \ {i} : l \in LiveAt(day) /\ rows'[l] = rows[l]
        <5> SUFFICES ASSUME NEW l \in LiveAt(day)', l # i
                     PROVE  l \in LiveAt(day) /\ rows'[l] = rows[l]
          OBVIOUS
        <5>1. l \in LiveAt(day) /\ l \in Ids
          BY <3>2 DEF LiveAt, Stored
        <5> QED
          BY <2>5, <5>1
      <4>3. rows'[i].ask = req[i].ask
        BY <2>3, <2>5
      <4>4. CASE j # i /\ k # i
        BY <4>2, <4>4 DEF Capped, OneLinkPerAsk
      <4>5. CASE j = i /\ k # i
        BY <4>1, <4>2, <4>3, <4>5
      <4>6. CASE j # i /\ k = i
        BY <4>1, <4>2, <4>3, <4>6
      <4> QED
        BY <4>4, <4>5, <4>6
    <3> QED
      BY <3>5, <3>6, <3>7, <3>8 DEF Capped
  <2> QED
    BY <2>10, <2>11, <2>12, <2>13, <2>14, <2>15
<1> QED
  BY <1>2, <1>3

LEMMA LookupStep ==
    ASSUME ConfirmInv, NEW i \in Ids, Lookup(i)
    PROVE  ConfirmInv'
<1>1. /\ req[i].at = "lookup" /\ i \notin Stored /\ ~First(req[i])
      /\ day \in Nat
  BY DEF Lookup, ConfirmInv, RowPlace, First, ConfirmTypeOK
<1>2. \/ req' = [req EXCEPT ![i] = Answered("refused")]
      \/ \E j \in Stored : req' = [req EXCEPT ![i] = AnsweredOnto(j)]
  BY DEF Lookup, Answer, Answered, Deduped, AnsweredOnto, SameAsk, LiveAt
<1>3. PICK r \in Request : /\ req' = [req EXCEPT ![i] = r] /\ r.at = "done" /\ r.now = 0
                          /\ \/ r.answer = "refused" /\ r.onto = Nobody
                             \/ r.answer = "deduped" /\ r.onto \in Stored /\ r.onto # Nobody
  <2>1. CASE req' = [req EXCEPT ![i] = Answered("refused")]
    BY <2>1, NewRecords DEF Answers, ConfirmInv
  <2>2. ASSUME NEW j \in Stored, req' = [req EXCEPT ![i] = AnsweredOnto(j)]
        PROVE  \E r \in Request : /\ req' = [req EXCEPT ![i] = r] /\ r.at = "done" /\ r.now = 0
                                   /\ r.answer = "deduped" /\ r.onto \in Stored /\ r.onto # Nobody
    <3>1. j \in Ids /\ j # Nobody
      BY AsksAssumption DEF Stored
    <3> QED
      BY <2>2, <3>1, NewRecords DEF ConfirmInv
  <2> QED
    BY <1>2, <2>1, <2>2
<1>4. UNCHANGED <<rows, visit, plan, account, day, faults, mail, sent, ran>>
  BY DEF Lookup, past
<1>5. i \notin Stored' /\ 0 <= day
  BY <1>1, <1>4 DEF Stored
<1> QED
  BY <1>1, <1>3, <1>4, <1>5, RequestMoves DEF Early

LEMMA SendOwnStep ==
    ASSUME ConfirmInv, NEW i \in Ids, SendOwn(i)
    PROVE  ConfirmInv'
<1>1. req[i].at = "send" /\ req[i].answer = "none" /\ day \in Nat /\ req[i].now <= day
  BY DEF SendOwn, ConfirmInv, ReqShape, ConfirmTypeOK, Request
<1>2. CASE Delivered(i) /\ Answer(i, "awaiting") /\ UNCHANGED faults
  <2>1. /\ Answered("awaiting") \in Request /\ Answered("awaiting").at = "done"
        /\ Answered("awaiting").answer = "awaiting" /\ Answered("awaiting").now = 0
        /\ Answered("awaiting").onto = Nobody
    BY NewRecords DEF Answers, ConfirmInv
  <2>2. req' = [req EXCEPT ![i] = Answered("awaiting")]
    BY <1>2 DEF Answer, Answered
  <2>3. /\ mail' = mail \cup {i} /\ i \in mail' /\ 0 <= day
        /\ UNCHANGED <<rows, visit, plan, account, day, faults, sent, ran>>
    BY <1>1, <1>2 DEF SendOwn, Delivered
  <2> QED
    BY <1>1, <2>1, <2>2, <2>3, RequestMoves DEF First, Early
<1>3. CASE Goto(i, "claim")
  <2>1. /\ Moves(i, "claim") \in Request /\ Moves(i, "claim").at = "claim"
        /\ Moves(i, "claim").now = req[i].now /\ Moves(i, "claim").answer = "none"
        /\ Moves(i, "claim").onto = req[i].onto
    BY <1>1, MovedRecord DEF Steps, ConfirmInv
  <2>2. req' = [req EXCEPT ![i] = Moves(i, "claim")]
    BY <1>3 DEF Goto, Moves
  <2> QED
    BY <1>1, <2>1, <2>2, RequestMoves DEF SendOwn, Delivered, First, Early
<1> QED
  BY <1>2, <1>3 DEF SendOwn

LEMMA UndeliverableStep ==
    ASSUME ConfirmInv, NEW i \in Ids, Undeliverable(i)
    PROVE  ConfirmInv'
<1>1. req[i].at = "drop" /\ day \in Nat
  BY DEF Undeliverable, ConfirmInv, ConfirmTypeOK
<1>2. /\ Answered("refused") \in Request /\ Answered("refused").at = "done"
      /\ Answered("refused").answer = "refused" /\ Answered("refused").now = 0
      /\ Answered("refused").onto = Nobody
  BY NewRecords DEF Answers, ConfirmInv
<1>3. i \notin Stored'
  BY DEF Undeliverable, Without, Stored
<1>4. /\ req' = [req EXCEPT ![i] = Answered("refused")] /\ rows' = Without({i}) /\ 0 <= day
      /\ UNCHANGED <<visit, plan, account, day, faults, mail, sent, ran>>
  BY <1>1 DEF Undeliverable, past, Answer, Answered
<1> QED
  BY <1>1, <1>2, <1>3, <1>4, RequestMoves DEF First, Early

LEMMA RequestDiesStep ==
    ASSUME ConfirmInv, NEW i \in Ids, RequestDies(i)
    PROVE  ConfirmInv'
<1>1. /\ Died \in Request /\ Died.at = "dead" /\ Died.answer = "none" /\ Died.now = 0
      /\ Died.onto = Nobody /\ day \in Nat
  BY NewRecords DEF ConfirmInv, ConfirmTypeOK
<1>2. /\ req' = [req EXCEPT ![i] = Died] /\ req[i].at \notin {"new", "done"} /\ 0 <= day
      /\ Fault /\ UNCHANGED <<rows, visit, plan, account, day, mail, sent, ran>>
  BY <1>1 DEF RequestDies, past, Died
<1> QED
  BY <1>1, <1>2, RequestMoves DEF First, Early

\* The shared mailer takes a request's mail only if the mails that count today
\* leave room; the count is part of the statement that claims the row for it.
LEMMA ClaimFallbackStep ==
    ASSUME ConfirmInv, NEW i \in Ids, ClaimFallback(i)
    PROVE  ConfirmInv'
<1> USE DEF ConfirmInv
<1> USE BoundsAssumption, NoRowAssumption
<1>1. /\ req[i].at = "claim" /\ req[i].answer = "none" /\ day \in Nat /\ req[i].now <= day
      /\ sent[i] \in Nat /\ sent[i] = 0
  BY DEF ClaimFallback, ClaimWhen, ReqShape, ConfirmTypeOK, Request
<1>2. CASE ~(i \in Stored /\ Cardinality(SystemMailed(day)) < FallbackLimit)
  <2>1. req' = [req EXCEPT ![i] = Moves(i, "drop")] /\ rows' = rows
    BY <1>2 DEF ClaimFallback, ClaimWhen, Goto, Moves
  <2>2. /\ Moves(i, "drop") \in Request /\ Moves(i, "drop").at = "drop"
        /\ Moves(i, "drop").now = req[i].now /\ Moves(i, "drop").answer = "none"
        /\ Moves(i, "drop").onto = req[i].onto
    BY <1>1, MovedRecord DEF Steps
  <2> QED
    BY <1>1, <2>1, <2>2, RequestMoves DEF ClaimFallback, ClaimWhen, past, First, Early
<1>3. CASE i \in Stored /\ Cardinality(SystemMailed(day)) < FallbackLimit
  <2> DEFINE m == Moves(i, "system")
             r == [rows[i] EXCEPT !.channel = "system"]
  <2>1. /\ rows[i] \in Row /\ r \in Row /\ r.channel = "system"
        /\ r.ask = rows[i].ask /\ r.blank = rows[i].blank /\ r.created = rows[i].created
        /\ r.expires = rows[i].expires /\ r.consumed = rows[i].consumed
    BY <1>3, StoredRow DEF Row
  <2>2. rows' = [rows EXCEPT ![i] = r] /\ req' = [req EXCEPT ![i] = m]
    BY <1>3 DEF ClaimFallback, ClaimWhen, Goto, Moves
  <2>3. /\ m \in Request /\ m.at = "system" /\ m.now = req[i].now /\ m.answer = "none"
        /\ m.onto = req[i].onto
    BY <1>1, MovedRecord DEF Steps
  <2> HIDE DEF m, r
  <2>4. /\ rows' \in [Ids -> Row \cup {NoRow}]
        /\ \A j \in Ids : rows'[j] = IF j = i THEN r ELSE rows[j]
        /\ Stored' = Stored
    BY <1>3, <2>1, <2>2 DEF ConfirmTypeOK, Stored
  <2>5. req' \in [Ids -> Request] /\ \A j \in Ids : req'[j] = IF j = i THEN m ELSE req[j]
    BY <2>2, <2>3, RequestStep
  <2>6. UNCHANGED <<visit, plan, account, day, faults, mail, sent, ran>>
    BY DEF ClaimFallback, ClaimWhen, past
  <2>7. ConfirmTypeOK'
    BY <2>4, <2>5, <2>6 DEF ConfirmTypeOK
  <2>8. ReqShape' /\ OntoShape'
    <3>1. ReqShape'
      BY <1>1, <2>3, <2>5, <2>6 DEF ReqShape, Early
    <3>2. OntoShape'
      BY <2>3, <2>5, OntoKeeps DEF First
    <3> QED
      BY <3>1, <3>2
  <2>9. RowData' /\ RowPlace'
    <3> SUFFICES ASSUME NEW j \in Stored'
                 PROVE  /\ rows'[j].created < rows'[j].expires
                        /\ rows'[j].blank => rows'[j].consumed \/ rows'[j].expires <= day
                        /\ \/ req'[j].at \in {"send", "claim", "system", "drop", "dead"}
                           \/ req'[j].at = "done" /\ req'[j].answer = "awaiting"
                        /\ req'[j].at \in {"send", "claim", "system"} =>
                             rows'[j].created = req'[j].now
                        /\ req'[j].at = "system" => rows'[j].channel = "system"
      BY <2>6 DEF RowData, RowPlace
    <3>1. j \in Ids /\ j \in Stored
      BY <2>4 DEF Stored
    <3>2. CASE j = i
      BY <1>1, <2>1, <2>3, <2>4, <2>5, <3>1, <3>2 DEF RowData, RowPlace
    <3>3. CASE j # i
      BY <2>4, <2>5, <3>1, <3>3 DEF RowData, RowPlace
    <3> QED
      BY <3>2, <3>3
  <2>10. SentShape'
    BY <1>1, <1>3, <2>4, <2>5, <2>6 DEF SentShape
  <2>11. VisitShape'
    <3>1. \A j \in mail : j \in Stored' =>
             j \in Stored /\ (rows[j].consumed => rows'[j].consumed)
      BY <2>1, <2>4 DEF Stored
    <3> QED
      BY <2>6, <3>1, VisitKeeps
  <2>12. Capped'
    <3>1. LiveAt(day)' = LiveAt(day) /\ OneLinkPerAsk'
      <4>1. \A j \in Stored : /\ rows'[j].consumed = rows[j].consumed
                              /\ rows'[j].expires = rows[j].expires
                              /\ rows'[j].ask = rows[j].ask
        BY <2>1, <2>4 DEF Stored
      <4>2. LiveAt(day)' = LiveAt(day)
        BY <2>4, <2>6, <4>1 DEF LiveAt
      <4> QED
        BY <4>1, <4>2 DEF Capped, OneLinkPerAsk, LiveAt
    <3>2. SystemMailed(day)' \subseteq SystemMailed(day) \cup {i}
      BY <2>4, <2>6 DEF SystemMailed, Stored
    <3>3. IsFiniteSet(SystemMailed(day)) /\ IsFiniteSet(Stored')
      BY <2>4, FS_Subset DEF Capped, SystemMailed
    <3>4. Cardinality(SystemMailed(day)') <= FallbackLimit
      <4>1. /\ IsFiniteSet(SystemMailed(day) \cup {i})
            /\ Cardinality(SystemMailed(day) \cup {i}) =
                 IF i \in SystemMailed(day) THEN Cardinality(SystemMailed(day))
                                            ELSE Cardinality(SystemMailed(day)) + 1
        BY <3>3, FS_AddElement, Zenon
      <4>2. /\ IsFiniteSet(SystemMailed(day)')
            /\ Cardinality(SystemMailed(day)') <= Cardinality(SystemMailed(day) \cup {i})
        BY <3>2, <4>1, FS_Subset
      <4>3. /\ Cardinality(SystemMailed(day)') \in Nat
            /\ Cardinality(SystemMailed(day)) \in Nat
            /\ Cardinality(SystemMailed(day) \cup {i}) \in Nat
        BY <3>3, <4>1, <4>2, FS_CardinalityType
      <4> QED
        BY <1>3, <4>1, <4>2, <4>3
    <3> QED
      BY <3>1, <3>3, <3>4 DEF Capped
  <2> QED
    BY <2>7, <2>8, <2>9, <2>10, <2>11, <2>12
<1> QED
  BY <1>2, <1>3

\* The mail of the shared mailer counts until the window has passed; the row
\* that was claimed for it is still there, or was pruned because it has.
LEMMA SendSystemStep ==
    ASSUME ConfirmInv, NEW i \in Ids, SendSystem(i)
    PROVE  ConfirmInv'
<1> USE DEF ConfirmInv
<1> USE BoundsAssumption, NoRowAssumption
<1>1. /\ req[i].at = "system" /\ req[i].answer = "none" /\ day \in Nat /\ req[i].now <= day
      /\ req[i].now \in 0..MaxDay /\ sent[i] = 0
  BY DEF SendSystem, ReqShape, ConfirmTypeOK, Request
<1>2. CASE Goto(i, "drop")
  <2>1. req' = [req EXCEPT ![i] = Moves(i, "drop")]
    BY <1>2 DEF Goto, Moves
  <2>2. /\ Moves(i, "drop") \in Request /\ Moves(i, "drop").at = "drop"
        /\ Moves(i, "drop").now = req[i].now /\ Moves(i, "drop").answer = "none"
        /\ Moves(i, "drop").onto = req[i].onto
    BY <1>1, MovedRecord DEF Steps
  <2>3. sent' = sent
    <3>1. ASSUME Answer(i, "awaiting") PROVE FALSE
      <4>1. req' = [req EXCEPT ![i] = Answered("awaiting")]
        BY <3>1 DEF Answer, Answered
      <4>2. Answered("awaiting").at = "done"
        BY NewRecords DEF Answers
      <4> QED
        BY <2>1, <2>2, <4>1, <4>2 DEF ConfirmTypeOK
    <3> QED
      BY <3>1 DEF SendSystem
  <2>4. /\ mail' = mail \/ mail' = mail \cup {i}
        /\ faults' = faults \/ Fault
        /\ UNCHANGED <<rows, visit, plan, account, day, ran>>
    BY DEF SendSystem, Delivered
  <2> QED
    BY <1>1, <2>1, <2>2, <2>3, <2>4, RequestMoves DEF First, Early
<1>3. CASE /\ Delivered(i) /\ sent' = [sent EXCEPT ![i] = req[i].now + TTL]
           /\ Answer(i, "awaiting") /\ UNCHANGED faults
  <2> DEFINE r == Answered("awaiting")
  <2>1. r \in Request /\ r.at = "done" /\ r.answer = "awaiting" /\ r.now = 0 /\ r.onto = Nobody
    BY NewRecords DEF Answers
  <2>2. req' = [req EXCEPT ![i] = r]
    BY <1>3 DEF Answer, Answered
  <2> HIDE DEF r
  <2>3. req' \in [Ids -> Request] /\ \A j \in Ids : req'[j] = IF j = i THEN r ELSE req[j]
    BY <2>1, <2>2, RequestStep
  <2>4. /\ mail' = mail \cup {i}
        /\ UNCHANGED <<rows, visit, plan, account, day, faults, ran>>
    BY <1>3 DEF SendSystem, Delivered
  <2>5. /\ sent' \in [Ids -> 0..(MaxDay + TTL)]
        /\ \A j \in Ids : sent'[j] = IF j = i THEN req[i].now + TTL ELSE sent[j]
    BY <1>1, <1>3 DEF ConfirmTypeOK
  <2>6. Fading /\ Stored' = Stored
    BY <2>4, SameRows
  <2>7. ConfirmTypeOK'
    BY <2>3, <2>4, <2>5 DEF ConfirmTypeOK
  <2>8. ReqShape' /\ OntoShape'
    <3>1. ReqShape'
      BY <2>1, <2>3, <2>4, <2>5, <1>1 DEF ReqShape, Early
    <3>2. OntoShape'
      BY <2>1, <2>3, OntoKeeps DEF First
    <3> QED
      BY <3>1, <3>2
  <2>9. RowData' /\ Capped'
    BY <1>1, <2>4, <2>6, FadingKeeps
  <2>10. RowPlace'
    BY <2>1, <2>3, <2>4, <2>6, FadingPlace DEF RowPlace, Stored
  <2>11. SentShape'
    <3> SUFFICES ASSUME account = "active", NEW j \in Ids
                 PROVE  /\ sent'[j] > day => /\ j \in Stored /\ rows[j].channel = "system"
                                             /\ rows[j].created + TTL = sent'[j]
                        /\ req'[j].at = "system" /\ j \notin Stored => req'[j].now + TTL <= day
      BY <2>4, <2>6 DEF SentShape
    <3>1. CASE j = i
      <4>1. CASE i \in Stored
        BY <1>1, <2>1, <2>3, <2>5, <3>1, <4>1 DEF RowPlace
      <4>2. CASE i \notin Stored
        <5>1. req[i].now + TTL <= day
          BY <1>1, <4>2 DEF SentShape
        <5> QED
          BY <1>1, <2>1, <2>3, <2>5, <3>1, <5>1
      <4> QED
        BY <4>1, <4>2
    <3>2. CASE j # i
      BY <2>3, <2>5, <3>2 DEF SentShape
    <3> QED
      BY <3>1, <3>2
  <2>12. VisitShape'
    BY <2>4, <2>6, FadingVisits
  <2> QED
    BY <2>7, <2>8, <2>9, <2>10, <2>11, <2>12
<1> QED
  BY <1>2, <1>3 DEF SendSystem

-----------------------------------------------------------------------------
(* The page and the rest of the world.                                     *)

\* Steps of others: no request moves, nothing is mailed or replayed, rows fade,
\* and none goes while its mail counts unless the account goes with it.
LEMMA WorldMoves ==
    ASSUME ConfirmInv, Fading, rows' \in [Ids -> Row \cup {NoRow}],
           UNCHANGED <<req, mail, sent, ran>>,
           day' \in 0..MaxDay, day <= day', faults' = faults \/ Fault,
           account' \in {"active", "wiped", "gone"},
           account' = "active" => account = "active",
           account' = "active" => \A i \in Stored : rows'[i] = NoRow =>
              rows[i].created + TTL <= day,
           plan' \in [Plans -> {"pending", "settled"}],
           visit' \in [Visits -> Visit],
           \A v \in Visits :
              \/ visit'[v] = visit[v]
              \/ visit'[v].at = "closed"
              \/ visit'[v].at = "loaded" /\ visit'[v].id \in mail
    PROVE  ConfirmInv'
<1> USE DEF ConfirmInv
<1> USE BoundsAssumption
<1>1. day \in Nat /\ day' \in Nat
  BY DEF ConfirmTypeOK
<1>2. ConfirmTypeOK'
  BY DEF ConfirmTypeOK, Fault
<1>3. ReqShape' /\ OntoShape'
  BY <1>1 DEF ReqShape, OntoShape, ConfirmTypeOK, Request
<1>4. RowData' /\ Capped'
  BY <1>1, FadingKeeps
<1>5. RowPlace'
  <2>1. Stored' \subseteq Stored
    BY NoRowAssumption DEF Fading, FadesTo, Stored
  <2> QED
    BY <2>1, FadingPlace DEF RowPlace
<1>6. SentShape'
  BY <1>1, FadingSent
<1>7. VisitShape'
  BY FadingVisits
<1> QED
  BY <1>2, <1>3, <1>4, <1>5, <1>6, <1>7

LEMMA ExpiredFades ==
    ASSUME ConfirmTypeOK, NEW i \in Ids, Expired(i), rows' = Blanked({i})
    PROVE  /\ Fading /\ rows' \in [Ids -> Row \cup {NoRow}]
           /\ \A j \in Stored : rows'[j] # NoRow
<1>1. i \in Stored /\ rows[i].expires <= day
  BY DEF Expired
<1>2. Fading /\ rows' \in [Ids -> Row \cup {NoRow}] /\ Stored' = Stored
  BY <1>1, BlankedFades
<1> QED
  BY <1>2 DEF Stored

LEMMA ClosedVisit ==
    ASSUME ConfirmTypeOK, NEW v \in Visits, Closed(v)
    PROVE  /\ visit' \in [Visits -> Visit]
           /\ \A w \in Visits : visit'[w] = visit[w] \/ visit'[w].at = "closed"
BY DEF Closed, Away, Visit, ConfirmTypeOK

LEMMA ViewStep ==
    ASSUME ConfirmInv, NEW i \in Ids, View(i)
    PROVE  ConfirmInv'
<1>1. /\ Fading /\ rows' \in [Ids -> Row \cup {NoRow}]
      /\ \A j \in Stored : rows'[j] # NoRow
  BY ExpiredFades DEF View, ConfirmInv
<1>2. UNCHANGED <<req, visit, plan, account, day, faults, mail, sent, ran>>
  BY DEF View, past
<1>3. day \in Nat
  BY DEF ConfirmInv, ConfirmTypeOK
<1> QED
  BY <1>1, <1>2, <1>3, WorldMoves DEF ConfirmInv, ConfirmTypeOK

LEMMA LoadStep ==
    ASSUME ConfirmInv, NEW v \in Visits, NEW i \in Ids, Load(v, i)
    PROVE  ConfirmInv'
<1>1. UNCHANGED <<req, plan, account, day, faults, mail, sent, ran>> /\ day \in Nat
  BY DEF Load, past, ConfirmInv, ConfirmTypeOK
<1>2. CASE visit' = [visit EXCEPT ![v] = [at |-> "loaded", id |-> i]] /\ UNCHANGED rows
  <2>1. i \in mail
    BY DEF Load, Links
  <2> DEFINE r == [at |-> "loaded", id |-> i]
  <2>a. r \in Visit /\ r.at = "loaded" /\ r.id = i
    BY DEF Visit
  <2> HIDE DEF r
  <2>b. visit' = [visit EXCEPT ![v] = r]
    BY <1>2 DEF r
  <2>c. visit \in [Visits -> Visit]
    BY DEF ConfirmInv, ConfirmTypeOK
  <2>d. visit' \in [Visits -> Visit] /\ \A w \in Visits : visit'[w] = IF w = v THEN r ELSE visit[w]
    BY <2>a, <2>b, <2>c
  <2>2. visit' \in [Visits -> Visit] /\ \A w \in Visits :
           \/ visit'[w] = visit[w]
           \/ visit'[w].at = "loaded" /\ visit'[w].id \in mail
    BY <2>1, <2>a, <2>d
  <2>3. Fading /\ \A j \in Stored : rows'[j] # NoRow
    BY <1>2, SameRows DEF Stored
  <2> QED
    BY <1>1, <1>2, <2>2, <2>3, WorldMoves DEF ConfirmInv, ConfirmTypeOK
<1>3. CASE Expired(i) /\ rows' = Blanked({i}) /\ Closed(v)
  <2>1. /\ Fading /\ rows' \in [Ids -> Row \cup {NoRow}]
        /\ \A j \in Stored : rows'[j] # NoRow
    BY <1>3, ExpiredFades DEF ConfirmInv
  <2>2. /\ visit' \in [Visits -> Visit]
        /\ \A w \in Visits : visit'[w] = visit[w] \/ visit'[w].at = "closed"
    BY <1>3, ClosedVisit DEF ConfirmInv
  <2> QED
    BY <1>1, <2>1, <2>2, WorldMoves DEF ConfirmInv, ConfirmTypeOK
<1> QED
  BY <1>2, <1>3 DEF Load

\* Only one visit finds the row live: whoever won it, or replayed it, before
\* left it consumed.
LEMMA ConsumeStep ==
    ASSUME ConfirmInv, NEW v \in Visits, Consume(v)
    PROVE  ConfirmInv'
<1> USE DEF ConfirmInv
<1> DEFINE i == visit[v].id
<1>1. /\ UNCHANGED <<req, plan, account, day, faults, mail, sent, ran>> /\ day \in Nat
      /\ visit[v].at = "loaded" /\ i \in mail /\ i \in Ids /\ visit[v] \in Visit
  BY DEF Consume, past, ConfirmTypeOK, VisitShape
<1>2. CASE i \in LiveAt(day)
  <2>1. i \in Stored /\ ~rows[i].consumed
    BY <1>2 DEF LiveAt
  <2>2. rows' = [rows EXCEPT ![i].consumed = TRUE, ![i].blank = TRUE]
    BY <1>2 DEF Consume
  <2>3. /\ Fading /\ rows' \in [Ids -> Row \cup {NoRow}] /\ Stored' = Stored
        /\ rows'[i].consumed
    BY <2>1, <2>2, ConsumedFades
  <2>4. visit' = [visit EXCEPT ![v].at = "won"]
    BY <1>2 DEF Consume
  <2>5. /\ visit' \in [Visits -> Visit] /\ visit'[v].at = "won" /\ visit'[v].id = i
        /\ \A w \in Visits \ {v} : visit'[w] = visit[w]
    BY <1>1, <2>4 DEF ConfirmTypeOK, Visit
  <2>6. ConfirmTypeOK'
    BY <1>1, <2>3, <2>5 DEF ConfirmTypeOK
  <2>7. ReqShape' /\ OntoShape'
    BY <1>1 DEF ReqShape, OntoShape
  <2>8. RowData' /\ Capped'
    BY <1>1, <2>3, FadingKeeps
  <2>9. RowPlace'
    BY <1>1, <2>3, FadingPlace DEF RowPlace
  <2>10. SentShape'
    BY <1>1, <2>3, FadingSent DEF Stored
  <2>11. VisitShape'
    <3>1. ran[i] = 0 /\ \A w \in Visits : visit[w].at = "won" => visit[w].id # i
      BY <1>1, <2>1 DEF VisitShape, ConfirmTypeOK
    <3>2. \A j \in Stored : rows[j].consumed => rows'[j].consumed
      BY <2>3, NoRowAssumption DEF Fading, FadesTo, Stored
    <3>3. ASSUME NEW w \in Visits
          PROVE  /\ visit'[w].at \in {"loaded", "won"} => visit'[w].id \in mail
                 /\ visit'[w].at = "won" =>
                      /\ ran[visit'[w].id] = 0
                      /\ visit'[w].id \in Stored => rows'[visit'[w].id].consumed
                      /\ \A u \in Visits : visit'[u] = visit'[w] => u = w
      <4>1. CASE w = v
        BY <1>1, <2>3, <2>5, <3>1, <4>1
      <4>2. CASE w # v
        <5>1. visit'[w] = visit[w]
          BY <2>5, <4>2
        <5>2. ASSUME visit[w].at = "won", NEW u \in Visits, visit'[u] = visit[w]
              PROVE  u = w
          <6>1. u # v
            BY <2>5, <3>1, <5>2
          <6> QED
            BY <2>5, <5>2, <6>1 DEF VisitShape
        <5> QED
          BY <3>2, <5>1, <5>2 DEF VisitShape
      <4> QED
        BY <4>1, <4>2
    <3> QED
      BY <1>1, <2>3, <3>2, <3>3 DEF VisitShape
  <2> QED
    BY <2>6, <2>7, <2>8, <2>9, <2>10, <2>11
<1>3. CASE i \notin LiveAt(day)
  <2>1. Closed(v) /\ rows' = IF Expired(i) THEN Blanked({i}) ELSE rows
    BY <1>3 DEF Consume
  <2>2. /\ visit' \in [Visits -> Visit]
        /\ \A w \in Visits : visit'[w] = visit[w] \/ visit'[w].at = "closed"
    BY <2>1, ClosedVisit
  <2>3. /\ Fading /\ rows' \in [Ids -> Row \cup {NoRow}]
        /\ \A j \in Stored : rows'[j] # NoRow
    <3>1. CASE Expired(i)
      BY <1>1, <2>1, <3>1, ExpiredFades
    <3>2. CASE ~Expired(i)
      BY <2>1, <3>2, SameRows DEF Stored, ConfirmTypeOK
    <3> QED
      BY <3>1, <3>2
  <2> QED
    BY <1>1, <2>2, <2>3, WorldMoves DEF ConfirmTypeOK
<1> QED
  BY <1>2, <1>3

LEMMA ReplayStep ==
    ASSUME ConfirmInv, NEW v \in Visits, Replay(v)
    PROVE  ConfirmInv'
<1> USE DEF ConfirmInv
<1> DEFINE i == visit[v].id
<1>1. /\ UNCHANGED <<rows, req, plan, account, day, faults, mail, sent>> /\ day \in Nat
      /\ visit[v].at = "won" /\ i \in mail /\ i \in Ids /\ ran[i] = 0
      /\ i \in Stored => rows[i].consumed
  BY DEF Replay, ConfirmTypeOK, VisitShape
<1>2. Fading /\ Stored' = Stored
  BY <1>1, SameRows
<1>3. /\ visit' \in [Visits -> Visit] /\ visit'[v].at = "closed"
      /\ \A w \in Visits \ {v} : visit'[w] = visit[w]
  BY DEF Replay, Closed, Away, Visit, ConfirmTypeOK
<1>4. /\ ran' \in [Ids -> Nat] /\ ran'[i] = 1
      /\ \A j \in Ids \ {i} : ran'[j] = ran[j]
  BY <1>1 DEF Replay, ConfirmTypeOK
<1>5. ConfirmTypeOK'
  BY <1>1, <1>3, <1>4 DEF ConfirmTypeOK
<1>6. ReqShape' /\ OntoShape' /\ RowData' /\ RowPlace' /\ SentShape'
  BY <1>1, <1>2 DEF ReqShape, OntoShape, RowData, RowPlace, SentShape
<1>7. Capped'
  BY <1>1, <1>2, FadingKeeps
<1>8. VisitShape'
  <2>1. ASSUME NEW w \in Visits
        PROVE  /\ visit'[w].at \in {"loaded", "won"} => visit'[w].id \in mail
               /\ visit'[w].at = "won" =>
                    /\ ran'[visit'[w].id] = 0
                    /\ visit'[w].id \in Stored => rows[visit'[w].id].consumed
                    /\ \A u \in Visits : visit'[u] = visit'[w] => u = w
    <3>1. CASE w = v
      BY <1>3, <3>1
    <3>2. CASE w # v
      <4>1. visit'[w] = visit[w]
        BY <1>3, <3>2
      <4>2. ASSUME visit[w].at = "won"
            PROVE  visit[w].id # i /\ visit[w].id \in Ids
        <5>1. visit[w] \in Visit /\ visit[v] \in Visit /\ visit[w].id \in Ids
          BY <4>2 DEF ConfirmTypeOK, VisitShape
        <5>2. visit[w].id = i => visit[w] = visit[v]
          BY <1>1, <4>2, <5>1 DEF Visit
        <5> QED
          BY <1>1, <3>2, <5>1, <5>2 DEF VisitShape
      <4>3. ASSUME visit[w].at = "won", NEW u \in Visits, visit'[u] = visit[w]
            PROVE  u = w
        <5>1. visit[u] = visit[w]
          BY <1>3, <4>3
        <5>2. \A x \in Visits : visit[x] = visit[w] => x = w
          BY <4>3, Zenon DEF VisitShape
        <5> QED
          BY <5>1, <5>2
      <4> QED
        BY <1>4, <4>1, <4>2, <4>3 DEF VisitShape
    <3> QED
      BY <3>1, <3>2
  <2>2. \A j \in Ids : ran'[j] # 0 =>
           ran'[j] = 1 /\ j \in mail /\ (j \in Stored => rows[j].consumed)
    BY <1>1, <1>4 DEF VisitShape
  <2> QED
    BY <1>1, <1>2, <2>1, <2>2 DEF VisitShape
<1> QED
  BY <1>5, <1>6, <1>7, <1>8

LEMMA VisitDiesStep ==
    ASSUME ConfirmInv, NEW v \in Visits, VisitDies(v)
    PROVE  ConfirmInv'
<1>1. /\ UNCHANGED <<rows, req, plan, account, day, mail, sent, ran>> /\ day \in Nat /\ Fault
  BY DEF VisitDies, past, ConfirmInv, ConfirmTypeOK
<1>2. /\ visit' \in [Visits -> Visit]
      /\ \A w \in Visits : visit'[w] = visit[w] \/ visit'[w].at = "closed"
  BY ClosedVisit DEF VisitDies, ConfirmInv
<1>3. Fading /\ \A j \in Stored : rows'[j] # NoRow
  BY <1>1, SameRows DEF Stored
<1> QED
  BY <1>1, <1>2, <1>3, WorldMoves DEF ConfirmInv, ConfirmTypeOK

\* Plans settle, the daily clean-up, the deletion of the account, midnight.
LEMMA OtherStep ==
    ASSUME ConfirmInv,
           (\E p \in Plans : Settle(p) \/ Rearm(p)) \/ DailyCleanup \/ Wipe \/ Deactivate \/ Tick
    PROVE  ConfirmInv'
<1>1. day \in Nat /\ MaxDay \in Nat /\ ConfirmTypeOK /\ RowData
  BY BoundsAssumption DEF ConfirmInv, ConfirmTypeOK
<1>2. CASE \E p \in Plans : Settle(p) \/ Rearm(p)
  <2>1. /\ UNCHANGED <<rows, req, visit, account, day, faults, mail, sent, ran>>
        /\ plan' \in [Plans -> {"pending", "settled"}]
    BY <1>1, <1>2 DEF Settle, Rearm, past, ConfirmTypeOK
  <2>2. Fading /\ \A j \in Stored : rows'[j] # NoRow
    BY <2>1, SameRows DEF Stored
  <2> QED
    BY <1>1, <2>1, <2>2, WorldMoves DEF ConfirmTypeOK
<1>3. CASE DailyCleanup
  <2>1. /\ UNCHANGED <<req, visit, plan, account, day, faults, mail, sent, ran>>
        /\ rows' = Pruned(day)
    BY <1>3 DEF DailyCleanup, past
  <2>2. /\ Fading
        /\ \A i \in Stored : rows'[i] = NoRow => rows[i].created + TTL <= day
    BY <1>1, <2>1, HousekeepingFades
  <2>3. rows' \in [Ids -> Row \cup {NoRow}]
    BY <1>1, <2>1, HousekeepingFades
  <2> QED
    BY <1>1, <2>1, <2>2, <2>3, WorldMoves DEF ConfirmTypeOK
<1>4. CASE Wipe
  <2>1. /\ UNCHANGED <<req, visit, plan, day, mail, sent, ran>>
        /\ rows' = Without(Ids) /\ account' = "wiped" /\ Fault
    BY <1>4 DEF Wipe, past
  <2>2. Fading /\ rows' \in [Ids -> Row \cup {NoRow}]
    BY <2>1 DEF Without, Fading, FadesTo
  <2> QED
    BY <1>1, <2>1, <2>2, WorldMoves DEF ConfirmTypeOK
<1>5. CASE Deactivate
  <2>1. /\ UNCHANGED <<rows, req, visit, plan, day, faults, mail, sent, ran>>
        /\ account' = "gone"
    BY <1>5 DEF Deactivate, past
  <2>2. Fading
    BY <2>1, SameRows
  <2> QED
    BY <1>1, <2>1, <2>2, WorldMoves DEF ConfirmTypeOK
<1>6. CASE Tick
  <2>1. /\ UNCHANGED <<rows, req, visit, plan, account, faults, mail, sent, ran>>
        /\ day' \in 0..MaxDay /\ day <= day'
    BY <1>1, <1>6 DEF Tick, past, ConfirmTypeOK
  <2>2. Fading /\ \A j \in Stored : rows'[j] # NoRow
    BY <2>1, SameRows DEF Stored
  <2> QED
    BY <1>1, <2>1, <2>2, WorldMoves DEF ConfirmTypeOK
<1> QED
  BY <1>2, <1>3, <1>4, <1>5, <1>6

-----------------------------------------------------------------------------
LEMMA InitInv == Init => ConfirmInv
<1> SUFFICES ASSUME Init PROVE ConfirmInv
  OBVIOUS
<1> USE BoundsAssumption
<1>1. New \in Request /\ New.at = "new" /\ New.answer = "none" /\ New.now = 0 /\ New.onto = Nobody
  BY DEF New, Request, Steps, Answers
<1>2. Away \in Visit /\ Away.at = "away"
  BY DEF Away, Visit
<1>3. Stored = {}
  BY DEF Init, Stored
<1>4. LiveAt(day) = {} /\ SystemMailed(day) = {}
  BY <1>3 DEF LiveAt, SystemMailed
<1>5. ConfirmTypeOK
  BY <1>1, <1>2 DEF Init, ConfirmTypeOK
<1>6. ReqShape /\ OntoShape
  BY <1>1 DEF Init, ReqShape, OntoShape, Early
<1>7. RowData /\ RowPlace
  BY <1>3 DEF RowData, RowPlace
<1>8. SentShape
  BY <1>1 DEF Init, SentShape
<1>9. VisitShape
  BY <1>2 DEF Init, VisitShape
<1>10. Capped
  BY <1>3, <1>4, FS_EmptySet DEF Capped, OneLinkPerAsk
<1> QED
  BY <1>5, <1>6, <1>7, <1>8, <1>9, <1>10 DEF ConfirmInv

LEMMA NextInv == ConfirmInv /\ [Next]_cavars => ConfirmInv'
<1> SUFFICES ASSUME ConfirmInv, [Next]_cavars
             PROVE  ConfirmInv'
  OBVIOUS
<1>1. CASE UNCHANGED cavars
  <2>1. UNCHANGED <<rows, req, visit, plan, account, day, faults, mail, sent, ran>>
    BY <1>1 DEF cavars
  <2>2. Stored' = Stored /\ LiveAt(day)' = LiveAt(day) /\ SystemMailed(day)' = SystemMailed(day)
    BY <2>1 DEF Stored, LiveAt, SystemMailed
  <2> QED
    BY <2>1, <2>2 DEF ConfirmInv, ConfirmTypeOK, ReqShape, OntoShape, RowData, RowPlace, SentShape,
                      VisitShape, Capped, OneLinkPerAsk
<1>2. ASSUME NEW i \in Ids,
             \/ \E a \in Asks : Ask(i, a)
             \/ Prune(i) \/ Release(i)
             \/ Reserve(i) \/ Lookup(i) \/ SendOwn(i) \/ ClaimFallback(i)
             \/ SendSystem(i) \/ Undeliverable(i) \/ RequestDies(i) \/ View(i)
      PROVE  ConfirmInv'
  BY <1>2, AskStep, HousekeepingStep, ReserveStep, LookupStep, SendOwnStep, ClaimFallbackStep,
     SendSystemStep, UndeliverableStep, RequestDiesStep, ViewStep
<1>3. ASSUME NEW v \in Visits,
             (\E i \in Ids : Load(v, i)) \/ Consume(v) \/ Replay(v) \/ VisitDies(v)
      PROVE  ConfirmInv'
  BY <1>3, LoadStep, ConsumeStep, ReplayStep, VisitDiesStep
<1>4. CASE (\E p \in Plans : Settle(p) \/ Rearm(p)) \/ DailyCleanup \/ Wipe \/ Deactivate \/ Tick
  BY <1>4, OtherStep
<1> QED
  BY <1>1, <1>2, <1>3, <1>4 DEF Next

\* The strengthened invariant holds in every reachable state.
THEOREM ConfirmCorrect == Spec => []ConfirmInv
BY InitInv, NextInv, PTL DEF Spec

-----------------------------------------------------------------------------
(* What it says.                                                           *)

\* However many visitors follow a link, and however often, the action behind it
\* is replayed at most once.
THEOREM ReplayedOnce == Spec => []RunsAtMostOnce
<1>1. ConfirmInv => RunsAtMostOnce
  <2> SUFFICES ASSUME ConfirmInv, NEW i \in Ids PROVE ran[i] <= 1
    BY DEF RunsAtMostOnce
  <2> QED
    BY DEF ConfirmInv, VisitShape, ConfirmTypeOK
<1> QED
  BY <1>1, ConfirmCorrect, PTL

\* No two live rows ask for the same action, whatever requests race.
THEOREM LinksAreUnique == Spec => []OneLinkPerAsk
<1>1. ConfirmInv => OneLinkPerAsk
  BY DEF ConfirmInv, Capped
<1> QED
  BY <1>1, ConfirmCorrect, PTL

\* The cap on live rows and the daily limit of the shared mailer both hold: the
\* mails that still count all have their row, and the statement that claims a
\* row counts them.
THEOREM BothCapsHold == Spec => []CapsHold
<1>1. ConfirmInv => CapsHold
  <2> SUFFICES ASSUME ConfirmInv, account = "active"
               PROVE  Cardinality({i \in Ids : sent[i] > day}) <= FallbackLimit
    BY DEF CapsHold, ConfirmInv, Capped
  <2> DEFINE counting == {i \in Ids : sent[i] > day}
  <2>1. counting \subseteq SystemMailed(day)
    BY BoundsAssumption DEF ConfirmInv, SentShape, SystemMailed, ConfirmTypeOK
  <2>2. IsFiniteSet(SystemMailed(day))
    BY FS_Subset DEF ConfirmInv, Capped, SystemMailed
  <2>3. IsFiniteSet(counting) /\ Cardinality(counting) <= Cardinality(SystemMailed(day))
    BY <2>1, <2>2, FS_Subset
  <2>4. Cardinality(counting) \in Nat /\ Cardinality(SystemMailed(day)) \in Nat
    BY <2>2, <2>3, FS_CardinalityType
  <2> QED
    BY <2>3, <2>4, BoundsAssumption DEF ConfirmInv, Capped
<1> QED
  BY <1>1, ConfirmCorrect, PTL

\* An agent that is told its action awaits confirmation was told so after the link
\* was delivered, or was deduped onto a request that delivered it, is still at it,
\* died at it or was refused itself since; a refused request leaves no row behind.
THEOREM AnswersAreTrue == Spec => []AnswerIsTrue
<1>1. ConfirmInv => AnswerIsTrue
  <2> SUFFICES ASSUME ConfirmInv, NEW i \in Ids
               PROVE  /\ req[i].answer = "awaiting" => i \in mail
                      /\ req[i].answer \in {"deduped", "refused"} => i \notin Stored
                      /\ req[i].answer = "deduped" =>
                           \/ req[i].onto \in mail
                           \/ /\ req[i].onto \in Ids
                              /\ \/ req[req[i].onto].at \in Mailing \cup {"dead"}
                                 \/ req[req[i].onto].answer = "refused"
                      /\ i \in LiveAt(day) /\ i \notin mail
                           => req[i].at \in Mailing \cup {"dead"}
    BY Zenon DEF AnswerIsTrue
  <2>1. req[i].answer = "awaiting" => i \in mail
    BY DEF ConfirmInv, ReqShape
  <2>2. ASSUME req[i].answer \in {"deduped", "refused"} PROVE i \notin Stored
    BY <2>2 DEF ConfirmInv, ReqShape, RowPlace
  <2>3. ASSUME req[i].answer = "deduped"
        PROVE  /\ req[i].onto \in Ids
               /\ \/ req[i].onto \in mail
                  \/ req[req[i].onto].at \in Mailing \cup {"dead"}
                  \/ req[req[i].onto].answer = "refused"
    <3>1. req[i].onto # Nobody /\ First(req[req[i].onto])
      BY <2>3 DEF ConfirmInv, OntoShape
    <3>2. req[i].onto \in Ids
      BY <3>1 DEF ConfirmInv, ConfirmTypeOK, Request
    <3> QED
      BY <3>1, <3>2 DEF First, ConfirmInv, ReqShape
  <2>4. ASSUME i \in LiveAt(day), i \notin mail
        PROVE  req[i].at \in Mailing \cup {"dead"}
    BY <2>1, <2>4 DEF ConfirmInv, RowPlace, LiveAt
  <2> QED
    BY <2>1, <2>2, <2>3, <2>4
<1> QED
  BY <1>1, ConfirmCorrect, PTL
=============================================================================
