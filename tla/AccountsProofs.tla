--------------------------- MODULE AccountsProofs ---------------------------
(***************************************************************************)
(* Proofs about Accounts: the account acts for nobody but whoever last     *)
(* signed in, a sign-in has one chain of tokens, and the sweep deletes     *)
(* nobody without a warning, for any number of identities and requests.    *)
(***************************************************************************)
EXTENDS Accounts, FiniteSetTheorems, TLAPS

Code == [sign : Nat, term : Nat, late : BOOLEAN]
Pair == [sign : Nat, n : Nat, term : Nat, late : BOOLEAN, access : BOOLEAN, refresh : BOOLEAN]
KeyOf == [sign : Nat, n : Nat]

\* The requests, by what they carry.
Readings == [at : {"check", "write", "why", "put", "late"}, read : Row]
SignIns == [at : {"admit", "keep", "touch", "code"}, who : Identities, sign : Nat, term : Nat]
Spendings == [at : {"consume"}, code : Code]
Issues == [at : {"issue"}, sign : Nat, since : Nat, late : BOOLEAN, term : Nat]
Rotations == [at : {"rotate"}, old : KeyOf]
Reissues == [at : {"reissue"}, sign : Nat, since : Nat, late : BOOLEAN, term : Nat, old : KeyOf]
Rebinds == [at : {"clear"}, expected : [provider : {"google", "microsoft"},
                                        sub : Identities \cup {None}]]
Batches == [at : {"batch"}, raced : BOOLEAN]
Plain == [at : {"idle", "forget", "drop", "deactivate", "purge", "mail", "stamp", "due", "again"}]
Job == Readings \cup SignIns \cup Spendings \cup Issues \cup Rotations \cup Reissues
         \cup Rebinds \cup Batches \cup Plain

Types ==
    /\ deploy \in [refuse : BOOLEAN, mailing : BOOLEAN] /\ row \in Row \cup {None}
    /\ cache \in Identities \cup {None}
    /\ codes \subseteq Code /\ pairs \subseteq Pair
    /\ user \in User \cup {None}
    /\ job \in [Actors -> Job]
    /\ used \in Nat /\ made \in Nat \ {0}
    /\ holder \in Identities \cup {None} /\ term \in Nat
    /\ torn \in BOOLEAN /\ told \in Nat \cup {None}

\* The cron sweep never asks for itself, and a request never sweeps.
CronJob(j) == j.at \in {"idle", "drop", "deactivate", "purge", "mail", "stamp", "due",
                        "again", "batch"}
WhoDoesWhat ==
    /\ CronJob(job[Cron])
    /\ \A w \in Workers : job[w].at \notin {"purge", "mail", "stamp", "due", "again"}

\* Who will hand out, or has handed out, the tokens of a sign-in.
Minting(a) == job[a].at \in {"admit", "keep", "touch", "code", "issue", "reissue"}

\* A sign-in has one code, or one request that will mint its next token, or one
\* pair of tokens; a rotation under way has only the pair it replaces.
Chains ==
    /\ \A c \in codes : c.sign <= made
    /\ \A p \in pairs : p.sign <= made /\ (p.access \/ p.refresh)
    /\ \A a \in Actors : Minting(a) => job[a].sign <= made
    /\ \A c, d \in codes : c.sign = d.sign => c = d
    /\ \A p, q \in pairs : p.sign = q.sign => p = q
    /\ \A a, b \in Actors : Minting(a) /\ Minting(b) /\ job[a].sign = job[b].sign => a = b
    /\ \A c \in codes, p \in pairs : c.sign # p.sign
    /\ \A c \in codes, a \in Actors : Minting(a) => c.sign # job[a].sign
    /\ \A p \in pairs, a \in Actors : Minting(a) /\ p.sign = job[a].sign =>
          job[a].at = "reissue" /\ job[a].old = Key(p) /\ ~p.refresh

\* A token is of the present term, or was being written as the term ended.
Terms ==
    /\ \A s \in codes \cup pairs : s.late \/ s.term = term
    /\ \A a \in Actors : job[a].at \in {"issue", "reissue"} =>
          job[a].late \/ job[a].since = job[a].term

\* A ciphertext is one grant, of the identity the row is bound to if it is
\* bound; a row without an anchor was there at the start.
Grants ==
    /\ HasCredential(row) =>
          row.of = holder /\ row.of # None /\ row.sub \in {None, row.of} /\ row.cred <= made
    /\ \A a \in Actors : job[a] \in Readings =>
          /\ HasCredential(job[a].read) /\ job[a].read.of # None
          /\ job[a].read.sub \in {None, job[a].read.of} /\ job[a].read.cred <= made
          /\ HasCredential(row) /\ row.cred = job[a].read.cred => row.of = job[a].read.of
          /\ HasCredential(row) /\ row.sub = None /\ job[a].read.sub = None
                => row.of = job[a].read.of

\* A cached token that is not the credential's has a request that will replace
\* it, drop it, or find on its last look that it must.
Cached ==
    cache # None =>
        \/ HasCredential(row) /\ cache = row.of
        \/ torn
        \/ \E a \in Actors :
             \/ job[a].at \in {"admit", "keep", "forget", "drop"}
             \/ job[a].at = "late" /\ Moved(job[a].read, row)

\* The stamp is the day of the last warning since the last activity, mailed if
\* system mail is on.
Warned ==
    /\ deploy.mailing /\ Stamped # None => told = Stamped
    /\ At(Cron, "mail") => Stamped = None
    /\ deploy.mailing /\ At(Cron, "stamp") => told = 0 \/ user = None \/ user.seen \in {0, None}
    /\ At(Cron, "batch") => job[Cron].raced \/ (Stamped # None /\ Stamped >= LeadDays)

AccountsInv == Types /\ WhoDoesWhat /\ Chains /\ Terms /\ Grants /\ Cached /\ Warned

-----------------------------------------------------------------------------
(* Requests *)

\* Where a request is says what it carries.
LEMMA JobIs ==
    ASSUME NEW j \in Job
    PROVE  /\ j.at \in {"check", "write", "why", "put", "late"} => j \in Readings
           /\ j.at \in {"admit", "keep", "touch", "code"} => j \in SignIns
           /\ j.at = "consume" => j \in Spendings
           /\ j.at = "issue" => j \in Issues
           /\ j.at = "rotate" => j \in Rotations
           /\ j.at = "reissue" => j \in Reissues
           /\ j.at = "clear" => j \in Rebinds
           /\ j.at = "batch" => j \in Batches
           /\ j.at \in {"idle", "forget", "drop", "deactivate", "purge", "mail", "stamp",
                        "due", "again"} => j \in Plain
BY DEF Job, Readings, SignIns, Spendings, Issues, Rotations, Reissues, Rebinds, Batches, Plain

\* A request that goes on: the others stay where they are.
LEMMA JobGoes ==
    ASSUME job \in [Actors -> Job], NEW a \in Actors, NEW j \in Job, Goes(a, j)
    PROVE  /\ job' \in [Actors -> Job] /\ job'[a] = j
           /\ \A b \in Actors : b # a => job'[b] = job[b]
BY DEF Goes

LEMMA PlainJobs ==
    /\ Idle \in Job
    /\ \A place \in {"idle", "forget", "drop", "deactivate", "purge", "mail", "stamp", "due",
                     "again"} : [at |-> place] \in Job
    /\ [at |-> "batch", raced |-> FALSE] \in Job
BY DEF Idle, Job, Plain, Batches

-----------------------------------------------------------------------------
(* What leaves a part of the invariant alone *)

\* No token changes hands: a sign-in goes on, or ends.
LEMMA ChainsStay ==
    ASSUME Types, Types', Chains, codes' \subseteq codes, pairs' \subseteq pairs, made <= made',
           \A a \in Actors :
              \/ job'[a] = job[a]
              \/ ~Minting(a)'
              \/ /\ job[a].at \in {"admit", "keep", "touch"} /\ job'[a].sign = job[a].sign
                 /\ job'[a].at \in {"keep", "touch", "code"}
    PROVE  Chains'
<1>1. ASSUME NEW a \in Actors, Minting(a)'
      PROVE  /\ Minting(a) /\ job'[a].sign = job[a].sign
             /\ job'[a].at = job[a].at \/ job[a].at # "reissue"
             /\ job[a].at = "reissue" => job'[a] = job[a]
  BY <1>1 DEF Minting
<1>2. \A c \in codes : c.sign \in Nat
  BY DEF Types, Code
<1>3. \A p \in pairs : p.sign \in Nat
  BY DEF Types, Pair
<1>4. ASSUME NEW a \in Actors, Minting(a) PROVE job[a].sign \in Nat
  <2>1. job[a] \in Job
    BY DEF Types
  <2>2. job[a] \in SignIns \cup Issues \cup Reissues
    BY <1>4, <2>1, JobIs DEF Minting
  <2> QED
    BY <2>2 DEF SignIns, Issues, Reissues
<1>5. made \in Nat /\ made' \in Nat
  BY DEF Types
<1>6. \A x \in Nat : x <= made => x <= made'
  BY <1>5
<1>7. \A c \in codes' : c.sign <= made'
  BY <1>2, <1>6 DEF Chains
<1>8. \A p \in pairs' : p.sign <= made' /\ (p.access \/ p.refresh)
  BY <1>3, <1>6 DEF Chains
<1>9. \A a \in Actors : Minting(a)' => job'[a].sign <= made'
  BY <1>1, <1>4, <1>6 DEF Chains
<1>10. /\ \A c, d \in codes' : c.sign = d.sign => c = d
       /\ \A p, q \in pairs' : p.sign = q.sign => p = q
       /\ \A c \in codes', p \in pairs' : c.sign # p.sign
  BY DEF Chains
<1>11. \A a, b \in Actors : Minting(a)' /\ Minting(b)' /\ job'[a].sign = job'[b].sign => a = b
  BY <1>1 DEF Chains
<1>12. \A c \in codes', a \in Actors : Minting(a)' => c.sign # job'[a].sign
  BY <1>1 DEF Chains
<1>13. \A p \in pairs', a \in Actors : Minting(a)' /\ p.sign = job'[a].sign =>
          job'[a].at = "reissue" /\ job'[a].old = Key(p) /\ ~p.refresh
  BY <1>1 DEF Chains
<1> QED
  BY <1>7, <1>8, <1>9, <1>10, <1>11, <1>12, <1>13 DEF Chains, Key

LEMMA TermsStay ==
    ASSUME Terms, UNCHANGED term, codes' \subseteq codes, pairs' \subseteq pairs,
           \A a \in Actors : job'[a] = job[a] \/ job'[a].at \notin {"issue", "reissue"}
    PROVE  Terms'
BY DEF Terms

LEMMA GrantsStay ==
    ASSUME Types, Types', Grants, UNCHANGED <<row, holder>>, made <= made',
           \A a \in Actors : job'[a] \in Readings =>
              job[a] \in Readings /\ job'[a].read = job[a].read
    PROVE  Grants'
<1>1. made \in Nat /\ made' \in Nat /\ (row # None => row.cred \in Nat)
  BY DEF Types, Row
<1>2. \A a \in Actors : job[a] \in Readings => job[a].read.cred \in Nat
  BY DEF Readings, Row
<1> QED
  BY <1>1, <1>2 DEF Grants, HasCredential

LEMMA CachedStays ==
    ASSUME Cached, UNCHANGED <<row, cache>>, torn => torn',
           \A a \in Actors :
              \/ job'[a] = job[a]
              \/ job[a].at \notin {"admit", "keep", "forget", "drop", "late"}
              \/ job'[a].at \in {"admit", "keep", "forget", "drop"}
              \/ torn'
    PROVE  Cached'
BY DEF Cached, HasCredential, Moved

LEMMA WarnedStays ==
    ASSUME Warned, UNCHANGED <<deploy, user, told>>,
           \/ job'[Cron] = job[Cron]
           \/ job'[Cron].at \notin {"mail", "stamp", "batch"}
    PROVE  Warned'
BY DEF Warned, Stamped, At, IdleFor, WarnAfter

\* A request that only moves on: it starts nothing that a part of the invariant
\* is about, and leaves nothing undone.
LEMMA OnlyMoves ==
    ASSUME AccountsInv, NEW a \in Actors, NEW j \in Job, Goes(a, j),
           UNCHANGED <<deploy, row, cache, codes, pairs, user, made, holder, term, torn, told>>,
           used' \in Nat, WhoDoesWhat',
           job[a].at \notin {"admit", "keep", "forget", "drop", "late"},
           j.at \notin {"admit", "keep", "touch", "code", "issue", "reissue"},
           j \in Readings => job[a] \in Readings /\ j.read = job[a].read,
           a = Cron => j.at \notin {"mail", "stamp", "batch"}
    PROVE  AccountsInv'
<1>1. /\ job' \in [Actors -> Job] /\ job'[a] = j
      /\ \A b \in Actors : b # a => job'[b] = job[b]
  BY JobGoes DEF AccountsInv, Types
<1>2. Types'
  BY <1>1 DEF AccountsInv, Types
<1>3. Chains'
  BY <1>1, <1>2, ChainsStay DEF AccountsInv, Minting, Types
<1>4. Terms'
  BY <1>1, TermsStay DEF AccountsInv
<1>5. Grants'
  BY <1>1, <1>2, GrantsStay DEF AccountsInv, Types
<1>6. Cached'
  BY <1>1, CachedStays DEF AccountsInv
<1>7. Warned'
  BY <1>1, WarnedStays DEF AccountsInv, Actors
<1> QED
  BY <1>2, <1>3, <1>4, <1>5, <1>6, <1>7 DEF AccountsInv

\* Who does what, after a request of a worker moves.
LEMMA WorkerMoves ==
    ASSUME AccountsInv, NEW w \in Workers, NEW j \in Job, Goes(w, j),
           j.at \notin {"purge", "mail", "stamp", "due", "again"}
    PROVE  WhoDoesWhat' /\ w \in Actors /\ w # Cron /\ job'[Cron] = job[Cron]
BY AccountsAssumption, JobGoes DEF AccountsInv, Types, WhoDoesWhat, Actors

-----------------------------------------------------------------------------
(* Calendar access *)

\* A credential that is read is a grant of the holder's.
LEMMA ReadStep ==
    ASSUME AccountsInv, NEW w \in Workers, Read(w)
    PROVE  AccountsInv'
<1> USE DEF credential, sessions, people, clock
<1> DEFINE j == [at |-> "check", read |-> row]
<1>1. /\ w \in Actors /\ w # Cron /\ job \in [Actors -> Job] /\ used \in Nat
      /\ job[w] = Idle /\ row \in Row /\ row # None
  BY AccountsAssumption DEF Read, Ask, HasCredential, Actors, AccountsInv, Types
<1>2. j \in Readings /\ j \in Job /\ j.at = "check" /\ j.read = row
  BY <1>1 DEF Readings, Job
<1> HIDE DEF j
<1>3. /\ job' \in [Actors -> Job] /\ job'[w] = j
      /\ \A b \in Actors : b # w => job'[b] = job[b]
  BY <1>1, <1>2, JobGoes DEF Read, j
<1>4. /\ UNCHANGED <<row, cache, holder, torn, made, codes, pairs, user, told, deploy, term>>
      /\ used' = used + 1 /\ HasCredential(row)
  BY DEF Read, Ask
<1>5. Types'
  BY <1>1, <1>3, <1>4 DEF AccountsInv, Types
<1>6. WhoDoesWhat'
  BY <1>1, <1>2, <1>3 DEF AccountsInv, WhoDoesWhat, Actors
<1>7. Chains'
  BY <1>2, <1>3, <1>4, <1>5, ChainsStay DEF AccountsInv, Minting, Types
<1>8. Terms'
  BY <1>2, <1>3, <1>4, TermsStay DEF AccountsInv
<1>9. Grants'
  BY <1>1, <1>2, <1>3, <1>4 DEF AccountsInv, Grants, HasCredential
<1>10. Cached'
  BY <1>1, <1>3, <1>4, CachedStays DEF AccountsInv, Idle
<1>11. Warned'
  BY <1>1, <1>3, <1>4, WarnedStays DEF AccountsInv, Actors
<1> QED
  BY <1>5, <1>6, <1>7, <1>8, <1>9, <1>10, <1>11 DEF AccountsInv


\* The provider has answered, and the row still bears the anchor it bore.
LEMMA CheckStep ==
    ASSUME AccountsInv, NEW w \in Workers, Check(w) \/ Why(w)
    PROVE  AccountsInv'
<1> USE DEF credential, sessions, people, clock
<1>1. w \in Actors /\ job[w] \in Job /\ job[w].at \in {"check", "why"}
  BY DEF Check, Why, At, Actors, AccountsInv, Types
<1>2. job[w] \in Readings
  BY <1>1, JobIs
<1>3. PICK j \in Job :
         /\ Goes(w, j)
         /\ \/ j = Idle
            \/ j \in Readings /\ j.read = job[w].read /\ j.at \in {"put", "write"}
  <2>1. \A place \in {"put", "write"} :
           LET k == [job[w] EXCEPT !.at = place] IN
              k \in Readings /\ k \in Job /\ k.read = job[w].read /\ k.at = place
    BY <1>2 DEF Readings, Job
  <2> QED
    BY <2>1, PlainJobs DEF Check, Why, On
<1>4. j.at \in {"idle", "put", "write"} /\ (j \in Readings => j.read = job[w].read)
  BY <1>3 DEF Idle, Readings
<1>5. /\ UNCHANGED <<deploy, row, cache, codes, pairs, user, made, holder, term, torn, told>>
      /\ used' \in Nat
  BY DEF Check, Why, AccountsInv, Types
<1>6. WhoDoesWhat' /\ w # Cron
  BY <1>3, <1>4, WorkerMoves
<1> QED
  BY <1>1, <1>2, <1>3, <1>4, <1>5, <1>6, OnlyMoves

\* The rotated credential is written back over the ciphertext that was read,
\* and so over a grant of the same identity.
LEMMA WriteBackStep ==
    ASSUME AccountsInv, NEW w \in Workers, WriteBack(w)
    PROVE  AccountsInv'
<1> USE DEF credential, sessions, people, clock
<1>1. /\ w \in Actors /\ job \in [Actors -> Job] /\ job[w] \in Job /\ job[w].at = "write"
      /\ made \in Nat /\ row \in Row \cup {None}
  BY DEF WriteBack, At, Actors, AccountsInv, Types
<1>2. job[w] \in Readings
  BY <1>1, JobIs
<1>3. /\ UNCHANGED <<deploy, cache, codes, pairs, user, holder, term, torn, told, used>>
      /\ used' \in Nat
  BY DEF WriteBack, AccountsInv, Types
<1>4. \A place \in {"put", "why"} :
         LET k == [job[w] EXCEPT !.at = place] IN
            k \in Readings /\ k \in Job /\ k.read = job[w].read /\ k.at = place
  BY <1>2 DEF Readings, Job
<1>5. CASE ~Unchanged(job[w].read)
  <2> DEFINE j == [job[w] EXCEPT !.at = "why"]
  <2>1. j \in Readings /\ j \in Job /\ j.read = job[w].read /\ j.at = "why"
    BY <1>4
  <2>2. Goes(w, j) /\ UNCHANGED <<row, made>>
    BY <1>5 DEF WriteBack, On
  <2> HIDE DEF j
  <2>3. WhoDoesWhat' /\ w # Cron
    BY <2>1, <2>2, WorkerMoves
  <2> QED
    BY <1>1, <1>2, <1>3, <2>1, <2>2, <2>3, OnlyMoves
<1>6. CASE Unchanged(job[w].read)
  <2> DEFINE j == [job[w] EXCEPT !.at = "put"]
  <2>1. j \in Readings /\ j \in Job /\ j.read = job[w].read /\ j.at = "put"
    BY <1>4
  <2>2. /\ Goes(w, j) /\ made' = made + 1
        /\ row' = [row EXCEPT !.cred = made + 1, !.of = job[w].read.of]
    BY <1>6 DEF WriteBack, On
  <2> HIDE DEF j
  <2>3. WhoDoesWhat' /\ w # Cron /\ job'[Cron] = job[Cron]
    BY <2>1, <2>2, WorkerMoves
  <2>4. /\ job' \in [Actors -> Job] /\ job'[w] = j
        /\ \A b \in Actors : b # w => job'[b] = job[b]
    BY <1>1, <2>1, <2>2, JobGoes
  <2>5. /\ row \in Row /\ row.cred = job[w].read.cred /\ HasCredential(row)
        /\ row.of = job[w].read.of
    BY <1>1, <1>2, <1>6 DEF Unchanged, AccountsInv, Grants, HasCredential
  <2>6. /\ row' \in Row /\ row'.cred = made + 1 /\ row'.of = row.of /\ row'.sub = row.sub
        /\ row'.provider = row.provider /\ row' # None /\ HasCredential(row')
    <3>1. row'.cred = made + 1 /\ row'.of = row.of /\ row'.sub = row.sub /\ row'.provider = row.provider
      BY <2>2, <2>5 DEF Row
    <3>2. row' \in Row
      <4>1. \A c \in Nat, o \in Identities \cup {None} : [row EXCEPT !.cred = c, !.of = o] \in Row
        BY <2>5 DEF Row
      <4>2. row.of \in Identities \cup {None} /\ made + 1 \in Nat
        BY <1>1, <2>5 DEF Row
      <4>3. row' = [row EXCEPT !.cred = made + 1, !.of = row.of]
        BY <2>2, <2>5
      <4> QED
        BY <4>1, <4>2, <4>3
    <3>3. row' # None
      BY <3>2, NoneAssumption
    <3> QED
      BY <1>1, <3>1, <3>2, <3>3 DEF HasCredential
  <2>7. Types'
    BY <1>1, <1>3, <2>2, <2>4, <2>6 DEF AccountsInv, Types
  <2>8. Chains'
    BY <1>1, <1>3, <2>1, <2>2, <2>4, <2>7, ChainsStay DEF AccountsInv, Minting
  <2>9. Terms'
    BY <1>3, <2>1, <2>4, TermsStay DEF AccountsInv
  <2>10. Grants'
    <3>1. \A b \in Actors : job[b] \in Readings => job[b].read.cred \in Nat
      BY DEF Readings, Row
    <3>2. \A b \in Actors : job'[b] \in Readings => job[b] \in Readings /\ job'[b].read = job[b].read
      BY <1>2, <2>1, <2>4
    <3>3. row'.of = holder' /\ row'.of # None /\ row'.sub \in {None, row'.of}
      BY <1>3, <2>5, <2>6 DEF AccountsInv, Grants
    <3>4. ASSUME NEW b \in Actors, job'[b] \in Readings
          PROVE  /\ HasCredential(job'[b].read) /\ job'[b].read.of # None
                 /\ job'[b].read.sub \in {None, job'[b].read.of}
                 /\ job'[b].read.cred <= made /\ job'[b].read.cred # made + 1
                 /\ row.sub = None /\ job'[b].read.sub = None => row.of = job'[b].read.of
      BY <1>1, <2>5, <3>1, <3>2, <3>4 DEF AccountsInv, Grants
    <3>5. HasCredential(row') =>
             /\ row'.of = holder' /\ row'.of # None /\ row'.sub \in {None, row'.of}
             /\ row'.cred <= made'
      BY <1>1, <2>2, <2>6, <3>3
    <3>6. ASSUME NEW b \in Actors, job'[b] \in Readings
          PROVE  /\ HasCredential(job'[b].read) /\ job'[b].read.of # None
                 /\ job'[b].read.sub \in {None, job'[b].read.of} /\ job'[b].read.cred <= made'
                 /\ HasCredential(row') /\ row'.cred = job'[b].read.cred => row'.of = job'[b].read.of
                 /\ HasCredential(row') /\ row'.sub = None /\ job'[b].read.sub = None
                       => row'.of = job'[b].read.of
      <4>1. job'[b].read.cred \in Nat
        BY <3>1, <3>2, <3>6
      <4> QED
        BY <1>1, <2>2, <2>6, <3>4, <3>6, <4>1
    <3> QED
      BY <3>5, <3>6 DEF Grants, HasCredential
  <2>11. Cached'
    <3>1. \A b \in Actors : Moved(job[b].read, row) => Moved(job[b].read, row')
      BY <2>5, <2>6 DEF Moved
    <3>2. \A b \in Actors :
             job[b].at \in {"admit", "keep", "forget", "drop", "late"} => job'[b] = job[b]
      BY <1>1, <2>4
    <3> QED
      <4> SUFFICES ASSUME cache # None, ~torn
                   PROVE  \/ HasCredential(row') /\ cache = row'.of
                          \/ \E b \in Actors :
                               \/ job'[b].at \in {"admit", "keep", "forget", "drop"}
                               \/ job'[b].at = "late" /\ Moved(job'[b].read, row')
        BY <1>3 DEF Cached
      <4>1. CASE cache = row.of
        BY <2>6, <4>1
      <4>2. ASSUME NEW b \in Actors,
                   \/ job[b].at \in {"admit", "keep", "forget", "drop"}
                   \/ job[b].at = "late" /\ Moved(job[b].read, row)
            PROVE  \/ job'[b].at \in {"admit", "keep", "forget", "drop"}
                   \/ job'[b].at = "late" /\ Moved(job'[b].read, row')
        <5>1. job'[b] = job[b]
          BY <3>2, <4>2
        <5> QED
          BY <3>1, <4>2, <5>1
      <4> QED
        BY <4>1, <4>2 DEF AccountsInv, Cached
  <2>12. Warned'
    BY <1>3, <2>3, WarnedStays DEF AccountsInv
  <2> QED
    BY <2>3, <2>7, <2>8, <2>9, <2>10, <2>11, <2>12 DEF AccountsInv
<1> QED
  BY <1>5, <1>6

\* A token that is cached is that of the credential, or the same request will
\* see on its last look that it is not.
LEMMA PutStep ==
    ASSUME AccountsInv, NEW w \in Workers, Put(w)
    PROVE  AccountsInv'
<1> USE DEF credential, sessions, people, clock
<1> DEFINE j == [job[w] EXCEPT !.at = "late"]
<1>1. /\ w \in Actors /\ job \in [Actors -> Job] /\ job[w] \in Job /\ job[w].at = "put"
  BY DEF Put, At, Actors, AccountsInv, Types
<1>2. job[w] \in Readings
  BY <1>1, JobIs
<1>3. /\ UNCHANGED <<deploy, row, codes, pairs, user, holder, term, torn, told, made, used>>
      /\ cache' = job[w].read.of /\ Goes(w, j)
  BY DEF Put, On
<1>4. j \in Readings /\ j \in Job /\ j.read = job[w].read /\ j.at = "late"
  BY <1>2 DEF Readings, Job
<1> HIDE DEF j
<1>5. WhoDoesWhat' /\ w # Cron /\ job'[Cron] = job[Cron]
  BY <1>3, <1>4, WorkerMoves
<1>6. /\ job' \in [Actors -> Job] /\ job'[w] = j
      /\ \A b \in Actors : b # w => job'[b] = job[b]
  BY <1>1, <1>3, <1>4, JobGoes
<1>7. job[w].read \in Row /\ job[w].read.of # None
  BY <1>1, <1>2 DEF Readings, AccountsInv, Grants
<1>8. Types'
  BY <1>3, <1>6, <1>7 DEF AccountsInv, Types, Row
<1>9. Chains'
  BY <1>3, <1>4, <1>6, <1>8, ChainsStay DEF AccountsInv, Minting, Types
<1>10. Terms'
  BY <1>3, <1>4, <1>6, TermsStay DEF AccountsInv
<1>11. Grants'
  BY <1>2, <1>3, <1>4, <1>6, <1>8, GrantsStay DEF AccountsInv, Types
<1>12. Cached'
  <2>1. CASE Moved(job[w].read, row)
    BY <1>1, <1>3, <1>4, <1>6, <2>1 DEF Cached
  <2>2. CASE ~Moved(job[w].read, row)
    <3>1. HasCredential(row) /\ row.sub = job[w].read.sub
      BY <2>2 DEF Moved
    <3>2. row.of = job[w].read.of
      BY <1>1, <1>2, <3>1 DEF AccountsInv, Grants
    <3> QED
      BY <1>3, <3>1, <3>2 DEF Cached
  <2> QED
    BY <2>1, <2>2
<1>13. Warned'
  BY <1>3, <1>5, WarnedStays DEF AccountsInv
<1> QED
  BY <1>5, <1>8, <1>9, <1>10, <1>11, <1>12, <1>13 DEF AccountsInv

\* The last look: the token goes if the row is another's by now.
LEMMA LateStep ==
    ASSUME AccountsInv, NEW w \in Workers, Late(w)
    PROVE  AccountsInv'
<1> USE DEF credential, sessions, people, clock
<1>1. /\ w \in Actors /\ job \in [Actors -> Job] /\ job[w].at = "late"
      /\ Idle \in Job /\ Idle.at = "idle" /\ Idle \notin Readings
  BY PlainJobs DEF Late, At, Actors, AccountsInv, Types, Idle, Readings
<1>2. /\ UNCHANGED <<deploy, row, codes, pairs, user, holder, term, torn, told, made, used>>
      /\ cache' = IF Moved(job[w].read, row) THEN None ELSE cache
      /\ Goes(w, Idle)
  BY DEF Late
<1>3. WhoDoesWhat' /\ w # Cron /\ job'[Cron] = job[Cron]
  BY <1>1, <1>2, WorkerMoves
<1>4. /\ job' \in [Actors -> Job] /\ job'[w] = Idle
      /\ \A b \in Actors : b # w => job'[b] = job[b]
  BY <1>1, <1>2, JobGoes
<1>5. Types'
  BY <1>2, <1>4 DEF AccountsInv, Types
<1>6. Chains'
  BY <1>1, <1>2, <1>4, <1>5, ChainsStay DEF AccountsInv, Minting, Types
<1>7. Terms'
  BY <1>1, <1>2, <1>4, TermsStay DEF AccountsInv
<1>8. Grants'
  BY <1>1, <1>2, <1>4, <1>5, GrantsStay DEF AccountsInv, Types
<1>9. Cached'
  <2>1. CASE Moved(job[w].read, row)
    BY <1>2, <2>1 DEF Cached
  <2>2. CASE ~Moved(job[w].read, row)
    <3> SUFFICES ASSUME cache # None, ~torn, ~(HasCredential(row) /\ cache = row.of)
                 PROVE  \E b \in Actors :
                          \/ job'[b].at \in {"admit", "keep", "forget", "drop"}
                          \/ job'[b].at = "late" /\ Moved(job'[b].read, row)
      BY <1>2, <2>2 DEF Cached
    <3>1. PICK b \in Actors : \/ job[b].at \in {"admit", "keep", "forget", "drop"}
                              \/ job[b].at = "late" /\ Moved(job[b].read, row)
      BY DEF AccountsInv, Cached
    <3>2. b # w
      BY <1>1, <2>2, <3>1
    <3> QED
      BY <1>4, <3>1, <3>2
  <2> QED
    BY <2>1, <2>2
<1>10. Warned'
  BY <1>2, <1>3, WarnedStays DEF AccountsInv
<1> QED
  BY <1>3, <1>5, <1>6, <1>7, <1>8, <1>9, <1>10 DEF AccountsInv

-----------------------------------------------------------------------------
(* Sign-in *)

\* The credential is the new holder's; the sign-in has a number of its own.
LEMMA StoreStep ==
    ASSUME AccountsInv, NEW w \in Workers, NEW i \in Identities, Store(w, i)
    PROVE  AccountsInv'
<1> USE DEF credential, sessions, people, clock
<1> DEFINE j == [at |-> "admit", who |-> i, sign |-> made + 1, term |-> term]
           new == [provider |-> ProviderOf(i), sub |-> i, cred |-> made + 1, of |-> i]
<1>1. /\ w \in Actors /\ job \in [Actors -> Job] /\ made \in Nat /\ term \in Nat
      /\ i # None /\ used \in Nat /\ job[w] = Idle
  BY AccountsAssumption DEF Store, Callback, Ask, Actors, AccountsInv, Types
<1>2. /\ j \in SignIns /\ j \in Job /\ j.at = "admit" /\ j.sign = made + 1 /\ j \notin Readings
  BY <1>1 DEF SignIns, Job, Readings
<1>3. /\ new \in Row /\ new.cred = made + 1 /\ new.sub = i /\ new.of = i
  BY <1>1 DEF Row, ProviderOf
<1>4. new # None
  BY <1>3, NoneAssumption
<1>5. /\ UNCHANGED <<deploy, cache, codes, pairs, user, term, torn, told>>
      /\ Goes(w, j) /\ row' = new /\ holder' = i /\ made' = made + 1 /\ used' = used + 1
  BY DEF Store, Callback, Ask
<1> HIDE DEF j, new
<1>6. WhoDoesWhat' /\ w # Cron /\ job'[Cron] = job[Cron]
  BY <1>2, <1>5, WorkerMoves
<1>7. /\ job' \in [Actors -> Job] /\ job'[w] = j
      /\ \A b \in Actors : b # w => job'[b] = job[b]
  BY <1>1, <1>2, <1>5, JobGoes
<1>8. Types'
  BY <1>1, <1>3, <1>5, <1>7 DEF AccountsInv, Types
<1>9. Chains'
  <2>1. \A c \in codes : c.sign \in Nat /\ c.sign <= made
    BY DEF AccountsInv, Types, Code, Chains
  <2>2. \A p \in pairs : p.sign \in Nat /\ p.sign <= made
    BY DEF AccountsInv, Types, Pair, Chains
  <2>3. ASSUME NEW b \in Actors, Minting(b) PROVE job[b].sign \in Nat /\ job[b].sign <= made
    <3>1. job[b] \in SignIns \cup Issues \cup Reissues
      BY <1>1, <2>3, JobIs DEF Minting
    <3> QED
      BY <2>3, <3>1 DEF SignIns, Issues, Reissues, AccountsInv, Chains
  <2>4. \A b \in Actors : b # w => (Minting(b)' <=> Minting(b))
    BY <1>7 DEF Minting
  <2>5. /\ \A c \in codes : c.sign <= made + 1 /\ c.sign # made + 1
        /\ \A p \in pairs : p.sign <= made + 1 /\ p.sign # made + 1
        /\ \A b \in Actors : Minting(b) => job[b].sign <= made + 1 /\ job[b].sign # made + 1
    BY <1>1, <2>1, <2>2, <2>3
  <2>6. /\ \A c \in codes' : c.sign <= made'
        /\ \A p \in pairs' : p.sign <= made' /\ (p.access \/ p.refresh)
    BY <1>5, <2>5 DEF AccountsInv, Chains
  <2>7. \A b \in Actors : Minting(b)' => job'[b].sign <= made'
    BY <1>1, <1>2, <1>5, <1>7, <2>4, <2>5
  <2>8. /\ \A c, d \in codes' : c.sign = d.sign => c = d
        /\ \A p, q \in pairs' : p.sign = q.sign => p = q
        /\ \A c \in codes', p \in pairs' : c.sign # p.sign
    BY <1>5 DEF AccountsInv, Chains
  <2>9. \A a, b \in Actors : Minting(a)' /\ Minting(b)' /\ job'[a].sign = job'[b].sign => a = b
    BY <1>2, <1>7, <2>4, <2>5 DEF AccountsInv, Chains
  <2>10. \A c \in codes', a \in Actors : Minting(a)' => c.sign # job'[a].sign
    BY <1>2, <1>5, <1>7, <2>4, <2>5 DEF AccountsInv, Chains
  <2>11. \A p \in pairs', a \in Actors : Minting(a)' /\ p.sign = job'[a].sign =>
            job'[a].at = "reissue" /\ job'[a].old = Key(p) /\ ~p.refresh
    BY <1>2, <1>5, <1>7, <2>4, <2>5 DEF AccountsInv, Chains
  <2> QED
    BY <2>6, <2>7, <2>8, <2>9, <2>10, <2>11 DEF Chains, Key
<1>10. Terms'
  BY <1>2, <1>5, <1>7, TermsStay DEF AccountsInv
<1>11. Grants'
  <2>1. \A b \in Actors : job'[b] \in Readings => job[b] \in Readings /\ job'[b].read = job[b].read
    BY <1>2, <1>7
  <2>2. \A b \in Actors : job[b] \in Readings => job[b].read.cred \in Nat
    BY DEF Readings, Row
  <2>3. ASSUME NEW b \in Actors, job'[b] \in Readings
        PROVE  /\ HasCredential(job'[b].read) /\ job'[b].read.of # None
               /\ job'[b].read.sub \in {None, job'[b].read.of}
               /\ job'[b].read.cred <= made + 1 /\ job'[b].read.cred # made + 1
    <3>1. job'[b].read.cred \in Nat
      BY <2>1, <2>2, <2>3
    <3> QED
      BY <1>1, <2>1, <2>3, <3>1 DEF AccountsInv, Grants
  <2> QED
    BY <1>1, <1>3, <1>5, <2>3 DEF Grants, HasCredential
<1>12. Cached'
  BY <1>1, <1>2, <1>7 DEF Cached
<1>13. Warned'
  BY <1>5, <1>6, WarnedStays DEF AccountsInv
<1> QED
  BY <1>6, <1>8, <1>9, <1>10, <1>11, <1>12, <1>13 DEF AccountsInv

\* Activity is seen by the sweep, whatever it was about to do.
LEMMA ActiveGoes ==
    ASSUME AccountsInv, NEW w \in Workers, NEW j \in Job, Active(w, j),
           j.at \notin {"purge", "mail", "stamp", "due", "again"}
    PROVE  /\ job' \in [Actors -> Job] /\ job'[w] = j /\ w \in Actors /\ w # Cron
           /\ \A b \in Actors : b # w =>
                 \/ job'[b] = job[b]
                 \/ job[b].at = "batch" /\ job'[b].at = "batch"
           /\ WhoDoesWhat' /\ Warned'
           /\ user' \in User /\ told' = None
<1>1. /\ w \in Actors /\ w # Cron /\ Cron \in Actors /\ job \in [Actors -> Job]
      /\ job[Cron] \in Job
  BY AccountsAssumption DEF Actors, AccountsInv, Types
<1>2. PICK k \in Job :
         /\ job' = [job EXCEPT ![w] = j, ![Cron] = k]
         /\ Racing => k.at = "batch" /\ k.raced
         /\ ~Racing => k = job[Cron]
  <2>1. CASE Racing
    <3>1. job[Cron] \in Batches
      BY <1>1, <2>1, JobIs DEF Racing, At
    <3>2. [job[Cron] EXCEPT !.raced = TRUE] \in Batches
      BY <3>1 DEF Batches
    <3>3. /\ [job[Cron] EXCEPT !.raced = TRUE].at = "batch"
          /\ [job[Cron] EXCEPT !.raced = TRUE].raced
          /\ [job[Cron] EXCEPT !.raced = TRUE] \in Job
      BY <3>1, <3>2 DEF Batches, Job
    <3>4. job' = [job EXCEPT ![w] = j, ![Cron] = [job[Cron] EXCEPT !.raced = TRUE]]
      BY <1>1, <2>1 DEF Active
    <3> QED
      BY <2>1, <3>3, <3>4
  <2>2. CASE ~Racing
    BY <1>1, <2>2 DEF Active
  <2> QED
    BY <2>1, <2>2
<1>3. /\ job' \in [Actors -> Job] /\ job'[w] = j /\ job'[Cron] = k
      /\ \A b \in Actors : b # w /\ b # Cron => job'[b] = job[b]
  BY <1>1, <1>2
<1>4. \/ k = job[Cron] /\ job[Cron].at # "batch"
      \/ job[Cron].at = "batch" /\ k.at = "batch" /\ k.raced
  BY <1>2 DEF Racing, At
<1>5. WhoDoesWhat'
  BY <1>1, <1>3, <1>4 DEF AccountsInv, WhoDoesWhat, CronJob, Actors
<1>6. /\ user' \in User /\ user'.warned = None /\ user'.seen = 0 /\ told' = None
  BY DEF Active, Seen, User
<1>7. ~(0 > WarnAfter)
  BY AccountsAssumption DEF WarnAfter
<1>8. Warned'
  <2>1. At(Cron, "batch")' => job'[Cron].raced
    BY <1>2, <1>3, <1>4 DEF At, Racing
  <2>2. ~IdleFor(WarnAfter)'
    BY <1>6, <1>7 DEF IdleFor, WarnAfter
  <2> QED
    BY <1>6, <2>1, <2>2 DEF Warned, Stamped, WarnAfter
<1> QED
  BY <1>1, <1>3, <1>4, <1>5, <1>6, <1>8

\* The account is marked as in use; nothing is warned of or taken back.
LEMMA AdmitStep ==
    ASSUME AccountsInv, NEW w \in Workers, Admit(w)
    PROVE  AccountsInv'
<1> USE DEF credential, sessions, people, clock
<1> DEFINE j == [job[w] EXCEPT !.at = "keep"]
<1>1. /\ w \in Actors /\ job \in [Actors -> Job] /\ job[w] \in Job /\ job[w].at = "admit"
  BY DEF Admit, At, Actors, AccountsInv, Types
<1>2. job[w] \in SignIns
  BY <1>1, JobIs
<1>3. j \in Job /\ j.at = "keep" /\ j.sign = job[w].sign /\ j \notin Readings
  BY <1>2 DEF SignIns, Job, Readings
<1>4. /\ UNCHANGED <<deploy, row, cache, codes, pairs, holder, term, torn, told, made, used>>
      /\ Goes(w, j)
  BY DEF Admit, On
<1>5. /\ user' \in User
      /\ user'.warned = IF user = None THEN None ELSE user.warned
      /\ user'.seen = IF user = None THEN None ELSE user.seen
      /\ user' # None
  <2>1. /\ user' \in User /\ user'.warned = IF user = None THEN None ELSE user.warned
        /\ user'.seen = IF user = None THEN None ELSE user.seen
    BY DEF Admit, Seen, User, AccountsInv, Types
  <2> QED
    BY <2>1, NoneAssumption
<1> HIDE DEF j
<1>6. WhoDoesWhat' /\ w # Cron /\ job'[Cron] = job[Cron]
  BY <1>3, <1>4, WorkerMoves
<1>7. /\ job' \in [Actors -> Job] /\ job'[w] = j
      /\ \A b \in Actors : b # w => job'[b] = job[b]
  BY <1>1, <1>3, <1>4, JobGoes
<1>8. Types'
  BY <1>4, <1>5, <1>7 DEF AccountsInv, Types
<1>9. Chains'
  BY <1>1, <1>3, <1>4, <1>7, <1>8, ChainsStay DEF AccountsInv, Types
<1>10. Terms'
  BY <1>3, <1>4, <1>7, TermsStay DEF AccountsInv
<1>11. Grants'
  BY <1>3, <1>4, <1>7, <1>8, GrantsStay DEF AccountsInv, Types
<1>12. Cached'
  BY <1>3, <1>4, <1>7, CachedStays DEF AccountsInv
<1>13. Warned'
  BY <1>4, <1>5, <1>6 DEF AccountsInv, Warned, Stamped, At
<1> QED
  BY <1>6, <1>8, <1>9, <1>10, <1>11, <1>12, <1>13 DEF AccountsInv

\* The sign-in caches its own access token, unless the row went to another.
LEMMA KeepStep ==
    ASSUME AccountsInv, NEW w \in Workers, Keep(w)
    PROVE  AccountsInv'
<1> USE DEF credential, sessions, people, clock
<1> DEFINE j == [job[w] EXCEPT !.at = "touch"]
<1>1. /\ w \in Actors /\ job \in [Actors -> Job] /\ job[w] \in Job /\ job[w].at = "keep"
  BY DEF Keep, At, Actors, AccountsInv, Types
<1>2. job[w] \in SignIns
  BY <1>1, JobIs
<1>3. j \in Job /\ j.at = "touch" /\ j.sign = job[w].sign /\ j \notin Readings
  BY <1>2 DEF SignIns, Job, Readings
<1>4. /\ UNCHANGED <<deploy, row, codes, pairs, user, told, holder, term, made, used>>
      /\ Goes(w, j) /\ cache' = job[w].who
      /\ torn' = (torn \/ ~HasCredential(row) \/ row.sub # job[w].who)
  BY DEF Keep, On
<1>5. job[w].who \in Identities /\ job[w].who # None
  BY <1>2, AccountsAssumption DEF SignIns
<1>6. torn' \in BOOLEAN
  BY <1>4
<1> HIDE DEF j
<1>7. WhoDoesWhat' /\ w # Cron /\ job'[Cron] = job[Cron]
  BY <1>3, <1>4, WorkerMoves
<1>8. /\ job' \in [Actors -> Job] /\ job'[w] = j
      /\ \A b \in Actors : b # w => job'[b] = job[b]
  BY <1>1, <1>3, <1>4, JobGoes
<1>9. Types'
  BY <1>4, <1>5, <1>6, <1>8 DEF AccountsInv, Types
<1>10. Chains'
  BY <1>1, <1>3, <1>4, <1>8, <1>9, ChainsStay DEF AccountsInv, Types
<1>11. Terms'
  BY <1>3, <1>4, <1>8, TermsStay DEF AccountsInv
<1>12. Grants'
  BY <1>3, <1>4, <1>8, <1>9, GrantsStay DEF AccountsInv, Types
<1>13. Cached'
  <2>1. CASE torn'
    BY <2>1 DEF Cached
  <2>2. CASE ~torn'
    <3>1. HasCredential(row) /\ row.sub = job[w].who
      BY <1>4, <2>2
    <3>2. row.of = job[w].who
      BY <1>5, <3>1 DEF AccountsInv, Grants
    <3> QED
      BY <1>4, <3>1, <3>2 DEF Cached, HasCredential
  <2> QED
    BY <2>1, <2>2
<1>14. Warned'
  BY <1>4, <1>7, WarnedStays DEF AccountsInv
<1> QED
  BY <1>7, <1>9, <1>10, <1>11, <1>12, <1>13, <1>14 DEF AccountsInv

\* A request that is activity: a sign-in that goes on, or a call with a token.
LEMMA ActiveStep ==
    ASSUME AccountsInv, NEW w \in Workers, NEW j \in Job, Active(w, j), used' \in Nat,
           UNCHANGED <<credential, sessions, clock>>,
           j.at \in {"idle", "code"}, job[w].at \in {"idle", "touch"},
           j.at = "code" => job[w].at = "touch" /\ j.sign = job[w].sign
    PROVE  AccountsInv'
<1> USE DEF credential, sessions, people, clock
<1>1. /\ job' \in [Actors -> Job] /\ job'[w] = j /\ w \in Actors /\ w # Cron
      /\ \A b \in Actors : b # w =>
            \/ job'[b] = job[b]
            \/ job[b].at = "batch" /\ job'[b].at = "batch"
      /\ WhoDoesWhat' /\ Warned' /\ user' \in User /\ told' = None
  BY ActiveGoes
<1>2. UNCHANGED <<deploy, row, cache, codes, pairs, holder, term, torn, made>>
  OBVIOUS
<1>3. Types'
  BY <1>1, <1>2 DEF AccountsInv, Types
<1>4. \A b \in Actors : job'[b] = job[b] \/ job'[b].at \in {"batch", "idle", "code"}
  BY <1>1
<1>5. \A b \in Actors : job'[b].at \in {"batch", "idle", "code"} => job'[b] \notin Readings
  BY DEF Readings
<1>6. Chains'
  <2>1. \A b \in Actors :
           \/ job'[b] = job[b]
           \/ ~Minting(b)'
           \/ /\ job[b].at \in {"admit", "keep", "touch"} /\ job'[b].sign = job[b].sign
              /\ job'[b].at \in {"keep", "touch", "code"}
    BY <1>1 DEF Minting
  <2> QED
    BY <1>2, <1>3, <2>1, ChainsStay DEF AccountsInv, Types
<1>7. Terms'
  BY <1>2, <1>4, TermsStay DEF AccountsInv
<1>8. Grants'
  BY <1>2, <1>3, <1>4, <1>5, GrantsStay DEF AccountsInv, Types
<1>9. Cached'
  BY <1>1, <1>2, CachedStays DEF AccountsInv
<1> QED
  BY <1>1, <1>3, <1>6, <1>7, <1>8, <1>9 DEF AccountsInv

LEMMA TouchStep ==
    ASSUME AccountsInv, NEW w \in Workers, Touch(w)
    PROVE  AccountsInv'
<1>1. w \in Actors /\ job[w] \in Job /\ job[w].at = "touch"
  BY DEF Touch, At, Actors, AccountsInv, Types
<1>2. job[w] \in SignIns
  BY <1>1, JobIs
<1>3. PICK j \in Job : /\ Active(w, j) /\ j.at = "code" /\ j.sign = job[w].sign
  <2>1. LET k == [job[w] EXCEPT !.at = "code"] IN
           k \in Job /\ k.at = "code" /\ k.sign = job[w].sign
    BY <1>2 DEF SignIns, Job
  <2> QED
    BY <2>1 DEF Touch
<1>4. UNCHANGED <<credential, sessions, clock>> /\ used' \in Nat
  BY DEF Touch, AccountsInv, Types
<1> QED
  BY <1>1, <1>3, <1>4, ActiveStep

LEMMA UseStep ==
    ASSUME AccountsInv, NEW w \in Workers, NEW p \in pairs, Use(w, p)
    PROVE  AccountsInv'
<1>1. Idle \in Job /\ Idle.at = "idle" /\ job[w].at = "idle" /\ Active(w, Idle)
  BY PlainJobs DEF Use, Ask, Idle
<1>2. UNCHANGED <<credential, sessions, clock>> /\ used' \in Nat
  BY DEF Use, Ask, AccountsInv, Types
<1> QED
  BY <1>1, <1>2, ActiveStep

\* A request that asks and then only waits its turn.
LEMMA AsksStep ==
    ASSUME AccountsInv, NEW w \in Workers, NEW j \in Job, Ask(w), Goes(w, j),
           UNCHANGED <<credential, sessions, people, clock>>,
           j.at \in {"consume", "rotate", "clear", "batch"}
    PROVE  AccountsInv'
<1> USE DEF credential, sessions, people, clock
<1>1. job[w].at = "idle" /\ used' \in Nat /\ j \notin Readings
  BY DEF Ask, Idle, AccountsInv, Types, Readings
<1>2. WhoDoesWhat' /\ w \in Actors /\ w # Cron
  BY WorkerMoves
<1>3. UNCHANGED <<deploy, row, cache, codes, pairs, user, made, holder, term, torn, told>>
  OBVIOUS
<1> QED
  BY <1>1, <1>2, <1>3, OnlyMoves

LEMMA AskSteps ==
    ASSUME AccountsInv, NEW w \in Workers,
           \/ \E c \in codes : Present(w, c)
           \/ \E p \in pairs : Refresh(w, p)
           \/ AskRebind(w)
           \/ AskOffboard(w)
    PROVE  AccountsInv'
<1>1. ASSUME NEW c \in codes, Present(w, c) PROVE AccountsInv'
  <2>1. /\ [at |-> "consume", code |-> c] \in Job
        /\ [at |-> "consume", code |-> c].at = "consume"
    BY DEF AccountsInv, Types, Job, Spendings
  <2> QED
    BY <1>1, <2>1, AsksStep DEF Present
<1>2. ASSUME NEW p \in pairs, Refresh(w, p) PROVE AccountsInv'
  <2>1. p \in Pair
    BY DEF AccountsInv, Types
  <2>2. /\ [at |-> "rotate", old |-> Key(p)] \in Job
        /\ [at |-> "rotate", old |-> Key(p)].at = "rotate"
    BY <2>1 DEF Job, Rotations, KeyOf, Key, Pair
  <2> QED
    BY <1>2, <2>2, AsksStep DEF Refresh
<1>3. ASSUME AskRebind(w) PROVE AccountsInv'
  <2> DEFINE e == [provider |-> row.provider, sub |-> row.sub]
  <2>1. row \in Row
    BY <1>3 DEF AskRebind, AccountsInv, Types
  <2>2. /\ [at |-> "clear", expected |-> e] \in Job
        /\ [at |-> "clear", expected |-> e].at = "clear"
    BY <2>1 DEF Job, Rebinds, Row
  <2> QED
    BY <1>3, <2>2, AsksStep DEF AskRebind
<1>4. ASSUME AskOffboard(w) PROVE AccountsInv'
  <2>1. /\ [at |-> "batch", raced |-> FALSE] \in Job
        /\ [at |-> "batch", raced |-> FALSE].at = "batch"
    BY PlainJobs
  <2> QED
    BY <1>4, <2>1, AsksStep DEF AskOffboard
<1> QED
  BY <1>1, <1>2, <1>3, <1>4

-----------------------------------------------------------------------------
(* Bearer and refresh tokens *)

\* What a pair becomes when one of its halves ends, or both.
Halves(p) == {p, [p EXCEPT !.refresh = FALSE], [p EXCEPT !.access = FALSE],
              [p EXCEPT !.refresh = FALSE, !.access = FALSE]}

LEMMA HalvesOf ==
    ASSUME NEW p \in Pair, NEW q \in Halves(p)
    PROVE  /\ q \in Pair /\ q.sign = p.sign /\ q.n = p.n /\ Key(q) = Key(p)
           /\ q.term = p.term /\ q.late = p.late
           /\ q.refresh => p.refresh
           /\ q.access => p.access
BY DEF Halves, Pair, Key

\* A sign-in has at most one pair, so one of two numbers is free.
LEMMA FreshIs ==
    ASSUME Types, Chains, NEW sign \in Nat
    PROVE  Fresh(sign) \in Nat
<1>1. MaxAsks + 1 \in Nat /\ 1 \in 1..(MaxAsks + 1) /\ 2 \in 1..(MaxAsks + 1)
  BY AccountsAssumption
<1>2. \E n \in 1..(MaxAsks + 1) : ~\E p \in pairs : Key(p) = [sign |-> sign, n |-> n]
  <2>1. \A p \in pairs, n \in Nat : Key(p) = [sign |-> sign, n |-> n] => p.sign = sign /\ p.n = n
    BY DEF Key
  <2>2. ~\E p, q \in pairs : p.sign = sign /\ p.n = 1 /\ q.sign = sign /\ q.n = 2
    BY DEF Chains
  <2> QED
    BY <1>1, <2>1, <2>2
<1>3. Fresh(sign) \in 1..(MaxAsks + 1)
  BY <1>2 DEF Fresh
<1> QED
  BY <1>1, <1>3

\* A request that hands a sign-in's tokens on touches nothing else.
LEMMA TokenStep ==
    ASSUME AccountsInv, NEW w \in Workers, NEW j \in Job, Goes(w, j),
           UNCHANGED <<credential, people, clock>>, used' \in Nat,
           codes' \subseteq Code, pairs' \subseteq Pair, Chains', Terms',
           job[w].at \in {"idle", "code", "consume", "issue", "rotate", "reissue"},
           j.at \in {"idle", "issue", "reissue"}
    PROVE  AccountsInv'
<1> USE DEF credential, people, clock
<1>1. WhoDoesWhat' /\ w \in Actors /\ w # Cron /\ job'[Cron] = job[Cron]
  BY WorkerMoves
<1>2. /\ job' \in [Actors -> Job] /\ job'[w] = j
      /\ \A b \in Actors : b # w => job'[b] = job[b]
  BY <1>1, JobGoes DEF AccountsInv, Types
<1>3. UNCHANGED <<deploy, row, cache, user, made, holder, term, torn, told>>
  OBVIOUS
<1>4. Types'
  BY <1>2, <1>3 DEF AccountsInv, Types
<1>5. j \notin Readings
  BY DEF Readings
<1>6. Grants'
  BY <1>2, <1>3, <1>4, <1>5, GrantsStay DEF AccountsInv, Types
<1>7. Cached'
  BY <1>2, <1>3, CachedStays DEF AccountsInv
<1>8. Warned'
  BY <1>1, <1>3, WarnedStays DEF AccountsInv
<1> QED
  BY <1>1, <1>4, <1>6, <1>7, <1>8 DEF AccountsInv

\* The code is the sign-in's only token.
LEMMA MintCodeStep ==
    ASSUME AccountsInv, NEW w \in Workers, MintCode(w)
    PROVE  AccountsInv'
<1> USE DEF credential, people, clock
<1> DEFINE c0 == [sign |-> job[w].sign, term |-> job[w].term, late |-> job[w].term # term]
<1>1. /\ w \in Actors /\ job \in [Actors -> Job] /\ job[w] \in Job /\ job[w].at = "code"
      /\ Idle \in Job /\ Idle.at = "idle"
  BY PlainJobs DEF MintCode, At, Actors, AccountsInv, Types, Idle
<1>2. job[w] \in SignIns
  BY <1>1, JobIs
<1>3. /\ c0 \in Code /\ c0.sign = job[w].sign /\ c0.term = job[w].term
      /\ c0.late = (job[w].term # term)
  BY <1>2 DEF SignIns, Code
<1>4. /\ codes' = codes \cup {c0} /\ Goes(w, Idle) /\ UNCHANGED <<pairs, term, made>>
      /\ UNCHANGED <<credential, people, clock>> /\ used' \in Nat
  BY DEF MintCode, AccountsInv, Types
<1> HIDE DEF c0
<1>5. /\ job'[w] = Idle
      /\ \A b \in Actors : b # w => job'[b] = job[b]
  BY <1>1, <1>4, JobGoes
<1>6. codes' \subseteq Code /\ pairs' \subseteq Pair
  BY <1>3, <1>4 DEF AccountsInv, Types
<1>7. Terms'
  BY <1>1, <1>3, <1>4, <1>5 DEF AccountsInv, Terms
<1>8. Chains'
  <2>1. Minting(w) /\ ~Minting(w)' /\ \A b \in Actors : b # w => (Minting(b)' <=> Minting(b))
    BY <1>1, <1>5 DEF Minting
  <2>2. /\ c0.sign <= made
        /\ \A d \in codes : d.sign # c0.sign
        /\ \A p \in pairs : p.sign # c0.sign
        /\ \A b \in Actors : b # w /\ Minting(b) => c0.sign # job[b].sign
    BY <1>1, <1>3, <2>1 DEF AccountsInv, Chains
  <2>3. /\ \A c \in codes' : c.sign <= made'
        /\ \A p \in pairs' : p.sign <= made' /\ (p.access \/ p.refresh)
        /\ \A a \in Actors : Minting(a)' => job'[a].sign <= made'
    BY <1>4, <1>5, <2>1, <2>2 DEF AccountsInv, Chains
  <2>4. /\ \A c, d \in codes' : c.sign = d.sign => c = d
        /\ \A p, q \in pairs' : p.sign = q.sign => p = q
        /\ \A c \in codes', p \in pairs' : c.sign # p.sign
    BY <1>4, <2>2 DEF AccountsInv, Chains
  <2>5. /\ \A a, b \in Actors : Minting(a)' /\ Minting(b)' /\ job'[a].sign = job'[b].sign => a = b
        /\ \A c \in codes', a \in Actors : Minting(a)' => c.sign # job'[a].sign
    BY <1>4, <1>5, <2>1, <2>2 DEF AccountsInv, Chains
  <2>6. \A p \in pairs', a \in Actors : Minting(a)' /\ p.sign = job'[a].sign =>
           job'[a].at = "reissue" /\ job'[a].old = Key(p) /\ ~p.refresh
    BY <1>4, <1>5, <2>1 DEF AccountsInv, Chains
  <2> QED
    BY <2>3, <2>4, <2>5, <2>6 DEF Chains, Key
<1> QED
  BY <1>1, <1>4, <1>6, <1>7, <1>8, TokenStep

\* Of the requests that present a code, one spends it.
LEMMA ConsumeStep ==
    ASSUME AccountsInv, NEW w \in Workers, Consume(w)
    PROVE  AccountsInv'
<1> USE DEF credential, people, clock
<1>1. /\ w \in Actors /\ job \in [Actors -> Job] /\ job[w] \in Job /\ job[w].at = "consume"
      /\ Idle \in Job /\ Idle.at = "idle" /\ term \in Nat
  BY PlainJobs DEF Consume, At, Actors, AccountsInv, Types, Idle
<1>2. /\ UNCHANGED <<deploy, row, cache, pairs, user, holder, term, torn, told, made, used>>
      /\ UNCHANGED <<credential, people, clock>> /\ used' \in Nat /\ pairs' \subseteq Pair
  BY DEF Consume, AccountsInv, Types
<1>3. CASE job[w].code \notin codes
  <2>1. Goes(w, Idle) /\ UNCHANGED codes /\ Idle \notin Readings
    BY <1>3 DEF Consume, Idle, Readings
  <2>2. WhoDoesWhat' /\ w # Cron
    BY <1>1, <2>1, WorkerMoves
  <2> QED
    BY <1>1, <1>2, <2>1, <2>2, OnlyMoves
<1>4. CASE job[w].code \in codes
  <2>1. PICK c \in codes : c = job[w].code
    BY <1>4
  <2> DEFINE j == Issuing(c)
  <2>2. c \in Code /\ codes' = codes \ {c} /\ Goes(w, j) /\ codes' \subseteq Code
    BY <1>4, <2>1 DEF Consume, AccountsInv, Types
  <2>3. /\ j \in Job /\ j.at = "issue" /\ j.sign = c.sign /\ j.since = c.term
        /\ j.late = c.late /\ j.term = term
    BY <1>1, <2>2 DEF Issuing, Code, Issues, Job
  <2> HIDE DEF j
  <2>4. /\ job'[w] = j
        /\ \A b \in Actors : b # w => job'[b] = job[b]
    BY <1>1, <2>2, <2>3, JobGoes
  <2>5. Terms'
    BY <1>2, <2>2, <2>3, <2>4 DEF AccountsInv, Terms
  <2>6. Chains'
    <3>1. ~Minting(w) /\ Minting(w)' /\ \A b \in Actors : b # w => (Minting(b)' <=> Minting(b))
      BY <1>1, <2>3, <2>4 DEF Minting
    <3>2. /\ c.sign <= made
          /\ \A d \in codes' : d.sign # c.sign
          /\ \A p \in pairs : p.sign # c.sign
          /\ \A b \in Actors : Minting(b) => c.sign # job[b].sign
      BY <2>2 DEF AccountsInv, Chains
    <3>3. /\ \A d \in codes' : d.sign <= made'
          /\ \A p \in pairs' : p.sign <= made' /\ (p.access \/ p.refresh)
          /\ \A a \in Actors : Minting(a)' => job'[a].sign <= made'
      BY <1>2, <2>2, <2>3, <2>4, <3>1, <3>2 DEF AccountsInv, Chains
    <3>4. /\ \A d, e \in codes' : d.sign = e.sign => d = e
          /\ \A p, q \in pairs' : p.sign = q.sign => p = q
          /\ \A d \in codes', p \in pairs' : d.sign # p.sign
      BY <1>2, <2>2 DEF AccountsInv, Chains
    <3>5. /\ \A a, b \in Actors : Minting(a)' /\ Minting(b)' /\ job'[a].sign = job'[b].sign => a = b
          /\ \A d \in codes', a \in Actors : Minting(a)' => d.sign # job'[a].sign
      BY <2>2, <2>3, <2>4, <3>1, <3>2 DEF AccountsInv, Chains
    <3>6. \A p \in pairs', a \in Actors : Minting(a)' /\ p.sign = job'[a].sign =>
             job'[a].at = "reissue" /\ job'[a].old = Key(p) /\ ~p.refresh
      BY <1>2, <2>3, <2>4, <3>1, <3>2 DEF AccountsInv, Chains
    <3> QED
      BY <3>3, <3>4, <3>5, <3>6 DEF Chains, Key
  <2> QED
    BY <1>1, <1>2, <2>2, <2>3, <2>5, <2>6, TokenStep
<1> QED
  BY <1>3, <1>4

\* A pair is issued for a sign-in that has no other by then.
LEMMA IssuedStep ==
    ASSUME AccountsInv, NEW w \in Workers, job[w].at \in {"issue", "reissue"},
           Goes(w, Idle), NEW rest \in SUBSET Pair, pairs' = Issued(job[w], rest),
           UNCHANGED <<credential, codes, people, clock, used>>,
           \A q \in rest : \E p \in pairs : q \in Halves(p) /\ (q.access \/ q.refresh),
           \A p, q \in rest : p.sign = q.sign => p = q,
           \A q \in rest : q.sign # job[w].sign
    PROVE  AccountsInv'
<1> USE DEF credential, people, clock
<1> DEFINE p0 == [sign |-> job[w].sign, n |-> Fresh(job[w].sign), term |-> job[w].since,
                  late |-> job[w].late \/ job[w].term # term, access |-> TRUE, refresh |-> TRUE]
<1>1. /\ w \in Actors /\ job \in [Actors -> Job] /\ job[w] \in Job /\ term \in Nat
      /\ Idle \in Job /\ Idle.at = "idle" /\ pairs \subseteq Pair
  BY PlainJobs DEF Actors, AccountsInv, Types, Idle
<1>2. job[w] \in Issues \cup Reissues
  BY <1>1, JobIs
<1>3. job[w].sign \in Nat /\ job[w].since \in Nat /\ job[w].late \in BOOLEAN
  BY <1>2 DEF Issues, Reissues
<1>4. Fresh(job[w].sign) \in Nat
  BY <1>3, FreshIs DEF AccountsInv
<1>5. (job[w].late \/ job[w].term # term) \in BOOLEAN
  BY <1>3
<1>6. p0 \in Pair
  BY <1>3, <1>4, <1>5 DEF Pair
<1>7. /\ p0.sign = job[w].sign /\ p0.term = job[w].since /\ p0.access /\ p0.refresh
      /\ p0.late <=> job[w].late \/ job[w].term # term
  OBVIOUS
<1>8. pairs' = rest \cup {p0}
  BY DEF Issued
<1> HIDE DEF p0
<1>9. /\ job'[w] = Idle
      /\ \A b \in Actors : b # w => job'[b] = job[b]
  BY <1>1, JobGoes
<1>10. used' \in Nat /\ codes' \subseteq Code /\ pairs' \subseteq Pair
  BY <1>6, <1>8 DEF AccountsInv, Types
<1>11. \A q \in rest : \E p \in pairs :
          /\ q.sign = p.sign /\ Key(q) = Key(p) /\ q.term = p.term /\ q.late = p.late
          /\ (q.refresh => p.refresh)
  BY <1>1, HalvesOf
<1>12. Terms'
  <2>1. p0.late \/ p0.term = term
    BY <1>1, <1>7 DEF AccountsInv, Terms
  <2>2. \A q \in rest : q.late \/ q.term = term
    BY <1>11 DEF AccountsInv, Terms
  <2> QED
    BY <1>1, <1>8, <1>9, <2>1, <2>2 DEF AccountsInv, Terms
<1>13. Chains'
  <2>1. Minting(w) /\ ~Minting(w)' /\ \A b \in Actors : b # w => (Minting(b)' <=> Minting(b))
    BY <1>1, <1>9 DEF Minting
  <2>2. /\ p0.sign <= made
        /\ \A q \in rest : q.sign # p0.sign
        /\ \A c \in codes : c.sign # p0.sign
        /\ \A b \in Actors : b # w /\ Minting(b) => p0.sign # job[b].sign
    BY <1>1, <1>7, <2>1 DEF AccountsInv, Chains
  <2>3. \A q \in rest : q.sign <= made /\ (q.access \/ q.refresh)
    BY <1>11 DEF AccountsInv, Chains
  <2>4. \A c \in codes, q \in rest : c.sign # q.sign
    BY <1>11 DEF AccountsInv, Chains
  <2>5. ASSUME NEW q \in rest, NEW b \in Actors, Minting(b), q.sign = job[b].sign
        PROVE  job[b].at = "reissue" /\ job[b].old = Key(q) /\ ~q.refresh
    <3>1. PICK p \in pairs : q.sign = p.sign /\ Key(q) = Key(p) /\ (q.refresh => p.refresh)
      BY <1>11
    <3> QED
      BY <2>5, <3>1 DEF AccountsInv, Chains
  <2>6. /\ \A c \in codes' : c.sign <= made'
        /\ \A p \in pairs' : p.sign <= made' /\ (p.access \/ p.refresh)
        /\ \A a \in Actors : Minting(a)' => job'[a].sign <= made'
    BY <1>7, <1>8, <1>9, <2>1, <2>2, <2>3 DEF AccountsInv, Chains
  <2>7. /\ \A c, d \in codes' : c.sign = d.sign => c = d
        /\ \A p, q \in pairs' : p.sign = q.sign => p = q
        /\ \A c \in codes', p \in pairs' : c.sign # p.sign
    BY <1>8, <2>2, <2>4 DEF AccountsInv, Chains
  <2>8. /\ \A a, b \in Actors : Minting(a)' /\ Minting(b)' /\ job'[a].sign = job'[b].sign => a = b
        /\ \A c \in codes', a \in Actors : Minting(a)' => c.sign # job'[a].sign
    BY <1>9, <2>1 DEF AccountsInv, Chains
  <2>9. \A p \in pairs', a \in Actors : Minting(a)' /\ p.sign = job'[a].sign =>
           job'[a].at = "reissue" /\ job'[a].old = Key(p) /\ ~p.refresh
    BY <1>8, <1>9, <2>1, <2>2, <2>5
  <2> QED
    BY <2>6, <2>7, <2>8, <2>9 DEF Chains, Key
<1> QED
  BY <1>1, <1>10, <1>12, <1>13, TokenStep

LEMMA IssueStep ==
    ASSUME AccountsInv, NEW w \in Workers, Issue(w)
    PROVE  AccountsInv'
<1>1. /\ job[w].at = "issue" /\ Goes(w, Idle) /\ pairs' = Issued(job[w], pairs)
      /\ UNCHANGED <<credential, codes, people, clock, used>> /\ w \in Actors
  BY DEF Issue, At, Actors
<1>2. /\ pairs \in SUBSET Pair
      /\ \A q \in pairs : q \in Halves(q) /\ (q.access \/ q.refresh)
      /\ \A p, q \in pairs : p.sign = q.sign => p = q
      /\ \A q \in pairs : q.sign # job[w].sign
  BY <1>1 DEF AccountsInv, Types, Chains, Halves, Minting
<1> QED
  BY <1>1, <1>2, IssuedStep

\* The new pair begins as the old one's access token ends.
LEMMA ReissueStep ==
    ASSUME AccountsInv, NEW w \in Workers, Reissue(w)
    PROVE  AccountsInv'
<1> DEFINE Ended(p) == IF Key(p) = job[w].old THEN [p EXCEPT !.access = FALSE] ELSE p
           rest == Live({Ended(p) : p \in pairs})
<1>1. /\ job[w].at = "reissue" /\ Goes(w, Idle) /\ pairs' = Issued(job[w], rest)
      /\ UNCHANGED <<credential, codes, people, clock, used>> /\ w \in Actors
      /\ pairs \subseteq Pair
  BY DEF Reissue, At, Actors, AccountsInv, Types
<1>2. \A p \in pairs : Ended(p) \in Halves(p)
  BY DEF Halves
<1>3. \A p \in pairs : Ended(p).sign = p.sign /\ Ended(p) \in Pair
  BY <1>1, <1>2, HalvesOf
<1>4. rest \in SUBSET Pair
  BY <1>3 DEF Live
<1>5. \A q \in rest : \E p \in pairs : q \in Halves(p) /\ (q.access \/ q.refresh)
  BY <1>2 DEF Live
<1>6. ASSUME NEW x \in rest, NEW y \in rest, x.sign = y.sign PROVE x = y
  <2>1. PICK p \in pairs : x = Ended(p)
    BY DEF Live
  <2>2. PICK q \in pairs : y = Ended(q)
    BY DEF Live
  <2>3. p.sign = q.sign
    BY <1>3, <1>6, <2>1, <2>2
  <2>4. p = q
    BY <2>3 DEF AccountsInv, Chains
  <2> QED
    BY <2>1, <2>2, <2>4
<1>7. ASSUME NEW q \in rest, q.sign = job[w].sign PROVE FALSE
  <2>1. PICK p \in pairs : q = Ended(p) /\ (q.access \/ q.refresh)
    BY DEF Live
  <2>2. p \in Pair /\ p.sign = job[w].sign
    BY <1>1, <1>3, <1>7, <2>1
  <2>3. Key(p) = job[w].old /\ ~p.refresh
    BY <1>1, <2>2 DEF AccountsInv, Chains, Minting
  <2>4. ~Ended(p).access /\ ~Ended(p).refresh
    BY <2>2, <2>3 DEF Pair
  <2> QED
    BY <2>1, <2>4
<1> HIDE DEF rest
<1> QED
  BY <1>1, <1>4, <1>5, <1>6, <1>7, IssuedStep

\* One pair loses a half, or both.
LEMMA HalvedStep ==
    ASSUME AccountsInv, NEW w \in Workers, NEW p \in pairs, NEW q \in Halves(p), NEW j \in Job,
           Goes(w, j), pairs' = Live((pairs \ {p}) \cup {q}),
           UNCHANGED <<credential, codes, people, clock>>, used' \in Nat,
           \/ j = Idle /\ job[w].at = "idle"
           \/ j = Reissuing(p) /\ job[w].at = "rotate" /\ p.refresh /\ ~q.refresh
    PROVE  AccountsInv'
<1> USE DEF credential, people, clock
<1>1. /\ w \in Actors /\ job \in [Actors -> Job] /\ p \in Pair /\ pairs \subseteq Pair
      /\ codes' \subseteq Code /\ j.at \in {"idle", "reissue"}
  BY DEF Actors, AccountsInv, Types, Idle, Reissuing
<1>2. /\ q \in Pair /\ q.sign = p.sign /\ Key(q) = Key(p) /\ q.term = p.term /\ q.late = p.late
      /\ q.refresh => p.refresh
  BY <1>1, HalvesOf
<1>3. /\ job'[w] = j
      /\ \A b \in Actors : b # w => job'[b] = job[b]
  BY <1>1, JobGoes
<1>4. /\ \A x \in pairs' : (x \in pairs /\ x # p) \/ x = q
      /\ \A x \in pairs' : x.access \/ x.refresh
      /\ pairs' \subseteq Pair
  BY <1>1, <1>2 DEF Live
<1>5. j.at = "reissue" =>
         /\ j.sign = p.sign /\ j.since = p.term /\ j.late = p.late /\ j.term = term
         /\ j.old = Key(p)
  BY DEF Idle, Reissuing
<1>6. Terms'
  <2>1. \A s \in pairs' : s.late \/ s.term = term
    BY <1>2, <1>4 DEF AccountsInv, Terms
  <2>2. j.at = "reissue" => j.late \/ j.since = j.term
    BY <1>5 DEF AccountsInv, Terms
  <2> QED
    BY <1>1, <1>3, <2>1, <2>2 DEF AccountsInv, Terms
<1>7. Chains'
  <2>1. /\ ~Minting(w) /\ (Minting(w)' => j.at = "reissue")
        /\ \A b \in Actors : b # w => (Minting(b)' <=> Minting(b))
    BY <1>1, <1>3 DEF Minting, Idle, Reissuing
  <2>2. /\ p.sign <= made
        /\ \A x \in pairs : x # p => x.sign # p.sign
        /\ \A c \in codes : c.sign # p.sign
    BY DEF AccountsInv, Chains
  <2>3. j.at = "reissue" => /\ p.refresh /\ ~q.refresh
                            /\ \A b \in Actors : Minting(b) => job[b].sign # p.sign
    BY DEF AccountsInv, Chains, Idle
  <2>4. /\ \A c \in codes' : c.sign <= made'
        /\ \A x \in pairs' : x.sign <= made' /\ (x.access \/ x.refresh)
        /\ \A a \in Actors : Minting(a)' => job'[a].sign <= made'
    BY <1>2, <1>3, <1>4, <1>5, <2>1, <2>2 DEF AccountsInv, Chains
  <2>5. /\ \A c, d \in codes' : c.sign = d.sign => c = d
        /\ \A x, y \in pairs' : x.sign = y.sign => x = y
        /\ \A c \in codes', x \in pairs' : c.sign # x.sign
    <3>1. UNCHANGED codes
      OBVIOUS
    <3>2. /\ \A c, d \in codes : c.sign = d.sign => c = d
          /\ \A x, y \in pairs : x.sign = y.sign => x = y
          /\ \A c \in codes, x \in pairs : c.sign # x.sign
      BY DEF AccountsInv, Chains
    <3>3. ASSUME NEW x \in pairs', NEW y \in pairs', x.sign = y.sign PROVE x = y
      <4>1. CASE x = q /\ y # q
        BY <1>2, <1>4, <2>2, <3>3, <4>1
      <4>2. CASE x # q /\ y = q
        BY <1>2, <1>4, <2>2, <3>3, <4>2
      <4>3. CASE x # q /\ y # q
        BY <1>4, <3>2, <3>3, <4>3
      <4> QED
        BY <4>1, <4>2, <4>3
    <3>4. \A c \in codes, x \in pairs' : c.sign # x.sign
      BY <1>2, <1>4, <2>2, <3>2
    <3> QED
      BY <3>1, <3>2, <3>3, <3>4
  <2>6. /\ \A a, b \in Actors : Minting(a)' /\ Minting(b)' /\ job'[a].sign = job'[b].sign => a = b
        /\ \A c \in codes', a \in Actors : Minting(a)' => c.sign # job'[a].sign
    BY <1>3, <1>5, <2>1, <2>2, <2>3 DEF AccountsInv, Chains
  <2>7. ASSUME NEW x \in pairs', NEW a \in Actors, Minting(a)', x.sign = job'[a].sign
        PROVE  job'[a].at = "reissue" /\ job'[a].old = Key(x) /\ ~x.refresh
    <3>1. CASE a = w
      BY <1>2, <1>3, <1>4, <1>5, <2>1, <2>2, <2>3, <2>7, <3>1
    <3>2. CASE a # w
      <4>1. Minting(a) /\ job'[a] = job[a]
        BY <1>3, <2>1, <2>7, <3>2
      <4>2. PICK y \in pairs : /\ x.sign = y.sign /\ Key(x) = Key(y)
                              /\ (x.refresh => y.refresh)
        BY <1>2, <1>4
      <4>3. job[a].at = "reissue" /\ job[a].old = Key(y) /\ ~y.refresh
        BY <2>7, <4>1, <4>2 DEF AccountsInv, Chains
      <4> QED
        BY <4>1, <4>2, <4>3
    <3> QED
      BY <3>1, <3>2
  <2> QED
    BY <2>4, <2>5, <2>6, <2>7 DEF Chains, Key
<1> QED
  BY <1>1, <1>4, <1>6, <1>7, TokenStep

\* Of the requests that present a refresh token, one spends it.
LEMMA RotateStep ==
    ASSUME AccountsInv, NEW w \in Workers, Rotate(w)
    PROVE  AccountsInv'
<1>1. /\ w \in Actors /\ job[w].at = "rotate" /\ Idle \in Job /\ Idle.at = "idle"
      /\ Idle \notin Readings
  BY PlainJobs DEF Rotate, At, Actors, Idle, Readings
<1>2. UNCHANGED <<credential, codes, people, clock>> /\ used' \in Nat
  BY DEF Rotate, AccountsInv, Types
<1>3. ASSUME Goes(w, Idle), UNCHANGED pairs PROVE AccountsInv'
  <2>1. WhoDoesWhat' /\ w # Cron
    BY <1>1, <1>3, WorkerMoves
  <2>2. UNCHANGED <<deploy, row, cache, codes, pairs, user, made, holder, term, torn, told>>
    BY <1>2, <1>3 DEF credential, people, clock
  <2> QED
    BY <1>1, <1>2, <1>3, <2>1, <2>2, OnlyMoves
<1>4. ASSUME NEW p \in Unspent(job[w].old), Goes(w, Reissuing(p)),
             pairs' = Live((pairs \ {p}) \cup {[p EXCEPT !.refresh = FALSE]})
      PROVE  AccountsInv'
  <2>1. p \in pairs /\ p.refresh /\ p \in Pair /\ term \in Nat
    BY DEF Unspent, AccountsInv, Types
  <2>2. Reissuing(p) \in Job
    BY <2>1 DEF Reissuing, Job, Reissues, KeyOf, Key, Pair
  <2>3. PICK q \in Halves(p) : q = [p EXCEPT !.refresh = FALSE]
    BY DEF Halves
  <2>4. ~q.refresh
    BY <2>1, <2>3 DEF Pair
  <2> QED
    BY <1>1, <1>2, <1>4, <2>1, <2>2, <2>3, <2>4, HalvedStep
<1> QED
  BY <1>3, <1>4 DEF Rotate

LEMMA RevokeStep ==
    ASSUME AccountsInv, NEW w \in Workers, NEW p \in pairs, Revoke(w, p)
    PROVE  AccountsInv'
<1>1. /\ Goes(w, Idle) /\ job[w].at = "idle" /\ Idle \in Job
      /\ UNCHANGED <<credential, codes, people, clock>> /\ used' \in Nat
  BY PlainJobs DEF Revoke, Ask, Idle, AccountsInv, Types
<1>2. PICK q \in Halves(p) : pairs' = Live((pairs \ {p}) \cup {q})
  BY DEF Revoke, Halves
<1> QED
  BY <1>1, <1>2, HalvedStep

-----------------------------------------------------------------------------
(* Handovers *)

\* The row, the codes and the tokens go together; the cache is left to the
\* request that took them.
LEMMA EndedStep ==
    ASSUME AccountsInv, NEW a \in Actors, NEW j \in Job, Goes(a, j), EndSessions,
           WhoDoesWhat', UNCHANGED <<cache, torn, made, people, deploy, used>>,
           row' \in Row \cup {None}, ~HasCredential(row'),
           job[a].at \in {"clear", "batch"}, j.at \in {"forget", "drop"}
    PROVE  AccountsInv'
<1> USE DEF people
<1>1. /\ job' \in [Actors -> Job] /\ job'[a] = j
      /\ \A b \in Actors : b # a => job'[b] = job[b]
  BY JobGoes DEF AccountsInv, Types
<1>2. UNCHANGED <<deploy, cache, user, torn, told, made, used>> /\ j \notin Readings
  BY DEF Readings
<1>3. codes' = {} /\ pairs' = {} /\ term' = term + 1 /\ holder' = None
  BY DEF EndSessions
<1>4. Types'
  BY <1>1, <1>2, <1>3 DEF AccountsInv, Types
<1>5. Chains'
  BY <1>1, <1>2, <1>3, <1>4, ChainsStay DEF AccountsInv, Minting, Types
<1>6. Terms'
  BY <1>1, <1>3 DEF AccountsInv, Terms
<1>7. Grants'
  BY <1>1, <1>2 DEF AccountsInv, Grants, HasCredential
<1>8. Cached'
  BY <1>1 DEF Cached
<1>9. Warned'
  BY <1>1, <1>2, WarnedStays DEF AccountsInv, Actors
<1> QED
  BY <1>4, <1>5, <1>6, <1>7, <1>8, <1>9 DEF AccountsInv

\* A rebind clears a row that is still the one that was looked at.
LEMMA ClearStep ==
    ASSUME AccountsInv, NEW w \in Workers, Clear(w)
    PROVE  AccountsInv'
<1>1. /\ w \in Actors /\ job[w].at = "clear" /\ Idle \in Job /\ Idle.at = "idle"
      /\ Idle \notin Readings /\ [at |-> "forget"] \in Job
  BY PlainJobs DEF Clear, At, Actors, Idle, Readings
<1>2. CASE Expected(w)
  <2>1. row \in Row
    BY <1>2 DEF Expected, AccountsInv, Types
  <2>2. /\ EndSessions /\ Goes(w, [at |-> "forget"])
        /\ row' = [row EXCEPT !.sub = None, !.cred = 0, !.of = None]
        /\ UNCHANGED <<cache, torn, made, people, deploy, used>>
    BY <1>2 DEF Clear
  <2>3. row' \in Row /\ row'.cred = 0
    BY <2>1, <2>2 DEF Row
  <2>4. ~HasCredential(row')
    BY <2>3 DEF HasCredential
  <2>5. WhoDoesWhat'
    BY <1>1, <2>2, WorkerMoves
  <2> QED
    BY <1>1, <2>2, <2>3, <2>4, <2>5, EndedStep
<1>3. CASE ~Expected(w)
  <2>1. Goes(w, Idle)
    BY <1>3 DEF Clear
  <2>2. UNCHANGED <<deploy, row, cache, codes, pairs, user, made, holder, term, torn, told, used>>
    BY <1>3 DEF Clear, sessions, people
  <2>3. used' \in Nat
    BY <2>2 DEF AccountsInv, Types
  <2>4. WhoDoesWhat' /\ w # Cron
    BY <1>1, <2>1, WorkerMoves
  <2> QED
    BY <1>1, <2>1, <2>2, <2>3, <2>4, OnlyMoves
<1> QED
  BY <1>2, <1>3

LEMMA BatchStep ==
    ASSUME AccountsInv, NEW a \in Actors, OffboardBatch(a)
    PROVE  AccountsInv'
<1>1. /\ job[a].at = "batch" /\ [at |-> "drop"] \in Job /\ Goes(a, [at |-> "drop"])
      /\ EndSessions /\ row' = None /\ UNCHANGED <<cache, torn, made, people, deploy, used>>
  BY PlainJobs DEF OffboardBatch, At
<1>2. WhoDoesWhat'
  BY <1>1, JobGoes DEF AccountsInv, Types, WhoDoesWhat, CronJob, Actors
<1>3. ~HasCredential(row')
  BY <1>1 DEF HasCredential
<1> QED
  BY <1>1, <1>2, <1>3, EndedStep

\* The handover's last part: no token is left in the cache.
LEMMA DropStep ==
    ASSUME AccountsInv, NEW a \in Actors, OffboardDrop(a) \/ (a \in Workers /\ Forget(a))
    PROVE  AccountsInv'
<1> USE DEF sessions, people, clock
<1>1. PICK j \in Job : Goes(a, j) /\ (j = Idle \/ j = [at |-> "deactivate"])
  BY PlainJobs DEF OffboardDrop, Forget
<1>2. /\ UNCHANGED <<deploy, row, codes, pairs, user, holder, term, torn, told, made, used>>
      /\ cache' = None /\ j.at \in {"idle", "deactivate"} /\ j \notin Readings
  BY <1>1 DEF OffboardDrop, Forget, Idle, Readings
<1>3. /\ job' \in [Actors -> Job] /\ job'[a] = j
      /\ \A b \in Actors : b # a => job'[b] = job[b]
  BY <1>1, JobGoes DEF AccountsInv, Types
<1>4. WhoDoesWhat'
  BY <1>2, <1>3 DEF AccountsInv, WhoDoesWhat, CronJob, Actors
<1>5. Types'
  BY <1>2, <1>3 DEF AccountsInv, Types
<1>6. Chains'
  BY <1>2, <1>3, <1>5, ChainsStay DEF AccountsInv, Minting, Types
<1>7. Terms'
  BY <1>2, <1>3, TermsStay DEF AccountsInv
<1>8. Grants'
  BY <1>2, <1>3, <1>5, GrantsStay DEF AccountsInv, Types
<1>9. Cached'
  BY <1>2 DEF Cached
<1>10. Warned'
  BY <1>2, <1>3, WarnedStays DEF AccountsInv, Actors
<1> QED
  BY <1>4, <1>5, <1>6, <1>7, <1>8, <1>9, <1>10 DEF AccountsInv

-----------------------------------------------------------------------------
(* The daily sweep *)

\* A step that touches the user's row and the history of warnings only.
LEMMA PeopleStep ==
    ASSUME AccountsInv, NEW a \in Actors, NEW j \in Job, Goes(a, j),
           UNCHANGED <<credential, sessions, clock, used>>,
           user' \in User \cup {None}, told' \in Nat \cup {None}, WhoDoesWhat', Warned',
           job[a].at \in {"idle", "deactivate", "mail", "stamp", "due", "again", "purge"},
           j.at \in {"idle", "mail", "stamp", "due", "again", "purge", "batch"}
    PROVE  AccountsInv'
<1> USE DEF credential, sessions, clock
<1>1. /\ job' \in [Actors -> Job] /\ job'[a] = j
      /\ \A b \in Actors : b # a => job'[b] = job[b]
  BY JobGoes DEF AccountsInv, Types
<1>2. /\ UNCHANGED <<deploy, row, cache, codes, pairs, holder, term, torn, made, used>>
      /\ j \notin Readings
  BY DEF Readings
<1>3. Types'
  BY <1>1, <1>2 DEF AccountsInv, Types
<1>4. Chains'
  BY <1>1, <1>2, <1>3, ChainsStay DEF AccountsInv, Minting, Types
<1>5. Terms'
  BY <1>1, <1>2, TermsStay DEF AccountsInv
<1>6. Grants'
  BY <1>1, <1>2, <1>3, GrantsStay DEF AccountsInv, Types
<1>7. Cached'
  BY <1>1, <1>2, CachedStays DEF AccountsInv
<1> QED
  BY <1>3, <1>4, <1>5, <1>6, <1>7 DEF AccountsInv

LEMMA DeactivateStep ==
    ASSUME AccountsInv, NEW a \in Actors, Deactivate(a)
    PROVE  AccountsInv'
<1>1. /\ UNCHANGED <<credential, sessions, clock, used>> /\ UNCHANGED told
      /\ job[a].at = "deactivate" /\ told \in Nat \cup {None} /\ user \in User \cup {None}
  BY DEF Deactivate, At, AccountsInv, Types
<1>2. PICK j \in Job : Goes(a, j) /\ j.at = IF a = Cron THEN "purge" ELSE "idle"
  BY PlainJobs DEF Deactivate, Idle
<1>3. WhoDoesWhat'
  BY <1>2, JobGoes, AccountsAssumption DEF AccountsInv, Types, WhoDoesWhat, CronJob, Actors
<1>4. /\ user = None => user' = None
      /\ user # None =>
            user' \in User /\ user'.warned = user.warned /\ user'.seen = user.seen
  <2>1. ASSUME user # None
        PROVE user' \in User /\ user'.warned = user.warned /\ user'.seen = user.seen
    <3>1. user \in User
      BY <1>1, <2>1
    <3>2. \A g \in Nat \cup {None} :
             LET u == [user EXCEPT !.active = FALSE, !.gone = g] IN
                u \in User /\ u.warned = user.warned /\ u.seen = user.seen
      BY <3>1 DEF User
    <3>3. user.gone \in Nat \cup {None} /\ 0 \in Nat \cup {None}
      BY <3>1 DEF User
    <3>4. PICK g \in Nat \cup {None} : user' = [user EXCEPT !.active = FALSE, !.gone = g]
      BY <2>1, <3>3 DEF Deactivate
    <3> QED
      BY <3>2, <3>4
  <2> QED
    BY <2>1 DEF Deactivate
<1>5. Warned'
  <2>1. job'[Cron] = job[Cron] \/ job'[Cron].at = "purge"
    BY <1>2, JobGoes DEF AccountsInv, Types, Actors
  <2> QED
    <3>1. Stamped' = Stamped /\ UNCHANGED <<told, deploy>>
      <4>1. CASE user = None
        BY <1>1, <1>4, <4>1 DEF Stamped, clock
      <4>2. CASE user # None
        BY <1>1, <1>4, <4>2, NoneAssumption DEF Stamped, clock
      <4> QED
        BY <4>1, <4>2
    <3>2. user' = None <=> user = None
      BY <1>1, <1>4, NoneAssumption
    <3> QED
      BY <1>4, <2>1, <3>1, <3>2 DEF AccountsInv, Warned, At
<1> QED
  BY <1>1, <1>2, <1>3, <1>4, <1>5, PeopleStep

\* The sweep's own job, and the warnings it may be about to send or to act on.
LEMMA SweepStep ==
    ASSUME AccountsInv, StartSweep \/ Mail \/ Stamp \/ Due \/ Again \/ Purge
    PROVE  AccountsInv'
<1>1. /\ Cron \in Actors /\ job[Cron] \in Job /\ user \in User \cup {None}
      /\ told \in Nat \cup {None} /\ 0 \in Nat
      /\ job[Cron].at \in {"idle", "mail", "stamp", "due", "again", "purge"}
  BY DEF StartSweep, Mail, Stamp, Due, Again, Purge, At, Actors, AccountsInv, Types
<1>2. job[Cron] \in Plain
  BY <1>1, JobIs
<1>3. \A place \in {"mail", "stamp", "due", "again", "purge"} :
         /\ [job[Cron] EXCEPT !.at = place] \in Job
         /\ [job[Cron] EXCEPT !.at = place].at = place
  BY <1>2 DEF Plain, Job
<1>4. UNCHANGED <<credential, sessions, clock, used>>
  BY DEF StartSweep, Mail, Stamp, Due, Again, Purge, people
<1>5. PICK j \in Job :
         /\ Goes(Cron, j) /\ j.at \in {"idle", "mail", "stamp", "due", "again", "purge", "batch"}
         /\ j.at = "mail" => StartSweep /\ ToWarn
         /\ j.at = "stamp" => Mail /\ (deploy.mailing => told' = 0)
         /\ j.at = "batch" => Again /\ ToDelete
  <2>1. CASE StartSweep
    BY <1>3, <2>1 DEF StartSweep, On
  <2>2. CASE Mail
    BY <1>3, <2>2 DEF Mail, On
  <2>3. CASE Stamp \/ Due
    BY <1>3, <2>3 DEF Stamp, Due, On
  <2>4. CASE Again
    BY <2>4, PlainJobs DEF Again
  <2>5. CASE Purge
    BY <2>5, PlainJobs DEF Purge, Idle
  <2> QED
    BY <2>1, <2>2, <2>3, <2>4, <2>5
<1>6. job'[Cron] = j /\ \A b \in Actors : b # Cron => job'[b] = job[b]
  BY <1>1, <1>5, JobGoes DEF AccountsInv, Types
<1>7. WhoDoesWhat'
  BY <1>5, <1>6, AccountsAssumption DEF AccountsInv, WhoDoesWhat, CronJob, Actors
<1>8. \/ user' = user
      \/ user' = None
      \/ Stamp /\ StillToWarn /\ user' = [user EXCEPT !.warned = 0]
  BY DEF StartSweep, Mail, Stamp, Due, Again, Purge, people
<1>9. /\ told' = told \/ (Mail /\ told' = 0)
      /\ deploy' = deploy
  BY DEF StartSweep, Mail, Stamp, Due, Again, Purge, people, clock
<1>10. user' \in User \cup {None} /\ told' \in Nat \cup {None}
  <2>1. CASE Stamp /\ StillToWarn /\ user' = [user EXCEPT !.warned = 0]
    <3>1. user \in User
      BY <1>1, <2>1 DEF StillToWarn, ToWarn, IdleFor
    <3> QED
      BY <1>1, <1>9, <2>1, <3>1 DEF User
  <2> QED
    BY <1>1, <1>8, <1>9, <2>1
\* The stamp is laid over a warning of this very sweep.
<1>11. deploy'.mailing /\ Stamped' # None => told' = Stamped'
  <2>1. CASE Stamp /\ StillToWarn /\ user' = [user EXCEPT !.warned = 0]
    <3>1. user \in User /\ user # None /\ user.seen # None /\ user.seen > WarnAfter
      BY <1>1, <2>1 DEF StillToWarn, ToWarn, IdleFor
    <3>2. ~(0 > WarnAfter)
      BY AccountsAssumption DEF WarnAfter
    <3>3. (deploy.mailing => told = 0) /\ UNCHANGED told
      BY <2>1, <3>1, <3>2 DEF Stamp, AccountsInv, Warned
    <3>4. user'.warned = 0
      BY <2>1, <3>1 DEF User
    <3> QED
      BY <1>9, <3>3, <3>4 DEF Stamped
  <2>2. CASE user' = user /\ Mail /\ told' = 0
    BY <2>2 DEF Mail, AccountsInv, Warned, Stamped
  <2>3. CASE user' = user /\ told' = told
    BY <1>9, <2>3 DEF AccountsInv, Warned, Stamped
  <2>4. Stamp => told' = told
    BY DEF Stamp
  <2> QED
    BY <1>8, <1>9, <2>1, <2>2, <2>3, <2>4 DEF Stamped
<1>12. At(Cron, "mail")' => Stamped' = None
  BY <1>5, <1>6, <1>8 DEF At, StartSweep, ToWarn, people, Stamped
<1>13. deploy'.mailing /\ At(Cron, "stamp")' => told' = 0
  BY <1>5, <1>6, <1>9 DEF At
<1>14. At(Cron, "batch")' => Stamped' # None /\ Stamped' >= LeadDays
  BY <1>5, <1>6 DEF At, Again, ToDelete, IdleFor, people, Stamped
<1>15. Warned'
  BY <1>11, <1>12, <1>13, <1>14 DEF Warned
<1> QED
  BY <1>1, <1>4, <1>5, <1>7, <1>10, <1>15, PeopleStep

-----------------------------------------------------------------------------
(* Deaths, days and the whole *)

\* A request that dies leaves what it did, and a cache that may be wrong.
LEMMA DieStep ==
    ASSUME AccountsInv, NEW a \in Actors, Die(a)
    PROVE  AccountsInv'
<1> USE DEF sessions, people, clock
<1>1. /\ UNCHANGED <<deploy, row, cache, codes, pairs, user, holder, term, told, made>>
      /\ Goes(a, Idle) /\ used' = used + 1 /\ used \in Nat
      /\ torn' = (torn \/ job[a].at \in {"late", "admit", "keep", "forget", "drop"})
  BY DEF Die, AccountsInv, Types
<1>2. /\ job' \in [Actors -> Job] /\ job'[a] = Idle /\ Idle.at = "idle" /\ Idle \notin Readings
      /\ \A b \in Actors : b # a => job'[b] = job[b]
  BY <1>1, JobGoes, PlainJobs DEF AccountsInv, Types, Idle, Readings
<1>3. torn' \in BOOLEAN
  BY <1>1 DEF AccountsInv, Types
<1>4. Types'
  BY <1>1, <1>2, <1>3 DEF AccountsInv, Types
<1>5. WhoDoesWhat'
  BY <1>2 DEF AccountsInv, WhoDoesWhat, CronJob, Actors
<1>6. Chains'
  BY <1>1, <1>2, <1>4, ChainsStay DEF AccountsInv, Minting, Types
<1>7. Terms'
  BY <1>1, <1>2, TermsStay DEF AccountsInv
<1>8. Grants'
  BY <1>1, <1>2, <1>4, GrantsStay DEF AccountsInv, Types
<1>9. Cached'
  BY <1>1, <1>2, CachedStays DEF AccountsInv
<1>10. Warned'
  BY <1>1, <1>2, WarnedStays DEF AccountsInv, Actors
<1> QED
  BY <1>4, <1>5, <1>6, <1>7, <1>8, <1>9, <1>10 DEF AccountsInv

LEMMA LongerIs ==
    ASSUME NEW days \in Nat \cup {None}
    PROVE  /\ Longer(days) \in Nat \cup {None}
           /\ Longer(days) = None => days = None
BY AccountsAssumption DEF Longer

\* Midnight: no request is under way, and both counts of the warning go on.
LEMMA TickStep ==
    ASSUME AccountsInv, Tick
    PROVE  AccountsInv'
<1>1. /\ UNCHANGED <<deploy, row, job, used, made, holder, term, torn>>
      /\ cache' = None /\ codes' = {} /\ told' = Longer(told)
      /\ \A a \in Actors : job[a] = Idle
  BY DEF Tick
<1>2. \A a \in Actors : job[a].at = "idle" /\ job[a] \notin Readings
  BY <1>1 DEF Idle, Readings
<1>3. \A q \in pairs' : \E p \in pairs : q = [p EXCEPT !.access = FALSE] /\ (q.access \/ q.refresh)
  BY DEF Tick, Live
<1>4. \A q \in pairs' : \E p \in pairs :
         /\ q \in Pair /\ p \in Pair /\ q.sign = p.sign /\ q.term = p.term /\ q.late = p.late
  BY <1>3 DEF AccountsInv, Types, Pair
<1>5. /\ user = None => user' = None
      /\ user # None =>
            /\ user' \in User
            /\ user'.warned = Longer(user.warned)
  <2>1. ASSUME user # None PROVE user' \in User /\ user'.warned = Longer(user.warned)
    <3>1. /\ user \in User
          /\ user' = [user EXCEPT !.seen = Longer(@), !.warned = Longer(@), !.gone = Longer(@)]
      BY <2>1 DEF Tick, AccountsInv, Types
    <3>2. /\ Longer(user.seen) \in Nat \cup {None} /\ Longer(user.warned) \in Nat \cup {None}
          /\ Longer(user.gone) \in Nat \cup {None}
      BY <3>1, LongerIs DEF User
    <3> QED
      BY <3>1, <3>2 DEF User
  <2> QED
    BY <2>1 DEF Tick
<1>6. Types'
  BY <1>1, <1>4, <1>5, LongerIs DEF AccountsInv, Types
<1>7. WhoDoesWhat'
  BY <1>1 DEF AccountsInv, WhoDoesWhat, CronJob
<1>8. Chains'
  <2>1. \A p, q \in pairs' : p.sign = q.sign => p = q
    <3> SUFFICES ASSUME NEW x \in pairs', NEW y \in pairs', x.sign = y.sign PROVE x = y
      OBVIOUS
    <3>1. PICK p \in pairs : x = [p EXCEPT !.access = FALSE]
      BY <1>3
    <3>2. PICK q \in pairs : y = [q EXCEPT !.access = FALSE]
      BY <1>3
    <3>3. p.sign = q.sign
      BY <3>1, <3>2 DEF AccountsInv, Types, Pair
    <3>4. p = q
      BY <3>3 DEF AccountsInv, Chains
    <3> QED
      BY <3>1, <3>2, <3>4
  <2>2. \A p \in pairs' : p.sign <= made' /\ (p.access \/ p.refresh)
    BY <1>1, <1>3, <1>4 DEF AccountsInv, Chains
  <2>3. \A a \in Actors : ~Minting(a)'
    BY <1>1, <1>2 DEF Minting
  <2> QED
    BY <1>1, <2>1, <2>2, <2>3 DEF Chains
<1>9. Terms'
  <2>1. \A p \in pairs' : p.late \/ p.term = term
    BY <1>4 DEF AccountsInv, Terms
  <2> QED
    BY <1>1, <1>2, <2>1 DEF Terms
<1>10. Grants'
  BY <1>1, <1>2 DEF AccountsInv, Grants, HasCredential
<1>11. Cached'
  BY <1>1 DEF Cached
<1>12. Warned'
  <2>1. Cron \in Actors /\ (user # None => user \in User)
    BY DEF Actors, AccountsInv, Types
  <2>2. deploy'.mailing /\ Stamped' # None => told' = Stamped'
    <3>1. ASSUME deploy'.mailing, user' # None, user'.warned # None PROVE told' = user'.warned
      <4>1. user # None /\ user'.warned = Longer(user.warned)
        BY <1>5, <3>1
      <4>2. user.warned # None
        BY <3>1, <4>1 DEF Longer
      <4> QED
        BY <1>1, <3>1, <4>1, <4>2 DEF AccountsInv, Warned, Stamped
    <3> QED
      BY <3>1 DEF Stamped
  <2> QED
    BY <1>1, <1>2, <2>1, <2>2 DEF Warned, At
<1> QED
  BY <1>6, <1>7, <1>8, <1>9, <1>10, <1>11, <1>12 DEF AccountsInv

\* The invariant holds at the start, with or without a bound account.
LEMMA AccountsStart ==
    ASSUME Init
    PROVE  AccountsInv
<1>1. /\ deploy \in [refuse : BOOLEAN, mailing : BOOLEAN] /\ cache = None /\ codes = {} /\ pairs = {}
      /\ job = [a \in Actors |-> Idle] /\ used = 0 /\ made = 1
      /\ term = 0 /\ torn = FALSE /\ told = None
  BY DEF Init
<1>2. /\ Idle \in Job /\ Idle.at = "idle" /\ Idle \notin Readings /\ Cron \in Actors
      /\ \A a \in Actors : job[a] = Idle
      /\ Workers \subseteq Actors
  BY <1>1, PlainJobs DEF Idle, Readings, Actors
<1>3. \/ row = None /\ user = None /\ holder = None
      \/ /\ row \in Row /\ row.of = holder /\ row.sub \in {None, holder} /\ row.cred = 1
         /\ holder \in Identities /\ user \in User /\ user.warned = None
  <2>1. ASSUME NEW i \in Identities, NEW sub \in {None, i}, holder = i, user = Seen(None, 0),
               row = [provider |-> ProviderOf(i), sub |-> sub, cred |-> 1, of |-> i]
        PROVE  /\ row \in Row /\ row.of = holder /\ row.sub \in {None, holder} /\ row.cred = 1
               /\ holder \in Identities /\ user \in User /\ user.warned = None
    <3>1. ProviderOf(i) \in {"google", "microsoft"}
      BY DEF ProviderOf
    <3>2. row \in Row /\ row.of = i /\ row.sub = sub /\ row.cred = 1
      BY <2>1, <3>1 DEF Row
    <3>3. user \in User /\ user.warned = None
      BY <2>1 DEF User, Seen
    <3> QED
      BY <2>1, <3>2, <3>3
  <2> QED
    BY <2>1 DEF Init
<1>4. job \in [Actors -> Job] /\ 1 \in Nat \ {0}
  BY <1>1, <1>2
<1>5. Types
  BY <1>1, <1>3, <1>4 DEF Types
<1>6. WhoDoesWhat
  BY <1>2 DEF WhoDoesWhat, CronJob
<1>7. Chains
  BY <1>1, <1>2 DEF Chains, Minting
<1>8. Terms
  BY <1>1, <1>2 DEF Terms
<1>9. Grants
  BY <1>1, <1>2, <1>3, AccountsAssumption DEF Grants, HasCredential
<1>10. Cached
  BY <1>1 DEF Cached
<1>11. Warned
  BY <1>1, <1>2, <1>3 DEF Warned, Stamped, At
<1> QED
  BY <1>5, <1>6, <1>7, <1>8, <1>9, <1>10, <1>11 DEF AccountsInv

LEMMA AccountsStep ==
    ASSUME AccountsInv, [Next]_avars
    PROVE  AccountsInv'
<1>1. ASSUME NEW w \in Workers,
             \/ Read(w) \/ Check(w) \/ WriteBack(w) \/ Why(w) \/ Put(w) \/ Late(w)
             \/ \E i \in Identities : Store(w, i)
             \/ Admit(w) \/ Keep(w) \/ Touch(w) \/ MintCode(w)
             \/ \E c \in codes : Present(w, c)
             \/ Consume(w) \/ Issue(w) \/ Rotate(w) \/ Reissue(w)
             \/ \E p \in pairs : Refresh(w, p) \/ Revoke(w, p) \/ Use(w, p)
             \/ AskRebind(w) \/ Clear(w) \/ Forget(w) \/ AskOffboard(w)
      PROVE  AccountsInv'
  <2>1. CASE \/ Read(w) \/ Check(w) \/ WriteBack(w) \/ Why(w) \/ Put(w) \/ Late(w)
    BY <2>1, ReadStep, CheckStep, WriteBackStep, PutStep, LateStep
  <2>2. CASE \/ \E i \in Identities : Store(w, i)
             \/ Admit(w) \/ Keep(w) \/ Touch(w) \/ MintCode(w)
    BY <2>2, StoreStep, AdmitStep, KeepStep, TouchStep, MintCodeStep
  <2>3. CASE \/ Consume(w) \/ Issue(w) \/ Rotate(w) \/ Reissue(w)
             \/ \E p \in pairs : Revoke(w, p) \/ Use(w, p)
    BY <2>3, ConsumeStep, IssueStep, RotateStep, ReissueStep, RevokeStep, UseStep
  <2>4. CASE \/ \E c \in codes : Present(w, c)
             \/ \E p \in pairs : Refresh(w, p)
             \/ AskRebind(w) \/ AskOffboard(w)
    BY <2>4, AskSteps
  <2>5. CASE Clear(w) \/ Forget(w)
    BY <2>5, ClearStep, DropStep DEF Actors
  <2> QED
    BY <1>1, <2>1, <2>2, <2>3, <2>4, <2>5
<1>2. ASSUME NEW a \in Actors, OffboardBatch(a) \/ OffboardDrop(a) \/ Deactivate(a) \/ Die(a)
      PROVE  AccountsInv'
  BY <1>2, BatchStep, DropStep, DeactivateStep, DieStep
<1>3. ASSUME StartSweep \/ Mail \/ Stamp \/ Due \/ Again \/ Purge PROVE AccountsInv'
  BY <1>3, SweepStep
<1>4. ASSUME Tick PROVE AccountsInv'
  BY <1>4, TickStep
<1>5. ASSUME UNCHANGED avars PROVE AccountsInv'
  <2>1. UNCHANGED <<deploy, row, cache, codes, pairs, user, job, used, made, holder, term, torn, told>>
    BY <1>5 DEF avars
  <2>2. Types' /\ WhoDoesWhat'
    BY <2>1 DEF AccountsInv, Types, WhoDoesWhat, CronJob
  <2>3. Chains'
    BY <2>1, <2>2, ChainsStay DEF AccountsInv, Types
  <2>4. Terms'
    BY <2>1, TermsStay DEF AccountsInv
  <2>5. Grants'
    BY <2>1, <2>2, GrantsStay DEF AccountsInv, Types
  <2>6. Cached'
    BY <2>1, CachedStays DEF AccountsInv
  <2>7. Warned'
    BY <2>1, WarnedStays DEF AccountsInv
  <2> QED
    BY <2>2, <2>3, <2>4, <2>5, <2>6, <2>7 DEF AccountsInv
<1> QED
  BY <1>1, <1>2, <1>3, <1>4, <1>5 DEF Next

-----------------------------------------------------------------------------
\* Every state the account can be in satisfies the invariant.
THEOREM AccountsCorrect == Spec => []AccountsInv
<1>1. Init => AccountsInv
  BY AccountsStart
<1>2. AccountsInv /\ [Next]_avars => AccountsInv'
  BY AccountsStep
<1> QED
  BY <1>1, <1>2, PTL DEF Spec

\* The stored credential, the cached access token and the codes and bearer
\* tokens act for whoever last signed in, whatever refreshes, rebinds and
\* off-boardings run at once (identity-store.ts, oauth-provider.ts).
THEOREM ActsForHolder == Spec => []HoldersOnly
<1>1. AccountsInv => HoldersOnly
  BY DEF AccountsInv, Grants, Cached, Terms, HoldersOnly, Settling
<1> QED
  BY <1>1, AccountsCorrect, PTL

\* A sign-in has one live pair of tokens, however often its code and its refresh
\* tokens are presented (the used_at and revoked_at gates of /oauth/token).
THEOREM NeverTwoChains == Spec => []OneChain
<1>1. AccountsInv => OneChain
  BY DEF AccountsInv, Chains, OneChain
<1> QED
  BY <1>1, AccountsCorrect, PTL

\* The sweep off-boards nobody it has not warned LeadDays before, by mail if
\* system mail is on and else by a stamp alone, or who has been active since
\* (retentionSweep).
THEOREM NobodyDeletedUnwarned == Spec => DeletedAfterWarning
<1>1. AccountsInv =>
        [At(Cron, "batch") /\ job'[Cron].at = "drop" => job[Cron].raced \/ WarnedInTime]_avars
  BY DEF AccountsInv, Warned, WarnedInTime
<1> QED
  BY <1>1, AccountsCorrect, PTL DEF DeletedAfterWarning
=============================================================================
