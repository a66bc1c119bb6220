------------------------- MODULE SolveServiceProofs -------------------------
(***************************************************************************)
(* The solve, for every set of problems, budget, deployment and fault.     *)
(*                                                                         *)
(* Of the two solvers' models, with nothing assumed of a search: both      *)
(* allow a chunk the same starts (SameStarts), and what the fast model     *)
(* plans the reference model allows (FastIsReference).                     *)
(*                                                                         *)
(* Of the service, whichever solver answers and whatever fails on the way: *)
(* what it serves is legal and truthful, what it refuses cannot be         *)
(* planned, and the solvers do not contradict each other (SolveInv).  The  *)
(* searches recurse over data; that they are truthful (SearchesSound) is   *)
(* the hypothesis, and an invariant that the model checker checks.         *)
(***************************************************************************)
EXTENDS SolveService, TLAPS, NaturalsInduction, WellFoundedInduction, SequenceTheorems, FiniteSetTheorems

-----------------------------------------------------------------------------
(* Numbers.                                                                *)

\* A set of naturals has a least one.
LEMMA Least == ASSUME NEW T, T \subseteq Nat, T # {} PROVE \E x \in T : \A y \in T : x <= y
<1>1. PICK x \in T : \A y \in T : ~(<<y, x>> \in OpToRel(<, Nat))
  BY NatLessThanWellFounded, WFMin, Zenon
<1>2. \A y \in T : ~(y < x)
  <2> SUFFICES ASSUME NEW y \in T, y < x PROVE FALSE
    OBVIOUS
  <2>1. x \in Nat /\ y \in Nat
    OBVIOUS
  <2> QED
    BY <1>1, <2>1, Zenon DEF OpToRel
<1> QED
  BY <1>2

\* The least of a set that a number bounds.
LEMMA MinIs ==
    ASSUME NEW S, S \subseteq Int, S # {}, NEW b \in Int, \A x \in S : b <= x
    PROVE  MinOf(S) \in S /\ \A x \in S : MinOf(S) <= x
<1> DEFINE T == {n \in Nat : \E x \in S : n = x - b}
<1>1. T # {}
  <2>1. PICK x \in S : TRUE
    OBVIOUS
  <2>2. x - b \in T
    BY <2>1
  <2> QED
    BY <2>2
<1>2. PICK n \in T : \A m \in T : n <= m
  BY <1>1, Least
<1>3. PICK x \in S : n = x - b
  OBVIOUS
<1>4. \A y \in S : x <= y
  <2> SUFFICES ASSUME NEW y \in S PROVE x <= y
    OBVIOUS
  <2>1. y - b \in T /\ x \in Int /\ y \in Int
    OBVIOUS
  <2>2. n <= y - b
    BY <1>2, <2>1
  <2> QED
    BY <1>3, <2>1, <2>2
<1> QED
  BY <1>4 DEF MinOf, Min

\* The greatest of a set that a number bounds.
LEMMA MaxIs ==
    ASSUME NEW S, S \subseteq Int, S # {}, NEW b \in Int, \A x \in S : x <= b
    PROVE  MaxOf(S) \in S /\ \A x \in S : x <= MaxOf(S)
<1> DEFINE T == {n \in Nat : \E x \in S : n = b - x}
<1>1. T # {}
  <2>1. PICK x \in S : TRUE
    OBVIOUS
  <2>2. b - x \in T
    BY <2>1
  <2> QED
    BY <2>2
<1>2. PICK n \in T : \A m \in T : n <= m
  BY <1>1, Least
<1>3. PICK x \in S : n = b - x
  OBVIOUS
<1>4. \A y \in S : y <= x
  <2> SUFFICES ASSUME NEW y \in S PROVE y <= x
    OBVIOUS
  <2>1. b - y \in T /\ x \in Int /\ y \in Int
    OBVIOUS
  <2>2. n <= b - y
    BY <1>2, <2>1
  <2> QED
    BY <1>3, <2>1, <2>2
<1> QED
  BY <1>4 DEF MaxOf, Max

-----------------------------------------------------------------------------
(* Chunk numbers.                                                          *)

\* f counts the chunks before each of the first n tasks.
Bases(p, n, f) == f = [u \in 1..n |-> IF u = 1 THEN 0 ELSE f[u - 1] + Len(p.tasks[u - 1].chunks)]

\* The count exists, by its least counterexample.
LEMMA BasesExist == ASSUME NEW p, NEW m \in Nat PROVE \E f : Bases(p, m, f)
<1> DEFINE Bad == {k \in Nat : ~\E f : Bases(p, k, f)}
<1>1. ASSUME Bad # {} PROVE FALSE
  <2>1. PICK k \in Bad : \A y \in Bad : k <= y
    BY <1>1, Least
  <2>2. PICK g : k # 0 => Bases(p, k - 1, g)
    <3>1. k # 0 => k - 1 \in Nat /\ k - 1 \notin Bad
      BY <2>1
    <3> QED
      BY <3>1
  <2> DEFINE f == [u \in 1..k |-> IF u = k THEN IF k = 1 THEN 0 ELSE g[k - 1] + Len(p.tasks[k - 1].chunks) ELSE g[u]]
  <2>3. ASSUME NEW u \in 1..k PROVE f[u] = IF u = 1 THEN 0 ELSE f[u - 1] + Len(p.tasks[u - 1].chunks)
    <3>1. CASE u = k
      <4>1. u # 1 => f[u - 1] = g[k - 1]
        BY <3>1
      <4> QED
        BY <3>1, <4>1
    <3>2. CASE u # k
      <4>1. u \in 1..(k - 1) /\ k # 0 /\ f[u] = g[u] /\ (u # 1 => f[u - 1] = g[u - 1])
        BY <3>2
      <4>2. g[u] = IF u = 1 THEN 0 ELSE g[u - 1] + Len(p.tasks[u - 1].chunks)
        BY <4>1, <2>2 DEF Bases
      <4> QED
        BY <4>1, <4>2
    <3> QED
      BY <3>1, <3>2
  <2>4. Bases(p, k, f)
    BY <2>3, Zenon DEF Bases
  <2> QED
    BY <2>1, <2>4
<1> QED
  BY <1>1

\* ChunkBase meets the equation that defines it.
LEMMA BaseIs ==
    ASSUME NEW p, Len(p.tasks) \in Nat
    PROVE  \A u \in 1..Len(p.tasks) :
             ChunkBase(p, u) = IF u = 1 THEN 0 ELSE ChunkBase(p, u - 1) + Len(p.tasks[u - 1].chunks)
<1> DEFINE f == CHOOSE f : Bases(p, Len(p.tasks), f)
<1>1. Bases(p, Len(p.tasks), f)
  BY BasesExist, Zenon
<1>2. \A u : ChunkBase(p, u) = f[u]
  BY Zenon DEF ChunkBase, Bases
<1> HIDE DEF f
<1>3. \A u \in 1..Len(p.tasks) : f[u] = IF u = 1 THEN 0 ELSE f[u - 1] + Len(p.tasks[u - 1].chunks)
  BY <1>1 DEF Bases
<1> QED
  BY <1>2, <1>3

\* A problem lists its tasks, and every task at least one chunk.
LEMMA ChunkLists ==
    ASSUME NEW p, IsProblem(p)
    PROVE  /\ Len(p.tasks) \in Nat /\ DOMAIN p.tasks = 1..Len(p.tasks) /\ DOMAIN p.tasks \subseteq Nat
           /\ \A t \in DOMAIN p.tasks :
                /\ Len(p.tasks[t].chunks) \in Nat \ {0}
                /\ DOMAIN p.tasks[t].chunks = 1..Len(p.tasks[t].chunks)
                /\ \A k \in DOMAIN p.tasks[t].chunks : k \in Nat /\ p.tasks[t].chunks[k] \in Nat \ {0}
<1>1. Len(p.tasks) \in Nat /\ DOMAIN p.tasks = 1..Len(p.tasks)
  BY DEF IsProblem
<1>2. ASSUME NEW t \in DOMAIN p.tasks
      PROVE  /\ Len(p.tasks[t].chunks) \in Nat \ {0}
             /\ DOMAIN p.tasks[t].chunks = 1..Len(p.tasks[t].chunks)
             /\ \A k \in DOMAIN p.tasks[t].chunks : k \in Nat /\ p.tasks[t].chunks[k] \in Nat \ {0}
  <2>1. p.tasks[t].chunks \in Seq(Nat \ {0}) /\ p.tasks[t].chunks # <<>>
    BY DEF IsProblem
  <2> QED
    BY <2>1
<1>3. DOMAIN p.tasks \subseteq Nat
  BY <1>1
<1> QED
  BY <1>1, <1>2, <1>3

\* The chunks of a task come after those of the tasks before it.
LEMMA BasesGrow ==
    ASSUME NEW p, IsProblem(p), NEW t \in DOMAIN p.tasks
    PROVE  /\ ChunkBase(p, t) \in Nat
           /\ \A u \in DOMAIN p.tasks :
                t < u => ChunkBase(p, u) \in Nat /\ ChunkBase(p, t) + Len(p.tasks[t].chunks) <= ChunkBase(p, u)
<1> DEFINE n == Len(p.tasks)
           base(u) == ChunkBase(p, u)
           len(u) == Len(p.tasks[u].chunks)
<1>0. n \in Nat /\ DOMAIN p.tasks = 1..n /\ t \in 1..n /\ \A u \in 1..n : len(u) \in Nat
  BY ChunkLists
<1>1. \A u \in 1..n : base(u) = IF u = 1 THEN 0 ELSE base(u - 1) + len(u - 1)
  BY <1>0, BaseIs
<1> HIDE DEF n, base, len
<1>2. \A u \in 1..n : base(u) \in Nat
  <2> DEFINE Bad == {u \in 1..n : base(u) \notin Nat}
  <2>1. ASSUME Bad # {} PROVE FALSE
    <3>0. Bad \subseteq Nat
      BY <1>0
    <3>1. PICK u \in Bad : \A y \in Bad : u <= y
      <4> HIDE DEF Bad
      <4> QED
        BY <2>1, <3>0, Least
    <3>2. u # 1 /\ u \in 1..n
      BY <1>1, <3>1
    <3>3. u - 1 \in 1..n /\ u - 1 \notin Bad
      BY <3>1, <3>2, <1>0
    <3>4. base(u - 1) \in Nat /\ len(u - 1) \in Nat
      BY <3>3, <1>0
    <3> QED
      BY <3>1, <3>2, <3>4, <1>1
  <2> QED
    BY <2>1
<1>3. \A u \in 1..n : t < u => base(t) + len(t) <= base(u)
  <2> DEFINE Bad == {u \in 1..n : t < u /\ ~(base(t) + len(t) <= base(u))}
  <2>1. ASSUME Bad # {} PROVE FALSE
    <3>0. Bad \subseteq Nat
      BY <1>0
    <3>1. PICK u \in Bad : \A y \in Bad : u <= y
      <4> HIDE DEF Bad
      <4> QED
        BY <2>1, <3>0, Least
    <3>2. u \in 1..n /\ t < u /\ u # 1 /\ base(u) = base(u - 1) + len(u - 1) /\ u - 1 \in 1..n
      BY <3>1, <1>0, <1>1
    <3>3. base(u - 1) \in Nat /\ len(u - 1) \in Nat /\ base(t) \in Nat /\ len(t) \in Nat
      BY <3>2, <1>0, <1>2
    <3>4. CASE u - 1 = t
      BY <3>1, <3>2, <3>3, <3>4
    <3>5. CASE u - 1 # t
      <4>1. u - 1 \notin Bad
        BY <3>1, <3>2
      <4>2. base(t) + len(t) <= base(u - 1)
        BY <4>1, <3>2, <3>5, <1>0
      <4> QED
        BY <3>1, <3>2, <3>3, <4>2
    <3> QED
      BY <3>4, <3>5
  <2> QED
    BY <2>1
<1> QED
  BY <1>0, <1>2, <1>3 DEF n, base, len

\* A chunk number tells its task.
LEMMA TaskOfIs ==
    ASSUME NEW p, IsProblem(p), NEW t \in DOMAIN p.tasks, NEW c \in ChunksOf(p, t)
    PROVE  /\ TaskOf(p, c) = t
           /\ c - ChunkBase(p, t) \in DOMAIN p.tasks[t].chunks
           /\ Length(p, c) = p.tasks[t].chunks[c - ChunkBase(p, t)] /\ Length(p, c) \in Nat \ {0}
           /\ c \in Nat /\ FirstOf(p, t) \in Nat
<1>0. \A u \in DOMAIN p.tasks : u \in Nat /\ ChunkBase(p, u) \in Nat
  BY BasesGrow, ChunkLists
<1>1. \A u \in DOMAIN p.tasks : c \in ChunksOf(p, u) => u = t
  <2> SUFFICES ASSUME NEW u \in DOMAIN p.tasks, c \in ChunksOf(p, u), u # t PROVE FALSE
    OBVIOUS
  <2>1. PICK k \in DOMAIN p.tasks[t].chunks : c = ChunkBase(p, t) + k
    BY DEF ChunksOf
  <2>2. PICK j \in DOMAIN p.tasks[u].chunks : c = ChunkBase(p, u) + j
    BY DEF ChunksOf
  <2>3. /\ k \in 1..Len(p.tasks[t].chunks) /\ Len(p.tasks[t].chunks) \in Nat
        /\ j \in 1..Len(p.tasks[u].chunks) /\ Len(p.tasks[u].chunks) \in Nat
    BY ChunkLists
  <2>4. t < u => ChunkBase(p, t) + Len(p.tasks[t].chunks) <= ChunkBase(p, u)
    BY BasesGrow
  <2>5. u < t => ChunkBase(p, u) + Len(p.tasks[u].chunks) <= ChunkBase(p, t)
    BY BasesGrow
  <2>6. /\ t \in Nat /\ u \in Nat /\ ChunkBase(p, t) \in Nat /\ ChunkBase(p, u) \in Nat
        /\ k \in Nat /\ j \in Nat /\ 1 <= k /\ 1 <= j
        /\ k <= Len(p.tasks[t].chunks) /\ j <= Len(p.tasks[u].chunks)
    BY <1>0, <2>3
  <2>7. ChunkBase(p, t) + k = ChunkBase(p, u) + j
    BY <2>1, <2>2
  <2>8. CASE t < u
    BY <2>3, <2>4, <2>6, <2>7, <2>8
  <2>9. CASE u < t
    BY <2>3, <2>5, <2>6, <2>7, <2>9
  <2> QED
    BY <2>6, <2>8, <2>9
<1>2. TaskOf(p, c) = t
  BY <1>1 DEF TaskOf
<1>3. PICK k \in DOMAIN p.tasks[t].chunks : c = ChunkBase(p, t) + k
  BY DEF ChunksOf
<1>4. k \in Nat /\ p.tasks[t].chunks[k] \in Nat \ {0}
  BY ChunkLists
<1>5. c - ChunkBase(p, t) = k
  BY <1>0, <1>3, <1>4
<1> QED
  BY <1>0, <1>2, <1>3, <1>4, <1>5 DEF Length, FirstOf

-----------------------------------------------------------------------------
(* The starts of a chunk.                                                  *)

\* A greatest lies below n when all do.
LEMMA MaxBelow ==
    ASSUME NEW S, S \subseteq Int, S # {}, NEW b \in Int, \A x \in S : x <= b, NEW n \in Int
    PROVE  MaxOf(S) \in Int /\ (MaxOf(S) <= n <=> \A x \in S : x <= n)
<1>1. MaxOf(S) \in S /\ \A x \in S : x <= MaxOf(S)
  BY MaxIs
<1>2. MaxOf(S) \in Int /\ \A x \in S : x \in Int
  BY <1>1
<1> QED
  BY <1>1, <1>2

\* A least lies above n when all do.
LEMMA MinAbove ==
    ASSUME NEW S, S \subseteq Int, S # {}, NEW b \in Int, \A x \in S : b <= x, NEW n \in Int
    PROVE  MinOf(S) \in Int /\ (n <= MinOf(S) <=> \A x \in S : n <= x)
<1>1. MinOf(S) \in S /\ \A x \in S : MinOf(S) <= x
  BY MinIs
<1>2. MinOf(S) \in Int /\ \A x \in S : x \in Int
  BY <1>1
<1> QED
  BY <1>1, <1>2

\* A few integers with at most one more, or at most two.
LEMMA FewBounded ==
    ASSUME NEW S, NEW T, NEW a \in Int, NEW b \in Int, S \subseteq Int, T \subseteq Int,
           \A x, y \in S : x = y, \A x, y \in T : x = y
    PROVE  /\ \E n \in Int : \A x \in {a, b} \cup S \cup T : x <= n
           /\ \E n \in Int : \A x \in {a, b} \cup S \cup T : n <= x
<1>1. PICK s \in Int : S \subseteq {s}
  <2>1. CASE S = {}
    BY <2>1
  <2>2. CASE S # {}
    <3>1. PICK s \in S : TRUE
      BY <2>2
    <3> QED
      BY <3>1
  <2> QED
    BY <2>1, <2>2
<1>2. PICK t \in Int : T \subseteq {t}
  <2>1. CASE T = {}
    BY <2>1
  <2>2. CASE T # {}
    <3>1. PICK t \in T : TRUE
      BY <2>2
    <3> QED
      BY <3>1
  <2> QED
    BY <2>1, <2>2
<1>3. \E n \in Int : a <= n /\ b <= n /\ s <= n /\ t <= n
  <2>1. PICK m \in {a, b} : a <= m /\ b <= m
    OBVIOUS
  <2>2. PICK k \in {s, t} : s <= k /\ t <= k
    OBVIOUS
  <2>3. m \in Int /\ k \in Int /\ (m <= k \/ k <= m)
    OBVIOUS
  <2> QED
    BY <2>1, <2>2, <2>3
<1>4. \E n \in Int : n <= a /\ n <= b /\ n <= s /\ n <= t
  <2>1. PICK m \in {a, b} : m <= a /\ m <= b
    OBVIOUS
  <2>2. PICK k \in {s, t} : k <= s /\ k <= t
    OBVIOUS
  <2>3. m \in Int /\ k \in Int /\ (m <= k \/ k <= m)
    OBVIOUS
  <2> QED
    BY <2>1, <2>2, <2>3
<1>5. {a, b} \cup S \cup T \subseteq {a, b, s, t}
  BY <1>1, <1>2
<1> QED
  BY <1>3, <1>4, <1>5

\* Two integers with at most one more have a bound.
LEMMA FewAbove ==
    ASSUME NEW S, NEW a \in Int, NEW b \in Int, S \subseteq Int, \A x, y \in S : x = y
    PROVE  \E n \in Int : \A x \in {a, b} \cup S : x <= n
<1>1. PICK n \in Int : \A x \in {a, b} \cup S \cup {} : x <= n
  BY FewBounded, Zenon
<1> QED
  BY <1>1, Zenon

\* The window ends at a number.
LEMMA HorizonNat == ASSUME NEW p, IsProblem(p) PROVE p.horizon \in Int
  BY DEF IsProblem

\* The fixed pin of a chunk, the last ends hard deadlines leave it.
PinOf(p, t, first) == IF first THEN p.tasks[t].pin ELSE {}
\* The ends that hard deadlines set a task.
HardAt(p, t) == {e.at : e \in {f \in p.tasks[t].deadline : f.hard}}

\* A task has at most one pin and one hard deadline.
LEMMA PinsAndDeadlines ==
    ASSUME NEW p, IsProblem(p), NEW t \in DOMAIN p.tasks, NEW first, NEW d \in Nat
    PROVE  /\ PinOf(p, t, first) \subseteq Int /\ \A x, y \in PinOf(p, t, first) : x = y
           /\ {h - d : h \in HardAt(p, t)} \subseteq Int /\ \A x, y \in {h - d : h \in HardAt(p, t)} : x = y
           /\ HardAt(p, t) \subseteq Int /\ p.tasks[t].earliest \in Int
<1>1. /\ p.tasks[t].pin \subseteq Int /\ \A x, y \in p.tasks[t].pin : x = y
      /\ p.tasks[t].earliest \in Int
  BY DEF IsProblem
<1>2. /\ \A e \in p.tasks[t].deadline : e.at \in Int
      /\ \A e, f \in p.tasks[t].deadline : e = f
  BY DEF IsProblem
<1>3. HardAt(p, t) \subseteq Int /\ \A x, y \in HardAt(p, t) : x = y
  BY <1>2 DEF HardAt
<1> QED
  BY <1>1, <1>3 DEF PinOf

\* What the bounds of the range come to, whichever solver writes them.
InRange(p, t, first, d, s) ==
  /\ s \in Int /\ 0 <= s /\ p.tasks[t].earliest <= s /\ s <= p.horizon - d
  /\ \A q \in PinOf(p, t, first) : s = q
  /\ \A h \in HardAt(p, t) : s <= h - d

\* The fast model's range of starts (placements.py).
LEMMA FastRange ==
    ASSUME NEW p, IsProblem(p), NEW t \in DOMAIN p.tasks, NEW first, NEW d \in Nat, NEW s
    PROVE  s \in MaxOf({0, p.tasks[t].earliest} \cup PinOf(p, t, first))
                   ..MinOf({p.horizon - d} \cup PinOf(p, t, first) \cup {h - d : h \in HardAt(p, t)})
             <=> InRange(p, t, first, d, s)
<1>p. /\ PinOf(p, t, first) \subseteq Int /\ \A x, y \in PinOf(p, t, first) : x = y
      /\ HardAt(p, t) \subseteq Int /\ p.tasks[t].earliest \in Int
  BY PinsAndDeadlines
<1>d. /\ {h - d : h \in HardAt(p, t)} \subseteq Int
      /\ \A x, y \in {h - d : h \in HardAt(p, t)} : x = y
  BY PinsAndDeadlines
<1> DEFINE pin == PinOf(p, t, first)
           last == {h - d : h \in HardAt(p, t)}
           lo == {0, p.tasks[t].earliest} \cup pin
           hi == {p.horizon - d} \cup pin \cup last
<1>1. /\ pin \subseteq Int /\ \A x, y \in pin : x = y
      /\ last \subseteq Int /\ \A x, y \in last : x = y
      /\ HardAt(p, t) \subseteq Int /\ p.tasks[t].earliest \in Int /\ p.horizon - d \in Int
  <2>1. p.horizon \in Int
    BY HorizonNat
  <2>2. p.horizon - d \in Int
    BY <2>1
  <2>3. /\ pin \subseteq Int /\ \A x, y \in pin : x = y
        /\ last \subseteq Int /\ \A x, y \in last : x = y
        /\ HardAt(p, t) \subseteq Int /\ p.tasks[t].earliest \in Int
    BY <1>p, <1>d
  <2> QED
    BY <2>2, <2>3
<1>q. \A x \in HardAt(p, t) : x - d \in last
  OBVIOUS
<1>r. \A x \in last : \E h \in HardAt(p, t) : x = h - d
  OBVIOUS
<1> HIDE DEF pin, last
<1>2. PICK a \in Int : \A x \in {0, p.tasks[t].earliest} \cup pin : x <= a
  <2>1. 0 \in Int /\ p.tasks[t].earliest \in Int /\ pin \subseteq Int /\ \A x, y \in pin : x = y
    BY <1>1
  <2> QED
    BY <2>1, FewAbove, Zenon
<1>3. PICK b \in Int : \A x \in {p.horizon - d, p.horizon - d} \cup pin \cup last : b <= x
  <2>1. PICK h \in Int : h = p.horizon - d
    BY <1>1
  <2>2. PICK b \in Int : \A x \in {h, h} \cup pin \cup last : b <= x
    <3>1. /\ pin \subseteq Int /\ \A x, y \in pin : x = y
          /\ last \subseteq Int /\ \A x, y \in last : x = y
      BY <1>1
    <3> QED
      BY <3>1, FewBounded, ZenonT(60)
  <2> QED
    BY <2>1, <2>2
<1>4. lo \subseteq Int /\ lo # {} /\ \A x \in lo : x <= a
  <2>1. lo # {}
    OBVIOUS
  <2>2. lo \subseteq Int
    <3>1. p.tasks[t].earliest \in Int /\ pin \subseteq Int
      BY <1>1
    <3>2. 0 \in Int
      OBVIOUS
    <3> QED
      BY <3>1, <3>2, Zenon
  <2>3. \A x \in lo : x <= a
    BY <1>2
  <2> QED
    BY <2>1, <2>2, <2>3
<1>5. hi \subseteq Int /\ hi # {} /\ \A x \in hi : b <= x
  BY <1>1, <1>3
<1>6. ASSUME s \in Int PROVE s \in MaxOf(lo)..MinOf(hi) <=> InRange(p, t, first, d, s)
  <2>1. MaxOf(lo) \in Int /\ (MaxOf(lo) <= s <=> \A x \in lo : x <= s)
    <3> HIDE DEF lo
    <3> QED
      BY <1>4, <1>6, MaxBelow
  <2>2. MinOf(hi) \in Int /\ (s <= MinOf(hi) <=> \A x \in hi : s <= x)
    <3> HIDE DEF hi
    <3> QED
      BY <1>5, <1>6, MinAbove
  <2>3. s \in MaxOf(lo)..MinOf(hi) <=> (\A x \in lo : x <= s) /\ \A x \in hi : s <= x
    <3> HIDE DEF lo, hi
    <3> QED
      BY <2>1, <2>2, <1>6
  <2>4. (\A x \in lo : x <= s) <=> 0 <= s /\ p.tasks[t].earliest <= s /\ \A q \in pin : q <= s
    OBVIOUS
  <2>5. (\A x \in hi : s <= x) <=> s <= p.horizon - d /\ (\A q \in pin : s <= q) /\ \A h \in HardAt(p, t) : s <= h - d
    BY <1>q, <1>r
  <2>6. (\A q \in pin : q <= s) /\ (\A q \in pin : s <= q) <=> \A q \in pin : s = q
    BY <1>1, <1>6
  <2> QED
    BY <2>3, <2>4, <2>5, <2>6, <1>6 DEF InRange, pin
<1>7. s \in MaxOf(lo)..MinOf(hi) => s \in Int
  <2> HIDE DEF lo, hi
  <2> QED
    OBVIOUS
<1>8. InRange(p, t, first, d, s) => s \in Int
  BY DEF InRange
<1> QED
  BY <1>6, <1>7, <1>8 DEF pin, last

\* The rest of what a start is asked: hours, windows, a mask.
FitsDay(p, w, d, s) ==
  /\ Weekday(Date(p, s)) \in w.days /\ Tod(p, s) >= w.from
  /\ Tod(p, s) + d <= w.to /\ Tod(p, s) + d <= SlotsPerDay

\* The hours a task keeps to, its hard windows and its mask.
FitsWindows(p, t, d, s) ==
  /\ FastHours(p, t) => \A h \in p.hours : FitsDay(p, h, d, s)
  /\ \A w \in p.tasks[t].windows : w.hard => FitsDay(p, w, d, s)
  /\ p.tasks[t].avail # {} => \E w \in p.tasks[t].avail : w.from <= s /\ s + d <= w.to

\* What a start of the fast model is, condition by condition.
LEMMA FastStartsMean ==
    ASSUME NEW p, IsProblem(p), NEW t \in DOMAIN p.tasks, NEW c \in ChunksOf(p, t), NEW s
    PROVE  s \in FastStarts(p, c) <=>
             InRange(p, t, c = FirstOf(p, t), Length(p, c), s) /\ FitsWindows(p, t, Length(p, c), s)
<1> DEFINE d == Length(p, c)
           pin == PinOf(p, t, c = FirstOf(p, t))
           hard == HardAt(p, t)
           range == MaxOf({0, p.tasks[t].earliest} \cup pin)
                      ..MinOf({p.horizon - d} \cup pin \cup {h - d : h \in hard})
<1>1. TaskOf(p, c) = t /\ d \in Nat
  BY TaskOfIs
<1>2. s \in range <=> InRange(p, t, c = FirstOf(p, t), d, s)
  BY <1>1, FastRange
<1>3. FastStarts(p, c) = {r \in range : FitsWindows(p, t, d, r)}
  BY <1>1, Zenon DEF FastStarts, FitsWindows, FitsDay, PinOf, HardAt
<1> QED
  BY <1>2, <1>3

\* The engine's domain of a chunk (substrate.ts) is the fast model's
\* (placements.py), whatever the task asks.
THEOREM SameStarts ==
    ASSUME NEW p, IsProblem(p), NEW t \in DOMAIN p.tasks, NEW i \in DOMAIN p.tasks[t].chunks
    PROVE  AllowedStarts(p, p.tasks[t], i) = FastStarts(p, ChunkBase(p, t) + i)
<1> DEFINE c == ChunkBase(p, t) + i
           task == p.tasks[t]
           d == task.chunks[i]
           first == c = FirstOf(p, t)
           pin == PinOf(p, t, first)
<1>1. c \in ChunksOf(p, t)
  BY DEF ChunksOf
<1>2. ChunkBase(p, t) \in Nat /\ i \in Nat /\ c - ChunkBase(p, t) = i /\ (first <=> i = 1)
  BY BasesGrow, ChunkLists DEF FirstOf
<1>3. Length(p, c) = d /\ d \in Nat
  BY <1>1, <1>2, TaskOfIs
<1>4. Earliest(task) = MaxOf({0, task.earliest})
  BY DEF Earliest
<1>5. /\ pin \subseteq Int /\ \A x, y \in pin : x = y
      /\ task.earliest \in Int
  BY <1>3, PinsAndDeadlines
<1>6. \A n \in Int : MaxOf({Earliest(task)} \cup pin) \in Int
                     /\ (MaxOf({Earliest(task)} \cup pin) <= n <=> MaxOf({0, task.earliest} \cup pin) <= n)
  <2> DEFINE few == {0, task.earliest}
             lo == {Earliest(task)} \cup pin
             all == {0, task.earliest} \cup pin
  <2> HIDE DEF pin
  <2>1. PICK b \in Int : \A x \in {0, task.earliest} \cup pin : x <= b
    <3>1. 0 \in Int /\ task.earliest \in Int /\ pin \subseteq Int /\ \A x, y \in pin : x = y
      BY <1>5
    <3> QED
      BY <3>1, FewAbove, Zenon
  <2>a. few \subseteq Int
    BY <1>5
  <2>b. all = few \cup pin /\ 0 \in few
    OBVIOUS
  <2>2. few \subseteq Int /\ all \subseteq Int /\ 0 \in few /\ 0 \in all /\ few \subseteq all
    <3> HIDE DEF few, all
    <3> QED
      BY <1>5, <2>a, <2>b
  <2>3. \A x \in all : x <= b
    BY <2>1
  <2>4. Earliest(task) \in few /\ \A x \in few : x <= Earliest(task)
    <3> HIDE DEF few, all
    <3> QED
      BY <2>2, <2>3, <1>4, MaxIs DEF few
  <2>5. lo \subseteq Int /\ lo # {} /\ \A x \in lo : x <= b
    BY <2>2, <2>3, <2>4, <1>5
  <2>6. ASSUME NEW n \in Int
        PROVE  /\ MaxOf(lo) \in Int /\ (MaxOf(lo) <= n <=> \A x \in lo : x <= n)
               /\ MaxOf(all) \in Int /\ (MaxOf(all) <= n <=> \A x \in all : x <= n)
    <3> HIDE DEF lo, all
    <3> QED
      BY <2>2, <2>3, <2>5, MaxBelow
  <2>7. ASSUME NEW n \in Int PROVE (\A x \in lo : x <= n) <=> \A x \in all : x <= n
    <3>1. (\A x \in few : x <= n) <=> Earliest(task) <= n
      BY <2>2, <2>4
    <3> QED
      BY <3>1
  <2> QED
    BY <2>6, <2>7
<1>7. {x.at - d : x \in {y \in task.deadline : y.hard}} = {h - d : h \in HardAt(p, t)}
  BY DEF HardAt
<1>8. UsesHours(p, task) <=> FastHours(p, t)
  BY DEF UsesHours, FastHours, HardWindows
<1>9. ASSUME NEW s \in Int, NEW w PROVE Inside(p, w, s, d) <=> FitsDay(p, w, d, s)
  <2>1. Tod(p, s) \in Int
    BY ClockAssumption DEF Tod, IsProblem
  <2> QED
    BY <2>1, <1>3, ClockAssumption DEF Inside, FitsDay, CrossesMidnight
<1>10. ASSUME NEW s
       PROVE  s \in AllowedStarts(p, task, i) <=>
                /\ s \in MaxOf({Earliest(task)} \cup pin)
                           ..MinOf({p.horizon - d} \cup pin \cup {h - d : h \in HardAt(p, t)})
                /\ FitsWindows(p, t, d, s)
  <2>1. pin = IF i = 1 THEN task.pin ELSE {}
    BY <1>2 DEF PinOf
  <2>2. s \in Int => /\ (UsesHours(p, task) => \A h \in p.hours : Inside(p, h, s, d))
                          <=> (FastHours(p, t) => \A h \in p.hours : FitsDay(p, h, d, s))
                     /\ (\A w \in HardWindows(task) : Inside(p, w, s, d))
                          <=> \A w \in task.windows : w.hard => FitsDay(p, w, d, s)
    BY <1>8, <1>9 DEF HardWindows
  <2>3. s \in AllowedStarts(p, task, i) <=>
          /\ s \in MaxOf({Earliest(task)} \cup pin)
                     ..MinOf({p.horizon - d} \cup pin \cup {h - d : h \in HardAt(p, t)})
          /\ UsesHours(p, task) => \A h \in p.hours : Inside(p, h, s, d)
          /\ \A w \in HardWindows(task) : Inside(p, w, s, d)
          /\ task.avail # {} => \E w \in task.avail : w.from <= s /\ s + d <= w.to
    BY <2>1, <1>7, Zenon DEF AllowedStarts, AllowedStartsWhen
  <2>4. s \in MaxOf({Earliest(task)} \cup pin)
                ..MinOf({p.horizon - d} \cup pin \cup {h - d : h \in HardAt(p, t)}) => s \in Int
    OBVIOUS
  <2> QED
    BY <2>2, <2>3, <2>4 DEF FitsWindows
<1>11. ASSUME NEW s
       PROVE  s \in MaxOf({Earliest(task)} \cup pin)
                      ..MinOf({p.horizon - d} \cup pin \cup {h - d : h \in HardAt(p, t)})
                <=> InRange(p, t, first, d, s)
  <2> DEFINE top == MinOf({p.horizon - d} \cup pin \cup {h - d : h \in HardAt(p, t)})
             lo == MaxOf({Earliest(task)} \cup pin)
             other == MaxOf({0, task.earliest} \cup pin)
  <2>1. s \in other..top <=> InRange(p, t, first, d, s)
    BY <1>3, FastRange
  <2>2. s \in Int => (lo <= s <=> other <= s)
    BY <1>6
  <2> HIDE DEF top, lo, other
  <2>3. s \in lo..top <=> s \in other..top
    BY <2>2
  <2> QED
    BY <2>1, <2>3 DEF top, lo, other
<1>12. ASSUME NEW s PROVE s \in AllowedStarts(p, task, i) <=> s \in FastStarts(p, c)
  <2>1. s \in FastStarts(p, c) <=> InRange(p, t, first, d, s) /\ FitsWindows(p, t, d, s)
    BY <1>1, <1>3, FastStartsMean
  <2> QED
    BY <2>1, <1>10, <1>11
<1>13. \A s : s \in AllowedStarts(p, task, i) <=> s \in FastStarts(p, c)
  BY <1>12
<1> HIDE DEF c, task
<1>14. AllowedStarts(p, task, i) = FastStarts(p, c)
  BY <1>13
<1> QED
  BY <1>14 DEF c, task

-----------------------------------------------------------------------------
(* Placements, task by task.                                               *)

\* The placements of the tasks up to n, from those of the tasks before n.
JoinStep(p, K, fitting, n, prev) ==
  IF n = 0 THEN {x \in {<<>>} : NoOverlap(p, x)}
  ELSE IF n \in K THEN Beside(p, prev, fitting[n]) ELSE prev

\* f lists them task by task.
JoinedSteps(p, K, fitting, m, f) == f = [n \in 0..m |-> JoinStep(p, K, fitting, n, f[n - 1])]

\* Such a list exists, by its least counterexample.
LEMMA JoinedStepsExist ==
    ASSUME NEW p, NEW K, NEW fitting, NEW m \in Nat
    PROVE  \E f : JoinedSteps(p, K, fitting, m, f)
<1> DEFINE Bad == {k \in Nat : ~\E f : JoinedSteps(p, K, fitting, k, f)}
<1>1. ASSUME Bad # {} PROVE FALSE
  <2>1. PICK k \in Bad : \A y \in Bad : k <= y
    BY <1>1, Least
  <2>2. PICK g : k # 0 => JoinedSteps(p, K, fitting, k - 1, g)
    <3>1. k # 0 => k - 1 \in Nat /\ k - 1 \notin Bad
      BY <2>1
    <3> QED
      BY <3>1
  <2> DEFINE f == [n \in 0..k |-> IF n = k THEN JoinStep(p, K, fitting, k, g[k - 1]) ELSE g[n]]
  <2>3. ASSUME NEW n \in 0..k PROVE f[n] = JoinStep(p, K, fitting, n, f[n - 1])
    <3>1. CASE n = 0
      <4>1. JoinStep(p, K, fitting, 0, g[0 - 1]) = JoinStep(p, K, fitting, 0, f[0 - 1])
        BY Zenon DEF JoinStep
      <4>2. k # 0 => g[0] = JoinStep(p, K, fitting, 0, g[0 - 1])
        BY <2>2 DEF JoinedSteps
      <4> QED
        BY <3>1, <4>1, <4>2
    <3>2. CASE n # 0 /\ n = k
      <4>1. f[n - 1] = g[k - 1]
        BY <3>2
      <4> QED
        BY <3>2, <4>1
    <3>3. CASE n # 0 /\ n # k
      <4>1. n \in 0..(k - 1) /\ k # 0 /\ f[n - 1] = g[n - 1] /\ f[n] = g[n]
        BY <3>3
      <4> QED
        BY <4>1, <2>2 DEF JoinedSteps
    <3> QED
      BY <3>1, <3>2, <3>3
  <2>4. JoinedSteps(p, K, fitting, k, f)
    BY <2>3, Zenon DEF JoinedSteps
  <2> QED
    BY <2>1, <2>4
<1> QED
  BY <1>1

\* Joined meets the equation that defines it.
LEMMA JoinedIs ==
    ASSUME NEW p, NEW K, NEW fitting, Len(p.tasks) \in Nat
    PROVE  \E f : /\ \A n \in 0..Len(p.tasks) : f[n] = JoinStep(p, K, fitting, n, f[n - 1])
                  /\ Joined(p, K, fitting) = f[Len(p.tasks)]
<1> DEFINE f == CHOOSE f : JoinedSteps(p, K, fitting, Len(p.tasks), f)
<1>1. JoinedSteps(p, K, fitting, Len(p.tasks), f)
  BY JoinedStepsExist, Zenon
<1>2. Joined(p, K, fitting) = f[Len(p.tasks)]
  BY Zenon DEF Joined, JoinedSteps, JoinStep
<1> HIDE DEF f
<1>3. \A n \in 0..Len(p.tasks) : f[n] = JoinStep(p, K, fitting, n, f[n - 1])
  BY <1>1 DEF JoinedSteps
<1> QED
  BY <1>2, <1>3

\* More starts and more placements before it, more placements with one task more.
LEMMA BesideGrows ==
    ASSUME NEW p, NEW X, NEW Y, NEW V, NEW U, X \subseteq V, Y \subseteq U
    PROVE  Beside(p, X, Y) \subseteq Beside(p, V, U)
<1> DEFINE few == {x @@ y : x \in X, y \in Y}
           many == {x @@ y : x \in V, y \in U}
<1>1. few \subseteq many
  OBVIOUS
<1>2. Beside(p, X, Y) = {z \in few : NoOverlap(p, z)} /\ Beside(p, V, U) = {z \in many : NoOverlap(p, z)}
  BY DEF Beside
<1> HIDE DEF few, many
<1> QED
  BY <1>1, <1>2, Zenon

\* More starts that fit, more placements.
LEMMA JoinedGrows ==
    ASSUME NEW p, Len(p.tasks) \in Nat, NEW K, NEW few, NEW many, \A t \in K : few[t] \subseteq many[t]
    PROVE  Joined(p, K, few) \subseteq Joined(p, K, many)
<1> DEFINE m == Len(p.tasks)
<1>1. PICK f : /\ \A n \in 0..m : f[n] = JoinStep(p, K, few, n, f[n - 1])
               /\ Joined(p, K, few) = f[m]
  BY JoinedIs
<1>2. PICK g : /\ \A n \in 0..m : g[n] = JoinStep(p, K, many, n, g[n - 1])
               /\ Joined(p, K, many) = g[m]
  BY JoinedIs
<1> HIDE DEF m
<1>3. m \in Nat
  BY DEF m
<1> DEFINE Bad == {n \in 0..m : ~(f[n] \subseteq g[n])}
<1>4. ASSUME Bad # {} PROVE FALSE
  <2>0. Bad \subseteq Nat
    BY <1>3
  <2>1. PICK n \in Bad : \A y \in Bad : n <= y
    <3> HIDE DEF Bad
    <3> QED
      BY <1>4, <2>0, Least
  <2>2. f[n] = JoinStep(p, K, few, n, f[n - 1]) /\ g[n] = JoinStep(p, K, many, n, g[n - 1])
    BY <1>1, <1>2, <2>1
  <2>3. n # 0
    BY <2>1, <2>2 DEF JoinStep
  <2>4. n - 1 \in 0..m /\ n - 1 \notin Bad
    BY <2>1, <2>3, <1>3
  <2>5. f[n - 1] \subseteq g[n - 1]
    BY <2>4
  <2>6. CASE n \in K
    <3>1. Beside(p, f[n - 1], few[n]) \subseteq Beside(p, g[n - 1], many[n])
      BY <2>5, <2>6, BesideGrows
    <3> QED
      BY <2>1, <2>2, <2>3, <2>6, <3>1 DEF JoinStep
  <2>7. CASE n \notin K
    BY <2>1, <2>2, <2>3, <2>5, <2>7 DEF JoinStep
  <2> QED
    BY <2>6, <2>7
<1> QED
  BY <1>1, <1>2, <1>3, <1>4

\* Fewer assumptions, more placements (model.py: every constraint is enforced
\* by its literal alone).
LEMMA FewerLiterals ==
    ASSUME NEW p, IsProblem(p), NEW A, NEW C, C \subseteq A, NEW K, K \subseteq DOMAIN p.tasks
    PROVE  Placements(p, A, K) \subseteq Placements(p, C, K)
<1>1. ASSUME NEW t PROVE Suitable(p, A, t) \subseteq Suitable(p, C, t)
  BY DEF Suitable, Pinned, GroupPolicy, HardDeadline, EarliestStart, PreferredWindows,
         AvailabilityWindows, BusinessHours
<1>2. ASSUME NEW t, Floats(p, A, t) PROVE Floats(p, C, t)
  BY <1>2 DEF Floats, GroupPolicy
<1>3. ASSUME NEW t, NEW x, Dependencies(p, A, K, t, x) PROVE Dependencies(p, C, K, t, x)
  BY <1>3, Zenon DEF Dependencies
<1> DEFINE few == [t \in K |-> Suitable(p, A, t)]
           many == [t \in K |-> Suitable(p, C, t)]
<1>4. \A t \in K : few[t] \subseteq many[t]
  BY <1>1
<1> HIDE DEF few, many
<1>5. Joined(p, K, few) \subseteq Joined(p, K, many)
  BY <1>4, ChunkLists, JoinedGrows
<1>6. ASSUME NEW x \in Placements(p, A, K) PROVE x \in Placements(p, C, K)
  <2>1. /\ \A t \in (DOMAIN p.tasks) \ K : Floats(p, A, t)
        /\ x \in Joined(p, K, few)
        /\ \A t \in K : Dependencies(p, A, K, t, x)
    BY <1>6, Zenon DEF Placements, few
  <2> QED
    BY <2>1, <1>2, <1>3, <1>5, Zenon DEF Placements, many
<1> QED
  BY <1>6

\* Starts the fast model allows a task's chunks satisfy every constraint the
\* reference model has on the task.
LEMMA FastSuits ==
    ASSUME NEW p, IsProblem(p), NEW t \in DOMAIN p.tasks
    PROVE  FastSuitable(p, t) \subseteq Suitable(p, Literals(p), t)
<1> SUFFICES ASSUME NEW x \in FastSuitable(p, t) PROVE x \in Suitable(p, Literals(p), t)
  OBVIOUS
<1>1. /\ DOMAIN x = ChunksOf(p, t) /\ x = [c \in ChunksOf(p, t) |-> x[c]]
      /\ \A c \in ChunksOf(p, t) : x[c] \in FastStarts(p, c)
      /\ GroupPolicy(p, Literals(p), t, x)
  BY DEF FastSuitable
<1>2. ASSUME NEW c \in ChunksOf(p, t)
      PROVE  /\ InRange(p, t, c = FirstOf(p, t), Length(p, c), x[c])
             /\ FitsWindows(p, t, Length(p, c), x[c])
             /\ Length(p, c) \in Nat \ {0} /\ p.horizon \in Int
  BY <1>1, FastStartsMean, TaskOfIs, HorizonNat
<1>3. ASSUME NEW c \in ChunksOf(p, t)
      PROVE  /\ x[c] \in Int /\ 0 <= x[c] /\ x[c] + Length(p, c) <= p.horizon
             /\ x[c] \in 0..(p.horizon - 1)
             /\ p.tasks[t].earliest <= x[c]
             /\ c = FirstOf(p, t) => \A q \in p.tasks[t].pin : x[c] = q
             /\ \A d \in p.tasks[t].deadline : d.hard => x[c] + Length(p, c) <= d.at
  <2>1. x[c] \in Int /\ Length(p, c) \in Nat \ {0} /\ p.horizon \in Int
    BY <1>2 DEF InRange
  <2>2. \A d \in p.tasks[t].deadline : d.at \in Int /\ (d.hard => d.at \in HardAt(p, t))
    BY DEF IsProblem, HardAt
  <2>3. \A d \in p.tasks[t].deadline : d.hard => x[c] <= d.at - Length(p, c)
    BY <1>2, <2>2 DEF InRange
  <2>4. \A d \in p.tasks[t].deadline : d.hard => x[c] + Length(p, c) <= d.at
    BY <2>1, <2>2, <2>3
  <2> QED
    BY <2>1, <2>4, <1>2 DEF InRange, PinOf
<1> DEFINE A == Literals(p)
<1>4. x \in Starts(p, t)
  <2>1. x \in [ChunksOf(p, t) -> 0..(p.horizon - 1)]
    BY <1>1, <1>3
  <2> QED
    BY <2>1, <1>3 DEF Starts, End
<1>5. Pinned(p, A, t, x)
  <2>1. FirstOf(p, t) \in ChunksOf(p, t)
    BY ChunkLists DEF FirstOf, ChunksOf
  <2> QED
    BY <1>3, <2>1 DEF Pinned
<1>6. HardDeadline(p, A, t, x)
  BY <1>3 DEF HardDeadline, End
<1>7. EarliestStart(p, A, t, x)
  BY <1>3, <1>2 DEF EarliestStart
<1>8. ASSUME NEW c \in ChunksOf(p, t), NEW w, FitsDay(p, w, Length(p, c), x[c]) PROVE Within(p, w, x, c)
  BY <1>8 DEF FitsDay, Within
<1>9. PreferredWindows(p, A, t, x)
  BY <1>2, <1>8 DEF PreferredWindows, FitsWindows
<1>10. AvailabilityWindows(p, A, t, x)
  BY <1>2 DEF AvailabilityWindows, FitsWindows, End
<1>11. BusinessHours(p, A, t, x)
  <2> SUFFICES ASSUME p.tasks[t].pin = {}, p.tasks[t].avail = {}, \A w \in p.tasks[t].windows : ~w.hard,
                      NEW h \in p.hours, NEW c \in ChunksOf(p, t)
               PROVE  Within(p, h, x, c)
    BY DEF BusinessHours
  <2>1. FastHours(p, t)
    BY DEF FastHours
  <2>2. FitsDay(p, h, Length(p, c), x[c])
    BY <1>2, <2>1 DEF FitsWindows
  <2> QED
    BY <1>8, <2>2
<1> HIDE DEF A
<1>12. GroupPolicy(p, A, t, x)
  BY <1>1 DEF A
<1> QED
  BY <1>4, <1>5, <1>6, <1>7, <1>9, <1>10, <1>11, <1>12, Zenon DEF Suitable, A

\* The fast model plans only what the reference model allows, when the tasks it
\* drops fit the window (fast_model.py and placements.py against model.py).
THEOREM FastIsReference ==
    ASSUME NEW p, IsProblem(p), NEW K, K \subseteq DOMAIN p.tasks,
           \A t \in (DOMAIN p.tasks) \ K : Floats(p, Literals(p), t)
    PROVE  FastPlacements(p, K) \subseteq Placements(p, Literals(p), K)
<1> DEFINE few == [t \in K |-> FastSuitable(p, t)]
           many == [t \in K |-> Suitable(p, Literals(p), t)]
<1>1. \A t \in K : few[t] \subseteq many[t]
  BY FastSuits
<1> HIDE DEF few, many
<1>2. Joined(p, K, few) \subseteq Joined(p, K, many)
  BY <1>1, ChunkLists, JoinedGrows
<1>3. ASSUME NEW x \in FastPlacements(p, K) PROVE x \in Placements(p, Literals(p), K)
  <2>1. x \in Joined(p, K, few) /\ \A t \in K : Dependencies(p, Literals(p), K, t, x)
    BY <1>3, Zenon DEF FastPlacements, few
  <2> QED
    BY <2>1, <1>2, Zenon DEF Placements, many
<1> QED
  BY <1>3

-----------------------------------------------------------------------------
(* The tables.                                                             *)

\* A table is the function it tabulates.
LEMMA TabulatedIs == ASSUME NEW f PROVE Tabulated(f) = f
  BY DEF Tabulated

\* What the tables of the two models hold.
LEMMA TablesAre ==
    ASSUME NEW i \in DOMAIN Wires
    PROVE  /\ \A K \in Kept(Wires[i]) :
                /\ Reference[i][K].xs = Placements(Wires[i], Literals(Wires[i]), K)
                /\ Fast[i][K].xs = FastPlacements(Wires[i], K)
                /\ Reference[i][K].priced \subseteq Reference[i][K].xs
                /\ Fast[i][K].priced \subseteq Fast[i][K].xs
           /\ Cut[i] \subseteq Kept(Wires[i])
<1>1. Reference[i] = ReferenceTable(Wires[i])
  <2> DEFINE f == [j \in DOMAIN Wires |-> ReferenceTable(Wires[j])]
  <2>1. f[i] = ReferenceTable(Wires[i]) /\ DOMAIN f = DOMAIN Wires
    OBVIOUS
  <2> HIDE DEF f
  <2>2. Tabulated(f) = f
    BY TabulatedIs
  <2> QED
    BY <2>1, <2>2 DEF Reference, f
<1>2. Fast[i] = FastTable(Wires[i])
  <2> DEFINE f == [j \in DOMAIN Wires |-> FastTable(Wires[j])]
  <2>1. f[i] = FastTable(Wires[i]) /\ DOMAIN f = DOMAIN Wires
    OBVIOUS
  <2> HIDE DEF f
  <2>2. Tabulated(f) = f
    BY TabulatedIs
  <2> QED
    BY <2>1, <2>2 DEF Fast, f
<1>3. Cut[i] = CutSets(Wires[i])
  <2> DEFINE f == [j \in DOMAIN Wires |-> CutSets(Wires[j])]
  <2>1. f[i] = CutSets(Wires[i]) /\ DOMAIN f = DOMAIN Wires
    OBVIOUS
  <2> HIDE DEF f
  <2>2. Tabulated(f) = f
    BY TabulatedIs
  <2> QED
    BY <2>1, <2>2 DEF Cut, f
<1>4. ASSUME NEW K \in Kept(Wires[i])
      PROVE  /\ ReferenceTable(Wires[i])[K].xs = Placements(Wires[i], Literals(Wires[i]), K)
             /\ ReferenceTable(Wires[i])[K].priced \subseteq ReferenceTable(Wires[i])[K].xs
  <2> DEFINE xs(L) == Placements(Wires[i], Literals(Wires[i]), L)
             f == [L \in Kept(Wires[i]) |->
                     Solved(xs(L), {x \in xs(L) : ReferencePriced(Wires[i], L, x)},
                            LAMBDA x : PlacementCost(Wires[i], L, x))]
  <2>1. DOMAIN f = Kept(Wires[i])
    OBVIOUS
  <2>2. f[K].xs = xs(K) /\ f[K].priced \subseteq xs(K)
    BY DEF Solved
  <2>3. ReferenceTable(Wires[i]) = Tabulated(f)
    BY Zenon DEF ReferenceTable
  <2> HIDE DEF f
  <2> QED
    BY <2>1, <2>2, <2>3, TabulatedIs
<1>5. ASSUME NEW K \in Kept(Wires[i])
      PROVE  /\ FastTable(Wires[i])[K].xs = FastPlacements(Wires[i], K)
             /\ FastTable(Wires[i])[K].priced \subseteq FastTable(Wires[i])[K].xs
  <2> DEFINE xs(L) == FastPlacements(Wires[i], L)
             f == [L \in Kept(Wires[i]) |->
                     Solved(xs(L), {x \in xs(L) : FastPriced(Wires[i], L, x)},
                            LAMBDA x : FastCost(Wires[i], L, x))]
  <2>1. DOMAIN f = Kept(Wires[i])
    OBVIOUS
  <2>2. f[K].xs = xs(K) /\ f[K].priced \subseteq xs(K)
    BY DEF Solved
  <2>3. FastTable(Wires[i]) = Tabulated(f)
    BY Zenon DEF FastTable
  <2> HIDE DEF f
  <2> QED
    BY <2>1, <2>2, <2>3, TabulatedIs
<1> QED
  BY <1>1, <1>2, <1>3, <1>4, <1>5 DEF CutSets

-----------------------------------------------------------------------------
(* A task on its own, a conflict.                                          *)

\* IsolationFeasible's week of one task is the reference's.
LEMMA AloneTables ==
    ASSUME NEW i \in DOMAIN Wires, NEW t \in MustOf(Wires[i]),
           NEW alone, alone = [Wires[i] EXCEPT !.tasks = <<[Wires[i].tasks[t] EXCEPT !.deps = <<>>]>>]
    PROVE  Satisfiable(alone, Literals(alone)) <=> t \in Alone1[i]
<1> DEFINE p == Wires[i]
           solo == [p.tasks[t] EXCEPT !.deps = <<>>]
<1>1. IsProblem(p) /\ t \in DOMAIN p.tasks /\ p.tasks[t].must
  BY WiresAssumption DEF MustOf
<1>2. "tasks" \in DOMAIN p /\ "must" \in DOMAIN p.tasks[t]
  BY <1>1 DEF IsProblem
<1>3. solo.must = p.tasks[t].must
  BY <1>2
<1>4. alone.tasks = <<solo>>
  BY <1>2
<1>5. t \in Alone1[i] <=> Placements(alone, Literals(alone), {1}) # {}
  BY <1>1, Zenon DEF Alone1
<1> HIDE DEF solo
<1>6. DOMAIN alone.tasks = {1} /\ alone.tasks[1] = solo
  BY <1>4
<1> HIDE DEF p
<1>7. <<"task_present", 1, 0>> \in Literals(alone)
  <2>1. <<"task_present", 1, 0>> \in TaskLiterals(alone, 1)
    BY DEF TaskLiterals
  <2> QED
    BY <2>1, <1>6, Zenon DEF Literals
<1>8. Mandatory(alone, Literals(alone)) = {1}
  BY <1>1, <1>3, <1>6, <1>7 DEF Mandatory
<1>9. Partitions(alone, Literals(alone)) # {} <=> Placements(alone, Literals(alone), {1}) # {}
  <2>1. ASSUME NEW K \in SUBSET {1}, {1} \subseteq K PROVE K = {1}
    BY <2>1
  <2> QED
    BY <2>1, <1>6, <1>8, Zenon DEF Partitions
<1> QED
  BY <1>5, <1>9 DEF Satisfiable

\* A conflict among tasks none of which may be given up leaves no plan.
LEMMA CoreHopeless ==
    ASSUME NEW i \in DOMAIN Wires, NEW core, core \subseteq Literals(Wires[i]),
           ~Satisfiable(Wires[i], core),
           \A t \in MustOf(Wires[i]) : <<"task_present", t, 0>> \in core => t \in Alone1[i]
    PROVE  Hopeless(i)
<1> DEFINE p == Wires[i]
<1> SUFFICES ASSUME NEW K \in Kept(p), MustOf(p) \cap Alone1[i] \subseteq K, Reference[i][K].xs # {}
             PROVE  FALSE
  BY DEF Hopeless
<1>1. IsProblem(p) /\ K \subseteq DOMAIN p.tasks
  BY WiresAssumption DEF Kept
<1>2. Placements(p, Literals(p), K) # {}
  BY TablesAre
<1>3. Placements(p, core, K) # {}
  BY <1>1, <1>2, FewerLiterals
<1>4. Mandatory(p, core) \subseteq K
  BY DEF Mandatory, MustOf
<1> QED
  BY <1>1, <1>3, <1>4 DEF Satisfiable, Partitions

\* Where there is a legal plan there is hope.
LEMMA PlanHopeful ==
    ASSUME NEW i \in DOMAIN Wires, NEW a, IsLegalPlan(i, a), a.kept \in Kept(Wires[i])
    PROVE  ~Hopeless(i)
<1>1. MustOf(Wires[i]) \cap Alone1[i] \subseteq a.kept /\ Reference[i][a.kept].xs # {}
  BY DEF IsLegalPlan
<1> QED
  BY <1>1, Zenon DEF Hopeless

-----------------------------------------------------------------------------
(* The improvement rounds.                                                 *)

\* A sequence, of whatever.
IsList(s) == Len(s) \in Nat /\ DOMAIN s = 1..Len(s)

\* A function on 1..n is one.
LEMMA ListIs == ASSUME NEW n \in Nat, NEW s, s = [k \in 1..n |-> s[k]] PROVE IsList(s)
<1> DEFINE S == {s[k] : k \in 1..n}
<1>1. s \in [1..n -> S]
  BY Zenon
<1>2. s \in Seq(S)
  BY <1>1, SeqDef
<1> QED
  BY <1>2 DEF IsList

\* A round's sub-solves are a list.
LEMMA FreshLists == ASSUME NEW x, NEW r PROVE IsList(Fresh(Menu(x, r)))
<1> DEFINE menu == Menu(x, r)
           new == {i \in DOMAIN menu : /\ menu[i] # {} /\ <<out.cost, menu[i]>> \notin rounds.tried
                                      /\ \A j \in 1..(i - 1) : menu[j] # menu[i]}
           fresh == [n \in 1..Cardinality(new) |-> menu[Sorted(new)[n]]]
<1>1. DOMAIN menu = 1..5
  BY DEF Menu
<1>2. fresh = Fresh(menu)
  BY Zenon DEF Fresh
<1> HIDE DEF menu
<1>3. IsFiniteSet(1..5)
  <2>1. 1 \in Int /\ 5 \in Int
    OBVIOUS
  <2> QED
    BY <2>1, FS_Interval, Zenon
<1>6. new \subseteq 1..5
  BY <1>1
<1> HIDE DEF new
<1>4. Cardinality(new) \in Nat
  BY <1>3, <1>6, FS_Subset, FS_CardinalityType
<1>5. fresh = [k \in 1..Cardinality(new) |-> fresh[k]]
  OBVIOUS
<1> HIDE DEF fresh
<1> QED
  BY <1>2, <1>4, <1>5, ListIs DEF menu

\* What a sub-solve says of itself is so.
Honest(r) ==
  r.descents # 0 => /\ Places(wire, sel.kept, r.placement, r.cost)
                    /\ Repriced(r.placement).descents # 0 /\ Repriced(r.placement).cost = r.cost

\* Or what it found is so once it is priced.
Offers(r, verify) ==
  Honest(r) \/ (verify /\ (Repriced(r.placement).descents # 0 =>
                             Places(wire, sel.kept, r.placement, Repriced(r.placement).cost)))

\* What is admitted is a plan at the price it is admitted for.
LEMMA AdmitSound ==
    ASSUME NEW r, NEW frozen, NEW cost, NEW verify, Offers(r, verify), Admit(r, frozen, cost, verify) # Infinity
    PROVE  Places(wire, sel.kept, r.placement, Admit(r, frozen, cost, verify))
<1> DEFINE again == Repriced(r.placement)
           price == Admit(r, frozen, cost, verify)
<1>1. price = IF ~Displaces(r, frozen, cost) THEN Infinity
              ELSE IF ~verify THEN r.cost
              ELSE IF again.descents = 0 \/ again.cost >= cost THEN Infinity ELSE again.cost
  BY DEF Admit, AdmitWhen, Repriced
<1>2. r.descents # 0
  BY <1>1 DEF Displaces
<1> HIDE DEF price, again
<1>3. CASE ~verify
  BY <1>1, <1>2, <1>3 DEF Offers, Honest, price
<1>4. CASE verify
  <2>1. again.descents # 0 /\ price = again.cost
    BY <1>1, <1>4 DEF price
  <2> QED
    BY <1>2, <2>1 DEF Offers, Honest, price, again
<1> QED
  BY <1>3, <1>4

\* Pricing an honest answer again changes nothing.
LEMMA HonestNeedsNoCheck ==
    ASSUME NEW r, NEW frozen, NEW cost \in Nat, Honest(r), NEW verify \in BOOLEAN
    PROVE  Admit(r, frozen, cost, verify) = Admit(r, frozen, cost, FALSE)
<1> DEFINE again == Repriced(r.placement)
<1>1. Admit(r, frozen, cost, verify) =
        IF ~Displaces(r, frozen, cost) THEN Infinity
        ELSE IF ~verify THEN r.cost
        ELSE IF again.descents = 0 \/ again.cost >= cost THEN Infinity ELSE again.cost
  BY DEF Admit, AdmitWhen, Repriced
<1>2. Admit(r, frozen, cost, FALSE) = IF ~Displaces(r, frozen, cost) THEN Infinity ELSE r.cost
  BY DEF Admit, AdmitWhen
<1>3. Displaces(r, frozen, cost) => /\ r.cost < cost /\ r.cost \in Nat
                                    /\ again.descents # 0 /\ again.cost = r.cost
  BY DEF Displaces, Honest, Places
<1> HIDE DEF again
<1>4. CASE verify = FALSE
  BY <1>4
<1>5. CASE verify = TRUE
  <2>1. Displaces(r, frozen, cost) => ~(again.cost >= cost)
    BY <1>3
  <2> QED
    BY <1>1, <1>2, <1>3, <1>5, <2>1
<1> QED
  BY <1>4, <1>5

\* The plan after the first i results, from the plan before them.
AdoptStep(start, menu, results, verify, i, a) ==
  LET cost == Admit(results[i], Frozen(start.placement, menu[i]), a.cost, verify)
  IN IF i = 0 THEN start
     ELSE IF cost = Infinity THEN a ELSE [a EXCEPT !.placement = results[i].placement, !.cost = cost]

\* f lists them result by result.
AdoptSteps(start, menu, results, verify, m, f) ==
  f = [i \in 0..m |-> AdoptStep(start, menu, results, verify, i, f[i - 1])]

\* Such a list exists, by its least counterexample.
LEMMA AdoptStepsExist ==
    ASSUME NEW start, NEW menu, NEW results, NEW verify, NEW m \in Nat
    PROVE  \E f : AdoptSteps(start, menu, results, verify, m, f)
<1> DEFINE Step(i, a) == AdoptStep(start, menu, results, verify, i, a)
           Steps(k, f) == f = [i \in 0..k |-> Step(i, f[i - 1])]
           Bad == {k \in Nat : ~\E f : Steps(k, f)}
<1>0. \A a, b : Step(0, a) = Step(0, b)
  BY DEF AdoptStep
<1> HIDE DEF Step
<1>1. ASSUME Bad # {} PROVE FALSE
  <2>1. PICK k \in Bad : \A y \in Bad : k <= y
    BY <1>1, Least
  <2>2. PICK g : k # 0 => Steps(k - 1, g)
    <3>1. k # 0 => k - 1 \in Nat /\ k - 1 \notin Bad
      BY <2>1
    <3> QED
      BY <3>1
  <2> DEFINE f == [n \in 0..k |-> IF n = k THEN Step(k, g[k - 1]) ELSE g[n]]
  <2>3. ASSUME NEW n \in 0..k PROVE f[n] = Step(n, f[n - 1])
    <3>1. CASE n = 0
      <4>1. k # 0 => g[0] = Step(0, g[0 - 1])
        BY <2>2
      <4> QED
        BY <3>1, <4>1, <1>0
    <3>2. CASE n # 0 /\ n = k
      <4>1. f[n - 1] = g[k - 1]
        BY <3>2
      <4> QED
        BY <3>2, <4>1
    <3>3. CASE n # 0 /\ n # k
      <4>1. n \in 0..(k - 1) /\ k # 0 /\ f[n - 1] = g[n - 1] /\ f[n] = g[n]
        BY <3>3
      <4> QED
        BY <4>1, <2>2
    <3> QED
      BY <3>1, <3>2, <3>3
  <2>4. Steps(k, f)
    BY <2>3, Zenon
  <2> QED
    BY <2>1, <2>4
<1>2. \E f : Steps(m, f)
  BY <1>1
<1> QED
  BY <1>2, Zenon DEF AdoptSteps, Step

\* Adopt meets the equation that defines it.
LEMMA AdoptIs ==
    ASSUME NEW start, NEW menu, NEW results, NEW verify, Len(menu) \in Nat
    PROVE  \E f : /\ \A i \in 0..Len(menu) : f[i] = AdoptStep(start, menu, results, verify, i, f[i - 1])
                  /\ Adopt(start, menu, results, verify) = f[Len(menu)]
<1> DEFINE f == CHOOSE f : AdoptSteps(start, menu, results, verify, Len(menu), f)
<1>1. AdoptSteps(start, menu, results, verify, Len(menu), f)
  BY AdoptStepsExist, Zenon
<1>2. Adopt(start, menu, results, verify) = f[Len(menu)]
  BY Zenon DEF Adopt, AdoptSteps, AdoptStep
<1> HIDE DEF f
<1>3. \A i \in 0..Len(menu) : f[i] = AdoptStep(start, menu, results, verify, i, f[i - 1])
  BY <1>1 DEF AdoptSteps
<1> QED
  BY <1>2, <1>3

\* A plan at hand, with a bound below every plan.
Planned(i, K, o) ==
  /\ DOMAIN o = {"placement", "cost", "proved", "bound"}
  /\ Places(i, K, o.placement, o.cost)
  /\ o.proved = FALSE /\ o.bound \in Int /\ o.bound <= Spilled[i][K]

\* A round leaves a plan, and honest results leave the one that no check would.
LEMMA AdoptSound ==
    ASSUME NEW menu, IsList(menu), NEW results, NEW verify \in BOOLEAN,
           Planned(wire, sel.kept, out), \A i \in DOMAIN menu : Offers(results[i], verify)
    PROVE  /\ Planned(wire, sel.kept, Adopt(out, menu, results, verify))
           /\ (\A i \in DOMAIN menu : Honest(results[i])) =>
                Adopt(out, menu, results, verify) = Adopt(out, menu, results, FALSE)
<1> DEFINE m == Len(menu)
           Good(a) == Planned(wire, sel.kept, a)
           frozen(i) == Frozen(out.placement, menu[i])
<1>0. m \in Nat /\ \A i \in 1..m : Offers(results[i], verify)
  BY DEF IsList
<1>1. PICK f : /\ \A i \in 0..m : f[i] = AdoptStep(out, menu, results, verify, i, f[i - 1])
               /\ Adopt(out, menu, results, verify) = f[m]
  BY <1>0, AdoptIs
<1>a. ASSUME NEW v
      PROVE  \E g : /\ \A i \in 0..m : g[i] = AdoptStep(out, menu, results, v, i, g[i - 1])
                    /\ Adopt(out, menu, results, v) = g[m]
  BY <1>0, AdoptIs
<1>2. PICK g : /\ \A i \in 0..m : g[i] = AdoptStep(out, menu, results, FALSE, i, g[i - 1])
               /\ Adopt(out, menu, results, FALSE) = g[m]
  BY <1>a, Zenon
<1>3. ASSUME NEW i \in 1..m, NEW a, Good(a) PROVE Good(AdoptStep(out, menu, results, verify, i, a))
  <2> DEFINE cost == Admit(results[i], frozen(i), a.cost, verify)
             step == AdoptStep(out, menu, results, verify, i, a)
  <2>1. step = IF cost = Infinity THEN a ELSE [a EXCEPT !.placement = results[i].placement, !.cost = cost]
    BY DEF AdoptStep
  <2>2. cost # Infinity => Places(wire, sel.kept, results[i].placement, cost)
    BY <1>0, AdmitSound
  <2> HIDE DEF cost, step
  <2>3. CASE cost = Infinity
    BY <1>3, <2>1, <2>3 DEF step
  <2>4. CASE cost # Infinity
    <3>1. /\ DOMAIN step = DOMAIN a /\ step.placement = results[i].placement /\ step.cost = cost
          /\ step.proved = a.proved /\ step.bound = a.bound
      BY <1>3, <2>1, <2>4 DEF Planned
    <3> QED
      BY <1>3, <2>2, <2>4, <3>1 DEF Planned, step
  <2> QED
    BY <2>3, <2>4 DEF step
<1>4. f[0] = out /\ g[0] = out
  <2>1. 0 \in 0..m
    BY <1>0
  <2>2. \A v, a : AdoptStep(out, menu, results, v, 0, a) = out
    BY DEF AdoptStep
  <2> QED
    BY <1>1, <1>2, <2>1, <2>2, Zenon
<1> HIDE DEF m, Good
<1>5. \A i \in 0..m : Good(f[i])
  <2> DEFINE Bad == {i \in 0..m : ~Good(f[i])}
  <2>1. ASSUME Bad # {} PROVE FALSE
    <3>1. Bad \subseteq Nat
      BY <1>0
    <3>2. PICK i \in Bad : \A y \in Bad : i <= y
      <4> HIDE DEF Bad
      <4> QED
        BY <2>1, <3>1, Least
    <3>3. i # 0
      BY <3>2, <1>4 DEF Good
    <3>4. i \in 1..m /\ i \in 0..m /\ i - 1 \in 0..m /\ i - 1 \notin Bad
      BY <3>2, <3>3, <1>0
    <3>5. Good(f[i - 1])
      BY <3>4
    <3> QED
      BY <3>2, <3>4, <3>5, <1>1, <1>3
  <2> QED
    BY <2>1
<1>6. ASSUME \A i \in DOMAIN menu : Honest(results[i]) PROVE \A i \in 0..m : f[i] = g[i]
  <2>0. \A i \in 1..m : Honest(results[i])
    BY <1>6 DEF IsList, m
  <2> DEFINE Bad == {i \in 0..m : f[i] # g[i]}
  <2>1. ASSUME Bad # {} PROVE FALSE
    <3>1. Bad \subseteq Nat
      BY <1>0
    <3>2. PICK i \in Bad : \A y \in Bad : i <= y
      <4> HIDE DEF Bad
      <4> QED
        BY <2>1, <3>1, Least
    <3>3. i # 0
      BY <3>2, <1>4
    <3>4. i \in 1..m /\ i \in 0..m /\ i - 1 \in 0..m /\ i - 1 \notin Bad
      BY <3>2, <3>3, <1>0
    <3>5. f[i - 1] = g[i - 1] /\ Good(f[i - 1])
      BY <3>4, <1>5
    <3>6. f[i - 1].cost \in Nat
      BY <3>5 DEF Good, Planned, Places
    <3>7. Admit(results[i], frozen(i), f[i - 1].cost, verify) = Admit(results[i], frozen(i), f[i - 1].cost, FALSE)
      BY <2>0, <3>4, <3>6, HonestNeedsNoCheck
    <3>8. AdoptStep(out, menu, results, verify, i, f[i - 1]) = AdoptStep(out, menu, results, FALSE, i, f[i - 1])
      BY <3>7, Zenon DEF AdoptStep
    <3> QED
      BY <3>2, <3>4, <3>5, <3>8, <1>1, <1>2
  <2> QED
    BY <2>1
<1>7. m \in 0..m
  BY <1>0
<1> QED
  BY <1>1, <1>2, <1>5, <1>6, <1>7 DEF Good

-----------------------------------------------------------------------------
(* The invariant.  What either solver answers is sound, and what it holds  *)
(* on the way there.                                                       *)

\* A refusal explains itself and is right; a plan is legal and what it says is so.
AnswerSound(i, by, a) ==
  IF a.status = "UNSAT"
  THEN Explained(Wires[i], by, a) /\ ((by = "worker" \/ a.core # {}) => Hopeless(i))
  ELSE a.kept \in Kept(Wires[i]) /\ IsLegalPlan(i, a) /\ Truthful(i, by, a)

\* The fields of the engine's run.
RunFields ==
  /\ {"on", "lied"} \subseteq DOMAIN rpc /\ rpc.on \in BOOLEAN /\ rpc.lied \in BOOLEAN
  /\ DOMAIN rounds = {"sweep", "round", "moved", "tried", "asks"}
  /\ rounds.round \in Int /\ IsList(rounds.asks)

\* What the engine selected and has at hand: a session that never lied has the
\* plan this isolate has.
EngineSound ==
  /\ RunFields
  /\ pc \in {"selected", "rooted", "improved"} => Selects(wire, sel, sel.demoted)
  /\ pc \in {"rooted", "improved"} => Planned(wire, sel.kept, out) /\ (~rpc.lied => out = local)
  /\ pc = "done" => AnswerSound(wire, "worker", answer)

\* What the container has given up and what its first pass keeps.
ContainerSound ==
  /\ demotedC \cap Alone1[wire] = {}
  /\ cpc = "pass2" => found \in Kept(Wires[wire]) /\ MustOf(Wires[wire]) \ demotedC \subseteq found
  /\ cpc = "done" => AnswerSound(wire, "container", reply)

\* The remembered verdict is right, so a contradiction can only be a reply that
\* explains nothing.
ServiceSound ==
  /\ said = "unsat" => Hopeless(wire)
  /\ said = "plan" => ~Hopeless(wire)
  /\ served.kind = "solution" => IsLegalPlan(wire, served.body) /\ Truthful(wire, served.by, served.body)
  /\ served.kind = "unsat" => Explained(Wires[wire], served.by, served.body)
  /\ disagreed => spc = "served" /\ served.kind = "unsat" /\ served.body.core = {}

\* The inductive invariant.
SolveInv == wire \in DOMAIN Wires /\ EngineSound /\ ContainerSound /\ ServiceSound

-----------------------------------------------------------------------------
(* The engine's steps.                                                     *)

\* The engine ends with a sound answer.
LEMMA ReturnSound ==
    ASSUME NEW a, Return(a), AnswerSound(wire, "worker", a), wire' = wire
    PROVE  EngineSound'
<1>1. /\ answer' = a /\ pc' = "done" /\ rounds' = NoRounds /\ rpc' = NoSession
  BY DEF Return
<1>2. RunFields'
  <2>1. IsList(<<>>)
    BY DEF IsList
  <2> QED
    BY <1>1, <2>1 DEF RunFields, NoRounds, NoSession
<1> QED
  BY <1>1, <1>2 DEF EngineSound

\* It refuses.
LEMMA UnsatSound ==
    ASSUME NEW core, NEW cut, NEW a, a.core = core, a.cut = cut, Refuses(wire, a), Unsat(core, cut), wire' = wire
    PROVE  EngineSound'
<1> DEFINE refusal == [NoAnswer EXCEPT !.status = "UNSAT", !.core = core, !.cut = cut]
<1>1. Return(refusal)
  BY DEF Unsat
<1>2. refusal.status = "UNSAT" /\ refusal.core = core /\ refusal.cut = cut
  BY DEF NoAnswer
<1> HIDE DEF refusal
<1>3. AnswerSound(wire, "worker", refusal)
  BY <1>2 DEF AnswerSound, Refuses, Explained
<1>4. PICK b : b = refusal
  OBVIOUS
<1> QED
  BY <1>1, <1>3, <1>4, ReturnSound

\* It refuses for events that overlap.
LEMMA OverlapSound ==
    ASSUME SearchesSound, OverlapEnds, wire' = wire
    PROVE  EngineSound'
<1>1. PICK core : core = {<<"external_pinned", e, 0>> : e \in OverlapCore(W)}
  OBVIOUS
<1>2. PICK a : a = [core |-> core, cut |-> FALSE]
  OBVIOUS
<1>3. Refuses(wire, a) /\ Unsat(core, FALSE)
  BY <1>1, <1>2 DEF OverlapEnds, SearchesSound, SelectionSound
<1>4. a.core = core /\ a.cut = FALSE
  BY <1>2
<1> QED
  BY <1>3, <1>4, UnsatSound

\* It keeps a selection.
LEMMA SelectionKept ==
    ASSUME NEW s, NEW d, Selects(wire, s, d), RunFields, UNCHANGED <<wire, rounds, rpc>>,
           sel' = [kept |-> s.kept, witness |-> s.witness, proved |-> s.proved,
                   infeasible |-> s.infeasible, decided |-> s.decided, demoted |-> d],
           pc' = "selected"
    PROVE  EngineSound'
<1>1. sel'.kept = s.kept /\ sel'.proved = s.proved /\ sel'.demoted = d
  OBVIOUS
<1>2. Selects(wire', sel', sel'.demoted)
  BY <1>1 DEF Selects
<1>3. RunFields'
  BY DEF RunFields
<1> QED
  BY <1>2, <1>3 DEF EngineSound

\* Pass 1, and the core's layer behind it.
LEMMA RunSelectionSound ==
    ASSUME SearchesSound, EngineSound, RunSelection, wire' = wire
    PROVE  EngineSound'
<1> DEFINE Selected(s, d) ==
             /\ sel' = [kept |-> s.kept, witness |-> s.witness, proved |-> s.proved,
                        infeasible |-> s.infeasible, decided |-> s.decided, demoted |-> d]
             /\ pc' = "selected" /\ UNCHANGED <<out, budget, rounds, rpc, local, answer>>
<1>0. PICK c \in SelectCaps, t \in TestCaps :
        \E pass1 \in {Pass1(W, c)} :
          IF ~NeedsDetour(pass1) THEN Selected(pass1, {})
          ELSE \E detour \in {Detour(W, {}, c, [tests |-> 0, cap |-> t])} :
                 IF detour.core # {} THEN Unsat(detour.core, detour.cut)
                 ELSE Selected(detour.pass1, detour.demoted)
  BY Zenon DEF RunSelection
<1>1. PICK pass1 :
        /\ pass1 = Pass1(W, c)
        /\ IF ~NeedsDetour(pass1) THEN Selected(pass1, {})
           ELSE \E detour \in {Detour(W, {}, c, [tests |-> 0, cap |-> t])} :
                  IF detour.core # {} THEN Unsat(detour.core, detour.cut)
                  ELSE Selected(detour.pass1, detour.demoted)
  BY <1>0, Zenon
<1>2. IF ~NeedsDetour(pass1) THEN Selects(wire, pass1, {})
      ELSE \E detour \in {Detour(W, {}, c, [tests |-> 0, cap |-> t])} :
             IF detour.core # {} THEN Refuses(wire, detour) ELSE Selects(wire, detour.pass1, detour.demoted)
  <2>1. SelectionSound /\ OverlapCore(W) = {}
    BY DEF SearchesSound, RunSelection
  <2> QED
    BY <1>1, <2>1, Zenon DEF SelectionSound
<1>3. RunFields
  BY DEF EngineSound
<1>4. CASE ~NeedsDetour(pass1)
  <2>1. PICK d : d = {}
    OBVIOUS
  <2>2. Selects(wire, pass1, d) /\ Selected(pass1, d)
    BY <1>1, <1>2, <1>4, <2>1
  <2> QED
    BY <1>3, <2>2, SelectionKept
<1>5. CASE NeedsDetour(pass1)
  <2>1. PICK detour : /\ detour = Detour(W, {}, c, [tests |-> 0, cap |-> t])
                      /\ IF detour.core # {} THEN Unsat(detour.core, detour.cut)
                         ELSE Selected(detour.pass1, detour.demoted)
    BY <1>1, <1>5, Zenon
  <2>2. IF detour.core # {} THEN Refuses(wire, detour) ELSE Selects(wire, detour.pass1, detour.demoted)
    BY <1>2, <1>5, <2>1, Zenon
  <2>3. CASE detour.core # {}
    BY <2>1, <2>2, <2>3, UnsatSound
  <2>4. CASE detour.core = {}
    BY <1>3, <2>1, <2>2, <2>4, SelectionKept
  <2> QED
    BY <2>3, <2>4
<1> QED
  BY <1>4, <1>5

\* An outcome that may be answered with.
LEMMA AssembledSound ==
    ASSUME wire \in DOMAIN Wires, Selects(wire, sel, sel.demoted), NEW o,
           Places(wire, sel.kept, o.placement, o.cost), o.bound \in Int,
           o.bound <= Spilled[wire][sel.kept],
           o.proved => o.cost <= Spilled[wire][sel.kept]
    PROVE  AnswerSound(wire, "worker", Assembled(o))
<1> DEFINE a == Assembled(o)
           best == Spilled[wire][sel.kept]
           paid == PlacementCost(Wires[wire], sel.kept, o.placement)
           proved == sel.proved /\ o.proved
           gap == IF proved THEN 0 ELSE IF sel.proved THEN o.cost - Min({o.bound, o.cost}) ELSE -1
<1>1. /\ a.status = IF proved THEN "OPTIMAL" ELSE "FEASIBLE"
      /\ a.placement = o.placement /\ a.kept = sel.kept /\ a.demoted = sel.demoted
      /\ a.cost = ReportedCost(B, sel.kept, o.placement)
  BY DEF Assembled, NoAnswer
<1>2. a.gap = gap
  BY Zenon DEF Assembled, NoAnswer
<1>3. /\ o.cost \in Nat /\ o.cost = paid /\ best \in Nat
      /\ a.cost = paid + PartDay(Wires[wire], o.placement)
      /\ o.placement \in Reference[wire][sel.kept].xs
  BY <1>1 DEF Places, B
<1>4. IsLegalPlan(wire, a) /\ a.kept \in Kept(Wires[wire])
  BY <1>1, <1>3 DEF IsLegalPlan, Selects
<1>5. Min({o.bound, o.cost}) \in Int /\ Min({o.bound, o.cost}) <= o.bound
  <2> DEFINE few == {o.bound, o.cost}
  <2>1. PICK n \in Int : n <= o.bound /\ n <= o.cost
    <3>1. PICK n \in few : n <= o.bound /\ n <= o.cost
      BY <1>3
    <3>2. n \in Int
      BY <1>3
    <3> QED
      BY <3>1, <3>2
  <2>2. few \subseteq Int /\ few # {} /\ (\A x \in few : n <= x) /\ o.bound \in few
    BY <1>3, <2>1
  <2> HIDE DEF few
  <2>3. MinOf(few) \in few /\ \A x \in few : MinOf(few) <= x
    BY <2>2, MinIs
  <2> QED
    BY <2>2, <2>3 DEF MinOf, few
<1> HIDE DEF a
<1>6. a.gap >= 0 => DropPenalty(Wires[wire], a.kept) = LeastDropAt(wire, a.demoted) /\ paid - a.gap <= best
  <2>1. CASE proved
    <3>1. a.gap = 0 /\ o.cost <= best
      BY <1>2, <2>1
    <3> QED
      BY <1>1, <1>3, <2>1, <3>1 DEF Selects
  <2>2. CASE ~proved /\ sel.proved
    <3>1. a.gap = o.cost - Min({o.bound, o.cost})
      BY <1>2, <2>2
    <3>2. paid - a.gap <= best
      BY <1>3, <1>5, <3>1
    <3> QED
      BY <1>1, <2>2, <3>2 DEF Selects
  <2>3. CASE ~proved /\ ~sel.proved
    BY <1>2, <2>3
  <2> QED
    BY <2>1, <2>2, <2>3
<1>7. a.status = "OPTIMAL" => a.gap = 0
  BY <1>1, <1>2
<1> HIDE DEF best, paid
<1>8. Truthful(wire, "worker", a)
  BY <1>1, <1>3, <1>6, <1>7 DEF Truthful, best, paid
<1>9. a.status # "UNSAT"
  BY <1>1
<1> QED
  BY <1>4, <1>8, <1>9 DEF AnswerSound, a

\* Pass 2 at the root.
LEMMA EvaluateRootSound ==
    ASSUME SearchesSound, EngineSound, wire \in DOMAIN Wires, EvaluateRoot, wire' = wire
    PROVE  EngineSound'
<1> DEFINE Outcome(r) == [placement |-> r.placement, cost |-> r.cost, proved |-> r.proved, bound |-> BoundOf(r)]
<1>0. pc = "selected" /\ Selects(wire, sel, sel.demoted) /\ RunFields
  BY DEF EvaluateRoot, EngineSound
<1>1. PICK r :
        /\ r = Pass2(B, sel.kept, sel.witness, <<>>, 0)
        /\ IF r.descents = 0 THEN Return(Fallback)
           ELSE IF r.proved THEN Return(Assembled(Outcome(r)))
           ELSE \E c \in NodeCaps : \E on \in Sessions :
                 /\ out' = Outcome(r) /\ local' = Outcome(r)
                 /\ budget' = [cap |-> c, spent |-> 0, quota |-> ImproveShare(r.root, r.cost, c)]
                 /\ rpc' = [NoSession EXCEPT !.on = on]
                 /\ pc' = "rooted" /\ UNCHANGED <<sel, rounds, answer>>
  BY Zenon DEF EvaluateRoot
<1>2. IF r.descents = 0 THEN Places(wire, sel.kept, sel.witness, PlacementCost(W, sel.kept, sel.witness))
      ELSE Places(wire, sel.kept, r.placement, r.cost) /\ Bounds(wire, sel.kept, r)
  BY <1>0, <1>1, Zenon DEF SearchesSound, RootSound
<1>3. CASE r.descents = 0
  <2>1. PICK a : a = Fallback
    OBVIOUS
  <2>2. /\ a.status = "PASS1_FALLBACK" /\ a.placement = sel.witness /\ a.kept = sel.kept
        /\ a.demoted = sel.demoted /\ a.gap = -1 /\ a.cost = ReportedCost(B, sel.kept, sel.witness)
    BY <2>1 DEF Fallback, NoAnswer
  <2>3. /\ sel.witness \in Reference[wire][sel.kept].xs
        /\ a.cost = PlacementCost(W, sel.kept, sel.witness) + PartDay(W, sel.witness)
    BY <1>2, <1>3, <2>2 DEF Places, W, B
  <2>4. IsLegalPlan(wire, a) /\ a.kept \in Kept(Wires[wire])
    BY <1>0, <2>2, <2>3 DEF IsLegalPlan, Selects
  <2>5. Truthful(wire, "worker", a)
    BY <2>2, <2>3 DEF Truthful, W
  <2>6. AnswerSound(wire, "worker", a)
    BY <2>2, <2>4, <2>5 DEF AnswerSound
  <2> QED
    BY <1>1, <1>3, <2>1, <2>6, ReturnSound
<1>4. CASE r.descents # 0
  <2>1. PICK o : o = Outcome(r)
    OBVIOUS
  <2>2. /\ DOMAIN o = {"placement", "cost", "proved", "bound"}
        /\ o.placement = r.placement /\ o.cost = r.cost /\ o.proved = r.proved /\ o.bound = BoundOf(r)
    BY <2>1
  <2>3. /\ Places(wire, sel.kept, o.placement, o.cost) /\ o.bound \in Int
        /\ o.bound <= Spilled[wire][sel.kept]
        /\ o.proved => o.cost <= Spilled[wire][sel.kept]
    BY <1>2, <1>4, <2>2 DEF Bounds, BoundOf, Places
  <2>4. CASE r.proved
    <3>1. PICK a : a = Assembled(o)
      OBVIOUS
    <3>2. AnswerSound(wire, "worker", a)
      BY <1>0, <2>3, <3>1, AssembledSound
    <3> QED
      BY <1>1, <1>4, <2>1, <2>4, <3>1, <3>2, ReturnSound
  <2>5. CASE ~r.proved
    <3>1. PICK on \in Sessions : /\ out' = o /\ local' = o /\ rpc' = [NoSession EXCEPT !.on = on]
                                 /\ pc' = "rooted" /\ UNCHANGED <<sel, rounds, answer>>
      BY <1>1, <1>4, <2>1, <2>5
    <3>2. RunFields'
      BY <1>0, <3>1, RoundsAssumption DEF RunFields, NoSession
    <3>3. Planned(wire, sel.kept, o)
      BY <2>2, <2>3, <2>5 DEF Planned
    <3> QED
      BY <1>0, <3>1, <3>2, <3>3 DEF EngineSound
  <2> QED
    BY <2>4, <2>5
<1> QED
  BY <1>3, <1>4

\* The next round that has something to ask.
LEMMA NextRoundSound ==
    ASSUME EngineSound, NextRound, wire' = wire
    PROVE  EngineSound'
<1>0. pc = "rooted" /\ UNCHANGED <<sel, out, budget, rpc, local, answer>> /\ RunFields
  BY DEF NextRound, EngineSound
<1>1. PICK ahead \in {[r \in rounds.round..(MaxRounds - 1) |-> Fresh(Menu(out.placement, r))]} :
        LET asking == {r \in DOMAIN ahead : ahead[r] # <<>>}
        IN IF budget.spent >= budget.quota THEN pc' = "improved" /\ UNCHANGED rounds
           ELSE IF asking # {}
                THEN /\ rounds' = [rounds EXCEPT !.round = MinOf(asking), !.asks = ahead[MinOf(asking)]]
                     /\ UNCHANGED pc
           ELSE IF rounds.moved /\ rounds.sweep + 1 < MaxSweeps
                THEN rounds' = [rounds EXCEPT !.sweep = @ + 1, !.round = 0, !.moved = FALSE] /\ UNCHANGED pc
           ELSE pc' = "improved" /\ UNCHANGED rounds
  BY Zenon DEF NextRound
<1> DEFINE asking == {r \in DOMAIN ahead : ahead[r] # <<>>}
<1>2. asking \subseteq Int /\ \A r \in asking : rounds.round <= r /\ r \in DOMAIN ahead
  BY <1>0, RoundsAssumption DEF RunFields
<1>3. \A r \in DOMAIN ahead : IsList(ahead[r])
  BY FreshLists
<1>a. \/ pc' = "improved" /\ UNCHANGED rounds
      \/ /\ asking # {} /\ pc' = pc
         /\ rounds' = [rounds EXCEPT !.round = MinOf(asking), !.asks = ahead[MinOf(asking)]]
      \/ rounds' = [rounds EXCEPT !.sweep = @ + 1, !.round = 0, !.moved = FALSE] /\ pc' = pc
  BY <1>1, Zenon
<1> HIDE DEF asking
<1>4. asking # {} => MinOf(asking) \in asking
  BY <1>0, <1>2, MinIs DEF RunFields
<1>5. CASE pc' = "improved" /\ UNCHANGED rounds
  BY <1>0, <1>5 DEF EngineSound, RunFields
<1>6. CASE /\ asking # {} /\ pc' = pc
           /\ rounds' = [rounds EXCEPT !.round = MinOf(asking), !.asks = ahead[MinOf(asking)]]
  <2>1. MinOf(asking) \in Int /\ IsList(ahead[MinOf(asking)])
    BY <1>2, <1>3, <1>4, <1>6
  <2>2. RunFields'
    BY <1>0, <1>6, <2>1 DEF RunFields
  <2> QED
    BY <1>0, <1>6, <2>2 DEF EngineSound
<1>7. CASE rounds' = [rounds EXCEPT !.sweep = @ + 1, !.round = 0, !.moved = FALSE] /\ pc' = pc
  <2>1. rounds'.round = 0 /\ rounds'.asks = rounds.asks /\ DOMAIN rounds' = DOMAIN rounds
    BY <1>0, <1>7 DEF RunFields
  <2>2. RunFields'
    BY <1>0, <2>1 DEF RunFields
  <2> QED
    BY <1>0, <1>7, <2>2 DEF EngineSound
<1> QED
  BY <1>a, <1>5, <1>6, <1>7

\* A round with no node to spend.
LEMMA StarvedSound ==
    ASSUME EngineSound, Starved, wire' = wire
    PROVE  EngineSound'
  BY DEF EngineSound, Starved, RunFields

\* A round, here or over a session.
LEMMA ImproveRoundSound ==
    ASSUME SearchesSound, EngineSound, ImproveRound, wire' = wire
    PROVE  EngineSound'
<1> DEFINE menu == rounds.asks
           asks == rpc.on /\ ~rpc.degraded /\ rpc.calls + Len(menu) <= MaxSubsolves
           here == [i \in DOMAIN menu |-> Subsolve(out.placement, menu[i], Each)]
<1>0. /\ pc = "rooted" /\ rounds.asks # <<>> /\ Each > 0 /\ pc' = pc /\ sel' = sel /\ RunFields
      /\ Selects(wire, sel, sel.demoted) /\ Planned(wire, sel.kept, out) /\ (~rpc.lied => out = local)
  BY DEF ImproveRound, EngineSound
<1>1. RoundSound
  BY <1>0 DEF SearchesSound
<1> DEFINE lies(fault) == asks /\ fault = "lie"
<1>2. PICK fault \in LeafFaults \cup {"none"} :
        /\ fault # "none" => asks
        /\ \E h \in {[i \in DOMAIN menu |-> Subsolve(out.placement, menu[i], Each)]} :
           \E rs \in IF lies(fault) THEN {[h EXCEPT ![1] = lie] : lie \in Lies(menu)} ELSE {h} :
           \E next \in {Adopt(out, menu, rs, rpc.on)} :
             /\ out' = next
             /\ budget' = [budget EXCEPT !.spent = @ + SumOver(DOMAIN rs, LAMBDA i : rs[i].nodes)]
             /\ rounds' = [rounds EXCEPT !.moved = @ \/ next.cost < out.cost, !.asks = <<>>,
                                         !.tried = @ \cup {<<out.cost, menu[i]>> : i \in DOMAIN menu}]
        /\ local' = IF rpc.lied \/ lies(fault) THEN NoOutcome
                    ELSE Adopt(local, menu, [i \in DOMAIN menu |-> Subsolve(local.placement, menu[i], Each)], FALSE)
        /\ rpc' = Dispatched(asks, Len(menu), fault)
  BY ZenonT(60) DEF ImproveRound
<1>h. PICK h \in {[i \in DOMAIN menu |-> Subsolve(out.placement, menu[i], Each)]} :
        \E rs \in IF lies(fault) THEN {[h EXCEPT ![1] = lie] : lie \in Lies(menu)} ELSE {h} :
        \E next \in {Adopt(out, menu, rs, rpc.on)} :
          /\ out' = next
          /\ budget' = [budget EXCEPT !.spent = @ + SumOver(DOMAIN rs, LAMBDA i : rs[i].nodes)]
          /\ rounds' = [rounds EXCEPT !.moved = @ \/ next.cost < out.cost, !.asks = <<>>,
                                      !.tried = @ \cup {<<out.cost, menu[i]>> : i \in DOMAIN menu}]
  BY <1>2
<1>r. PICK rs \in IF lies(fault) THEN {[h EXCEPT ![1] = lie] : lie \in Lies(menu)} ELSE {h} :
        \E next \in {Adopt(out, menu, rs, rpc.on)} :
          /\ out' = next
          /\ budget' = [budget EXCEPT !.spent = @ + SumOver(DOMAIN rs, LAMBDA i : rs[i].nodes)]
          /\ rounds' = [rounds EXCEPT !.moved = @ \/ next.cost < out.cost, !.asks = <<>>,
                                      !.tried = @ \cup {<<out.cost, menu[i]>> : i \in DOMAIN menu}]
  BY <1>h
<1>n. PICK next \in {Adopt(out, menu, rs, rpc.on)} :
        /\ out' = next
        /\ rounds' = [rounds EXCEPT !.moved = @ \/ next.cost < out.cost, !.asks = <<>>,
                                    !.tried = @ \cup {<<out.cost, menu[i]>> : i \in DOMAIN menu}]
  BY <1>r
<1>3. /\ h = here
      /\ rs \in IF lies(fault) THEN {[here EXCEPT ![1] = lie] : lie \in Lies(menu)} ELSE {here}
      /\ next = Adopt(out, menu, rs, rpc.on) /\ out' = next
      /\ rounds' = [rounds EXCEPT !.moved = @ \/ next.cost < out.cost, !.asks = <<>>,
                                  !.tried = @ \cup {<<out.cost, menu[i]>> : i \in DOMAIN menu}]
  BY <1>n
<1>4. \A i \in DOMAIN menu : Honest(here[i])
  BY <1>1 DEF RoundSound, Honest
<1>5. \A i \in DOMAIN menu : Offers(rs[i], rpc.on)
  <2>1. CASE ~lies(fault)
    BY <1>3, <1>4, <2>1 DEF Offers
  <2>2. CASE lies(fault)
    <3>1. PICK lie \in Lies(menu) : rs = [here EXCEPT ![1] = lie]
      BY <1>3, <2>2
    <3>2. \A i \in DOMAIN menu : rs[i] = IF i = 1 THEN lie ELSE here[i]
      BY <3>1
    <3>3. rpc.on
      BY <2>2
    <3>4. Repriced(lie.placement).descents # 0 =>
            Places(wire, sel.kept, lie.placement, Repriced(lie.placement).cost)
      BY <1>1, <3>3 DEF RoundSound
    <3> QED
      BY <1>4, <3>2, <3>3, <3>4 DEF Offers
  <2> QED
    BY <2>1, <2>2
<1>6. IsList(menu)
  BY <1>0 DEF RunFields
<1>7. /\ Planned(wire, sel.kept, next)
      /\ (\A i \in DOMAIN menu : Honest(rs[i])) => next = Adopt(out, menu, rs, FALSE)
  <2>1. PICK on \in BOOLEAN : on = rpc.on
    BY <1>0 DEF RunFields
  <2> QED
    BY <1>0, <1>3, <1>5, <1>6, <2>1, AdoptSound
<1>8. /\ rpc'.lied = (rpc.lied \/ lies(fault)) /\ rpc'.on = rpc.on
      /\ {"on", "lied"} \subseteq DOMAIN rpc'
  BY <1>0, <1>2 DEF Dispatched, RunFields
<1>9. ~rpc'.lied => out' = local'
  <2> SUFFICES ASSUME ~rpc.lied, ~lies(fault) PROVE out' = local'
    BY <1>8
  <2>1. out = local /\ rs = here
    BY <1>0, <1>3
  <2>2. next = Adopt(out, menu, here, FALSE)
    BY <1>4, <1>7, <2>1
  <2>3. local' = Adopt(local, menu, [i \in DOMAIN menu |-> Subsolve(local.placement, menu[i], Each)], FALSE)
    BY <1>2
  <2> QED
    BY <1>3, <2>1, <2>2, <2>3
<1>10. RunFields'
  <2>1. rounds'.asks = <<>> /\ rounds'.round = rounds.round /\ DOMAIN rounds' = DOMAIN rounds
    BY <1>0, <1>3 DEF RunFields
  <2>2. IsList(<<>>)
    BY DEF IsList
  <2> QED
    BY <1>0, <1>8, <2>1, <2>2 DEF RunFields
<1> QED
  BY <1>0, <1>3, <1>7, <1>9, <1>10 DEF EngineSound

\* The proof search, and the answer.
LEMMA ProveSound ==
    ASSUME SearchesSound, EngineSound, wire \in DOMAIN Wires, Prove, wire' = wire
    PROVE  EngineSound'
<1> DEFINE start == Improved(out)
           least == Spilled[wire][sel.kept]
           Endable(o) == /\ Places(wire, sel.kept, o.placement, o.cost) /\ o.bound \in Int
                         /\ o.bound <= least /\ (o.proved => o.cost <= least)
           Ended(o, r) == IF r.descents = 0 THEN o
                          ELSE [placement |-> r.placement, cost |-> r.cost, proved |-> r.proved, bound |-> BoundOf(r)]
<1>0. pc = "improved" /\ Selects(wire, sel, sel.demoted) /\ Planned(wire, sel.kept, out)
  BY DEF Prove, EngineSound
<1>1. PICK left \in {0, budget.cap - budget.spent} :
        Return(Assembled(IF start.proved \/ left <= 0 THEN start
                         ELSE Ended(start, Pass2(B, sel.kept, start.placement, <<>>, left))))
  BY Zenon DEF Prove
<1>2. /\ start.placement = out.placement /\ start.cost = out.cost /\ start.bound = out.bound
      /\ start.proved = (out.cost <= out.bound)
  BY <1>0 DEF Planned, Improved
<1>3. Endable(start)
  <2>1. out.cost <= out.bound => out.cost <= least
    BY <1>0 DEF Planned, Places
  <2> QED
    BY <1>0, <1>2, <2>1 DEF Planned
<1> HIDE DEF start, least
<1>4. ASSUME NEW o, Endable(o), Return(Assembled(o)) PROVE EngineSound'
  <2>1. PICK a : a = Assembled(o)
    OBVIOUS
  <2>2. AnswerSound(wire, "worker", a)
    BY <1>0, <1>4, <2>1, AssembledSound DEF least
  <2> QED
    BY <1>4, <2>1, <2>2, ReturnSound
<1>5. PICK first : first = start
  OBVIOUS
<1>6. CASE start.proved \/ left <= 0
  <2>1. Return(Assembled(first)) /\ Endable(first)
    BY <1>1, <1>3, <1>5, <1>6, Zenon
  <2> QED
    BY <1>4, <2>1
<1>7. CASE ~(start.proved \/ left <= 0)
  <2>1. PICK r : r = Pass2(B, sel.kept, out.placement, <<>>, left)
    OBVIOUS
  <2>2. r.descents # 0 => Places(wire, sel.kept, r.placement, r.cost) /\ Bounds(wire, sel.kept, r)
    BY <1>0, <1>7, <2>1, Zenon DEF SearchesSound, ProofSound
  <2>3. PICK o : o = Ended(first, r)
    OBVIOUS
  <2>4. Return(Assembled(o))
    BY <1>1, <1>2, <1>5, <1>7, <2>1, <2>3, Zenon
  <2>5. CASE r.descents = 0
    BY <1>3, <1>4, <1>5, <2>3, <2>4, <2>5
  <2>6. CASE r.descents # 0
    <3>1. o.placement = r.placement /\ o.cost = r.cost /\ o.proved = r.proved /\ o.bound = BoundOf(r)
      BY <2>3, <2>6
    <3>2. Endable(o)
      BY <2>2, <2>6, <3>1 DEF Bounds, BoundOf, Places, least
    <3> QED
      BY <1>4, <2>4, <3>2
  <2> QED
    BY <2>5, <2>6
<1> QED
  BY <1>6, <1>7

\* The engine's step.
LEMMA EngineStepSound ==
    ASSUME SearchesSound, EngineSound, wire \in DOMAIN Wires, EngineStep, wire' = wire
    PROVE  EngineSound'
  BY OverlapSound, RunSelectionSound, EvaluateRootSound, NextRoundSound, StarvedSound,
     ImproveRoundSound, ProveSound DEF EngineStep

-----------------------------------------------------------------------------
(* The container's steps.                                                  *)

\* The container refuses.
LEMMA ContainerUnsatSound ==
    ASSUME NEW core, ContainerUnsat(core), core # {} => Hopeless(wire) /\ ~Satisfiable(Wires[wire], core),
           wire' = wire
    PROVE  ContainerSound'
<1>1. PICK a : a = [NoReply EXCEPT !.status = "UNSAT", !.core = core]
  OBVIOUS
<1>2. a.status = "UNSAT" /\ a.core = core
  BY <1>1 DEF NoReply
<1>3. AnswerSound(wire, "container", a)
  BY <1>2 DEF AnswerSound, Explained, WithEvents
<1> QED
  BY <1>1, <1>3 DEF ContainerUnsat, Cleared, ContainerSound

\* Its first pass.
LEMMA FirstPassSound ==
    ASSUME wire \in DOMAIN Wires, ContainerSound, FirstPass, wire' = wire
    PROVE  ContainerSound'
<1>1. CASE TRUE \in Quitting /\ ContainerUnsat({})
  <2>1. PICK core : core = {}
    OBVIOUS
  <2> QED
    BY <1>1, <2>1, ContainerUnsatSound
<1>2. CASE \E first \in {FirstModel(demotedC)} :
             IF first = {} THEN cpc' = "core" /\ UNCHANGED <<path, demotedC, found, reply>>
             ELSE \E K \in first :
                    /\ TRUE \in Quitting \/ DropPenalty(W, K) = MinOf({DropPenalty(W, L) : L \in first})
                    /\ found' = K /\ cpc' = "pass2" /\ UNCHANGED <<path, demotedC, reply>>
  <2>1. CASE cpc' = "core" /\ UNCHANGED <<path, demotedC, found, reply>>
    BY <2>1 DEF ContainerSound
  <2>2. CASE \E K \in FirstModel(demotedC) :
               found' = K /\ cpc' = "pass2" /\ UNCHANGED <<path, demotedC, reply>>
    <3>1. PICK K \in FirstModel(demotedC) :
            found' = K /\ cpc' = "pass2" /\ UNCHANGED <<path, demotedC, reply>>
      BY <2>2
    <3>2. K \in Kept(Wires[wire]) /\ MustOf(Wires[wire]) \ demotedC \subseteq K
      BY TablesAre DEF FirstModel, W
    <3> QED
      BY <3>1, <3>2 DEF ContainerSound
  <2>3. PICK first \in {FirstModel(demotedC)} :
          IF first = {} THEN cpc' = "core" /\ UNCHANGED <<path, demotedC, found, reply>>
          ELSE \E K \in first :
                 /\ TRUE \in Quitting \/ DropPenalty(W, K) = MinOf({DropPenalty(W, L) : L \in first})
                 /\ found' = K /\ cpc' = "pass2" /\ UNCHANGED <<path, demotedC, reply>>
    BY <1>2
  <2>4. first # {} => \E K \in first : found' = K /\ cpc' = "pass2" /\ UNCHANGED <<path, demotedC, reply>>
    BY <2>3, Zenon
  <2> QED
    BY <2>1, <2>2, <2>3, <2>4
<1> QED
  BY <1>1, <1>2, Zenon DEF FirstPass

\* The mandatory tasks that fit the week alone are never given up.
LEMMA FindCoreSound ==
    ASSUME wire \in DOMAIN Wires, ContainerSound, FindCore, wire' = wire
    PROVE  ContainerSound'
<1>0. demotedC \cap Alone1[wire] = {}
  BY DEF ContainerSound
<1>1. ASSUME NEW t \in MustOf(Wires[wire]) PROVE IsolationFeasible(t) <=> t \in Alone1[wire]
  <2>1. PICK alone : alone = [Wires[wire] EXCEPT !.tasks = <<[Wires[wire].tasks[t] EXCEPT !.deps = <<>>]>>]
    OBVIOUS
  <2>2. Satisfiable(alone, Literals(alone)) <=> t \in Alone1[wire]
    BY <2>1, AloneTables
  <2> QED
    BY <2>1, <2>2 DEF IsolationFeasible, Alone, W
<1>2. CASE \E core \in Cores(demotedC) :
             IF Demotable(core) # {}
             THEN demotedC' = demotedC \cup Demotable(core) /\ cpc' = "pass1" /\ UNCHANGED <<path, found, reply>>
             ELSE ContainerUnsat(core)
  <2>1. PICK core \in Cores(demotedC) :
             IF Demotable(core) # {}
             THEN demotedC' = demotedC \cup Demotable(core) /\ cpc' = "pass1" /\ UNCHANGED <<path, found, reply>>
             ELSE ContainerUnsat(core)
    BY <1>2
  <2>2. CASE Demotable(core) # {}
    <3>1. Demotable(core) \cap Alone1[wire] = {}
      BY <1>1 DEF Demotable, W
    <3> QED
      BY <1>0, <2>1, <2>2, <3>1 DEF ContainerSound
  <2>3. CASE Demotable(core) = {}
    <3>1. PICK S \in Kept(Wires[wire]) :
            core = Assumed(S, demotedC) /\ ~Satisfiable(Wires[wire], Assumed(S, demotedC))
      BY Zenon DEF Cores, W
    <3>2. core \subseteq Literals(Wires[wire])
      BY <3>1 DEF Assumed, Literals, Kept, W
    <3>3. ASSUME NEW t \in MustOf(Wires[wire]), <<"task_present", t, 0>> \in core PROVE t \in Alone1[wire]
      <4>1. t \notin demotedC
        BY <3>1, <3>3 DEF Assumed
      <4> QED
        BY <1>1, <2>3, <3>3, <4>1 DEF Demotable, W
    <3>4. ~Satisfiable(Wires[wire], core)
      BY <3>1
    <3>5. Hopeless(wire)
      BY <3>2, <3>3, <3>4, CoreHopeless
    <3> QED
      BY <2>1, <2>3, <3>4, <3>5, ContainerUnsatSound
  <2> QED
    BY <2>2, <2>3
<1>3. CASE path' = "legacy" /\ demotedC' = {} /\ cpc' = "pass1" /\ UNCHANGED <<found, reply>>
  BY <1>3 DEF ContainerSound
<1> QED
  BY <1>2, <1>3, Zenon DEF FindCore

\* Its second pass, and the reply.
LEMMA SecondPassSound ==
    ASSUME wire \in DOMAIN Wires, ContainerSound, SearchesSound, SecondPass, wire' = wire
    PROVE  ContainerSound'
<1> DEFINE cost(s, x) == IF path = "legacy" /\ s = "PASS1_FALLBACK" THEN 0 ELSE PlacementCost(W, found, x)
           p == Wires[wire]
           from(s) == IF s = "PASS1_FALLBACK" THEN Model[found].xs ELSE SecondModel(found)
<1>0. /\ cpc = "pass2" /\ demotedC \cap Alone1[wire] = {}
      /\ found \in Kept(p) /\ MustOf(p) \ demotedC \subseteq found
  BY DEF ContainerSound, SecondPass
<1>1. PICK s \in {"OPTIMAL", "FEASIBLE", "PASS1_FALLBACK"} :
        \E x \in from(s) :
          /\ s = "OPTIMAL" => SecondCost(found, x) = Model[found].least
          /\ reply' = [NoReply EXCEPT !.status = s, !.kept = found, !.placement = x, !.demoted = demotedC,
                                      !.cost = cost(s, x)]
  BY Zenon DEF SecondPass
<1>2. PICK x \in from(s) :
        /\ s = "OPTIMAL" => SecondCost(found, x) = Model[found].least
        /\ reply' = [NoReply EXCEPT !.status = s, !.kept = found, !.placement = x, !.demoted = demotedC,
                                    !.cost = cost(s, x)]
  BY <1>1
<1>3. /\ \A t \in (DOMAIN p.tasks) \ found : Floats(p, Literals(p), t)
      /\ Reached[wire][found] \in Int
      /\ Reached[wire][found] >= 0 => Model[found].least \in 0..Reached[wire][found]
      /\ \A y \in SecondModel(found) :
           /\ PlacementCost(p, found, y) \in Nat /\ Straddled(p, y) \in Nat
           /\ PlacementCost(p, found, y) <= SecondCost(found, y) + Straddled(p, y)
  BY <1>0, Zenon DEF SearchesSound, ModelsAgree, W
<1>4. IsProblem(p) /\ found \subseteq DOMAIN p.tasks
  BY <1>0, WiresAssumption DEF Kept
<1>t. /\ Reference[wire][found].xs = Placements(p, Literals(p), found)
      /\ Fast[wire][found].xs = FastPlacements(p, found)
      /\ Reference[wire][found].priced \subseteq Reference[wire][found].xs
      /\ Fast[wire][found].priced \subseteq Fast[wire][found].xs
  BY <1>0, TablesAre
<1> HIDE DEF p
<1>5. x \in Reference[wire][found].xs
  <2>1. x \in Model[found].xs
    BY <1>2, <1>t DEF SecondModel, Model
  <2>2. CASE path = "fast"
    <3>1. FastPlacements(p, found) \subseteq Placements(p, Literals(p), found)
      BY <1>3, <1>4, FastIsReference
    <3> QED
      BY <1>t, <2>1, <2>2, <3>1 DEF Model
  <2>3. CASE path # "fast"
    BY <2>1, <2>3 DEF Model
  <2> QED
    BY <2>2, <2>3
<1>6. (s = "OPTIMAL" /\ Reached[wire][found] >= 0) =>
        PlacementCost(p, found, x) <= Reached[wire][found] + Straddled(p, x)
  <2> SUFFICES ASSUME s = "OPTIMAL", Reached[wire][found] >= 0
               PROVE  PlacementCost(p, found, x) <= Reached[wire][found] + Straddled(p, x)
    OBVIOUS
  <2>1. x \in SecondModel(found) /\ SecondCost(found, x) \in 0..Reached[wire][found]
    BY <1>2, <1>3
  <2> QED
    BY <1>3, <2>1
<1>7. PICK a : a = reply'
  OBVIOUS
<1>8. /\ a.status = s /\ a.kept = found /\ a.placement = x /\ a.demoted = demotedC
      /\ s # "PASS1_FALLBACK" => a.cost = PlacementCost(p, found, x)
  BY <1>2, <1>7 DEF NoReply, W, p
<1>9. s \in {"OPTIMAL", "FEASIBLE", "PASS1_FALLBACK"}
  BY <1>1
<1>10. AnswerSound(wire, "container", a)
  <2>1. IsLegalPlan(wire, a) /\ a.kept \in Kept(Wires[wire]) /\ a.status # "UNSAT"
    BY <1>0, <1>5, <1>8, <1>9 DEF IsLegalPlan, p
  <2>2. Truthful(wire, "container", a)
    BY <1>6, <1>8 DEF Truthful, p
  <2> QED
    BY <2>1, <2>2 DEF AnswerSound
<1> QED
  BY <1>7, <1>10 DEF SecondPass, Cleared, ContainerSound

-----------------------------------------------------------------------------
(* The whole service.                                                      *)

\* What an answer tells of the problem.
LEMMA AnswerTells ==
    ASSUME NEW i \in DOMAIN Wires, NEW by, NEW a, AnswerSound(i, by, a)
    PROVE  /\ (a.status = "UNSAT" /\ (by = "worker" \/ a.core # {})) => Hopeless(i)
           /\ a.status # "UNSAT" => ~Hopeless(i)
  BY PlanHopeful DEF AnswerSound

\* The invariant holds at first.
LEMMA SolveInvInit == Init => SolveInv
<1> SUFFICES ASSUME Init PROVE SolveInv
  OBVIOUS
<1>1. IsList(<<>>)
  BY DEF IsList
<1>2. EngineSound
  <2>1. pc = "idle" /\ rounds = NoRounds /\ rpc = NoSession
    BY DEF Init, EngineInit
  <2>2. RunFields
    BY <1>1, <2>1 DEF RunFields, NoRounds, NoSession
  <2> QED
    BY <2>1, <2>2 DEF EngineSound
<1>3. ContainerSound
  BY DEF Init, ContainerInit, ContainerSound
<1>4. ServiceSound
  BY DEF Init, ServiceSound, NotServed
<1> QED
  BY <1>2, <1>3, <1>4 DEF SolveInv, Init

\* The run is dropped.
LEMMA EndsSound == ASSUME EngineEnds, wire' = wire PROVE EngineSound'
<1>1. IsList(<<>>)
  BY DEF IsList
<1> QED
  BY <1>1 DEF EngineEnds, EngineSound, RunFields, NoRounds, NoSession

\* Every step keeps it.
LEMMA SolveInvStep == SolveInv /\ SearchesSound /\ [Next]_vars => SolveInv'
<1> SUFFICES ASSUME SolveInv, SearchesSound, [Next]_vars PROVE SolveInv'
  OBVIOUS
<1> USE DEF SolveInv
<1>1. CASE Start
  <2>1. UNCHANGED <<wire, sel, out, budget, rounds, rpc, local, answer, containerVars,
                    mode, said, tried, served, disagreed>> /\ spc # "served" /\ pc' \in {pc, "new"}
    BY <1>1 DEF Start
  <2>2. EngineSound'
    BY <2>1 DEF EngineSound, RunFields
  <2>3. ContainerSound'
    BY <2>1 DEF ContainerSound, containerVars
  <2>4. ServiceSound'
    BY <2>1 DEF ServiceSound
  <2> QED
    BY <2>1, <2>2, <2>3, <2>4
<1>2. CASE EngineRuns
  <2>1. EngineStep /\ UNCHANGED <<wire, containerVars, serviceVars>>
    BY <1>2 DEF EngineRuns
  <2>2. EngineSound'
    BY <2>1, EngineStepSound
  <2>3. ContainerSound'
    BY <2>1 DEF ContainerSound, containerVars
  <2>4. ServiceSound'
    BY <2>1 DEF ServiceSound, serviceVars
  <2> QED
    BY <2>1, <2>2, <2>3, <2>4
<1>3. CASE EngineThrows
  <2>1. EngineEnds /\ UNCHANGED <<wire, containerVars, mode, tried, disagreed>> /\ spc = "engine"
    BY <1>3 DEF EngineThrows
  <2>2. EngineSound'
    BY <2>1, EndsSound
  <2>3. ContainerSound'
    BY <2>1 DEF ContainerSound, containerVars
  <2>4. \/ served'.kind = "solver_error" /\ said' = said
        \/ served' = served /\ said' = ""
    <3>1. IF mode = "worker" THEN Served("solver_error", "worker", 500) /\ UNCHANGED said ELSE FallBack("")
      BY <1>3 DEF EngineThrows
    <3>2. CASE mode = "worker"
      <4>1. Served("solver_error", "worker", 500) /\ said' = said
        BY <3>1, <3>2
      <4>2. served' = [kind |-> "solver_error", by |-> "worker", body |-> 500]
        BY <4>1, Zenon DEF Served
      <4> QED
        BY <4>1, <4>2
    <3>3. CASE mode # "worker"
      BY <3>1, <3>3 DEF FallBack
    <3> QED
      BY <3>2, <3>3
  <2>5. ServiceSound'
    BY <2>1, <2>4 DEF ServiceSound
  <2> QED
    BY <2>1, <2>2, <2>3, <2>5
<1>4. CASE EngineAnswers
  <2>1. /\ EngineEnds /\ UNCHANGED <<wire, containerVars, mode, tried, disagreed>> /\ spc = "engine"
        /\ AnswerSound(wire, "worker", answer)
    BY <1>4 DEF EngineAnswers, EngineSound
  <2>2. EngineSound'
    BY <2>1, EndsSound
  <2>3. ContainerSound'
    BY <2>1 DEF ContainerSound, containerVars
  <2>4. PICK a : a = answer
    OBVIOUS
  <2>5. \/ /\ served' = [kind |-> IF a.status = "UNSAT" THEN "unsat" ELSE "solution", by |-> "worker", body |-> a]
           /\ said' = said
        \/ served' = served /\ said' = IF a.status = "UNSAT" THEN "unsat" ELSE "plan"
    BY <1>4, <2>4 DEF EngineAnswers, EngineServed, Verdict, Served, FallBack
  <2>6. /\ a.status = "UNSAT" => Hopeless(wire) /\ Explained(Wires[wire], "worker", a)
        /\ a.status # "UNSAT" => ~Hopeless(wire) /\ IsLegalPlan(wire, a) /\ Truthful(wire, "worker", a)
    BY <2>1, <2>4, AnswerTells DEF AnswerSound
  <2>7. ServiceSound'
    BY <2>1, <2>5, <2>6 DEF ServiceSound
  <2> QED
    BY <2>1, <2>2, <2>3, <2>7
<1>5. CASE Request
  <2>1. UNCHANGED <<wire, engineVars, path, demotedC, found, reply, mode, spc, said, served, disagreed>>
        /\ cpc' = "pass1"
    BY <1>5 DEF Request
  <2>2. EngineSound'
    BY <2>1 DEF EngineSound, RunFields, engineVars
  <2>3. ContainerSound'
    BY <2>1 DEF ContainerSound
  <2>4. ServiceSound'
    BY <2>1 DEF ServiceSound
  <2> QED
    BY <2>1, <2>2, <2>3, <2>4
<1>6. CASE ContainerRuns
  <2>1. ContainerStep /\ UNCHANGED <<wire, engineVars, serviceVars>>
    BY <1>6 DEF ContainerRuns
  <2>2. EngineSound'
    BY <2>1 DEF EngineSound, RunFields, engineVars
  <2>3. ContainerSound'
    BY <2>1, FirstPassSound, FindCoreSound, SecondPassSound DEF ContainerStep
  <2>4. ServiceSound'
    BY <2>1 DEF ServiceSound, serviceVars
  <2> QED
    BY <2>1, <2>2, <2>3, <2>4
<1>7. CASE RequestFails
  <2>1. /\ UNCHANGED <<wire, engineVars, mode, said, tried, disagreed>> /\ spc = "container"
        /\ cpc' = "idle" /\ demotedC' = {}
        /\ served' = served \/ served'.kind = "solver_error"
    BY <1>7 DEF RequestFails, Cleared, Served
  <2>2. EngineSound'
    BY <2>1 DEF EngineSound, RunFields, engineVars
  <2>3. ContainerSound'
    BY <2>1 DEF ContainerSound
  <2>4. ServiceSound'
    BY <2>1 DEF ServiceSound
  <2> QED
    BY <2>1, <2>2, <2>3, <2>4
<1>8. CASE ContainerAnswers
  <2>1. /\ UNCHANGED <<wire, engineVars, mode, said, tried>> /\ cpc' = "idle" /\ demotedC' = {}
        /\ AnswerSound(wire, "container", reply)
    BY <1>8 DEF ContainerAnswers, Cleared, ContainerSound
  <2>2. EngineSound'
    BY <2>1 DEF EngineSound, RunFields, engineVars
  <2>3. ContainerSound'
    BY <2>1 DEF ContainerSound
  <2>4. PICK a : a = reply
    OBVIOUS
  <2>5. /\ served' = [kind |-> IF a.status = "UNSAT" THEN "unsat" ELSE "solution", by |-> "container", body |-> a]
        /\ spc' = "served"
        /\ disagreed' <=> said = (IF a.status = "UNSAT" THEN "plan" ELSE "unsat")
    BY <1>8, <2>4 DEF ContainerAnswers, Served, Disagrees
  <2>6. /\ a.status = "UNSAT" => Explained(Wires[wire], "container", a) /\ (a.core # {} => Hopeless(wire))
        /\ a.status # "UNSAT" => ~Hopeless(wire) /\ IsLegalPlan(wire, a) /\ Truthful(wire, "container", a)
    BY <2>1, <2>4, AnswerTells DEF AnswerSound
  <2>7. ServiceSound'
    BY <2>1, <2>5, <2>6 DEF ServiceSound
  <2> QED
    BY <2>1, <2>2, <2>3, <2>7
<1>9. CASE UNCHANGED vars
  BY <1>9 DEF vars, engineVars, containerVars, serviceVars, EngineSound, RunFields, ContainerSound, ServiceSound
<1> QED
  BY <1>1, <1>2, <1>3, <1>4, <1>5, <1>6, <1>7, <1>8, <1>9 DEF Next

\* As long as the searches are truthful, what either solver answers, and what
\* it holds on the way, is sound.
THEOREM SolveInvariant == Spec /\ []SearchesSound => []SolveInv
  BY SolveInvInit, SolveInvStep, PTL DEF Spec

\* A plan that is served satisfies every hard constraint of the reference
\* model, whichever solver made it and whatever failed on the way
\* (resolve-internal.ts solveForResolve).
THEOREM ServedPlansAreLegal == Spec /\ []SearchesSound => []ServedIsLegal
<1>1. SolveInv => ServedIsLegal
  BY DEF SolveInv, ServiceSound, ServedIsLegal
<1> QED
  BY <1>1, SolveInvariant, PTL

\* What is reported of it is true, an OPTIMAL and a bound gap included, up to the
\* price of the capped slots that lie across an end of the window's days or after
\* the last whole one (pass2.ts energeticCapFloor, fast_model.py _add_daily_cap_terms).
THEOREM CertificatesAreTrue == Spec /\ []SearchesSound => []CertifiedIsBest
<1>1. SolveInv => CertifiedIsBest
  BY DEF SolveInv, ServiceSound, CertifiedIsBest
<1> QED
  BY <1>1, SolveInvariant, PTL

\* The conflict of a 422 cannot hold together.
THEOREM ConflictsExplain == Spec /\ []SearchesSound => []CoreExplains
<1>1. SolveInv => CoreExplains
  BY DEF SolveInv, ServiceSound, CoreExplains, W
<1> QED
  BY <1>1, SolveInvariant, PTL

\* The two solvers never contradict each other on whether a week can be
\* planned, however differently they search (model.py's cores and demotions
\* against engine/mus.ts).
THEOREM SolversNeverContradict == Spec /\ []SearchesSound => []NeverContradicts
<1>1. SolveInv => NeverContradicts
  BY DEF SolveInv, ServiceSound, NeverContradicts
<1> QED
  BY <1>1, SolveInvariant, PTL

\* Leaves that fail leave the plan what it is without them, and one that lies
\* never breaks it (engine/fanout.ts).
THEOREM LeavesAreHarmless == Spec /\ []SearchesSound => []LeavesNeverMatter
<1>1. SolveInv => LeavesNeverMatter
  BY DEF SolveInv, EngineSound, Planned, Places, LeavesNeverMatter
<1> QED
  BY <1>1, SolveInvariant, PTL
=============================================================================
