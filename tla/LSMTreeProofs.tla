--------------------------- MODULE LSMTreeProofs ---------------------------
(***************************************************************************)
(* The proofs that the tree of tables keeps newer updates above older      *)
(* ones, keeps the files of a level apart, and answers every read with     *)
(* the newest update the reader may see; and that it therefore implements  *)
(* the store of KVStore.                                                   *)
(***************************************************************************)
EXTENDS LSMTree, TLAPS, FiniteSetTheorems, NaturalsInduction, WellFoundedInduction,
        FunctionTheorems

-----------------------------------------------------------------------------
(* The inductive invariant. It speaks of updates and the sets they are in;  *)
(* smallest and largest follow from the sets.                               *)

Updates == 1..Len(hist)

Tables == (SUBSET Updates) \ {{}}

\* The order of internal keys, on updates.
Before(s, t) == Less(InternalKey(s), InternalKey(t))

\* All of f comes before all of g.
Below(f, g) == \A s \in f, t \in g : Before(s, t)

\* No update of g for a key of f is as old as one of f.
OlderThan(f, g) == \A s \in f, t \in g : hist[s].key = hist[t].key => s < t

Stored(level) == UNION Files(level)

Held == mem \cup imm \cup UNION {Stored(level) : level \in Levels}

TreeType ==
  /\ hist \in Seq([key : Keys, type : {"value", "deletion"}]) /\ Len(hist) <= MaxWrites
  /\ mem \subseteq Updates /\ imm \subseteq Updates
  /\ has_imm \in BOOLEAN /\ (~has_imm => imm = {})
  /\ files \in [Levels -> Seq(Tables)]
  /\ snapshots \subseteq 0..Len(hist)
  /\ bg_error \in BOOLEAN

\* The memtables and the files of level 0 follow each other in time.
Aged ==
  /\ \A s \in mem, t \in imm : t < s
  /\ \A level \in Levels : \A t \in Stored(level) : (\A s \in mem : t < s) /\ (\A s \in imm : t < s)
  /\ \A i, j \in DOMAIN files[0] : i < j => \A s \in files[0][i], t \in files[0][j] : s < t

\* An update of a key in a deeper level is older.
Layered ==
  \A l, m \in Levels : l < m => OlderThan(Stored(m), Stored(l))

\* Below level 0 the files of a level are in the order of their keys.
InKeyOrder ==
  \A level \in Levels \ {0} : \A i, j \in DOMAIN files[level] :
    i < j => Below(files[level][i], files[level][j])

IsNewest(n, k, s) ==
  /\ n \in Updates /\ n <= s /\ hist[n].key = k
  /\ \A t \in Updates : t <= s /\ hist[t].key = k => t <= n

\* What a reader must find is held; or it is a deletion, and nothing older of
\* its key is.
Complete ==
  \A k \in Keys, s \in snapshots \cup {Len(hist)}, n \in Updates : IsNewest(n, k, s) =>
    \/ n \in Held
    \/ hist[n].type = "deletion" /\ \A t \in Held : hist[t].key = k => n < t

\* Key k lies between two keys of f.
Spans(f, k) == (\E s \in f : hist[s].key <= k) /\ (\E t \in f : k <= hist[t].key)

\* The files have no gap between them.
Covered(fs) == \A k \in Keys : Spans(UNION fs, k) => \E f \in fs : Spans(f, k)

\* The inputs of a compaction of level: files of its two levels, which leave
\* no older update of their keys behind in these levels, and between whose
\* keys there is no other file of the level the outputs go to.
GoodInputs(level, inputs0, inputs1) ==
  LET U == UNION (inputs0 \cup inputs1)
  IN  /\ level \in Levels /\ level + 1 \in Levels
      /\ inputs0 \subseteq Files(level) /\ inputs1 \subseteq Files(level + 1) /\ inputs0 # {}
      /\ \A g \in Files(level) \ inputs0 : OlderThan(U, g)
      /\ \A g \in Files(level + 1) \ inputs1 : OlderThan(U, g) /\ (Below(g, U) \/ Below(U, g))

\* The compaction under way: no reader has a snapshot below the one it goes
\* by, the levels further down hold nothing older that it has not seen, and no
\* flush meanwhile fits into a gap of its inputs.
JobInv(c) ==
  /\ GoodInputs(c.level, c.inputs0, c.inputs1)
  /\ c.kind \in {"automatic", "manual"} /\ (c.kind = "manual" => ManualRanges # {})
  /\ c.smallest_snapshot \in 0..Len(hist) /\ \A s \in snapshots : c.smallest_snapshot <= s
  /\ c.input_version \in [Levels -> Seq(Tables)]
  /\ \A l \in Levels : l >= c.level + 2 => \A g \in Files(l) :
       g \in Range(c.input_version[l]) \/ OlderThan(MakeInputIterator(c), g)
  /\ c.kind \in FlushDuring => Covered(c.inputs0 \cup c.inputs1)

Working == job = <<>> \/ \E c \in Range(job) : job = <<c>> /\ JobInv(c)

LSMInv == TreeType /\ Aged /\ Layered /\ InKeyOrder /\ Complete /\ Working

\* No memtable is flushed during a manual compaction.
QuietManual == "manual" \in FlushDuring => ManualRanges = {}

-----------------------------------------------------------------------------
(* Finite sets in order.                                                    *)

\* Every set of numbers that is not empty has a least one.
LEMMA LeastNumberOf ==
  ASSUME NEW T, T \subseteq Nat, T # {}
  PROVE  \E x \in T : \A y \in T : x <= y
<1>1. PICK x \in T : \A y \in T : ~(<<y, x>> \in OpToRel(<, Nat))
  BY WFMin, NatLessThanWellFounded
<1>2. ASSUME NEW y \in T PROVE x <= y
  <2>1. x \in Nat /\ y \in Nat
    OBVIOUS
  <2>2. y < x => <<y, x>> \in OpToRel(<, Nat)
    BY <2>1 DEF OpToRel
  <2>3. ~(<<y, x>> \in OpToRel(<, Nat))
    BY <1>1, Zenon
  <2>4. ~(y < x)
    BY <2>2, <2>3, Zenon
  <2> QED
    BY <2>1, <2>4
<1> QED
  BY <1>2

\* R puts the elements of S in a strict order.
StrictOrder(S, R) ==
  /\ \A x \in S : <<x, x>> \notin R
  /\ \A x, y \in S : x # y => <<x, y>> \in R \/ <<y, x>> \in R
  /\ \A x, y, z \in S : <<x, y>> \in R /\ <<y, z>> \in R => <<x, z>> \in R

LEMMA SuborderIsStrict ==
  ASSUME NEW S, NEW R, StrictOrder(S, R), NEW T, T \subseteq S
  PROVE  StrictOrder(T, R)
BY DEF StrictOrder

IsLast(m, S, R) == m \in S /\ \A x \in S \ {m} : <<x, m>> \in R

\* k is the size of a set that is not empty and has no last element.
LastMissing(k, X, R) ==
  \E S \in SUBSET X : /\ IsFiniteSet(S) /\ Cardinality(S) = k /\ S # {} /\ ~ \E m : IsLast(m, S, R)

LEMMA LastExists ==
  ASSUME NEW X, NEW R, IsFiniteSet(X), X # {}, StrictOrder(X, R)
  PROVE  \E m : IsLast(m, X, R)
<1> SUFFICES ASSUME ~ \E m : IsLast(m, X, R) PROVE FALSE
  OBVIOUS
<1> DEFINE K == {k \in Nat : LastMissing(k, X, R)}
<1>1. Cardinality(X) \in K
  <2>1. Cardinality(X) \in Nat
    BY FS_CardinalityType
  <2> QED
    BY <2>1 DEF LastMissing
<1>2. PICK k \in K : \A j \in K : k <= j
  <2>1. K \subseteq Nat /\ K # {}
    BY <1>1
  <2> HIDE DEF K
  <2> QED
    BY <2>1, LeastNumberOf
<1>3. PICK S \in SUBSET X : /\ IsFiniteSet(S) /\ Cardinality(S) = k /\ S # {}
                            /\ ~ \E m : IsLast(m, S, R)
  BY DEF LastMissing
<1>4. PICK x \in S : TRUE
  BY <1>3
<1> DEFINE T == S \ {x}
<1>5. IsFiniteSet(T) /\ Cardinality(T) = k - 1 /\ Cardinality(T) \in Nat /\ k \in Nat
  <2>1. IsFiniteSet(T) /\ Cardinality(T) = Cardinality(S) - 1
    BY <1>3, FS_RemoveElement
  <2> QED
    BY <1>3, <2>1, FS_CardinalityType
<1>6. ~LastMissing(k - 1, X, R)
  <2>1. k - 1 \in Nat /\ ~(k <= k - 1)
    BY <1>5
  <2>2. k - 1 \notin K
    BY <1>2, <2>1
  <2> QED
    BY <2>1, <2>2
<1>7. T # {}
  <2>1. SUFFICES ASSUME T = {} PROVE FALSE
    OBVIOUS
  <2>2. IsLast(x, S, R)
    BY <2>1 DEF IsLast
  <2> QED
    BY <1>3, <2>2
<1>8. PICK m : IsLast(m, T, R)
  <2>1. T \in SUBSET X
    OBVIOUS
  <2> QED
    BY <1>5, <1>6, <1>7, <2>1 DEF LastMissing
<1>9. m \in T /\ m \in X /\ x \in X /\ m # x
  BY <1>8 DEF IsLast
<1>10. CASE <<x, m>> \in R
  <2>1. IsLast(m, S, R)
    BY <1>8, <1>9, <1>10 DEF IsLast
  <2> QED
    BY <1>3, <2>1
<1>11. CASE <<m, x>> \in R
  <2>1. ASSUME NEW y \in S \ {x} PROVE <<y, x>> \in R
    <3>1. y \in X /\ (y = m \/ <<y, m>> \in R)
      BY <1>8 DEF IsLast
    <3> QED
      BY <1>9, <1>11, <3>1 DEF StrictOrder
  <2>2. IsLast(x, S, R)
    BY <2>1 DEF IsLast
  <2> QED
    BY <1>3, <2>2
<1> QED
  BY <1>9, <1>10, <1>11 DEF StrictOrder

\* p lists S in the order of R.
Lists(p, S, R) ==
  /\ p \in [1..Cardinality(S) -> S]
  /\ \A i, j \in 1..Cardinality(S) : i < j => <<p[i], p[j]>> \in R

ListMissing(k, X, R) ==
  \E S \in SUBSET X : IsFiniteSet(S) /\ Cardinality(S) = k /\ ~ \E p : Lists(p, S, R)

LEMMA ListExists ==
  ASSUME NEW X, NEW R, IsFiniteSet(X), StrictOrder(X, R)
  PROVE  \E p : Lists(p, X, R)
<1> SUFFICES ASSUME ~ \E p : Lists(p, X, R) PROVE FALSE
  OBVIOUS
<1> DEFINE K == {k \in Nat : ListMissing(k, X, R)}
<1>1. Cardinality(X) \in K
  <2>1. Cardinality(X) \in Nat
    BY FS_CardinalityType
  <2> QED
    BY <2>1 DEF ListMissing
<1>2. PICK k \in K : \A j \in K : k <= j
  <2>1. K \subseteq Nat /\ K # {}
    BY <1>1
  <2> HIDE DEF K
  <2> QED
    BY <2>1, LeastNumberOf
<1>3. PICK S \in SUBSET X : IsFiniteSet(S) /\ Cardinality(S) = k /\ ~ \E p : Lists(p, S, R)
  BY DEF ListMissing
<1>4. S # {}
  <2>1. SUFFICES ASSUME S = {} PROVE FALSE
    OBVIOUS
  <2>2. Cardinality(S) = 0
    BY <2>1, FS_EmptySet
  <2>3. 1..Cardinality(S) = {}
    BY <2>2
  <2>4. Lists([i \in {} |-> i], S, R)
    BY <2>1, <2>3 DEF Lists
  <2> QED
    BY <1>3, <2>4
<1>5. PICK m : IsLast(m, S, R)
  <2>1. StrictOrder(S, R)
    BY SuborderIsStrict
  <2> QED
    BY <1>3, <1>4, <2>1, LastExists
<1> DEFINE T == S \ {m}
<1>6. IsFiniteSet(T) /\ Cardinality(T) = k - 1 /\ Cardinality(T) \in Nat /\ k \in Nat
  <2>1. m \in S
    BY <1>5 DEF IsLast
  <2>2. IsFiniteSet(T) /\ Cardinality(T) = Cardinality(S) - 1
    BY <1>3, <2>1, FS_RemoveElement
  <2> QED
    BY <1>3, <2>2, FS_CardinalityType
<1>7. PICK p : Lists(p, T, R)
  <2>1. k - 1 \in Nat /\ ~(k <= k - 1)
    BY <1>6
  <2>2. k - 1 \notin K
    BY <1>2, <2>1
  <2>3. ~ListMissing(k - 1, X, R)
    BY <2>1, <2>2
  <2>4. T \in SUBSET X
    OBVIOUS
  <2> QED
    BY <1>6, <2>3, <2>4 DEF ListMissing
<1> DEFINE q == [i \in 1..k |-> IF i = k THEN m ELSE p[i]]
<1>8. p \in [1..(k - 1) -> T] /\ \A i, j \in 1..(k - 1) : i < j => <<p[i], p[j]>> \in R
  BY <1>6, <1>7 DEF Lists
<1>9. m \in S /\ \A x \in T : <<x, m>> \in R
  BY <1>5 DEF IsLast
<1>10. \A i \in 1..k : i # k => i \in 1..(k - 1)
  BY <1>6
<1>11. q \in [1..k -> S]
  <2>1. ASSUME NEW i \in 1..k PROVE (IF i = k THEN m ELSE p[i]) \in S
    BY <1>8, <1>9, <1>10
  <2> QED
    BY <2>1
<1>12. ASSUME NEW i \in 1..k, NEW j \in 1..k, i < j PROVE <<q[i], q[j]>> \in R
  <2>1. i # k /\ i \in 1..(k - 1)
    BY <1>6, <1>12
  <2>2. p[i] \in T
    BY <1>8, <2>1
  <2>3. CASE j = k
    BY <1>9, <2>1, <2>2, <2>3
  <2>4. CASE j # k
    BY <1>8, <1>10, <1>12, <2>1, <2>4
  <2> QED
    BY <2>3, <2>4
<1>13. Lists(q, S, R)
  <2> HIDE DEF q
  <2> QED
    BY <1>3, <1>11, <1>12 DEF Lists
<1> QED
  BY <1>3, <1>13

\* What InOrder gives: every element once, in the order.
LEMMA InOrderLists ==
  ASSUME NEW S, NEW R, IsFiniteSet(S), StrictOrder(S, R)
  PROVE  /\ InOrder(S, R) \in Seq(S) /\ DOMAIN InOrder(S, R) = 1..Cardinality(S)
         /\ Range(InOrder(S, R)) = S
         /\ \A i, j \in DOMAIN InOrder(S, R) : i < j => <<InOrder(S, R)[i], InOrder(S, R)[j]>> \in R
<1> DEFINE n == Cardinality(S)
           p == InOrder(S, R)
<1>1. n \in Nat
  BY FS_CardinalityType
<1>2. PICK q : Lists(q, S, R)
  BY ListExists
<1>3. q \in [1..n -> S] /\ DOMAIN q = 1..n
  BY <1>2 DEF Lists
<1>4. \E r \in [1..n -> S] : \A i, j \in DOMAIN r : i < j => <<r[i], r[j]>> \in R
  BY <1>2, <1>3 DEF Lists
<1>5. p \in [1..n -> S] /\ \A i, j \in DOMAIN p : i < j => <<p[i], p[j]>> \in R
  BY <1>4, Zenon DEF InOrder
<1> HIDE DEF p
<1>6. DOMAIN p = 1..n
  BY <1>5
<1>7. ASSUME NEW i \in 1..n, NEW j \in 1..n, p[i] = p[j] PROVE i = j
  <2>1. ~(i < j) /\ ~(j < i)
    <3>1. p[i] \in S /\ <<p[i], p[i]>> \notin R
      BY <1>5 DEF StrictOrder
    <3> QED
      BY <1>5, <1>6, <1>7, <3>1
  <2> QED
    BY <1>1, <2>1
<1>8. p \in Injection(1..n, S)
  BY <1>5, <1>7, Fun_IsInj
<1>9. Cardinality(1..n) = n
  BY <1>1, FS_Interval
<1>10. Range(p) = S
  <2>1. p \in Surjection(1..n, S)
    BY <1>8, <1>9, FS_Injection
  <2> QED
    BY <2>1, Fun_SurjectionProperties
<1>11. p \in Seq(S)
  BY <1>1, <1>5
<1> QED
  BY <1>5, <1>6, <1>10, <1>11 DEF p

-----------------------------------------------------------------------------
(* Internal keys.                                                           *)

LEMMA LevelZero == 0 \in Levels /\ Levels \subseteq Nat /\ kNumLevels \in Nat
BY LSMTreeAssumption DEF Levels

LEMMA UpdateType ==
  ASSUME TreeType, NEW s \in Updates
  PROVE  s \in Nat /\ s > 0 /\ hist[s].key \in Nat /\ hist[s].key \in Keys
<1>1. s \in Nat /\ s > 0
  BY DEF TreeType, Updates
<1>2. hist[s] \in [key : Keys, type : {"value", "deletion"}]
  <2> DEFINE E == [key : Keys, type : {"value", "deletion"}]
  <2>1. hist \in Seq(E) /\ s \in 1..Len(hist)
    BY DEF TreeType, Updates
  <2> HIDE DEF E
  <2>2. hist[s] \in E
    BY <2>1
  <2> QED
    BY <2>2 DEF E
<1>3. MaxKey \in Nat
  BY LSMTreeAssumption
<1>4. hist[s].key \in Keys
  BY <1>2
<1> QED
  BY <1>1, <1>3, <1>4 DEF Keys

LEMMA BeforeIs ==
  ASSUME NEW s, NEW t
  PROVE  Before(s, t) <=> hist[s].key < hist[t].key \/ (hist[s].key = hist[t].key /\ s > t)
BY DEF Before, Less, InternalKey

LEMMA BeforeKeys ==
  ASSUME TreeType, NEW s \in Updates, NEW t \in Updates, Before(s, t)
  PROVE  hist[s].key <= hist[t].key
BY UpdateType, BeforeIs

LEMMA BeforeTransitive ==
  ASSUME TreeType, NEW s \in Updates, NEW t \in Updates, NEW u \in Updates
  PROVE  /\ ~Before(s, s)
         /\ s # t => Before(s, t) \/ Before(t, s)
         /\ ~(Before(s, t) /\ Before(t, s))
         /\ Before(s, t) /\ Before(t, u) => Before(s, u)
BY UpdateType, BeforeIs

TablesAreFinite == \A f \in Tables : IsFiniteSet(f) /\ f # {} /\ f \subseteq Updates

LEMMA TablesFinite == ASSUME TreeType PROVE TablesAreFinite
<1>1. Len(hist) \in Nat
  BY DEF TreeType
<1>2. IsFiniteSet(Updates)
  BY <1>1, FS_Interval DEF Updates
<1> QED
  BY <1>2, FS_Subset DEF TablesAreFinite, Tables

LEMMA LastOf ==
  ASSUME TreeType, NEW f \in Tables
  PROVE  \E s \in f : \A t \in f \ {s} : Before(t, s)
<1> DEFINE R == {p \in f \X f : Before(p[1], p[2])}
<1>1. IsFiniteSet(f) /\ f # {} /\ f \subseteq Updates
  BY TablesFinite DEF TablesAreFinite
<1>2. \A s, t \in f : <<s, t>> \in R <=> Before(s, t)
  OBVIOUS
<1>3. StrictOrder(f, R)
  <2> HIDE DEF R
  <2> QED
    BY <1>1, <1>2, BeforeTransitive DEF StrictOrder
<1>4. PICK m : IsLast(m, f, R)
  <2> HIDE DEF R
  <2> QED
    BY <1>1, <1>3, LastExists
<1> QED
  BY <1>2, <1>4 DEF IsLast

LEMMA FirstOf ==
  ASSUME TreeType, NEW f \in Tables
  PROVE  \E s \in f : \A t \in f \ {s} : Before(s, t)
<1> DEFINE R == {p \in f \X f : Before(p[2], p[1])}
<1>1. IsFiniteSet(f) /\ f # {} /\ f \subseteq Updates
  BY TablesFinite DEF TablesAreFinite
<1>2. \A s, t \in f : <<s, t>> \in R <=> Before(t, s)
  OBVIOUS
<1>3. StrictOrder(f, R)
  <2> HIDE DEF R
  <2> QED
    BY <1>1, <1>2, BeforeTransitive DEF StrictOrder
<1>4. PICK m : IsLast(m, f, R)
  <2> HIDE DEF R
  <2> QED
    BY <1>1, <1>3, LastExists
<1> QED
  BY <1>2, <1>4 DEF IsLast

LEMMA Largest ==
  ASSUME TreeType, NEW f \in Tables
  PROVE  \E s \in f : largest(f) = InternalKey(s) /\ \A t \in f \ {s} : Before(t, s)
<1> DEFINE P(s) == \A t \in f \ {s} : Less(InternalKey(t), InternalKey(s))
<1>1. \E s \in f : P(s)
  BY LastOf DEF Before
<1>2. (CHOOSE s \in f : P(s)) \in f /\ P(CHOOSE s \in f : P(s))
  BY <1>1, Zenon
<1> QED
  BY <1>2, Zenon DEF largest, Before

LEMMA Smallest ==
  ASSUME TreeType, NEW f \in Tables
  PROVE  \E s \in f : smallest(f) = InternalKey(s) /\ \A t \in f \ {s} : Before(s, t)
<1> DEFINE P(s) == \A t \in f \ {s} : Less(InternalKey(s), InternalKey(t))
<1>1. \E s \in f : P(s)
  BY FirstOf DEF Before
<1>2. (CHOOSE s \in f : P(s)) \in f /\ P(CHOOSE s \in f : P(s))
  BY <1>1, Zenon
<1> QED
  BY <1>2, Zenon DEF smallest, Before

\* Two ends of a table as keys of its updates.
LEMMA UserRange ==
  ASSUME TreeType, NEW f \in Tables
  PROVE  /\ \E s \in f : user_begin(f) = hist[s].key
         /\ \A s \in f : user_begin(f) <= hist[s].key
         /\ \E s \in f : user_end(f) = hist[s].key
         /\ \A s \in f : hist[s].key <= user_end(f)
         /\ user_begin(f) \in Keys /\ user_end(f) \in Keys
         /\ user_begin(f) \in Nat /\ user_end(f) \in Nat
<1>1. f \subseteq Updates
  BY DEF Tables
<1>2. PICK s \in f : smallest(f) = InternalKey(s) /\ \A t \in f \ {s} : Before(s, t)
  BY Smallest
<1>3. PICK u \in f : largest(f) = InternalKey(u) /\ \A t \in f \ {u} : Before(t, u)
  BY Largest
<1>4. user_begin(f) = hist[s].key
  BY <1>2 DEF user_begin, InternalKey
<1>5. user_end(f) = hist[u].key
  BY <1>3 DEF user_end, InternalKey
<1>6. ASSUME NEW t \in f PROVE hist[s].key <= hist[t].key /\ hist[t].key <= hist[u].key
  BY <1>1, <1>2, <1>3, UpdateType, BeforeIs
<1> QED
  BY <1>1, <1>4, <1>5, <1>6, UpdateType

\* The two ends as bounds.
LEMMA UserBounds ==
  ASSUME TreeType, NEW f \in Tables, NEW k \in Nat
  PROVE  /\ user_begin(f) <= k <=> \E s \in f : hist[s].key <= k
         /\ k <= user_end(f) <=> \E s \in f : k <= hist[s].key
<1>1. f \subseteq Updates
  BY DEF Tables
<1> QED
  BY <1>1, UserRange, UpdateType

LEMMA BelowIsLess ==
  ASSUME TreeType, NEW f \in Tables, NEW g \in Tables
  PROVE  Below(f, g) <=> Less(largest(f), smallest(g))
<1>1. f \subseteq Updates /\ g \subseteq Updates
  BY DEF Tables
<1>2. PICK s \in f : largest(f) = InternalKey(s) /\ \A t \in f \ {s} : Before(t, s)
  BY Largest
<1>3. PICK u \in g : smallest(g) = InternalKey(u) /\ \A t \in g \ {u} : Before(u, t)
  BY Smallest
<1>4. Less(largest(f), smallest(g)) <=> Before(s, u)
  BY <1>2, <1>3 DEF Before
<1>5. ASSUME Before(s, u), NEW x \in f, NEW y \in g PROVE Before(x, y)
  <2>1. x = s \/ Before(x, s)
    BY <1>2
  <2>2. y = u \/ Before(u, y)
    BY <1>3
  <2> QED
    BY <1>1, <1>5, <2>1, <2>2, BeforeTransitive
<1> QED
  BY <1>4, <1>5 DEF Below

\* The files do not overlap in internal keys.
Apart(fs) == \A f, g \in fs : f # g => Below(f, g) \/ Below(g, f)

LEMMA SmallestOrder ==
  ASSUME TreeType, NEW f \in Tables, NEW g \in Tables, f # g, Below(f, g) \/ Below(g, f)
  PROVE  /\ Below(f, g) <=> Less(smallest(f), smallest(g))
         /\ Below(f, g) <=> ~Below(g, f)
<1>1. f \subseteq Updates /\ g \subseteq Updates
  BY DEF Tables
<1>2. PICK s \in f : smallest(f) = InternalKey(s)
  BY Smallest
<1>3. PICK u \in g : smallest(g) = InternalKey(u)
  BY Smallest
<1>4. Less(smallest(f), smallest(g)) <=> Before(s, u)
  BY <1>2, <1>3 DEF Before
<1>5. Below(f, g) => Before(s, u)
  BY DEF Below
<1>6. Below(g, f) => Before(u, s)
  BY DEF Below
<1> QED
  BY <1>1, <1>4, <1>5, <1>6, BeforeTransitive

LEMMA BelowTransitive ==
  ASSUME TreeType, NEW f \in Tables, NEW g \in Tables, NEW h \in Tables, Below(f, g), Below(g, h)
  PROVE  Below(f, h) /\ ~Below(g, f)
<1>1. f \subseteq Updates /\ g \subseteq Updates /\ h \subseteq Updates /\ f # {} /\ g # {}
  BY DEF Tables
<1>2. PICK u \in g : TRUE
  BY <1>1
<1>3. PICK v \in f : TRUE
  BY <1>1
<1> QED
  BY <1>1, <1>2, <1>3, BeforeTransitive DEF Below

\* What BySmallestKey makes of files that do not overlap.
LEMMA ByKeyInOrder ==
  ASSUME TreeType, NEW fs, fs \subseteq Tables, IsFiniteSet(fs), Apart(fs)
  PROVE  /\ BySmallestKey(fs) \in Seq(Tables) /\ Range(BySmallestKey(fs)) = fs
         /\ \A i, j \in DOMAIN BySmallestKey(fs) :
              i < j => Below(BySmallestKey(fs)[i], BySmallestKey(fs)[j])
<1> DEFINE R == {p \in fs \X fs : Less(smallest(p[1]), smallest(p[2]))}
           q == BySmallestKey(fs)
<1>1. \A f, g \in fs : <<f, g>> \in R <=> Less(smallest(f), smallest(g))
  OBVIOUS
<1>2. \A f, g \in fs : f # g => (<<f, g>> \in R <=> Below(f, g))
  BY <1>1, SmallestOrder DEF Apart
<1>3. \A f \in fs : <<f, f>> \notin R
  <2> SUFFICES ASSUME NEW f \in fs, Less(smallest(f), smallest(f)) PROVE FALSE
    BY <1>1
  <2>1. PICK s \in f : smallest(f) = InternalKey(s)
    BY Smallest
  <2>2. s \in Updates /\ Before(s, s)
    BY <2>1 DEF Tables, Before
  <2> QED
    BY <2>2, BeforeTransitive
<1> HIDE DEF R
<1>4. StrictOrder(fs, R)
  <2>1. \A f, g \in fs : f # g => <<f, g>> \in R \/ <<g, f>> \in R
    BY <1>2 DEF Apart
  <2>2. ASSUME NEW f \in fs, NEW g \in fs, NEW h \in fs, <<f, g>> \in R, <<g, h>> \in R
        PROVE  <<f, h>> \in R
    <3>1. f # g /\ g # h
      BY <1>3, <2>2
    <3>2. Below(f, g) /\ Below(g, h)
      BY <1>2, <2>2, <3>1
    <3>3. Below(f, h) /\ ~Below(g, f)
      BY <3>2, BelowTransitive
    <3>4. f # h
      BY <3>2, <3>3
    <3> QED
      BY <1>2, <3>3, <3>4
  <2> QED
    BY <1>3, <2>1, <2>2 DEF StrictOrder
<1>5. q = InOrder(fs, R)
  BY DEF BySmallestKey, R
<1> HIDE DEF q
<1>6. /\ q \in Seq(fs) /\ Range(q) = fs /\ DOMAIN q = 1..Cardinality(fs)
      /\ \A i, j \in DOMAIN q : i < j => <<q[i], q[j]>> \in R
  BY <1>4, <1>5, InOrderLists
<1>7. q \in Seq(Tables)
  BY <1>6
<1>8. ASSUME NEW i \in DOMAIN q, NEW j \in DOMAIN q, i < j PROVE Below(q[i], q[j])
  <2>1. q[i] \in fs /\ q[j] \in fs
    BY <1>6 DEF Range
  <2>2. <<q[i], q[j]>> \in R
    BY <1>6, <1>8
  <2> QED
    BY <1>2, <1>3, <2>1, <2>2
<1> QED
  BY <1>6, <1>7, <1>8 DEF q

-----------------------------------------------------------------------------
(* FindFile.                                                                *)

Half(p) == (p[1] + p[2]) \div 2

Square(n) == (0..n) \X (0..n)

\* One turn of the bisection for the first place that is not in M.
Turned(f, p, M) ==
  IF p[1] >= p[2] THEN p[2]
  ELSE IF Half(p) + 1 \in M THEN f[<<Half(p) + 1, p[2]>>] ELSE f[<<p[1], Half(p)>>]

LEMMA HalfIsBetween ==
  ASSUME NEW n \in Nat, NEW p \in Square(n), ~(p[1] >= p[2])
  PROVE  /\ Half(p) \in Nat /\ p[1] <= Half(p) /\ Half(p) < p[2] /\ Half(p) + 1 \in 1..n
         /\ p[1] \in 0..n /\ p[2] \in 0..n
         /\ <<Half(p) + 1, p[2]>> \in Square(n) /\ <<p[1], Half(p)>> \in Square(n)
<1>1. p[1] \in 0..n /\ p[2] \in 0..n
  BY DEF Square
<1>2. Half(p) \in Nat /\ p[1] <= Half(p) /\ Half(p) < p[2]
  BY <1>1 DEF Half
<1>3. Half(p) \in 0..n /\ Half(p) + 1 \in 0..n /\ Half(p) + 1 \in 1..n
  BY <1>1, <1>2
<1> QED
  BY <1>1, <1>2, <1>3 DEF Square

\* f is right for ranges of at most d places.
RightUpTo(f, d, n, M) ==
  f \in [Square(n) -> 0..n] /\ \A p \in Square(n) : p[2] - p[1] <= d => f[p] = Turned(f, p, M)

LEMMA BisectionStep ==
  ASSUME NEW n \in Nat, NEW M, NEW d \in Nat, NEW f, RightUpTo(f, d, n, M)
  PROVE  RightUpTo([p \in Square(n) |-> Turned(f, p, M)], d + 1, n, M)
<1> DEFINE g == [p \in Square(n) |-> Turned(f, p, M)]
<1>1. f \in [Square(n) -> 0..n]
  BY DEF RightUpTo
<1>2. ASSUME NEW p \in Square(n) PROVE Turned(f, p, M) \in 0..n
  <2>1. CASE p[1] >= p[2]
    BY <2>1 DEF Turned, Square
  <2>2. CASE ~(p[1] >= p[2])
    <3>1. <<Half(p) + 1, p[2]>> \in Square(n) /\ <<p[1], Half(p)>> \in Square(n)
      BY <2>2, HalfIsBetween
    <3> QED
      BY <1>1, <2>2, <3>1 DEF Turned
  <2> QED
    BY <2>1, <2>2
<1>3. g \in [Square(n) -> 0..n]
  BY <1>2
<1>4. ASSUME NEW q \in Square(n), q[2] - q[1] <= d PROVE g[q] = f[q]
  BY <1>4 DEF RightUpTo
<1>5. ASSUME NEW p \in Square(n), p[2] - p[1] <= d + 1 PROVE g[p] = Turned(g, p, M)
  <2>1. g[p] = Turned(f, p, M)
    OBVIOUS
  <2> HIDE DEF g
  <2>2. CASE p[1] >= p[2]
    BY <2>1, <2>2 DEF Turned
  <2>3. CASE ~(p[1] >= p[2])
    <3> DEFINE a == <<Half(p) + 1, p[2]>>
               b == <<p[1], Half(p)>>
    <3>1. /\ Half(p) \in Nat /\ p[1] <= Half(p) /\ Half(p) < p[2]
          /\ p[1] \in 0..n /\ p[2] \in 0..n /\ a \in Square(n) /\ b \in Square(n)
      BY <2>3, HalfIsBetween
    <3>2. a[2] - a[1] <= d /\ b[2] - b[1] <= d
      BY <1>5, <3>1
    <3>3. g[a] = f[a] /\ g[b] = f[b]
      BY <1>4, <3>1, <3>2
    <3> HIDE DEF a, b
    <3>4. Turned(f, p, M) = IF Half(p) + 1 \in M THEN f[a] ELSE f[b]
      BY <2>3, Zenon DEF Turned, a, b
    <3>5. Turned(g, p, M) = IF Half(p) + 1 \in M THEN g[a] ELSE g[b]
      BY <2>3, Zenon DEF Turned, a, b
    <3> QED
      BY <2>1, <3>3, <3>4, <3>5
  <2> QED
    BY <2>2, <2>3
<1> HIDE DEF g
<1>6. RightUpTo(g, d + 1, n, M)
  BY <1>3, <1>5 DEF RightUpTo
<1> QED
  BY <1>6 DEF g

LEMMA BisectionExists ==
  ASSUME NEW n \in Nat, NEW M
  PROVE  \E f : f \in [Square(n) -> 0..n] /\ f = [p \in Square(n) |-> Turned(f, p, M)]
<1> DEFINE K == {d \in Nat : ~ \E f : RightUpTo(f, d, n, M)}
<1>1. K = {}
  <2> SUFFICES ASSUME K # {} PROVE FALSE
    OBVIOUS
  <2>1. PICK k \in K : \A j \in K : k <= j
    <3>1. K \subseteq Nat
      OBVIOUS
    <3> HIDE DEF K
    <3> QED
      BY <3>1, LeastNumberOf
  <2>2. k \in Nat /\ ~ \E f : RightUpTo(f, k, n, M)
    OBVIOUS
  <2>3. CASE k = 0
    <3> DEFINE f == [p \in Square(n) |-> p[2]]
    <3>1. f \in [Square(n) -> 0..n]
      BY DEF Square
    <3>2. ASSUME NEW p \in Square(n), p[2] - p[1] <= 0 PROVE f[p] = Turned(f, p, M)
      <4>1. p[1] \in Nat /\ p[2] \in Nat
        BY DEF Square
      <4>2. p[1] >= p[2]
        BY <3>2, <4>1
      <4> QED
        BY <4>2 DEF Turned
    <3> HIDE DEF f
    <3>3. RightUpTo(f, 0, n, M)
      BY <3>1, <3>2 DEF RightUpTo
    <3> QED
      BY <2>2, <2>3, <3>3
  <2>4. CASE k # 0
    <3>1. k - 1 \in Nat /\ (k - 1) + 1 = k /\ ~(k <= k - 1)
      BY <2>2, <2>4
    <3>2. k - 1 \notin K
      BY <2>1, <3>1
    <3>3. PICK f : RightUpTo(f, k - 1, n, M)
      BY <3>1, <3>2
    <3>4. RightUpTo([p \in Square(n) |-> Turned(f, p, M)], (k - 1) + 1, n, M)
      BY <3>1, <3>3, BisectionStep
    <3> QED
      BY <2>2, <3>1, <3>4
  <2> QED
    BY <2>3, <2>4
<1>2. PICK f : RightUpTo(f, n, n, M)
  BY <1>1
<1>3. ASSUME NEW p \in Square(n) PROVE f[p] = Turned(f, p, M)
  <2>1. p[1] \in 0..n /\ p[2] \in 0..n
    BY DEF Square
  <2>2. p[2] - p[1] <= n
    BY <2>1
  <2> QED
    BY <1>2, <2>2 DEF RightUpTo
<1>4. f \in [Square(n) -> 0..n]
  BY <1>2 DEF RightUpTo
<1> QED
  BY <1>3, <1>4

\* x is the number of places, after the first l, before the first outside M.
Splits(x, l, r, M) ==
  x \in l..r /\ (\A i \in (l + 1)..x : i \in M) /\ (x < r => x + 1 \notin M)

LEMMA BisectionFinds ==
  ASSUME NEW n \in Nat, NEW M, NEW f,
         f = [p \in Square(n) |-> Turned(f, p, M)],
         \A i, j \in 1..n : i < j /\ j \in M => i \in M
  PROVE  Splits(f[<<0, n>>], 0, n, M)
<1> DEFINE Wrong(d) == \E p \in Square(n) : p[1] <= p[2] /\ p[2] - p[1] = d /\ ~Splits(f[p], p[1], p[2], M)
           K == {d \in Nat : Wrong(d)}
<1>1. K = {}
  <2> SUFFICES ASSUME K # {} PROVE FALSE
    OBVIOUS
  <2>1. PICK k \in K : \A j \in K : k <= j
    <3>1. K \subseteq Nat
      OBVIOUS
    <3> HIDE DEF K
    <3> QED
      BY <3>1, LeastNumberOf
  <2>2. k \in Nat
    OBVIOUS
  <2>3. PICK p \in Square(n) : p[1] <= p[2] /\ p[2] - p[1] = k /\ ~Splits(f[p], p[1], p[2], M)
    OBVIOUS
  <2>4. ASSUME NEW q \in Square(n), q[1] <= q[2], q[2] - q[1] < k PROVE Splits(f[q], q[1], q[2], M)
    <3>1. q[1] \in Nat /\ q[2] \in Nat
      BY DEF Square
    <3>2. q[2] - q[1] \in Nat /\ ~(k <= q[2] - q[1])
      BY <2>2, <2>4, <3>1
    <3>3. q[2] - q[1] \notin K
      BY <2>1, <3>2
    <3> QED
      BY <2>4, <3>2, <3>3
  <2>5. f[p] = Turned(f, p, M)
    OBVIOUS
  <2>6. p[1] \in Nat /\ p[2] \in Nat
    BY DEF Square
  <2>7. CASE p[1] >= p[2]
    <3>1. f[p] = p[2] /\ p[1] = p[2]
      BY <2>3, <2>5, <2>6, <2>7 DEF Turned
    <3> QED
      BY <2>3, <2>6, <3>1 DEF Splits
  <2>8. CASE ~(p[1] >= p[2])
    <3> DEFINE h == Half(p)
               a == <<h + 1, p[2]>>
               b == <<p[1], h>>
    <3>1. /\ h \in Nat /\ p[1] <= h /\ h < p[2] /\ h + 1 \in 1..n
          /\ p[1] \in 0..n /\ p[2] \in 0..n /\ a \in Square(n) /\ b \in Square(n)
      BY <2>8, HalfIsBetween
    <3>2. CASE h + 1 \in M
      <4>1. f[p] = f[a]
        BY <2>5, <2>8, <3>2, Zenon DEF Turned
      <4>2. Splits(f[a], a[1], a[2], M)
        <5>1. a[1] <= a[2] /\ a[2] - a[1] < k
          BY <2>3, <3>1
        <5> HIDE DEF a
        <5> QED
          BY <2>4, <3>1, <5>1
      <4>3. Splits(f[p], h + 1, p[2], M)
        BY <4>1, <4>2
      <4>4. f[p] \in 0..n
        BY <3>1, <4>3 DEF Splits
      <4> HIDE DEF h
      <4>5. ASSUME NEW i \in (p[1] + 1)..f[p] PROVE i \in M
        <5>1. CASE i <= h + 1
          <6>1. i \in 1..n /\ (i < h + 1 \/ i = h + 1)
            BY <2>6, <3>1, <4>4, <5>1
          <6> QED
            BY <3>1, <3>2, <6>1
        <5>2. CASE i > h + 1
          <6>1. i \in ((h + 1) + 1)..f[p]
            BY <2>6, <3>1, <4>4, <5>2
          <6> QED
            BY <4>3, <6>1 DEF Splits
        <5> QED
          BY <2>6, <3>1, <5>1, <5>2
      <4> QED
        BY <2>3, <2>6, <3>1, <4>3, <4>4, <4>5 DEF Splits
    <3>3. CASE h + 1 \notin M
      <4>1. f[p] = f[b]
        BY <2>5, <2>8, <3>3, Zenon DEF Turned
      <4>2. Splits(f[b], b[1], b[2], M)
        <5>1. b[1] <= b[2] /\ b[2] - b[1] < k
          BY <2>3, <3>1
        <5> HIDE DEF b
        <5> QED
          BY <2>4, <3>1, <5>1
      <4>3. Splits(f[p], p[1], h, M)
        BY <4>1, <4>2
      <4>4. f[p] \in 0..n
        BY <3>1, <4>3 DEF Splits
      <4> HIDE DEF h
      <4>5. f[p] < p[2] => f[p] + 1 \notin M
        <5>1. f[p] < h \/ f[p] = h
          BY <3>1, <4>3, <4>4 DEF Splits
        <5> QED
          BY <3>3, <4>3, <5>1 DEF Splits
      <4> QED
        BY <2>3, <2>6, <3>1, <4>3, <4>4, <4>5 DEF Splits
    <3> QED
      BY <3>2, <3>3
  <2> QED
    BY <2>7, <2>8
<1>2. <<0, n>> \in Square(n) /\ n - 0 = n
  BY DEF Square
<1>3. n \notin K
  BY <1>1
<1>4. ~Wrong(n)
  BY <1>3
<1> QED
  BY <1>2, <1>4

\* The places of a level whose file ends before key.
Passed(level, key) == {i \in 1..Len(files[level]) : Less(largest(files[level][i]), key)}

LEMMA FileAt ==
  ASSUME TreeType, NEW level \in Levels
  PROVE  /\ files[level] \in Seq(Tables) /\ Len(files[level]) \in Nat
         /\ DOMAIN files[level] = 1..Len(files[level])
         /\ \A i \in 1..Len(files[level]) : files[level][i] \in Tables /\ files[level][i] \in Files(level)
         /\ \A f \in Files(level) : f \in Tables /\ \E i \in 1..Len(files[level]) : f = files[level][i]
<1>1. files[level] \in Seq(Tables)
  BY DEF TreeType
<1> QED
  BY <1>1 DEF Files, Range

LEMMA FileIsTable ==
  ASSUME TreeType, NEW level \in Levels, NEW f \in Files(level)
  PROVE  f \in Tables /\ f \subseteq Updates /\ f # {} /\ IsFiniteSet(f)
BY FileAt, TablesFinite DEF TablesAreFinite

LEMMA KeyIs ==
  ASSUME NEW t, NEW k, NEW s
  PROVE  /\ Less(InternalKey(t), <<k, s>>) <=> hist[t].key < k \/ (hist[t].key = k /\ t > s)
         /\ Less(<<k, s>>, InternalKey(t)) <=> k < hist[t].key \/ (k = hist[t].key /\ s > t)
BY DEF Less, InternalKey

\* FindFile stops behind the last file that ends before the key.
LEMMA FindFileFinds ==
  ASSUME TreeType, InKeyOrder, NEW level \in Levels \ {0}, NEW k \in Nat, NEW s \in Nat
  PROVE  Splits(FindFile(level, <<k, s>>), 0, Len(files[level]), Passed(level, <<k, s>>))
<1> DEFINE n == Len(files[level])
           key == <<k, s>>
           M == Passed(level, key)
           A(f) == [p \in (0..n) \X (0..n) |->
                     IF p[1] >= p[2] THEN p[2]
                     ELSE LET mid == (p[1] + p[2]) \div 2
                          IN  IF Less(largest(files[level][mid + 1]), key)
                              THEN f[<<mid + 1, p[2]>>]
                              ELSE f[<<p[1], mid>>]]
           search == CHOOSE f : f = A(f)
<1>1. n \in Nat /\ DOMAIN files[level] = 1..n /\ \A i \in 1..n : files[level][i] \in Tables
  BY FileAt
<1>2. ASSUME NEW f PROVE A(f) = [p \in Square(n) |-> Turned(f, p, M)]
  <2>1. ASSUME NEW p \in Square(n), ~(p[1] >= p[2])
        PROVE  Half(p) + 1 \in M <=> Less(largest(files[level][((p[1] + p[2]) \div 2) + 1]), key)
    <3>1. Half(p) + 1 \in 1..n
      BY <1>1, <2>1, HalfIsBetween
    <3> QED
      BY <3>1 DEF Passed, Half
  <2> HIDE DEF M
  <2> QED
    BY <2>1 DEF Square, Turned, Half
<1>3. search = A(search)
  <2>1. PICK f : f = [p \in Square(n) |-> Turned(f, p, M)]
    <3> HIDE DEF n, M
    <3> QED
      BY <1>1, BisectionExists
  <2>2. f = A(f)
    BY <1>2, <2>1
  <2> HIDE DEF A
  <2> QED
    BY <2>2, Zenon
<1>4. FindFile(level, key) = search[<<0, n>>]
  BY Zenon DEF FindFile
<1>5. ASSUME NEW i \in 1..n, NEW j \in 1..n, i < j, j \in M PROVE i \in M
  <2>1. Below(files[level][i], files[level][j])
    BY <1>1, <1>5 DEF InKeyOrder
  <2>2. PICK u \in files[level][i] : largest(files[level][i]) = InternalKey(u)
    BY <1>1, Largest
  <2>3. PICK v \in files[level][j] : largest(files[level][j]) = InternalKey(v)
    BY <1>1, Largest
  <2>4. u \in Updates /\ v \in Updates
    BY <1>1, <2>2, <2>3 DEF Tables
  <2>5. Before(u, v)
    BY <2>1, <2>2, <2>3 DEF Below
  <2>6. Less(InternalKey(v), key)
    BY <1>5, <2>3 DEF Passed
  <2>7. Less(InternalKey(u), key)
    BY <2>4, <2>5, <2>6, BeforeIs, UpdateType, KeyIs
  <2> QED
    BY <2>2, <2>7 DEF Passed
<1> HIDE DEF n, key, M, A, search
<1>6. search = [p \in Square(n) |-> Turned(search, p, M)]
  BY <1>2, <1>3
<1>7. Splits(search[<<0, n>>], 0, n, M)
  BY <1>1, <1>5, <1>6, BisectionFinds
<1> QED
  BY <1>4, <1>7 DEF n, key, M

-----------------------------------------------------------------------------
(* Overlap, and the level of a flush.                                       *)

LEMMA OverlapsIs ==
  ASSUME TreeType, NEW f \in Tables, NEW b \in Nat, NEW e \in Nat
  PROVE  Overlaps(f, b, e) <=> (\E s \in f : b <= hist[s].key) /\ (\E s \in f : hist[s].key <= e)
<1>1. user_begin(f) \in Nat /\ user_end(f) \in Nat
  BY UserRange
<1>2. Overlaps(f, b, e) <=> b <= user_end(f) /\ user_begin(f) <= e
  BY <1>1 DEF Overlaps
<1> QED
  BY <1>2, UserBounds

\* A file that does not overlap a table's range of user keys is all before or
\* all after it.
LEMMA NoOverlapApart ==
  ASSUME TreeType, NEW f \in Tables, NEW g \in Tables, ~Overlaps(f, user_begin(g), user_end(g))
  PROVE  \/ \A s \in f, t \in g : hist[s].key < hist[t].key
         \/ \A s \in f, t \in g : hist[t].key < hist[s].key
<1>1. f \subseteq Updates /\ g \subseteq Updates
  BY DEF Tables
<1>2. user_begin(g) \in Nat /\ user_end(g) \in Nat
  BY UserRange
<1>3. ~((\E s \in f : user_begin(g) <= hist[s].key) /\ (\E s \in f : hist[s].key <= user_end(g)))
  BY <1>2, OverlapsIs
<1>4. \A t \in g : user_begin(g) <= hist[t].key /\ hist[t].key <= user_end(g)
  BY UserRange
<1>5. CASE ~(\E s \in f : user_begin(g) <= hist[s].key)
  BY <1>1, <1>2, <1>4, <1>5, UpdateType
<1>6. CASE ~(\E s \in f : hist[s].key <= user_end(g))
  BY <1>1, <1>2, <1>4, <1>6, UpdateType
<1> QED
  BY <1>3, <1>5, <1>6

LEMMA OverlapMissed ==
  ASSUME TreeType, InKeyOrder, NEW level \in Levels, NEW b \in Nat, NEW e \in Nat,
         ~OverlapInLevel(level, b, e), NEW f \in Files(level)
  PROVE  ~Overlaps(f, b, e)
<1>1. CASE level = 0
  BY <1>1 DEF OverlapInLevel
<1>2. CASE level # 0
  <2> DEFINE m == MaxWrites + 1
             n == Len(files[level])
             x == FindFile(level, <<b, m>>)
             q == files[level]
  <2>1. m \in Nat /\ MaxWrites \in Nat /\ Len(hist) \in Nat /\ Len(hist) <= MaxWrites
    BY LSMTreeAssumption DEF TreeType
  <2>2. ~(x < n /\ ~(e < user_begin(q[x + 1])))
    BY <1>2, Zenon DEF OverlapInLevel
  <2>3. Splits(x, 0, n, Passed(level, <<b, m>>))
    BY <1>2, <2>1, FindFileFinds
  <2>4. n \in Nat /\ DOMAIN q = 1..n /\ \A i \in 1..n : q[i] \in Tables
    BY FileAt
  <2>5. PICK i \in 1..n : f = q[i]
    BY FileAt
  <2>6. f \in Tables /\ f \subseteq Updates
    BY FileIsTable
  <2> HIDE DEF x, m
  <2>7. x \in 0..n
    BY <2>3 DEF Splits
  <2>8. CASE i <= x
    <3>1. i \in Passed(level, <<b, m>>)
      BY <2>3, <2>7, <2>8 DEF Splits
    <3>2. PICK u \in f : largest(f) = InternalKey(u) /\ \A t \in f \ {u} : Before(t, u)
      BY <2>6, Largest
    <3>3. Less(InternalKey(u), <<b, m>>)
      BY <2>5, <3>1, <3>2 DEF Passed
    <3>4. u \in Updates /\ u <= MaxWrites
      BY <2>1, <2>6 DEF Updates
    <3>5. hist[u].key < b
      BY <2>1, <3>3, <3>4, KeyIs, UpdateType DEF m
    <3>6. \A t \in f : hist[t].key < b
      <4> SUFFICES ASSUME NEW t \in f PROVE hist[t].key < b
        OBVIOUS
      <4>1. t = u \/ hist[t].key <= hist[u].key
        BY <2>6, <3>2, <3>4, BeforeKeys
      <4>2. t \in Updates
        BY <2>6
      <4> QED
        BY <3>4, <3>5, <4>1, <4>2, UpdateType
    <3>7. ~ \E t \in f : b <= hist[t].key
      BY <2>6, <3>6, UpdateType
    <3> QED
      BY <2>6, <3>7, OverlapsIs
  <2>9. CASE i > x
    <3>1. x < n /\ x + 1 \in 1..n
      BY <2>4, <2>7, <2>9
    <3>2. e < user_begin(q[x + 1])
      BY <2>2, <3>1
    <3>3. q[x + 1] \in Tables /\ q[x + 1] \subseteq Updates
      BY <2>4, <3>1 DEF Tables
    <3>4. \A s \in q[x + 1] : e < hist[s].key
      BY <3>2, <3>3, UserRange, UpdateType
    <3>5. i = x + 1 \/ Below(q[x + 1], q[i])
      <4>1. i = x + 1 \/ x + 1 < i
        BY <2>7, <2>9
      <4> QED
        BY <1>2, <2>4, <2>5, <3>1, <4>1 DEF InKeyOrder
    <3>6. PICK s \in q[x + 1] : TRUE
      BY <3>3, <2>4, <3>1 DEF Tables
    <3>7. \A t \in f : e < hist[t].key
      <4>1. CASE i = x + 1
        BY <2>5, <3>4, <4>1
      <4>2. CASE Below(q[x + 1], q[i])
        <5>1. \A t \in f : Before(s, t)
          BY <2>5, <4>2 DEF Below
        <5>2. s \in Updates /\ e < hist[s].key
          BY <3>3, <3>4
        <5>3. \A t \in f : t \in Updates /\ hist[s].key <= hist[t].key
          BY <2>6, <5>1, <5>2, BeforeKeys
        <5> QED
          BY <5>2, <5>3, UpdateType
      <4> QED
        BY <3>5, <4>1, <4>2
    <3>8. ~ \E t \in f : hist[t].key <= e
      BY <2>6, <3>7, UpdateType
    <3> QED
      BY <2>6, <3>8, OverlapsIs
  <2> QED
    BY <2>4, <2>7, <2>8, <2>9
<1> QED
  BY <1>1, <1>2

\* A flush goes to level 0, or past levels none of whose files it overlaps.
LEMMA FlushLevel ==
  ASSUME TreeType, InKeyOrder, NEW b \in Nat, NEW e \in Nat,
         NEW level \in PickLevelForMemTableOutput(b, e)
  PROVE  /\ level \in Levels
         /\ level # 0 => \A l \in 0..level : l \in Levels /\ \A f \in Files(l) : ~Overlaps(f, b, e)
<1>1. kMaxMemCompactLevel \in Nat /\ kMaxMemCompactLevel < kNumLevels /\ kNumLevels \in Nat
  BY LSMTreeAssumption
<1>2. 0..kMaxMemCompactLevel \subseteq Levels
  BY <1>1 DEF Levels
<1>3. CASE OverlapInLevel(0, b, e)
  <2>1. level = 0
    BY <1>3 DEF PickLevelForMemTableOutput
  <2> QED
    BY <2>1, LevelZero
<1>4. CASE ~OverlapInLevel(0, b, e)
  <2>1. level \in 0..kMaxMemCompactLevel /\ \A l \in 0..level : ~OverlapInLevel(l, b, e)
    BY <1>4 DEF PickLevelForMemTableOutput
  <2>2. \A l \in 0..level : l \in Levels
    BY <1>1, <1>2, <2>1
  <2> QED
    BY <1>2, <2>1, <2>2, OverlapMissed
<1> QED
  BY <1>3, <1>4

-----------------------------------------------------------------------------
(* SaveTo.                                                                  *)

LEMMA FilesFinite ==
  ASSUME TreeType, NEW level \in Levels
  PROVE  IsFiniteSet(Files(level)) /\ Files(level) \subseteq Tables
<1> DEFINE n == Len(files[level])
<1>1. /\ n \in Nat /\ DOMAIN files[level] = 1..n /\ files[level] \in Seq(Tables)
      /\ Files(level) = Range(files[level]) /\ Files(level) \subseteq Tables
  BY FileAt DEF Files
<1> HIDE DEF n
<1>2. IsFiniteSet(1..n)
  BY <1>1, FS_Interval
<1>3. IsFiniteSet(Range(files[level]))
  <2>1. files[level] \in Surjection(1..n, Range(files[level]))
    BY <1>1 DEF Surjection, Range
  <2> QED
    BY <1>2, <2>1, FS_Surjection
<1> QED
  BY <1>1, <1>3

LEMMA LevelApart ==
  ASSUME TreeType, InKeyOrder, NEW level \in Levels \ {0}
  PROVE  Apart(Files(level))
<1> SUFFICES ASSUME NEW f \in Files(level), NEW g \in Files(level), f # g
             PROVE  Below(f, g) \/ Below(g, f)
  BY DEF Apart
<1>1. PICK i \in DOMAIN files[level] : f = files[level][i]
  BY DEF Files, Range
<1>2. PICK j \in DOMAIN files[level] : g = files[level][j]
  BY DEF Files, Range
<1>3. i \in Nat /\ j \in Nat /\ i # j
  BY <1>1, <1>2, FileAt
<1>4. i < j \/ j < i
  BY <1>3
<1> QED
  BY <1>1, <1>2, <1>4 DEF InKeyOrder

\* The files are in the order of their age.
InTimeOrder(q) == \A i, j \in DOMAIN q : i < j => \A s \in q[i], t \in q[j] : s < t

SortedByKey(q) == \A i, j \in DOMAIN q : i < j => Below(q[i], q[j])

LEMMA SaveToDeep ==
  ASSUME TreeType, NEW level \in Levels \ {0}, NEW gone, NEW new, new \subseteq Tables,
         IsFiniteSet(new), Apart((Files(level) \ gone) \cup new)
  PROVE  /\ SaveTo(level, gone, new) \in Seq(Tables)
         /\ Range(SaveTo(level, gone, new)) = (Files(level) \ gone) \cup new
         /\ SortedByKey(SaveTo(level, gone, new))
<1> DEFINE fs == (Files(level) \ gone) \cup new
<1>1. SaveTo(level, gone, new) = BySmallestKey(fs)
  BY Zenon DEF SaveTo
<1>2. fs \subseteq Tables
  BY FilesFinite
<1>3. IsFiniteSet(fs)
  <2>1. IsFiniteSet(Files(level) \ gone)
    BY FilesFinite, FS_Subset
  <2> QED
    BY <2>1, FS_Union
<1> HIDE DEF fs
<1>4. Apart(fs)
  BY DEF fs
<1>5. /\ BySmallestKey(fs) \in Seq(Tables) /\ Range(BySmallestKey(fs)) = fs
      /\ \A i, j \in DOMAIN BySmallestKey(fs) : i < j => Below(BySmallestKey(fs)[i], BySmallestKey(fs)[j])
  BY <1>2, <1>3, <1>4, ByKeyInOrder
<1> QED
  BY <1>1, <1>5 DEF fs, SortedByKey

LEMMA NoneListed == SetToSeq({}) = <<>>
<1>1. Cardinality({}) = 0
  BY FS_EmptySet
<1>2. 1..0 = {}
  OBVIOUS
<1>3. SetToSeq({}) = CHOOSE f \in [{} -> {}] : IsInjective(f)
  BY <1>1, <1>2 DEF SetToSeq
<1>4. \E f \in [{} -> {}] : IsInjective(f)
  <2>1. [x \in {} |-> x] \in [{} -> {}] /\ IsInjective([x \in {} |-> x])
    BY DEF IsInjective
  <2> QED
    BY <2>1
<1>5. SetToSeq({}) \in [{} -> {}]
  BY <1>3, <1>4
<1> QED
  BY <1>2, <1>5

LEMMA OneListed ==
  ASSUME NEW x
  PROVE  SetToSeq({x}) = <<x>>
<1>1. Cardinality({x}) = 1
  BY FS_Singleton
<1>2. SetToSeq({x}) = CHOOSE f \in [1..1 -> {x}] : IsInjective(f)
  BY <1>1 DEF SetToSeq
<1>3. \E f \in [1..1 -> {x}] : IsInjective(f)
  <2>1. [i \in 1..1 |-> x] \in [1..1 -> {x}] /\ IsInjective([i \in 1..1 |-> x])
    BY DEF IsInjective
  <2> QED
    BY <2>1
<1>4. SetToSeq({x}) \in [1..1 -> {x}]
  BY <1>2, <1>3
<1> QED
  BY <1>4

Kept(gone) ==
  LET left == {i \in DOMAIN files[0] : files[0][i] \notin gone}
      place == InOrder(left, {p \in left \X left : p[1] < p[2]})
  IN  [i \in DOMAIN place |-> files[0][place[i]]]

\* What level 0 keeps stays in its order.
LEMMA KeptInOrder ==
  ASSUME TreeType, InTimeOrder(files[0]), NEW gone
  PROVE  Kept(gone) \in Seq(Tables) /\ Range(Kept(gone)) = Files(0) \ gone /\ InTimeOrder(Kept(gone))
<1> DEFINE n == Len(files[0])
           kept == Kept(gone)
           left == {i \in DOMAIN files[0] : files[0][i] \notin gone}
           R == {p \in left \X left : p[1] < p[2]}
           place == InOrder(left, R)
<1>1. /\ n \in Nat /\ DOMAIN files[0] = 1..n /\ \A i \in 1..n : files[0][i] \in Tables
      /\ Files(0) = Range(files[0])
  BY FileAt, LevelZero DEF Files
<1>2. kept = [i \in DOMAIN place |-> files[0][place[i]]]
  BY Zenon DEF Kept
<1>3. left \subseteq 1..n
  BY <1>1
<1>4. IsFiniteSet(left)
  <2> HIDE DEF n, left
  <2>1. IsFiniteSet(1..n)
    BY <1>1, FS_Interval
  <2> QED
    BY <1>3, <2>1, FS_Subset
<1>5. \A i, j \in left : <<i, j>> \in R <=> i < j
  OBVIOUS
<1>6. \A i \in left : i \in Nat
  BY <1>1
<1>7. StrictOrder(left, R)
  <2> HIDE DEF left, R
  <2> QED
    BY <1>5, <1>6 DEF StrictOrder
<1>8. /\ place \in Seq(left) /\ DOMAIN place = 1..Cardinality(left) /\ Range(place) = left
      /\ \A i, j \in DOMAIN place : i < j => <<place[i], place[j]>> \in R
  <2> HIDE DEF left, R
  <2> QED
    BY <1>4, <1>7, InOrderLists
<1>9. \A i \in left : files[0][i] \notin gone /\ i \in 1..n
  BY <1>1
<1>10. \A i \in 1..n : files[0][i] \notin gone => i \in left
  BY <1>1
<1> HIDE DEF left, R, place, n, kept
<1>11. DOMAIN kept = DOMAIN place /\ \A i \in DOMAIN place : kept[i] = files[0][place[i]] /\ place[i] \in left
  BY <1>2, <1>8 DEF Range
<1>12. Cardinality(left) \in Nat
  BY <1>4, FS_CardinalityType
<1>13. kept \in Seq(Tables)
  <2>1. \A i \in 1..Cardinality(left) : files[0][place[i]] \in Tables
    BY <1>1, <1>8, <1>9, <1>11
  <2>2. kept \in [1..Cardinality(left) -> Tables]
    BY <1>2, <1>8, <2>1
  <2> QED
    BY <1>12, <2>2
<1>14. Range(kept) = Files(0) \ gone
  <2>1. ASSUME NEW f \in Range(kept) PROVE f \in Files(0) \ gone
    <3>1. PICK i \in DOMAIN place : f = files[0][place[i]] /\ place[i] \in left
      BY <1>11 DEF Range
    <3> QED
      BY <1>1, <1>9, <3>1 DEF Range
  <2>2. ASSUME NEW f \in Files(0), f \notin gone PROVE f \in Range(kept)
    <3>1. PICK i \in 1..n : f = files[0][i]
      BY <1>1 DEF Range
    <3>2. i \in left
      BY <1>10, <2>2, <3>1
    <3>3. PICK j \in DOMAIN place : i = place[j]
      BY <1>8, <3>2 DEF Range
    <3> QED
      BY <1>11, <3>1, <3>3 DEF Range
  <2> QED
    BY <2>1, <2>2
<1>15. InTimeOrder(kept)
  <2> SUFFICES ASSUME NEW i \in DOMAIN kept, NEW j \in DOMAIN kept, i < j,
                      NEW s \in kept[i], NEW t \in kept[j]
               PROVE  s < t
    BY DEF InTimeOrder
  <2>1. place[i] < place[j] /\ place[i] \in 1..n /\ place[j] \in 1..n
    BY <1>5, <1>8, <1>9, <1>11
  <2> QED
    BY <1>1, <1>11, <2>1 DEF InTimeOrder
<1> QED
  BY <1>13, <1>14, <1>15 DEF kept

LEMMA SaveToTop ==
  ASSUME TreeType, InTimeOrder(files[0]), NEW gone, NEW new, new \subseteq Tables,
         new = {} \/ \E f : new = {f} /\ \A s \in Stored(0), t \in f : s < t
  PROVE  /\ SaveTo(0, gone, new) \in Seq(Tables)
         /\ Range(SaveTo(0, gone, new)) = (Files(0) \ gone) \cup new
         /\ InTimeOrder(SaveTo(0, gone, new))
<1> DEFINE kept == Kept(gone)
<1>1. SaveTo(0, gone, new) = kept \o SetToSeq(new)
  BY Zenon DEF SaveTo, Kept
<1>2. kept \in Seq(Tables) /\ Range(kept) = Files(0) \ gone /\ InTimeOrder(kept)
  BY KeptInOrder
<1> HIDE DEF kept
<1>3. CASE new = {}
  <2>1. kept \o <<>> = kept
    BY <1>2
  <2>2. SaveTo(0, gone, new) = kept
    BY <1>1, <1>3, <2>1, NoneListed
  <2> QED
    BY <1>2, <1>3, <2>2
<1>4. CASE new # {}
  <2>1. PICK f : new = {f} /\ \A s \in Stored(0), t \in f : s < t
    BY <1>4
  <2>2. SaveTo(0, gone, new) = kept \o <<f>>
    BY <1>1, <2>1, OneListed
  <2> DEFINE q == kept \o <<f>>
             n == Len(kept)
  <2>3. f \in Tables
    BY <2>1
  <2>4. n \in Nat /\ q \in Seq(Tables) /\ Len(q) = n + 1 /\ DOMAIN q = 1..(n + 1) /\ DOMAIN kept = 1..n
    BY <1>2, <2>3
  <2>5. (\A i \in 1..n : q[i] = kept[i]) /\ q[n + 1] = f
    BY <1>2, <2>3
  <2> HIDE DEF q, n
  <2>6. \A i \in 1..(n + 1) : i \in 1..n \/ i = n + 1
    BY <2>4
  <2>7. \A i \in 1..n : i \in 1..(n + 1) /\ i < n + 1
    BY <2>4
  <2>8. n + 1 \in 1..(n + 1)
    BY <2>4
  <2>9. Range(q) = Range(kept) \cup {f}
    BY <2>4, <2>5, <2>6, <2>7, <2>8 DEF Range
  <2>10. InTimeOrder(q)
    <3> SUFFICES ASSUME NEW i \in 1..(n + 1), NEW j \in 1..(n + 1), i < j,
                        NEW s \in q[i], NEW t \in q[j]
                 PROVE  s < t
      BY <2>4 DEF InTimeOrder
    <3>1. i \in 1..n
      BY <2>4
    <3>2. CASE j \in 1..n
      BY <1>2, <2>4, <2>5, <3>1, <3>2 DEF InTimeOrder
    <3>3. CASE j = n + 1
      <4>1. kept[i] \in Files(0)
        BY <1>2, <2>4, <3>1 DEF Range
      <4>2. s \in Stored(0)
        BY <2>5, <3>1, <4>1 DEF Stored
      <4> QED
        BY <2>1, <2>5, <3>3, <4>2
    <3> QED
      BY <2>6, <3>2, <3>3
  <2> QED
    BY <1>2, <2>1, <2>2, <2>4, <2>9, <2>10 DEF q
<1> QED
  BY <1>3, <1>4

-----------------------------------------------------------------------------
(* AddBoundaryInputs.                                                       *)

\* g goes on after the files of fs, with a user key of theirs.
GoesOn(level, fs, g) ==
  g \in Files(level) /\ Below(UNION fs, g) /\ \E s \in UNION fs, t \in g : hist[s].key = hist[t].key

LEMMA UnionIsTable ==
  ASSUME TreeType, NEW fs, fs \subseteq Tables, fs # {}
  PROVE  UNION fs \in Tables /\ UNION fs \subseteq Updates
BY DEF Tables

LEMMA BoundaryIs ==
  ASSUME TreeType, NEW level \in Levels, NEW fs, fs \subseteq Files(level), fs # {}, NEW f
  PROVE  f \in FindSmallestBoundaryFile(level, fs)
           <=> /\ GoesOn(level, fs, f)
               /\ \A g : GoesOn(level, fs, g) /\ g # f => Less(smallest(f), smallest(g))
<1> DEFINE U == UNION fs
           end == largest(U)
           after == {g \in Files(level) : Less(end, smallest(g)) /\ user_begin(g) = end[1]}
<1>1. Files(level) \subseteq Tables
  BY FilesFinite
<1>2. U \in Tables /\ U \subseteq Updates
  BY <1>1, UnionIsTable
<1>3. PICK l \in U : end = InternalKey(l) /\ \A t \in U \ {l} : Before(t, l)
  BY <1>2, Largest
<1>4. end[1] = hist[l].key
  BY <1>3 DEF InternalKey
<1>5. ASSUME NEW g \in Files(level) PROVE Less(end, smallest(g)) <=> Below(U, g)
  BY <1>1, <1>2, BelowIsLess
<1>6. ASSUME NEW g \in Files(level), Below(U, g)
      PROVE  user_begin(g) = hist[l].key <=> \E s \in U, t \in g : hist[s].key = hist[t].key
  <2>1. g \in Tables /\ g \subseteq Updates
    BY <1>1 DEF Tables
  <2>2. PICK t \in g : user_begin(g) = hist[t].key /\ \A u \in g : hist[t].key <= hist[u].key
    BY <2>1, UserRange
  <2>3. hist[l].key <= hist[t].key
    BY <1>2, <1>3, <1>6, <2>1, <2>2, BeforeKeys DEF Below
  <2>4. \A s \in U : hist[s].key <= hist[l].key
    <3> SUFFICES ASSUME NEW s \in U, s # l PROVE hist[s].key <= hist[l].key
      BY <1>2, UpdateType
    <3>1. Before(s, l)
      BY <1>3
    <3> QED
      BY <1>2, <3>1, BeforeKeys
  <2>5. ASSUME NEW s \in U, NEW u \in g, hist[s].key = hist[u].key PROVE hist[t].key = hist[l].key
    <3>1. hist[s].key <= hist[l].key /\ hist[t].key <= hist[u].key
      BY <2>2, <2>4
    <3> QED
      BY <1>2, <2>1, <2>2, <2>3, <2>5, <3>1, UpdateType
  <2> QED
    BY <1>3, <2>2, <2>5
<1>7. ASSUME NEW g PROVE g \in after <=> GoesOn(level, fs, g)
  <2>1. g \in after <=> g \in Files(level) /\ Less(end, smallest(g)) /\ user_begin(g) = end[1]
    OBVIOUS
  <2> HIDE DEF after, end
  <2> QED
    BY <1>4, <1>5, <1>6, <2>1 DEF GoesOn
<1>8. FindSmallestBoundaryFile(level, fs) = {h \in after : \A g \in after \ {h} : Less(smallest(h), smallest(g))}
  BY Zenon DEF FindSmallestBoundaryFile
<1> HIDE DEF after
<1> QED
  BY <1>7, <1>8

\* A boundary file is behind every file so far.
LEMMA GoesOnAfter ==
  ASSUME TreeType, NEW level \in Levels, NEW fs, fs \subseteq Files(level), fs # {}, NEW g,
         GoesOn(level, fs, g)
  PROVE  g \in Files(level) /\ g \in Tables /\ g \notin fs /\ \A f \in fs : Below(f, g)
<1>1. g \in Files(level) /\ g \in Tables /\ g # {} /\ g \subseteq Updates
  BY FileIsTable DEF GoesOn
<1>2. \A f \in fs : Below(f, g)
  BY DEF GoesOn, Below
<1>3. g \notin fs
  <2> SUFFICES ASSUME g \in fs PROVE FALSE
    OBVIOUS
  <2>1. PICK s \in g : TRUE
    BY <1>1
  <2>2. Before(s, s)
    BY <1>2, <2>1 DEF Below
  <2> QED
    BY <1>1, <2>2, BeforeTransitive
<1> QED
  BY <1>1, <1>2, <1>3

\* No file of the level lies between two of fs without being one of them.
ConvexIn(level, fs) ==
  \A f, h \in fs, g \in Files(level) : Below(f, g) /\ Below(g, h) => g \in fs

\* The other files of the level hold nothing older of a key of fs.
Whole(level, fs) == \A g \in Files(level) \ fs : OlderThan(UNION fs, g)

\* Every key above e that fs reaches lies in a file of fs; and below b.
CoversUp(fs, e) ==
  \A k \in Keys : e < k /\ (\E t \in UNION fs : k <= hist[t].key) => \E f \in fs : Spans(f, k)

CoversDown(fs, b) ==
  \A k \in Keys : k < b /\ (\E s \in UNION fs : hist[s].key <= k) => \E f \in fs : Spans(f, k)

\* What adding boundary files to base keeps.
Chain(level, base, fs) ==
  /\ base \subseteq fs /\ fs \subseteq Files(level)
  /\ FindSmallestBoundaryFile(level, base) = {} => fs = base
  /\ \A f \in fs \ base : \E o \in base : Below(o, f)
  /\ level # 0 /\ ConvexIn(level, base) => ConvexIn(level, fs)
  /\ \A e \in Nat : CoversUp(base, e) => CoversUp(fs, e)
  /\ \A b \in Nat : CoversDown(base, b) => CoversDown(fs, b)
  /\ \A G : Whole(level, G) /\ base \subseteq G => fs \subseteq G

LEMMA ConvexStep ==
  ASSUME TreeType, InKeyOrder, NEW level \in Levels \ {0}, NEW fs, fs \subseteq Files(level), fs # {},
         ConvexIn(level, fs), NEW g, g \in FindSmallestBoundaryFile(level, fs)
  PROVE  ConvexIn(level, fs \cup {g})
<1>1. /\ GoesOn(level, fs, g)
      /\ \A x : GoesOn(level, fs, x) /\ x # g => Less(smallest(g), smallest(x))
  BY BoundaryIs
<1>2. g \in Files(level) /\ g \in Tables /\ \A f \in fs : Below(f, g)
  BY <1>1, GoesOnAfter
<1>3. Files(level) \subseteq Tables
  BY FilesFinite
<1> SUFFICES ASSUME NEW f \in fs \cup {g}, NEW h \in fs \cup {g}, NEW x \in Files(level),
                    Below(f, x), Below(x, h), x \notin fs, x # g
             PROVE  FALSE
  BY DEF ConvexIn
<1>4. \A y, z \in Files(level) : ~(Below(y, z) /\ Below(z, y))
  BY <1>3, BelowTransitive
<1>5. Below(x, g)
  <2>1. CASE h = g
    BY <2>1
  <2>2. CASE h \in fs
    BY <1>2, <1>3, <2>2, BelowTransitive
  <2> QED
    BY <2>1, <2>2
<1>6. f \in fs
  BY <1>2, <1>4, <1>5
<1>7. ASSUME NEW y \in fs PROVE Below(y, x)
  <2>1. y # x /\ (Below(y, x) \/ Below(x, y))
    BY LevelApart DEF Apart
  <2>2. ~Below(x, y)
    BY <1>6, <1>7 DEF ConvexIn
  <2> QED
    BY <2>1, <2>2
<1>8. Below(UNION fs, x)
  BY <1>7 DEF Below
<1>9. \E s \in UNION fs, t \in x : hist[s].key = hist[t].key
  <2>1. PICK s \in UNION fs, t \in g : hist[s].key = hist[t].key
    BY <1>1 DEF GoesOn
  <2>2. PICK u \in x : TRUE
    BY <1>3 DEF Tables
  <2>3. Before(s, u) /\ Before(u, t)
    BY <1>5, <1>8 DEF Below
  <2>4. s \in Updates /\ u \in Updates /\ t \in Updates
    BY <1>2, <1>3 DEF Tables
  <2>5. hist[s].key <= hist[u].key /\ hist[u].key <= hist[t].key
    BY <2>3, <2>4, BeforeKeys
  <2>6. hist[s].key = hist[u].key
    BY <2>1, <2>4, <2>5, UpdateType
  <2> QED
    BY <2>6
<1>10. Less(smallest(g), smallest(x))
  BY <1>1, <1>8, <1>9 DEF GoesOn
<1> QED
  BY <1>2, <1>3, <1>4, <1>5, <1>10, SmallestOrder

LEMMA CoversUpStep ==
  ASSUME TreeType, NEW level \in Levels, NEW fs, fs \subseteq Files(level), fs # {},
         NEW g, GoesOn(level, fs, g), NEW e \in Nat, CoversUp(fs, e)
  PROVE  CoversUp(fs \cup {g}, e)
<1>1. g \in Tables /\ g \subseteq Updates /\ UNION fs \subseteq Updates
  BY GoesOnAfter, FilesFinite DEF Tables
<1>2. PICK s \in UNION fs, u \in g : hist[s].key = hist[u].key
  BY DEF GoesOn
<1> SUFFICES ASSUME NEW k \in Keys, e < k, NEW t \in UNION (fs \cup {g}), k <= hist[t].key
             PROVE  \E f \in fs \cup {g} : Spans(f, k)
  BY DEF CoversUp
<1>3. k \in Nat
  BY LSMTreeAssumption DEF Keys
<1>4. CASE k <= hist[s].key
  <2>1. \E f \in fs : Spans(f, k)
    BY <1>4 DEF CoversUp
  <2> QED
    BY <2>1
<1>5. CASE ~(k <= hist[s].key)
  <2>1. s \in Updates /\ hist[s].key <= k
    BY <1>1, <1>3, <1>5, UpdateType
  <2>2. CASE t \in UNION fs
    <3>1. \E f \in fs : Spans(f, k)
      BY <2>2 DEF CoversUp
    <3> QED
      BY <3>1
  <2>3. CASE t \in g
    <3>1. Spans(g, k)
      BY <1>2, <2>1, <2>3 DEF Spans
    <3> QED
      BY <3>1
  <2> QED
    BY <2>2, <2>3
<1> QED
  BY <1>4, <1>5

LEMMA CoversDownStep ==
  ASSUME TreeType, NEW level \in Levels, NEW fs, fs \subseteq Files(level), fs # {},
         NEW g, GoesOn(level, fs, g), NEW b \in Nat, CoversDown(fs, b)
  PROVE  CoversDown(fs \cup {g}, b)
<1>1. g \in Tables /\ g \subseteq Updates /\ UNION fs \subseteq Updates
  BY GoesOnAfter, FilesFinite DEF Tables
<1>2. PICK s \in UNION fs : TRUE
  BY DEF GoesOn
<1> SUFFICES ASSUME NEW k \in Keys, k < b, NEW t \in UNION (fs \cup {g}), hist[t].key <= k
             PROVE  \E f \in fs \cup {g} : Spans(f, k)
  BY DEF CoversDown
<1>3. k \in Nat
  BY LSMTreeAssumption DEF Keys
<1>4. \E u \in UNION fs : hist[u].key <= k
  <2>1. CASE t \in UNION fs
    BY <2>1
  <2>2. CASE t \in g
    <3>1. Before(s, t)
      BY <2>2 DEF GoesOn, Below
    <3>2. s \in Updates /\ t \in Updates /\ hist[s].key <= hist[t].key
      BY <1>1, <2>2, <3>1, BeforeKeys
    <3>3. hist[s].key <= k
      BY <1>3, <3>2, UpdateType
    <3> QED
      BY <3>3
  <2> QED
    BY <2>1, <2>2
<1>5. \E f \in fs : Spans(f, k)
  BY <1>4 DEF CoversDown
<1> QED
  BY <1>5

\* A whole set that contains fs contains the boundary file of fs.
LEMMA WholeStep ==
  ASSUME TreeType, NEW level \in Levels, NEW fs, fs \subseteq Files(level), fs # {},
         NEW g, GoesOn(level, fs, g), NEW G, Whole(level, G), fs \subseteq G
  PROVE  g \in G
<1> SUFFICES ASSUME g \notin G PROVE FALSE
  OBVIOUS
<1>1. g \in Files(level) /\ g \in Tables /\ g \subseteq Updates /\ UNION fs \subseteq Updates
  BY GoesOnAfter, FilesFinite DEF Tables
<1>2. PICK s \in UNION fs, u \in g : hist[s].key = hist[u].key
  BY DEF GoesOn
<1>3. s \in UNION G
  OBVIOUS
<1>4. s < u
  BY <1>1, <1>2, <1>3 DEF Whole, OlderThan
<1>5. Before(s, u)
  BY DEF GoesOn, Below
<1> QED
  BY <1>1, <1>2, <1>4, <1>5, BeforeIs, UpdateType

LEMMA OneBoundaryFile ==
  ASSUME TreeType, NEW level \in Levels, NEW fs, fs \subseteq Files(level), fs # {},
         NEW g \in FindSmallestBoundaryFile(level, fs)
  PROVE  FindSmallestBoundaryFile(level, fs) = {g}
<1> SUFFICES ASSUME NEW h \in FindSmallestBoundaryFile(level, fs), h # g PROVE FALSE
  OBVIOUS
<1>1. GoesOn(level, fs, g) /\ GoesOn(level, fs, h)
  BY BoundaryIs
<1>2. Less(smallest(g), smallest(h)) /\ Less(smallest(h), smallest(g))
  BY <1>1, BoundaryIs
<1>3. g \in Tables /\ h \in Tables
  BY <1>1, GoesOnAfter
<1>4. PICK s \in g : smallest(g) = InternalKey(s)
  BY <1>3, Smallest
<1>5. PICK t \in h : smallest(h) = InternalKey(t)
  BY <1>3, Smallest
<1>6. s \in Updates /\ t \in Updates /\ Before(s, t) /\ Before(t, s)
  BY <1>2, <1>3, <1>4, <1>5 DEF Tables, Before
<1> QED
  BY <1>6, BeforeTransitive

LEMMA ChainStep ==
  ASSUME TreeType, InKeyOrder, NEW level \in Levels, NEW base, base # {}, NEW fs,
         Chain(level, base, fs)
  PROVE  Chain(level, base, fs \cup FindSmallestBoundaryFile(level, fs))
<1> DEFINE more == FindSmallestBoundaryFile(level, fs)
<1>1. base \subseteq fs /\ fs \subseteq Files(level) /\ fs # {}
  BY DEF Chain
<1>2. CASE more = {}
  BY <1>2
<1>3. CASE more # {}
  <2>1. PICK g : g \in more
    BY <1>3
  <2>2. more = {g}
    BY <1>1, <2>1, OneBoundaryFile
  <2>3. GoesOn(level, fs, g)
    BY <1>1, <2>1, BoundaryIs
  <2>4. g \in Files(level) /\ \A f \in fs : Below(f, g)
    BY <1>1, <2>3, GoesOnAfter
  <2> HIDE DEF more
  <2>5. base \subseteq fs \cup {g} /\ fs \cup {g} \subseteq Files(level)
    BY <1>1, <2>4
  <2>6. ~(FindSmallestBoundaryFile(level, base) = {})
    BY <1>3 DEF Chain, more
  <2>7. \A f \in (fs \cup {g}) \ base : \E o \in base : Below(o, f)
    <3>1. PICK o \in base : TRUE
      OBVIOUS
    <3>2. o \in fs /\ Below(o, g)
      BY <1>1, <2>4
    <3> QED
      BY <3>1, <3>2 DEF Chain
  <2>8. level # 0 /\ ConvexIn(level, base) => ConvexIn(level, fs \cup {g})
    <3> SUFFICES ASSUME level # 0, ConvexIn(level, base) PROVE ConvexIn(level, fs \cup {g})
      OBVIOUS
    <3>1. ConvexIn(level, fs) /\ level \in Levels \ {0}
      BY DEF Chain
    <3>2. g \in FindSmallestBoundaryFile(level, fs)
      BY <2>1 DEF more
    <3> QED
      BY <1>1, <3>1, <3>2, ConvexStep
  <2>9. \A e \in Nat : CoversUp(base, e) => CoversUp(fs \cup {g}, e)
    BY <1>1, <2>3, CoversUpStep DEF Chain
  <2>10. \A b \in Nat : CoversDown(base, b) => CoversDown(fs \cup {g}, b)
    BY <1>1, <2>3, CoversDownStep DEF Chain
  <2>11. \A G : Whole(level, G) /\ base \subseteq G => fs \cup {g} \subseteq G
    <3> SUFFICES ASSUME NEW G, Whole(level, G), base \subseteq G PROVE fs \cup {g} \subseteq G
      OBVIOUS
    <3>1. fs \subseteq G
      BY DEF Chain
    <3>2. g \in G
      BY <1>1, <2>3, <3>1, WholeStep
    <3> QED
      BY <3>1, <3>2
  <2>12. Chain(level, base, fs \cup {g})
    BY <2>5, <2>6, <2>7, <2>8, <2>9, <2>10, <2>11 DEF Chain
  <2> QED
    BY <2>2, <2>12 DEF more
<1> QED
  BY <1>2, <1>3

LEMMA ChainStart ==
  ASSUME NEW level, NEW base, base \subseteq Files(level)
  PROVE  Chain(level, base, base)
BY DEF Chain

\* The rounds of AddBoundaryInputs.
Round(f, n, level, fs) ==
  IF n = 0 THEN fs ELSE f[n - 1] \cup FindSmallestBoundaryFile(level, f[n - 1])

\* f is right in its first d rounds.
RoundsUpTo(f, d, size, level, fs) ==
  f = [n \in 0..size |-> f[n]] /\ \A n \in 0..size : n <= d => f[n] = Round(f, n, level, fs)

LEMMA RoundsStep ==
  ASSUME NEW size \in Nat, NEW level, NEW fs, NEW d \in Nat, NEW f, RoundsUpTo(f, d, size, level, fs)
  PROVE  RoundsUpTo([n \in 0..size |-> Round(f, n, level, fs)], d + 1, size, level, fs)
<1> DEFINE g == [n \in 0..size |-> Round(f, n, level, fs)]
<1>1. \A n \in 0..size : g[n] = Round(f, n, level, fs)
  OBVIOUS
<1>2. g = [n \in 0..size |-> g[n]]
  OBVIOUS
<1> HIDE DEF g
<1>3. ASSUME NEW n \in 0..size, n <= d + 1 PROVE g[n] = Round(g, n, level, fs)
  <2>1. CASE n = 0
    BY <1>1, <2>1 DEF Round
  <2>2. CASE n # 0
    <3>1. n - 1 \in 0..size /\ n - 1 <= d
      BY <1>3, <2>2
    <3>2. g[n - 1] = f[n - 1]
      BY <1>1, <3>1 DEF RoundsUpTo
    <3> QED
      BY <1>1, <2>2, <3>2 DEF Round
  <2> QED
    BY <2>1, <2>2
<1>4. RoundsUpTo(g, d + 1, size, level, fs)
  BY <1>2, <1>3 DEF RoundsUpTo
<1> QED
  BY <1>4 DEF g

AreRounds(f, size, level, fs) == f = [n \in 0..size |-> Round(f, n, level, fs)]

LEMMA RoundsExist ==
  ASSUME NEW size \in Nat, NEW level, NEW fs
  PROVE  \E f : AreRounds(f, size, level, fs)
<1> DEFINE K == {d \in Nat : ~ \E f : RoundsUpTo(f, d, size, level, fs)}
<1>1. K = {}
  <2> SUFFICES ASSUME K # {} PROVE FALSE
    OBVIOUS
  <2>1. PICK k \in K : \A j \in K : k <= j
    <3>1. K \subseteq Nat
      OBVIOUS
    <3> HIDE DEF K
    <3> QED
      BY <3>1, LeastNumberOf
  <2>2. k \in Nat /\ ~ \E f : RoundsUpTo(f, k, size, level, fs)
    OBVIOUS
  <2>3. CASE k = 0
    <3> DEFINE f == [n \in 0..size |-> fs]
    <3>1. f = [n \in 0..size |-> f[n]] /\ \A n \in 0..size : f[n] = fs
      OBVIOUS
    <3> HIDE DEF f
    <3>2. RoundsUpTo(f, 0, size, level, fs)
      BY <3>1 DEF RoundsUpTo, Round
    <3> QED
      BY <2>2, <2>3, <3>2
  <2>4. CASE k # 0
    <3>1. k - 1 \in Nat /\ (k - 1) + 1 = k /\ ~(k <= k - 1)
      BY <2>2, <2>4
    <3>2. k - 1 \notin K
      BY <2>1, <3>1
    <3>3. PICK f : RoundsUpTo(f, k - 1, size, level, fs)
      BY <3>1, <3>2
    <3>4. RoundsUpTo([n \in 0..size |-> Round(f, n, level, fs)], (k - 1) + 1, size, level, fs)
      BY <3>1, <3>3, RoundsStep
    <3> QED
      BY <2>2, <3>1, <3>4
  <2> QED
    BY <2>3, <2>4
<1>2. PICK f : RoundsUpTo(f, size, size, level, fs)
  BY <1>1
<1>3. \A n \in 0..size : f[n] = Round(f, n, level, fs)
  BY <1>2 DEF RoundsUpTo
<1>4. f = [n \in 0..size |-> f[n]]
  BY <1>2 DEF RoundsUpTo
<1>5. AreRounds(f, size, level, fs)
  BY <1>3, <1>4 DEF AreRounds
<1> QED
  BY <1>5

\* AddBoundaryInputs ends when there is no boundary file left.
LEMMA BoundaryChain ==
  ASSUME TreeType, InKeyOrder, NEW level \in Levels, NEW fs, fs \subseteq Files(level), fs # {}
  PROVE  /\ Chain(level, fs, AddBoundaryInputs(level, fs))
         /\ FindSmallestBoundaryFile(level, AddBoundaryInputs(level, fs)) = {}
<1> DEFINE size == Cardinality(Files(level))
           A(f) == [n \in 0..size |->
                      IF n = 0 THEN fs
                      ELSE f[n - 1] \cup FindSmallestBoundaryFile(level, f[n - 1])]
           add == CHOOSE f : f = A(f)
<1>1. size \in Nat /\ IsFiniteSet(Files(level))
  BY FilesFinite, FS_CardinalityType
<1>2. \A f : A(f) = [n \in 0..size |-> Round(f, n, level, fs)]
  BY DEF Round
<1>3. add = A(add)
  <2>1. PICK f : AreRounds(f, size, level, fs)
    <3> HIDE DEF size
    <3> QED
      BY <1>1, RoundsExist
  <2>2. f = A(f)
    BY <1>2, <2>1 DEF AreRounds
  <2> HIDE DEF A
  <2> QED
    BY <2>2, Zenon
<1>4. AddBoundaryInputs(level, fs) = add[size]
  BY Zenon DEF AddBoundaryInputs
<1> HIDE DEF A, add, size
<1>5. \A n \in 0..size : add[n] = Round(add, n, level, fs)
  <2>1. add = [n \in 0..size |-> Round(add, n, level, fs)]
    BY <1>2, <1>3
  <2> HIDE DEF add
  <2> QED
    BY <2>1
<1> DEFINE Ended(X) == FindSmallestBoundaryFile(level, X) = {}
           Right(n) == Chain(level, fs, add[n]) /\ (Ended(add[n]) \/ Cardinality(add[n]) >= n + 1)
           K == {n \in Nat : n <= size /\ ~Right(n)}
<1>6. K = {}
  <2> SUFFICES ASSUME K # {} PROVE FALSE
    OBVIOUS
  <2>1. PICK k \in K : \A j \in K : k <= j
    <3>1. K \subseteq Nat
      OBVIOUS
    <3> HIDE DEF K
    <3> QED
      BY <3>1, LeastNumberOf
  <2>2. k \in Nat /\ k <= size /\ ~Right(k) /\ k \in 0..size
    BY <1>1
  <2>3. CASE k = 0
    <3>1. add[0] = fs
      BY <1>5, <2>2, <2>3 DEF Round
    <3>2. Chain(level, fs, fs)
      BY ChainStart
    <3>3. Cardinality(fs) >= 0 + 1
      <4>1. IsFiniteSet(fs) /\ Cardinality(fs) \in Nat
        BY <1>1, FS_Subset, FS_CardinalityType
      <4>2. Cardinality(fs) # 0
        BY <4>1, FS_EmptySet
      <4> QED
        BY <4>1, <4>2
    <3>4. Right(0)
      BY <3>1, <3>2, <3>3
    <3> HIDE DEF Right
    <3> QED
      BY <2>2, <2>3, <3>4
  <2>4. CASE k # 0
    <3> DEFINE j == k - 1
    <3>1. j \in Nat /\ j \in 0..size /\ ~(k <= j) /\ k = j + 1 /\ j <= size
      BY <1>1, <2>2, <2>4
    <3>2. Right(j)
      <4>1. j \notin K
        BY <2>1, <3>1
      <4> HIDE DEF Right
      <4> QED
        BY <3>1, <4>1
    <3>3. add[k] = add[j] \cup FindSmallestBoundaryFile(level, add[j])
      BY <1>5, <2>2, <2>4 DEF Round
    <3> HIDE DEF j
    <3>4. Chain(level, fs, add[k])
      BY <3>2, <3>3, ChainStep
    <3>5. CASE Ended(add[j])
      <4>1. add[k] = add[j]
        BY <3>3, <3>5
      <4>2. Right(k)
        BY <3>4, <3>5, <4>1
      <4> HIDE DEF Right
      <4> QED
        BY <2>2, <4>2
    <3>6. CASE ~Ended(add[j])
      <4>1. add[j] \subseteq Files(level) /\ add[j] # {}
        BY <3>2 DEF Chain
      <4>2. PICK g : g \in FindSmallestBoundaryFile(level, add[j])
        BY <3>6
      <4>3. add[k] = add[j] \cup {g} /\ g \notin add[j]
        <5>1. FindSmallestBoundaryFile(level, add[j]) = {g}
          BY <4>1, <4>2, OneBoundaryFile
        <5>2. GoesOn(level, add[j], g)
          BY <4>1, <4>2, BoundaryIs
        <5>3. g \notin add[j]
          BY <4>1, <5>2, GoesOnAfter
        <5> QED
          BY <3>3, <5>1, <5>3
      <4>4. IsFiniteSet(add[j]) /\ Cardinality(add[j]) \in Nat
        BY <1>1, <4>1, FS_Subset, FS_CardinalityType
      <4>5. Cardinality(add[k]) = Cardinality(add[j]) + 1
        BY <4>3, <4>4, FS_AddElement
      <4>6. Cardinality(add[k]) >= k + 1
        BY <3>1, <3>2, <3>6, <4>4, <4>5
      <4>7. Right(k)
        BY <3>4, <4>6
      <4> HIDE DEF Right
      <4> QED
        BY <2>2, <4>7
    <3> QED
      BY <3>5, <3>6
  <2> QED
    BY <2>3, <2>4
<1>7. Right(size)
  <2> HIDE DEF Right
  <2>1. size <= size
    BY <1>1
  <2> QED
    BY <1>1, <1>6, <2>1
<1>8. ~(Cardinality(add[size]) >= size + 1)
  <2>1. add[size] \subseteq Files(level)
    BY <1>7 DEF Chain
  <2>2. Cardinality(add[size]) <= size /\ Cardinality(add[size]) \in Nat
    <3>1. IsFiniteSet(add[size]) /\ Cardinality(add[size]) <= Cardinality(Files(level))
      BY <1>1, <2>1, FS_Subset
    <3> QED
      BY <3>1, FS_CardinalityType DEF size
  <2> QED
    BY <1>1, <2>2
<1> QED
  BY <1>4, <1>7, <1>8

LEMMA NoBoundaryLeft ==
  ASSUME TreeType, InKeyOrder, NEW level \in Levels \ {0}, NEW fs, fs \subseteq Files(level), fs # {},
         FindSmallestBoundaryFile(level, fs) = {}, NEW g
  PROVE  ~GoesOn(level, fs, g)
<1> SUFFICES ASSUME GoesOn(level, fs, g) PROVE FALSE
  OBVIOUS
<1> DEFINE after == {x \in Files(level) : GoesOn(level, fs, x)}
           R == {p \in after \X after : Below(p[2], p[1])}
<1>1. after \subseteq Files(level) /\ g \in after /\ \A x : GoesOn(level, fs, x) <=> x \in after
  BY DEF GoesOn
<1>2. \A x, y \in after : <<x, y>> \in R <=> Below(y, x)
  OBVIOUS
<1>3. IsFiniteSet(after) /\ Files(level) \subseteq Tables
  BY FilesFinite, FS_Subset
<1> HIDE DEF after, R
<1>4. StrictOrder(after, R)
  <2>1. \A x \in Tables : ~Below(x, x)
    BY BelowTransitive
  <2>2. \A x, y \in after : x # y => Below(x, y) \/ Below(y, x)
    BY <1>1, LevelApart DEF Apart
  <2>3. \A x, y, z \in after : Below(y, x) /\ Below(z, y) => Below(z, x)
    BY <1>1, <1>3, BelowTransitive
  <2> QED
    BY <1>1, <1>2, <1>3, <2>1, <2>2, <2>3 DEF StrictOrder
<1>5. PICK m : IsLast(m, after, R)
  BY <1>1, <1>3, <1>4, LastExists
<1>6. m \in after /\ \A x \in after \ {m} : Below(m, x)
  BY <1>2, <1>5 DEF IsLast
<1>7. \A x \in after \ {m} : Less(smallest(m), smallest(x))
  <2> SUFFICES ASSUME NEW x \in after \ {m} PROVE Less(smallest(m), smallest(x))
    OBVIOUS
  <2>1. x \in Tables /\ m \in Tables /\ Below(m, x)
    BY <1>1, <1>3, <1>6
  <2> QED
    BY <2>1, SmallestOrder
<1>8. m \in FindSmallestBoundaryFile(level, fs)
  BY <1>1, <1>6, <1>7, BoundaryIs
<1> QED
  BY <1>8

LEMMA ConvexIsWhole ==
  ASSUME TreeType, InKeyOrder, NEW level \in Levels \ {0}, NEW fs, fs \subseteq Files(level),
         ConvexIn(level, fs), fs # {} => FindSmallestBoundaryFile(level, fs) = {}
  PROVE  Whole(level, fs)
<1> SUFFICES ASSUME NEW g \in Files(level) \ fs, NEW s \in UNION fs, NEW t \in g,
                    hist[s].key = hist[t].key, ~(s < t)
             PROVE  FALSE
  BY DEF Whole, OlderThan
<1>1. PICK f \in fs : s \in f
  OBVIOUS
<1>2. Files(level) \subseteq Tables /\ f # g
  BY <1>1, FilesFinite
<1>3. s \in Updates /\ t \in Updates
  BY <1>1, <1>2 DEF Tables
<1>4. Below(f, g)
  <2>1. Below(f, g) \/ Below(g, f)
    BY <1>1, <1>2, LevelApart DEF Apart
  <2>2. ~Before(t, s)
    BY <1>3, BeforeIs, UpdateType
  <2> QED
    BY <1>1, <2>1, <2>2 DEF Below
<1>5. ASSUME NEW y \in fs PROVE Below(y, g)
  <2>1. y # g /\ (Below(y, g) \/ Below(g, y))
    BY LevelApart DEF Apart
  <2>2. ~Below(g, y)
    BY <1>1, <1>4 DEF ConvexIn
  <2> QED
    BY <2>1, <2>2
<1>6. GoesOn(level, fs, g)
  BY <1>5 DEF GoesOn, Below
<1> QED
  BY <1>1, <1>6, NoBoundaryLeft

-----------------------------------------------------------------------------
(* GetOverlappingInputs.                                                    *)

\* The ranges around <<b, e>> that contain the files of level 0 they overlap.
ClosedRanges(b, e) ==
  {r \in (0..b) \X (e..NoKey) :
     \A f \in Files(0) : Overlaps(f, r[1], r[2]) => r[1] <= user_begin(f) /\ user_end(f) <= r[2]}

IsLeastRange(r, b, e) ==
  r \in ClosedRanges(b, e) /\ \A q \in ClosedRanges(b, e) : q[1] <= r[1] /\ r[2] <= q[2]

LEMMA IsClosed ==
  ASSUME TreeType, NEW b \in Nat, NEW e \in Nat, NEW x, NEW y
  PROVE  <<x, y>> \in ClosedRanges(b, e) <=>
           /\ x \in 0..b /\ y \in e..NoKey
           /\ \A f \in Files(0) : Overlaps(f, x, y) => x <= user_begin(f) /\ user_end(f) <= y
BY DEF ClosedRanges

LEMMA LeastRangeExists ==
  ASSUME TreeType, NEW b \in 0..NoKey, NEW e \in 0..NoKey
  PROVE  \E r : IsLeastRange(r, b, e)
<1> DEFINE C == ClosedRanges(b, e)
<1>1. NoKey \in Nat /\ b \in Nat /\ e \in Nat /\ MaxKey \in Nat /\ NoKey = MaxKey + 1
  BY LSMTreeAssumption DEF NoKey
<1>2. Files(0) \subseteq Tables
  BY FilesFinite, LevelZero
<1>3. \A f \in Files(0) : user_begin(f) \in Nat /\ user_end(f) \in Nat /\ user_end(f) <= NoKey
  <2> SUFFICES ASSUME NEW f \in Files(0)
               PROVE  user_begin(f) \in Nat /\ user_end(f) \in Nat /\ user_end(f) <= NoKey
    OBVIOUS
  <2>1. user_begin(f) \in Nat /\ user_end(f) \in Nat /\ user_end(f) \in Keys
    BY <1>2, UserRange
  <2> QED
    BY <1>1, <2>1 DEF Keys
<1>4. <<0, NoKey>> \in C
  BY <1>1, <1>3, IsClosed
<1>5. \A r \in C : r = <<r[1], r[2]>> /\ r[1] \in 0..b /\ r[2] \in e..NoKey
  BY DEF ClosedRanges
<1> HIDE DEF C
<1>6. PICK r \in C : \A q \in C : q[1] <= r[1]
  <2> DEFINE T == {b - q[1] : q \in C}
  <2>1. T \subseteq Nat /\ T # {}
    BY <1>1, <1>4, <1>5
  <2>2. PICK x \in T : \A y \in T : x <= y
    <3> HIDE DEF T
    <3> QED
      BY <2>1, LeastNumberOf
  <2>3. PICK r \in C : x = b - r[1]
    OBVIOUS
  <2>4. ASSUME NEW q \in C PROVE q[1] <= r[1]
    <3>1. b - r[1] <= b - q[1]
      BY <2>2, <2>3
    <3> QED
      BY <1>1, <1>5, <3>1
  <2> QED
    BY <2>4
<1>7. PICK p \in C : \A q \in C : p[2] <= q[2]
  <2> DEFINE T == {q[2] : q \in C}
  <2>1. T \subseteq Nat /\ T # {}
    BY <1>1, <1>4, <1>5
  <2>2. PICK x \in T : \A y \in T : x <= y
    <3> HIDE DEF T
    <3> QED
      BY <2>1, LeastNumberOf
  <2>3. PICK p \in C : x = p[2]
    OBVIOUS
  <2> QED
    BY <2>2, <2>3
<1>8. <<r[1], p[2]>> \in C
  <2>1. r[1] \in 0..b /\ p[2] \in e..NoKey /\ r[1] \in Nat /\ p[2] \in Nat /\ r[2] \in Nat /\ p[1] \in Nat
    BY <1>1, <1>5
  <2>2. p[1] <= r[1] /\ p[2] <= r[2]
    BY <1>6, <1>7
  <2>3. ASSUME NEW f \in Files(0), Overlaps(f, r[1], p[2])
        PROVE  r[1] <= user_begin(f) /\ user_end(f) <= p[2]
    <3>1. Overlaps(f, r[1], r[2]) /\ Overlaps(f, p[1], p[2])
      BY <1>3, <2>1, <2>2, <2>3 DEF Overlaps
    <3>2. r[1] <= user_begin(f) /\ user_end(f) <= p[2]
      BY <1>5, <3>1 DEF C, ClosedRanges
    <3> QED
      BY <3>2
  <2> QED
    BY <1>1, <2>1, <2>3, IsClosed DEF C
<1>9. IsLeastRange(<<r[1], p[2]>>, b, e)
  BY <1>6, <1>7, <1>8 DEF IsLeastRange, C
<1> QED
  BY <1>9

LEMMA TopInputs ==
  ASSUME TreeType, NEW b \in 0..NoKey, NEW e \in 0..NoKey
  PROVE  \E r : /\ IsLeastRange(r, b, e)
                /\ GetOverlappingInputs(0, b, e) = {f \in Files(0) : Overlaps(f, r[1], r[2])}
<1> DEFINE P(r) == \A q \in ClosedRanges(b, e) : q[1] <= r[1] /\ r[2] <= q[2]
           r == CHOOSE r \in ClosedRanges(b, e) : P(r)
<1>1. \E q \in ClosedRanges(b, e) : P(q)
  BY LeastRangeExists DEF IsLeastRange
<1>2. r \in ClosedRanges(b, e) /\ P(r)
  BY <1>1, Zenon
<1>3. IsLeastRange(r, b, e)
  BY <1>2, Zenon DEF IsLeastRange
<1>4. GetOverlappingInputs(0, b, e) = {f \in Files(0) : Overlaps(f, r[1], r[2])}
  <2> DEFINE q == IF 0 > 0 THEN <<b, e>> ELSE r
  <2>1. GetOverlappingInputs(0, b, e) = {f \in Files(0) : Overlaps(f, q[1], q[2])}
    BY Zenon DEF GetOverlappingInputs, ClosedRanges
  <2>2. ~(0 > 0)
    OBVIOUS
  <2> HIDE DEF r
  <2>3. q = r
    BY <2>2, Zenon
  <2> HIDE DEF q
  <2> QED
    BY <2>1, <2>3
<1> QED
  BY <1>3, <1>4, Zenon

\* A file of level 0 outside the inputs shares no key with them.
LEMMA TopApart ==
  ASSUME TreeType, NEW b \in 0..NoKey, NEW e \in 0..NoKey,
         NEW g \in Files(0) \ GetOverlappingInputs(0, b, e),
         NEW s \in UNION GetOverlappingInputs(0, b, e), NEW t \in g
  PROVE  hist[s].key # hist[t].key
<1>1. PICK r : /\ IsLeastRange(r, b, e)
               /\ GetOverlappingInputs(0, b, e) = {f \in Files(0) : Overlaps(f, r[1], r[2])}
  BY TopInputs
<1>2. NoKey \in Nat /\ Files(0) \subseteq Tables
  BY LSMTreeAssumption, FilesFinite, LevelZero DEF NoKey
<1>3. /\ r[1] \in Nat /\ r[2] \in Nat
      /\ \A f \in Files(0) : Overlaps(f, r[1], r[2]) => r[1] <= user_begin(f) /\ user_end(f) <= r[2]
  BY <1>1, <1>2 DEF IsLeastRange, ClosedRanges
<1>4. PICK f \in Files(0) : s \in f /\ r[1] <= user_begin(f) /\ user_end(f) <= r[2]
  BY <1>1, <1>3
<1>5. f \in Tables /\ g \in Tables /\ s \in Updates /\ t \in Updates
  BY <1>2, <1>4 DEF Tables
<1>6. /\ user_begin(f) \in Nat /\ user_end(f) \in Nat
      /\ user_begin(f) <= hist[s].key /\ hist[s].key <= user_end(f)
  BY <1>4, <1>5, UserRange
<1>7. r[1] <= hist[s].key /\ hist[s].key <= r[2]
  BY <1>3, <1>4, <1>5, <1>6, UpdateType
<1>8. ~Overlaps(g, r[1], r[2])
  BY <1>1
<1>9. ~((\E u \in g : r[1] <= hist[u].key) /\ (\E u \in g : hist[u].key <= r[2]))
  BY <1>3, <1>5, <1>8, OverlapsIs
<1> QED
  BY <1>7, <1>9

LEMMA TopCovers ==
  ASSUME TreeType, NEW b \in 0..NoKey, NEW e \in 0..NoKey
  PROVE  CoversUp(GetOverlappingInputs(0, b, e), e) /\ CoversDown(GetOverlappingInputs(0, b, e), b)
<1> DEFINE X == GetOverlappingInputs(0, b, e)
<1>1. PICK r : IsLeastRange(r, b, e) /\ X = {f \in Files(0) : Overlaps(f, r[1], r[2])}
  BY TopInputs
<1> HIDE DEF X
<1>2. /\ NoKey \in Nat /\ NoKey = MaxKey + 1 /\ MaxKey \in Nat /\ b \in Nat /\ e \in Nat
      /\ Files(0) \subseteq Tables
  BY LSMTreeAssumption, FilesFinite, LevelZero DEF NoKey
<1>3. /\ r[1] \in Nat /\ r[2] \in Nat /\ r[1] <= b /\ e <= r[2] /\ r[2] <= NoKey
      /\ \A f \in Files(0) : Overlaps(f, r[1], r[2]) => r[1] <= user_begin(f) /\ user_end(f) <= r[2]
  BY <1>1, <1>2 DEF IsLeastRange, ClosedRanges
<1>4. ASSUME NEW f \in X
      PROVE  /\ f \in Files(0) /\ f \in Tables /\ user_begin(f) \in Nat /\ user_end(f) \in Nat
             /\ r[1] <= user_begin(f) /\ user_end(f) <= r[2]
             /\ \A s \in f : hist[s].key \in Nat /\ user_begin(f) <= hist[s].key /\ hist[s].key <= user_end(f)
  <2>1. f \in Files(0) /\ f \in Tables /\ f \subseteq Updates
    BY <1>1, <1>2 DEF Tables
  <2> QED
    BY <1>1, <1>3, <2>1, UserRange, UpdateType
<1>5. ASSUME NEW k \in Keys, NEW f \in X, ~Spans(f, k) PROVE user_end(f) < k \/ k < user_begin(f)
  <2>1. k \in Nat
    BY <1>2 DEF Keys
  <2>2. ~(user_begin(f) <= k /\ k <= user_end(f))
    BY <1>4, <1>5, <2>1, UserBounds DEF Spans
  <2> QED
    BY <1>4, <2>1, <2>2
<1>6. ASSUME NEW k \in Keys, e < k, NEW t \in UNION X, k <= hist[t].key, \A f \in X : ~Spans(f, k)
      PROVE  FALSE
  <2>1. k \in Nat /\ k - 1 \in Nat /\ k - 1 < k /\ e <= k - 1
    BY <1>2, <1>6 DEF Keys
  <2>2. k <= r[2]
    BY <1>3, <1>4, <1>6, <2>1
  <2>3. ASSUME NEW f \in Files(0), Overlaps(f, r[1], k - 1)
        PROVE  r[1] <= user_begin(f) /\ user_end(f) <= k - 1
    <3>1. user_begin(f) \in Nat /\ user_end(f) \in Nat
      BY <1>2, UserRange
    <3>2. Overlaps(f, r[1], r[2]) /\ user_begin(f) <= k - 1
      BY <1>3, <2>1, <2>2, <2>3, <3>1 DEF Overlaps
    <3>3. f \in X
      BY <1>1, <3>2
    <3>4. user_end(f) < k \/ k < user_begin(f)
      BY <1>5, <1>6, <3>3
    <3> QED
      BY <1>3, <2>1, <3>1, <3>2, <3>4
  <2>4. <<r[1], k - 1>> \in ClosedRanges(b, e)
    <3>1. r[1] \in 0..b /\ k - 1 \in e..NoKey
      BY <1>2, <1>3, <2>1, <2>2
    <3> QED
      BY <1>2, <2>3, <3>1, IsClosed
  <2>5. r[2] <= k - 1
    BY <1>1, <2>4 DEF IsLeastRange
  <2> QED
    BY <1>3, <2>1, <2>2, <2>5
<1>7. ASSUME NEW k \in Keys, k < b, NEW s \in UNION X, hist[s].key <= k, \A f \in X : ~Spans(f, k)
      PROVE  FALSE
  <2>1. k \in Nat /\ k + 1 \in Nat /\ k + 1 <= b
    BY <1>2, <1>7 DEF Keys
  <2>2. r[1] <= k
    BY <1>3, <1>4, <1>7, <2>1
  <2>3. ASSUME NEW f \in Files(0), Overlaps(f, k + 1, r[2])
        PROVE  k + 1 <= user_begin(f) /\ user_end(f) <= r[2]
    <3>1. user_begin(f) \in Nat /\ user_end(f) \in Nat
      BY <1>2, UserRange
    <3>2. Overlaps(f, r[1], r[2]) /\ k + 1 <= user_end(f)
      BY <1>3, <2>1, <2>2, <2>3, <3>1 DEF Overlaps
    <3>3. f \in X
      BY <1>1, <3>2
    <3>4. user_end(f) < k \/ k < user_begin(f)
      BY <1>5, <1>7, <3>3
    <3>5. user_end(f) <= r[2]
      BY <1>3, <3>2
    <3> QED
      BY <1>3, <2>1, <3>1, <3>2, <3>4, <3>5
  <2>4. <<k + 1, r[2]>> \in ClosedRanges(b, e)
    <3>1. k + 1 \in 0..b /\ r[2] \in e..NoKey
      BY <1>2, <1>3, <2>1
    <3> QED
      BY <1>2, <2>3, <3>1, IsClosed
  <2>5. k + 1 <= r[1]
    BY <1>1, <2>4 DEF IsLeastRange
  <2> QED
    BY <1>3, <2>1, <2>2, <2>5
<1>8. CoversUp(X, e) /\ CoversDown(X, b)
  BY <1>6, <1>7 DEF CoversUp, CoversDown
<1> QED
  BY <1>8 DEF X

LEMMA DeepInputs ==
  ASSUME NEW level \in Levels \ {0}, NEW b, NEW e
  PROVE  GetOverlappingInputs(level, b, e) = {f \in Files(level) : Overlaps(f, b, e)}
<1>1. level > 0
  BY LevelZero
<1> QED
  BY <1>1 DEF GetOverlappingInputs

LEMMA DeepConvex ==
  ASSUME TreeType, NEW level \in Levels \ {0}, NEW b \in Nat, NEW e \in Nat
  PROVE  ConvexIn(level, GetOverlappingInputs(level, b, e))
<1> DEFINE X == GetOverlappingInputs(level, b, e)
<1>1. X = {f \in Files(level) : Overlaps(f, b, e)} /\ Files(level) \subseteq Tables
  BY DeepInputs, FilesFinite
<1> HIDE DEF X
<1>2. ASSUME NEW f \in X, NEW h \in X, NEW g \in Files(level), Below(f, g), Below(g, h) PROVE g \in X
  <2>1. /\ f \in Tables /\ g \in Tables /\ h \in Tables /\ Overlaps(f, b, e) /\ Overlaps(h, b, e)
        /\ f \subseteq Updates /\ g \subseteq Updates /\ h \subseteq Updates
    BY <1>1 DEF Tables
  <2>2. PICK s \in f : b <= hist[s].key
    BY <2>1, OverlapsIs
  <2>3. PICK u \in h : hist[u].key <= e
    BY <2>1, OverlapsIs
  <2>4. PICK t \in g : TRUE
    BY <2>1 DEF Tables
  <2>5. Before(s, t) /\ Before(t, u)
    BY <1>2 DEF Below
  <2>6. hist[s].key <= hist[t].key /\ hist[t].key <= hist[u].key
    BY <2>1, <2>2, <2>3, <2>4, <2>5, BeforeKeys
  <2>7. b <= hist[t].key /\ hist[t].key <= e
    <3>1. s \in Updates /\ t \in Updates /\ u \in Updates
      BY <2>1
    <3> QED
      BY <2>2, <2>3, <2>6, <3>1, UpdateType
  <2>8. Overlaps(g, b, e)
    BY <2>1, <2>4, <2>7, OverlapsIs
  <2> QED
    BY <1>1, <2>8
<1>3. ConvexIn(level, X)
  BY <1>2 DEF ConvexIn
<1> QED
  BY <1>3 DEF X

LEMMA DeepCovers ==
  ASSUME TreeType, NEW level \in Levels \ {0}, NEW b \in Nat, NEW e \in Nat
  PROVE  /\ CoversUp(GetOverlappingInputs(level, b, e), e)
         /\ CoversDown(GetOverlappingInputs(level, b, e), b)
<1> DEFINE X == GetOverlappingInputs(level, b, e)
<1>1. X = {f \in Files(level) : Overlaps(f, b, e)} /\ Files(level) \subseteq Tables
  BY DeepInputs, FilesFinite
<1> HIDE DEF X
<1>2. ASSUME NEW f \in X
      PROVE  f \subseteq Updates /\ (\E s \in f : b <= hist[s].key) /\ (\E s \in f : hist[s].key <= e)
  BY <1>1, OverlapsIs DEF Tables
<1>3. ASSUME NEW k \in Keys, e < k, NEW t \in UNION X, k <= hist[t].key PROVE \E f \in X : Spans(f, k)
  <2>1. PICK f \in X : t \in f
    OBVIOUS
  <2>2. PICK s \in f : hist[s].key <= e
    BY <1>2
  <2>3. k \in Nat /\ s \in Updates
    BY <1>2, LSMTreeAssumption DEF Keys
  <2>4. hist[s].key <= k
    BY <1>3, <2>2, <2>3, UpdateType
  <2> QED
    BY <1>3, <2>1, <2>2, <2>4 DEF Spans
<1>4. ASSUME NEW k \in Keys, k < b, NEW t \in UNION X, hist[t].key <= k PROVE \E f \in X : Spans(f, k)
  <2>1. PICK f \in X : t \in f
    OBVIOUS
  <2>2. PICK s \in f : b <= hist[s].key
    BY <1>2
  <2>3. k \in Nat /\ s \in Updates
    BY <1>2, LSMTreeAssumption DEF Keys
  <2>4. k <= hist[s].key
    BY <1>4, <2>2, <2>3, UpdateType
  <2> QED
    BY <1>4, <2>1, <2>2, <2>4 DEF Spans
<1>5. CoversUp(X, e) /\ CoversDown(X, b)
  BY <1>3, <1>4 DEF CoversUp, CoversDown
<1> QED
  BY <1>5 DEF X

\* The files a compaction of level may start from.
GoodPick(level, picked) ==
  /\ picked \subseteq Files(level) /\ picked # {}
  /\ level = 0 => \E b, e \in 0..NoKey : picked = GetOverlappingInputs(0, b, e)
  /\ level # 0 => ConvexIn(level, picked)

InputsAt(level, r) == AddBoundaryInputs(level, GetOverlappingInputs(level, r[1], r[2]))

LEMMA NoInputs == ASSUME NEW level PROVE AddBoundaryInputs(level, {}) = {}
BY DEF AddBoundaryInputs

LEMMA PickIsWhole ==
  ASSUME TreeType, InKeyOrder, NEW level \in Levels, NEW picked, GoodPick(level, picked)
  PROVE  /\ Chain(level, picked, AddBoundaryInputs(level, picked))
         /\ Whole(level, AddBoundaryInputs(level, picked))
         /\ level # 0 => ConvexIn(level, AddBoundaryInputs(level, picked))
<1> DEFINE X == AddBoundaryInputs(level, picked)
<1>1. Chain(level, picked, X) /\ FindSmallestBoundaryFile(level, X) = {}
  BY BoundaryChain DEF GoodPick
<1> HIDE DEF X
<1>2. X \subseteq Files(level) /\ picked \subseteq X
  BY <1>1 DEF Chain
<1>3. CASE level # 0
  <2>1. ConvexIn(level, X)
    BY <1>1, <1>3 DEF Chain, GoodPick
  <2>2. Whole(level, X)
    BY <1>1, <1>2, <1>3, <2>1, ConvexIsWhole
  <2> QED
    BY <1>1, <2>1, <2>2 DEF X
<1>4. CASE level = 0
  <2>1. PICK b, e \in 0..NoKey : picked = GetOverlappingInputs(0, b, e)
    BY <1>4 DEF GoodPick
  <2>2. \A g \in Files(0) \ picked, s \in UNION picked : \A t \in g : hist[s].key # hist[t].key
    BY <2>1, TopApart
  <2>3. ASSUME NEW g \in FindSmallestBoundaryFile(0, picked) PROVE FALSE
    <3>1. picked \subseteq Files(0) /\ picked # {} /\ 0 \in Levels
      BY <1>4 DEF GoodPick
    <3>2. GoesOn(0, picked, g)
      BY <3>1, BoundaryIs
    <3>3. g \in Files(0) \ picked
      BY <3>1, <3>2, GoesOnAfter
    <3> QED
      BY <2>2, <3>2, <3>3 DEF GoesOn
  <2>4. X = picked
    BY <1>1, <1>4, <2>3 DEF Chain
  <2>5. Whole(0, picked)
    BY <2>2 DEF Whole, OlderThan
  <2> QED
    BY <1>1, <1>4, <2>4, <2>5 DEF X
<1> QED
  BY <1>3, <1>4

LEMMA RangeIs ==
  ASSUME TreeType, NEW fs, fs \subseteq Tables, fs # {}
  PROVE  /\ GetRange(fs) = <<user_begin(UNION fs), user_end(UNION fs)>>
         /\ GetRange(fs)[1] \in Keys /\ GetRange(fs)[2] \in Keys
         /\ GetRange(fs)[1] \in 0..NoKey /\ GetRange(fs)[2] \in 0..NoKey
         /\ GetRange(fs)[1] \in Nat /\ GetRange(fs)[2] \in Nat
         /\ \A k \in Nat : GetRange(fs)[1] <= k <=> \E s \in UNION fs : hist[s].key <= k
         /\ \A k \in Nat : k <= GetRange(fs)[2] <=> \E s \in UNION fs : k <= hist[s].key
<1>1. UNION fs \in Tables
  BY UnionIsTable
<1>2. GetRange(fs)[1] = user_begin(UNION fs) /\ GetRange(fs)[2] = user_end(UNION fs)
  BY DEF GetRange
<1>3. user_begin(UNION fs) \in Keys /\ user_end(UNION fs) \in Keys
  BY <1>1, UserRange
<1>4. \A k \in Keys : k \in 0..NoKey /\ k \in Nat
  BY LSMTreeAssumption DEF Keys, NoKey
<1> QED
  BY <1>1, <1>2, <1>3, <1>4, UserBounds DEF GetRange

\* Every file that overlaps a range is an input for the range.
LEMMA OverlappingAreInputs ==
  ASSUME TreeType, NEW level \in Levels, NEW b \in 0..NoKey, NEW e \in 0..NoKey,
         NEW f \in Files(level), Overlaps(f, b, e)
  PROVE  f \in GetOverlappingInputs(level, b, e)
<1>1. CASE level # 0
  BY <1>1, DeepInputs
<1>2. CASE level = 0
  <2>1. PICK r : /\ IsLeastRange(r, b, e)
                 /\ GetOverlappingInputs(0, b, e) = {g \in Files(0) : Overlaps(g, r[1], r[2])}
    BY TopInputs
  <2>2. NoKey \in Nat /\ b \in Nat /\ e \in Nat
    BY LSMTreeAssumption DEF NoKey
  <2>3. r[1] \in Nat /\ r[2] \in Nat /\ r[1] <= b /\ e <= r[2]
    BY <2>1, <2>2 DEF IsLeastRange, ClosedRanges
  <2>4. user_begin(f) \in Nat /\ user_end(f) \in Nat
    BY FileIsTable, UserRange
  <2>5. Overlaps(f, r[1], r[2])
    BY <2>2, <2>3, <2>4 DEF Overlaps
  <2> QED
    BY <1>2, <2>1, <2>5
<1> QED
  BY <1>1, <1>2

LEMMA InputsAtAre ==
  ASSUME TreeType, InKeyOrder, NEW level \in Levels, NEW r, r[1] \in 0..NoKey, r[2] \in 0..NoKey
  PROVE  /\ GetOverlappingInputs(level, r[1], r[2]) \subseteq InputsAt(level, r)
         /\ InputsAt(level, r) \subseteq Files(level)
         /\ Whole(level, InputsAt(level, r)) /\ (level # 0 => ConvexIn(level, InputsAt(level, r)))
         /\ CoversUp(InputsAt(level, r), r[2]) /\ CoversDown(InputsAt(level, r), r[1])
         /\ \A f \in InputsAt(level, r) \ GetOverlappingInputs(level, r[1], r[2]) :
              \E o \in GetOverlappingInputs(level, r[1], r[2]) : Below(o, f)
         /\ \A G : Whole(level, G) /\ GetOverlappingInputs(level, r[1], r[2]) \subseteq G
                     => InputsAt(level, r) \subseteq G
<1> DEFINE O == GetOverlappingInputs(level, r[1], r[2])
           X == InputsAt(level, r)
<1>1. NoKey \in Nat /\ r[1] \in Nat /\ r[2] \in Nat
  BY LSMTreeAssumption DEF NoKey
<1>2. O \subseteq Files(level)
  BY DEF GetOverlappingInputs
<1>3. CoversUp(O, r[2]) /\ CoversDown(O, r[1])
  BY <1>1, TopCovers, DeepCovers
<1>4. X = AddBoundaryInputs(level, O)
  BY DEF InputsAt
<1>5. level # 0 => ConvexIn(level, O)
  BY <1>1, DeepConvex
<1>6. level = 0 => \E b, e \in 0..NoKey : O = GetOverlappingInputs(0, b, e)
  OBVIOUS
<1> HIDE DEF O, X
<1>7. CASE O = {}
  <2>1. X = {}
    BY <1>4, <1>7, NoInputs
  <2> QED
    BY <1>7, <2>1 DEF X, O, Whole, OlderThan, ConvexIn, CoversUp, CoversDown
<1>8. CASE O # {}
  <2>1. GoodPick(level, O)
    BY <1>2, <1>5, <1>6, <1>8 DEF GoodPick
  <2>2. Chain(level, O, X) /\ Whole(level, X) /\ (level # 0 => ConvexIn(level, X))
    BY <1>4, <2>1, PickIsWhole
  <2>3. O \subseteq X /\ X \subseteq Files(level) /\ CoversUp(X, r[2]) /\ CoversDown(X, r[1])
    BY <1>1, <1>3, <2>2 DEF Chain
  <2>4. \A f \in X \ O : \E o \in O : Below(o, f)
    BY <2>2 DEF Chain
  <2>5. \A G : Whole(level, G) /\ O \subseteq G => X \subseteq G
    BY <2>2 DEF Chain
  <2> QED
    BY <2>2, <2>3, <2>4, <2>5 DEF X, O
<1> QED
  BY <1>7, <1>8

-----------------------------------------------------------------------------
(* The inputs of a compaction.                                              *)

LEMMA OlderThanParts ==
  ASSUME NEW fs, NEW gs, NEW g
  PROVE  /\ OlderThan(UNION (fs \cup gs), g) <=> OlderThan(UNION fs, g) /\ OlderThan(UNION gs, g)
         /\ OlderThan(UNION fs, g) <=> \A f \in fs : OlderThan(f, g)
         /\ Below(UNION (fs \cup gs), g) <=> Below(UNION fs, g) /\ Below(UNION gs, g)
         /\ Below(g, UNION (fs \cup gs)) <=> Below(g, UNION fs) /\ Below(g, UNION gs)
         /\ Below(UNION fs, g) <=> \A f \in fs : Below(f, g)
         /\ Below(g, UNION fs) <=> \A f \in fs : Below(g, f)
BY DEF OlderThan, Below

\* A file of the next level that is not an input is on one side of the inputs.
LEMMA OneSide ==
  ASSUME TreeType, InKeyOrder, NEW level \in Levels \ {0}, NEW U \in Tables, NEW r,
         r = <<user_begin(U), user_end(U)>>, NEW g \in Files(level) \ InputsAt(level, r)
  PROVE  /\ OlderThan(U, g)
         /\ \/ Below(g, U) /\ Below(g, UNION InputsAt(level, r))
            \/ Below(U, g) /\ Below(UNION InputsAt(level, r), g)
<1> DEFINE O == GetOverlappingInputs(level, r[1], r[2])
           X == InputsAt(level, r)
<1>1. r[1] = user_begin(U) /\ r[2] = user_end(U) /\ U \subseteq Updates
  BY DEF Tables
<1>2. r[1] \in Nat /\ r[2] \in Nat /\ r[1] \in 0..NoKey /\ r[2] \in 0..NoKey
  <2>1. r[1] \in Keys /\ r[2] \in Keys /\ r[1] \in Nat /\ r[2] \in Nat
    BY <1>1, UserRange
  <2> QED
    BY <2>1, LSMTreeAssumption DEF Keys, NoKey
<1>3. /\ O \subseteq X /\ X \subseteq Files(level) /\ ConvexIn(level, X)
      /\ \A f \in X \ O : \E o \in O : Below(o, f)
  BY <1>2, InputsAtAre
<1>4. O = {f \in Files(level) : Overlaps(f, r[1], r[2])} /\ Files(level) \subseteq Tables
  BY DeepInputs, FilesFinite
<1> HIDE DEF O, X
<1>5. g \in Tables /\ g \subseteq Updates /\ g \notin X /\ ~Overlaps(g, user_begin(U), user_end(U))
  BY <1>1, <1>3, <1>4 DEF X, Tables
<1>6. \/ \A s \in g, t \in U : hist[s].key < hist[t].key
      \/ \A s \in g, t \in U : hist[t].key < hist[s].key
  BY <1>5, NoOverlapApart
<1>7. OlderThan(U, g)
  BY <1>1, <1>5, <1>6, UpdateType DEF OlderThan
<1>8. ASSUME NEW f \in X PROVE f \in Tables /\ f \subseteq Updates /\ f # g /\ (Below(f, g) \/ Below(g, f))
  BY <1>3, <1>4, <1>5, LevelApart DEF Apart, Tables
<1>9. PICK u \in g : TRUE
  BY <1>5 DEF Tables
<1>10. ASSUME NEW o \in O PROVE (\E s \in o : r[1] <= hist[s].key) /\ (\E s \in o : hist[s].key <= r[2])
  BY <1>2, <1>4, OverlapsIs
<1>11. CASE \A s \in g, t \in U : hist[s].key < hist[t].key
  <2>1. Below(g, U)
    BY <1>11, BeforeIs DEF Below
  <2>2. \A s \in g : hist[s].key < r[1]
    <3>1. PICK t \in U : user_begin(U) = hist[t].key
      BY UserRange
    <3> QED
      BY <1>1, <1>11, <3>1
  <2>3. ASSUME NEW o \in O PROVE Below(g, o)
    <3>1. PICK s \in o : r[1] <= hist[s].key
      BY <1>10
    <3>2. o \in X /\ s \in Updates /\ u \in Updates
      BY <1>3, <1>5, <1>8, <1>9
    <3>3. hist[u].key < hist[s].key
      BY <1>2, <1>9, <2>2, <3>1, <3>2, UpdateType
    <3>4. ~Before(s, u)
      BY <3>2, <3>3, BeforeIs, UpdateType
    <3>5. ~Below(o, g)
      BY <1>9, <3>4 DEF Below
    <3> QED
      BY <1>8, <3>2, <3>5
  <2>4. ASSUME NEW f \in X PROVE Below(g, f)
    <3>1. CASE f \in O
      BY <2>3, <3>1
    <3>2. CASE f \notin O
      <4>1. PICK o \in O : Below(o, f)
        BY <1>3, <3>2
      <4>2. o \in Tables
        BY <1>3, <1>8
      <4> QED
        BY <1>5, <1>8, <2>3, <4>1, <4>2, BelowTransitive
    <3> QED
      BY <3>1, <3>2
  <2>5. Below(g, UNION X)
    BY <2>4, OlderThanParts
  <2> QED
    BY <1>7, <2>1, <2>5 DEF X
<1>12. CASE \A s \in g, t \in U : hist[t].key < hist[s].key
  <2>1. Below(U, g)
    BY <1>12, BeforeIs DEF Below
  <2>2. \A s \in g : r[2] < hist[s].key
    <3>1. PICK t \in U : user_end(U) = hist[t].key
      BY UserRange
    <3> QED
      BY <1>1, <1>12, <3>1
  <2>3. ASSUME NEW o \in O PROVE Below(o, g)
    <3>1. PICK s \in o : hist[s].key <= r[2]
      BY <1>10
    <3>2. o \in X /\ s \in Updates /\ u \in Updates
      BY <1>3, <1>5, <1>8, <1>9
    <3>3. hist[s].key < hist[u].key
      BY <1>2, <1>9, <2>2, <3>1, <3>2, UpdateType
    <3>4. ~Before(u, s)
      BY <3>2, <3>3, BeforeIs, UpdateType
    <3>5. ~Below(g, o)
      BY <1>9, <3>4 DEF Below
    <3> QED
      BY <1>8, <3>2, <3>5
  <2>4. ASSUME NEW f \in X PROVE Below(f, g)
    <3>1. CASE f \in O
      BY <2>3, <3>1
    <3>2. CASE f \notin O
      <4>1. PICK o \in O : Below(o, f)
        BY <1>3, <3>2
      <4>2. o \in X /\ Below(o, g)
        BY <1>3, <2>3
      <4>3. ~Below(g, f)
        BY <1>3, <1>5, <4>2 DEF ConvexIn
      <4> QED
        BY <1>8, <4>3
    <3> QED
      BY <3>1, <3>2
  <2>5. Below(UNION X, g)
    BY <2>4, OlderThanParts
  <2> QED
    BY <1>7, <2>1, <2>5 DEF X
<1> QED
  BY <1>6, <1>11, <1>12

LEMMA NextLevel ==
  ASSUME NEW level \in Levels
  PROVE  level \in Nat /\ level + 1 \in Nat /\ level + 1 # 0 /\ level < level + 1 /\ level # level + 1
BY LevelZero

LEMMA GoodPair ==
  ASSUME TreeType, InKeyOrder, Layered, NEW level \in Levels, level + 1 \in Levels,
         NEW A, A \subseteq Files(level), A # {}, Whole(level, A)
  PROVE  GoodInputs(level, A, InputsAt(level + 1, GetRange(A)))
<1> DEFINE m == level + 1
           r == GetRange(A)
           B == InputsAt(m, r)
<1>1. m \in Levels \ {0} /\ level < m
  BY NextLevel
<1>2. Files(level) \subseteq Tables /\ Files(m) \subseteq Tables
  BY <1>1, FilesFinite
<1>3. UNION A \in Tables
  BY <1>2, UnionIsTable
<1>4. r = <<user_begin(UNION A), user_end(UNION A)>> /\ r[1] \in 0..NoKey /\ r[2] \in 0..NoKey
  BY <1>2, RangeIs
<1> HIDE DEF m, r, B
<1>5. B \subseteq Files(m) /\ Whole(m, B)
  BY <1>1, <1>4, InputsAtAre DEF B
<1>6. ASSUME NEW g \in Files(level) \ A PROVE OlderThan(UNION (A \cup B), g)
  <2>1. OlderThan(UNION A, g)
    BY DEF Whole
  <2>2. OlderThan(UNION B, g)
    <3>1. OlderThan(Stored(m), Stored(level))
      BY <1>1 DEF Layered
    <3>2. UNION B \subseteq Stored(m) /\ g \subseteq Stored(level)
      BY <1>5 DEF Stored
    <3> QED
      BY <3>1, <3>2 DEF OlderThan
  <2> QED
    BY <2>1, <2>2, OlderThanParts
<1>7. ASSUME NEW g \in Files(m) \ B
      PROVE  /\ OlderThan(UNION (A \cup B), g)
             /\ Below(g, UNION (A \cup B)) \/ Below(UNION (A \cup B), g)
  <2>1. /\ OlderThan(UNION A, g)
        /\ \/ Below(g, UNION A) /\ Below(g, UNION B)
           \/ Below(UNION A, g) /\ Below(UNION B, g)
    BY <1>1, <1>3, <1>4, <1>7, OneSide DEF B
  <2>2. OlderThan(UNION B, g)
    BY <1>5 DEF Whole
  <2> QED
    BY <2>1, <2>2, OlderThanParts
<1> QED
  BY <1>5, <1>6, <1>7 DEF GoodInputs, m, r, B

\* The inputs settled on are the first pair of files, or the grown one.
Settled(level, picked, inputs, in0, in1, ex0, ex1) ==
  /\ in0 = AddBoundaryInputs(level, picked)
  /\ in1 = InputsAt(level + 1, GetRange(in0))
  /\ ex0 = InputsAt(level, GetRange(in0 \cup in1))
  /\ ex1 = InputsAt(level + 1, GetRange(ex0))
  /\ inputs = <<in0, in1>> \/ inputs = <<ex0, ex1>>

LEMMA SetupIs ==
  ASSUME NEW level, NEW picked, NEW inputs \in SetupOtherInputs(level, picked)
  PROVE  \E in0, in1, ex0, ex1 : Settled(level, picked, inputs, in0, in1, ex0, ex1)
<1> DEFINE in0 == AddBoundaryInputs(level, picked)
           in1 == InputsAt(level + 1, GetRange(in0))
           ex0 == InputsAt(level, GetRange(in0 \cup in1))
           ex1 == InputsAt(level + 1, GetRange(ex0))
           grown == /\ in1 # {}
                    /\ Cardinality(ex0) > Cardinality(in0)
                    /\ Cardinality(ex1) = Cardinality(in1)
<1>1. SetupOtherInputs(level, picked) = {<<in0, in1>>} \cup (IF grown THEN {<<ex0, ex1>>} ELSE {})
  BY Zenon DEF SetupOtherInputs, InputsAt
<1> HIDE DEF in0, in1, ex0, ex1, grown
<1>2. inputs = <<in0, in1>> \/ inputs = <<ex0, ex1>>
  BY <1>1
<1>3. /\ in1 = InputsAt(level + 1, GetRange(in0)) /\ ex0 = InputsAt(level, GetRange(in0 \cup in1))
      /\ ex1 = InputsAt(level + 1, GetRange(ex0)) /\ in0 = AddBoundaryInputs(level, picked)
  BY Zenon DEF in0, in1, ex0, ex1
<1>4. Settled(level, picked, inputs, in0, in1, ex0, ex1)
  BY <1>2, <1>3 DEF Settled
<1> QED
  BY <1>4

\* A file among fs overlaps the range of fs.
LEMMA RangeOverlaps ==
  ASSUME TreeType, NEW fs, fs \subseteq Tables, NEW f \in fs
  PROVE  Overlaps(f, GetRange(fs)[1], GetRange(fs)[2])
<1>1. PICK s \in f : s \in UNION fs /\ s \in Updates
  BY DEF Tables
<1>2. hist[s].key \in Nat
  BY <1>1, UpdateType
<1>4. /\ GetRange(fs)[1] \in Nat /\ GetRange(fs)[2] \in Nat
      /\ \A k \in Nat : GetRange(fs)[1] <= k <=> \E u \in UNION fs : hist[u].key <= k
      /\ \A k \in Nat : k <= GetRange(fs)[2] <=> \E u \in UNION fs : k <= hist[u].key
  BY RangeIs
<1>3. GetRange(fs)[1] <= hist[s].key /\ hist[s].key <= GetRange(fs)[2]
  <2>1. hist[s].key <= hist[s].key
    BY <1>2
  <2> QED
    BY <1>1, <1>2, <1>4, <2>1
<1> QED
  BY <1>3, <1>4, OverlapsIs

\* Growing the inputs loses none of them.
LEMMA InputsStay ==
  ASSUME TreeType, InKeyOrder, NEW level \in Levels, level + 1 \in Levels,
         NEW in0, in0 \subseteq Files(level), in0 # {}, NEW in1, in1 \subseteq Files(level + 1)
  PROVE  in0 \subseteq InputsAt(level, GetRange(in0 \cup in1))
<1> DEFINE r == GetRange(in0 \cup in1)
<1>1. in0 \cup in1 \subseteq Tables
  BY FilesFinite
<1>2. r[1] \in 0..NoKey /\ r[2] \in 0..NoKey
  BY <1>1, RangeIs
<1>3. \A f \in in0 : Overlaps(f, r[1], r[2])
  BY <1>1, RangeOverlaps
<1> HIDE DEF r
<1>4. in0 \subseteq GetOverlappingInputs(level, r[1], r[2])
  BY <1>2, <1>3, OverlappingAreInputs
<1>5. in0 \subseteq InputsAt(level, r)
  BY <1>2, <1>4, InputsAtAre
<1> QED
  BY <1>5 DEF r

LEMMA SetupGood ==
  ASSUME TreeType, InKeyOrder, Layered, NEW level \in Levels, level + 1 \in Levels,
         NEW picked, GoodPick(level, picked), NEW inputs \in SetupOtherInputs(level, picked)
  PROVE  inputs = <<inputs[1], inputs[2]>> /\ GoodInputs(level, inputs[1], inputs[2])
<1>0. PICK in0, in1, ex0, ex1 : Settled(level, picked, inputs, in0, in1, ex0, ex1)
  BY SetupIs
<1>1. /\ in0 = AddBoundaryInputs(level, picked)
      /\ in1 = InputsAt(level + 1, GetRange(in0))
      /\ ex0 = InputsAt(level, GetRange(in0 \cup in1))
      /\ ex1 = InputsAt(level + 1, GetRange(ex0))
      /\ inputs = <<in0, in1>> \/ inputs = <<ex0, ex1>>
  BY <1>0 DEF Settled
<1>2. in0 \subseteq Files(level) /\ in0 # {} /\ Whole(level, in0)
  BY <1>1, PickIsWhole DEF Chain, GoodPick
<1>3. GoodInputs(level, in0, in1)
  BY <1>1, <1>2, GoodPair
<1>4. in1 \subseteq Files(level + 1)
  BY <1>3 DEF GoodInputs
<1>5. in0 \subseteq ex0
  BY <1>1, <1>2, <1>4, InputsStay
<1>6. ex0 \subseteq Files(level) /\ Whole(level, ex0)
  <2> DEFINE r == GetRange(in0 \cup in1)
  <2>1. in0 \cup in1 \subseteq Tables
    BY <1>2, <1>4, FilesFinite
  <2>2. r[1] \in 0..NoKey /\ r[2] \in 0..NoKey
    BY <1>2, <2>1, RangeIs
  <2> HIDE DEF r
  <2>3. ex0 = InputsAt(level, r)
    BY <1>1 DEF r
  <2> QED
    BY <2>2, <2>3, InputsAtAre
<1>7. GoodInputs(level, ex0, ex1)
  BY <1>1, <1>2, <1>5, <1>6, GoodPair
<1> QED
  BY <1>1, <1>3, <1>7

\* Files of two levels without a gap, when the first set reaches out from a
\* range and the second from the range of the first.
LEMMA NoGap ==
  ASSUME TreeType, NEW A, A \subseteq Tables, A # {}, NEW B, B \subseteq Tables,
         NEW b \in Nat, NEW e \in Nat, CoversUp(A, e), CoversDown(A, b),
         CoversUp(B, GetRange(A)[2]), CoversDown(B, GetRange(A)[1]),
         \A k \in Keys : b <= k /\ k <= e => \E f \in A \cup B : Spans(f, k)
  PROVE  Covered(A \cup B)
<1> DEFINE r == GetRange(A)
<1>1. /\ r[1] \in Nat /\ r[2] \in Nat
      /\ \A k \in Nat : r[1] <= k <=> \E s \in UNION A : hist[s].key <= k
      /\ \A k \in Nat : k <= r[2] <=> \E s \in UNION A : k <= hist[s].key
  BY RangeIs
<1> HIDE DEF r
<1>2. SUFFICES ASSUME NEW k \in Keys, Spans(UNION (A \cup B), k) PROVE \E f \in A \cup B : Spans(f, k)
  BY DEF Covered
<1>3. k \in Nat
  BY LSMTreeAssumption DEF Keys
<1>4. PICK s \in UNION (A \cup B) : hist[s].key <= k
  BY <1>2 DEF Spans
<1>5. PICK t \in UNION (A \cup B) : k <= hist[t].key
  BY <1>2 DEF Spans
<1>6. CASE b <= k /\ k <= e
  BY <1>6
<1>7. CASE k < b
  <2>1. CASE r[1] <= k
    <3>1. \E f \in A : Spans(f, k)
      BY <1>1, <1>3, <1>7, <2>1 DEF CoversDown
    <3> QED
      BY <3>1
  <2>2. CASE ~(r[1] <= k)
    <3>1. s \in UNION B
      BY <1>1, <1>3, <1>4, <2>2
    <3>2. k < r[1]
      BY <1>1, <1>3, <2>2
    <3>3. \E f \in B : Spans(f, k)
      BY <1>4, <3>1, <3>2 DEF CoversDown, r
    <3> QED
      BY <3>3
  <2> QED
    BY <2>1, <2>2
<1>8. CASE e < k
  <2>1. CASE k <= r[2]
    <3>1. \E f \in A : Spans(f, k)
      BY <1>1, <1>3, <1>8, <2>1 DEF CoversUp
    <3> QED
      BY <3>1
  <2>2. CASE ~(k <= r[2])
    <3>1. t \in UNION B
      BY <1>1, <1>3, <1>5, <2>2
    <3>2. r[2] < k
      BY <1>1, <1>3, <2>2
    <3>3. \E f \in B : Spans(f, k)
      BY <1>5, <3>1, <3>2 DEF CoversUp, r
    <3> QED
      BY <3>3
  <2> QED
    BY <2>1, <2>2
<1> QED
  BY <1>3, <1>6, <1>7, <1>8

LEMMA SetupCovered ==
  ASSUME TreeType, InKeyOrder, Layered, NEW level \in Levels, level + 1 \in Levels,
         NEW picked, GoodPick(level, picked), NEW inputs \in SetupOtherInputs(level, picked),
         NEW f \in picked, CoversUp(picked, user_end(f)), CoversDown(picked, user_begin(f))
  PROVE  Covered(inputs[1] \cup inputs[2])
<1>0. PICK in0, in1, ex0, ex1 : Settled(level, picked, inputs, in0, in1, ex0, ex1)
  BY SetupIs
<1>1. /\ in0 = AddBoundaryInputs(level, picked)
      /\ in1 = InputsAt(level + 1, GetRange(in0))
      /\ ex0 = InputsAt(level, GetRange(in0 \cup in1))
      /\ ex1 = InputsAt(level + 1, GetRange(ex0))
      /\ inputs = <<in0, in1>> \/ inputs = <<ex0, ex1>>
  BY <1>0 DEF Settled
<1>2. Chain(level, picked, in0) /\ in0 \subseteq Files(level) /\ in0 # {} /\ Whole(level, in0) /\ f \in in0
  BY <1>1, PickIsWhole DEF Chain, GoodPick
<1>3. level + 1 \in Levels \ {0} /\ Files(level) \subseteq Tables /\ Files(level + 1) \subseteq Tables
  BY NextLevel, FilesFinite
<1>4. GoodInputs(level, in0, in1)
  BY <1>1, <1>2, GoodPair
<1>5. in1 \subseteq Files(level + 1)
  BY <1>4 DEF GoodInputs
<1>6. in0 \subseteq Tables /\ in1 \subseteq Tables /\ in0 \cup in1 \subseteq Tables
  BY <1>2, <1>3, <1>5
<1> DEFINE r0 == GetRange(in0)
           r == GetRange(in0 \cup in1)
           rx == GetRange(ex0)
<1>7. r0[1] \in 0..NoKey /\ r0[2] \in 0..NoKey /\ r[1] \in 0..NoKey /\ r[2] \in 0..NoKey
  BY <1>2, <1>6, RangeIs
<1>8. in1 = InputsAt(level + 1, r0) /\ ex0 = InputsAt(level, r) /\ ex1 = InputsAt(level + 1, rx)
  BY <1>1
<1>9. /\ r[1] \in Nat /\ r[2] \in Nat
      /\ \A k \in Nat : r[1] <= k <=> \E s \in UNION (in0 \cup in1) : hist[s].key <= k
      /\ \A k \in Nat : k <= r[2] <=> \E s \in UNION (in0 \cup in1) : k <= hist[s].key
  BY <1>2, <1>6, RangeIs
<1> HIDE DEF r
<1>10. /\ CoversUp(ex0, r[2]) /\ CoversDown(ex0, r[1]) /\ ex0 \subseteq Files(level) /\ Whole(level, ex0)
  BY <1>7, <1>8, InputsAtAre
<1>11. in0 \subseteq ex0 /\ ex0 # {} /\ ex0 \subseteq Tables
  BY <1>1, <1>2, <1>3, <1>5, <1>10, InputsStay
<1>12. rx[1] \in 0..NoKey /\ rx[2] \in 0..NoKey
  BY <1>11, RangeIs
<1>13. GetOverlappingInputs(level + 1, r0[1], r0[2]) \subseteq GetOverlappingInputs(level + 1, rx[1], rx[2])
  <2>1. /\ r0[1] \in Nat /\ r0[2] \in Nat
        /\ \A k \in Nat : r0[1] <= k <=> \E s \in UNION in0 : hist[s].key <= k
        /\ \A k \in Nat : k <= r0[2] <=> \E s \in UNION in0 : k <= hist[s].key
    BY <1>2, <1>6, RangeIs
  <2>2. /\ rx[1] \in Nat /\ rx[2] \in Nat
        /\ \A k \in Nat : rx[1] <= k <=> \E s \in UNION ex0 : hist[s].key <= k
        /\ \A k \in Nat : k <= rx[2] <=> \E s \in UNION ex0 : k <= hist[s].key
    BY <1>11, RangeIs
  <2> HIDE DEF r0, rx
  <2>3. UNION in0 \subseteq UNION ex0
    BY <1>11
  <2>4. rx[1] <= r0[1] /\ r0[2] <= rx[2]
    <3>1. r0[1] <= r0[1] /\ r0[2] <= r0[2]
      BY <2>1
    <3> QED
      BY <2>1, <2>2, <2>3, <3>1
  <2>5. ASSUME NEW g \in Files(level + 1), Overlaps(g, r0[1], r0[2]) PROVE Overlaps(g, rx[1], rx[2])
    <3>1. user_begin(g) \in Nat /\ user_end(g) \in Nat
      BY <1>3, UserRange
    <3> QED
      BY <2>1, <2>2, <2>4, <2>5, <3>1 DEF Overlaps
  <2> QED
    BY <1>3, <2>5, DeepInputs
<1> HIDE DEF r0, rx
<1>14. /\ CoversUp(in1, r0[2]) /\ CoversDown(in1, r0[1])
       /\ \A G : Whole(level + 1, G) /\ GetOverlappingInputs(level + 1, r0[1], r0[2]) \subseteq G => in1 \subseteq G
  BY <1>7, <1>8, InputsAtAre
<1>15. /\ CoversUp(ex1, rx[2]) /\ CoversDown(ex1, rx[1]) /\ Whole(level + 1, ex1)
       /\ GetOverlappingInputs(level + 1, rx[1], rx[2]) \subseteq ex1 /\ ex1 \subseteq Files(level + 1)
  BY <1>8, <1>12, InputsAtAre
<1>16. in1 \subseteq ex1 /\ ex1 \subseteq Tables
  BY <1>3, <1>13, <1>14, <1>15
<1>17. Covered(in0 \cup in1)
  <2>1. f \in Tables /\ user_begin(f) \in Nat /\ user_end(f) \in Nat
    BY <1>2, <1>6, UserRange
  <2>2. CoversUp(in0, user_end(f)) /\ CoversDown(in0, user_begin(f))
    BY <1>2, <2>1 DEF Chain
  <2>3. ASSUME NEW k \in Keys, user_begin(f) <= k, k <= user_end(f) PROVE Spans(f, k)
    <3>1. k \in Nat
      BY LSMTreeAssumption DEF Keys
    <3> QED
      BY <2>1, <2>3, <3>1, UserBounds DEF Spans
  <2>4. \A k \in Keys : user_begin(f) <= k /\ k <= user_end(f) => \E g \in in0 \cup in1 : Spans(g, k)
    BY <1>2, <2>3
  <2> QED
    BY <1>2, <1>6, <1>14, <2>1, <2>2, <2>4, NoGap DEF r0
<1>18. Covered(ex0 \cup ex1)
  <2>1. ASSUME NEW k \in Keys, r[1] <= k, k <= r[2] PROVE \E g \in ex0 \cup ex1 : Spans(g, k)
    <3>1. k \in Nat
      BY LSMTreeAssumption DEF Keys
    <3>2. Spans(UNION (in0 \cup in1), k)
      BY <1>9, <2>1, <3>1 DEF Spans
    <3>3. \E g \in in0 \cup in1 : Spans(g, k)
      BY <1>17, <3>2 DEF Covered
    <3> QED
      BY <1>11, <1>16, <3>3
  <2> QED
    BY <1>9, <1>10, <1>11, <1>15, <1>16, <2>1, NoGap DEF rx
<1>19. CASE inputs = <<in0, in1>>
  BY <1>17, <1>19
<1>20. CASE inputs = <<ex0, ex1>>
  BY <1>18, <1>20
<1> QED
  BY <1>1, <1>19, <1>20

LEMMA OneFilePick ==
  ASSUME TreeType, NEW level \in Levels \ {0}, NEW f \in Files(level)
  PROVE  GoodPick(level, {f}) /\ CoversUp({f}, user_end(f)) /\ CoversDown({f}, user_begin(f))
<1>1. f \in Tables /\ f \subseteq Updates
  BY FileIsTable
<1>2. ConvexIn(level, {f})
  <2> SUFFICES ASSUME NEW g \in Files(level), Below(f, g), Below(g, f) PROVE FALSE
    BY DEF ConvexIn
  <2>1. g \in Tables
    BY FileIsTable
  <2> QED
    BY <1>1, <2>1, BelowTransitive
<1>3. /\ user_begin(f) \in Nat /\ user_end(f) \in Nat
      /\ \A s \in f : hist[s].key \in Nat /\ user_begin(f) <= hist[s].key /\ hist[s].key <= user_end(f)
  BY <1>1, UserRange, UpdateType
<1>4. \A k \in Keys : k \in Nat
  BY LSMTreeAssumption DEF Keys
<1>5. CoversUp({f}, user_end(f))
  BY <1>3, <1>4 DEF CoversUp
<1>6. CoversDown({f}, user_begin(f))
  BY <1>3, <1>4 DEF CoversDown
<1> QED
  BY <1>2, <1>5, <1>6 DEF GoodPick

LEMMA TopPick ==
  ASSUME TreeType, NEW f \in Files(0)
  PROVE  LET picked == GetOverlappingInputs(0, user_begin(f), user_end(f))
         IN  /\ GoodPick(0, picked) /\ f \in picked
             /\ CoversUp(picked, user_end(f)) /\ CoversDown(picked, user_begin(f))
<1> DEFINE picked == GetOverlappingInputs(0, user_begin(f), user_end(f))
<1>1. f \in Tables
  BY FileIsTable, LevelZero
<1>2. user_begin(f) \in Keys /\ user_end(f) \in Keys
  BY <1>1, UserRange
<1>3. user_begin(f) \in 0..NoKey /\ user_end(f) \in 0..NoKey
  BY <1>2, LSMTreeAssumption DEF Keys, NoKey
<1>4. user_begin(f) \in Nat /\ user_end(f) \in Nat /\ user_begin(f) <= user_end(f)
  <2>1. PICK s \in f : user_begin(f) = hist[s].key
    BY <1>1, UserRange
  <2> QED
    BY <1>1, <2>1, UserRange
<1>5. Overlaps(f, user_begin(f), user_end(f))
  BY <1>4 DEF Overlaps
<1>6. f \in picked
  BY <1>3, <1>5, LevelZero, OverlappingAreInputs
<1>7. CoversUp(picked, user_end(f)) /\ CoversDown(picked, user_begin(f))
  BY <1>3, TopCovers
<1>8. picked \subseteq Files(0)
  BY DEF GetOverlappingInputs
<1>9. GoodPick(0, picked)
  BY <1>3, <1>6, <1>8 DEF GoodPick
<1> QED
  BY <1>6, <1>7, <1>9

\* The files a manual compaction may start from.
LEMMA ManualPick ==
  ASSUME TreeType, NEW level \in Levels, NEW b \in 0..NoKey, NEW e \in 0..NoKey,
         NEW picked,
         LET all == GetOverlappingInputs(level, b, e)
             shorter == {fs \in (SUBSET all) \ {{}} :
                           \A f \in fs, g \in all \ fs : Less(smallest(f), smallest(g))}
         IN  picked \in IF level = 0 THEN {all} \ {{}} ELSE shorter
  PROVE  GoodPick(level, picked)
<1> DEFINE all == GetOverlappingInputs(level, b, e)
           shorter == {fs \in (SUBSET all) \ {{}} :
                           \A f \in fs, g \in all \ fs : Less(smallest(f), smallest(g))}
<1>1. picked \in IF level = 0 THEN {all} \ {{}} ELSE shorter
  BY Zenon
<1>2. all \subseteq Files(level) /\ Files(level) \subseteq Tables
  BY FilesFinite DEF GetOverlappingInputs
<1>3. CASE level = 0
  <2>1. picked = all /\ picked # {}
    BY <1>1, <1>3
  <2> QED
    BY <1>2, <1>3, <2>1 DEF GoodPick
<1>4. CASE level # 0
  <2>1. picked \in shorter
    BY <1>1, <1>4
  <2>2. /\ picked \subseteq all /\ picked # {}
        /\ \A f \in picked, g \in all \ picked : Less(smallest(f), smallest(g))
    BY <2>1
  <2>3. ConvexIn(level, all)
    <3>1. b \in Nat /\ e \in Nat
      BY LSMTreeAssumption DEF NoKey
    <3> QED
      BY <1>4, <3>1, DeepConvex
  <2> HIDE DEF all, shorter
  <2>4. ASSUME NEW f \in picked, NEW h \in picked, NEW g \in Files(level), Below(f, g), Below(g, h),
               g \notin picked
        PROVE  FALSE
    <3>1. g \in all
      BY <2>2, <2>3, <2>4 DEF ConvexIn
    <3>2. Less(smallest(h), smallest(g))
      BY <2>2, <2>4, <3>1
    <3>3. h \in Tables /\ g \in Tables /\ h # g
      BY <1>2, <2>2, <2>4, <3>1
    <3>4. Below(h, g)
      BY <2>4, <3>2, <3>3, SmallestOrder
    <3> QED
      BY <2>4, <3>3, <3>4, BelowTransitive
  <2>5. ConvexIn(level, picked)
    BY <2>4 DEF ConvexIn
  <2> QED
    BY <1>2, <1>4, <2>2, <2>5 DEF GoodPick
<1> QED
  BY <1>3, <1>4

-----------------------------------------------------------------------------
(* Installing a version.                                                    *)

\* The next version has the files of fs, which are sound.
Installed(l, fs) ==
  /\ files'[l] \in Seq(Tables) /\ Range(files'[l]) = fs
  /\ l = 0 => InTimeOrder(files'[l])
  /\ l # 0 => SortedByKey(files'[l])

LEMMA AgedIs == ASSUME TreeType, Aged PROVE InTimeOrder(files[0])
BY DEF Aged, InTimeOrder

LEMMA OldInstalled ==
  ASSUME TreeType, Aged, InKeyOrder, NEW l \in Levels, files'[l] = files[l]
  PROVE  Installed(l, Files(l))
<1>1. files[l] \in Seq(Tables)
  BY DEF TreeType
<1>2. l = 0 => InTimeOrder(files'[l])
  BY DEF Aged, InTimeOrder
<1>3. l # 0 => SortedByKey(files'[l])
  BY DEF InKeyOrder, SortedByKey
<1> QED
  BY <1>1, <1>2, <1>3 DEF Installed, Files

LEMMA SameUpdates ==
  ASSUME hist' = hist
  PROVE  /\ Updates' = Updates /\ Tables' = Tables
         /\ \A f, g : Below(f, g)' = Below(f, g)
         /\ \A f, g : OlderThan(f, g)' = OlderThan(f, g)
         /\ \A f, k : Spans(f, k)' = Spans(f, k)
         /\ \A fs : Covered(fs)' = Covered(fs)
         /\ \A n, k, s : IsNewest(n, k, s)' = IsNewest(n, k, s)
<1>1. Updates' = Updates /\ Tables' = Tables
  BY DEF Updates, Tables
<1>2. \A f, g : Below(f, g)' = Below(f, g)
  BY DEF Below, Before, Less, InternalKey
<1>3. \A f, g : OlderThan(f, g)' = OlderThan(f, g)
  BY DEF OlderThan
<1>4. \A f, k : Spans(f, k)' = Spans(f, k)
  BY DEF Spans
<1>5. \A fs : Covered(fs)' = Covered(fs)
  BY DEF Covered, Spans
<1>6. \A n, k, s : IsNewest(n, k, s)' = IsNewest(n, k, s)
  BY <1>1 DEF IsNewest
<1> QED
  BY <1>1, <1>2, <1>3, <1>4, <1>5, <1>6

LEMMA NewVersion ==
  ASSUME hist' = hist, files' = [l \in Levels |-> files'[l]],
         NEW F, \A l \in Levels : Installed(l, F[l])
  PROVE  /\ files' \in [Levels -> Seq(Tables)] /\ InKeyOrder' /\ InTimeOrder(files'[0])
         /\ \A l \in Levels : Files(l)' = F[l] /\ Stored(l)' = UNION F[l]
<1>1. files' \in [Levels -> Seq(Tables)]
  BY DEF Installed
<1>2. \A l \in Levels : Files(l)' = F[l] /\ Stored(l)' = UNION F[l]
  BY DEF Installed, Files, Stored
<1>3. InTimeOrder(files'[0])
  BY LevelZero DEF Installed
<1>4. InKeyOrder'
  <2> SUFFICES ASSUME NEW l \in Levels \ {0}, NEW i \in DOMAIN files'[l], NEW j \in DOMAIN files'[l], i < j
               PROVE  Below(files[l][i], files[l][j])'
    BY DEF InKeyOrder
  <2>1. Below(files'[l][i], files'[l][j])
    BY DEF Installed, SortedByKey
  <2> QED
    BY <2>1 DEF Below, Before, Less, InternalKey
<1> QED
  BY <1>1, <1>2, <1>3, <1>4

\* What a compaction of level makes of the files of level l.
After(l, level, inputs0, inputs1, new) ==
  IF l = level THEN Files(l) \ inputs0
  ELSE IF l = level + 1 THEN (Files(l) \ inputs1) \cup new ELSE Files(l)

LEMMA InstallFiles ==
  ASSUME TreeType, Aged, InKeyOrder, NEW level, NEW inputs0, NEW inputs1, NEW new,
         GoodInputs(level, inputs0, inputs1), new \subseteq Tables, IsFiniteSet(new), Apart(new),
         UNION new \subseteq UNION (inputs0 \cup inputs1),
         Install(level, <<inputs0, inputs1>>, new)
  PROVE  /\ files' = [l \in Levels |-> files'[l]]
         /\ \A l \in Levels : Installed(l, After(l, level, inputs0, inputs1, new))
<1> DEFINE m == level + 1
           a == SaveTo(level, inputs0, {})
           b == SaveTo(m, inputs1, new)
           U == UNION (inputs0 \cup inputs1)
<1>1. level \in Levels /\ m \in Levels \ {0} /\ level # m
  BY NextLevel DEF GoodInputs
<1>2. files' = [files EXCEPT ![level] = a, ![m] = b]
  BY DEF Install
<1>3. files = [l \in Levels |-> files[l]]
  BY DEF TreeType
<1> HIDE DEF a, b
<1>4. /\ files' = [l \in Levels |-> files'[l]] /\ files'[level] = a /\ files'[m] = b
      /\ \A l \in Levels : l # level /\ l # m => files'[l] = files[l]
  <2> HIDE DEF m
  <2> DEFINE g == [files EXCEPT ![level] = a]
  <2>1. g = [l \in Levels |-> IF l = level THEN a ELSE files[l]]
    BY <1>1, <1>3
  <2>2. files' = [g EXCEPT ![m] = b]
    BY <1>2
  <2> HIDE DEF g
  <2>3. files' = [l \in Levels |-> IF l = m THEN b ELSE g[l]]
    BY <2>1, <2>2
  <2> QED
    BY <1>1, <2>1, <2>3
<1>5. Installed(level, Files(level) \ inputs0)
  <2>1. CASE level = 0
    <3>1. /\ SaveTo(0, inputs0, {}) \in Seq(Tables)
          /\ Range(SaveTo(0, inputs0, {})) = (Files(0) \ inputs0) \cup {}
          /\ InTimeOrder(SaveTo(0, inputs0, {}))
      BY AgedIs, SaveToTop
    <3> QED
      BY <1>4, <2>1, <3>1 DEF Installed, a
  <2>2. CASE level # 0
    <3>1. Apart((Files(level) \ inputs0) \cup {})
      BY <1>1, <2>2, LevelApart DEF Apart
    <3>2. IsFiniteSet({}) /\ {} \subseteq Tables
      BY FS_EmptySet
    <3>3. /\ SaveTo(level, inputs0, {}) \in Seq(Tables)
          /\ Range(SaveTo(level, inputs0, {})) = (Files(level) \ inputs0) \cup {}
          /\ SortedByKey(SaveTo(level, inputs0, {}))
      BY <1>1, <2>2, <3>1, <3>2, SaveToDeep
    <3> QED
      BY <1>4, <2>2, <3>3 DEF Installed, a
  <2> QED
    BY <2>1, <2>2
<1>6. Installed(m, (Files(m) \ inputs1) \cup new)
  <2>1. Apart((Files(m) \ inputs1) \cup new)
    <3>1. Apart(Files(m))
      BY <1>1, LevelApart
    <3>2. ASSUME NEW f \in Files(m) \ inputs1, NEW g \in new PROVE Below(f, g) \/ Below(g, f)
      <4>1. Below(f, U) \/ Below(U, f)
        BY DEF GoodInputs
      <4>2. g \subseteq U
        OBVIOUS
      <4> HIDE DEF U
      <4> QED
        BY <4>1, <4>2 DEF Below
    <3> QED
      BY <3>1, <3>2 DEF Apart
  <2> HIDE DEF m
  <2>2. /\ SaveTo(m, inputs1, new) \in Seq(Tables)
        /\ Range(SaveTo(m, inputs1, new)) = (Files(m) \ inputs1) \cup new
        /\ SortedByKey(SaveTo(m, inputs1, new))
    BY <1>1, <2>1, SaveToDeep
  <2> QED
    BY <1>1, <1>4, <2>2 DEF Installed, b
<1>7. ASSUME NEW l \in Levels PROVE Installed(l, After(l, level, inputs0, inputs1, new))
  <2>1. CASE l = level
    BY <1>5, <2>1 DEF After
  <2>2. CASE l = m
    BY <1>1, <1>6, <2>2 DEF After
  <2>3. CASE l # level /\ l # m
    BY <1>4, <2>3, OldInstalled DEF After
  <2> QED
    BY <2>1, <2>2, <2>3
<1> QED
  BY <1>4, <1>7

\* The parts of the invariant about the version alone.
TreeInv == TreeType /\ Aged /\ Layered /\ InKeyOrder

LEMMA InstallKeeps ==
  ASSUME TreeInv, NEW level, NEW inputs0, NEW inputs1, NEW new,
         GoodInputs(level, inputs0, inputs1), new \subseteq Tables, IsFiniteSet(new), Apart(new),
         UNION new \subseteq UNION (inputs0 \cup inputs1),
         Install(level, <<inputs0, inputs1>>, new),
         UNCHANGED <<hist, mem, imm, has_imm, snapshots, bg_error>>
  PROVE  /\ TreeInv'
         /\ \A l \in Levels : Files(l)' = After(l, level, inputs0, inputs1, new)
<1> USE DEF TreeInv
<1> DEFINE F == [l \in Levels |-> After(l, level, inputs0, inputs1, new)]
           m == level + 1
           U == UNION (inputs0 \cup inputs1)
<1>1. /\ files' = [l \in Levels |-> files'[l]]
      /\ \A l \in Levels : Installed(l, After(l, level, inputs0, inputs1, new))
  BY InstallFiles
<1>2. \A l \in Levels : F[l] = After(l, level, inputs0, inputs1, new)
  OBVIOUS
<1> HIDE DEF F
<1>3. /\ files' \in [Levels -> Seq(Tables)] /\ InKeyOrder' /\ InTimeOrder(files'[0])
      /\ \A l \in Levels : Files(l)' = F[l] /\ Stored(l)' = UNION F[l]
  BY <1>1, <1>2, NewVersion
<1>4. TreeType'
  BY <1>3, SameUpdates DEF TreeType
<1>5. /\ level \in Levels /\ m \in Levels /\ level < m /\ level # m
      /\ U \subseteq Stored(level) \cup Stored(m)
      /\ UNION inputs0 \subseteq Stored(level) /\ UNION inputs1 \subseteq Stored(m)
  BY NextLevel DEF GoodInputs, Stored
<1>6. \A l \in Levels : l # level /\ l # m => Stored(l)' = Stored(l)
  BY <1>2, <1>3 DEF After, Stored
<1>7. /\ Stored(level)' = UNION (Files(level) \ inputs0)
      /\ Stored(m)' = (UNION (Files(m) \ inputs1)) \cup (UNION new)
  <2>1. Stored(level)' = UNION (Files(level) \ inputs0) /\ Stored(m)' = UNION ((Files(m) \ inputs1) \cup new)
    BY <1>2, <1>3, <1>5 DEF After
  <2>2. UNION ((Files(m) \ inputs1) \cup new) = (UNION (Files(m) \ inputs1)) \cup (UNION new)
    OBVIOUS
  <2> QED
    BY <2>1, <2>2
<1>8. Stored(level)' \subseteq Stored(level) /\ Stored(m)' \subseteq Stored(m) \cup U
  <2>1. /\ UNION (Files(level) \ inputs0) \subseteq Stored(level)
        /\ (UNION (Files(m) \ inputs1)) \cup (UNION new) \subseteq Stored(m) \cup U
    BY DEF Stored
  <2> QED
    BY <1>7, <2>1
<1> HIDE DEF m, U
<1>9. Aged'
  <2>1. \A l \in Levels : \A t \in Stored(l)' : (\A s \in mem : t < s) /\ (\A s \in imm : t < s)
    BY <1>5, <1>6, <1>8 DEF Aged
  <2>2. \A i, j \in DOMAIN files'[0] : i < j => \A s \in files'[0][i], t \in files'[0][j] : s < t
    BY <1>3 DEF InTimeOrder
  <2> QED
    BY <2>1, <2>2 DEF Aged
<1>10. Layered'
  <2> SUFFICES ASSUME NEW l \in Levels, NEW k \in Levels, l < k PROVE OlderThan(Stored(k), Stored(l))'
    BY DEF Layered
  <2>0. Levels \subseteq Nat
    BY LevelZero
  <2>1. ASSUME NEW s \in Stored(k)', NEW t \in Stored(l)', hist[s].key = hist[t].key PROVE s < t
    <3>1. OlderThan(Stored(k), Stored(l))
      BY DEF Layered
    <3>2. CASE s \in Stored(k) /\ t \in Stored(l)
      BY <2>1, <3>1, <3>2 DEF OlderThan
    <3>3. CASE s \notin Stored(k)
      <4>1. k = m /\ s \in U
        BY <1>5, <1>6, <1>7, <1>8, <3>3
      <4>2. l # m /\ (l = level \/ l < level)
        BY <1>5, <2>0, <4>1 DEF m
      <4>3. CASE l = level
        <5>1. PICK g \in Files(level) \ inputs0 : t \in g
          BY <1>7, <4>3
        <5>2. OlderThan(U, g)
          BY DEF GoodInputs, U
        <5> QED
          BY <2>1, <4>1, <5>1, <5>2 DEF OlderThan
      <4>4. CASE l < level
        <5>1. t \in Stored(l)
          BY <1>6, <2>0, <4>2, <4>4
        <5>2. OlderThan(Stored(level), Stored(l)) /\ OlderThan(Stored(m), Stored(l))
          BY <1>5, <4>1, <4>4 DEF Layered
        <5> QED
          BY <1>5, <2>1, <4>1, <5>1, <5>2 DEF OlderThan
      <4> QED
        BY <4>2, <4>3, <4>4
    <3>4. CASE s \in Stored(k) /\ t \notin Stored(l)
      <4>1. l = m /\ t \in U
        BY <1>5, <1>6, <1>7, <1>8, <3>4
      <4>2. level < k /\ m < k
        BY <1>5, <2>0, <4>1
      <4>3. OlderThan(Stored(k), Stored(level)) /\ OlderThan(Stored(k), Stored(m))
        BY <1>5, <4>2 DEF Layered
      <4> QED
        BY <1>5, <2>1, <3>4, <4>1, <4>3 DEF OlderThan
    <3> QED
      BY <3>2, <3>3, <3>4
  <2> QED
    BY <2>1 DEF OlderThan
<1> QED
  BY <1>2, <1>3, <1>4, <1>9, <1>10

\* The keys of f and g do not mix.
KeysApart(f, g) ==
  \/ \A s \in f, t \in g : hist[s].key < hist[t].key
  \/ \A s \in f, t \in g : hist[t].key < hist[s].key

LEMMA KeysApartIsBelow ==
  ASSUME TreeType, NEW f, f \subseteq Updates, NEW g, g \subseteq Updates, KeysApart(f, g)
  PROVE  /\ Below(f, g) \/ Below(g, f)
         /\ \A s \in f, t \in g : hist[s].key # hist[t].key
<1>1. \A s \in f, t \in g : hist[s].key \in Nat /\ hist[t].key \in Nat
  BY UpdateType
<1>2. CASE \A s \in f, t \in g : hist[s].key < hist[t].key
  BY <1>1, <1>2, BeforeIs DEF Below
<1>3. CASE \A s \in f, t \in g : hist[t].key < hist[s].key
  BY <1>1, <1>3, BeforeIs DEF Below
<1> QED
  BY <1>2, <1>3 DEF KeysApart

LEMMA ImmIsTable == ASSUME TreeType, imm # {} PROVE imm \in Tables /\ imm \subseteq Updates
BY DEF TreeType, Tables

\* Where a flush goes, the files down to there lie to one side of it.
LEMMA FlushApart ==
  ASSUME TreeInv, imm # {}, NEW level \in PickLevelForMemTableOutput(user_begin(imm), user_end(imm))
  PROVE  /\ level \in Levels
         /\ level # 0 => \A l \in Levels : l <= level => \A f \in Files(l) : KeysApart(f, imm)
<1> USE DEF TreeInv
<1>1. imm \in Tables /\ user_begin(imm) \in Nat /\ user_end(imm) \in Nat
  BY ImmIsTable, UserRange
<1>2. /\ level \in Levels
      /\ level # 0 => \A l \in 0..level : l \in Levels /\ \A f \in Files(l) : ~Overlaps(f, user_begin(imm), user_end(imm))
  BY <1>1, FlushLevel
<1>3. ASSUME level # 0, NEW l \in Levels, l <= level, NEW f \in Files(l) PROVE KeysApart(f, imm)
  <2>1. l \in 0..level
    BY <1>2, <1>3, LevelZero
  <2>2. ~Overlaps(f, user_begin(imm), user_end(imm)) /\ f \in Tables
    BY <1>2, <1>3, <2>1, FileIsTable
  <2> QED
    BY <1>1, <2>2, NoOverlapApart DEF KeysApart
<1> QED
  BY <1>2, <1>3

LEMMA FlushKeeps ==
  ASSUME TreeInv, imm # {}, NEW level \in PickLevelForMemTableOutput(user_begin(imm), user_end(imm)),
         files' = [files EXCEPT ![level] = SaveTo(level, {}, {imm})],
         imm' = {}, has_imm' = FALSE, UNCHANGED <<hist, mem, snapshots, bg_error>>
  PROVE  /\ TreeInv'
         /\ \A l \in Levels : Files(l)' = IF l = level THEN Files(l) \cup {imm} ELSE Files(l)
<1> USE DEF TreeInv
<1> DEFINE F == [l \in Levels |-> IF l = level THEN Files(l) \cup {imm} ELSE Files(l)]
           a == SaveTo(level, {}, {imm})
<1>1. /\ level \in Levels
      /\ level # 0 => \A l \in Levels : l <= level => \A f \in Files(l) : KeysApart(f, imm)
  BY FlushApart
<1>2. imm \in Tables /\ imm \subseteq Updates /\ {imm} \subseteq Tables /\ Levels \subseteq Nat
  BY ImmIsTable, LevelZero
<1>3. \A l \in Levels : F[l] = IF l = level THEN Files(l) \cup {imm} ELSE Files(l)
  OBVIOUS
<1>4. files = [l \in Levels |-> files[l]]
  BY DEF TreeType
<1> HIDE DEF F, a
<1>5. files' = [l \in Levels |-> IF l = level THEN a ELSE files[l]]
  BY <1>1, <1>4 DEF a
<1>6. files' = [l \in Levels |-> files'[l]] /\ files'[level] = a /\ \A l \in Levels : l # level => files'[l] = files[l]
  BY <1>1, <1>5
<1>7. Installed(level, Files(level) \cup {imm})
  <2>1. CASE level = 0
    <3>1. \A s \in Stored(0), t \in imm : s < t
      BY LevelZero DEF Aged
    <3>2. /\ SaveTo(0, {}, {imm}) \in Seq(Tables)
          /\ Range(SaveTo(0, {}, {imm})) = (Files(0) \ {}) \cup {imm}
          /\ InTimeOrder(SaveTo(0, {}, {imm}))
      BY <1>2, <3>1, AgedIs, SaveToTop
    <3> QED
      BY <1>6, <2>1, <3>2 DEF Installed, a
  <2>2. CASE level # 0
    <3>1. Apart((Files(level) \ {}) \cup {imm})
      <4>1. Apart(Files(level))
        BY <1>1, <2>2, LevelApart
      <4>2. \A f \in Files(level) : Below(f, imm) \/ Below(imm, f)
        <5>1. level <= level
          BY <1>1, <1>2
        <5> QED
          BY <1>1, <1>2, <2>2, <5>1, FileIsTable, KeysApartIsBelow
      <4> QED
        BY <4>1, <4>2 DEF Apart
    <3>2. IsFiniteSet({imm})
      BY FS_Singleton
    <3>3. /\ SaveTo(level, {}, {imm}) \in Seq(Tables)
          /\ Range(SaveTo(level, {}, {imm})) = (Files(level) \ {}) \cup {imm}
          /\ SortedByKey(SaveTo(level, {}, {imm}))
      BY <1>1, <1>2, <2>2, <3>1, <3>2, SaveToDeep
    <3> QED
      BY <1>6, <2>2, <3>3 DEF Installed, a
  <2> QED
    BY <2>1, <2>2
<1>8. \A l \in Levels : Installed(l, F[l])
  BY <1>3, <1>6, <1>7, OldInstalled
<1>9. /\ files' \in [Levels -> Seq(Tables)] /\ InKeyOrder' /\ InTimeOrder(files'[0])
      /\ \A l \in Levels : Files(l)' = F[l] /\ Stored(l)' = UNION F[l]
  BY <1>6, <1>8, NewVersion
<1>10. TreeType'
  BY <1>9, SameUpdates DEF TreeType
<1>11. /\ \A l \in Levels : l # level => Stored(l)' = Stored(l)
       /\ Stored(level)' = Stored(level) \cup imm
  BY <1>1, <1>3, <1>9 DEF Stored
<1>12. Aged'
  <2>1. \A l \in Levels : \A t \in Stored(l)' : \A s \in mem : t < s
    BY <1>11 DEF Aged
  <2>2. \A i, j \in DOMAIN files'[0] : i < j => \A s \in files'[0][i], t \in files'[0][j] : s < t
    BY <1>9 DEF InTimeOrder
  <2> QED
    BY <2>1, <2>2 DEF Aged
<1>13. Layered'
  <2> SUFFICES ASSUME NEW l \in Levels, NEW k \in Levels, l < k PROVE OlderThan(Stored(k), Stored(l))'
    BY DEF Layered
  <2>1. ASSUME NEW s \in Stored(k)', NEW t \in Stored(l)', hist[s].key = hist[t].key PROVE s < t
    <3>1. OlderThan(Stored(k), Stored(l))
      BY DEF Layered
    <3>2. CASE s \in Stored(k) /\ t \in Stored(l)
      BY <2>1, <3>1, <3>2 DEF OlderThan
    <3>3. CASE s \in Stored(k) /\ t \notin Stored(l)
      <4>1. t \in imm
        BY <1>11, <3>3
      <4> QED
        BY <3>3, <4>1 DEF Aged
    <3>4. CASE s \notin Stored(k)
      <4>1. k = level /\ s \in imm /\ l # level
        BY <1>2, <1>11, <3>4
      <4>2. t \in Stored(l) /\ l <= level /\ level # 0
        BY <1>2, <1>11, <4>1
      <4>3. PICK f \in Files(l) : t \in f
        BY <4>2 DEF Stored
      <4>4. KeysApart(f, imm) /\ f \subseteq Updates
        BY <1>1, <4>2, FileIsTable
      <4> QED
        BY <1>2, <2>1, <4>1, <4>3, <4>4, KeysApartIsBelow
    <3> QED
      BY <3>2, <3>3, <3>4
  <2> QED
    BY <2>1 DEF OlderThan
<1> QED
  BY <1>3, <1>9, <1>10, <1>12, <1>13

-----------------------------------------------------------------------------
(* The steps.                                                               *)

\* A compaction under way stays sound when files are added that are newer
\* than its inputs, and in the level of its outputs lie to one side of them.
LEMMA JobStays ==
  ASSUME NEW c, JobInv(c), hist' = hist, \A s \in snapshots' : c.smallest_snapshot <= s,
         \A l \in Levels : Files(l) \subseteq Files(l)',
         \A l \in Levels : \A g \in Files(l)' \ Files(l) :
           /\ OlderThan(MakeInputIterator(c), g)
           /\ l = c.level + 1 => Below(g, MakeInputIterator(c)) \/ Below(MakeInputIterator(c), g)
  PROVE  JobInv(c)'
<1> DEFINE U == UNION (c.inputs0 \cup c.inputs1)
           m == c.level + 1
<1>1. MakeInputIterator(c) = U
  BY DEF MakeInputIterator
<1>2. /\ c.level \in Levels /\ m \in Levels
      /\ c.inputs0 \subseteq Files(c.level) /\ c.inputs1 \subseteq Files(m) /\ c.inputs0 # {}
      /\ \A g \in Files(c.level) \ c.inputs0 : OlderThan(U, g)
      /\ \A g \in Files(m) \ c.inputs1 : OlderThan(U, g) /\ (Below(g, U) \/ Below(U, g))
  BY DEF JobInv, GoodInputs
<1>3. /\ Tables' = Tables /\ (\A f, g : Below(f, g)' = Below(f, g))
      /\ (\A f, g : OlderThan(f, g)' = OlderThan(f, g)) /\ \A fs : Covered(fs)' = Covered(fs)
  BY SameUpdates
<1>4. GoodInputs(c.level, c.inputs0, c.inputs1)'
  <2>1. c.inputs0 \subseteq Files(c.level)' /\ c.inputs1 \subseteq Files(m)'
    BY <1>2
  <2> HIDE DEF U, m
  <2>2. ASSUME NEW g \in Files(c.level)' \ c.inputs0 PROVE OlderThan(U, g)
    BY <1>1, <1>2
  <2>3. ASSUME NEW g \in Files(m)' \ c.inputs1 PROVE OlderThan(U, g) /\ (Below(g, U) \/ Below(U, g))
    <3>1. CASE g \in Files(m)
      BY <1>2, <3>1
    <3>2. CASE g \notin Files(m)
      BY <1>1, <1>2, <3>2 DEF m
    <3> QED
      BY <3>1, <3>2
  <2>4. ASSUME NEW g \in Files(c.level)' \ c.inputs0 PROVE OlderThan(U, g)'
    BY <2>2, hist' = hist DEF OlderThan
  <2>5. ASSUME NEW g \in Files(m)' \ c.inputs1 PROVE OlderThan(U, g)' /\ (Below(g, U)' \/ Below(U, g)')
    BY <2>3, hist' = hist DEF OlderThan, Below, Before, Less, InternalKey
  <2> QED
    BY <1>2, <2>1, <2>4, <2>5 DEF GoodInputs, U, m
<1>5. ASSUME NEW l \in Levels, l >= c.level + 2, NEW g \in Files(l)'
      PROVE  g \in Range(c.input_version[l]) \/ OlderThan(MakeInputIterator(c), g)'
  <2>1. CASE g \in Files(l)
    <3>1. g \in Range(c.input_version[l]) \/ OlderThan(MakeInputIterator(c), g)
      BY <1>5, <2>1 DEF JobInv
    <3> QED
      BY <3>1, hist' = hist DEF OlderThan, MakeInputIterator
  <2>2. CASE g \notin Files(l)
    <3>1. OlderThan(MakeInputIterator(c), g)
      BY <2>2
    <3> QED
      BY <3>1, hist' = hist DEF OlderThan, MakeInputIterator
  <2> QED
    BY <2>1, <2>2
<1>6. c.kind \in FlushDuring => Covered(c.inputs0 \cup c.inputs1)'
  <2>1. c.kind \in FlushDuring => Covered(c.inputs0 \cup c.inputs1)
    BY DEF JobInv
  <2> QED
    BY <2>1, hist' = hist DEF Covered, Spans
<1>7. /\ c.kind \in {"automatic", "manual"} /\ (c.kind = "manual" => ManualRanges # {})
      /\ c.smallest_snapshot \in 0..Len(hist)' /\ \A s \in snapshots' : c.smallest_snapshot <= s
      /\ c.input_version \in [Levels -> Seq(Tables)]'
  BY <1>3 DEF JobInv
<1> QED
  BY <1>4, <1>5, <1>6, <1>7 DEF JobInv

LEMMA WorkStays ==
  ASSUME Working, job' = job, hist' = hist, files' = files, snapshots' \subseteq snapshots \cup {Len(hist)},
         TreeType
  PROVE  Working'
<1>1. CASE job = <<>>
  BY <1>1 DEF Working
<1>2. CASE job # <<>>
  <2>1. PICK c \in Range(job) : job = <<c>> /\ JobInv(c)
    BY <1>2 DEF Working
  <2>2. \A l \in Levels : Files(l)' = Files(l)
    BY DEF Files
  <2>3. \A s \in snapshots' : c.smallest_snapshot <= s
    <3>1. c.smallest_snapshot \in 0..Len(hist) /\ \A s \in snapshots : c.smallest_snapshot <= s
      BY <2>1 DEF JobInv
    <3>2. Len(hist) \in Nat
      BY DEF TreeType
    <3> QED
      BY <3>1, <3>2
  <2>4. JobInv(c)'
    BY <2>1, <2>2, <2>3, JobStays
  <2> QED
    BY <2>1, <2>4 DEF Working
<1> QED
  BY <1>1, <1>2

LEMMA CompleteStays ==
  ASSUME Complete, hist' = hist, snapshots' \subseteq snapshots \cup {Len(hist)}, Held' = Held
  PROVE  Complete'
<1> SUFFICES ASSUME NEW k \in Keys, NEW s \in snapshots' \cup {Len(hist)'}, NEW n \in Updates', IsNewest(n, k, s)'
             PROVE  \/ n \in Held'
                    \/ hist'[n].type = "deletion" /\ \A t \in Held' : hist'[t].key = k => n < t
  BY DEF Complete
<1>1. s \in snapshots \cup {Len(hist)} /\ n \in Updates
  BY DEF Updates
<1>2. IsNewest(n, k, s)
  BY SameUpdates
<1>3. \/ n \in Held
      \/ hist[n].type = "deletion" /\ \A t \in Held : hist[t].key = k => n < t
  BY <1>1, <1>2 DEF Complete
<1> QED
  BY <1>3

LEMMA InvParts == LSMInv <=> TreeInv /\ Complete /\ Working
BY DEF LSMInv, TreeInv

\* A flush leaves the compaction it may have happened in sound.
LEMMA FlushJob ==
  ASSUME TreeInv, Working, imm # {}, job' = job, hist' = hist, snapshots' = snapshots,
         job # <<>> => job[1].kind \in FlushDuring,
         NEW level \in PickLevelForMemTableOutput(user_begin(imm), user_end(imm)),
         \A l \in Levels : Files(l)' = IF l = level THEN Files(l) \cup {imm} ELSE Files(l)
  PROVE  Working'
<1> USE DEF TreeInv
<1>1. CASE job = <<>>
  BY <1>1 DEF Working
<1>2. CASE job # <<>>
  <2>1. PICK c \in Range(job) : job = <<c>> /\ JobInv(c)
    BY <1>2 DEF Working
  <2> DEFINE U == MakeInputIterator(c)
             fs == c.inputs0 \cup c.inputs1
             m == c.level + 1
  <2>2. /\ c.level \in Levels /\ m \in Levels /\ c.level < m /\ c.inputs0 # {}
        /\ c.inputs0 \subseteq Files(c.level) /\ c.inputs1 \subseteq Files(m)
    BY <2>1, NextLevel DEF JobInv, GoodInputs
  <2>3. Covered(fs)
    BY <1>2, <2>1 DEF JobInv
  <2>4. U = UNION fs
    BY DEF MakeInputIterator
  <2> HIDE DEF U, fs, m
  <2>5. imm \in Tables /\ imm \subseteq Updates /\ Levels \subseteq Nat
    BY ImmIsTable, LevelZero
  <2>6. \A f \in fs : f \in Tables /\ f \subseteq Updates /\ (f \in Files(c.level) \/ f \in Files(m))
    BY <2>2, FileIsTable DEF fs
  <2>7. OlderThan(U, imm)
    <3>1. U \subseteq Stored(c.level) \cup Stored(m)
      BY <2>4, <2>6 DEF Stored
    <3> QED
      BY <2>2, <3>1 DEF Aged, OlderThan
  <2>8. ASSUME level = m PROVE Below(imm, U) \/ Below(U, imm)
    <3>1. level # 0 /\ c.level <= level /\ m <= level /\ level \in Levels
      BY <2>2, <2>5, <2>8
    <3>2. \A f \in fs : KeysApart(f, imm)
      BY <2>2, <2>6, <3>1, FlushApart
    <3>3. PICK u \in imm : TRUE
      OBVIOUS
    <3> DEFINE k == hist[u].key
    <3>4. k \in Keys /\ k \in Nat
      BY <2>5, UpdateType
    <3>5. ~ \E f \in fs : Spans(f, k)
      <4> SUFFICES ASSUME NEW f \in fs, NEW s \in f, NEW t \in f, hist[s].key <= k, k <= hist[t].key
                   PROVE  FALSE
        BY DEF Spans
      <4>1. hist[s].key \in Nat /\ hist[t].key \in Nat
        BY <2>6, UpdateType
      <4>2. (hist[s].key < k /\ hist[t].key < k) \/ (k < hist[s].key /\ k < hist[t].key)
        BY <3>2 DEF KeysApart
      <4> HIDE DEF k
      <4> QED
        BY <3>4, <4>1, <4>2
    <3>6. ~Spans(UNION fs, k)
      BY <2>3, <3>4, <3>5 DEF Covered
    <3>7. \A f \in fs : f # {}
      BY <2>6 DEF Tables
    <3>8. CASE \A f \in fs : \A s \in f, t \in imm : hist[s].key < hist[t].key
      <4>1. \A f \in fs : Below(f, imm)
        BY <3>8, BeforeIs DEF Below
      <4> QED
        BY <2>4, <4>1, OlderThanParts
    <3>9. CASE \A f \in fs : \A s \in f, t \in imm : hist[t].key < hist[s].key
      <4>1. \A f \in fs : Below(imm, f)
        BY <3>9, BeforeIs DEF Below
      <4> QED
        BY <2>4, <4>1, OlderThanParts
    <3>10. CASE /\ ~ \A f \in fs : \A s \in f, t \in imm : hist[s].key < hist[t].key
                /\ ~ \A f \in fs : \A s \in f, t \in imm : hist[t].key < hist[s].key
      <4>1. PICK f \in fs : \A s \in f, t \in imm : hist[t].key < hist[s].key
        BY <3>2, <3>10 DEF KeysApart
      <4>2. PICK g \in fs : \A s \in g, t \in imm : hist[s].key < hist[t].key
        BY <3>2, <3>10 DEF KeysApart
      <4>3. PICK s \in f : k < hist[s].key /\ s \in Updates
        BY <2>6, <3>7, <4>1
      <4>4. PICK t \in g : hist[t].key < k /\ t \in Updates
        BY <2>6, <3>7, <4>2
      <4>5. k <= hist[s].key /\ hist[t].key <= k
        BY <3>4, <4>3, <4>4, UpdateType
      <4>6. s \in UNION fs /\ t \in UNION fs
        OBVIOUS
      <4> QED
        BY <3>6, <4>5, <4>6 DEF Spans
    <3> QED
      BY <3>8, <3>9, <3>10
  <2>9. ASSUME NEW l \in Levels, NEW g \in Files(l)' \ Files(l)
        PROVE  /\ OlderThan(U, g)
               /\ l = c.level + 1 => Below(g, U) \/ Below(U, g)
    <3>1. l = level /\ g = imm
      BY <2>9
    <3> QED
      BY <2>7, <2>8, <3>1 DEF m
  <2>10. \A s \in snapshots' : c.smallest_snapshot <= s
    BY <2>1 DEF JobInv
  <2>11. \A l \in Levels : Files(l) \subseteq Files(l)'
    OBVIOUS
  <2>12. JobInv(c)'
    BY <2>1, <2>9, <2>10, <2>11, JobStays DEF U
  <2> QED
    BY <2>1, <2>12 DEF Working
<1> QED
  BY <1>1, <1>2

LEMMA CompactMemTableStep == ASSUME LSMInv, CompactMemTable PROVE LSMInv'
<1>1. TreeInv /\ Complete /\ Working
  BY InvParts
<1>2. /\ has_imm /\ imm' = {} /\ has_imm' = FALSE /\ UNCHANGED <<hist, mem, snapshots, job, bg_error>>
      /\ (job # <<>> => job[1].kind \in FlushDuring)
  BY DEF CompactMemTable
<1>3. CASE imm = {} /\ UNCHANGED files
  <2>1. (\A l \in Levels : Files(l)' = Files(l) /\ Stored(l)' = Stored(l)) /\ Updates' = Updates /\ Tables' = Tables
    BY <1>3, <1>2 DEF Files, Stored, Updates, Tables
  <2>2. TreeType'
    BY <1>1, <1>2, <1>3, <2>1 DEF TreeInv, TreeType
  <2>3. Aged'
    BY <1>1, <1>2, <1>3, <2>1 DEF TreeInv, Aged
  <2>4. Layered'
    BY <1>1, <1>2, <1>3 DEF TreeInv, Layered, OlderThan, Stored, Files
  <2>5. InKeyOrder'
    BY <1>1, <1>2, <1>3 DEF TreeInv, InKeyOrder, Below, Before, Less, InternalKey
  <2>6. Held' = Held
    BY <1>2, <1>3 DEF Held, Stored, Files
  <2>7. Complete'
    BY <1>1, <1>2, <2>6, CompleteStays
  <2>8. Working'
    BY <1>1, <1>2, <1>3, WorkStays DEF TreeInv
  <2> QED
    BY <2>2, <2>3, <2>4, <2>5, <2>7, <2>8 DEF LSMInv
<1>4. CASE imm # {} /\ \E level \in PickLevelForMemTableOutput(user_begin(imm), user_end(imm)) :
                         files' = [files EXCEPT ![level] = SaveTo(level, {}, {imm})]
  <2>1. PICK level \in PickLevelForMemTableOutput(user_begin(imm), user_end(imm)) :
           files' = [files EXCEPT ![level] = SaveTo(level, {}, {imm})]
    BY <1>4
  <2>2. /\ TreeInv'
        /\ \A l \in Levels : Files(l)' = IF l = level THEN Files(l) \cup {imm} ELSE Files(l)
    BY <1>1, <1>2, <1>4, <2>1, FlushKeeps
  <2>3. level \in Levels
    BY <1>1, <1>4, FlushApart
  <2>4. Held' = Held
    <3>1. /\ \A l \in Levels : l # level => Stored(l)' = Stored(l)
          /\ Stored(level)' = Stored(level) \cup imm
      BY <2>2, <2>3 DEF Stored
    <3>2. UNION {Stored(l)' : l \in Levels} = imm \cup UNION {Stored(l) : l \in Levels}
      BY <2>3, <3>1
    <3> QED
      BY <1>2, <3>2 DEF Held
  <2>5. Complete'
    BY <1>1, <1>2, <2>4, CompleteStays
  <2>6. Working'
    BY <1>1, <1>2, <1>4, <2>2, FlushJob
  <2> QED
    BY <2>2, <2>5, <2>6, InvParts, PTL
<1> QED
  BY <1>3, <1>4 DEF CompactMemTable

LEMMA SameTree ==
  ASSUME TreeInv, UNCHANGED <<hist, mem, imm, has_imm, files>>, snapshots' \subseteq 0..Len(hist),
         bg_error' \in BOOLEAN
  PROVE  TreeInv' /\ Held' = Held
<1>1. Updates' = Updates /\ Tables' = Tables
  BY DEF Updates, Tables
<1>2. TreeType'
  BY <1>1 DEF TreeInv, TreeType
<1>3. Aged'
  BY DEF TreeInv, Aged, Stored, Files
<1>4. Layered'
  BY DEF TreeInv, Layered, OlderThan, Stored, Files
<1>5. InKeyOrder'
  BY DEF TreeInv, InKeyOrder, Below, Before, Less, InternalKey
<1>6. Held' = Held
  BY DEF Held, Stored, Files
<1> QED
  BY <1>2, <1>3, <1>4, <1>5, <1>6 DEF TreeInv

\* The least snapshot, or the last sequence number.
LEMMA SmallestSnapshot ==
  ASSUME TreeType, NEW level, NEW inputs, NEW kind
  PROVE  LET c == InputsOf(level, inputs, kind)
         IN  c.smallest_snapshot \in 0..Len(hist) /\ \A s \in snapshots : c.smallest_snapshot <= s
<1> DEFINE P(s) == \A t \in snapshots : s <= t
           x == IF snapshots = {} THEN last_sequence ELSE CHOOSE s \in snapshots : P(s)
<1>1. InputsOf(level, inputs, kind).smallest_snapshot = x
  BY DEF InputsOf
<1>2. Len(hist) \in Nat /\ snapshots \subseteq 0..Len(hist) /\ last_sequence = Len(hist)
  BY DEF TreeType, last_sequence
<1>3. x \in 0..Len(hist) /\ \A s \in snapshots : x <= s
  <2>1. CASE snapshots = {}
    BY <1>2, <2>1
  <2>2. CASE snapshots # {}
    <3>1. snapshots \subseteq Nat
      BY <1>2
    <3>2. \E s \in snapshots : P(s)
      BY <2>2, <3>1, LeastNumberOf
    <3>3. (CHOOSE s \in snapshots : P(s)) \in snapshots /\ P(CHOOSE s \in snapshots : P(s))
      BY <3>2, Zenon
    <3>4. x = CHOOSE s \in snapshots : P(s)
      BY <2>2, Zenon
    <3> HIDE DEF x
    <3>5. x \in snapshots /\ P(x)
      BY <3>3, <3>4, Zenon
    <3> QED
      BY <1>2, <3>5
  <2> QED
    BY <2>1, <2>2
<1> HIDE DEF x
<1> QED
  BY <1>1, <1>3

LEMMA JobStarts ==
  ASSUME TreeInv, NEW level, NEW inputs, NEW kind, GoodInputs(level, inputs[1], inputs[2]),
         kind \in {"automatic", "manual"}, kind = "manual" => ManualRanges # {},
         kind \in FlushDuring => Covered(inputs[1] \cup inputs[2]),
         job' = <<InputsOf(level, inputs, kind)>>, UNCHANGED <<hist, files, snapshots>>
  PROVE  Working'
<1> DEFINE d == InputsOf(level, inputs, kind)
<1>1. PICK c : c = d
  OBVIOUS
<1>2. c.smallest_snapshot \in 0..Len(hist) /\ \A s \in snapshots : c.smallest_snapshot <= s
  BY <1>1, SmallestSnapshot DEF TreeInv
<1>3. /\ c.level = level /\ c.kind = kind /\ c.inputs0 = inputs[1] /\ c.inputs1 = inputs[2]
      /\ c.input_version = files
  BY <1>1 DEF InputsOf
<1>4. job' = <<c>>
  BY <1>1
<1> HIDE DEF d
<1>5. JobInv(c)
  <2>1. c.input_version \in [Levels -> Seq(Tables)]
    BY <1>3 DEF TreeInv, TreeType
  <2>2. \A l \in Levels : l >= c.level + 2 => \A g \in Files(l) : g \in Range(c.input_version[l])
    BY <1>3 DEF Files
  <2> QED
    BY <1>2, <1>3, <2>1, <2>2 DEF JobInv
<1>6. \A l \in Levels : Files(l)' = Files(l)
  BY DEF Files
<1>7. JobInv(c)'
  BY <1>2, <1>5, <1>6, JobStays
<1> QED
  BY <1>4, <1>7 DEF Working, Range

LEMMA LevelsOf ==
  ASSUME NEW level \in 0..(kNumLevels - 2)
  PROVE  level \in Levels /\ level + 1 \in Levels
BY LSMTreeAssumption DEF Levels

\* A file is moved to the next level, or a compaction of it starts.
LEMMA AutomaticCompactionStep == ASSUME LSMInv, AutomaticCompaction PROVE LSMInv'
<1>1. TreeInv /\ Complete /\ Working /\ TreeType /\ InKeyOrder /\ Layered
  BY InvParts DEF TreeInv
<1>2. job = <<>> /\ UNCHANGED <<hist, mem, imm, has_imm, snapshots, bg_error>>
  BY DEF AutomaticCompaction
<1>3. PICK level \in 0..(kNumLevels - 2) : \E f \in Files(level) : PickCompaction(level, f)
  BY DEF AutomaticCompaction
<1>4. PICK f \in Files(level) : PickCompaction(level, f)
  BY <1>3
<1>5. level \in Levels /\ level + 1 \in Levels /\ level \in Nat
  BY LevelsOf, LevelZero
<1> DEFINE picked == IF level > 0 THEN {f} ELSE GetOverlappingInputs(0, user_begin(f), user_end(f))
<1>6. /\ GoodPick(level, picked) /\ f \in picked
      /\ CoversUp(picked, user_end(f)) /\ CoversDown(picked, user_begin(f))
  <2>1. CASE level = 0
    <3>1. picked = GetOverlappingInputs(0, user_begin(f), user_end(f))
      BY <2>1
    <3> QED
      BY <1>1, <2>1, <3>1, TopPick
  <2>2. CASE level # 0
    <3>1. level > 0
      BY <1>5, <2>2
    <3> QED
      BY <1>1, <1>5, <2>2, <3>1, OneFilePick
  <2> QED
    BY <2>1, <2>2
<1>7. PICK inputs \in SetupOtherInputs(level, picked) :
        \/ /\ TRUE \in IsTrivialMove(level, inputs)
           /\ Install(level, inputs, inputs[1])
           /\ UNCHANGED job
        \/ /\ FALSE \in IsTrivialMove(level, inputs)
           /\ job' = <<InputsOf(level, inputs, "automatic")>>
           /\ UNCHANGED <<files>>
  BY <1>4, Zenon DEF PickCompaction
<1> HIDE DEF picked
<1>8. inputs = <<inputs[1], inputs[2]>> /\ GoodInputs(level, inputs[1], inputs[2])
  BY <1>1, <1>5, <1>6, SetupGood
<1>9. Covered(inputs[1] \cup inputs[2])
  BY <1>1, <1>5, <1>6, SetupCovered
<1>10. CASE TRUE \in IsTrivialMove(level, inputs) /\ Install(level, inputs, inputs[1]) /\ UNCHANGED job
  <2> DEFINE a == inputs[1]
             m == level + 1
  <2>1. Cardinality(a) = 1 /\ inputs[2] = {}
    BY <1>10 DEF IsTrivialMove
  <2>2. a \subseteq Files(level) /\ a \subseteq Tables /\ IsFiniteSet(a)
    <3>1. a \subseteq Files(level) /\ IsFiniteSet(Files(level)) /\ Files(level) \subseteq Tables
      BY <1>1, <1>5, <1>8, FilesFinite DEF GoodInputs
    <3> QED
      BY <3>1, FS_Subset
  <2>3. PICK x : a = {x}
    BY <2>1, <2>2, FS_Singleton
  <2>4. Apart(a)
    BY <2>3 DEF Apart
  <2>5. UNION a \subseteq UNION (a \cup {})
    OBVIOUS
  <2>6. Install(level, <<a, {}>>, a)
    BY <1>8, <1>10, <2>1
  <2>7. GoodInputs(level, a, {})
    BY <1>8, <2>1
  <2> HIDE DEF a
  <2>8. TreeInv' /\ \A l \in Levels : Files(l)' = After(l, level, a, {}, a)
    BY <1>1, <1>2, <2>2, <2>4, <2>5, <2>6, <2>7, InstallKeeps
  <2>9. Held' = Held
    <3>1. m \in Levels /\ m # level /\ \A l \in Levels : l # level /\ l # m => Stored(l)' = Stored(l)
      BY <1>5, <2>8, NextLevel DEF After, Stored
    <3>2. Stored(level)' = UNION (Files(level) \ a) /\ Stored(m)' = UNION (Files(m) \cup a)
      BY <1>5, <2>8, <3>1 DEF After, Stored
    <3>3. UNION {Stored(l)' : l \in Levels} = UNION {Stored(l) : l \in Levels}
      <4>1. /\ Stored(level) = (UNION (Files(level) \ a)) \cup (UNION a)
            /\ UNION (Files(m) \cup a) = Stored(m) \cup (UNION a)
        BY <2>2 DEF Stored
      <4>2. Stored(level)' \cup Stored(m)' = Stored(level) \cup Stored(m)
        BY <3>2, <4>1
      <4> QED
        BY <1>5, <3>1, <4>2
    <3> QED
      BY <1>2, <3>3 DEF Held
  <2>10. Complete'
    BY <1>1, <1>2, <2>9, CompleteStays
  <2>11. Working'
    BY <1>2, <1>10 DEF Working
  <2> QED
    BY <2>8, <2>10, <2>11, InvParts, PTL
<1>11. CASE job' = <<InputsOf(level, inputs, "automatic")>> /\ UNCHANGED files
  <2>1. TreeInv' /\ Held' = Held
    <3>1. snapshots' \subseteq 0..Len(hist) /\ bg_error' \in BOOLEAN
      BY <1>1, <1>2 DEF TreeType
    <3> QED
      BY <1>1, <1>2, <1>11, <3>1, SameTree
  <2>2. Complete'
    BY <1>1, <1>2, <2>1, CompleteStays
  <2>3. Working'
    BY <1>1, <1>2, <1>8, <1>9, <1>11, JobStarts
  <2> QED
    BY <2>1, <2>2, <2>3, InvParts, PTL
<1> QED
  BY <1>7, <1>10, <1>11

LEMMA ManualCompactionStep == ASSUME QuietManual, LSMInv, ManualCompaction PROVE LSMInv'
<1>1. TreeInv /\ Complete /\ Working /\ TreeType /\ InKeyOrder /\ Layered
  BY InvParts DEF TreeInv
<1>2. UNCHANGED <<hist, mem, imm, has_imm, files, snapshots, bg_error>>
  BY DEF ManualCompaction
<1>3. PICK level \in 0..(kNumLevels - 2), r \in ManualRanges : CompactRange(level, r[1], r[2])
  BY DEF ManualCompaction
<1>4. level \in Levels /\ level + 1 \in Levels
  BY LevelsOf
<1>5. r[1] \in 0..NoKey /\ r[2] \in 0..NoKey
  <2>1. r \in (0..MaxKey) \X (1..NoKey) /\ MaxKey \in Nat
    BY LSMTreeAssumption
  <2>2. r[1] \in 0..MaxKey /\ r[2] \in 1..NoKey
    BY <2>1
  <2> QED
    BY <2>1, <2>2 DEF NoKey
<1> DEFINE all == GetOverlappingInputs(level, r[1], r[2])
           shorter == {fs \in (SUBSET all) \ {{}} :
                         \A f \in fs, g \in all \ fs : Less(smallest(f), smallest(g))}
<1>6. PICK picked \in IF level = 0 THEN {all} \ {{}} ELSE shorter :
        \E inputs \in SetupOtherInputs(level, picked) : job' = <<InputsOf(level, inputs, "manual")>>
  BY <1>3, Zenon DEF CompactRange
<1>7. GoodPick(level, picked)
  BY <1>1, <1>4, <1>5, <1>6, ManualPick
<1> HIDE DEF all, shorter
<1>8. PICK inputs \in SetupOtherInputs(level, picked) : job' = <<InputsOf(level, inputs, "manual")>>
  BY <1>6
<1>9. GoodInputs(level, inputs[1], inputs[2])
  BY <1>1, <1>4, <1>7, SetupGood
<1>10. "manual" \notin FlushDuring /\ ManualRanges # {}
  BY <1>3 DEF QuietManual
<1>11. Working'
  BY <1>1, <1>2, <1>8, <1>9, <1>10, JobStarts
<1>12. TreeInv' /\ Held' = Held
  <2>1. snapshots' \subseteq 0..Len(hist) /\ bg_error' \in BOOLEAN
    BY <1>1, <1>2 DEF TreeType
  <2> QED
    BY <1>1, <1>2, <2>1, SameTree
<1>13. Complete'
  BY <1>1, <1>2, <1>12, CompleteStays
<1> QED
  BY <1>11, <1>12, <1>13, InvParts, PTL

-----------------------------------------------------------------------------
(* The end of a compaction.                                                 *)

LEMMA OutputsAre ==
  ASSUME TreeType, NEW kept, kept \subseteq Updates, NEW cuts, cuts \subseteq kept
  PROVE  /\ Outputs(kept, cuts) \subseteq Tables /\ IsFiniteSet(Outputs(kept, cuts))
         /\ Apart(Outputs(kept, cuts)) /\ UNION Outputs(kept, cuts) = kept
<1> DEFINE upto(s) == {t \in kept : ~Less(InternalKey(s), InternalKey(t))}
           ends == IF kept = {} THEN {} ELSE cuts \cup {largest(kept)[2]}
           before(s) == UNION {upto(t) : t \in {u \in ends : Less(InternalKey(u), InternalKey(s))}}
           out(s) == upto(s) \ before(s)
           O == Outputs(kept, cuts)
<1>1. O = {out(s) : s \in ends}
  BY Zenon DEF Outputs
<1>2. IsFiniteSet(kept)
  <2>1. Len(hist) \in Nat
    BY DEF TreeType
  <2>2. IsFiniteSet(Updates)
    BY <2>1, FS_Interval DEF Updates
  <2> QED
    BY <2>2, FS_Subset
<1>3. CASE kept = {}
  <2>1. O = {}
    BY <1>1, <1>3
  <2> HIDE DEF O
  <2>2. IsFiniteSet(O) /\ O \subseteq Tables /\ Apart(O) /\ UNION O = {}
    BY <2>1, FS_EmptySet DEF Apart
  <2> QED
    BY <1>3, <2>2 DEF O
<1>4. CASE kept # {}
  <2>1. kept \in Tables
    BY <1>4 DEF Tables
  <2>2. PICK l \in kept : largest(kept) = InternalKey(l) /\ \A t \in kept \ {l} : Before(t, l)
    BY <2>1, Largest
  <2>3. largest(kept)[2] = l
    BY <2>2 DEF InternalKey
  <2>4. ends = cuts \cup {l}
    BY <1>4, <2>3
  <2>5. ends \subseteq kept /\ ends \subseteq Updates /\ l \in ends /\ IsFiniteSet(ends)
    <3>1. ends \subseteq kept /\ l \in ends
      BY <2>4
    <3> HIDE DEF ends
    <3> QED
      BY <1>2, <3>1, FS_Subset
  <2>6. \A s, t : t \in out(s) <=> t \in kept /\ ~Before(s, t) /\ \A u \in ends : Before(u, s) => Before(u, t)
    <3> HIDE DEF ends
    <3> QED
      BY DEF Before
  <2> HIDE DEF upto, before, ends, out, O
  <2>7. ASSUME NEW s \in ends PROVE s \in out(s) /\ out(s) \subseteq kept
    <3>1. s \in kept /\ ~Before(s, s)
      BY <2>5, BeforeTransitive
    <3> QED
      BY <2>6, <3>1
  <2>8. O \subseteq Tables
    <3> SUFFICES ASSUME NEW s \in ends PROVE out(s) \in Tables
      BY <1>1
    <3> QED
      BY <2>7 DEF Tables
  <2>9. IsFiniteSet(O)
    <3> DEFINE f == [s \in ends |-> out(s)]
    <3>1. f \in Surjection(ends, O)
      BY <1>1 DEF Surjection
    <3> HIDE DEF f
    <3> QED
      BY <2>5, <3>1, FS_Surjection
  <2>10. Apart(O)
    <3>1. ASSUME NEW s \in ends, NEW t \in ends, Before(s, t) PROVE Below(out(s), out(t))
      <4> SUFFICES ASSUME NEW x \in out(s), NEW y \in out(t) PROVE Before(x, y)
        BY DEF Below
      <4>1. x \in Updates /\ y \in Updates /\ s \in Updates /\ ~Before(s, x) /\ Before(s, y)
        BY <2>5, <2>6, <3>1
      <4> QED
        BY <4>1, BeforeTransitive
    <3>2. ASSUME NEW s \in ends, NEW t \in ends, out(s) # out(t)
          PROVE  Below(out(s), out(t)) \/ Below(out(t), out(s))
      <4>1. s # t
        BY <3>2
      <4>2. Before(s, t) \/ Before(t, s)
        BY <2>5, <4>1, BeforeTransitive
      <4> QED
        BY <3>1, <4>2
    <3> QED
      BY <1>1, <3>2 DEF Apart
  <2>11. UNION O = kept
    <3>1. UNION O \subseteq kept
      BY <1>1, <2>7
    <3>2. ASSUME NEW x \in kept PROVE x \in UNION O
      <4> DEFINE E == {s \in ends : ~Before(s, x)}
      <4>1. l \in E
        <5>1. x = l \/ Before(x, l)
          BY <2>2
        <5>2. x \in Updates /\ l \in Updates
          BY <2>5
        <5> QED
          BY <2>5, <5>1, <5>2, BeforeTransitive
      <4>2. E \in Tables
        BY <2>5, <4>1 DEF Tables
      <4>3. PICK s \in E : \A t \in E \ {s} : Before(s, t)
        BY <4>2, FirstOf
      <4>4. \A u \in ends : Before(u, s) => Before(u, x)
        <5> SUFFICES ASSUME NEW u \in ends, Before(u, s), ~Before(u, x) PROVE FALSE
          OBVIOUS
        <5>1. u \in E /\ u \in Updates /\ s \in Updates
          BY <2>5
        <5>2. u # s
          BY <5>1, BeforeTransitive
        <5>3. Before(s, u)
          BY <4>3, <5>1, <5>2
        <5> QED
          BY <5>1, <5>3, BeforeTransitive
      <4>5. s \in ends /\ x \in out(s)
        BY <2>6, <4>3, <4>4
      <4> QED
        BY <1>1, <4>5
    <3> QED
      BY <3>1, <3>2
  <2> QED
    BY <2>8, <2>9, <2>10, <2>11 DEF O
<1> QED
  BY <1>3, <1>4

\* Update t is in a file that is not an input.
Untouched(t, level, inputs0, inputs1) ==
  \E l \in Levels : \E g \in Files(l) :
    t \in g /\ (l = level => g \notin inputs0) /\ (l = level + 1 => g \notin inputs1)

LEMMA InstallHeld ==
  ASSUME TreeInv, NEW level \in Levels, level + 1 \in Levels, NEW inputs0, NEW inputs1, NEW new,
         UNION new \subseteq UNION (inputs0 \cup inputs1),
         inputs0 \subseteq Files(level), inputs1 \subseteq Files(level + 1),
         \A l \in Levels : Files(l)' = After(l, level, inputs0, inputs1, new),
         UNCHANGED <<mem, imm>>
  PROVE  /\ Held' \subseteq Held
         /\ \A n \in Held : n \in UNION new \/ n \notin UNION (inputs0 \cup inputs1) => n \in Held'
         /\ \A t \in Held' : \/ t \in mem \cup imm
                             \/ t \in UNION new
                             \/ Untouched(t, level, inputs0, inputs1)
<1> DEFINE m == level + 1
<1>1. m # level
  BY NextLevel
<1>2. /\ Files(level)' = Files(level) \ inputs0 /\ Files(m)' = (Files(m) \ inputs1) \cup new
      /\ \A l \in Levels : l # level /\ l # m => Files(l)' = Files(l)
  BY <1>1 DEF After
<1>3. \A t : t \in Held <=> t \in mem \/ t \in imm \/ \E l \in Levels : \E g \in Files(l) : t \in g
  BY DEF Held, Stored
<1>4. \A t : t \in Held' <=> t \in mem \/ t \in imm \/ \E l \in Levels : \E g \in Files(l)' : t \in g
  BY DEF Held, Stored
<1> HIDE DEF m
<1>5. ASSUME NEW t \in Held', t \notin mem \cup imm, t \notin UNION new
      PROVE  Untouched(t, level, inputs0, inputs1)
  <2>1. PICK l \in Levels : \E g \in Files(l)' : t \in g
    BY <1>4, <1>5
  <2>2. PICK g \in Files(l)' : t \in g
    BY <2>1
  <2>3. g \in Files(l) /\ (l = level => g \notin inputs0) /\ (l = m => g \notin inputs1)
    BY <1>1, <1>2, <1>5, <2>2
  <2> QED
    BY <2>2, <2>3 DEF Untouched, m
<1>6. Held' \subseteq Held
  <2> SUFFICES ASSUME NEW t \in Held' PROVE t \in Held
    OBVIOUS
  <2>1. CASE t \in mem \cup imm
    BY <1>3, <2>1
  <2>2. CASE t \in UNION new
    <3>1. \E l \in Levels : \E g \in Files(l) : t \in g
      BY <2>2 DEF m
    <3> QED
      BY <1>3, <3>1
  <2> QED
    BY <1>3, <1>5, <2>1, <2>2 DEF Untouched
<1>7. ASSUME NEW n \in Held, n \in UNION new \/ n \notin UNION (inputs0 \cup inputs1) PROVE n \in Held'
  <2>1. CASE n \in UNION new
    <3>1. m \in Levels /\ \E g \in Files(m)' : n \in g
      BY <1>2, <2>1 DEF m
    <3> QED
      BY <1>4, <3>1
  <2>2. CASE n \in mem \cup imm
    BY <1>4, <2>2
  <2>3. CASE n \notin UNION (inputs0 \cup inputs1) /\ n \notin mem \cup imm
    <3>1. PICK l \in Levels : \E g \in Files(l) : n \in g
      BY <1>3, <2>3
    <3>2. PICK g \in Files(l) : n \in g
      BY <3>1
    <3>3. g \in Files(l)'
      BY <1>1, <1>2, <2>3, <3>2
    <3> QED
      BY <1>4, <3>2, <3>3
  <2> QED
    BY <1>7, <2>1, <2>2, <2>3
<1> QED
  BY <1>5, <1>6, <1>7 DEF m

\* What a compaction drops, no reader misses.
LEMMA DropIsSafe ==
  ASSUME TreeInv, Complete, NEW c, JobInv(c), NEW new,
         UNION new = {s \in MakeInputIterator(c) : ~Drop(c, s)},
         \A l \in Levels : Files(l)' = After(l, c.level, c.inputs0, c.inputs1, new),
         UNCHANGED <<hist, mem, imm, snapshots>>
  PROVE  Complete'
<1> DEFINE U == MakeInputIterator(c)
           m == c.level + 1
<1>1. /\ c.level \in Levels /\ m \in Levels /\ c.level < m
      /\ c.inputs0 \subseteq Files(c.level) /\ c.inputs1 \subseteq Files(m)
      /\ \A g \in Files(c.level) \ c.inputs0 : OlderThan(U, g)
      /\ \A g \in Files(m) \ c.inputs1 : OlderThan(U, g)
  BY NextLevel DEF JobInv, GoodInputs, MakeInputIterator
<1>2. U = UNION (c.inputs0 \cup c.inputs1)
  BY DEF MakeInputIterator
<1>3. UNION new \subseteq UNION (c.inputs0 \cup c.inputs1)
  BY <1>2
<1>4. /\ Held' \subseteq Held
      /\ \A n \in Held : n \in UNION new \/ n \notin UNION (c.inputs0 \cup c.inputs1) => n \in Held'
      /\ \A t \in Held' : \/ t \in mem \cup imm
                          \/ t \in UNION new
                          \/ Untouched(t, c.level, c.inputs0, c.inputs1)
  <2>1. UNCHANGED <<mem, imm>> /\ m = c.level + 1
    OBVIOUS
  <2> HIDE DEF m
  <2> QED
    BY <1>1, <1>3, <2>1, InstallHeld
<1> SUFFICES ASSUME NEW k \in Keys, NEW s \in snapshots \cup {Len(hist)}, NEW n \in Updates,
                    IsNewest(n, k, s), n \notin Held'
             PROVE  hist[n].type = "deletion" /\ \A t \in Held' : hist[t].key = k => n < t
  <2>1. Updates' = Updates /\ \A n, k, s : IsNewest(n, k, s)' = IsNewest(n, k, s)
    BY SameUpdates
  <2> QED
    BY <2>1 DEF Complete
<1>5. \/ n \in Held
      \/ hist[n].type = "deletion" /\ \A t \in Held : hist[t].key = k => n < t
  BY DEF Complete
<1>6. CASE n \notin Held
  BY <1>4, <1>5, <1>6
<1>7. CASE n \in Held
  <2>1. n \in U /\ Drop(c, n)
    BY <1>2, <1>4, <1>7
  <2>2. c.smallest_snapshot \in Nat /\ c.smallest_snapshot <= s /\ s \in Nat
    <3>1. Len(hist) \in Nat /\ snapshots \subseteq 0..Len(hist)
      BY DEF TreeInv, TreeType
    <3> QED
      BY <3>1 DEF JobInv
  <2>3. U \subseteq Stored(c.level) \cup Stored(m) /\ U \subseteq Updates
    <3>1. U \subseteq Stored(c.level) \cup Stored(m)
      BY <1>1, <1>2 DEF Stored
    <3>2. Stored(c.level) \subseteq Updates /\ Stored(m) \subseteq Updates
      BY <1>1, FileIsTable DEF Stored, TreeInv
    <3> QED
      BY <3>1, <3>2
  <2>4. n \in Updates /\ n <= s /\ hist[n].key = k /\ \A t \in Updates : t <= s /\ hist[t].key = k => t <= n
    BY DEF IsNewest
  <2> HIDE DEF U, m
  <2>5. TreeType
    BY DEF TreeInv
  <2>6. ~ \E t \in U : hist[t].key = hist[n].key /\ n < t /\ t <= c.smallest_snapshot
    <3> SUFFICES ASSUME NEW t \in U, hist[t].key = k, n < t, t <= c.smallest_snapshot PROVE FALSE
      BY <2>4
    <3>1. t \in Updates /\ t \in Nat /\ n \in Nat
      BY <2>3, <2>4, <2>5, UpdateType
    <3>2. t <= s
      BY <2>2, <3>1
    <3> QED
      BY <2>4, <3>1, <3>2
  <2>7. hist[n].type = "deletion" /\ n <= c.smallest_snapshot /\ IsBaseLevelForKey(c, k)
    BY <2>1, <2>4, <2>6 DEF Drop, U
  <2>8. ASSUME NEW t \in Held', hist[t].key = k PROVE n < t
    <3>1. CASE t \in mem \cup imm
      BY <1>1, <2>1, <2>3, <3>1 DEF TreeInv, Aged
    <3>2. CASE t \in UNION new
      <4>1. t \in U /\ ~Drop(c, t) /\ t \in Updates
        BY <2>3, <3>2 DEF U
      <4>2. ~(t < n)
        BY <2>1, <2>4, <2>7, <2>8, <4>1 DEF Drop, U
      <4>3. t # n
        BY <2>1, <4>1
      <4> QED
        BY <2>4, <2>5, <4>1, <4>2, <4>3, UpdateType
    <3>3. CASE Untouched(t, c.level, c.inputs0, c.inputs1)
      <4>1. PICK l \in Levels : \E g \in Files(l) :
                               /\ t \in g
                               /\ l = c.level => g \notin c.inputs0
                               /\ l = c.level + 1 => g \notin c.inputs1
        BY <3>3 DEF Untouched
      <4>2. PICK g \in Files(l) : /\ t \in g
                                  /\ l = c.level => g \notin c.inputs0
                                  /\ l = c.level + 1 => g \notin c.inputs1
        BY <4>1
      <4>0. c.level \in Nat /\ l \in Nat
        BY <1>1, LevelZero
      <4>3. CASE OlderThan(U, g)
        BY <2>1, <2>4, <2>8, <4>2, <4>3 DEF OlderThan
      <4>4. CASE l = c.level \/ l = m
        <5>1. OlderThan(U, g)
          BY <1>1, <4>2, <4>4 DEF m
        <5> QED
          BY <4>3, <5>1
      <4>5. CASE l < c.level
        <5>1. l < m
          BY <4>0, <4>5 DEF m
        <5>2. OlderThan(Stored(c.level), Stored(l)) /\ OlderThan(Stored(m), Stored(l))
          BY <1>1, <4>5, <5>1 DEF TreeInv, Layered
        <5>3. g \subseteq Stored(l)
          BY DEF Stored
        <5>4. OlderThan(U, g)
          BY <2>3, <5>2, <5>3 DEF OlderThan
        <5> QED
          BY <4>3, <5>4
      <4>6. CASE l >= c.level + 2
        <5>1. g \in Range(c.input_version[l]) \/ OlderThan(U, g)
          BY <4>6 DEF JobInv, U
        <5>2. CASE g \in Range(c.input_version[l])
          <6>1. l \in (c.level + 2)..(kNumLevels - 1)
            BY <1>1, <4>6, LevelZero DEF Levels
          <6>2. ~Overlaps(g, k, k)
            BY <2>7, <5>2, <6>1 DEF IsBaseLevelForKey
          <6>3. g \in Tables
            BY <2>5, FileIsTable
          <6>4. k \in Nat /\ k <= k
            BY LSMTreeAssumption DEF Keys
          <6>5. Overlaps(g, k, k)
            BY <2>5, <2>8, <4>2, <6>3, <6>4, OverlapsIs
          <6> QED
            BY <6>2, <6>5
        <5> QED
          BY <4>3, <5>1, <5>2
      <4>7. l < c.level \/ l = c.level \/ l = m \/ l >= c.level + 2
        BY <4>0 DEF m
      <4> QED
        BY <4>4, <4>5, <4>6, <4>7
    <3> QED
      BY <1>4, <3>1, <3>2, <3>3
  <2> QED
    BY <2>7, <2>8
<1> QED
  BY <1>6, <1>7

LEMMA FinishCompactionStep == ASSUME LSMInv, FinishCompaction PROVE LSMInv'
<1>1. TreeInv /\ Complete /\ Working /\ TreeType
  BY InvParts DEF TreeInv
<1>2. job # <<>> /\ job' = <<>> /\ UNCHANGED <<hist, mem, imm, has_imm, snapshots, bg_error>>
  BY DEF FinishCompaction
<1>3. PICK c \in Range(job) : job = <<c>> /\ JobInv(c)
  BY <1>1, <1>2 DEF Working
<1> DEFINE U == MakeInputIterator(c)
           kept == {s \in U : ~Drop(c, s)}
<1>4. PICK cuts \in SUBSET ShouldStopBefore(kept) :
        Install(c.level, <<c.inputs0, c.inputs1>>, Outputs(kept, cuts))
  <2>1. job[1] = c
    BY <1>3
  <2> QED
    BY <2>1, Zenon DEF FinishCompaction
<1>5. GoodInputs(c.level, c.inputs0, c.inputs1) /\ U = UNION (c.inputs0 \cup c.inputs1)
  BY <1>3 DEF JobInv, MakeInputIterator
<1>6. U \subseteq Updates
  <2>1. \A f \in c.inputs0 \cup c.inputs1 : f \subseteq Updates
    BY <1>1, <1>5, FileIsTable DEF GoodInputs
  <2> QED
    BY <1>5, <2>1
<1>7. kept \subseteq U /\ cuts \subseteq kept
  BY DEF ShouldStopBefore
<1> DEFINE new == Outputs(kept, cuts)
<1>8. new \subseteq Tables /\ IsFiniteSet(new) /\ Apart(new) /\ UNION new = kept
  <2> HIDE DEF kept, U
  <2> QED
    BY <1>1, <1>6, <1>7, OutputsAre
<1>9. UNION new \subseteq UNION (c.inputs0 \cup c.inputs1)
  BY <1>5, <1>7, <1>8
<1> HIDE DEF new
<1>10. TreeInv' /\ \A l \in Levels : Files(l)' = After(l, c.level, c.inputs0, c.inputs1, new)
  BY <1>1, <1>2, <1>4, <1>5, <1>8, <1>9, InstallKeeps DEF new
<1>11. Complete'
  BY <1>1, <1>2, <1>3, <1>8, <1>10, DropIsSafe
<1>12. Working'
  BY <1>2 DEF Working
<1> QED
  BY <1>10, <1>11, <1>12, InvParts, PTL

-----------------------------------------------------------------------------
(* The other steps.                                                         *)

\* The tables, the snapshots and what is held are as before.
LEMMA QuietStep ==
  ASSUME LSMInv, UNCHANGED <<hist, mem, imm, has_imm, files>>, bg_error' \in BOOLEAN,
         snapshots' \subseteq snapshots \cup {Len(hist)}, job' = job \/ job' = <<>>
  PROVE  LSMInv'
<1>1. TreeInv /\ Complete /\ Working /\ TreeType
  BY InvParts DEF TreeInv
<1>2. TreeInv' /\ Held' = Held
  <2>1. snapshots' \subseteq 0..Len(hist)
    <3>1. Len(hist) \in Nat /\ snapshots \subseteq 0..Len(hist)
      BY <1>1 DEF TreeType
    <3>2. Len(hist) \in 0..Len(hist)
      BY <3>1
    <3> QED
      BY <3>1, <3>2
  <2> QED
    BY <1>1, <2>1, SameTree
<1>3. Complete'
  BY <1>1, <1>2, CompleteStays
<1>4. Working'
  <2>1. CASE job' = job
    BY <1>1, <2>1, WorkStays
  <2>2. CASE job' = <<>>
    BY <2>2 DEF Working
  <2> QED
    BY <2>1, <2>2
<1> QED
  BY <1>2, <1>3, <1>4, InvParts, PTL

LEMMA SwitchStep == ASSUME LSMInv, SwitchMemTable PROVE LSMInv'
<1>1. TreeInv /\ Complete /\ Working /\ TreeType /\ Aged
  BY InvParts DEF TreeInv
<1>2. /\ imm' = mem /\ has_imm' = TRUE /\ mem' = {} /\ imm = {}
      /\ UNCHANGED <<hist, files, snapshots, job, bg_error>>
  BY <1>1 DEF SwitchMemTable, TreeType
<1>3. Updates' = Updates /\ Tables' = Tables /\ \A l \in Levels : Stored(l)' = Stored(l)
  BY <1>2 DEF Updates, Tables, Stored, Files
<1>4. TreeType'
  BY <1>1, <1>2, <1>3 DEF TreeType
<1>5. Aged'
  BY <1>1, <1>2, <1>3 DEF Aged
<1>6. Layered'
  BY <1>1, <1>2 DEF TreeInv, Layered, OlderThan, Stored, Files
<1>7. InKeyOrder'
  BY <1>1, <1>2 DEF TreeInv, InKeyOrder, Below, Before, Less, InternalKey
<1>8. Held' = Held
  BY <1>2 DEF Held, Stored, Files
<1>9. Complete'
  BY <1>1, <1>2, <1>8, CompleteStays
<1>10. Working'
  BY <1>1, <1>2, WorkStays
<1> QED
  BY <1>4, <1>5, <1>6, <1>7, <1>9, <1>10 DEF LSMInv

\* A write adds an update; what was there keeps its key.
LEMMA GrownHist ==
  ASSUME TreeType, NEW k \in Keys, NEW type \in {"value", "deletion"},
         hist' = Append(hist, [key |-> k, type |-> type])
  PROVE  /\ hist' \in Seq([key : Keys, type : {"value", "deletion"}]) /\ Len(hist') = Len(hist) + 1
         /\ Len(hist) \in Nat /\ Len(hist) + 1 \notin Updates
         /\ Updates \subseteq Updates' /\ Updates' = Updates \cup {Len(hist) + 1}
         /\ \A s \in Updates : hist'[s] = hist[s] /\ s < Len(hist) + 1
         /\ hist'[Len(hist) + 1].key = k /\ Tables \subseteq Tables'
<1> DEFINE E == [key : Keys, type : {"value", "deletion"}]
           e == [key |-> k, type |-> type]
           n == Len(hist)
<1>1. hist \in Seq(E) /\ e \in E /\ hist' = Append(hist, e) /\ e.key = k
  BY DEF TreeType
<1> HIDE DEF E, e
<1>2. /\ hist' \in Seq(E) /\ Len(hist') = n + 1 /\ n \in Nat /\ hist'[n + 1] = e
      /\ \A s \in 1..n : hist'[s] = hist[s]
  BY <1>1
<1> HIDE DEF n
<1>3. Updates = 1..n /\ Updates' = 1..(n + 1)
  BY <1>2 DEF Updates, n
<1>4. 1..(n + 1) = (1..n) \cup {n + 1} /\ n + 1 \notin 1..n /\ \A s \in 1..n : s < n + 1
  BY <1>2
<1>5. Tables \subseteq Tables'
  BY <1>3, <1>4 DEF Tables
<1> QED
  BY <1>1, <1>2, <1>3, <1>4, <1>5 DEF E, n

LEMMA WriteStep ==
  ASSUME LSMInv, NEW k \in Keys, NEW type \in {"value", "deletion"}, Write(k, type)
  PROVE  LSMInv'
<1> DEFINE m == Len(hist) + 1
<1>1. TreeType /\ Aged /\ Layered /\ InKeyOrder /\ Complete /\ Working
  BY DEF LSMInv
<1>2. /\ Len(hist) < MaxWrites /\ mem' = mem \cup {m}
      /\ hist' = Append(hist, [key |-> k, type |-> type])
      /\ UNCHANGED <<imm, has_imm, files, snapshots, job, bg_error>>
  BY DEF Write
<1>3. /\ hist' \in Seq([key : Keys, type : {"value", "deletion"}]) /\ Len(hist') = Len(hist) + 1
      /\ Len(hist) \in Nat /\ m \notin Updates
      /\ Updates \subseteq Updates' /\ Updates' = Updates \cup {m}
      /\ \A s \in Updates : hist'[s] = hist[s] /\ s < m
      /\ hist'[m].key = k /\ Tables \subseteq Tables'
  BY <1>1, <1>2, GrownHist
<1> HIDE DEF m
<1>4. TreeType'
  <2>1. Len(hist') <= MaxWrites /\ snapshots \subseteq 0..Len(hist')
    <3>1. MaxWrites \in Nat /\ snapshots \subseteq 0..Len(hist)
      BY <1>1, LSMTreeAssumption DEF TreeType
    <3> QED
      BY <1>2, <1>3, <3>1
  <2>2. mem' \subseteq Updates' /\ imm' \subseteq Updates'
    BY <1>1, <1>2, <1>3 DEF TreeType
  <2>3. files' \in [Levels -> Seq(Tables')]
    <3>1. files \in [Levels -> Seq(Tables)]
      BY <1>1 DEF TreeType
    <3>2. Seq(Tables) \subseteq Seq(Tables')
      BY <1>3
    <3> QED
      BY <1>2, <3>1, <3>2
  <2> QED
    BY <1>1, <1>2, <1>3, <2>1, <2>2, <2>3 DEF TreeType
<1>5. \A l \in Levels : Files(l)' = Files(l) /\ Stored(l)' = Stored(l) /\ Stored(l) \subseteq Updates
  <2>1. \A l \in Levels : Files(l)' = Files(l) /\ Stored(l)' = Stored(l)
    BY <1>2 DEF Files, Stored
  <2>2. \A l \in Levels : Stored(l) \subseteq Updates
    BY <1>1, FileIsTable DEF Stored
  <2> QED
    BY <2>1, <2>2
<1>6. mem \subseteq Updates /\ imm \subseteq Updates
  BY <1>1 DEF TreeType
<1>7. Aged'
  BY <1>1, <1>2, <1>3, <1>5, <1>6 DEF Aged
<1>8. Layered'
  <2> SUFFICES ASSUME NEW l \in Levels, NEW j \in Levels, l < j PROVE OlderThan(Stored(j), Stored(l))'
    BY DEF Layered
  <2>1. OlderThan(Stored(j), Stored(l))
    BY <1>1 DEF Layered
  <2> QED
    BY <1>3, <1>5, <2>1 DEF OlderThan
<1>9. ASSUME NEW f, NEW g, f \subseteq Updates, g \subseteq Updates
      PROVE  /\ Below(f, g)' <=> Below(f, g)
             /\ OlderThan(f, g)' <=> OlderThan(f, g)
             /\ \A j : Spans(f, j)' <=> Spans(f, j)
  BY <1>3, <1>9 DEF Below, Before, Less, InternalKey, OlderThan, Spans
<1>10. InKeyOrder'
  <2> SUFFICES ASSUME NEW l \in Levels \ {0}, NEW i \in DOMAIN files'[l], NEW j \in DOMAIN files'[l], i < j
               PROVE  Below(files[l][i], files[l][j])'
    BY DEF InKeyOrder
  <2>1. Below(files[l][i], files[l][j])
    BY <1>1, <1>2 DEF InKeyOrder
  <2>2. files[l][i] \subseteq Updates /\ files[l][j] \subseteq Updates
    BY <1>1, <1>2, FileAt DEF Tables
  <2>3. PICK f, g : f = files[l][i] /\ g = files[l][j]
    OBVIOUS
  <2>4. Below(f, g)'
    BY <1>9, <2>1, <2>2, <2>3
  <2>5. files'[l][i] = f /\ files'[l][j] = g
    BY <1>2, <2>3
  <2> QED
    BY <2>4, <2>5 DEF Below
<1>11. Held' = Held \cup {m} /\ Held \subseteq Updates
  <2>1. Held' = Held \cup {m}
    BY <1>2, <1>5 DEF Held
  <2> QED
    BY <1>5, <1>6, <2>1 DEF Held
<1>12. Complete'
  <2> SUFFICES ASSUME NEW j \in Keys, NEW s \in snapshots' \cup {Len(hist')}, NEW n \in Updates', IsNewest(n, j, s)',
                      n \notin Held'
               PROVE  hist'[n].type = "deletion" /\ \A t \in Held' : hist'[t].key = j => n < t
    BY DEF Complete
  <2>1. n \in Updates
    BY <1>3, <1>11
  <2>2. n <= s /\ hist'[n].key = j /\ \A t \in Updates' : t <= s /\ hist'[t].key = j => t <= n
    BY DEF IsNewest
  <2>3. PICK r : /\ r \in snapshots \cup {Len(hist)} /\ r \in Nat /\ n <= r /\ r <= s /\ s \in Nat
    <3>1. snapshots \subseteq 0..Len(hist) /\ n \in Nat /\ n <= Len(hist)
      BY <1>1, <1>3, <2>1, UpdateType DEF TreeType, Updates
    <3>2. CASE s \in snapshots
      BY <1>3, <2>2, <3>1, <3>2
    <3>3. CASE s = Len(hist')
      BY <1>3, <2>2, <3>1, <3>3
    <3> QED
      BY <1>2, <3>2, <3>3
  <2>4. IsNewest(n, j, r)
    <3>1. \A t \in Updates : t \in Nat /\ t \in Updates'
      BY <1>1, <1>3, UpdateType
    <3>2. \A t \in Updates : t <= r /\ hist[t].key = j => t <= n
      BY <1>3, <2>2, <2>3, <3>1
    <3> QED
      BY <1>3, <2>1, <2>2, <2>3, <3>2 DEF IsNewest
  <2>5. hist[n].type = "deletion" /\ \A t \in Held : hist[t].key = j => n < t
    BY <1>1, <1>11, <2>1, <2>3, <2>4 DEF Complete
  <2> QED
    BY <1>3, <1>11, <2>1, <2>5
<1>13. Working'
  <2>1. CASE job = <<>>
    BY <1>2, <2>1 DEF Working
  <2>2. CASE job # <<>>
    <3>1. PICK c \in Range(job) : job = <<c>> /\ JobInv(c)
      BY <1>1, <2>2 DEF Working
    <3> DEFINE U == UNION (c.inputs0 \cup c.inputs1)
               q == c.level + 1
    <3>2. GoodInputs(c.level, c.inputs0, c.inputs1) /\ MakeInputIterator(c) = U
      BY <3>1 DEF JobInv, MakeInputIterator
    <3>3. /\ c.level \in Levels /\ q \in Levels
          /\ c.inputs0 \subseteq Files(c.level) /\ c.inputs1 \subseteq Files(q) /\ c.inputs0 # {}
          /\ \A g \in Files(c.level) \ c.inputs0 : OlderThan(U, g)
          /\ \A g \in Files(q) \ c.inputs1 : OlderThan(U, g) /\ (Below(g, U) \/ Below(U, g))
      BY <3>2 DEF GoodInputs
    <3>4. (\A f \in c.inputs0 \cup c.inputs1 : f \subseteq Updates) /\ U \subseteq Updates
      BY <1>1, <3>3, FileIsTable
    <3> HIDE DEF U, q
    <3>5. \A l \in Levels : \A g \in Files(l) : g \subseteq Updates
      BY <1>1, FileIsTable
    <3>6. /\ \A g \in Files(c.level)' \ c.inputs0 : OlderThan(U, g)'
          /\ \A g \in Files(q)' \ c.inputs1 : OlderThan(U, g)' /\ (Below(g, U)' \/ Below(U, g)')
      BY <1>5, <1>9, <3>3, <3>4, <3>5
    <3>7. GoodInputs(c.level, c.inputs0, c.inputs1)'
      BY <1>5, <3>3, <3>6 DEF GoodInputs, U, q
    <3>8. ASSUME NEW l \in Levels, l >= c.level + 2, NEW g \in Files(l)'
          PROVE  g \in Range(c.input_version[l]) \/ OlderThan(MakeInputIterator(c), g)'
      <4>1. g \in Range(c.input_version[l]) \/ OlderThan(U, g)
        BY <1>5, <3>1, <3>2, <3>8 DEF JobInv
      <4>2. OlderThan(U, g) => OlderThan(U, g)'
        BY <1>5, <1>9, <3>4, <3>5
      <4> QED
        BY <4>1, <4>2 DEF MakeInputIterator, U
    <3>9. c.kind \in FlushDuring => Covered(c.inputs0 \cup c.inputs1)'
      <4> SUFFICES ASSUME c.kind \in FlushDuring, NEW j \in Keys, Spans(UNION (c.inputs0 \cup c.inputs1), j)'
                   PROVE  \E f \in c.inputs0 \cup c.inputs1 : Spans(f, j)'
        BY DEF Covered
      <4>1. Covered(c.inputs0 \cup c.inputs1)
        BY <3>1 DEF JobInv
      <4>2. Spans(UNION (c.inputs0 \cup c.inputs1), j)
        BY <1>9, <3>4 DEF U
      <4>3. PICK f \in c.inputs0 \cup c.inputs1 : Spans(f, j)
        BY <4>1, <4>2 DEF Covered
      <4>4. Spans(f, j)'
        BY <1>9, <3>4, <4>3
      <4> QED
        BY <4>4
    <3>10. c.input_version \in [Levels -> Seq(Tables')]
      <4>1. c.input_version \in [Levels -> Seq(Tables)]
        BY <3>1 DEF JobInv
      <4>2. Seq(Tables) \subseteq Seq(Tables')
        BY <1>3
      <4> QED
        BY <4>1, <4>2
    <3>11. /\ c.kind \in {"automatic", "manual"} /\ (c.kind = "manual" => ManualRanges # {})
           /\ c.smallest_snapshot \in 0..Len(hist') /\ \A s \in snapshots' : c.smallest_snapshot <= s
      BY <1>2, <1>3, <3>1 DEF JobInv
    <3>12. JobInv(c)'
      BY <3>7, <3>8, <3>9, <3>10, <3>11 DEF JobInv
    <3> QED
      BY <1>2, <3>1, <3>12 DEF Working
  <2> QED
    BY <2>1, <2>2
<1> QED
  BY <1>4, <1>7, <1>8, <1>10, <1>12, <1>13 DEF LSMInv

LEMMA InitStep == ASSUME Init PROVE LSMInv
<1>1. /\ hist = <<>> /\ Len(hist) = 0 /\ Updates = {} /\ mem = {} /\ imm = {} /\ has_imm = FALSE
      /\ snapshots = {} /\ job = <<>> /\ bg_error = FALSE /\ MaxWrites \in Nat
      /\ files = [level \in Levels |-> <<>>]
  BY LSMTreeAssumption DEF Init, Updates
<1>2. \A level \in Levels : files[level] = <<>> /\ files[level] \in Seq(Tables)
  BY <1>1
<1>3. \A level \in Levels : DOMAIN files[level] = {} /\ Stored(level) = {}
  BY <1>2 DEF Stored, Files, Range
<1>4. TreeType
  <2>1. files \in [Levels -> Seq(Tables)]
    BY <1>1, <1>2
  <2>2. hist \in Seq([key : Keys, type : {"value", "deletion"}]) /\ Len(hist) <= MaxWrites
    BY <1>1
  <2> QED
    BY <1>1, <2>1, <2>2 DEF TreeType
<1>5. Aged
  BY <1>1, <1>3, LevelZero DEF Aged
<1>6. Layered /\ InKeyOrder
  BY <1>3 DEF Layered, InKeyOrder, OlderThan
<1>7. Complete /\ Working
  BY <1>1 DEF Complete, Working
<1> QED
  BY <1>4, <1>5, <1>6, <1>7 DEF LSMInv

LEMMA NextStep == ASSUME QuietManual, LSMInv, [Next]_vars PROVE LSMInv'
<1>1. ASSUME NEW k \in Keys, NEW type \in {"value", "deletion"}, Write(k, type) PROVE LSMInv'
  BY <1>1, WriteStep
<1>2. CASE CompactMemTableFails
  BY <1>2, QuietStep DEF CompactMemTableFails
<1>3. CASE CompactionFails
  BY <1>3, QuietStep DEF CompactionFails
<1>4. CASE GetSnapshot
  <2>1. bg_error' \in BOOLEAN
    BY <1>4 DEF GetSnapshot, LSMInv, TreeType
  <2> QED
    BY <1>4, <2>1, QuietStep DEF GetSnapshot, last_sequence
<1>5. ASSUME NEW s \in snapshots, ReleaseSnapshot(s) PROVE LSMInv'
  <2>1. bg_error' \in BOOLEAN
    BY <1>5 DEF ReleaseSnapshot, LSMInv, TreeType
  <2> QED
    BY <1>5, <2>1, QuietStep DEF ReleaseSnapshot
<1>6. CASE UNCHANGED vars
  <2>1. bg_error' \in BOOLEAN
    BY <1>6 DEF vars, LSMInv, TreeType
  <2> QED
    BY <1>6, <2>1, QuietStep DEF vars
<1> QED
  BY <1>1, <1>2, <1>3, <1>4, <1>5, <1>6, SwitchStep, CompactMemTableStep,
     AutomaticCompactionStep, ManualCompactionStep, FinishCompactionStep DEF Next

THEOREM LSMInvariant == ASSUME QuietManual PROVE Spec => []LSMInv
<1>1. Init => LSMInv
  BY InitStep
<1>2. LSMInv /\ [Next]_vars => LSMInv'
  BY NextStep
<1> QED
  BY <1>1, <1>2, PTL DEF Spec

-----------------------------------------------------------------------------
(* What the invariant says of the tree.                                     *)

\* Every variable keeps its type: a file of a version is never empty, only
\* updates that were written are held, no snapshot lies in the future, there
\* is no memtable behind an unset has_imm_ and at most one compaction runs.
THEOREM TypeCorrect == ASSUME QuietManual PROVE Spec => []TypeOK
<1>1. ASSUME LSMInv PROVE TypeOK
  <2>1. TreeType /\ Working
    BY <1>1 DEF LSMInv
  <2>2. Len(job) <= 1
    <3>1. job = <<>> \/ \E c : job = <<c>>
      BY <2>1 DEF Working
    <3>2. CASE job = <<>>
      BY <3>2
    <3>3. ASSUME NEW c, job = <<c>> PROVE Len(job) <= 1
      BY <3>3
    <3> QED
      BY <3>1, <3>2, <3>3
  <2> QED
    BY <2>1, <2>2 DEF TreeType, TypeOK, last_sequence, Updates, Tables
<1> QED
  BY <1>1, LSMInvariant, PTL

\* The files of a level below 0 never overlap in internal keys, whatever
\* flushes and compactions install: FindFile's bisection is sound.
THEOREM LevelsStayDisjoint == ASSUME QuietManual PROVE Spec => []LevelsDisjoint
<1>1. ASSUME LSMInv PROVE LevelsDisjoint
  <2> SUFFICES ASSUME NEW level \in 1..(kNumLevels - 1), NEW f \in Files(level), NEW g \in Files(level), f # g
               PROVE  Less(largest(f), smallest(g)) \/ Less(largest(g), smallest(f))
    BY DEF LevelsDisjoint
  <2>1. level \in Levels \ {0}
    BY LevelZero DEF Levels
  <2>2. TreeType /\ InKeyOrder
    BY <1>1 DEF LSMInv
  <2>3. Below(f, g) \/ Below(g, f)
    BY <2>1, <2>2, LevelApart DEF Apart
  <2>4. f \in Tables /\ g \in Tables
    BY <2>1, <2>2, FileIsTable
  <2> QED
    BY <2>2, <2>3, <2>4, BelowIsLess
<1> QED
  BY <1>1, LSMInvariant, PTL

\* Update t is in the place that is looked at in the given turn.
InPlace(turn, t) ==
  \/ turn = 0 /\ t \in mem
  \/ turn = 1 /\ t \in imm
  \/ \E i \in 1..Len(files[0]) : turn = 2 + Len(files[0]) - i /\ t \in files[0][i]
  \/ \E l \in Levels \ {0} : turn = 2 + Len(files[0]) + l /\ t \in Stored(l)

LEMMA PlaceIs ==
  ASSUME TreeType, NEW turn, NEW t, InPlace(turn, t)
  PROVE  turn \in Nat /\ t \in Updates /\ t \in Nat /\ t \in Held
<1>1. Len(files[0]) \in Nat /\ \A i \in 1..Len(files[0]) : files[0][i] \in Files(0)
  BY LevelZero, FileAt
<1>2. turn \in Nat
  BY <1>1, LevelZero DEF InPlace
<1>3. mem \subseteq Updates /\ imm \subseteq Updates /\ \A l \in Levels : Stored(l) \subseteq Updates
  BY FileIsTable DEF TreeType, Stored
<1>4. t \in Held
  BY <1>1, LevelZero DEF InPlace, Held, Stored
<1>5. t \in Updates
  BY <1>3, <1>4 DEF Held
<1> QED
  BY <1>2, <1>4, <1>5, UpdateType

\* What is looked at first is newer.
LEMMA TurnOrder ==
  ASSUME TreeType, Aged, Layered, NEW a, NEW b, NEW s, NEW t, InPlace(a, s), InPlace(b, t), a < b,
         hist[s].key = hist[t].key
  PROVE  t < s
<1> DEFINE N == Len(files[0])
<1>1. /\ N \in Nat /\ (\A i \in 1..N : files[0][i] \in Files(0)) /\ DOMAIN files[0] = 1..N
      /\ 0 \in Levels /\ \A l \in Levels : l \in Nat
  BY LevelZero, FileAt
<1>2. a \in Nat /\ b \in Nat /\ s \in Nat /\ t \in Nat
  BY PlaceIs
<1>3. \A i \in 1..N : \A u \in files[0][i] : u \in Stored(0)
  BY <1>1 DEF Stored
<1>4. \A l, m \in Levels : \A u \in Stored(l), v \in Stored(m) : l < m /\ hist[u].key = hist[v].key => v < u
  BY DEF Layered, OlderThan
<1>5. /\ \A u \in mem, v \in imm : v < u
      /\ \A l \in Levels : \A v \in Stored(l) : (\A u \in mem : v < u) /\ (\A u \in imm : v < u)
      /\ \A i, j \in 1..N : i < j => \A u \in files[0][i], v \in files[0][j] : u < v
  BY <1>1 DEF Aged
<1>6. \/ b = 1 /\ t \in imm
      \/ \E j \in 1..N : b = 2 + N - j /\ t \in files[0][j]
      \/ \E l \in Levels \ {0} : b = 2 + N + l /\ t \in Stored(l)
  BY <1>2 DEF InPlace
<1>7. t \in imm \/ \E l \in Levels : t \in Stored(l)
  BY <1>1, <1>3, <1>6
<1>8. CASE a = 0 /\ s \in mem
  BY <1>5, <1>7, <1>8
<1>9. CASE a = 1 /\ s \in imm
  BY <1>1, <1>2, <1>3, <1>5, <1>6, <1>9
<1>10. ASSUME NEW i \in 1..N, a = 2 + N - i, s \in files[0][i] PROVE t < s
  <2>1. ~(b = 1)
    BY <1>1, <1>2, <1>10
  <2>2. CASE \E j \in 1..N : b = 2 + N - j /\ t \in files[0][j]
    BY <1>1, <1>2, <1>5, <1>10, <2>2
  <2>3. CASE \E l \in Levels \ {0} : b = 2 + N + l /\ t \in Stored(l)
    <3>1. PICK l \in Levels \ {0} : t \in Stored(l)
      BY <2>3
    <3>2. 0 < l /\ s \in Stored(0)
      BY <1>1, <1>3, <1>10
    <3> QED
      BY <1>1, <1>4, <3>1, <3>2
  <2> QED
    BY <1>6, <2>1, <2>2, <2>3
<1>11. ASSUME NEW l \in Levels \ {0}, a = 2 + N + l, s \in Stored(l) PROVE t < s
  <2>1. PICK m \in Levels \ {0} : b = 2 + N + m /\ t \in Stored(m)
    BY <1>1, <1>2, <1>6, <1>11
  <2>2. l < m
    BY <1>1, <1>11, <2>1
  <2> QED
    BY <1>4, <1>11, <2>1, <2>2
<1> QED
  BY <1>8, <1>9, <1>10, <1>11 DEF InPlace

OneAfterTheOther(S, p, q) ==
  /\ p \o q \in Seq(S) /\ Len(p \o q) = Len(p) + Len(q)
  /\ DOMAIN (p \o q) = 1..(Len(p) + Len(q)) /\ Len(p) \in Nat /\ Len(q) \in Nat
  /\ \A j \in 1..Len(p) : (p \o q)[j] = p[j]
  /\ \A j \in 1..Len(q) : (p \o q)[Len(p) + j] = q[j]

LEMMA Joined ==
  ASSUME NEW S, NEW p \in Seq(S), NEW q \in Seq(S)
  PROVE  OneAfterTheOther(S, p, q)
<1>1. Len(p) \in Nat /\ Len(q) \in Nat
  OBVIOUS
<1>2. p \o q \in Seq(S) /\ Len(p \o q) = Len(p) + Len(q)
  OBVIOUS
<1>3. DOMAIN (p \o q) = 1..(Len(p) + Len(q))
  BY <1>2
<1>4. \A j \in 1..Len(p) : (p \o q)[j] = p[j]
  BY <1>1
<1>5. ASSUME NEW j \in 1..Len(q) PROVE (p \o q)[Len(p) + j] = q[j]
  <2>1. Len(p) + j \in 1..(Len(p) + Len(q)) /\ Len(p) + j > Len(p) /\ (Len(p) + j) - Len(p) = j
    BY <1>1
  <2> QED
    BY <1>1, <2>1
<1> QED
  BY <1>1, <1>2, <1>3, <1>4, <1>5 DEF OneAfterTheOther

\* The places of NewerAbove, by their turns.
LEMMA PlacesAre ==
  ASSUME TreeType, NEW i \in DOMAIN Places, NEW s \in Places[i]
  PROVE  i \in Nat /\ InPlace(IF i <= 2 + Len(files[0]) THEN i - 1 ELSE i, s)
<1> DEFINE N == Len(files[0])
           L == kNumLevels - 1
           S == SUBSET Updates
           A == <<mem, imm>>
           B == Reverse(files[0])
           C == [level \in 1..L |-> UNION Files(level)]
<1>1. N \in Nat /\ files[0] \in Seq(Tables) /\ \A j \in 1..N : files[0][j] \in Tables
  BY LevelZero, FileAt
<1>2. L \in Nat /\ \A l \in 1..L : l \in Levels \ {0}
  BY LSMTreeAssumption, LevelZero DEF Levels
<1>3. A \in Seq(S) /\ Len(A) = 2 /\ A[1] = mem /\ A[2] = imm
  BY DEF TreeType
<1>4. B = [j \in 1..N |-> files[0][(N - j) + 1]]
  BY DEF Reverse
<1>5. B \in Seq(S) /\ Len(B) = N /\ \A j \in 1..N : B[j] = files[0][(N - j) + 1]
  <2>1. \A j \in 1..N : files[0][(N - j) + 1] \in S
    BY <1>1 DEF Tables
  <2> HIDE DEF N, S, B
  <2> QED
    BY <1>1, <1>4, <2>1
<1>6. C \in Seq(S) /\ Len(C) = L /\ \A l \in 1..L : C[l] = Stored(l)
  <2>1. \A l \in 1..L : Stored(l) \in S
    BY <1>2, FileIsTable DEF Stored
  <2>2. C = [l \in 1..L |-> Stored(l)]
    BY DEF Stored
  <2> HIDE DEF L, S, C
  <2> QED
    BY <1>2, <2>1, <2>2
<1>7. Places = A \o B \o C
  BY DEF Places
<1> HIDE DEF N, L, S, A, B, C
<1>8. /\ A \o B \in Seq(S) /\ Len(A \o B) = 2 + N
      /\ \A j \in 1..2 : (A \o B)[j] = A[j]
      /\ \A j \in 1..N : (A \o B)[2 + j] = B[j]
  <2>1. OneAfterTheOther(S, A, B)
    BY <1>3, <1>5, Joined
  <2> QED
    BY <1>3, <1>5, <2>1 DEF OneAfterTheOther
<1>9. PICK D : D = A \o B
  OBVIOUS
<1>10. /\ Places \in Seq(S) /\ DOMAIN Places = 1..(2 + N + L)
       /\ \A j \in 1..(2 + N) : Places[j] = D[j]
       /\ \A l \in 1..L : Places[2 + N + l] = C[l]
  <2>1. Places = D \o C /\ D \in Seq(S) /\ Len(D) = 2 + N
    BY <1>7, <1>8, <1>9
  <2>2. OneAfterTheOther(S, D, C)
    BY <1>6, <2>1, Joined
  <2> QED
    BY <1>6, <2>1, <2>2 DEF OneAfterTheOther
<1>11. i \in Nat /\ i >= 1 /\ i <= 2 + N + L
  BY <1>1, <1>2, <1>10
<1>12. CASE i <= 2
  <2>1. i \in 1..2 /\ Places[i] = A[i] /\ i <= 2 + N
    BY <1>1, <1>8, <1>9, <1>10, <1>11, <1>12
  <2>2. (i = 1 /\ s \in mem /\ i - 1 = 0) \/ (i = 2 /\ s \in imm /\ i - 1 = 1)
    BY <1>3, <2>1
  <2> QED
    BY <1>11, <2>1, <2>2 DEF InPlace, N
<1>13. CASE i > 2 /\ i <= 2 + N
  <2>1. PICK j : j \in 1..N /\ i = 2 + j
    <3>1. i - 2 \in 1..N /\ i = 2 + (i - 2)
      BY <1>1, <1>11, <1>13
    <3> QED
      BY <3>1
  <2> DEFINE m == (N - j) + 1
  <2>2. m \in 1..N /\ i - 1 = 2 + N - m
    BY <1>1, <2>1
  <2>3. Places[i] = files[0][m]
    <3>1. i \in 1..(2 + N)
      BY <1>1, <1>11, <1>13
    <3>2. Places[i] = B[j]
      BY <1>8, <1>9, <1>10, <2>1, <3>1
    <3> QED
      BY <1>5, <2>1, <3>2
  <2> HIDE DEF m
  <2> QED
    BY <1>11, <1>13, <2>2, <2>3 DEF InPlace, N
<1>14. CASE i > 2 + N
  <2> DEFINE l == i - (2 + N)
  <2>1. l \in 1..L /\ i = 2 + N + l /\ ~(i <= 2 + N)
    BY <1>1, <1>2, <1>11, <1>14
  <2>2. Places[i] = Stored(l) /\ l \in Levels \ {0}
    BY <1>2, <1>6, <1>10, <2>1
  <2> HIDE DEF l
  <2> QED
    BY <1>11, <2>1, <2>2 DEF InPlace, N
<1> QED
  BY <1>1, <1>11, <1>12, <1>13, <1>14

\* No update of a key is ever looked at before a newer one: Get may return
\* the first hit, in whatever order tables were flushed, moved and merged.
THEOREM NewerStaysAbove == ASSUME QuietManual PROVE Spec => []NewerAbove
<1>1. ASSUME LSMInv PROVE NewerAbove
  <2> SUFFICES ASSUME NEW i \in DOMAIN Places, NEW j \in DOMAIN Places, i < j,
                      NEW s \in Places[i], NEW t \in Places[j], hist[s].key = hist[t].key
               PROVE  s > t
    BY DEF NewerAbove
  <2> DEFINE N == Len(files[0])
             a == IF i <= 2 + N THEN i - 1 ELSE i
             b == IF j <= 2 + N THEN j - 1 ELSE j
  <2>1. TreeType /\ Aged /\ Layered /\ N \in Nat
    BY <1>1, LevelZero, FileAt DEF LSMInv
  <2>2. i \in Nat /\ j \in Nat /\ InPlace(a, s) /\ InPlace(b, t)
    BY <2>1, PlacesAre
  <2>3. a < b
    BY <2>1, <2>2
  <2>4. s \in Nat /\ t \in Nat
    BY <2>1, <2>2, PlaceIs
  <2> HIDE DEF a, b
  <2>5. t < s
    BY <2>1, <2>2, <2>3, TurnOrder
  <2> QED
    BY <2>4, <2>5
<1> QED
  BY <1>1, LSMInvariant, PTL

-----------------------------------------------------------------------------
(* Reading.                                                                 *)

\* A hit of a lookup: the turn and what the place looked at then answers.
HitAt(h, k, s) ==
  \/ h[1] = 0 /\ h[2] \in Seek(mem, k, s)
  \/ h[1] = 1 /\ h[2] \in Seek(imm, k, s)
  \/ \E i \in 1..Len(files[0]) : h[1] = 2 + Len(files[0]) - i /\ h[2] \in Seek(files[0][i], k, s)
  \/ \E l \in Levels \ {0} :
       /\ FindFile(l, <<k, s>>) + 1 \in 1..Len(files[l])
       /\ h[1] = 2 + Len(files[0]) + l /\ h[2] \in Seek(files[l][FindFile(l, <<k, s>>) + 1], k, s)

LEMMA HitsAre ==
  ASSUME TreeType, NEW k, NEW s, NEW h \in Hits(k, s)
  PROVE  HitAt(h, k, s)
<1>1. \A l \in Levels : DOMAIN files[l] = 1..Len(files[l])
  BY FileAt
<1>2. CASE h \in {<<0, t>> : t \in Seek(mem, k, s)}
  BY <1>2 DEF HitAt
<1>3. CASE h \in {<<1, t>> : t \in IF has_imm THEN Seek(imm, k, s) ELSE {}}
  BY <1>3 DEF HitAt
<1>4. CASE h \in UNION {{<<Turn(p[1], p[2]), t>> : t \in Seek(files[p[1]][p[2]], k, s)} :
                          p \in ForEachOverlapping(k, s)}
  <2>1. PICK p \in ForEachOverlapping(k, s) :
               h \in {<<Turn(p[1], p[2]), t>> : t \in Seek(files[p[1]][p[2]], k, s)}
    BY <1>4
  <2>2. h[1] = Turn(p[1], p[2]) /\ h[2] \in Seek(files[p[1]][p[2]], k, s)
    BY <2>1
  <2>3. /\ p \in UNION {{level} \X DOMAIN files[level] : level \in Levels}
        /\ p[1] # 0 => p[2] = FindFile(p[1], <<k, s>>) + 1
    BY <2>1 DEF ForEachOverlapping
  <2>4. p[1] \in Levels /\ p[2] \in DOMAIN files[p[1]]
    BY <2>3
  <2>5. CASE p[1] = 0
    BY <1>1, <2>2, <2>4, <2>5 DEF HitAt, Turn
  <2>6. CASE p[1] # 0
    BY <1>1, <2>2, <2>3, <2>4, <2>6 DEF HitAt, Turn
  <2> QED
    BY <2>5, <2>6
<1> QED
  BY <1>2, <1>3, <1>4 DEF Hits

LEMMA HitIs ==
  ASSUME TreeType, NEW k, NEW s, NEW h, HitAt(h, k, s)
  PROVE  InPlace(h[1], h[2]) /\ hist[h[2]].key = k /\ h[2] <= s
<1>1. \A E : \A t \in Seek(E, k, s) : t \in E /\ hist[t].key = k /\ t <= s
  BY DEF Seek
<1>2. ASSUME NEW l \in Levels \ {0}, NEW i \in 1..Len(files[l]) PROVE files[l][i] \subseteq Stored(l)
  BY FileAt DEF Stored
<1>3. InPlace(h[1], h[2])
  BY <1>1, <1>2 DEF HitAt, InPlace
<1>4. hist[h[2]].key = k /\ h[2] <= s
  BY <1>1 DEF HitAt
<1> QED
  BY <1>3, <1>4

\* Two hits of one turn are the same.
LEMMA OneHitPerTurn ==
  ASSUME TreeType, NEW k, NEW s, NEW h, NEW g, HitAt(h, k, s), HitAt(g, k, s), h[1] = g[1]
  PROVE  h[2] = g[2]
<1> DEFINE N == Len(files[0])
<1>1. N \in Nat /\ Levels \subseteq Nat
  BY LevelZero, FileAt
<1>2. h[2] \in Nat /\ g[2] \in Nat
  BY HitIs, PlaceIs
<1>3. ASSUME NEW E, h[2] \in Seek(E, k, s), g[2] \in Seek(E, k, s) PROVE h[2] = g[2]
  BY <1>2, <1>3 DEF Seek
<1>4. CASE h[1] = 0 /\ h[2] \in Seek(mem, k, s)
  BY <1>1, <1>3, <1>4 DEF HitAt
<1>5. CASE h[1] = 1 /\ h[2] \in Seek(imm, k, s)
  BY <1>1, <1>3, <1>5 DEF HitAt
<1>6. ASSUME NEW i \in 1..N, h[1] = 2 + N - i, h[2] \in Seek(files[0][i], k, s) PROVE h[2] = g[2]
  <2>1. PICK j \in 1..N : g[1] = 2 + N - j /\ g[2] \in Seek(files[0][j], k, s)
    BY <1>1, <1>6 DEF HitAt
  <2>2. i = j
    <3>1. 2 + N - i = 2 + N - j
      BY <1>6, <2>1
    <3> HIDE DEF N
    <3> QED
      BY <1>1, <3>1
  <2> QED
    BY <1>3, <1>6, <2>1, <2>2
<1>7. ASSUME NEW l \in Levels \ {0}, h[1] = 2 + N + l, h[2] \in Seek(files[l][FindFile(l, <<k, s>>) + 1], k, s)
      PROVE  h[2] = g[2]
  <2>1. PICK m \in Levels \ {0} : g[1] = 2 + N + m /\ g[2] \in Seek(files[m][FindFile(m, <<k, s>>) + 1], k, s)
    BY <1>1, <1>7 DEF HitAt
  <2>2. l = m
    <3>1. 2 + N + l = 2 + N + m /\ l \in Nat /\ m \in Nat
      BY <1>1, <1>7, <2>1
    <3> HIDE DEF N
    <3> QED
      BY <1>1, <3>1
  <2> QED
    BY <1>3, <1>7, <2>1, <2>2
<1> QED
  BY <1>4, <1>5, <1>6, <1>7 DEF HitAt

\* The newest update a reader may see is hit wherever it is held; below level 0
\* FindFile names its file, even where the key goes on from the file before.
LEMMA NewestIsHit ==
  ASSUME TreeType, InKeyOrder, NEW k \in Keys, NEW s \in Nat, NEW n, IsNewest(n, k, s), n \in Held
  PROVE  \E turn : <<turn, n>> \in Hits(k, s)
<1>1. /\ n \in Updates /\ n \in Nat /\ n <= s /\ hist[n].key = k /\ k \in Nat
      /\ \A t \in Updates : t <= s /\ hist[t].key = k => t <= n
  BY UpdateType DEF IsNewest
<1>2. ASSUME NEW E, E \subseteq Updates, n \in E PROVE n \in Seek(E, k, s)
  BY <1>1, <1>2 DEF Seek
<1>3. CASE n \in mem
  BY <1>2, <1>3 DEF TreeType, Hits
<1>4. CASE n \in imm
  BY <1>2, <1>4 DEF TreeType, Hits
<1>5. ASSUME NEW l \in Levels, n \in Stored(l) PROVE \E turn : <<turn, n>> \in Hits(k, s)
  <2>1. PICK i \in 1..Len(files[l]) : n \in files[l][i]
    BY <1>5, FileAt DEF Stored
  <2> DEFINE f == files[l][i]
  <2>2. f \in Tables /\ f \subseteq Updates /\ f \in Files(l) /\ DOMAIN files[l] = 1..Len(files[l])
    BY FileAt, FileIsTable
  <2>3. user_begin(f) <= k /\ k <= user_end(f)
    BY <1>1, <2>1, <2>2, UserRange
  <2>4. l # 0 => i = FindFile(l, <<k, s>>) + 1
    <3> SUFFICES ASSUME l # 0 PROVE i = FindFile(l, <<k, s>>) + 1
      OBVIOUS
    <3> DEFINE x == FindFile(l, <<k, s>>)
               M == Passed(l, <<k, s>>)
               size == Len(files[l])
    <3>1. Splits(x, 0, size, M) /\ size \in Nat /\ i \in Nat
      BY <1>1, FindFileFinds, FileAt
    <3>2. i \notin M
      <4>1. PICK u \in f : largest(f) = InternalKey(u) /\ \A t \in f \ {u} : Before(t, u)
        BY <2>2, Largest
      <4>2. u = n \/ hist[n].key < hist[u].key \/ (hist[n].key = hist[u].key /\ n > u)
        BY <2>1, <4>1, BeforeIs
      <4>3. u \in Nat /\ hist[u].key \in Nat
        BY <2>2, <4>1, UpdateType
      <4>4. ~Less(InternalKey(u), <<k, s>>)
        BY <1>1, <4>2, <4>3, KeyIs
      <4> QED
        BY <4>1, <4>4 DEF Passed
    <3>3. ASSUME NEW j \in 1..size, j < i PROVE j \in M
      <4>1. files[l][j] \in Tables /\ files[l][j] \subseteq Updates
        BY FileAt, FileIsTable
      <4>2. Below(files[l][j], f)
        BY <2>2, <3>3 DEF InKeyOrder
      <4>3. PICK u \in files[l][j] : largest(files[l][j]) = InternalKey(u)
        BY <4>1, Largest
      <4>4. Before(u, n) /\ u \in Updates
        BY <2>1, <4>1, <4>2, <4>3 DEF Below
      <4>5. u \in Nat /\ hist[u].key \in Nat /\ (hist[u].key < k \/ (hist[u].key = k /\ u > n))
        BY <1>1, <4>4, BeforeIs, UpdateType
      <4>6. hist[u].key < k \/ (hist[u].key = k /\ u > s)
        BY <1>1, <4>4, <4>5
      <4>7. Less(InternalKey(u), <<k, s>>)
        BY <4>6, KeyIs
      <4> QED
        BY <4>3, <4>7 DEF Passed
    <3>4. x \in 0..size /\ (\A j \in 1..x : j \in M) /\ (x < size => x + 1 \notin M)
      BY <3>1 DEF Splits
    <3> HIDE DEF x, M, size
    <3>5. x < i
      BY <2>1, <3>1, <3>2, <3>4
    <3>6. i <= x + 1
      <4> SUFFICES ASSUME x + 1 < i PROVE FALSE
        BY <3>1, <3>4
      <4>1. x + 1 \in 1..size /\ x < size
        BY <2>1, <3>1, <3>4 DEF size
      <4> QED
        BY <3>3, <3>4, <4>1
    <3> QED
      BY <3>1, <3>4, <3>5, <3>6 DEF x
  <2>5. PICK p : p = <<l, i>>
    OBVIOUS
  <2>6. p \in ForEachOverlapping(k, s)
    <3>1. p[1] = l /\ p[2] = i /\ p \in UNION {{level} \X DOMAIN files[level] : level \in Levels}
      BY <2>1, <2>2, <2>5
    <3> QED
      BY <2>3, <2>4, <3>1 DEF ForEachOverlapping
  <2>7. n \in Seek(files[p[1]][p[2]], k, s)
    BY <1>2, <2>1, <2>2, <2>5
  <2> QED
    BY <2>6, <2>7 DEF Hits
<1> QED
  BY <1>3, <1>4, <1>5 DEF Held

\* The first hit is the newest update the reader may see.
LEMMA FirstHitDecides ==
  ASSUME LSMInv, NEW k \in Keys, NEW s \in Nat, NEW n, IsNewest(n, k, s), n \in Held
  PROVE  Get(k, s) = IF hist[n].type = "deletion" THEN NotFound ELSE n
<1>1. TreeType /\ Aged /\ Layered /\ InKeyOrder
  BY DEF LSMInv
<1> DEFINE hits == Hits(k, s)
           First(h) == \A g \in hits : h[1] <= g[1]
           first == CHOOSE h \in hits : First(h)
<1>2. PICK turn : <<turn, n>> \in hits
  BY <1>1, NewestIsHit
<1>3. \A h \in hits : HitAt(h, k, s) /\ InPlace(h[1], h[2]) /\ hist[h[2]].key = k /\ h[2] <= s
  BY <1>1, HitsAre, HitIs
<1>4. \A h \in hits : h[1] \in Nat /\ h[2] \in Updates /\ h[2] \in Nat
  BY <1>1, <1>3, PlaceIs
<1>5. \E h \in hits : First(h)
  <2> DEFINE T == {h[1] : h \in hits}
  <2>1. T \subseteq Nat /\ T # {}
    BY <1>2, <1>4
  <2>2. PICK x \in T : \A y \in T : x <= y
    BY <2>1, LeastNumberOf
  <2> QED
    BY <2>2
<1>6. first \in hits /\ First(first)
  BY <1>5, Zenon
<1>7. /\ HitAt(first, k, s) /\ InPlace(first[1], first[2]) /\ hist[first[2]].key = k /\ first[2] <= s
      /\ first[1] \in Nat /\ first[2] \in Updates /\ first[2] \in Nat
  BY <1>3, <1>4, <1>6
<1>8. /\ first[1] <= turn /\ turn \in Nat /\ HitAt(<<turn, n>>, k, s) /\ InPlace(turn, n)
      /\ hist[n].key = k /\ n \in Nat
  <2>1. PICK g : g = <<turn, n>>
    OBVIOUS
  <2>2. g \in hits /\ g[1] = turn /\ g[2] = n
    BY <1>2, <2>1
  <2> QED
    BY <1>3, <1>4, <1>6, <2>1, <2>2
<1>9. first[2] <= n
  BY <1>7 DEF IsNewest
<1> HIDE DEF first
<1>10. first[2] = n
  <2>1. CASE first[1] = turn
    <3>1. PICK g : g = <<turn, n>>
      OBVIOUS
    <3>2. HitAt(g, k, s) /\ g[1] = turn /\ g[2] = n
      BY <1>8, <3>1
    <3> QED
      BY <1>1, <1>7, <2>1, <3>2, OneHitPerTurn
  <2>2. CASE first[1] < turn
    <3>1. n < first[2]
      BY <1>1, <1>7, <1>8, <2>2, TurnOrder
    <3> QED
      BY <1>7, <1>8, <1>9, <3>1
  <2> QED
    BY <1>7, <1>8, <2>1, <2>2
<1>11. hits # {}
  BY <1>2
<1> QED
  BY <1>10, <1>11 DEF Get, Answer, first

\* What nobody may see, or what was dropped, is not hit.
LEMMA NoHits ==
  ASSUME LSMInv, NEW k, NEW s, \A t \in Held : hist[t].key = k => ~(t <= s)
  PROVE  Get(k, s) = NotFound
<1>1. TreeType
  BY DEF LSMInv
<1>2. ASSUME NEW h \in Hits(k, s) PROVE FALSE
  <2>1. InPlace(h[1], h[2]) /\ hist[h[2]].key = k /\ h[2] <= s
    BY <1>1, HitsAre, HitIs
  <2>2. h[2] \in Held
    BY <1>1, <2>1, PlaceIs
  <2> QED
    BY <2>1, <2>2
<1>3. Hits(k, s) = {}
  BY <1>2
<1> QED
  BY <1>3 DEF Get, Answer

\* The newest update of k up to s, if there is one.
LEMMA NewestExists ==
  ASSUME TreeType, NEW k, NEW s \in Nat
  PROVE  LET seen == {t \in Updates : hist[t].key = k /\ t <= s}
         IN  seen # {} => \E n \in seen : IsNewest(n, k, s)
<1> DEFINE seen == {t \in Updates : hist[t].key = k /\ t <= s}
           later == {s - t : t \in seen}
<1> SUFFICES ASSUME seen # {} PROVE \E n \in seen : IsNewest(n, k, s)
  OBVIOUS
<1>1. \A t \in seen : t \in Nat /\ t <= s
  BY UpdateType
<1>2. later \subseteq Nat /\ later # {}
  BY <1>1
<1>3. PICK x \in later : \A y \in later : x <= y
  BY <1>2, LeastNumberOf
<1>4. PICK n \in seen : x = s - n
  BY <1>3
<1>5. ASSUME NEW t \in seen PROVE t <= n
  <2>1. s - n <= s - t /\ t \in Nat /\ n \in Nat
    BY <1>1, <1>3, <1>4
  <2> QED
    BY <2>1
<1> QED
  BY <1>4, <1>5 DEF IsNewest

\* What a reader is to be told.
Newest(seen) == CHOOSE t \in seen : \A u \in seen : u <= t

Seen(k, s) == {t \in DOMAIN hist : hist[t].key = k /\ t <= s}

Told(k, s) ==
  IF Seen(k, s) = {} \/ hist[Newest(Seen(k, s))].type = "deletion" THEN NotFound
  ELSE Newest(Seen(k, s))

LEMMA NewestSeen ==
  ASSUME TreeType, NEW k, NEW s \in Nat
  PROVE  /\ Seen(k, s) \subseteq Updates
         /\ Seen(k, s) # {} => Newest(Seen(k, s)) \in Seen(k, s) /\ IsNewest(Newest(Seen(k, s)), k, s)
<1>1. DOMAIN hist = Updates
  BY DEF TreeType, Updates
<1>2. Seen(k, s) = {t \in Updates : hist[t].key = k /\ t <= s}
  BY <1>1 DEF Seen
<1>3. ASSUME Seen(k, s) # {}
      PROVE  Newest(Seen(k, s)) \in Seen(k, s) /\ IsNewest(Newest(Seen(k, s)), k, s)
  <2> DEFINE S == Seen(k, s)
  <2>1. PICK n \in S : IsNewest(n, k, s)
    BY <1>2, <1>3, NewestExists
  <2>2. \A u \in S : u <= n
    BY <1>2, <2>1 DEF IsNewest
  <2> HIDE DEF S
  <2>3. Newest(S) \in S /\ \A u \in S : u <= Newest(S)
    BY <2>2, Zenon DEF Newest
  <2> QED
    BY <1>2, <2>3 DEF IsNewest, S
<1> QED
  BY <1>2, <1>3

LEMMA GetIsTold ==
  ASSUME LSMInv, NEW k \in Keys, NEW s \in snapshots \cup {Len(hist)}
  PROVE  Get(k, s) = Told(k, s)
<1>1. TreeType /\ Complete
  BY DEF LSMInv
<1>2. s \in Nat /\ DOMAIN hist = Updates
  BY <1>1 DEF TreeType, Updates
<1> DEFINE n == Newest(Seen(k, s))
<1>3. Held \subseteq Updates
  BY <1>1, FileIsTable DEF Held, Stored, TreeType
<1>4. CASE Seen(k, s) = {}
  <2>1. \A t \in Held : hist[t].key = k => ~(t <= s)
    BY <1>2, <1>3, <1>4 DEF Seen
  <2> QED
    BY <1>4, <2>1, NoHits DEF Told
<1>5. CASE Seen(k, s) # {}
  <2>1. IsNewest(n, k, s) /\ n \in Updates
    BY <1>1, <1>2, <1>5, NewestSeen DEF IsNewest
  <2> HIDE DEF n
  <2>2. Told(k, s) = IF hist[n].type = "deletion" THEN NotFound ELSE n
    BY <1>5 DEF Told, n
  <2>3. CASE n \in Held
    BY <1>2, <2>1, <2>2, <2>3, FirstHitDecides
  <2>4. CASE n \notin Held
    <3>1. hist[n].type = "deletion" /\ \A t \in Held : hist[t].key = k => n < t
      BY <1>1, <2>1, <2>4 DEF Complete
    <3>2. ASSUME NEW t \in Held, hist[t].key = k, t <= s PROVE FALSE
      <4>1. n < t /\ t <= n /\ n \in Nat /\ t \in Nat
        BY <1>1, <1>3, <2>1, <3>1, <3>2, UpdateType DEF IsNewest
      <4> QED
        BY <4>1
    <3>3. Get(k, s) = NotFound
      BY <3>2, NoHits
    <3> QED
      BY <2>2, <3>1, <3>3
  <2> QED
    BY <2>3, <2>4
<1> QED
  BY <1>4, <1>5

\* Every read, now and at every live snapshot, is answered with the newest
\* update of the key that the reader may see: DBImpl::Get and Version::Get over
\* whatever files flushes, moves and compactions have left.
THEOREM ReadsStayCorrect == ASSUME QuietManual PROVE Spec => []ReadsCorrect
<1>1. ASSUME LSMInv PROVE ReadsCorrect
  BY <1>1, GetIsTold DEF ReadsCorrect, Told, Seen, Newest, last_sequence
<1> QED
  BY <1>1, LSMInvariant, PTL

-----------------------------------------------------------------------------
(* The tree implements the store.                                           *)

\* What a reader is told depends on the updates it may see alone.
LEMMA SameSeen ==
  ASSUME LSMInv, NEW k, NEW s \in Nat, NEW r, Seen(k, s) = Seen(k, r)', \A t \in Updates : hist'[t] = hist[t]
  PROVE  Told(k, r)' = Told(k, s)
<1>1. TreeType
  BY DEF LSMInv
<1>2. Seen(k, s) # {} => Newest(Seen(k, s)) \in Updates
  BY <1>1, NewestSeen
<1>3. Told(k, r)' = IF Seen(k, r)' = {} \/ hist'[Newest(Seen(k, r)')].type = "deletion" THEN NotFound
                    ELSE Newest(Seen(k, r)')
  BY DEF Told, Newest
<1> QED
  BY <1>2, <1>3 DEF Told

\* A write tells the reader of a snapshot nothing new, and the others nothing
\* new about the other keys; about its key they are told what was written.
LEMMA ToldAfterWrite ==
  ASSUME LSMInv, NEW k, NEW type, hist' = Append(hist, [key |-> k, type |-> type])
  PROVE  /\ \A j, s : s \in snapshots => Told(j, s)' = Told(j, s)
         /\ \A j : j # k => Told(j, Len(hist))' = Told(j, Len(hist))
         /\ Told(k, Len(hist))' = IF type = "deletion" THEN NotFound ELSE Len(hist) + 1
<1> DEFINE n == Len(hist)
           e == [key |-> k, type |-> type]
<1>1. /\ TreeType /\ DOMAIN hist = 1..n /\ Updates = 1..n /\ n \in Nat /\ snapshots \subseteq 0..n
      /\ e.key = k /\ e.type = type
  BY DEF LSMInv, TreeType, Updates
<1> HIDE DEF e
<1>2. hist' = Append(hist, e) /\ hist \in Seq([key : Keys, type : {"value", "deletion"}])
  BY <1>1 DEF e, TreeType
<1>3. /\ Len(hist') = n + 1 /\ DOMAIN hist' = (1..n) \cup {n + 1} /\ hist'[n + 1] = e
      /\ \A t \in 1..n : hist'[t] = hist[t] /\ t <= n /\ t <= n + 1
  <2>1. Len(hist') = n + 1 /\ DOMAIN hist' = 1..(n + 1) /\ hist'[n + 1] = e /\ \A t \in 1..n : hist'[t] = hist[t]
    BY <1>2
  <2> QED
    BY <1>1, <2>1
<1> HIDE DEF n
<1>4. ASSUME NEW j, NEW s \in snapshots PROVE Told(j, s)' = Told(j, s)
  <2>1. s \in Nat /\ ~(n + 1 <= s)
    BY <1>1
  <2>2. Seen(j, s) = Seen(j, s)'
    BY <1>1, <1>3, <2>1 DEF Seen
  <2> QED
    BY <1>1, <1>3, <2>1, <2>2, SameSeen
<1>5. ASSUME NEW j, j # k PROVE Told(j, Len(hist))' = Told(j, n)
  <2>1. {t \in DOMAIN hist' : hist'[t].key = j /\ t <= n + 1} = Seen(j, n)
    BY <1>1, <1>3, <1>5 DEF Seen
  <2>2. PICK m, r : m = n /\ r = n + 1
    OBVIOUS
  <2>3. Seen(j, m) = Seen(j, r)'
    BY <2>1, <2>2 DEF Seen
  <2>4. m \in Nat
    BY <1>1, <2>2
  <2>5. Told(j, r)' = Told(j, m)
    BY <1>1, <1>3, <2>3, <2>4, SameSeen
  <2>6. Len(hist)' = r
    BY <1>3, <2>2
  <2>7. Told(j, Len(hist))' = Told(j, r)'
    BY <2>6 DEF Told, Seen
  <2> QED
    BY <2>2, <2>5, <2>7
<1>6. Told(k, Len(hist))' = IF type = "deletion" THEN NotFound ELSE n + 1
  <2>1. PICK S : S = {t \in DOMAIN hist' : hist'[t].key = k /\ t <= Len(hist')}
    OBVIOUS
  <2>2. n + 1 \in S /\ \A u \in S : u \in Int /\ u <= n + 1
    BY <1>1, <1>3, <2>1
  <2>3. Newest(S) = n + 1
    <3>1. PICK t : t = Newest(S)
      OBVIOUS
    <3>2. \E x \in S : \A u \in S : u <= x
      BY <2>2
    <3>3. t \in S /\ \A u \in S : u <= t
      BY <3>1, <3>2 DEF Newest
    <3>4. t \in Int /\ t <= n + 1 /\ n + 1 <= t
      BY <2>2, <3>3
    <3> QED
      BY <1>1, <3>1, <3>4
  <2>4. Told(k, Len(hist))' = IF S = {} \/ hist'[Newest(S)].type = "deletion" THEN NotFound ELSE Newest(S)
    BY <2>1 DEF Told, Seen, Newest
  <2> QED
    BY <1>1, <1>3, <2>2, <2>3, <2>4
<1> QED
  BY <1>4, <1>5, <1>6 DEF n

LEMMA ToldType ==
  ASSUME LSMInv, NEW k \in Keys, NEW s \in snapshots \cup {Len(hist)}
  PROVE  Told(k, s) \in 1..MaxWrites \cup {NotFound}
<1>1. TreeType /\ s \in Nat /\ Len(hist) \in Nat /\ MaxWrites \in Nat /\ Len(hist) <= MaxWrites
  <2>1. TreeType /\ MaxWrites \in Nat
    BY LSMTreeAssumption DEF LSMInv
  <2> QED
    BY <2>1 DEF TreeType
<1>2. Updates \subseteq 1..MaxWrites
  BY <1>1 DEF Updates
<1>3. Seen(k, s) # {} => Newest(Seen(k, s)) \in Updates
  BY <1>1, NewestSeen
<1> QED
  BY <1>2, <1>3 DEF Told

\* Reads are answered with what the reader is to be told.
ToldRight ==
  /\ \A k \in Keys : Get(k, last_sequence) = Told(k, Len(hist)) /\ Told(k, Len(hist)) \in 1..MaxWrites \cup {NotFound}
  /\ \A s \in snapshots, k \in Keys : Get(k, s) = Told(k, s)

LEMMA InvTellsRight == ASSUME LSMInv PROVE ToldRight
BY GetIsTold, ToldType DEF ToldRight, last_sequence

\* The updates the clients have made.
Clients == [s \in DOMAIN hist |-> [key |-> hist[s].key, value |-> ValueOf(s)]]

LEMMA ClientsAfterWrite ==
  ASSUME LSMInv, NEW k \in Keys, NEW type \in {"value", "deletion"},
         hist' = Append(hist, [key |-> k, type |-> type]),
         NEW v, v = IF type = "deletion" THEN NotFound ELSE Len(hist) + 1
  PROVE  Clients' = Append(Clients, [key |-> k, value |-> v])
<1>0. PICK n : n = Len(hist)
  OBVIOUS
<1> DEFINE e == [key |-> k, type |-> type]
           T == [key : Keys, type : {"value", "deletion"}]
<1>1. hist \in Seq(T) /\ n \in Nat /\ DOMAIN hist = 1..n /\ e \in T
  BY <1>0 DEF LSMInv, TreeType
<1>2. e.key = k /\ e.type = type
  OBVIOUS
<1> HIDE DEF T, e
<1>3. DOMAIN hist' = 1..(n + 1) /\ hist'[n + 1] = e /\ \A t \in 1..n : hist'[t] = hist[t]
  BY <1>0, <1>1 DEF e
<1> DEFINE at(t) == [key |-> hist[t].key, value |-> ValueOf(t)]
           U == {at(t) : t \in 1..n}
<1>4. Clients = [t \in 1..n |-> at(t)]
  BY <1>1 DEF Clients
<1>5. Clients' = [t \in 1..(n + 1) |-> at(t)']
  BY <1>3 DEF Clients
<1>6. \A t \in 1..n : at(t)' = at(t)
  BY <1>3 DEF ValueOf
<1>7. at(n + 1)' = [key |-> k, value |-> v]
  <2>1. hist'[n + 1].key = k /\ hist'[n + 1].type = type
    BY <1>2, <1>3
  <2>2. ValueOf(n + 1)' = v
    BY <1>0, <2>1 DEF ValueOf
  <2> QED
    BY <2>1, <2>2
<1> HIDE DEF at
<1>8. PICK r : r = [key |-> k, value |-> v]
  OBVIOUS
<1>9. Clients \in Seq(U \cup {r}) /\ Len(Clients) = n
  BY <1>1, <1>4
<1>10. Append(Clients, r) = [t \in 1..(n + 1) |-> IF t = n + 1 THEN r ELSE Clients[t]]
  <2>1. PICK c : c = Clients
    OBVIOUS
  <2>2. PICK V : V = U \cup {r}
    OBVIOUS
  <2>3. c \in Seq(V) /\ r \in V /\ Len(c) = n
    BY <1>9, <2>1, <2>2
  <2>4. Append(c, r) \in Seq(V) /\ Len(Append(c, r)) = n + 1
    BY ONLY <1>1, <2>3
  <2>5. \A t \in 1..(n + 1) : Append(c, r)[t] = IF t = n + 1 THEN r ELSE c[t]
    BY ONLY <1>1, <2>3
  <2>6. Append(c, r) = [t \in 1..(n + 1) |-> Append(c, r)[t]]
    <3>1. PICK a : a = Append(c, r)
      OBVIOUS
    <3>2. a \in Seq(V) /\ Len(a) = n + 1
      BY <2>4, <3>1
    <3>3. a = [t \in 1..(n + 1) |-> a[t]]
      BY ONLY <1>1, <3>2
    <3> QED
      BY <3>1, <3>3
  <2> QED
    BY <2>1, <2>5, <2>6
<1>11. \A t \in 1..(n + 1) : at(t)' = IF t = n + 1 THEN r ELSE Clients[t]
  <2> SUFFICES ASSUME NEW t \in 1..(n + 1) PROVE at(t)' = IF t = n + 1 THEN r ELSE Clients[t]
    OBVIOUS
  <2>1. CASE t = n + 1
    BY <1>7, <1>8, <2>1
  <2>2. CASE t # n + 1
    <3>1. t \in 1..n
      BY <1>1, <2>2
    <3> QED
      BY <1>4, <1>6, <2>2, <3>1
  <2> QED
    BY <2>1, <2>2
<1> QED
  BY <1>5, <1>8, <1>10, <1>11

LEMMA StoreUnchanged ==
  ASSUME ToldRight, ToldRight', UNCHANGED <<hist, snapshots>>
  PROVE  UNCHANGED Store!vars
<1>1. \A k, s : Told(k, s)' = Told(k, s)
  BY DEF Told, Seen
<1>2. \A k \in Keys : Told(k, Len(hist))' = Told(k, Len(hist))
  BY DEF Told, Seen
<1>3. \A k \in Keys : Get(k, last_sequence)' = Get(k, last_sequence)
  BY <1>2 DEF ToldRight
<1>4. \A s \in snapshots, k \in Keys : Get(k, s)' = Get(k, s)
  BY <1>1 DEF ToldRight
<1>5. [k \in Keys |-> Get(k, last_sequence)]' = [k \in Keys |-> Get(k, last_sequence)]
  BY <1>3
<1>6. [s \in snapshots |-> [k \in Keys |-> Get(k, s)]]' = [s \in snapshots |-> [k \in Keys |-> Get(k, s)]]
  BY <1>4
<1>7. UNCHANGED Clients
  BY DEF Clients, ValueOf
<1> QED
  BY <1>5, <1>6, <1>7 DEF Store!vars, Clients

LEMMA StoreWrite ==
  ASSUME LSMInv, ToldRight, ToldRight', NEW k \in Keys, NEW type \in {"value", "deletion"}, Write(k, type),
         NEW v, v = IF type = "deletion" THEN NotFound ELSE Len(hist) + 1
  PROVE  Store!Write(k, v) /\ v \in Store!Answers
<1>1. hist' = Append(hist, [key |-> k, type |-> type]) /\ snapshots' = snapshots
  BY DEF Write
<1>2. /\ \A j, s : s \in snapshots => Told(j, s)' = Told(j, s)
      /\ \A j : j # k => Told(j, Len(hist))' = Told(j, Len(hist))
      /\ Told(k, Len(hist))' = v
  BY <1>1, ToldAfterWrite
<1>3. \A j \in Keys \ {k} : Get(j, last_sequence)' = Get(j, last_sequence)
  BY <1>2 DEF ToldRight
<1>4. Get(k, last_sequence)' = v /\ v \in 1..MaxWrites \cup {NotFound}
  BY <1>2 DEF ToldRight
<1>5. \A s \in snapshots, j \in Keys : Get(j, s)' = Get(j, s)
  BY <1>1, <1>2 DEF ToldRight
<1>6. [s \in snapshots |-> [j \in Keys |-> Get(j, s)]]' = [s \in snapshots |-> [j \in Keys |-> Get(j, s)]]
  BY <1>1, <1>5
<1>7. [j \in Keys |-> Get(j, last_sequence)]' = [[j \in Keys |-> Get(j, last_sequence)] EXCEPT ![k] = v]
  BY <1>3, <1>4
<1>8. Clients' = Append(Clients, [key |-> k, value |-> v])
  BY <1>1, ClientsAfterWrite
<1> QED
  BY <1>4, <1>6, <1>7, <1>8 DEF Store!Write, Store!Answers, Clients

LEMMA StoreGetSnapshot ==
  ASSUME LSMInv, ToldRight, ToldRight', GetSnapshot
  PROVE  \E s \in 0..MaxWrites : Store!GetSnapshot(s)
<1>1. PICK s : s = Len(hist)
  OBVIOUS
<1>2. s \notin snapshots /\ snapshots' = snapshots \cup {s} /\ hist' = hist
  BY <1>1 DEF GetSnapshot, last_sequence
<1>3. s \in 0..MaxWrites
  <2>1. TreeType /\ MaxWrites \in Nat
    BY LSMTreeAssumption DEF LSMInv
  <2> QED
    BY <1>1, <2>1 DEF TreeType
<1>4. \A j, t : Told(j, t)' = Told(j, t)
  BY <1>2 DEF Told, Seen
<1>5. \A j \in Keys : Told(j, Len(hist))' = Told(j, Len(hist))
  BY <1>2 DEF Told, Seen
<1>6. \A j \in Keys : Get(j, last_sequence)' = Get(j, last_sequence) /\ Get(j, s)' = Get(j, last_sequence)
  BY <1>1, <1>2, <1>4, <1>5 DEF ToldRight
<1>7. \A t \in snapshots, j \in Keys : Get(j, t)' = Get(j, t)
  BY <1>2, <1>4 DEF ToldRight
<1>8. [j \in Keys |-> Get(j, last_sequence)]' = [j \in Keys |-> Get(j, last_sequence)]
  BY <1>6
<1> DEFINE now == [j \in Keys |-> Get(j, last_sequence)]
           views == [t \in snapshots |-> [j \in Keys |-> Get(j, t)]]
<1>9. views' = [t \in snapshots \cup {s} |-> IF t = s THEN now ELSE views[t]]
  BY <1>2, <1>6, <1>7
<1>10. UNCHANGED Clients
  BY <1>2 DEF Clients, ValueOf
<1> QED
  BY <1>2, <1>3, <1>8, <1>9, <1>10 DEF Store!GetSnapshot, Clients

LEMMA StoreReleaseSnapshot ==
  ASSUME LSMInv, ToldRight, ToldRight', NEW s \in snapshots, ReleaseSnapshot(s)
  PROVE  Store!ReleaseSnapshot(s)
<1>1. snapshots' = snapshots \ {s} /\ hist' = hist
  BY DEF ReleaseSnapshot
<1>2. \A j, t : Told(j, t)' = Told(j, t)
  BY <1>1 DEF Told, Seen
<1>3. \A j \in Keys : Told(j, Len(hist))' = Told(j, Len(hist))
  BY <1>1 DEF Told, Seen
<1>4. [j \in Keys |-> Get(j, last_sequence)]' = [j \in Keys |-> Get(j, last_sequence)]
  BY <1>3 DEF ToldRight
<1>5. \A t \in snapshots', j \in Keys : Get(j, t)' = Get(j, t)
  BY <1>1, <1>2 DEF ToldRight
<1> DEFINE views == [t \in snapshots |-> [j \in Keys |-> Get(j, t)]]
<1>6. views' = [t \in snapshots \ {s} |-> views[t]]
  BY <1>1, <1>5
<1>7. UNCHANGED Clients
  BY <1>1 DEF Clients, ValueOf
<1> QED
  BY <1>1, <1>4, <1>6, <1>7 DEF Store!ReleaseSnapshot, Clients

\* The tree implements the store of include/leveldb/db.h: flushes, moves and
\* compactions change no answer, a write changes the current answer for its key
\* to what was written and no other, and a snapshot goes on showing the map as
\* it was when it was taken.
THEOREM TreeIsStore == ASSUME QuietManual PROVE Spec => ImplementsStore
<1>1. ASSUME Init, ToldRight PROVE Store!Init
  <2>1. hist = <<>> /\ snapshots = {} /\ DOMAIN hist = {}
    BY <1>1 DEF Init
  <2>2. \A k \in Keys : Get(k, last_sequence) = NotFound
    <3>1. \A k \in Keys : Told(k, Len(hist)) = NotFound
      BY <2>1 DEF Told, Seen
    <3> QED
      BY <1>1, <3>1 DEF ToldRight
  <2>3. [s \in snapshots |-> [k \in Keys |-> Get(k, s)]] = <<>>
    BY <2>1
  <2>4. Clients = <<>>
    BY <2>1 DEF Clients
  <2> QED
    BY <2>2, <2>3, <2>4 DEF Store!Init, Clients
<1>2. ASSUME LSMInv, ToldRight, ToldRight', [Next]_vars PROVE [Store!Next]_Store!vars
  <2>1. ASSUME NEW k \in Keys, NEW type \in {"value", "deletion"}, Write(k, type) PROVE Store!Next
    <3>1. PICK v : v = IF type = "deletion" THEN NotFound ELSE Len(hist) + 1
      OBVIOUS
    <3>2. Store!Write(k, v) /\ v \in Store!Answers
      BY <1>2, <2>1, <3>1, StoreWrite
    <3> QED
      BY <3>2 DEF Store!Next
  <2>2. CASE GetSnapshot
    BY <1>2, <2>2, StoreGetSnapshot DEF Store!Next
  <2>3. ASSUME NEW s \in snapshots, ReleaseSnapshot(s) PROVE Store!Next
    BY <1>2, <2>3, StoreReleaseSnapshot DEF Store!Next
  <2>4. CASE UNCHANGED <<hist, snapshots>>
    BY <1>2, <2>4, StoreUnchanged
  <2>5. CASE SwitchMemTable \/ CompactMemTable \/ CompactMemTableFails \/ CompactionFails
              \/ AutomaticCompaction \/ ManualCompaction \/ FinishCompaction \/ UNCHANGED vars
    <3>1. UNCHANGED <<hist, snapshots>>
      BY <2>5 DEF SwitchMemTable, CompactMemTable, CompactMemTableFails, CompactionFails,
                  AutomaticCompaction, ManualCompaction, FinishCompaction, vars
    <3> QED
      BY <2>4, <3>1
  <2> QED
    BY <1>2, <2>1, <2>2, <2>3, <2>5 DEF Next
<1>3. LSMInv => ToldRight
  BY InvTellsRight
<1>4. ImplementsStore <=> (Store!Init /\ [][Store!Next]_Store!vars)
  BY DEF ImplementsStore, Store!Spec
<1> QED
  BY <1>1, <1>2, <1>3, <1>4, LSMInvariant, PTL DEF Spec

=============================================================================
