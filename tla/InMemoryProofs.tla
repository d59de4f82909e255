--------------------------- MODULE InMemoryProofs ---------------------------
(***************************************************************************)
(* Proofs about what the store keeps in memory: the skip list of the       *)
(* memtable under a reader that takes no lock, and the files of the        *)
(* in-memory environment.                                                  *)
(***************************************************************************)
EXTENDS MemTable, MemEnv, TLAPS, FiniteSetTheorems, NaturalsInduction, WellFoundedInduction

-----------------------------------------------------------------------------
(* Finite sets of numbers.                                                  *)

LEMMA LeastOf ==
  ASSUME NEW T, T \subseteq Nat, T # {}
  PROVE  \E x \in T : \A y \in T : x <= y
<1>1. PICK x \in T : \A y \in T : ~(<<y, x>> \in OpToRel(<, Nat))
  BY WFMin, NatLessThanWellFounded
<1>2. ASSUME NEW y \in T PROVE x <= y
  <2>1. x \in Nat /\ y \in Nat
    OBVIOUS
  <2>2. y < x => <<y, x>> \in OpToRel(<, Nat)
    BY <2>1 DEF OpToRel
  <2>3. ~(<<y, x>> \in OpToRel(<, Nat))
    BY <1>1, Zenon
  <2>4. ~(y < x)
    BY <2>2, <2>3, Zenon
  <2> QED
    BY <2>1, <2>4
<1> QED
  BY <1>2

\* A set of k numbers without a greatest one.
TopLess(k) ==
  \E S \in SUBSET Nat : /\ IsFiniteSet(S) /\ Cardinality(S) = k /\ S # {}
                        /\ ~ \E m \in S : \A n \in S : n <= m

LEMMA GreatestOf ==
  ASSUME NEW T, T \subseteq Nat, T # {}, IsFiniteSet(T)
  PROVE  \E m \in T : \A n \in T : n <= m
<1> SUFFICES ASSUME ~ \E m \in T : \A n \in T : n <= m PROVE FALSE
  OBVIOUS
<1> DEFINE K == {k \in Nat : TopLess(k)}
<1>1. Cardinality(T) \in K
  <2>1. Cardinality(T) \in Nat
    BY FS_CardinalityType
  <2> QED
    BY <2>1 DEF TopLess
<1>2. PICK k \in K : \A j \in K : k <= j
  <2>1. K \subseteq Nat /\ K # {}
    BY <1>1
  <2> HIDE DEF K
  <2> QED
    BY <2>1, LeastOf
<1>3. PICK S \in SUBSET Nat : /\ IsFiniteSet(S) /\ Cardinality(S) = k /\ S # {}
                              /\ ~ \E m \in S : \A n \in S : n <= m
  BY DEF TopLess
<1>4. PICK x \in S : TRUE
  BY <1>3
<1> DEFINE R == S \ {x}
<1>5. IsFiniteSet(R) /\ Cardinality(R) = Cardinality(S) - 1
  BY <1>3, FS_RemoveElement
<1>6. R # {}
  BY <1>3
<1>7. ~TopLess(k - 1)
  <2>1. k - 1 \in Nat
    <3>1. Cardinality(R) \in Nat /\ k \in Nat
      BY <1>5, FS_CardinalityType
    <3> QED
      BY <1>3, <1>5, <3>1
  <2>2. ~(k <= k - 1)
    BY <2>1
  <2> QED
    BY <1>2, <2>1, <2>2
<1>8. PICK m \in R : \A n \in R : n <= m
  <2>1. R \in SUBSET Nat /\ Cardinality(R) = k - 1
    BY <1>3, <1>5
  <2> QED
    BY <1>5, <1>6, <1>7, <2>1, Zenon DEF TopLess
<1>9. x \in Nat /\ m \in Nat
  OBVIOUS
<1>10. CASE x <= m
  <2>1. m \in S /\ \A n \in S : n <= m
    BY <1>8, <1>10
  <2> QED
    BY <1>3, <2>1
<1>11. CASE m <= x
  <2>1. \A n \in S : n <= x
    BY <1>8, <1>9, <1>11
  <2> QED
    BY <1>3, <2>1
<1> QED
  BY <1>9, <1>10, <1>11

LEMMA MaxIsGreatest ==
  ASSUME NEW T, T \subseteq Nat, T # {}, IsFiniteSet(T)
  PROVE  Max(T) \in T /\ \A n \in T : n <= Max(T)
<1>1. PICK m \in T : \A n \in T : n <= m
  BY GreatestOf
<1>2. m \in T /\ \A n \in T : m >= n
  BY <1>1
<1>3. Max(T) \in T /\ \A n \in T : Max(T) >= n
  BY <1>2, Zenon DEF Max
<1> QED
  BY <1>3

-----------------------------------------------------------------------------
(* The skip list.                                                           *)

\* The order of nodes when their entries are e: the head before everything,
\* the null pointer after everything.
Ahead(e, a, b) ==
  /\ a # Nil /\ b # HeadNode
  /\ \/ a = HeadNode \/ b = Nil
     \/ e[a].user < e[b].user
     \/ e[a].user = e[b].user /\ a > b

\* The nodes a reader can meet on level i: what the writer has stored in prev.
On(i) == {HeadNode} \cup {n \in Entries : next_[n][i] # Garbage /\ ~(n = writer.node /\ i = writer.level)}

\* m follows a among the nodes of s.
Follows(e, s, a, m) ==
  /\ m \in s \cup {Nil} /\ Ahead(e, a, m)
  /\ \A n \in s : ~(Ahead(e, a, n) /\ Ahead(e, n, m))

\* p is where w belongs among the nodes of s.
Precedes(e, s, p, w) ==
  /\ p \in s /\ Ahead(e, p, w) /\ \A n \in s : ~(Ahead(e, p, n) /\ Ahead(e, n, w))

\* The entry of node n is before the boundary k.
Below(e, n, k) == e[n].user < k.user \/ (e[n].user = k.user /\ n > k.seq)

Keyed == [user : Int, seq : Int]

Entered == [user : UserKeys \cup {-1}, type : ValueTypes]

MTType ==
  /\ entry \in [Entries -> Entered]
  /\ next_ \in [Entries \cup {HeadNode} -> [Levels -> Entries \cup {Nil, Garbage}]]
  /\ heights \subseteq RandomHeight /\ heights # {}
  /\ writer \in [node : Entries \cup {Nil}, height : 0 .. kMaxHeight, level : 0 .. kMaxHeight,
                 prev : [Levels -> Entries \cup {HeadNode}]]
  /\ lastSeq \in 0 .. MaxEntries
  /\ reader \in [op : {"none", "search", "done"}, back : BOOLEAN, key : Keyed, seen : 0 .. MaxEntries,
                 x : Entries \cup {HeadNode, Nil}, level : Levels, node : Entries \cup {Nil}]

\* Every node points to the next one of its level.
Sorted == \A i \in Levels : \A x \in On(i) : Follows(entry, On(i), x, next_[x][i])

\* A node is on every level below one it is on.
Stacked == \A i, j \in Levels : j <= i => On(i) \subseteq On(j)

\* What has been published is on level 0, what has not been added is nowhere.
Inserted ==
  /\ \A n \in 1 .. lastSeq : n \in On(0) /\ entry[n].user \in UserKeys
  /\ \A n \in Entries : n > lastSeq /\ n # writer.node => \A i \in Levels : next_[n][i] = Garbage

\* No node is higher than max_height_ has been.
Reached == \A n \in Entries, i \in Levels : next_[n][i] # Garbage => \E h \in heights : i < h

\* The Insert that runs: linked below its level, not touched above it, and
\* prev is where it belongs on the levels that are left.
Writing ==
  LET w == writer.node
  IN  w # Nil =>
        /\ w = lastSeq + 1 /\ entry[w].user \in UserKeys
        /\ writer.height \in RandomHeight /\ \E h \in heights : writer.height <= h
        /\ writer.level <= writer.height
        /\ \A i \in Levels : i < writer.level => next_[w][i] # Garbage
        /\ \A i \in Levels : i > writer.level \/ i = writer.height => next_[w][i] = Garbage
        /\ \A i \in Levels : writer.level <= i /\ i < writer.height =>
              Precedes(entry, On(i), writer.prev[i], w)
        /\ \A i \in Levels : i = writer.level /\ next_[w][i] # Garbage =>
              Follows(entry, On(i), w, next_[w][i])

\* A search is at a node of its level before its boundary.
Searching ==
  reader.op = "search" =>
    /\ reader.x \in On(reader.level)
    /\ reader.x = HeadNode \/ Below(entry, reader.x, reader.key)

\* Where a reader with boundary k landed, that may have seen everything up to
\* the entry s.
Landed(e, back, k, s, n) ==
  /\ n # Nil => (back => Below(e, n, k)) /\ (~back => ~Below(e, n, k))
  /\ \A m \in 1 .. s :
        /\ back /\ Below(e, m, k) => n # Nil /\ ~Ahead(e, n, m)
        /\ ~back /\ ~Below(e, m, k) => n # Nil /\ ~Ahead(e, m, n)

Reading ==
  /\ reader.seen <= lastSeq
  /\ reader.op # "none" /\ ~reader.back => reader.key.seq <= reader.seen
  /\ reader.op = "done" =>
       /\ reader.node \in On(0) \cup {Nil} /\ reader.node # HeadNode
       /\ Landed(entry, reader.back, reader.key, reader.seen, reader.node)

MTInv == MTType /\ Sorted /\ Stacked /\ Inserted /\ Reached /\ Writing /\ Searching /\ Reading

\* Every node has a number, as a place in the order.
Places == Entries \cup {HeadNode, Nil}

Ordered(e) == \A n \in Entries : e[n].user \in Int

LEMMA NodesAreNumbers ==
  /\ Places \subseteq Int /\ HeadNode \notin Entries /\ Nil \notin Entries /\ Garbage \notin Entries
  /\ Entries \subseteq Nat /\ HeadNode # Nil /\ Nil # Garbage /\ HeadNode # Garbage
  /\ Levels \subseteq Nat
BY MemTableAssumption DEF Places, Entries, HeadNode, Nil, Garbage, Levels

LEMMA AheadTrans ==
  ASSUME NEW e, Ordered(e), NEW a \in Places, NEW b \in Places, NEW c \in Places,
         Ahead(e, a, b), Ahead(e, b, c)
  PROVE  Ahead(e, a, c)
BY NodesAreNumbers DEF Ahead, Ordered, Places

LEMMA AheadTotal ==
  ASSUME NEW e, Ordered(e), NEW a \in Places, NEW b \in Places, a # b
  PROVE  Ahead(e, a, b) \/ Ahead(e, b, a)
BY NodesAreNumbers DEF Ahead, Ordered, Places

LEMMA AheadStrict ==
  ASSUME NEW e, Ordered(e), NEW a \in Places, NEW b \in Places, Ahead(e, a, b)
  PROVE  ~Ahead(e, b, a) /\ a # b
BY NodesAreNumbers DEF Ahead, Ordered, Places

\* The pointer that Insert copies is the one the new node needs.
LEMMA CopiedPointer ==
  ASSUME NEW e, Ordered(e), NEW s, s \subseteq Places \ {Nil}, NEW p, NEW w \in Entries, w \notin s, NEW m,
         Precedes(e, s, p, w), Follows(e, s, p, m)
  PROVE  Follows(e, s, w, m)
<1>1. p \in Places /\ w \in Places /\ m \in Places /\ m \in s \cup {Nil} /\ m # w
  BY NodesAreNumbers DEF Precedes, Follows, Places
<1>2. Ahead(e, w, m)
  <2>1. CASE m = Nil
    BY <2>1, NodesAreNumbers DEF Ahead
  <2>2. CASE m \in s
    <3>1. ~Ahead(e, m, w)
      BY <2>2 DEF Precedes, Follows
    <3> QED
      BY <1>1, <3>1, AheadTotal
  <2> QED
    BY <1>1, <2>1, <2>2
<1>3. ASSUME NEW n \in s, Ahead(e, w, n), Ahead(e, n, m) PROVE FALSE
  <2>1. Ahead(e, p, n)
    <3>1. n \in Places /\ Ahead(e, p, w)
      BY DEF Precedes
    <3> QED
      BY <1>1, <1>3, <3>1, AheadTrans
  <2> QED
    BY <1>3, <2>1 DEF Follows
<1> QED
  BY <1>1, <1>2, <1>3 DEF Follows

\* Storing the new node in prev leaves every pointer of the level right.
LEMMA StoredPointer ==
  ASSUME NEW e, Ordered(e), NEW s, s \subseteq Places \ {Nil}, NEW p, NEW w \in Entries, w \notin s,
         Precedes(e, s, p, w)
  PROVE  /\ Follows(e, s \cup {w}, p, w)
         /\ \A m : Follows(e, s, w, m) => Follows(e, s \cup {w}, w, m)
         /\ \A x \in s : \A m : x # p /\ Follows(e, s, x, m) => Follows(e, s \cup {w}, x, m)
<1>1. p \in s /\ p \in Places /\ w \in Places /\ Ahead(e, p, w)
  BY DEF Precedes, Places
<1>2. ~Ahead(e, w, w)
  BY <1>1, AheadStrict
<1>3. Follows(e, s \cup {w}, p, w)
  BY <1>1, <1>2 DEF Follows, Precedes
<1>4. ASSUME NEW m, Follows(e, s, w, m) PROVE Follows(e, s \cup {w}, w, m)
  BY <1>2, <1>4 DEF Follows
<1>5. ASSUME NEW x \in s, NEW m, x # p, Follows(e, s, x, m) PROVE Follows(e, s \cup {w}, x, m)
  <2>1. m \in s \cup {Nil} /\ Ahead(e, x, m) /\ x \in Places /\ m \in Places
    BY <1>5 DEF Follows, Places
  <2>2. ~(Ahead(e, x, w) /\ Ahead(e, w, m))
    <3> SUFFICES ASSUME Ahead(e, x, w), Ahead(e, w, m) PROVE FALSE
      OBVIOUS
    <3>1. ~Ahead(e, p, x)
      BY DEF Precedes
    <3>2. Ahead(e, x, p)
      BY <1>1, <1>5, <2>1, <3>1, AheadTotal
    <3>3. Ahead(e, p, m)
      BY <1>1, <2>1, AheadTrans
    <3> QED
      BY <1>1, <1>5, <3>2, <3>3 DEF Follows
  <2>3. \A n \in s \cup {w} : ~(Ahead(e, x, n) /\ Ahead(e, n, m))
    BY <1>5, <2>2 DEF Follows
  <2> QED
    BY <2>1, <2>3 DEF Follows
<1> QED
  BY <1>3, <1>4, <1>5

\* The node the search for the place of a new entry leaves a level at exists.
LEMMA LastBefore ==
  ASSUME NEW e, NEW B, B \subseteq Entries, B # {}, \A n \in B : e[n].user \in UserKeys
  PROVE  \E p \in B : \A m \in B : m = p \/ Ahead(e, m, p)
<1> DEFINE U == {e[n].user : n \in B}
<1>1. IsFiniteSet(U)
  <2>1. U \subseteq UserKeys /\ IsFiniteSet(UserKeys)
    BY MemTableAssumption
  <2> QED
    BY <2>1, FS_Subset
<1>2. PICK u \in U : \A v \in U : v <= u
  <2>1. U \subseteq Nat /\ U # {}
    BY MemTableAssumption
  <2> HIDE DEF U
  <2> QED
    BY <1>1, <2>1, GreatestOf
<1> DEFINE N == {n \in B : e[n].user = u}
<1>3. PICK p \in N : \A m \in N : p <= m
  <2>1. N \subseteq Nat /\ N # {}
    BY NodesAreNumbers
  <2> HIDE DEF N
  <2> QED
    BY <2>1, LeastOf
<1>4. ASSUME NEW m \in B, m # p PROVE Ahead(e, m, p)
  <2>1. e[m].user \in Nat /\ u \in Nat /\ e[p].user = u /\ e[m].user <= u /\ p \in B
    BY <1>2, MemTableAssumption
  <2>2. m \in Nat /\ p \in Nat /\ m # Nil /\ p # HeadNode
    BY <2>1, NodesAreNumbers
  <2>3. CASE e[m].user = u
    <3>1. p <= m
      BY <1>3, <2>3
    <3> QED
      BY <1>4, <2>1, <2>2, <2>3, <3>1 DEF Ahead
  <2>4. CASE e[m].user # u
    BY <2>1, <2>2, <2>4 DEF Ahead
  <2> QED
    BY <2>3, <2>4
<1> QED
  BY <1>4

LEMMA OnNodes ==
  ASSUME MTType, NEW i \in Levels
  PROVE  /\ On(i) \subseteq Places \ {Nil} /\ HeadNode \in On(i)
         /\ \A n \in Entries : n \in On(i) <=> next_[n][i] # Garbage /\ ~(n = writer.node /\ i = writer.level)
BY NodesAreNumbers DEF On, Places

LEMMA EntriesOrdered ==
  ASSUME MTType
  PROVE  Ordered(entry)
<1>1. ASSUME NEW n \in Entries PROVE entry[n].user \in Int
  <2>1. entry[n] \in Entered
    BY DEF MTType
  <2>2. entry[n].user \in UserKeys \cup {-1}
    BY <2>1 DEF Entered
  <2>3. UserKeys \subseteq Nat
    BY MemTableAssumption
  <2>4. ASSUME NEW u \in UserKeys \cup {-1} PROVE u \in Int
    BY <2>3
  <2> QED
    BY <2>2, <2>4, Zenon
<1> QED
  BY <1>1 DEF Ordered

LEMMA InitiallyMT == MTInit => MTInv
<1> SUFFICES ASSUME MTInit PROVE MTInv
  OBVIOUS
<1> USE NodesAreNumbers
<1>1. 0 \in Levels /\ 1 \in RandomHeight /\ 0 \in 0 .. MaxEntries /\ 0 \in 0 .. kMaxHeight
  BY MemTableAssumption DEF Levels, RandomHeight
<1>2. MTType
  <2>1. entry \in [Entries -> Entered]
    BY DEF MTInit, Entered, ValueTypes
  <2>2. next_ \in [Entries \cup {HeadNode} -> [Levels -> Entries \cup {Nil, Garbage}]]
    BY DEF MTInit, NewNode
  <2>3. writer \in [node : Entries \cup {Nil}, height : 0 .. kMaxHeight, level : 0 .. kMaxHeight,
                    prev : [Levels -> Entries \cup {HeadNode}]]
    BY <1>1 DEF MTInit, NoWriter
  <2>4. reader \in [op : {"none", "search", "done"}, back : BOOLEAN, key : Keyed, seen : 0 .. MaxEntries,
                    x : Entries \cup {HeadNode, Nil}, level : Levels, node : Entries \cup {Nil}]
    BY <1>1 DEF MTInit, NoReader, Keyed, First
  <2> QED
    BY <1>1, <2>1, <2>2, <2>3, <2>4 DEF MTInit, MTType
<1>3. \A i \in Levels : On(i) = {HeadNode} /\ next_[HeadNode][i] = Nil
  BY DEF MTInit, On, NewNode
<1>4. Sorted
  BY <1>3 DEF Sorted, Follows, Ahead
<1>5. Stacked
  BY <1>3 DEF Stacked
<1>6. Inserted
  BY <1>3 DEF Inserted, MTInit, NewNode
<1>7. Reached
  BY DEF Reached, MTInit, NewNode
<1>8. Writing /\ Searching /\ Reading
  BY DEF Writing, Searching, Reading, MTInit, NoWriter, NoReader
<1> QED
  BY <1>2, <1>4, <1>5, <1>6, <1>7, <1>8 DEF MTInv

\* The writer moves under a reader: nothing the reader stands on goes away.
LEMMA ReaderKept ==
  ASSUME MTInv, UNCHANGED reader, lastSeq' \in Int, lastSeq <= lastSeq',
         \A i \in Levels : On(i) \subseteq On(i)',
         \A n \in Entries : n <= lastSeq \/ (\E i \in Levels : n \in On(i)) => entry'[n] = entry[n]
  PROVE  Searching' /\ Reading'
<1> USE NodesAreNumbers
<1>1. /\ MTType /\ Searching /\ Reading /\ reader.level \in Levels /\ 0 \in Levels
      /\ lastSeq \in Int /\ reader.seen \in Int /\ reader.seen <= lastSeq /\ reader.seen <= MaxEntries
      /\ MaxEntries \in Int
  BY MemTableAssumption DEF MTInv, MTType, Levels, Reading
<1>2. Searching'
  <2> SUFFICES ASSUME reader.op = "search"
               PROVE  /\ reader.x \in On(reader.level)'
                      /\ reader.x = HeadNode \/ Below(entry', reader.x, reader.key)
    BY DEF Searching
  <2>1. /\ reader.x \in On(reader.level) /\ reader.level \in Levels
        /\ reader.x = HeadNode \/ Below(entry, reader.x, reader.key)
    BY <1>1 DEF Searching
  <2>2. reader.x \in On(reader.level)'
    BY <2>1
  <2>3. reader.x # HeadNode => entry'[reader.x] = entry[reader.x]
    BY <1>1, <2>1 DEF On
  <2> QED
    BY <2>1, <2>2, <2>3 DEF Below
<1>3. Reading'
  <2>1. reader.seen <= lastSeq'
    BY <1>1
  <2>2. ASSUME reader.op = "done"
        PROVE  /\ reader.node \in On(0)' \cup {Nil} /\ reader.node # HeadNode
               /\ Landed(entry', reader.back, reader.key, reader.seen, reader.node)
    <3>1. /\ reader.node \in On(0) \cup {Nil} /\ reader.node # HeadNode
          /\ Landed(entry, reader.back, reader.key, reader.seen, reader.node)
      BY <1>1, <2>2 DEF Reading
    <3>2. reader.node # Nil => reader.node \in Entries /\ entry'[reader.node] = entry[reader.node]
      BY <1>1, <3>1 DEF On
    <3>3. \A m \in 1 .. reader.seen : m \in Entries /\ entry'[m] = entry[m]
      BY <1>1 DEF Entries
    <3>4. Landed(entry', reader.back, reader.key, reader.seen, reader.node)
      BY <3>1, <3>2, <3>3 DEF Landed, Below, Ahead
    <3> QED
      BY <1>1, <3>1, <3>4
  <2> QED
    BY <1>1, <2>1, <2>2 DEF Reading
<1> QED
  BY <1>2, <1>3

LEMMA PublishedMT == MTInv /\ Published => MTInv'
<1> SUFFICES ASSUME MTInv, Published PROVE MTInv'
  OBVIOUS
<1> USE NodesAreNumbers
<1>1. /\ writer.node # Nil /\ writer.level = writer.height /\ lastSeq' = writer.node /\ writer' = NoWriter
      /\ entry' = entry /\ next_' = next_ /\ heights' = heights /\ reader' = reader
  BY DEF Published
<1>2. /\ MTType /\ Sorted /\ Stacked /\ Inserted /\ Reached /\ Writing
  BY DEF MTInv
<1>3. /\ writer.node = lastSeq + 1 /\ entry[writer.node].user \in UserKeys /\ writer.node \in Entries
      /\ writer.height \in RandomHeight /\ lastSeq \in Nat
      /\ \A i \in Levels : i < writer.level => next_[writer.node][i] # Garbage
      /\ \A i \in Levels : i >= writer.level => next_[writer.node][i] = Garbage
  BY <1>1, <1>2, MemTableAssumption DEF Writing, MTType, Levels, RandomHeight
<1>4. MTType'
  <2>1. NoWriter \in [node : Entries \cup {Nil}, height : 0 .. kMaxHeight, level : 0 .. kMaxHeight,
                      prev : [Levels -> Entries \cup {HeadNode}]]
    BY MemTableAssumption DEF NoWriter
  <2>2. lastSeq' \in 0 .. MaxEntries
    BY <1>1, <1>3, MemTableAssumption DEF Entries
  <2> QED
    BY <1>1, <1>2, <2>1, <2>2 DEF MTType
<1>5. \A i \in Levels : On(i)' = On(i)
  <2> SUFFICES ASSUME NEW i \in Levels, NEW n \in Entries
               PROVE  ~(n = NoWriter.node /\ i = NoWriter.level) /\ ~(next_[n][i] # Garbage /\ n = writer.node /\ i = writer.level)
    BY <1>1 DEF On
  <2>1. NoWriter.node = Nil
    BY DEF NoWriter
  <2>2. i = writer.level => i >= writer.level
    <3>1. i \in Nat
      OBVIOUS
    <3> QED
      BY <3>1
  <2>3. n = writer.node /\ i = writer.level => next_[n][i] = Garbage
    BY <1>3, <2>2
  <2> QED
    BY <2>1, <2>3
<1>6. Sorted' /\ Stacked'
  <2>1. Sorted'
    <3> SUFFICES ASSUME NEW i \in Levels PROVE \A x \in On(i)' : Follows(entry', On(i)', x, next_'[x][i])
      BY DEF Sorted
    <3> QED
      BY <1>1, <1>2, <1>5 DEF Sorted
  <2>2. Stacked'
    BY <1>2, <1>5 DEF Stacked
  <2> QED
    BY <2>1, <2>2
<1>7. Inserted'
  <2>1. 0 \in Levels /\ 0 < writer.level
    BY <1>1, <1>3, MemTableAssumption DEF Levels, RandomHeight
  <2>2. writer.node \in On(0)
    BY <1>3, <2>1 DEF On
  <2>3. \A n \in 1 .. lastSeq' : n \in On(0)' /\ entry'[n].user \in UserKeys
    BY <1>1, <1>2, <1>3, <1>5, <2>1, <2>2 DEF Inserted
  <2>4. \A n \in Entries : n > lastSeq' => \A i \in Levels : next_'[n][i] = Garbage
    <3>1. \A n \in Entries : n > lastSeq' => n > lastSeq /\ n # writer.node
      BY <1>1, <1>3
    <3> QED
      BY <1>1, <1>2, <3>1 DEF Inserted
  <2> QED
    BY <2>3, <2>4 DEF Inserted
<1>8. Reached'
  BY <1>1, <1>2 DEF Reached
<1>9. Writing'
  BY <1>1 DEF Writing, NoWriter
<1>10. Searching' /\ Reading'
  <2>1. lastSeq' \in Int /\ lastSeq <= lastSeq' /\ \A i \in Levels : On(i) \subseteq On(i)'
    BY <1>1, <1>3, <1>5
  <2> QED
    BY <1>1, <2>1, ReaderKept
<1> QED
  BY <1>4, <1>6, <1>7, <1>8, <1>9, <1>10 DEF MTInv

\* What the two steps of the writer on a level know.
LEMMA AtLevel ==
  ASSUME MTInv, writer.node # Nil, writer.level < writer.height
  PROVE  /\ writer.node \in Entries /\ writer.level \in Levels /\ writer.node \notin On(writer.level)
         /\ writer.prev[writer.level] \in Entries \cup {HeadNode}
         /\ writer.level \in Nat /\ writer.height \in Nat /\ writer.height <= kMaxHeight
         /\ writer.prev[writer.level] # writer.node
         /\ Precedes(entry, On(writer.level), writer.prev[writer.level], writer.node)
         /\ On(writer.level) \subseteq Places \ {Nil} /\ Ordered(entry)
<1> USE NodesAreNumbers
<1>1. MTType /\ Writing /\ Ordered(entry)
  BY EntriesOrdered DEF MTInv
<1>2. /\ writer.node \in Entries /\ writer.level \in Nat /\ writer.height \in Nat /\ writer.height <= kMaxHeight
      /\ writer.level \in Levels /\ writer.level <= writer.level
  BY <1>1, MemTableAssumption DEF MTType, Levels
<1>3. writer.node \notin On(writer.level)
  BY <1>2 DEF On
<1>4. Precedes(entry, On(writer.level), writer.prev[writer.level], writer.node)
  BY <1>1, <1>2 DEF Writing
<1>5. writer.prev[writer.level] \in On(writer.level)
  BY <1>4 DEF Precedes
<1> QED
  BY <1>1, <1>2, <1>3, <1>4, <1>5, OnNodes DEF On

LEMMA LinkNextMT == MTInv /\ LinkNext => MTInv'
<1> SUFFICES ASSUME MTInv, LinkNext PROVE MTInv'
  OBVIOUS
<1> USE NodesAreNumbers
<1> DEFINE w == writer.node
           l == writer.level
           p == writer.prev[writer.level]
<1>1. /\ w # Nil /\ l < writer.height /\ next_[w][l] = Garbage
      /\ next_' = [next_ EXCEPT ![w][l] = next_[p][l]]
      /\ entry' = entry /\ heights' = heights /\ writer' = writer /\ lastSeq' = lastSeq /\ reader' = reader
  BY DEF LinkNext
<1>2. /\ MTType /\ Sorted /\ Stacked /\ Inserted /\ Reached /\ Writing
  BY DEF MTInv
<1>3. /\ w \in Entries /\ l \in Levels /\ w \notin On(l) /\ p \in Entries \cup {HeadNode} /\ p # w
      /\ l \in Nat /\ writer.height \in Nat
      /\ Precedes(entry, On(l), p, w) /\ On(l) \subseteq Places \ {Nil} /\ Ordered(entry)
  BY <1>1, AtLevel
<1>4. Follows(entry, On(l), p, next_[p][l])
  BY <1>2, <1>3 DEF Sorted, Precedes
<1>5. Follows(entry, On(l), w, next_[p][l])
  BY <1>3, <1>4, CopiedPointer
<1>6. next_[p][l] \in Entries \cup {Nil} /\ next_[p][l] # Garbage
  BY <1>3, <1>4 DEF Follows, Places, Ahead
<1>7. /\ next_' \in [Entries \cup {HeadNode} -> [Levels -> Entries \cup {Nil, Garbage}]]
      /\ next_'[w][l] = next_[p][l]
      /\ \A n \in Entries \cup {HeadNode}, i \in Levels : ~(n = w /\ i = l) => next_'[n][i] = next_[n][i]
  BY <1>1, <1>2, <1>3, <1>6 DEF MTType
<1> HIDE DEF w, l, p
<1>8. MTType'
  BY <1>1, <1>2, <1>7 DEF MTType
<1>9. \A i \in Levels : On(i)' = On(i)
  BY <1>1, <1>7 DEF On, w, l
<1>10. \A i \in Levels : \A x \in On(i) : next_'[x][i] = next_[x][i]
  BY <1>2, <1>3, <1>7 DEF On
<1>11. Sorted'
  <2> SUFFICES ASSUME NEW i \in Levels, NEW x \in On(i) PROVE Follows(entry, On(i), x, next_'[x][i])
    BY <1>1, <1>9 DEF Sorted
  <2> QED
    BY <1>2, <1>10 DEF Sorted
<1>12. Stacked'
  BY <1>2, <1>9 DEF Stacked
<1>13. Inserted'
  <2>1. 0 \in Levels
    BY MemTableAssumption DEF Levels
  <2>2. \A n \in 1 .. lastSeq' : n \in On(0)' /\ entry'[n].user \in UserKeys
    BY <1>1, <1>2, <1>9, <2>1 DEF Inserted
  <2>3. \A n \in Entries : n > lastSeq /\ n # w => \A i \in Levels : next_'[n][i] = Garbage
    BY <1>2, <1>7 DEF Inserted, w
  <2> QED
    BY <1>1, <2>2, <2>3 DEF Inserted, w
<1>14. Reached'
  <2>1. \E h \in heights : l < h
    <3>1. PICK h \in heights : writer.height <= h
      BY <1>1, <1>2 DEF Writing, w
    <3>2. h \in Nat
      BY <1>2, MemTableAssumption DEF MTType, RandomHeight
    <3> QED
      BY <1>1, <1>3, <3>1, <3>2
  <2> QED
    BY <1>1, <1>2, <1>7, <2>1 DEF Reached
<1>15. Writing'
  <2>1. /\ w = lastSeq + 1 /\ entry[w].user \in UserKeys
        /\ writer.height \in RandomHeight /\ (\E h \in heights : writer.height <= h) /\ l <= writer.height
        /\ \A i \in Levels : i < l => next_[w][i] # Garbage
        /\ \A i \in Levels : i > l \/ i = writer.height => next_[w][i] = Garbage
        /\ \A i \in Levels : l <= i /\ i < writer.height => Precedes(entry, On(i), writer.prev[i], w)
    BY <1>1, <1>2 DEF Writing, w, l
  <2>2. \A i \in Levels : i < l => next_'[w][i] # Garbage
    BY <1>3, <1>7, <2>1
  <2>3. \A i \in Levels : i > l \/ i = writer.height => next_'[w][i] = Garbage
    BY <1>1, <1>3, <1>7, <2>1
  <2>4. \A i \in Levels : i = l /\ next_'[w][i] # Garbage => Follows(entry, On(i), w, next_'[w][i])
    BY <1>5, <1>7
  <2>5. \A i \in Levels : l <= i /\ i < writer.height => Precedes(entry, On(i)', writer.prev[i], w)
    BY <1>9, <2>1
  <2>6. \A i \in Levels : i = l /\ next_'[w][i] # Garbage => Follows(entry, On(i)', w, next_'[w][i])
    BY <1>9, <2>4
  <2> QED
    BY <1>1, <2>1, <2>2, <2>3, <2>5, <2>6 DEF Writing, w, l
<1>16. Searching' /\ Reading'
  <2>1. lastSeq' \in Int /\ lastSeq <= lastSeq' /\ \A i \in Levels : On(i) \subseteq On(i)'
    BY <1>1, <1>2, <1>9, MemTableAssumption DEF MTType
  <2> QED
    BY <1>1, <2>1, ReaderKept
<1> QED
  BY <1>8, <1>11, <1>12, <1>13, <1>14, <1>15, <1>16 DEF MTInv

LEMMA LinkPrevMT == MTInv /\ LinkPrev => MTInv'
<1> SUFFICES ASSUME MTInv, LinkPrev PROVE MTInv'
  OBVIOUS
<1> USE NodesAreNumbers
<1> DEFINE w == writer.node
           l == writer.level
           p == writer.prev[writer.level]
<1>1. /\ w # Nil /\ l < writer.height /\ next_[w][l] # Garbage
      /\ next_' = [next_ EXCEPT ![p][l] = w] /\ writer' = [writer EXCEPT !.level = l + 1]
      /\ entry' = entry /\ heights' = heights /\ lastSeq' = lastSeq /\ reader' = reader
  BY DEF LinkPrev
<1>2. /\ MTType /\ Sorted /\ Stacked /\ Inserted /\ Reached /\ Writing
  BY DEF MTInv
<1>3. /\ w \in Entries /\ l \in Levels /\ w \notin On(l) /\ p \in Entries \cup {HeadNode} /\ p # w
      /\ l \in Nat /\ writer.height \in Nat /\ writer.height <= kMaxHeight
      /\ Precedes(entry, On(l), p, w) /\ On(l) \subseteq Places \ {Nil} /\ Ordered(entry)
  BY <1>1, AtLevel
<1>4. /\ next_' \in [Entries \cup {HeadNode} -> [Levels -> Entries \cup {Nil, Garbage}]]
      /\ next_'[p][l] = w
      /\ \A n \in Entries \cup {HeadNode}, i \in Levels : ~(n = p /\ i = l) => next_'[n][i] = next_[n][i]
  BY <1>1, <1>2, <1>3 DEF MTType
<1>5. /\ writer'.node = w /\ writer'.height = writer.height /\ writer'.level = l + 1 /\ writer'.prev = writer.prev
      /\ writer' \in [node : Entries \cup {Nil}, height : 0 .. kMaxHeight, level : 0 .. kMaxHeight,
                      prev : [Levels -> Entries \cup {HeadNode}]]
  BY <1>1, <1>2, <1>3, MemTableAssumption DEF MTType
<1>6. /\ w = lastSeq + 1 /\ entry[w].user \in UserKeys
      /\ writer.height \in RandomHeight /\ (\E h \in heights : writer.height <= h) /\ l <= writer.height
      /\ \A i \in Levels : i < l => next_[w][i] # Garbage
      /\ \A i \in Levels : i > l \/ i = writer.height => next_[w][i] = Garbage
      /\ \A i \in Levels : l <= i /\ i < writer.height => Precedes(entry, On(i), writer.prev[i], w)
      /\ \A i \in Levels : i = l /\ next_[w][i] # Garbage => Follows(entry, On(i), w, next_[w][i])
  BY <1>1, <1>2 DEF Writing, w, l
<1>7. p \in On(l)
  BY <1>3 DEF Precedes
<1> HIDE DEF w, l, p
<1>8. MTType'
  BY <1>1, <1>2, <1>4, <1>5 DEF MTType
<1>9. \A i \in Levels : i # l => On(i)' = On(i)
  <2> SUFFICES ASSUME NEW i \in Levels, i # l, NEW n \in Entries
               PROVE  (next_'[n][i] # Garbage /\ ~(n = w /\ i = l + 1)) <=> (next_[n][i] # Garbage /\ ~(n = w /\ i = l))
    BY <1>5 DEF On, w, l
  <2>1. next_'[n][i] = next_[n][i]
    BY <1>4
  <2>2. n = w /\ i = l + 1 => next_[n][i] = Garbage
    <3>1. i = l + 1 => i > l
      BY <1>3
    <3> QED
      BY <1>6, <3>1
  <2> QED
    BY <2>1, <2>2
<1>10. \A i \in Levels : i = l => On(i)' = On(i) \cup {w}
  <2> SUFFICES ASSUME NEW i \in Levels, i = l PROVE On(i)' = On(i) \cup {w}
    OBVIOUS
  <2>1. ASSUME NEW n \in Entries
        PROVE  (next_'[n][i] # Garbage /\ ~(n = w /\ i = l + 1)) <=> (n = w \/ (next_[n][i] # Garbage /\ ~(n = w /\ i = l)))
    <3>1. l # l + 1
      BY <1>3
    <3>2. CASE n = p
      <4>1. next_[n][l] # Garbage
        BY <1>3, <1>7, <3>2 DEF On
      <4>2. next_'[n][l] # Garbage
        BY <1>3, <1>4, <3>2
      <4> QED
        BY <1>3, <3>1, <3>2, <4>1, <4>2
    <3>3. CASE n # p
      BY <1>1, <1>3, <1>4, <3>1, <3>3
    <3> QED
      BY <3>2, <3>3
  <2>2. On(i) \cup {w} = {HeadNode} \cup {n \in Entries : n = w \/ (next_[n][i] # Garbage /\ ~(n = w /\ i = l))}
    BY <1>3 DEF On, w, l
  <2>3. On(i)' = {HeadNode} \cup {n \in Entries : next_'[n][i] # Garbage /\ ~(n = w /\ i = l + 1)}
    BY <1>5 DEF On
  <2> QED
    BY <2>1, <2>2, <2>3
<1>11. \A i \in Levels : On(i) \subseteq On(i)'
  BY <1>9, <1>10
<1>12. Sorted'
  <2> SUFFICES ASSUME NEW i \in Levels, NEW x \in On(i)' PROVE Follows(entry, On(i)', x, next_'[x][i])
    BY <1>1 DEF Sorted
  <2>1. x \in Entries \cup {HeadNode}
    BY DEF On
  <2>2. CASE i # l
    BY <1>2, <1>4, <1>9, <2>1, <2>2 DEF Sorted
  <2>3. CASE i = l
    <3>1. /\ Follows(entry, On(l) \cup {w}, p, w)
          /\ \A m : Follows(entry, On(l), w, m) => Follows(entry, On(l) \cup {w}, w, m)
          /\ \A y \in On(l) : \A m : y # p /\ Follows(entry, On(l), y, m) => Follows(entry, On(l) \cup {w}, y, m)
      BY <1>3, StoredPointer
    <3>2. CASE x = p
      BY <1>3, <1>4, <1>10, <2>3, <3>1, <3>2
    <3>3. CASE x = w
      <4>1. Follows(entry, On(l), w, next_[w][l])
        BY <1>1, <1>3, <1>6
      <4>2. next_'[w][l] = next_[w][l]
        BY <1>3, <1>4
      <4> QED
        BY <1>3, <1>10, <2>3, <3>1, <3>3, <4>1, <4>2
    <3>4. CASE x # p /\ x # w
      <4>1. x \in On(l)
        BY <1>3, <1>10, <2>3, <3>4
      <4>2. Follows(entry, On(l), x, next_[x][l])
        BY <1>2, <1>3, <4>1 DEF Sorted
      <4>3. next_'[x][l] = next_[x][l]
        BY <1>3, <1>4, <2>1, <3>4
      <4> QED
        BY <1>3, <1>10, <2>3, <3>1, <3>4, <4>1, <4>2, <4>3
    <3> QED
      BY <3>2, <3>3, <3>4
  <2> QED
    BY <2>2, <2>3
<1>13. Stacked'
  <2> SUFFICES ASSUME NEW i \in Levels, NEW j \in Levels, j <= i PROVE On(i)' \subseteq On(j)'
    BY DEF Stacked
  <2>1. On(i) \subseteq On(j)
    BY <1>2 DEF Stacked
  <2>2. CASE i # l
    BY <1>9, <1>11, <2>1, <2>2
  <2>3. CASE i = l
    <3>1. CASE j = l
      BY <2>3, <3>1
    <3>2. CASE j # l
      <4>1. j < l
        BY <1>3, <2>3, <3>2
      <4>2. w \in On(j)
        BY <1>3, <1>6, <3>2, <4>1 DEF On, w, l
      <4> QED
        BY <1>3, <1>9, <1>10, <2>1, <2>3, <3>2, <4>2
    <3> QED
      BY <3>1, <3>2
  <2> QED
    BY <2>2, <2>3
<1>14. Inserted'
  <2>1. 0 \in Levels
    BY MemTableAssumption DEF Levels
  <2>2. \A n \in 1 .. lastSeq' : n \in On(0)' /\ entry'[n].user \in UserKeys
    BY <1>1, <1>2, <1>11, <2>1 DEF Inserted
  <2>3. ASSUME NEW n \in Entries, n > lastSeq, n # w, NEW i \in Levels PROVE next_'[n][i] = Garbage
    <3>1. next_[n][i] = Garbage
      BY <1>2, <2>3 DEF Inserted, w
    <3>2. n = p /\ i = l => FALSE
      BY <1>7, <3>1 DEF On
    <3> QED
      BY <1>4, <3>1, <3>2
  <2> QED
    BY <1>1, <1>5, <2>2, <2>3 DEF Inserted
<1>15. Reached'
  <2> SUFFICES ASSUME NEW n \in Entries, NEW i \in Levels, next_'[n][i] # Garbage PROVE \E h \in heights : i < h
    BY <1>1 DEF Reached
  <2>1. next_[n][i] # Garbage
    BY <1>4, <1>7 DEF On
  <2> QED
    BY <1>2, <2>1 DEF Reached
<1>16. Writing'
  <2>1. \A i \in Levels : next_'[w][i] = next_[w][i]
    BY <1>3, <1>4
  <2>2. l + 1 <= writer.height
    BY <1>1, <1>3
  <2>3. \A i \in Levels : i < l + 1 => next_'[w][i] # Garbage
    <3>1. \A i \in Levels : i < l + 1 => i < l \/ i = l
      BY <1>3
    <3> QED
      BY <1>1, <1>6, <2>1, <3>1
  <2>4. \A i \in Levels : i > l + 1 \/ i = writer.height => next_'[w][i] = Garbage
    <3>1. \A i \in Levels : i > l + 1 => i > l
      BY <1>3
    <3> QED
      BY <1>6, <2>1, <3>1
  <2>5. \A i \in Levels : l + 1 <= i /\ i < writer.height => Precedes(entry, On(i)', writer.prev[i], w)
    <3>1. \A i \in Levels : l + 1 <= i => l <= i /\ i # l
      BY <1>3
    <3> QED
      BY <1>6, <1>9, <3>1
  <2>6. \A i \in Levels : i = l + 1 => next_'[w][i] = Garbage
    <3>1. \A i \in Levels : i = l + 1 => i > l
      BY <1>3
    <3> QED
      BY <1>6, <2>1, <3>1
  <2> QED
    BY <1>1, <1>5, <1>6, <2>2, <2>3, <2>4, <2>5, <2>6 DEF Writing
<1>17. Searching' /\ Reading'
  <2>1. lastSeq' \in Int /\ lastSeq <= lastSeq'
    BY <1>1, <1>2, MemTableAssumption DEF MTType
  <2> QED
    BY <1>1, <1>11, <2>1, ReaderKept
<1> QED
  BY <1>8, <1>12, <1>13, <1>14, <1>15, <1>16, <1>17 DEF MTInv

\* The search of Insert finds the place of the new entry on every level.
LEMMA SearchFinds ==
  ASSUME MTInv, writer.node = Nil, NEW user \in UserKeys, NEW e, NEW w \in Entries, w = lastSeq + 1,
         e[w].user = user, \A n \in Entries : n # w => e[n] = entry[n],
         NEW i \in Levels
  PROVE  Precedes(e, On(i), IF i < max_height THEN PrevAt(i, [user |-> user, seq |-> w]) ELSE HeadNode, w)
<1> USE NodesAreNumbers
<1> DEFINE key == [user |-> user, seq |-> w]
           before == {n \in Entries : entry[n].user # -1 /\ next_[n][i] # Garbage /\ Less(KeyOf(n), key)}
<1>1. MTType /\ Inserted /\ Reached /\ Ordered(entry) /\ lastSeq \in Nat
  BY EntriesOrdered, MemTableAssumption DEF MTInv, MTType
<1>2. ASSUME NEW n \in On(i), n # HeadNode
      PROVE  n \in Entries /\ n \in 1 .. lastSeq /\ n # w /\ entry[n].user \in UserKeys /\ next_[n][i] # Garbage
  <2>1. n \in Entries /\ next_[n][i] # Garbage
    BY <1>2 DEF On
  <2>2. ~(n > lastSeq)
    BY <1>1, <2>1 DEF Inserted
  <2>3. n \in 1 .. lastSeq
    BY <1>1, <2>1, <2>2 DEF Entries
  <2> QED
    BY <1>1, <2>1, <2>3 DEF Inserted
<1>3. \A n \in Entries : next_[n][i] # Garbage => n \in On(i) /\ n # HeadNode
  BY DEF On
<1>4. UserKeys \subseteq Nat /\ user \in Nat
  BY MemTableAssumption
<1>5. \A n \in Entries : n # w => (Less(KeyOf(n), key) <=> Ahead(e, n, w))
  BY DEF Less, KeyOf, Ahead
<1>6. Ahead(e, HeadNode, w)
  BY DEF Ahead
<1>7. \A n \in On(i) : n # HeadNode /\ Ahead(e, n, w) => n \in before
  <2> SUFFICES ASSUME NEW n \in On(i), n # HeadNode, Ahead(e, n, w) PROVE n \in before
    OBVIOUS
  <2>1. n \in Entries /\ n # w /\ entry[n].user \in UserKeys /\ next_[n][i] # Garbage
    BY <1>2
  <2>2. entry[n].user # -1
    BY <1>4, <2>1
  <2> QED
    BY <1>5, <2>1, <2>2
<1>8. ASSUME NEW n \in before PROVE n \in On(i) /\ n # HeadNode /\ Ahead(e, n, w) /\ entry[n].user \in UserKeys /\ n # w
  <2>1. n \in On(i) /\ n # HeadNode
    BY <1>3
  <2> QED
    BY <1>2, <1>5, <2>1
<1>9. CASE i < max_height /\ before # {}
  <2> DEFINE q == CHOOSE n \in before : \A m \in before : m = n \/ Less(KeyOf(m), KeyOf(n))
  <2>1. PICK r \in before : \A m \in before : m = r \/ Ahead(entry, m, r)
    <3>1. before \subseteq Entries /\ \A n \in before : entry[n].user \in UserKeys
      BY <1>8
    <3> HIDE DEF before
    <3> QED
      BY <1>9, <3>1, LastBefore
  <2>2. \A m, n \in before : Ahead(entry, m, n) <=> Less(KeyOf(m), KeyOf(n))
    BY DEF Ahead, Less, KeyOf
  <2>3. r \in before /\ \A m \in before : m = r \/ Less(KeyOf(m), KeyOf(r))
    <3> HIDE DEF before
    <3> QED
      BY <2>1, <2>2
  <2>4. q \in before /\ \A m \in before : m = q \/ Less(KeyOf(m), KeyOf(q))
    <3> HIDE DEF before
    <3> QED
      BY <2>3
  <2> HIDE DEF q
  <2>5. PrevAt(i, key) = q
    BY <1>9 DEF PrevAt, q
  <2>6. \A m \in before : ~Ahead(e, q, m)
    <3> SUFFICES ASSUME NEW m \in before, Ahead(e, q, m) PROVE FALSE
      OBVIOUS
    <3>1. q # w /\ m # w /\ q \in Entries /\ m \in Entries
      BY <1>8, <2>4
    <3>2. Ahead(entry, q, m)
      BY <3>1 DEF Ahead
    <3>3. m = q \/ Ahead(entry, m, q)
      BY <2>2, <2>4
    <3> QED
      BY <1>1, <3>1, <3>2, <3>3, AheadStrict DEF Places
  <2>7. \A n \in On(i) : ~(Ahead(e, q, n) /\ Ahead(e, n, w))
    <3> SUFFICES ASSUME NEW n \in On(i), Ahead(e, q, n), Ahead(e, n, w) PROVE FALSE
      OBVIOUS
    <3>1. n # HeadNode
      BY DEF Ahead
    <3> QED
      BY <1>7, <2>6, <3>1
  <2> QED
    BY <1>8, <1>9, <2>4, <2>5, <2>7 DEF Precedes
<1>10. CASE before = {}
  <2>1. (IF i < max_height THEN PrevAt(i, key) ELSE HeadNode) = HeadNode
    BY <1>10 DEF PrevAt
  <2>2. \A n \in On(i) : ~(Ahead(e, HeadNode, n) /\ Ahead(e, n, w))
    <3>1. ~Ahead(e, HeadNode, HeadNode)
      BY DEF Ahead
    <3> HIDE DEF before
    <3> QED
      BY <1>7, <1>10, <3>1
  <2>3. HeadNode \in On(i)
    BY DEF On
  <2> QED
    BY <1>6, <2>1, <2>2, <2>3 DEF Precedes
<1>11. CASE ~(i < max_height)
  <2>1. max_height \in heights /\ \A h \in heights : h <= max_height
    <3>1. heights \subseteq Nat /\ heights # {} /\ IsFiniteSet(heights)
      <4>1. IsFiniteSet(RandomHeight) /\ RandomHeight \subseteq Nat
        BY MemTableAssumption, FS_Interval DEF RandomHeight
      <4> QED
        BY <1>1, <4>1, FS_Subset DEF MTType
    <3> QED
      BY <3>1, MaxIsGreatest DEF max_height
  <2>2. heights \subseteq Nat /\ i \in Nat
    BY <1>1, MemTableAssumption DEF MTType, RandomHeight
  <2>3. ~ \E h \in heights : i < h
    BY <1>11, <2>1, <2>2
  <2>4. before = {}
    BY <1>1, <2>3 DEF Reached
  <2> QED
    BY <1>10, <2>4
<1> QED
  BY <1>9, <1>10, <1>11

LEMMA AddMT ==
  ASSUME MTInv, NEW user \in UserKeys, NEW type \in ValueTypes, NEW height \in RandomHeight, Add(user, type, height)
  PROVE  MTInv'
<1> USE NodesAreNumbers
<1> DEFINE w == lastSeq + 1
           places == [i \in Levels |-> IF i < max_height THEN PrevAt(i, [user |-> user, seq |-> lastSeq + 1]) ELSE HeadNode]
<1>1. /\ writer.node = Nil /\ lastSeq < MaxEntries
      /\ writer' = [node |-> w, height |-> height, level |-> 0, prev |-> places]
      /\ entry' = [entry EXCEPT ![w] = [user |-> user, type |-> type]]
      /\ heights' = (IF height > max_height THEN heights \cup {height} ELSE heights)
      /\ next_' = next_ /\ lastSeq' = lastSeq /\ reader' = reader
  BY DEF Add
<1>2. /\ MTType /\ Sorted /\ Stacked /\ Inserted /\ Reached /\ Ordered(entry) /\ lastSeq \in Nat
  BY EntriesOrdered, MemTableAssumption DEF MTInv, MTType
<1>3. w \in Entries /\ w \in Nat /\ w > lastSeq
  BY <1>1, <1>2, MemTableAssumption DEF Entries
<1>4. /\ entry' \in [Entries -> Entered] /\ entry'[w].user = user /\ \A n \in Entries : n # w => entry'[n] = entry[n]
  BY <1>1, <1>2, <1>3 DEF MTType, Entered
<1>5. \A i \in Levels : Precedes(entry', On(i), places[i], w)
  BY <1>1, <1>3, <1>4, SearchFinds
<1>6. \A i \in Levels : places[i] \in Entries \cup {HeadNode}
  BY <1>5 DEF Precedes, On
<1> HIDE DEF w
<1>7. \A i \in Levels : next_[w][i] = Garbage
  BY <1>1, <1>2, <1>3 DEF Inserted
<1>8. /\ writer'.node = w /\ writer'.height = height /\ writer'.level = 0 /\ writer'.prev = places
      /\ writer' \in [node : Entries \cup {Nil}, height : 0 .. kMaxHeight, level : 0 .. kMaxHeight,
                      prev : [Levels -> Entries \cup {HeadNode}]]
  <2>1. places \in [Levels -> Entries \cup {HeadNode}]
    BY <1>6
  <2>2. height \in 0 .. kMaxHeight /\ 0 \in 0 .. kMaxHeight
    BY MemTableAssumption DEF RandomHeight
  <2> HIDE DEF places
  <2> QED
    BY <1>1, <1>3, <2>1, <2>2
<1>9. /\ heights \subseteq heights' /\ heights' \subseteq RandomHeight /\ heights' # {}
      /\ \E h \in heights' : height <= h
  <2>1. height \in Nat /\ heights \subseteq Nat
    BY <1>2, MemTableAssumption DEF MTType, RandomHeight
  <2>2. max_height \in heights
    <3>1. IsFiniteSet(heights)
      <4>1. IsFiniteSet(RandomHeight)
        BY MemTableAssumption, FS_Interval DEF RandomHeight
      <4> QED
        BY <1>2, <4>1, FS_Subset DEF MTType
    <3> QED
      BY <1>2, <2>1, <3>1, MaxIsGreatest DEF max_height, MTType
  <2>3. max_height \in Nat
    BY <2>1, <2>2
  <2>4. CASE height > max_height
    BY <1>1, <1>2, <2>1, <2>4 DEF MTType
  <2>5. CASE ~(height > max_height)
    <3>1. height <= max_height
      BY <2>1, <2>3, <2>5
    <3> QED
      BY <1>1, <1>2, <2>2, <2>5, <3>1 DEF MTType
  <2> QED
    BY <2>4, <2>5
<1>10. MTType'
  BY <1>1, <1>2, <1>4, <1>8, <1>9 DEF MTType
<1>11. \A i \in Levels : On(i)' = On(i) /\ w \notin On(i)
  <2> SUFFICES ASSUME NEW i \in Levels PROVE On(i)' = On(i) /\ w \notin On(i)
    OBVIOUS
  <2>1. On(i) = {HeadNode} \cup {n \in Entries : next_[n][i] # Garbage}
    BY <1>1 DEF On
  <2>2. On(i)' = {HeadNode} \cup {n \in Entries : next_[n][i] # Garbage /\ ~(n = w /\ i = 0)}
    BY <1>1, <1>8 DEF On
  <2> QED
    BY <1>3, <1>7, <2>1, <2>2
<1>12. \A a, b \in Places : a # w /\ b # w => (Ahead(entry', a, b) <=> Ahead(entry, a, b))
  BY <1>4 DEF Ahead, Places
<1>13. Sorted'
  <2> SUFFICES ASSUME NEW i \in Levels, NEW x \in On(i) PROVE Follows(entry', On(i), x, next_[x][i])
    BY <1>1, <1>11 DEF Sorted
  <2>1. Follows(entry, On(i), x, next_[x][i])
    BY <1>2 DEF Sorted
  <2>2. On(i) \subseteq Places /\ w \notin On(i) /\ Nil \in Places /\ w # Nil
    BY <1>3, <1>11 DEF On, Places
  <2>3. x \in Places /\ x # w /\ next_[x][i] \in Places /\ next_[x][i] # w
    BY <2>1, <2>2 DEF Follows
  <2> QED
    BY <1>12, <2>1, <2>2, <2>3 DEF Follows
<1>14. Stacked'
  BY <1>2, <1>11 DEF Stacked
<1>15. Inserted'
  <2>1. 0 \in Levels
    BY MemTableAssumption DEF Levels
  <2>2. \A n \in 1 .. lastSeq : n \in Entries /\ n # w
    BY <1>1, <1>2, <1>3, MemTableAssumption DEF Entries
  <2>3. \A n \in 1 .. lastSeq : n \in On(0)' /\ entry'[n].user \in UserKeys
    BY <1>2, <1>4, <1>11, <2>1, <2>2 DEF Inserted
  <2>4. \A n \in Entries : n > lastSeq => \A i \in Levels : next_[n][i] = Garbage
    BY <1>1, <1>2 DEF Inserted
  <2> QED
    BY <1>1, <2>3, <2>4 DEF Inserted
<1>16. Reached'
  BY <1>1, <1>2, <1>9 DEF Reached
<1>17. Writing'
  <2> HIDE DEF places
  <2>1. \A i \in Levels : Precedes(entry', On(i)', writer'.prev[i], w)
    BY <1>5, <1>8, <1>11
  <2>2. \A i \in Levels : ~(i < 0) /\ next_'[w][i] = Garbage
    <3>1. \A i \in Nat : ~(i < 0)
      OBVIOUS
    <3> QED
      BY <1>1, <1>7, <3>1
  <2>3. w = lastSeq' + 1 /\ 0 <= height
    BY <1>1, MemTableAssumption DEF w, RandomHeight
  <2> QED
    BY <1>4, <1>8, <1>9, <2>1, <2>2, <2>3 DEF Writing
<1>18. Searching' /\ Reading'
  <2>1. lastSeq' \in Int /\ lastSeq <= lastSeq'
    BY <1>1, <1>2
  <2>2. \A n \in Entries : n <= lastSeq \/ (\E i \in Levels : n \in On(i)) => entry'[n] = entry[n]
    <3>1. ~(w <= lastSeq)
      BY <1>2, <1>3
    <3> QED
      BY <1>4, <1>11, <3>1
  <2> QED
    BY <1>1, <1>11, <2>1, <2>2, ReaderKept
<1> QED
  BY <1>10, <1>13, <1>14, <1>15, <1>16, <1>17, <1>18 DEF MTInv

\* A step of the reader alone.
LEMMA ReaderMoves ==
  ASSUME MTInv, UNCHANGED <<entry, next_, heights, writer, lastSeq>>,
         reader' \in [op : {"none", "search", "done"}, back : BOOLEAN, key : Keyed, seen : 0 .. MaxEntries,
                      x : Entries \cup {HeadNode, Nil}, level : Levels, node : Entries \cup {Nil}],
         reader'.op = "search" => /\ reader'.x \in On(reader'.level)
                                  /\ reader'.x = HeadNode \/ Below(entry, reader'.x, reader'.key),
         reader'.seen <= lastSeq, ~reader'.back => reader'.key.seq <= reader'.seen,
         reader'.op = "done" => /\ reader'.node \in On(0) \cup {Nil} /\ reader'.node # HeadNode
                                /\ Landed(entry, reader'.back, reader'.key, reader'.seen, reader'.node)
  PROVE  MTInv'
<1>1. \A i \in Levels \cup {0} : On(i)' = On(i)
  BY DEF On
<1>2. MTType'
  BY DEF MTInv, MTType
<1>3. Sorted'
  <2> SUFFICES ASSUME NEW i \in Levels PROVE \A x \in On(i)' : Follows(entry', On(i)', x, next_'[x][i])
    BY DEF Sorted
  <2> QED
    BY <1>1 DEF MTInv, Sorted
<1>4. Stacked'
  BY <1>1 DEF MTInv, Stacked
<1>5. Inserted' /\ Reached'
  BY <1>1 DEF MTInv, Inserted, Reached
<1>6. Writing'
  <2> SUFFICES ASSUME writer.node # Nil PROVE Writing'
    BY DEF Writing
  <2>1. \A i \in Levels : writer.level <= i /\ i < writer.height => Precedes(entry', On(i)', writer'.prev[i], writer'.node)
    BY <1>1 DEF MTInv, Writing
  <2>2. \A i \in Levels : i = writer.level /\ next_[writer.node][i] # Garbage =>
              Follows(entry', On(i)', writer'.node, next_'[writer'.node][i])
    BY <1>1 DEF MTInv, Writing
  <2> QED
    BY <2>1, <2>2 DEF MTInv, Writing
<1>7. Searching'
  <2>1. reader'.level \in Levels
    OBVIOUS
  <2> QED
    BY <1>1, <2>1 DEF Searching
<1>8. Reading'
  BY <1>1 DEF Reading
<1> QED
  BY <1>2, <1>3, <1>4, <1>5, <1>6, <1>7, <1>8 DEF MTInv

\* Two nodes of level 0 that follow each other, with the boundary between
\* them: nothing that was inserted before can be missed.
LEMMA Lands ==
  ASSUME MTInv, NEW x \in On(0), NEW k \in Keyed,
         x = HeadNode \/ Below(entry, x, k),
         next_[x][0] # Nil => ~Below(entry, next_[x][0], k)
  PROVE  /\ next_[x][0] \in On(0) \cup {Nil} /\ next_[x][0] \in Entries \cup {Nil}
         /\ Landed(entry, FALSE, k, lastSeq, next_[x][0])
         /\ Landed(entry, TRUE, k, lastSeq, IF x = HeadNode THEN Nil ELSE x)
<1> USE NodesAreNumbers
<1> DEFINE n == next_[x][0]
<1>1. 0 \in Levels /\ lastSeq \in Nat /\ lastSeq <= MaxEntries /\ MaxEntries \in Nat
  BY MemTableAssumption DEF MTInv, MTType, Levels
<1>2. Follows(entry, On(0), x, n) /\ Ordered(entry) /\ On(0) \subseteq Places \ {Nil}
  BY <1>1, EntriesOrdered, OnNodes DEF MTInv, Sorted
<1> HIDE DEF n
<1>3. n \in On(0) \cup {Nil} /\ n # HeadNode /\ n \in Places /\ x \in Places
  BY <1>2 DEF Follows, Ahead, Places
<1>4. ASSUME NEW m \in 1 .. lastSeq
      PROVE  m \in On(0) /\ m \in Entries /\ m \in Places /\ m # HeadNode /\ m # Nil
  BY <1>1 DEF MTInv, Inserted, Entries, Places
<1>5. ASSUME NEW m \in 1 .. lastSeq PROVE (m = x \/ Ahead(entry, m, x)) \/ (m = n \/ Ahead(entry, n, m))
  <2>1. ~(Ahead(entry, x, m) /\ Ahead(entry, m, n))
    BY <1>2, <1>4 DEF Follows
  <2>2. m = x \/ Ahead(entry, m, x) \/ Ahead(entry, x, m)
    BY <1>2, <1>3, <1>4, AheadTotal
  <2>3. m = n \/ Ahead(entry, m, n) \/ Ahead(entry, n, m)
    BY <1>2, <1>3, <1>4, AheadTotal
  <2> QED
    BY <2>1, <2>2, <2>3
<1>6. ASSUME NEW m \in 1 .. lastSeq, m = x \/ Ahead(entry, m, x) PROVE x # HeadNode /\ Below(entry, m, k)
  <2>1. x # HeadNode /\ x # Nil /\ x \in Entries
    BY <1>2, <1>3, <1>4, <1>6 DEF Ahead, Places
  <2>2. entry[m].user \in Int /\ entry[x].user \in Int /\ k.user \in Int /\ k.seq \in Int /\ m \in Int /\ x \in Int
    BY <1>2, <1>4, <2>1 DEF Ordered, Keyed
  <2> QED
    BY <1>4, <1>6, <2>1, <2>2 DEF Ahead, Below
<1>7. ASSUME NEW m \in 1 .. lastSeq, m = n \/ Ahead(entry, n, m) PROVE n # Nil /\ ~Below(entry, m, k)
  <2>1. n # Nil /\ n \in Entries
    BY <1>3, <1>4, <1>7 DEF Ahead, Places
  <2>2. entry[m].user \in Int /\ entry[n].user \in Int /\ k.user \in Int /\ k.seq \in Int /\ m \in Int /\ n \in Int
    BY <1>2, <1>4, <2>1 DEF Ordered, Keyed
  <2>3. ~Below(entry, n, k)
    BY <2>1 DEF n
  <2> QED
    BY <1>3, <1>4, <1>7, <2>1, <2>2, <2>3 DEF Ahead, Below
<1>8. Landed(entry, FALSE, k, lastSeq, n)
  <2>1. n # Nil => ~Below(entry, n, k)
    BY DEF n
  <2>2. ASSUME NEW m \in 1 .. lastSeq, ~Below(entry, m, k) PROVE n # Nil /\ ~Ahead(entry, m, n)
    <3>1. m = n \/ Ahead(entry, n, m)
      BY <1>5, <1>6, <2>2
    <3>2. n # Nil
      BY <1>7, <3>1
    <3> QED
      BY <1>2, <1>3, <1>4, <3>1, <3>2, AheadStrict
  <2> QED
    BY <2>1, <2>2 DEF Landed
<1>9. Landed(entry, TRUE, k, lastSeq, IF x = HeadNode THEN Nil ELSE x)
  <2>1. ASSUME NEW m \in 1 .. lastSeq, Below(entry, m, k) PROVE x # HeadNode /\ ~Ahead(entry, x, m)
    <3>1. m = x \/ Ahead(entry, m, x)
      BY <1>5, <1>7, <2>1
    <3>2. x # HeadNode
      BY <1>6, <3>1
    <3> QED
      BY <1>2, <1>3, <1>4, <3>1, <3>2, AheadStrict
  <2>2. x # Nil
    BY <1>2
  <2> QED
    BY <2>1, <2>2 DEF Landed
<1> QED
  BY <1>3, <1>8, <1>9 DEF n, Places

Readers == [op : {"none", "search", "done"}, back : BOOLEAN, key : Keyed, seen : 0 .. MaxEntries,
            x : Entries \cup {HeadNode, Nil}, level : Levels, node : Entries \cup {Nil}]

LEMMA SearchMT ==
  ASSUME MTInv, UNCHANGED <<entry, next_, heights, writer, lastSeq>>,
         NEW back \in BOOLEAN, NEW key \in Keyed, NEW h \in heights, Search(back, key, h),
         ~back => key.seq <= lastSeq
  PROVE  MTInv'
<1>1. h - 1 \in Levels /\ lastSeq \in 0 .. MaxEntries /\ lastSeq <= lastSeq
  BY MemTableAssumption DEF MTInv, MTType, RandomHeight, Levels
<1>2. reader' = [op |-> "search", back |-> back, key |-> key, seen |-> lastSeq,
                 x |-> HeadNode, level |-> h - 1, node |-> Nil]
  BY DEF Search
<1>3. reader' \in Readers
  BY <1>1, <1>2 DEF Readers
<1>4. HeadNode \in On(h - 1)
  BY DEF On
<1> QED
  BY <1>1, <1>2, <1>3, <1>4, ReaderMoves DEF Readers

LEMMA FollowMT ==
  ASSUME MTInv, UNCHANGED <<entry, next_, heights, writer, lastSeq>>,
         NEW key \in Keyed, NEW n \in On(0), Follow(key, n), key.seq <= lastSeq,
         n = HeadNode \/ Below(entry, n, key), next_[n][0] # Nil => ~Below(entry, next_[n][0], key)
  PROVE  MTInv'
<1>1. 0 \in Levels /\ lastSeq \in 0 .. MaxEntries /\ lastSeq <= lastSeq
  BY MemTableAssumption DEF MTInv, MTType, Levels
<1>2. reader' = [op |-> "done", back |-> FALSE, key |-> key, seen |-> lastSeq, x |-> n, level |-> 0, node |-> next_[n][0]]
  BY DEF Follow
<1>3. /\ next_[n][0] \in On(0) \cup {Nil} /\ next_[n][0] \in Entries \cup {Nil}
      /\ Landed(entry, FALSE, key, lastSeq, next_[n][0])
  BY Lands
<1>4. reader' \in Readers
  <2>1. n \in Entries \cup {HeadNode, Nil}
    BY DEF On
  <2> QED
    BY <1>1, <1>2, <1>3, <2>1 DEF Readers
<1>5. next_[n][0] # HeadNode
  BY <1>3, NodesAreNumbers
<1> QED
  BY <1>1, <1>2, <1>3, <1>4, <1>5, ReaderMoves DEF Readers

LEMMA LoadMT ==
  ASSUME MTInv, UNCHANGED <<entry, next_, heights, writer, lastSeq>>, Load
  PROVE  MTInv'
<1> USE NodesAreNumbers
<1> DEFINE x == reader.x
           l == reader.level
           n == next_[reader.x][reader.level]
<1>1. /\ reader.op = "search" /\ x \in On(l) /\ l \in Levels /\ l \in Nat
      /\ x = HeadNode \/ Below(entry, x, reader.key)
      /\ reader.seen <= lastSeq /\ (~reader.back => reader.key.seq <= reader.seen)
      /\ reader \in Readers
  BY DEF Load, MTInv, Searching, Reading, MTType, Readers
<1>2. Follows(entry, On(l), x, n) /\ Stacked /\ On(l) \subseteq Entries \cup {HeadNode} /\ x \in Entries \cup {HeadNode}
  BY <1>1 DEF MTInv, Sorted, On
<1>3. n \in On(l) \cup {Nil} /\ n \in Entries \cup {Nil}
  BY <1>2 DEF Follows, Ahead
<1>4. KeyIsAfterNode(reader.key, n) <=> n # Nil /\ Below(entry, n, reader.key)
  BY DEF KeyIsAfterNode, Less, KeyOf, Below
<1>5. CASE KeyIsAfterNode(reader.key, n)
  <2>1. reader' = [reader EXCEPT !.x = n]
    BY <1>5 DEF Load
  <2>2. n \in On(l) /\ Below(entry, n, reader.key) /\ n \in Entries \cup {HeadNode, Nil}
    BY <1>3, <1>4, <1>5
  <2> HIDE DEF n
  <2>3. /\ reader'.op = "search" /\ reader'.x = n /\ reader'.level = l /\ reader'.key = reader.key
        /\ reader'.back = reader.back /\ reader'.seen = reader.seen /\ reader' \in Readers
    BY <1>1, <2>1, <2>2 DEF Readers
  <2> QED
    BY <1>1, <2>2, <2>3, ReaderMoves DEF Readers
<1>6. CASE ~KeyIsAfterNode(reader.key, n) /\ l > 0
  <2>1. reader' = [reader EXCEPT !.level = l - 1]
    BY <1>6 DEF Load
  <2>2. l - 1 \in Levels /\ l - 1 <= l
    BY <1>1, <1>6, MemTableAssumption DEF Levels
  <2>3. x \in On(l - 1)
    BY <1>1, <1>2, <2>2 DEF Stacked
  <2> HIDE DEF n
  <2>4. /\ reader'.op = "search" /\ reader'.x = x /\ reader'.level = l - 1 /\ reader'.key = reader.key
        /\ reader'.back = reader.back /\ reader'.seen = reader.seen /\ reader' \in Readers
    BY <1>1, <2>1, <2>2 DEF Readers
  <2> QED
    BY <1>1, <2>3, <2>4, ReaderMoves DEF Readers
<1>7. CASE ~KeyIsAfterNode(reader.key, n) /\ ~(l > 0)
  <2> DEFINE result == IF ~reader.back THEN n ELSE IF x = HeadNode THEN Nil ELSE x
  <2>1. reader' = [reader EXCEPT !.op = "done", !.node = result]
    BY <1>7 DEF Load
  <2>2. l = 0
    BY <1>1, <1>7
  <2>3. reader.key \in Keyed /\ reader.back \in BOOLEAN /\ reader.seen \in Nat /\ lastSeq \in Nat
    BY <1>1, MemTableAssumption DEF Readers, MTInv, MTType
  <2>4. /\ Landed(entry, FALSE, reader.key, lastSeq, n)
        /\ Landed(entry, TRUE, reader.key, lastSeq, IF x = HeadNode THEN Nil ELSE x)
    <3>1. n # Nil => ~Below(entry, n, reader.key)
      BY <1>4, <1>7
    <3> QED
      BY <1>1, <2>2, <2>3, <3>1, Lands
  <2>5. Landed(entry, reader.back, reader.key, lastSeq, result)
    <3>1. CASE reader.back
      <4>1. reader.back = TRUE /\ result = (IF x = HeadNode THEN Nil ELSE x)
        BY <2>3, <3>1
      <4> HIDE DEF result
      <4> QED
        BY <2>4, <4>1
    <3>2. CASE ~reader.back
      <4>1. reader.back = FALSE /\ result = n
        BY <2>3, <3>2
      <4> HIDE DEF result
      <4> QED
        BY <2>4, <4>1
    <3> QED
      BY <3>1, <3>2
  <2>6. result \in On(0) \cup {Nil} /\ result \in Entries \cup {Nil} /\ result # HeadNode
    BY <1>1, <1>2, <1>3, <2>2
  <2>7. Landed(entry, reader.back, reader.key, reader.seen, result)
    <3> HIDE DEF result
    <3>1. \A m \in 1 .. reader.seen : m \in 1 .. lastSeq
      BY <1>1, <2>3
    <3> QED
      BY <2>5, <3>1 DEF Landed
  <2> HIDE DEF result, n
  <2>8. /\ reader'.op = "done" /\ reader'.node = result /\ reader'.key = reader.key
        /\ reader'.back = reader.back /\ reader'.seen = reader.seen /\ reader' \in Readers
    BY <1>1, <2>1, <2>6 DEF Readers
  <2> QED
    BY <1>1, <2>6, <2>7, <2>8, ReaderMoves DEF Readers
<1> QED
  BY <1>5, <1>6, <1>7

LEMMA ReaderStepMT == MTInv /\ ReaderStep => MTInv'
<1> SUFFICES ASSUME MTInv, ReaderStep PROVE MTInv'
  OBVIOUS
<1> USE NodesAreNumbers
<1>1. UNCHANGED <<entry, next_, heights, writer, lastSeq>>
  BY DEF ReaderStep
<1>2. /\ lastSeq \in Nat /\ UserKeys \subseteq Nat /\ Ordered(entry) /\ MTType /\ 0 \in Levels
  BY EntriesOrdered, MemTableAssumption DEF MTInv, MTType, Levels
<1>3. CASE Seek
  <2>1. PICK u \in UserKeys, s \in 0 .. lastSeq, h \in heights : Search(FALSE, [user |-> u, seq |-> s], h)
    BY <1>3 DEF Seek
  <2>2. [user |-> u, seq |-> s] \in Keyed /\ [user |-> u, seq |-> s].seq <= lastSeq
    BY <1>2 DEF Keyed
  <2> QED
    BY <1>1, <2>1, <2>2, SearchMT
<1>4. CASE Prev
  <2>1. PICK h \in heights : Search(TRUE, KeyOf(reader.node), h)
    BY <1>4 DEF Prev
  <2>2. KeyOf(reader.node) \in Keyed
    <3>1. reader.node \in Entries
      BY <1>2, <1>4 DEF Prev, Valid, MTType
    <3>2. entry[reader.node].user \in Int
      BY <1>2, <3>1, Zenon DEF Ordered
    <3>3. reader.node \in Int
      BY <3>1 DEF Entries
    <3> QED
      BY <3>2, <3>3 DEF KeyOf, Keyed
  <2> QED
    BY <1>1, <2>1, <2>2, SearchMT
<1>5. CASE SeekToLast
  <2>1. PICK h \in heights : Search(TRUE, LastBound, h)
    BY <1>5 DEF SeekToLast
  <2>2. LastBound \in Keyed
    <3>1. Max(UserKeys) \in Nat
      BY <1>2, MemTableAssumption, MaxIsGreatest
    <3> QED
      BY <3>1 DEF LastBound, Keyed
  <2> QED
    BY <1>1, <2>1, <2>2, SearchMT
<1>6. CASE SeekToFirst
  <2>1. Follow(First, HeadNode) /\ First \in Keyed /\ First.seq <= lastSeq /\ HeadNode \in On(0)
    BY <1>2, <1>6 DEF SeekToFirst, First, Keyed, On
  <2>2. next_[HeadNode][0] # Nil => ~Below(entry, next_[HeadNode][0], First)
    <3> SUFFICES ASSUME next_[HeadNode][0] # Nil PROVE ~Below(entry, next_[HeadNode][0], First)
      OBVIOUS
    <3>1. next_[HeadNode][0] \in Entries
      <4>1. next_[HeadNode][0] \in On(0) \cup {Nil} /\ next_[HeadNode][0] # HeadNode
        BY <1>2, <2>1 DEF MTInv, Sorted, Follows, Ahead
      <4> QED
        BY <4>1 DEF On
    <3>2. entry[next_[HeadNode][0]].user \in UserKeys \cup {-1}
      BY <1>2, <3>1 DEF MTType, Entered
    <3>3. entry[next_[HeadNode][0]].user \in Nat
      <4>1. next_[HeadNode][0] \in On(0)
        BY <1>2, <2>1, <3>1 DEF MTInv, Sorted, Follows
      <4>2. next_[HeadNode][0] \in 1 .. lastSeq \/ next_[HeadNode][0] = writer.node
        <5>1. next_[next_[HeadNode][0]][0] # Garbage
          BY <3>1, <4>1 DEF On
        <5> QED
          BY <1>2, <3>1, <5>1 DEF MTInv, Inserted, Entries
      <4> QED
        BY <1>2, <3>1, <4>2 DEF MTInv, Inserted, Writing
    <3> QED
      BY <3>3 DEF Below, First
  <2> QED
    BY <1>1, <2>1, <2>2, FollowMT
<1>7. CASE IterNext
  <2> DEFINE n == reader.node
             key == [user |-> entry[reader.node].user, seq |-> reader.node - 1]
  <2>1. /\ Follow(key, n) /\ n \in Entries /\ n \in On(0) /\ n \in Nat
    BY <1>2, <1>7 DEF IterNext, Valid, MTInv, MTType, Reading
  <2>2. entry[n].user \in Int
    BY <1>2, <2>1 DEF Ordered
  <2>3. key \in Keyed /\ Below(entry, n, key)
    BY <2>1, <2>2 DEF Keyed, Below
  <2>4. key.seq <= lastSeq
    <3>1. next_[n][0] # Garbage
      BY <2>1 DEF On
    <3>2. n \in 1 .. lastSeq \/ n = writer.node
      BY <1>2, <2>1, <3>1 DEF MTInv, Inserted, Entries
    <3>3. n <= lastSeq + 1
      BY <1>2, <2>1, <3>2 DEF MTInv, Writing
    <3> QED
      BY <1>2, <2>1, <3>3
  <2>5. next_[n][0] # Nil => ~Below(entry, next_[n][0], key)
    <3> SUFFICES ASSUME next_[n][0] # Nil PROVE ~Below(entry, next_[n][0], key)
      OBVIOUS
    <3>1. Ahead(entry, n, next_[n][0]) /\ next_[n][0] \in On(0)
      BY <1>2, <2>1 DEF MTInv, Sorted, Follows
    <3>2. next_[n][0] \in Entries
      BY <3>1 DEF On, Ahead
    <3>3. entry[next_[n][0]].user \in Int
      BY <1>2, <3>2 DEF Ordered
    <3>4. key.user = entry[n].user /\ key.seq = n - 1 /\ n # HeadNode /\ n # Nil /\ next_[n][0] \in Nat
      BY <2>1, <3>2
    <3> HIDE DEF key, n
    <3> QED
      BY <2>1, <2>2, <3>1, <3>2, <3>3, <3>4 DEF Ahead, Below
  <2> HIDE DEF key, n
  <2> QED
    BY <1>1, <2>1, <2>3, <2>4, <2>5, FollowMT
<1>8. CASE Load
  BY <1>1, <1>8, LoadMT
<1> QED
  BY <1>3, <1>4, <1>5, <1>6, <1>7, <1>8 DEF ReaderStep

LEMMA NextMT == MTInv /\ [MTNext]_mtVars => MTInv'
<1> SUFFICES ASSUME MTInv, [MTNext]_mtVars PROVE MTInv'
  OBVIOUS
<1>1. CASE \E u \in UserKeys, type \in ValueTypes, h \in RandomHeight : Add(u, type, h)
  BY <1>1, AddMT
<1>2. CASE LinkNext
  BY <1>2, LinkNextMT
<1>3. CASE LinkPrev
  BY <1>3, LinkPrevMT
<1>4. CASE Published
  BY <1>4, PublishedMT
<1>5. CASE ReaderStep
  BY <1>5, ReaderStepMT
<1>6. CASE UNCHANGED mtVars
  <2>1. UNCHANGED <<entry, next_, heights, writer, lastSeq, reader>>
    BY <1>6 DEF mtVars
  <2>2. \A i : On(i)' = On(i)
    BY <2>1 DEF On
  <2> QED
    BY <2>1, <2>2 DEF MTInv, MTType, Sorted, Stacked, Inserted, Reached, Writing, Searching, Reading
<1> QED
  BY <1>1, <1>2, <1>3, <1>4, <1>5, <1>6 DEF MTNext

\* Where a search lands is the newest entry its snapshot covers.
LEMMA LandedIsNewest ==
  ASSUME MTInv, reader.op = "done"
  PROVE  GetIsNewest
<1> USE NodesAreNumbers
<1> SUFFICES ASSUME ~reader.back, reader.key.user \in UserKeys PROVE GetIsNewest
  BY DEF GetIsNewest
<1> DEFINE k == reader.key
           n == reader.node
           mine == {m \in 1 .. k.seq : entry[m].user = k.user}
<1>1. /\ k \in Keyed /\ k.user \in Int /\ k.seq \in Int /\ k.seq <= reader.seen /\ reader.seen \in Nat
      /\ reader.seen <= lastSeq /\ lastSeq \in Nat /\ lastSeq <= MaxEntries /\ MaxEntries \in Nat
      /\ n \in Entries \cup {Nil} /\ Ordered(entry)
  BY EntriesOrdered, MemTableAssumption DEF MTInv, MTType, Reading, Keyed
<1>2. /\ n # Nil => ~Below(entry, n, k)
      /\ \A m \in 1 .. reader.seen : ~Below(entry, m, k) => n # Nil /\ ~Ahead(entry, m, n)
  BY DEF MTInv, Reading, Landed
<1>3. \A m \in 1 .. k.seq : m \in 1 .. reader.seen /\ m \in Entries /\ m \in Nat /\ entry[m].user \in Int
  BY <1>1 DEF Entries, Ordered
<1>4. n # Nil => n \in Entries /\ n \in Nat /\ n # 0 /\ entry[n].user \in Int
  BY <1>1 DEF Ordered, HeadNode
<1>5. ASSUME n # Nil, entry[n].user = k.user PROVE n \in mine
  <2>1. n <= k.seq
    BY <1>1, <1>2, <1>4, <1>5 DEF Below
  <2> QED
    BY <1>1, <1>4, <1>5, <2>1
<1>6. CASE mine = {}
  <2>1. ~(n # Nil /\ entry[n].user = k.user)
    BY <1>5, <1>6
  <2> QED
    BY <1>6, <2>1 DEF GetIsNewest, Get, Valid
<1>7. CASE mine # {}
  <2>1. Max(mine) \in mine /\ \A m \in mine : m <= Max(mine)
    <3>1. mine \subseteq Nat /\ IsFiniteSet(mine)
      <4>1. IsFiniteSet(1 .. k.seq)
        <5>1. 1 \in Int /\ k.seq \in Int
          BY <1>1
        <5> HIDE DEF k
        <5> QED
          BY <5>1, FS_Interval
      <4>2. mine \subseteq 1 .. k.seq /\ mine \subseteq Nat
        OBVIOUS
      <4> HIDE DEF mine
      <4> QED
        BY <4>1, <4>2, FS_Subset
    <3> HIDE DEF mine
    <3> QED
      BY <1>7, <3>1, MaxIsGreatest
  <2> DEFINE M == Max(mine)
  <2>2. M \in 1 .. k.seq /\ entry[M].user = k.user /\ M \in Nat /\ M \in Entries
    BY <1>3, <2>1
  <2>3. \A m \in mine : m <= M
    BY <2>1
  <2> HIDE DEF M
  <2>4. ~Below(entry, M, k)
    BY <1>1, <2>2 DEF Below
  <2>5. n # Nil /\ ~Ahead(entry, M, n)
    BY <1>2, <1>3, <2>2, <2>4
  <2>6. n \in Nat /\ n \in Entries /\ entry[n].user \in Int
    BY <1>4, <2>5
  <2>7. entry[n].user = k.user /\ M <= n
    <3>1. ~(k.user < entry[n].user) /\ (entry[n].user = k.user => ~(M > n))
      BY <2>2, <2>5, <2>6 DEF Ahead
    <3>2. ~(entry[n].user < k.user)
      BY <1>2, <2>5 DEF Below
    <3> QED
      BY <1>1, <2>2, <2>6, <3>1, <3>2
  <2>8. n = M
    <3>1. n <= M
      BY <1>5, <2>3, <2>5, <2>7
    <3> QED
      BY <2>2, <2>6, <2>7, <3>1
  <2> QED
    BY <1>7, <2>5, <2>7, <2>8 DEF GetIsNewest, Get, Valid, M
<1> QED
  BY <1>6, <1>7

LEMMA MTInvSuffices == MTInv => NothingSkipped
<1> SUFFICES ASSUME MTInv PROVE NothingSkipped
  OBVIOUS
<1> USE NodesAreNumbers
<1>1. ASSUME NEW i \in Levels, NEW x \in On(i) PROVE next_[x][i] # Garbage
  BY DEF MTInv, Sorted, Follows, On
<1>2. reader.op = "search" => next_[reader.x][reader.level] # Garbage
  BY <1>1 DEF MTInv, MTType, Searching
<1>3. Valid => next_[reader.node][0] # Garbage
  BY DEF MTInv, Reading, Valid, On
<1>4. ASSUME reader.op = "done"
      PROVE  /\ Valid => Less(KeyOf(reader.node), reader.key) = reader.back
             /\ \A m \in 1 .. reader.seen :
                   \/ Less(KeyOf(m), reader.key) # reader.back
                   \/ Valid /\ IF reader.back THEN ~Less(KeyOf(reader.node), KeyOf(m))
                                              ELSE ~Less(KeyOf(m), KeyOf(reader.node))
  <2>1. /\ Landed(entry, reader.back, reader.key, reader.seen, reader.node) /\ reader.back \in BOOLEAN
        /\ Valid <=> reader.node # Nil
    BY <1>4 DEF MTInv, Reading, MTType, Valid
  <2>2. \A m : Less(KeyOf(m), reader.key) <=> Below(entry, m, reader.key)
    BY DEF Less, KeyOf, Below
  <2>3. \A m : Less(KeyOf(m), reader.key) \in BOOLEAN
    BY DEF Less, KeyOf
  <2>4. ASSUME NEW m, NEW n, m # HeadNode, m # Nil, n # HeadNode, n # Nil
        PROVE  Ahead(entry, m, n) <=> Less(KeyOf(m), KeyOf(n))
    BY <2>4 DEF Ahead, Less, KeyOf
  <2>5. reader.node # HeadNode
    BY <1>4 DEF MTInv, Reading
  <2>6. \A m \in 1 .. reader.seen : m # HeadNode /\ m # Nil
    BY DEF HeadNode, Nil
  <2>7. Valid => Less(KeyOf(reader.node), reader.key) = reader.back
    BY <2>1, <2>2, <2>3, Zenon DEF Landed
  <2>8. ASSUME NEW m \in 1 .. reader.seen, ~(Less(KeyOf(m), reader.key) # reader.back)
        PROVE  Valid /\ IF reader.back THEN ~Less(KeyOf(reader.node), KeyOf(m))
                                       ELSE ~Less(KeyOf(m), KeyOf(reader.node))
    <3>1. CASE reader.back
      <4>1. Below(entry, m, reader.key)
        BY <2>2, <2>8, <3>1, Zenon
      <4>2. reader.node # Nil /\ ~Ahead(entry, reader.node, m)
        BY <2>1, <3>1, <4>1, Zenon DEF Landed
      <4> QED
        BY <2>1, <2>4, <2>5, <2>6, <3>1, <4>2, Zenon
    <3>2. CASE ~reader.back
      <4>1. ~Below(entry, m, reader.key)
        BY <2>2, <2>8, <3>2, Zenon
      <4>2. reader.node # Nil /\ ~Ahead(entry, m, reader.node)
        BY <2>1, <3>2, <4>1, Zenon DEF Landed
      <4> QED
        BY <2>1, <2>4, <2>5, <2>6, <3>2, <4>2, Zenon
    <3> QED
      BY <3>1, <3>2
  <2> QED
    BY <2>7, <2>8, Zenon
<1> QED
  BY <1>2, <1>3, <1>4, LandedIsNewest, Zenon DEF NothingSkipped

\* The invariant of the skip list: every level is sorted and part of the one
\* below, and the pointers of the node that is being inserted are stored from
\* below, each before the pointer that leads to it (skiplist.h:337-365).
THEOREM MTInvariant == MTSpec => []MTInv
<1>1. MTInit => MTInv
  BY InitiallyMT
<1>2. MTInv /\ [MTNext]_mtVars => MTInv'
  BY NextMT
<1> QED
  BY <1>1, <1>2, PTL DEF MTSpec

\* NothingSkipped for any keys, heights and number of entries: a reader that
\* takes no lock misses nothing that was inserted before it began, and
\* MemTable::Get returns the newest entry its snapshot covers.
THEOREM NothingSkippedHolds == MTSpec => []NothingSkipped
<1>1. MTInv => NothingSkipped
  BY MTInvSuffices
<1> QED
  BY <1>1, MTInvariant, PTL

-----------------------------------------------------------------------------
(* The in-memory environment: FileState objects and who leads to them.      *)

\* The names and the handles that lead to s.
NamesOf(fm, s) == {n \in Names : fm[n] = s}
HandlesOf(mh, s) == {h \in MemHandles : mh[h].state = s}

In(x, S) == IF x \in S THEN 1 ELSE 0

LEMMA CountMoved ==
  ASSUME NEW D, IsFiniteSet(D), NEW F, F \subseteq D, NEW G, G \subseteq D, NEW d \in D,
         \A x \in D : x # d => (x \in G <=> x \in F)
  PROVE  /\ Cardinality(F) \in Nat /\ Cardinality(G) \in Nat
         /\ Cardinality(G) = Cardinality(F) + In(d, G) - In(d, F)
<1> DEFINE R == F \ {d}
<1>1. IsFiniteSet(F) /\ IsFiniteSet(G) /\ IsFiniteSet(R)
  BY FS_Subset
<1>2. Cardinality(F) \in Nat /\ Cardinality(G) \in Nat /\ Cardinality(R) \in Nat
  BY <1>1, FS_CardinalityType
<1>3. F = (IF d \in F THEN R \cup {d} ELSE R) /\ G = (IF d \in G THEN R \cup {d} ELSE R) /\ d \notin R
  OBVIOUS
<1> HIDE DEF R
<1>4. Cardinality(R \cup {d}) = Cardinality(R) + 1
  BY <1>1, <1>3, FS_AddElement
<1>5. Cardinality(F) = Cardinality(R) + In(d, F)
  <2>1. CASE d \in F
    BY <1>2, <1>3, <1>4, <2>1 DEF In
  <2>2. CASE d \notin F
    <3>1. F = R /\ In(d, F) = 0
      BY <1>3, <2>2 DEF In
    <3> QED
      BY <1>2, <3>1
  <2> QED
    BY <2>1, <2>2
<1>6. Cardinality(G) = Cardinality(R) + In(d, G)
  <2>1. CASE d \in G
    BY <1>2, <1>3, <1>4, <2>1 DEF In
  <2>2. CASE d \notin G
    <3>1. G = R /\ In(d, G) = 0
      BY <1>3, <2>2 DEF In
    <3> QED
      BY <1>2, <3>1
  <2> QED
    BY <2>1, <2>2
<1>7. In(d, F) \in Nat /\ In(d, G) \in Nat
  BY DEF In
<1> QED
  BY <1>2, <1>5, <1>6, <1>7

Same(a, b) == IF a = b THEN 1 ELSE 0

Shaped(f) ==
  f.refs \in Nat /\ f = [refs |-> f.refs, blocks |-> f.blocks, size |-> f.size, written |-> f.written]

METype ==
  /\ file_map \in [Names -> States \cup {NoState, NullState}]
  /\ states = [s \in States |-> states[s]] /\ \A s \in States : Shaped(states[s])
  /\ memHandle = [h \in MemHandles |-> memHandle[h]]
  /\ \A h \in MemHandles :
        /\ memHandle[h] = [kind |-> memHandle[h].kind, state |-> memHandle[h].state, pos |-> memHandle[h].pos]
        /\ memHandle[h].state \in States \cup {NoState}
        /\ memHandle[h].kind = "none" <=> memHandle[h].state = NoState

Counted(fm, ss, mh) ==
  \A s \in States : ss[s].refs = Cardinality(NamesOf(fm, s)) + Cardinality(HandlesOf(mh, s))

MEInv == METype /\ Counted(file_map, states, memHandle)

LEMMA NoStateIsNone == NoState \notin States /\ NullState \notin States /\ NoState # NullState
BY MemEnvAssumption DEF NoState, NullState

LEMMA CountedIsStatesCounted == MEInv => StatesCounted
BY DEF MEInv, Counted, NamesOf, HandlesOf, StatesCounted

LEMMA Referenced ==
  ASSUME NEW ss, ss = [s \in States |-> ss[s]], \A s \in States : Shaped(ss[s]), NEW r \in States
  PROVE  /\ RefState(ss, r) = [s \in States |-> RefState(ss, r)[s]]
         /\ \A s \in States : Shaped(RefState(ss, r)[s]) /\ RefState(ss, r)[s].refs = ss[s].refs + Same(s, r)
<1>1. RefState(ss, r) = [s \in States |-> IF s = r THEN [ss[s] EXCEPT !.refs = ss[r].refs + 1] ELSE ss[s]]
  BY DEF RefState
<1>2. Shaped([ss[r] EXCEPT !.refs = ss[r].refs + 1]) /\ [ss[r] EXCEPT !.refs = ss[r].refs + 1].refs = ss[r].refs + 1
  BY DEF Shaped
<1>3. \A s \in States : ss[s].refs \in Nat /\ ss[s].refs = ss[s].refs + 0
  BY DEF Shaped
<1> QED
  BY <1>1, <1>2, <1>3 DEF Same

LEMMA Unreferenced ==
  ASSUME NEW ss, ss = [s \in States |-> ss[s]], \A s \in States : Shaped(ss[s]), NEW r \in States, ss[r].refs > 0
  PROVE  /\ UnrefState(ss, r) = [s \in States |-> UnrefState(ss, r)[s]]
         /\ \A s \in States : Shaped(UnrefState(ss, r)[s]) /\ UnrefState(ss, r)[s].refs = ss[s].refs - Same(s, r)
<1>1. \A s \in States : ss[s].refs \in Nat /\ ss[s].refs = ss[s].refs - 0
  BY DEF Shaped
<1>2. CASE ss[r].refs = 1
  <2>1. UnrefState(ss, r) = [s \in States |-> IF s = r THEN NewState ELSE ss[s]]
    BY <1>2 DEF UnrefState
  <2>2. Shaped(NewState) /\ NewState.refs = 0
    BY DEF Shaped, NewState
  <2> QED
    BY <1>1, <1>2, <2>1, <2>2 DEF Same
<1>3. CASE ss[r].refs # 1
  <2>1. UnrefState(ss, r) = [s \in States |-> IF s = r THEN [ss[s] EXCEPT !.refs = ss[r].refs - 1] ELSE ss[s]]
    BY <1>3 DEF UnrefState
  <2>2. ss[r].refs - 1 \in Nat
    BY <1>1
  <2>3. Shaped([ss[r] EXCEPT !.refs = ss[r].refs - 1]) /\ [ss[r] EXCEPT !.refs = ss[r].refs - 1].refs = ss[r].refs - 1
    BY <2>2 DEF Shaped
  <2> QED
    BY <1>1, <2>1, <2>3 DEF Same
<1> QED
  BY <1>2, <1>3

LEMMA InitiallyME == MEInit => MEInv
<1> SUFFICES ASSUME MEInit PROVE MEInv
  OBVIOUS
<1> USE NoStateIsNone
<1>1. METype
  BY DEF MEInit, METype, Shaped, NewState, NoHandle
<1>2. \A s \in States : NamesOf(file_map, s) = {} /\ HandlesOf(memHandle, s) = {}
  BY DEF MEInit, NamesOf, HandlesOf, NoHandle
<1>3. \A s \in States : states[s].refs = 0
  BY DEF MEInit, NewState
<1> QED
  BY <1>1, <1>2, <1>3, FS_EmptySet DEF MEInv, Counted

LEMMA CountsAreNumbers ==
  ASSUME NEW fm, NEW mh, NEW s
  PROVE  Cardinality(NamesOf(fm, s)) \in Nat /\ Cardinality(HandlesOf(mh, s)) \in Nat
<1>1. IsFiniteSet(NamesOf(fm, s)) /\ IsFiniteSet(HandlesOf(mh, s))
  BY MemEnvAssumption, FS_Subset DEF NamesOf, HandlesOf
<1> QED
  BY <1>1, FS_CardinalityType

HandleDiff(mh, ng, h, s) ==
  Cardinality(HandlesOf(ng, s)) = Cardinality(HandlesOf(mh, s)) + Same(ng[h].state, s) - Same(mh[h].state, s)

NameDiff(fm, g, n, s) ==
  Cardinality(NamesOf(g, s)) = Cardinality(NamesOf(fm, s)) + Same(g[n], s) - Same(fm[n], s)

\* A handle is of another FileState now, or of none.
LEMMA HandleMoved ==
  ASSUME NEW mh, NEW ng, NEW h \in MemHandles, \A x \in MemHandles : x # h => ng[x] = mh[x], NEW s
  PROVE  HandleDiff(mh, ng, h, s)
<1> DEFINE F == HandlesOf(mh, s)
           G == HandlesOf(ng, s)
<1>1. /\ IsFiniteSet(MemHandles) /\ F \subseteq MemHandles /\ G \subseteq MemHandles
      /\ \A x \in MemHandles : x # h => (x \in G <=> x \in F)
  BY MemEnvAssumption DEF HandlesOf
<1>2. In(h, F) = Same(mh[h].state, s) /\ In(h, G) = Same(ng[h].state, s)
  BY DEF In, Same, HandlesOf
<1> HIDE DEF F, G
<1>3. Cardinality(G) = Cardinality(F) + In(h, G) - In(h, F)
  BY <1>1, CountMoved
<1> QED
  BY <1>2, <1>3 DEF F, G, HandleDiff

\* A name leads to another FileState, or to none.
LEMMA NameMoved ==
  ASSUME NEW fm, NEW g, NEW n \in Names, \A x \in Names : x # n => g[x] = fm[x], NEW s
  PROVE  NameDiff(fm, g, n, s)
<1> DEFINE F == NamesOf(fm, s)
           G == NamesOf(g, s)
<1>1. /\ IsFiniteSet(Names) /\ F \subseteq Names /\ G \subseteq Names
      /\ \A x \in Names : x # n => (x \in G <=> x \in F)
  BY MemEnvAssumption DEF NamesOf
<1>2. In(n, F) = Same(fm[n], s) /\ In(n, G) = Same(g[n], s)
  BY DEF In, Same, NamesOf
<1> HIDE DEF F, G
<1>3. Cardinality(G) = Cardinality(F) + In(n, G) - In(n, F)
  BY <1>1, CountMoved
<1> QED
  BY <1>2, <1>3 DEF F, G, NameDiff

LEMMA SameValues ==
  ASSUME NEW a, NEW b
  PROVE  Same(a, b) \in {0, 1} /\ Same(a, b) = Same(b, a) /\ (a # b => Same(a, b) = 0) /\ Same(a, a) = 1
BY DEF Same

\* A handle gets a reference.
LEMMA Given ==
  ASSUME METype, NEW h \in FreeHandles, NEW kind, kind # "none", NEW r \in States,
         NEW ss, ss = [s \in States |-> ss[s]], \A s \in States : Shaped(ss[s]),
         file_map' \in [Names -> States \cup {NoState, NullState}],
         Counted(file_map', ss, memHandle), Give(ss, h, kind, r)
  PROVE  MEInv'
<1> USE NoStateIsNone
<1>1. h \in MemHandles /\ memHandle[h].state = NoState
  BY DEF FreeHandles, METype
<1>2. states' = RefState(ss, r) /\ memHandle' = [memHandle EXCEPT ![h] = [kind |-> kind, state |-> r, pos |-> 0]]
  BY DEF Give
<1>3. /\ states' = [s \in States |-> states'[s]]
      /\ \A s \in States : Shaped(states'[s]) /\ states'[s].refs = ss[s].refs + Same(s, r)
  <2>1. /\ RefState(ss, r) = [s \in States |-> RefState(ss, r)[s]]
        /\ \A s \in States : Shaped(RefState(ss, r)[s]) /\ RefState(ss, r)[s].refs = ss[s].refs + Same(s, r)
    BY Referenced, Zenon
  <2> QED
    BY ONLY <1>2, <2>1
<1>4. /\ memHandle' = [x \in MemHandles |-> memHandle'[x]]
      /\ memHandle'[h] = [kind |-> kind, state |-> r, pos |-> 0]
      /\ \A x \in MemHandles : x # h => memHandle'[x] = memHandle[x]
  BY <1>1, <1>2 DEF METype
<1>5. METype'
  BY <1>3, <1>4 DEF METype
<1>6. Counted(file_map', states', memHandle')
  <2> SUFFICES ASSUME NEW s \in States
               PROVE  states'[s].refs = Cardinality(NamesOf(file_map', s)) + Cardinality(HandlesOf(memHandle', s))
    BY DEF Counted
  <2>1. ss[s].refs = Cardinality(NamesOf(file_map', s)) + Cardinality(HandlesOf(memHandle, s))
    BY DEF Counted
  <2>2. memHandle'[h].state = r
    BY <1>4
  <2>3. Cardinality(HandlesOf(memHandle', s)) = Cardinality(HandlesOf(memHandle, s)) + Same(r, s) - Same(NoState, s)
    <3>1. HandleDiff(memHandle, memHandle', h, s)
      BY <1>1, <1>4, HandleMoved, Zenon
    <3> QED
      BY <1>1, <2>2, <3>1 DEF HandleDiff
  <2>4. /\ Cardinality(NamesOf(file_map', s)) \in Nat /\ Cardinality(HandlesOf(memHandle, s)) \in Nat
        /\ Same(NoState, s) = 0 /\ Same(r, s) = Same(s, r) /\ Same(s, r) \in {0, 1}
    BY CountsAreNumbers, SameValues
  <2> QED
    BY <1>3, <2>1, <2>3, <2>4
<1> QED
  BY <1>5, <1>6 DEF MEInv

\* new FileState(), with the reference of the map.
LEMMA OpenNew ==
  ASSUME MEInv, NEW h \in FreeHandles, NEW n \in Names, NEW r \in States,
         file_map' = [file_map EXCEPT ![n] = r], file_map[n] = NoState, Give(RefState(states, r), h, "writable", r)
  PROVE  MEInv'
<1> USE NoStateIsNone
<1> DEFINE ss == RefState(states, r)
<1>1. METype /\ Counted(file_map, states, memHandle)
  BY DEF MEInv
<1>2. /\ ss = [s \in States |-> ss[s]]
      /\ \A s \in States : Shaped(ss[s]) /\ ss[s].refs = states[s].refs + Same(s, r)
  BY <1>1, Referenced DEF METype
<1> HIDE DEF ss
<1>3. /\ file_map' \in [Names -> States \cup {NoState, NullState}]
      /\ file_map'[n] = r /\ \A x \in Names : x # n => file_map'[x] = file_map[x]
  BY <1>1 DEF METype
<1>4. Counted(file_map', ss, memHandle)
  <2> SUFFICES ASSUME NEW s \in States
               PROVE  ss[s].refs = Cardinality(NamesOf(file_map', s)) + Cardinality(HandlesOf(memHandle, s))
    BY DEF Counted
  <2>1. Cardinality(NamesOf(file_map', s)) = Cardinality(NamesOf(file_map, s)) + Same(r, s) - Same(NoState, s)
    <3>1. NameDiff(file_map, file_map', n, s)
      BY <1>3, NameMoved, Zenon
    <3> QED
      BY <1>3, <3>1 DEF NameDiff
  <2>2. /\ Cardinality(NamesOf(file_map, s)) \in Nat /\ Cardinality(HandlesOf(memHandle, s)) \in Nat
        /\ Same(NoState, s) = 0 /\ Same(r, s) = Same(s, r) /\ Same(s, r) \in {0, 1}
    BY CountsAreNumbers, SameValues
  <2>3. states[s].refs = Cardinality(NamesOf(file_map, s)) + Cardinality(HandlesOf(memHandle, s))
    BY <1>1 DEF Counted
  <2> QED
    BY <1>2, <2>1, <2>2, <2>3
<1> QED
  BY <1>1, <1>2, <1>3, <1>4, Given DEF ss

Refilled(f, b, z, w) == [f EXCEPT !.blocks = b, !.size = z, !.written = w]

LEMMA ShapeKept ==
  ASSUME NEW f, Shaped(f), NEW b, NEW z, NEW w
  PROVE  Shaped(Refilled(f, b, z, w)) /\ Refilled(f, b, z, w).refs = f.refs
<1>1. f = [refs |-> f.refs, blocks |-> f.blocks, size |-> f.size, written |-> f.written] /\ f.refs \in Nat
  BY DEF Shaped
<1>2. [f EXCEPT !.blocks = b, !.size = z, !.written = w]
        = [[[f EXCEPT !.blocks = b] EXCEPT !.size = z] EXCEPT !.written = w]
  OBVIOUS
<1> DEFINE g1 == [f EXCEPT !.blocks = b]
           g2 == [g1 EXCEPT !.size = z]
           g3 == [g2 EXCEPT !.written = w]
<1>3. [f EXCEPT !.blocks = b, !.size = z, !.written = w] = [refs |-> f.refs, blocks |-> b, size |-> z, written |-> w]
  <2>1. g1 = [refs |-> f.refs, blocks |-> b, size |-> f.size, written |-> f.written]
    BY <1>1
  <2> HIDE DEF g1
  <2>2. g2 = [refs |-> f.refs, blocks |-> b, size |-> z, written |-> f.written]
    BY <2>1
  <2> HIDE DEF g2
  <2>3. g3 = [refs |-> f.refs, blocks |-> b, size |-> z, written |-> w]
    BY <2>2
  <2> QED
    BY <1>2, <2>3, Zenon DEF g1, g2
<1>4. Shaped([refs |-> f.refs, blocks |-> b, size |-> z, written |-> w])
      /\ [refs |-> f.refs, blocks |-> b, size |-> z, written |-> w].refs = f.refs
  BY <1>1 DEF Shaped
<1> QED
  BY <1>3, <1>4, Zenon DEF Refilled

\* Changes of a FileState that is not its count.
LEMMA OtherFields ==
  ASSUME METype, NEW r \in States, NEW f, Shaped(f), f.refs = states[r].refs
  PROVE  LET ss == [states EXCEPT ![r] = f]
         IN  /\ ss = [s \in States |-> ss[s]] /\ \A s \in States : Shaped(ss[s])
             /\ Counted(file_map, states, memHandle) => Counted(file_map, ss, memHandle)
<1> DEFINE ss == [states EXCEPT ![r] = f]
<1>1. ss = [s \in States |-> IF s = r THEN f ELSE states[s]]
  BY DEF METype
<1>2. \A s \in States : ss[s].refs = states[s].refs /\ Shaped(ss[s])
  BY <1>1 DEF METype
<1>3. ss = [s \in States |-> ss[s]]
  BY <1>1
<1> HIDE DEF ss
<1>4. Counted(file_map, states, memHandle) => Counted(file_map, ss, memHandle)
  BY <1>2 DEF Counted
<1> QED
  BY <1>2, <1>3, <1>4 DEF ss

\* What a name or a handle leads to is counted.
LEMMA Positive ==
  ASSUME MEInv, NEW s \in States, (\E n \in Names : file_map[n] = s) \/ (\E h \in MemHandles : memHandle[h].state = s)
  PROVE  states[s].refs > 0
<1>1. states[s].refs = Cardinality(NamesOf(file_map, s)) + Cardinality(HandlesOf(memHandle, s))
  BY DEF MEInv, Counted
<1>2. Cardinality(NamesOf(file_map, s)) \in Nat /\ Cardinality(HandlesOf(memHandle, s)) \in Nat
  BY CountsAreNumbers
<1>3. IsFiniteSet(NamesOf(file_map, s)) /\ IsFiniteSet(HandlesOf(memHandle, s))
  BY MemEnvAssumption, FS_Subset DEF NamesOf, HandlesOf
<1>4. NamesOf(file_map, s) # {} \/ HandlesOf(memHandle, s) # {}
  BY DEF NamesOf, HandlesOf
<1>5. Cardinality(NamesOf(file_map, s)) # 0 \/ Cardinality(HandlesOf(memHandle, s)) # 0
  BY <1>3, <1>4, FS_EmptySet
<1> QED
  BY <1>1, <1>2, <1>5

\* The counts change as the map does at n.
RefsFollow(ss, tt, fm, g, n) ==
  \A s \in States : ss[s].refs \in Nat /\ tt[s].refs = ss[s].refs + Same(g[n], s) - Same(fm[n], s)

\* The map changes at one name; the counts of the FileStates follow it.
LEMMA MapMoved ==
  ASSUME NEW fm, NEW g, NEW n \in Names, \A x \in Names : x # n => g[x] = fm[x],
         NEW ss, NEW tt, NEW mh, Counted(fm, ss, mh), RefsFollow(ss, tt, fm, g, n)
  PROVE  Counted(g, tt, mh)
<1> SUFFICES ASSUME NEW s \in States
             PROVE  tt[s].refs = Cardinality(NamesOf(g, s)) + Cardinality(HandlesOf(mh, s))
  BY DEF Counted
<1>1. Cardinality(NamesOf(g, s)) = Cardinality(NamesOf(fm, s)) + Same(g[n], s) - Same(fm[n], s)
  <2>1. NameDiff(fm, g, n, s)
    BY NameMoved, Zenon
  <2> QED
    BY <2>1 DEF NameDiff
<1>2. /\ Cardinality(NamesOf(fm, s)) \in Nat /\ Cardinality(HandlesOf(mh, s)) \in Nat
      /\ Same(g[n], s) \in {0, 1} /\ Same(fm[n], s) \in {0, 1}
  BY CountsAreNumbers, SameValues
<1>3. ss[s].refs = Cardinality(NamesOf(fm, s)) + Cardinality(HandlesOf(mh, s))
  BY DEF Counted
<1>4. tt[s].refs = ss[s].refs + Same(g[n], s) - Same(fm[n], s)
  BY DEF RefsFollow
<1> QED
  BY <1>1, <1>2, <1>3, <1>4

LEMMA OpenME ==
  ASSUME MEInv, NEW h \in MemHandles, NEW n \in Names,
         \/ \E kind \in {"sequential", "random"} : OpenForRead(h, kind, n)
         \/ NewWritableFile(h, n)
         \/ NewAppendableFile(h, n) /\ ~AppendNew
  PROVE  MEInv'
<1> USE NoStateIsNone
<1>1. /\ METype /\ Counted(file_map, states, memHandle) /\ file_map \in [Names -> States \cup {NoState, NullState}]
      /\ states = [s \in States |-> states[s]] /\ \A s \in States : Shaped(states[s])
  BY DEF MEInv, METype
<1>2. ASSUME NEW kind, kind # "none", h \in FreeHandles, file_map[n] \notin {NoState, NullState},
             Give(states, h, kind, file_map[n]), UNCHANGED file_map
      PROVE  MEInv'
  <2>1. file_map[n] \in States /\ file_map' \in [Names -> States \cup {NoState, NullState}]
    BY <1>1, <1>2
  <2>2. Counted(file_map', states, memHandle)
    BY <1>1, <1>2
  <2> QED
    BY <1>1, <1>2, <2>1, <2>2, Given
<1>3. CASE \E kind \in {"sequential", "random"} : OpenForRead(h, kind, n)
  BY <1>2, <1>3 DEF OpenForRead
<1>4. CASE NewAppendableFile(h, n) /\ ~AppendNew
  BY <1>2, <1>4 DEF NewAppendableFile
<1>5. CASE NewWritableFile(h, n)
  <2>1. CASE file_map[n] = NoState
    <3>1. PICK s \in States : file_map' = [file_map EXCEPT ![n] = s] /\ Give(RefState(states, s), h, "writable", s)
      BY <1>5, <2>1 DEF NewWritableFile
    <3>2. h \in FreeHandles
      BY <1>5 DEF NewWritableFile
    <3> QED
      BY <2>1, <3>1, <3>2, OpenNew
  <2>2. CASE file_map[n] # NoState
    <3> DEFINE r == file_map[n]
               ss == [states EXCEPT ![r] = Truncate(states[r])]
    <3>1. /\ h \in FreeHandles /\ file_map[n] # NullState /\ file_map' = file_map
          /\ Give(ss, h, "writable", r)
      BY <1>5, <2>2 DEF NewWritableFile
    <3>2. r \in States
      BY <1>1, <2>2, <3>1
    <3>3. Shaped(Truncate(states[r])) /\ Truncate(states[r]).refs = states[r].refs
      <4>1. Shaped(states[r])
        BY <1>1, <3>2
      <4> HIDE DEF r
      <4>2. Truncate(states[r]) = Refilled(states[r], <<>>, 0, <<>>)
        BY Zenon DEF Truncate, Refilled
      <4> QED
        BY <4>1, <4>2, ShapeKept
    <3>4. ss = [s \in States |-> ss[s]] /\ (\A s \in States : Shaped(ss[s])) /\ Counted(file_map, ss, memHandle)
      BY <1>1, <3>2, <3>3, OtherFields
    <3> HIDE DEF ss, r
    <3>5. file_map' \in [Names -> States \cup {NoState, NullState}] /\ Counted(file_map', ss, memHandle)
      BY <1>1, <3>1, <3>4
    <3> QED
      BY <1>1, <3>1, <3>2, <3>4, <3>5, Given
  <2> QED
    BY <2>1, <2>2
<1> QED
  BY <1>3, <1>4, <1>5

LEMMA HandleME ==
  ASSUME MEInv, NEW h \in MemHandles,
         \/ \E data : AppendHandle(h, data)
         \/ \E n : ReadHandle(h, n) \/ SkipChecks(h, n)
         \/ SkipMoves(h) \/ DeleteHandle(h)
  PROVE  MEInv'
<1> USE NoStateIsNone
<1> DEFINE r == memHandle[h].state
<1>1. /\ METype /\ Counted(file_map, states, memHandle) /\ file_map \in [Names -> States \cup {NoState, NullState}]
      /\ states = [s \in States |-> states[s]] /\ \A s \in States : Shaped(states[s])
  BY DEF MEInv, METype
<1>2. memHandle[h].kind # "none" => r \in States
  BY <1>1 DEF METype
<1>3. ASSUME NEW data, AppendHandle(h, data) PROVE MEInv'
  <2>1. r \in States
    BY <1>2, <1>3 DEF AppendHandle
  <2> DEFINE f == AppendState(states[r], data)
             ss == [states EXCEPT ![r] = f]
  <2>2. states' = ss /\ file_map' = file_map /\ memHandle' = memHandle
    BY <1>3 DEF AppendHandle
  <2>3. Shaped(f) /\ f.refs = states[r].refs
    <3>1. Shaped(states[r])
      BY <1>1, <2>1
    <3> HIDE DEF r
    <3>2. f = Refilled(states[r], AppendLoop(states[r], data).blocks, AppendLoop(states[r], data).size,
                       states[r].written \o data)
      BY Zenon DEF AppendState, Refilled
    <3> HIDE DEF f
    <3> QED
      BY <3>1, <3>2, ShapeKept
  <2> HIDE DEF r, f
  <2>4. ss = [s \in States |-> ss[s]] /\ (\A s \in States : Shaped(ss[s])) /\ Counted(file_map, ss, memHandle)
    BY <1>1, <2>1, <2>3, OtherFields
  <2> HIDE DEF ss
  <2> QED
    BY <1>1, <2>2, <2>4 DEF MEInv, METype
<1>4. ASSUME NEW p, memHandle' = [memHandle EXCEPT ![h].pos = p],
             UNCHANGED <<file_map, states>>
      PROVE  MEInv'
  <2>1. memHandle[h] = [kind |-> memHandle[h].kind, state |-> r, pos |-> memHandle[h].pos]
    BY <1>1 DEF METype
  <2>2. /\ memHandle' = [x \in MemHandles |-> memHandle'[x]]
        /\ memHandle'[h] = [kind |-> memHandle[h].kind, state |-> r, pos |-> p]
        /\ \A x \in MemHandles : x # h => memHandle'[x] = memHandle[x]
    BY <1>1, <1>4, <2>1 DEF METype
  <2>3. \A x \in MemHandles : memHandle'[x].state = memHandle[x].state /\ memHandle'[x].kind = memHandle[x].kind
    BY <2>2
  <2>4. METype'
    BY <1>1, <1>4, <2>2, <2>3 DEF METype
  <2>5. \A s : HandlesOf(memHandle', s) = HandlesOf(memHandle, s)
    BY <2>3 DEF HandlesOf
  <2> QED
    BY <1>1, <1>4, <2>4, <2>5 DEF MEInv, Counted
<1>5. ASSUME NEW n, ReadHandle(h, n) PROVE MEInv'
  BY <1>4, <1>5 DEF ReadHandle
<1>6. ASSUME NEW n, SkipChecks(h, n) PROVE MEInv'
  BY <1>6 DEF SkipChecks, MEInv, METype, Counted
<1>8. CASE SkipMoves(h)
  BY <1>4, <1>8 DEF SkipMoves
<1>7. CASE DeleteHandle(h)
  <2>1. r \in States /\ states' = UnrefState(states, r) /\ memHandle' = [memHandle EXCEPT ![h] = NoHandle] /\ file_map' = file_map
    BY <1>2, <1>7 DEF DeleteHandle
  <2>2. states[r].refs > 0
    BY <2>1, Positive
  <2>3. /\ states' = [s \in States |-> states'[s]]
        /\ \A s \in States : Shaped(states'[s]) /\ states'[s].refs = states[s].refs - Same(s, r)
    <3> HIDE DEF r
    <3>1. /\ UnrefState(states, r) = [s \in States |-> UnrefState(states, r)[s]]
          /\ \A s \in States : Shaped(UnrefState(states, r)[s]) /\ UnrefState(states, r)[s].refs = states[s].refs - Same(s, r)
      BY <1>1, <2>1, <2>2, Unreferenced, Zenon
    <3> QED
      BY ONLY <2>1, <3>1
  <2>4. /\ memHandle' = [x \in MemHandles |-> memHandle'[x]] /\ memHandle'[h] = NoHandle
        /\ \A x \in MemHandles : x # h => memHandle'[x] = memHandle[x]
    BY <1>1, <2>1 DEF METype
  <2>5. METype'
    BY <1>1, <2>1, <2>3, <2>4 DEF METype, NoHandle
  <2>6. Counted(file_map', states', memHandle')
    <3> SUFFICES ASSUME NEW s \in States
                 PROVE  states'[s].refs = Cardinality(NamesOf(file_map', s)) + Cardinality(HandlesOf(memHandle', s))
      BY DEF Counted
    <3>1. states[s].refs = Cardinality(NamesOf(file_map, s)) + Cardinality(HandlesOf(memHandle, s))
      BY <1>1 DEF Counted
    <3>2. Cardinality(HandlesOf(memHandle', s)) = Cardinality(HandlesOf(memHandle, s)) + Same(NoState, s) - Same(r, s)
      <4>1. HandleDiff(memHandle, memHandle', h, s)
        BY <2>4, HandleMoved, Zenon
      <4>2. memHandle'[h].state = NoState
        BY <2>4 DEF NoHandle
      <4> QED
        BY <4>1, <4>2 DEF HandleDiff
    <3>3. /\ Cardinality(NamesOf(file_map, s)) \in Nat /\ Cardinality(HandlesOf(memHandle, s)) \in Nat
          /\ Same(NoState, s) = 0 /\ Same(r, s) = Same(s, r) /\ Same(s, r) \in {0, 1}
      BY CountsAreNumbers, SameValues
    <3> HIDE DEF r
    <3> QED
      BY <2>1, <2>3, <3>1, <3>2, <3>3
  <2> QED
    BY <2>5, <2>6 DEF MEInv
<1> QED
  BY <1>3, <1>5, <1>6, <1>7, <1>8

\* RemoveFileInternal: the map gives its reference back.
LEMMA RemovedFrom ==
  ASSUME MEInv, NEW n \in Names, file_map[n] # NullState
  PROVE  LET tt == RemoveFileInternal(states, n)
         IN  /\ tt = [s \in States |-> tt[s]]
             /\ \A s \in States : Shaped(tt[s]) /\ tt[s].refs = states[s].refs - Same(s, file_map[n])
<1> USE NoStateIsNone
<1>1. /\ states = [s \in States |-> states[s]] /\ \A s \in States : Shaped(states[s])
      /\ file_map[n] \in States \cup {NoState}
  BY DEF MEInv, METype
<1>2. CASE file_map[n] = NoState
  <2>1. RemoveFileInternal(states, n) = states
    BY <1>2 DEF RemoveFileInternal
  <2>2. \A s \in States : states[s].refs \in Nat /\ Same(s, file_map[n]) = 0
    BY <1>1, <1>2 DEF Shaped, Same
  <2>3. \A s \in States : states[s].refs = states[s].refs - Same(s, file_map[n])
    BY <2>2
  <2> QED
    BY <1>1, <2>1, <2>3, Zenon
<1>3. CASE file_map[n] # NoState
  <2> DEFINE r == file_map[n]
  <2>1. r \in States /\ RemoveFileInternal(states, n) = UnrefState(states, r)
    BY <1>1, <1>3 DEF RemoveFileInternal
  <2>2. states[r].refs > 0
    BY <2>1, Positive
  <2>3. /\ UnrefState(states, r) = [s \in States |-> UnrefState(states, r)[s]]
        /\ \A s \in States : Shaped(UnrefState(states, r)[s]) /\ UnrefState(states, r)[s].refs = states[s].refs - Same(s, r)
    <3> HIDE DEF r
    <3> QED
      BY <1>1, <2>1, <2>2, Unreferenced, Zenon
  <2> QED
    BY <2>1, <2>3, Zenon
<1> QED
  BY <1>2, <1>3

LEMMA RemoveME ==
  ASSUME MEInv, NEW n \in Names, RemoveFile(n)
  PROVE  MEInv'
<1> USE NoStateIsNone
<1>1. /\ file_map[n] \notin {NoState, NullState} /\ states' = RemoveFileInternal(states, n)
      /\ file_map' = [file_map EXCEPT ![n] = NoState] /\ memHandle' = memHandle
  BY DEF RemoveFile
<1>2. /\ METype /\ Counted(file_map, states, memHandle) /\ file_map \in [Names -> States \cup {NoState, NullState}]
      /\ \A s \in States : states[s].refs \in Nat
  BY DEF MEInv, METype, Shaped
<1>3. /\ states' = [s \in States |-> states'[s]]
      /\ \A s \in States : Shaped(states'[s]) /\ states'[s].refs = states[s].refs - Same(s, file_map[n])
  BY <1>1, RemovedFrom
<1>4. /\ file_map' \in [Names -> States \cup {NoState, NullState}]
      /\ file_map'[n] = NoState /\ \A x \in Names : x # n => file_map'[x] = file_map[x]
  BY <1>1, <1>2
<1>5. METype'
  BY <1>1, <1>2, <1>3, <1>4 DEF METype
<1>6. \A s \in States : states'[s].refs = states[s].refs + Same(file_map'[n], s) - Same(file_map[n], s)
  <2> SUFFICES ASSUME NEW s \in States
               PROVE  states'[s].refs = states[s].refs + Same(file_map'[n], s) - Same(file_map[n], s)
    OBVIOUS
  <2>1. Same(file_map'[n], s) = 0 /\ Same(file_map[n], s) = Same(s, file_map[n]) /\ Same(file_map[n], s) \in {0, 1}
    BY <1>4, SameValues
  <2> QED
    BY <1>2, <1>3, <2>1
<1>7. Counted(file_map', states', memHandle)
  <2>1. RefsFollow(states, states', file_map, file_map', n)
    BY <1>2, <1>6 DEF RefsFollow
  <2> QED
    BY <1>2, <1>4, <2>1, MapMoved, Zenon
<1> QED
  BY <1>1, <1>5, <1>7 DEF MEInv

\* A file renamed to its own name is removed.
LEMMA RenameToItself ==
  ASSUME MEInv, NEW src \in Names, RenameFile(src, src)
  PROVE  MEInv'
<1>1. /\ file_map[src] \notin {NoState, NullState} /\ states' = RemoveFileInternal(states, src)
      /\ file_map' = [file_map EXCEPT ![src] = file_map[src], ![src] = NoState] /\ UNCHANGED <<memHandle, skipping>>
  BY DEF RenameFile
<1>2. [file_map EXCEPT ![src] = file_map[src], ![src] = NoState] = [file_map EXCEPT ![src] = NoState]
  BY DEF MEInv, METype
<1>3. RemoveFile(src)
  BY <1>1, <1>2, Zenon DEF RemoveFile
<1> QED
  BY <1>3, RemoveME

LEMMA RenameME ==
  ASSUME MEInv, NEW src \in Names, NEW target \in Names, src # target, RenameFile(src, target)
  PROVE  MEInv'
<1> USE NoStateIsNone
<1>1. /\ file_map[src] # NoState /\ src # target /\ file_map[target] # NullState
      /\ states' = RemoveFileInternal(states, target)
      /\ file_map' = [file_map EXCEPT ![target] = file_map[src], ![src] = NoState] /\ memHandle' = memHandle
  BY DEF RenameFile
<1>2. /\ METype /\ Counted(file_map, states, memHandle) /\ file_map \in [Names -> States \cup {NoState, NullState}]
      /\ \A s \in States : states[s].refs \in Nat
  BY DEF MEInv, METype, Shaped
<1>3. /\ states' = [s \in States |-> states'[s]]
      /\ \A s \in States : Shaped(states'[s]) /\ states'[s].refs = states[s].refs - Same(s, file_map[target])
  BY <1>1, RemovedFrom
<1> DEFINE mid == [file_map EXCEPT ![src] = NoState]
           ss == [s \in States |-> [refs |-> states[s].refs - Same(s, file_map[src])]]
<1>4. /\ file_map' \in [Names -> States \cup {NoState, NullState}]
      /\ mid[src] = NoState /\ mid[target] = file_map[target] /\ file_map'[target] = file_map[src]
      /\ \A x \in Names : x # src => mid[x] = file_map[x]
      /\ \A x \in Names : x # target => file_map'[x] = mid[x]
  BY <1>1, <1>2
<1>5. METype'
  BY <1>1, <1>2, <1>3, <1>4 DEF METype
<1> HIDE DEF mid
<1>6. \A s \in States : ss[s].refs = states[s].refs - Same(s, file_map[src])
  OBVIOUS
<1> HIDE DEF ss
<1>7. Counted(mid, ss, memHandle) /\ \A s \in States : ss[s].refs \in Nat
  <2>1. \A s \in States : ss[s].refs = states[s].refs + Same(mid[src], s) - Same(file_map[src], s)
    <3> SUFFICES ASSUME NEW s \in States
                 PROVE  ss[s].refs = states[s].refs + Same(mid[src], s) - Same(file_map[src], s)
      OBVIOUS
    <3>1. Same(mid[src], s) = 0 /\ Same(file_map[src], s) = Same(s, file_map[src]) /\ Same(file_map[src], s) \in {0, 1}
      BY <1>4, SameValues
    <3> QED
      BY <1>2, <1>6, <3>1
  <2>2. Counted(mid, ss, memHandle)
    <3>1. RefsFollow(states, ss, file_map, mid, src)
      BY <1>2, <2>1 DEF RefsFollow
    <3> QED
      BY <1>2, <1>4, <3>1, MapMoved, Zenon
  <2>3. ASSUME NEW s \in States PROVE ss[s].refs \in Nat
    <3>1. ss[s].refs = Cardinality(NamesOf(mid, s)) + Cardinality(HandlesOf(memHandle, s))
      BY <2>2 DEF Counted
    <3> QED
      BY <3>1, CountsAreNumbers
  <2> QED
    BY <2>2, <2>3
<1>8. \A s \in States : states'[s].refs = ss[s].refs + Same(file_map'[target], s) - Same(mid[target], s)
  <2> SUFFICES ASSUME NEW s \in States
               PROVE  states'[s].refs = ss[s].refs + Same(file_map'[target], s) - Same(mid[target], s)
    OBVIOUS
  <2>1. /\ Same(file_map'[target], s) = Same(s, file_map[src]) /\ Same(mid[target], s) = Same(s, file_map[target])
        /\ Same(s, file_map[src]) \in {0, 1} /\ Same(s, file_map[target]) \in {0, 1}
    BY <1>4, SameValues
  <2> QED
    BY <1>2, <1>3, <1>6, <2>1
<1>9. Counted(file_map', states', memHandle)
  <2>1. RefsFollow(ss, states', mid, file_map', target)
    BY <1>7, <1>8 DEF RefsFollow
  <2> QED
    BY <1>4, <1>7, <2>1, MapMoved, Zenon
<1> QED
  BY <1>1, <1>5, <1>9 DEF MEInv

\* The references of FileState objects, for any names and handles. With
\* NewAppendableFile for new names they are wrong: it counts one for a map
\* entry it does not make (memenv.cc:276-287).
THEOREM StatesCountedHolds ==
  ASSUME ~AppendNew
  PROVE  MESpec => []StatesCounted
<1>1. MEInit => MEInv
  BY InitiallyME
<1>2. MEInv /\ [MENext]_meVars => MEInv'
  <2> SUFFICES ASSUME MEInv, [MENext]_meVars PROVE MEInv'
    OBVIOUS
  <2>1. ASSUME NEW h \in MemHandles, NEW n \in Names,
               (\E kind \in {"sequential", "random"} : OpenForRead(h, kind, n))
                 \/ NewWritableFile(h, n) \/ NewAppendableFile(h, n)
        PROVE  MEInv'
    BY <2>1, OpenME
  <2>2. ASSUME NEW h \in MemHandles, NEW len \in 0 .. MaxSize,
               AppendHandle(h, [i \in 1 .. len |-> states[memHandle[h].state].size + i])
        PROVE  MEInv'
    BY <2>2, HandleME
  <2>3. ASSUME NEW h \in MemHandles, NEW n \in 1 .. MemBlock + 1, ReadHandle(h, n) \/ SkipChecks(h, n) PROVE MEInv'
    BY <2>3, HandleME
  <2>4. ASSUME NEW h \in MemHandles, SkipMoves(h) \/ DeleteHandle(h) PROVE MEInv'
    BY <2>4, HandleME
  <2>5. ASSUME NEW n \in Names, RemoveFile(n) PROVE MEInv'
    BY <2>5, RemoveME
  <2>6. ASSUME NEW n \in Names, NEW m \in Names, RenameFile(n, m) PROVE MEInv'
    BY <2>6, RenameME, RenameToItself
  <2>7. CASE UNCHANGED meVars
    BY <2>7 DEF meVars, MEInv, METype, Counted
  <2> QED
    BY <2>1, <2>2, <2>3, <2>4, <2>5, <2>6, <2>7 DEF MENext
<1>3. MEInv => StatesCounted
  BY CountedIsStatesCounted
<1> QED
  BY <1>1, <1>2, <1>3, PTL DEF MESpec

=============================================================================
