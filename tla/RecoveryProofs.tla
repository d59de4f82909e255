--------------------------- MODULE RecoveryProofs ---------------------------
(***************************************************************************)
(* The proofs about what is read back after a failure: that RepairDB loses *)
(* nothing it could read and that what it installs is complete, and that   *)
(* the log reader returns only records that were added, each one whole,    *)
(* and does not mistake the tail that a crash has torn for a corruption.   *)
(***************************************************************************)
EXTENDS Repair, LogFormat, TLAPS, FiniteSetTheorems, SequenceTheorems, NaturalsInduction, WellFoundedInduction

-----------------------------------------------------------------------------
(* RepairDB.  The inductive invariant: types.                               *)

LostNames == {"log", "table"} \X Numbers

RepairedFiles == [type : {"none", "log", "table"}, data : SUBSET Nat, bad : BOOLEAN]

PCs == {"unmade", "off", "opened", "logs", "archiveLog", "tables", "copy", "archiveTable", "finish", "rename",
        "removeCopy", "manifests", "install", "setCurrent", "done"}

Descriptors == [tables : SUBSET Numbers, next : Nat, last : Nat, valid : BOOLEAN, ok : BOOLEAN, one : BOOLEAN]

Repairers == [pc : PCs, logs : SUBSET Numbers, numbers : SUBSET Numbers, tables : SUBSET Numbers,
              next : Nat, at : Nat, copy : Nat, entries : SUBSET Nat, ok : BOOLEAN]

RType ==
    /\ dir \in [Numbers -> RepairedFiles]
    /\ lost \in [LostNames -> SUBSET Nat]
    /\ installed \in Descriptors
    /\ repairer \in Repairers
    /\ repairs \in Nat

\* A name without a file, and what a file holds.
DirInv ==
    \A n \in Numbers : /\ dir[n].type = "none" => dir[n] = Absent
                       /\ IsFiniteSet(dir[n].data)
                       /\ dir[n].type # "none" => lost[<<dir[n].type, n>>] \subseteq dir[n].data

Running == repairer.pc \notin {"unmade", "off", "opened"}

Copying == repairer.pc \in {"finish", "rename", "removeCopy"}

IsTable(n) == n \in Numbers /\ dir[n].type = "table"

-----------------------------------------------------------------------------
(* A repair that is under way.                                              *)

\* What has been given a number, and what is in the lists.
NextInv ==
    Running =>
        /\ repairer.next > 0
        /\ \A n \in Numbers : dir[n].type # "none" => n < repairer.next
        /\ \A n \in Numbers : n >= repairer.next => lost[<<"table", n>>] = {}

ListsInv ==
    Running =>
        /\ \A n \in repairer.logs : dir[n].type = "log"
        /\ \A n \in repairer.numbers : dir[n].type = "table" /\ n \notin repairer.tables
        /\ \A n \in repairer.tables : dir[n].type = "table" /\ ~dir[n].bad
        /\ repairer.pc = "archiveLog" => repairer.at \in repairer.logs
        /\ repairer.pc \notin {"logs", "archiveLog"} => repairer.logs = {}
        /\ repairer.pc \in {"manifests", "install", "setCurrent", "done"} => repairer.numbers = {}

\* The source of a copy.
SourceInv ==
    repairer.pc \in {"copy", "archiveTable"} =>
        /\ IsTable(repairer.at) /\ dir[repairer.at].bad
        /\ repairer.at \notin repairer.numbers

\* The copy of a table.
CopyMade == repairer.pc = "archiveTable" \/ Copying

CopyInv ==
    CopyMade =>
        /\ IsTable(repairer.copy) /\ repairer.at \in Numbers /\ repairer.at < repairer.copy
        /\ repairer.at \notin repairer.numbers /\ repairer.at \notin repairer.tables
        /\ repairer.copy \notin repairer.numbers /\ repairer.copy \notin repairer.tables
        /\ repairer.pc \in {"archiveTable", "finish"} => dir[repairer.copy].data = {} /\ dir[repairer.copy].bad
        /\ repairer.pc = "rename" => dir[repairer.copy].data = repairer.entries /\ ~dir[repairer.copy].bad

\* What happened to the source: it is archived, or still there.
EntriesInv ==
    Copying =>
        /\ dir[repairer.copy].data \subseteq repairer.entries
        /\ lost[<<"table", repairer.at>>] \subseteq repairer.entries
        /\ dir[repairer.at].type = "none" => lost[<<"table", repairer.at>>] = repairer.entries
        /\ dir[repairer.at].type # "none" => dir[repairer.at].type = "table" /\ dir[repairer.at].data = repairer.entries
        /\ repairer.pc = "removeCopy" => ~repairer.ok
        /\ IsFiniteSet(repairer.entries)

-----------------------------------------------------------------------------
(* Names in lost/.                                                          *)

\* There is a table with a number from n on, other than a copy in the making.
Covered(n) == \E k \in Numbers : k >= n /\ dir[k].type = "table" /\ ~(CopyMade /\ k = repairer.copy)

NamesInv ==
    MaxRepairs > 1 /\ repairer.pc # "opened" => \A n \in Numbers : lost[<<"table", n>>] # {} =>
        Covered(n) \/ (Copying /\ n <= repairer.at)

CallsInv ==
    /\ Running => 0 < repairs /\ repairs <= MaxRepairs
    /\ repairs = 0 => ~installed.valid /\ \A f \in LostNames : lost[f] = {}
    /\ repairer.pc = "unmade" => repairs = 0
    /\ MaxRepairs > 1 => repairer.pc # "removeCopy"

-----------------------------------------------------------------------------
(* The updates.                                                             *)

InLost(x) == \E f \in LostNames : x \in lost[f]

InDir(x) == \E n \in Numbers : x \in dir[n].data

\* A repair that has not failed has x in a file it has listed or will look at.
InHand(x) ==
    \/ \E n \in repairer.logs : x \in dir[n].data /\ ~(repairer.pc = "archiveLog" /\ n = repairer.at)
    \/ \E n \in repairer.numbers : x \in dir[n].data
    \/ \E n \in repairer.tables : x \in dir[n].data
    \/ repairer.pc \in {"copy", "archiveTable"} /\ x \in dir[repairer.at].data
    \/ Copying /\ x \in repairer.entries

KeptInv == repairer.pc # "opened" => \A x \in salvageable : InDir(x) \/ InLost(x)

FoundInv ==
    Running => /\ \A x \in salvageable : x \in found \/ InLost(x)
               /\ repairer.ok => \A x \in found : InHand(x)

\* What CURRENT leads to.
ListedInv ==
    installed.valid =>
        /\ \A n \in installed.tables : /\ dir[n].type = "table" /\ ~dir[n].bad /\ n < installed.next
                                       /\ \A s \in dir[n].data : s <= installed.last
        /\ Copying => repairer.at \notin installed.tables /\ repairer.copy \notin installed.tables
        /\ MaxRepairs <= 1 => repairer.pc \in {"setCurrent", "done", "off", "opened"}
        /\ installed.ok => \A x \in salvageable : InLost(x) \/ \E n \in installed.tables : x \in dir[n].data

DoneInv ==
    /\ repairer.pc = "opened" => installed.valid
    /\ repairer.pc = "done" => installed.tables = repairer.tables /\ installed.next = repairer.next
                               /\ installed.ok = repairer.ok

RInv == /\ RType /\ DirInv /\ NextInv /\ ListsInv /\ SourceInv /\ CopyInv /\ EntriesInv /\ NamesInv /\ CallsInv
        /\ KeptInv /\ FoundInv /\ ListedInv /\ DoneInv

-----------------------------------------------------------------------------
(* Finite sets of numbers.                                                  *)

LEMMA LeastOf ==
  ASSUME NEW T, T \subseteq Nat, T # {}
  PROVE  \E x \in T : \A y \in T : x <= y
<1>1. PICK x \in T : \A y \in T : ~(<<y, x>> \in OpToRel(<, Nat))
  BY WFMin, NatLessThanWellFounded
<1>2. ASSUME NEW y \in T PROVE x <= y
  <2>1. x \in Nat /\ y \in Nat
    OBVIOUS
  <2>2. y < x => <<y, x>> \in OpToRel(<, Nat)
    BY <2>1 DEF OpToRel
  <2>3. ~(<<y, x>> \in OpToRel(<, Nat))
    BY <1>1, Zenon
  <2>4. ~(y < x)
    BY <2>2, <2>3, Zenon
  <2> QED
    BY <2>1, <2>4
<1> QED
  BY <1>2

\* A set of k numbers without a greatest one.
TopLess(k) ==
  \E S \in SUBSET Nat : /\ IsFiniteSet(S) /\ Cardinality(S) = k /\ S # {}
                        /\ ~ \E m \in S : \A n \in S : n <= m

LEMMA GreatestOf ==
  ASSUME NEW T, T \subseteq Nat, T # {}, IsFiniteSet(T)
  PROVE  \E m \in T : \A n \in T : n <= m
<1> SUFFICES ASSUME ~ \E m \in T : \A n \in T : n <= m PROVE FALSE
  OBVIOUS
<1> DEFINE K == {k \in Nat : TopLess(k)}
<1>1. Cardinality(T) \in K
  <2>1. Cardinality(T) \in Nat
    BY FS_CardinalityType
  <2> QED
    BY <2>1 DEF TopLess
<1>2. PICK k \in K : \A j \in K : k <= j
  <2>1. K \subseteq Nat /\ K # {}
    BY <1>1
  <2> HIDE DEF K
  <2> QED
    BY <2>1, LeastOf
<1>3. PICK S \in SUBSET Nat : /\ IsFiniteSet(S) /\ Cardinality(S) = k /\ S # {}
                              /\ ~ \E m \in S : \A n \in S : n <= m
  BY DEF TopLess
<1>4. PICK x \in S : TRUE
  BY <1>3
<1> DEFINE R == S \ {x}
<1>5. IsFiniteSet(R) /\ Cardinality(R) = Cardinality(S) - 1
  BY <1>3, FS_RemoveElement
<1>6. R # {}
  BY <1>3
<1>7. ~TopLess(k - 1)
  <2>1. k - 1 \in Nat
    <3>1. Cardinality(R) \in Nat /\ k \in Nat
      BY <1>5, FS_CardinalityType
    <3> QED
      BY <1>3, <1>5, <3>1
  <2>2. ~(k <= k - 1)
    BY <2>1
  <2> QED
    BY <1>2, <2>1, <2>2
<1>8. PICK m \in R : \A n \in R : n <= m
  <2>1. R \in SUBSET Nat /\ Cardinality(R) = k - 1
    BY <1>3, <1>5
  <2> QED
    BY <1>5, <1>6, <1>7, <2>1, Zenon DEF TopLess
<1>9. x \in Nat /\ m \in Nat
  OBVIOUS
<1>10. CASE x <= m
  <2>1. m \in S /\ \A n \in S : n <= m
    BY <1>8, <1>10
  <2> QED
    BY <1>3, <2>1
<1>11. CASE m <= x
  <2>1. \A n \in S : n <= x
    BY <1>8, <1>9, <1>11
  <2> QED
    BY <1>3, <2>1
<1> QED
  BY <1>9, <1>10, <1>11

LEMMA MaxIsGreatest ==
  ASSUME NEW T, T \subseteq Nat, T # {}, IsFiniteSet(T)
  PROVE  Max(T) \in T /\ \A n \in T : n <= Max(T)
<1>1. PICK m \in T : \A n \in T : n <= m
  BY GreatestOf
<1>2. m \in T /\ \A n \in T : m >= n
  BY <1>1
<1>3. Max(T) \in T /\ \A n \in T : Max(T) >= n
  BY <1>2, Zenon DEF Max
<1> QED
  BY <1>3

\* What is read from some of finitely many files is a finite set.
LEMMA FiniteData ==
  ASSUME NEW S, IsFiniteSet(S), NEW d, \A n \in S : IsFiniteSet(d[n].data)
  PROVE  IsFiniteSet(UNION {d[n].data : n \in S})
<1> DEFINE T == {d[n].data : n \in S}
           f == [n \in S |-> d[n].data]
<1>1. f \in Surjection(S, T)
  BY DEF Surjection
<1>2. IsFiniteSet(T)
  BY <1>1, FS_Surjection
<1>3. \A t \in T : IsFiniteSet(t)
  OBVIOUS
<1> HIDE DEF T
<1>4. IsFiniteSet(UNION T)
  BY <1>2, <1>3, FS_UNION
<1> QED
  BY <1>4 DEF T

\* NextAfter is above every number there is.
LEMMA NextAfterAbove ==
  ASSUME NEW S, S \subseteq Numbers
  PROVE  NextAfter(S) \in Nat /\ NextAfter(S) > 0 /\ \A n \in S : n < NextAfter(S)
<1> DEFINE T == S \cup {0}
<1>1. MaxNumber \in Nat
  BY RepairAssumption
<1>2. T \subseteq 0 .. MaxNumber
  BY <1>1 DEF Numbers
<1>3. IsFiniteSet(0 .. MaxNumber)
  BY <1>1, FS_Interval
<1>4. IsFiniteSet(T) /\ T \subseteq Nat /\ T # {}
  <2>1. T \in SUBSET (0 .. MaxNumber)
    BY <1>2
  <2>2. IsFiniteSet(T)
    <3> HIDE DEF T
    <3> QED
      BY <1>3, <2>1, FS_Subset
  <2> QED
    BY <1>1, <1>2, <2>2
<1>5. Max(T) \in T /\ \A n \in T : n <= Max(T)
  <2> HIDE DEF T
  <2> QED
    BY <1>4, MaxIsGreatest
<1>6. NextAfter(S) = Max(T) + 1
  BY DEF NextAfter
<1> HIDE DEF T
<1>7. Max(T) \in Nat /\ \A n \in T : n \in Nat /\ n < Max(T) + 1
  <2> DEFINE m == Max(T)
  <2>1. m \in T /\ \A n \in T : n <= m
    BY <1>5
  <2> HIDE DEF m
  <2>2. m \in Nat /\ \A n \in T : n \in Nat /\ n < m + 1
    BY <1>4, <2>1
  <2> QED
    BY <2>2 DEF m
<1>8. \A n \in S : n \in T
  BY DEF T
<1> QED
  BY <1>6, <1>7, <1>8

\* The last sequence number of a descriptor.
LEMMA LastAbove ==
  ASSUME RType, DirInv, NEW S, S \subseteq Numbers
  PROVE  LET m == Max((UNION {dir[n].data : n \in S}) \cup {0})
         IN  m \in Nat /\ (\A n \in S : \A x \in dir[n].data : x <= m)
<1> DEFINE U == UNION {dir[n].data : n \in S}
           T == U \cup {0}
<1>1. MaxNumber \in Nat
  BY RepairAssumption
<1>2. IsFiniteSet(S)
  <2>1. IsFiniteSet(1 .. MaxNumber)
    BY <1>1, FS_Interval
  <2>2. S \in SUBSET (1 .. MaxNumber)
    BY DEF Numbers
  <2> QED
    BY <2>1, <2>2, FS_Subset
<1>3. IsFiniteSet(U)
  <2>1. \A n \in S : IsFiniteSet(dir[n].data)
    BY DEF DirInv
  <2> QED
    BY <1>2, <2>1, FiniteData
<1>4. U \subseteq Nat
  BY DEF RType, RepairedFiles
<1>5. IsFiniteSet(T) /\ T \subseteq Nat /\ T # {}
  BY <1>3, <1>4, FS_AddElement
<1>6. \A n \in S : \A x \in dir[n].data : x \in T
  OBVIOUS
<1> HIDE DEF T
<1>7. Max(T) \in T /\ \A n \in T : n <= Max(T)
  BY <1>5, MaxIsGreatest
<1> QED
  BY <1>5, <1>6, <1>7 DEF T

\* What is used of the types.
LEMMA TypeFacts ==
  ASSUME RType
  PROVE  /\ MaxNumber \in Nat /\ MaxRepairs \in Nat /\ repairs \in Nat
         /\ \A n \in Numbers : n \in Nat /\ n > 0
         /\ \A n \in Nat : n > 0 /\ n <= MaxNumber => n \in Numbers
         /\ \A n \in Numbers : /\ dir[n].type \in {"none", "log", "table"} /\ dir[n].bad \in BOOLEAN
                               /\ dir[n].data \subseteq Nat
                               /\ dir[n] = [type |-> dir[n].type, data |-> dir[n].data, bad |-> dir[n].bad]
         /\ \A n \in Numbers : <<"log", n>> \in LostNames /\ <<"table", n>> \in LostNames
         /\ repairer.pc \in PCs /\ repairer.ok \in BOOLEAN
         /\ repairer.logs \subseteq Numbers /\ repairer.numbers \subseteq Numbers /\ repairer.tables \subseteq Numbers
         /\ repairer.next \in Nat /\ repairer.at \in Nat /\ repairer.copy \in Nat /\ repairer.entries \subseteq Nat
         /\ installed.tables \subseteq Numbers /\ installed.next \in Nat /\ installed.last \in Nat
         /\ installed.valid \in BOOLEAN /\ installed.ok \in BOOLEAN /\ installed.one \in BOOLEAN
<1>1. MaxNumber \in Nat /\ MaxRepairs \in Nat
  BY RepairAssumption
<1>2. /\ \A n \in Numbers : n \in Nat /\ n > 0
      /\ \A n \in Nat : n > 0 /\ n <= MaxNumber => n \in Numbers
  BY <1>1 DEF Numbers
<1>3. ASSUME NEW n \in Numbers
      PROVE  /\ dir[n].type \in {"none", "log", "table"} /\ dir[n].bad \in BOOLEAN /\ dir[n].data \subseteq Nat
             /\ dir[n] = [type |-> dir[n].type, data |-> dir[n].data, bad |-> dir[n].bad]
  <2>1. dir[n] \in RepairedFiles
    BY DEF RType
  <2> QED
    BY <2>1 DEF RepairedFiles
<1>4. \A n \in Numbers : <<"log", n>> \in LostNames /\ <<"table", n>> \in LostNames
  BY DEF LostNames
<1>5. /\ repairer.pc \in PCs /\ repairer.ok \in BOOLEAN
      /\ repairer.logs \subseteq Numbers /\ repairer.numbers \subseteq Numbers /\ repairer.tables \subseteq Numbers
      /\ repairer.next \in Nat /\ repairer.at \in Nat /\ repairer.copy \in Nat /\ repairer.entries \subseteq Nat
  BY DEF RType, Repairers
<1>6. /\ installed.tables \subseteq Numbers /\ installed.next \in Nat /\ installed.last \in Nat
      /\ installed.valid \in BOOLEAN /\ installed.ok \in BOOLEAN /\ installed.one \in BOOLEAN
  BY DEF RType, Descriptors
<1>7. repairs \in Nat
  BY DEF RType
<1> QED
  BY <1>1, <1>2, <1>3, <1>4, <1>5, <1>6, <1>7, Zenon

\* The next number is the name of no file.
LEMMA NextIsFree ==
  ASSUME RInv, Running, repairer.next <= MaxNumber
  PROVE  /\ repairer.next \in Numbers /\ dir[repairer.next].type = "none" /\ dir[repairer.next].data = {}
         /\ dir[repairer.next] = Absent /\ lost[<<"table", repairer.next>>] = {}
<1>1. RType /\ DirInv /\ NextInv
  BY DEF RInv
<1>2. repairer.next \in Numbers
  BY <1>1, TypeFacts DEF NextInv
<1>3. dir[repairer.next].type = "none" /\ lost[<<"table", repairer.next>>] = {}
  BY <1>1, <1>2, TypeFacts DEF NextInv
<1>4. dir[repairer.next] = Absent
  BY <1>1, <1>2, <1>3 DEF DirInv
<1> QED
  BY <1>2, <1>3, <1>4 DEF Absent

\* The logs are all converted.
LEMMA LogsConvertedKeeps ==
  ASSUME RInv, ArchiveNamesFresh, LogsConverted
  PROVE  RInv'
<1>0. RType /\ DirInv /\ NextInv /\ ListsInv /\ SourceInv /\ CopyInv /\ EntriesInv /\ NamesInv /\ CallsInv
      /\ KeptInv /\ FoundInv /\ ListedInv /\ DoneInv
  BY DEF RInv
<1> USE <1>0, TypeFacts
<1>1. repairer.pc = "logs" /\ repairer.logs = {} /\ dir' = dir /\ lost' = lost /\ installed' = installed
      /\ repairs' = repairs /\ salvageable' = salvageable /\ found' = found
      /\ repairer' = [repairer EXCEPT !.pc = "tables"]
  BY DEF LogsConverted
<1>2. /\ repairer'.pc = "tables" /\ repairer'.logs = repairer.logs /\ repairer'.numbers = repairer.numbers
      /\ repairer'.tables = repairer.tables /\ repairer'.next = repairer.next /\ repairer'.at = repairer.at
      /\ repairer'.copy = repairer.copy /\ repairer'.entries = repairer.entries /\ repairer'.ok = repairer.ok
  BY <1>1 DEF RType, Repairers
<1>3. RType'
  <2>1. dir' \in [Numbers -> RepairedFiles]
    BY <1>1, <1>1, <1>2 DEF RType, RepairedFiles, Absent
  <2>2. lost' \in [LostNames -> SUBSET Nat]
    BY <1>1, <1>1, <1>2 DEF RType
  <2>3. repairer' \in Repairers
    <3>1. "tables" \in PCs /\ repairer.next + 1 \in Nat
      BY DEF PCs
    <3> QED
      BY <3>1, <1>1 DEF RType, Repairers
  <2>4. installed' \in Descriptors /\ repairs' \in Nat
    BY <1>1, <1>2 DEF RType
  <2> QED
    BY <2>1, <2>2, <2>3, <2>4 DEF RType
<1>4. DirInv'
  BY <1>1, <1>2 DEF DirInv, NextInv, SourceInv, CopyInv, EntriesInv, Running, IsTable, CopyMade, Copying, Absent
<1>5. NextInv'
  BY <1>1, <1>2 DEF NextInv, ListsInv, SourceInv, CopyInv, Running, IsTable, CopyMade, Copying
<1>6. ListsInv'
  BY <1>1, <1>2 DEF ListsInv, NextInv, SourceInv, CopyInv, Running, IsTable, CopyMade, Copying
<1>7. SourceInv'
  BY <1>1, <1>2 DEF SourceInv, ListsInv, NextInv, Running, IsTable
<1>8. CopyInv'
  BY <1>1, <1>2 DEF CopyInv, SourceInv, ListsInv, NextInv, Running, IsTable, CopyMade, Copying
<1>9. EntriesInv'
  BY <1>1, <1>2 DEF EntriesInv, DirInv, SourceInv, CopyInv, IsTable, CopyMade, Copying, Absent
<1>10. NamesInv'
  BY <1>1, <1>2 DEF NamesInv, Covered, NextInv, SourceInv, CopyInv, EntriesInv, CallsInv, Running, IsTable,
     CopyMade, Copying
<1>11. CallsInv'
  BY <1>1, <1>2 DEF CallsInv, Running
<1>12. KeptInv'
  BY <1>1, <1>2 DEF KeptInv, InDir, InLost, DirInv, NextInv, SourceInv, CopyInv, EntriesInv, Running, IsTable,
     CopyMade, Copying, Absent
<1>13. FoundInv'
  BY <1>1, <1>2 DEF FoundInv, InHand, InLost, DirInv, NextInv, ListsInv, SourceInv, CopyInv, EntriesInv, Running,
     IsTable, CopyMade, Copying, Absent
<1>14. ListedInv'
  BY <1>1, <1>2 DEF ListedInv, InLost, NextInv, ListsInv, SourceInv, CopyInv, CallsInv, Running, IsTable, CopyMade,
     Copying, Absent
<1>15. DoneInv'
  BY <1>1, <1>2 DEF DoneInv
<1> QED
  BY <1>3, <1>4, <1>5, <1>6, <1>7, <1>8, <1>9, <1>10, <1>11, <1>12, <1>13, <1>14, <1>15 DEF RInv

\* A copy is created under a new number.
LEMMA RepairTableKeeps ==
  ASSUME RInv, ArchiveNamesFresh, RepairTable
  PROVE  RInv'
<1>0. RType /\ DirInv /\ NextInv /\ ListsInv /\ SourceInv /\ CopyInv /\ EntriesInv /\ NamesInv /\ CallsInv
      /\ KeptInv /\ FoundInv /\ ListedInv /\ DoneInv
  BY DEF RInv
<1> USE <1>0, TypeFacts
<1>1. CASE /\ Works
           /\ dir' = [dir EXCEPT ![repairer.next] = [type |-> "table", data |-> {}, bad |-> TRUE]]
           /\ repairer' = [repairer EXCEPT !.pc = "archiveTable", !.copy = repairer.next, !.next = @ + 1]
  <2>1. repairer.pc = "copy" /\ repairer.next <= MaxNumber /\ lost' = lost /\ installed' = installed
        /\ repairs' = repairs /\ salvageable' = salvageable /\ found' = found
    BY DEF RepairTable
  <2>2. repairer.next \in Numbers /\ dir[repairer.next].type = "none" /\ dir[repairer.next].data = {}
        /\ lost[<<"table", repairer.next>>] = {}
    BY <2>1, NextIsFree DEF Running
  <2>3. /\ dir'[repairer.next].type = "table" /\ dir'[repairer.next].data = {} /\ dir'[repairer.next].bad = TRUE
        /\ \A n \in Numbers : n # repairer.next => dir'[n] = dir[n]
        /\ IsFiniteSet(dir'[repairer.next].data)
    BY <1>1, <2>2, FS_EmptySet DEF RType
  <2>4. /\ repairer'.pc = "archiveTable" /\ repairer'.logs = repairer.logs /\ repairer'.numbers = repairer.numbers
        /\ repairer'.tables = repairer.tables /\ repairer'.next = repairer.next + 1 /\ repairer'.at = repairer.at
        /\ repairer'.copy = repairer.next /\ repairer'.entries = repairer.entries /\ repairer'.ok = repairer.ok
    BY <1>1 DEF RType, Repairers
  <2>5. RType'
    <3>1. dir' \in [Numbers -> RepairedFiles]
      BY <1>1, <2>1, <2>2, <2>3, <2>4 DEF RType, RepairedFiles, Absent
    <3>2. lost' \in [LostNames -> SUBSET Nat]
      BY <1>1, <2>1, <2>2, <2>3, <2>4 DEF RType
    <3>3. repairer' \in Repairers
      <4>1. "archiveTable" \in PCs /\ repairer.next + 1 \in Nat
        BY DEF PCs
      <4> QED
        BY <4>1, <1>1 DEF RType, Repairers
    <3>4. installed' \in Descriptors /\ repairs' \in Nat
      BY <2>1, <2>2, <2>3, <2>4 DEF RType
    <3> QED
      BY <3>1, <3>2, <3>3, <3>4 DEF RType
  <2>6. DirInv'
    <3>1. ASSUME NEW n \in Numbers
         PROVE  /\ dir'[n].type = "none" => dir'[n] = Absent
                /\ IsFiniteSet(dir'[n].data)
                /\ dir'[n].type # "none" => lost'[<<dir'[n].type, n>>] \subseteq dir'[n].data
      <4>1. CASE n = repairer.next
        BY <2>1, <2>2, <2>3, <4>1 DEF DirInv, EntriesInv, Copying
      <4>2. CASE n \notin {repairer.next}
        BY <2>1, <2>2, <2>3, <4>2 DEF DirInv
      <4> QED
        BY <4>1, <4>2
    <3> QED
      BY <3>1 DEF DirInv
  <2>7. NextInv'
    BY <2>1, <2>2, <2>3, <2>4 DEF NextInv, ListsInv, SourceInv, CopyInv, Running, IsTable, CopyMade, Copying
  <2>8. ListsInv'
    BY <2>1, <2>2, <2>3, <2>4 DEF ListsInv, NextInv, SourceInv, CopyInv, Running, IsTable, CopyMade, Copying
  <2>9. SourceInv'
    BY <2>1, <2>2, <2>3, <2>4 DEF SourceInv, ListsInv, NextInv, Running, IsTable
  <2>10. CopyInv'
    BY <2>1, <2>2, <2>3, <2>4 DEF CopyInv, SourceInv, ListsInv, NextInv, Running, IsTable, CopyMade, Copying
  <2>11. EntriesInv'
    BY <2>1, <2>2, <2>3, <2>4 DEF EntriesInv, DirInv, SourceInv, CopyInv, IsTable, CopyMade, Copying, Absent
  <2>12. NamesInv'
    BY <2>1, <2>2, <2>3, <2>4 DEF NamesInv, Covered, NextInv, SourceInv, CopyInv, EntriesInv, CallsInv, Running,
       IsTable, CopyMade, Copying
  <2>13. CallsInv'
    BY <2>1, <2>2, <2>3, <2>4 DEF CallsInv, Running
  <2>14. KeptInv'
    BY <2>1, <2>2, <2>3, <2>4 DEF KeptInv, InDir, InLost, DirInv, NextInv, SourceInv, CopyInv, EntriesInv, Running,
       IsTable, CopyMade, Copying, Absent
  <2>15. FoundInv'
    BY <2>1, <2>2, <2>3, <2>4 DEF FoundInv, InHand, InLost, DirInv, NextInv, ListsInv, SourceInv, CopyInv,
       EntriesInv, Running, IsTable, CopyMade, Copying, Absent
  <2>16. ListedInv'
    BY <2>1, <2>2, <2>3, <2>4 DEF ListedInv, InLost, NextInv, ListsInv, SourceInv, CopyInv, CallsInv, Running,
       IsTable, CopyMade, Copying, Absent
  <2>17. DoneInv'
    BY <2>1, <2>2, <2>3, <2>4 DEF DoneInv
  <2> QED
    BY <2>5, <2>6, <2>7, <2>8, <2>9, <2>10, <2>11, <2>12, <2>13, <2>14, <2>15, <2>16, <2>17 DEF RInv
<1>2. CASE /\ Fails("copy") /\ UNCHANGED dir
           /\ repairer' = [repairer EXCEPT !.pc = "tables", !.next = @ + 1, !.ok = FALSE]
  <2>1. repairer.pc = "copy" /\ dir' = dir /\ lost' = lost /\ installed' = installed /\ repairs' = repairs
        /\ salvageable' = salvageable /\ found' = found
    BY <1>2 DEF RepairTable
  <2>2. /\ repairer'.pc = "tables" /\ repairer'.logs = repairer.logs /\ repairer'.numbers = repairer.numbers
        /\ repairer'.tables = repairer.tables /\ repairer'.next = repairer.next + 1 /\ repairer'.at = repairer.at
        /\ repairer'.copy = repairer.copy /\ repairer'.entries = repairer.entries /\ repairer'.ok = FALSE
    BY <1>2 DEF RType, Repairers
  <2>3. RType'
    <3>1. dir' \in [Numbers -> RepairedFiles]
      BY <1>2, <2>1, <2>2 DEF RType, RepairedFiles, Absent
    <3>2. lost' \in [LostNames -> SUBSET Nat]
      BY <1>2, <2>1, <2>2 DEF RType
    <3>3. repairer' \in Repairers
      <4>1. "tables" \in PCs /\ repairer.next + 1 \in Nat
        BY DEF PCs
      <4> QED
        BY <4>1, <1>2 DEF RType, Repairers
    <3>4. installed' \in Descriptors /\ repairs' \in Nat
      BY <2>1, <2>2 DEF RType
    <3> QED
      BY <3>1, <3>2, <3>3, <3>4 DEF RType
  <2>4. DirInv'
    BY <2>1, <2>2 DEF DirInv, NextInv, SourceInv, CopyInv, EntriesInv, Running, IsTable, CopyMade, Copying, Absent
  <2>5. NextInv'
    BY <2>1, <2>2 DEF NextInv, ListsInv, SourceInv, CopyInv, Running, IsTable, CopyMade, Copying
  <2>6. ListsInv'
    BY <2>1, <2>2 DEF ListsInv, NextInv, SourceInv, CopyInv, Running, IsTable, CopyMade, Copying
  <2>7. SourceInv'
    BY <2>1, <2>2 DEF SourceInv, ListsInv, NextInv, Running, IsTable
  <2>8. CopyInv'
    BY <2>1, <2>2 DEF CopyInv, SourceInv, ListsInv, NextInv, Running, IsTable, CopyMade, Copying
  <2>9. EntriesInv'
    BY <2>1, <2>2 DEF EntriesInv, DirInv, SourceInv, CopyInv, IsTable, CopyMade, Copying, Absent
  <2>10. NamesInv'
    BY <2>1, <2>2 DEF NamesInv, Covered, NextInv, SourceInv, CopyInv, EntriesInv, CallsInv, Running, IsTable,
       CopyMade, Copying
  <2>11. CallsInv'
    BY <2>1, <2>2 DEF CallsInv, Running
  <2>12. KeptInv'
    BY <2>1, <2>2 DEF KeptInv, InDir, InLost, DirInv, NextInv, SourceInv, CopyInv, EntriesInv, Running, IsTable,
       CopyMade, Copying, Absent
  <2>13. FoundInv'
    BY <2>1, <2>2 DEF FoundInv, InHand, InLost, DirInv, NextInv, ListsInv, SourceInv, CopyInv, EntriesInv, Running,
       IsTable, CopyMade, Copying, Absent
  <2>14. ListedInv'
    BY <2>1, <2>2 DEF ListedInv, InLost, NextInv, ListsInv, SourceInv, CopyInv, CallsInv, Running, IsTable,
       CopyMade, Copying, Absent
  <2>15. DoneInv'
    BY <2>1, <2>2 DEF DoneInv
  <2> QED
    BY <2>3, <2>4, <2>5, <2>6, <2>7, <2>8, <2>9, <2>10, <2>11, <2>12, <2>13, <2>14, <2>15 DEF RInv
<1> QED
  BY <1>1, <1>2 DEF RepairTable

\* The copy is finished, or given up.
LEMMA FinishCopyKeeps ==
  ASSUME RInv, ArchiveNamesFresh, FinishCopy
  PROVE  RInv'
<1>0. RType /\ DirInv /\ NextInv /\ ListsInv /\ SourceInv /\ CopyInv /\ EntriesInv /\ NamesInv /\ CallsInv
      /\ KeptInv /\ FoundInv /\ ListedInv /\ DoneInv
  BY DEF RInv
<1> USE <1>0, TypeFacts
<1>1. CASE /\ Works /\ dir' = [dir EXCEPT ![repairer.copy] = [type |-> "table", data |-> repairer.entries, bad |-> FALSE]]
           /\ repairer' = [repairer EXCEPT !.pc = "rename"]
  <2>1. repairer.pc = "finish" /\ lost' = lost /\ installed' = installed /\ repairs' = repairs
        /\ salvageable' = salvageable /\ found' = found
    BY DEF FinishCopy
  <2>2. repairer.copy \in Numbers /\ IsFiniteSet(repairer.entries)
    BY <2>1 DEF CopyInv, EntriesInv, CopyMade, Copying, IsTable
  <2>3. /\ dir'[repairer.copy].type = "table" /\ dir'[repairer.copy].data = repairer.entries
        /\ dir'[repairer.copy].bad = FALSE
        /\ \A n \in Numbers : n # repairer.copy => dir'[n] = dir[n]
        /\ IsFiniteSet(dir'[repairer.copy].data)
    BY <1>1, <2>2 DEF RType
  <2>4. /\ repairer'.pc = "rename" /\ repairer'.logs = repairer.logs /\ repairer'.numbers = repairer.numbers
        /\ repairer'.tables = repairer.tables /\ repairer'.next = repairer.next /\ repairer'.at = repairer.at
        /\ repairer'.copy = repairer.copy /\ repairer'.entries = repairer.entries /\ repairer'.ok = repairer.ok
    BY <1>1 DEF RType, Repairers
  <2>5. RType'
    <3>1. dir' \in [Numbers -> RepairedFiles]
      BY <1>1, <2>1, <2>2, <2>3, <2>4 DEF RType, RepairedFiles, Absent
    <3>2. lost' \in [LostNames -> SUBSET Nat]
      BY <1>1, <2>1, <2>2, <2>3, <2>4 DEF RType
    <3>3. repairer' \in Repairers
      <4>1. "rename" \in PCs /\ repairer.next + 1 \in Nat
        BY DEF PCs
      <4> QED
        BY <4>1, <1>1 DEF RType, Repairers
    <3>4. installed' \in Descriptors /\ repairs' \in Nat
      BY <2>1, <2>2, <2>3, <2>4 DEF RType
    <3> QED
      BY <3>1, <3>2, <3>3, <3>4 DEF RType
  <2>6. DirInv'
    BY <2>1, <2>2, <2>3, <2>4 DEF DirInv, NextInv, SourceInv, CopyInv, EntriesInv, Running, IsTable, CopyMade,
       Copying, Absent
  <2>7. NextInv'
    BY <2>1, <2>2, <2>3, <2>4 DEF NextInv, ListsInv, SourceInv, CopyInv, Running, IsTable, CopyMade, Copying
  <2>8. ListsInv'
    BY <2>1, <2>2, <2>3, <2>4 DEF ListsInv, NextInv, SourceInv, CopyInv, Running, IsTable, CopyMade, Copying
  <2>9. SourceInv'
    BY <2>1, <2>2, <2>3, <2>4 DEF SourceInv, ListsInv, NextInv, Running, IsTable
  <2>10. CopyInv'
    BY <2>1, <2>2, <2>3, <2>4 DEF CopyInv, SourceInv, ListsInv, NextInv, Running, IsTable, CopyMade, Copying
  <2>11. EntriesInv'
    BY <2>1, <2>2, <2>3, <2>4 DEF EntriesInv, DirInv, SourceInv, CopyInv, IsTable, CopyMade, Copying, Absent
  <2>12. NamesInv'
    BY <2>1, <2>2, <2>3, <2>4 DEF NamesInv, Covered, NextInv, SourceInv, CopyInv, EntriesInv, CallsInv, Running,
       IsTable, CopyMade, Copying
  <2>13. CallsInv'
    BY <2>1, <2>2, <2>3, <2>4 DEF CallsInv, Running
  <2>14. KeptInv'
    BY <2>1, <2>2, <2>3, <2>4 DEF KeptInv, InDir, InLost, DirInv, NextInv, SourceInv, CopyInv, EntriesInv, Running,
       IsTable, CopyMade, Copying, Absent
  <2>15. FoundInv'
    BY <2>1, <2>2, <2>3, <2>4 DEF FoundInv, InHand, InLost, DirInv, NextInv, ListsInv, SourceInv, CopyInv,
       EntriesInv, Running, IsTable, CopyMade, Copying, Absent
  <2>16. ListedInv'
    BY <2>1, <2>2, <2>3, <2>4 DEF ListedInv, InLost, NextInv, ListsInv, SourceInv, CopyInv, CallsInv, Running,
       IsTable, CopyMade, Copying, Absent
  <2>17. DoneInv'
    BY <2>1, <2>2, <2>3, <2>4 DEF DoneInv
  <2> QED
    BY <2>5, <2>6, <2>7, <2>8, <2>9, <2>10, <2>11, <2>12, <2>13, <2>14, <2>15, <2>16, <2>17 DEF RInv
<1>2. CASE /\ Fails("finish") /\ UNCHANGED dir
           /\ repairer' = [repairer EXCEPT !.pc = "removeCopy", !.ok = FALSE]
  <2>1. repairer.pc = "finish" /\ dir' = dir /\ lost' = lost /\ installed' = installed /\ repairs' = repairs
        /\ salvageable' = salvageable /\ found' = found
    BY <1>2 DEF FinishCopy
  <2>2. ~(MaxRepairs > 1)
    BY <1>2 DEF ArchiveNamesFresh, Fails, MayFail
  <2>3. /\ repairer'.pc = "removeCopy" /\ repairer'.logs = repairer.logs /\ repairer'.numbers = repairer.numbers
        /\ repairer'.tables = repairer.tables /\ repairer'.next = repairer.next /\ repairer'.at = repairer.at
        /\ repairer'.copy = repairer.copy /\ repairer'.entries = repairer.entries /\ repairer'.ok = FALSE
    BY <1>2 DEF RType, Repairers
  <2>4. RType'
    <3>1. dir' \in [Numbers -> RepairedFiles]
      BY <1>2, <2>1, <2>2, <2>3 DEF RType, RepairedFiles, Absent
    <3>2. lost' \in [LostNames -> SUBSET Nat]
      BY <1>2, <2>1, <2>2, <2>3 DEF RType
    <3>3. repairer' \in Repairers
      <4>1. "removeCopy" \in PCs /\ repairer.next + 1 \in Nat
        BY DEF PCs
      <4> QED
        BY <4>1, <1>2 DEF RType, Repairers
    <3>4. installed' \in Descriptors /\ repairs' \in Nat
      BY <2>1, <2>2, <2>3 DEF RType
    <3> QED
      BY <3>1, <3>2, <3>3, <3>4 DEF RType
  <2>5. DirInv'
    BY <2>1, <2>2, <2>3 DEF DirInv, NextInv, SourceInv, CopyInv, EntriesInv, Running, IsTable, CopyMade, Copying,
       Absent
  <2>6. NextInv'
    BY <2>1, <2>2, <2>3 DEF NextInv, ListsInv, SourceInv, CopyInv, Running, IsTable, CopyMade, Copying
  <2>7. ListsInv'
    BY <2>1, <2>2, <2>3 DEF ListsInv, NextInv, SourceInv, CopyInv, Running, IsTable, CopyMade, Copying
  <2>8. SourceInv'
    BY <2>1, <2>2, <2>3 DEF SourceInv, ListsInv, NextInv, Running, IsTable
  <2>9. CopyInv'
    BY <2>1, <2>2, <2>3 DEF CopyInv, SourceInv, ListsInv, NextInv, Running, IsTable, CopyMade, Copying
  <2>10. EntriesInv'
    BY <2>1, <2>2, <2>3 DEF EntriesInv, DirInv, SourceInv, CopyInv, IsTable, CopyMade, Copying, Absent
  <2>11. NamesInv'
    BY <2>1, <2>2, <2>3 DEF NamesInv, Covered, NextInv, SourceInv, CopyInv, EntriesInv, CallsInv, Running, IsTable,
       CopyMade, Copying
  <2>12. CallsInv'
    BY <2>1, <2>2, <2>3 DEF CallsInv, Running
  <2>13. KeptInv'
    BY <2>1, <2>2, <2>3 DEF KeptInv, InDir, InLost, DirInv, NextInv, SourceInv, CopyInv, EntriesInv, Running,
       IsTable, CopyMade, Copying, Absent
  <2>14. FoundInv'
    BY <2>1, <2>2, <2>3 DEF FoundInv, InHand, InLost, DirInv, NextInv, ListsInv, SourceInv, CopyInv, EntriesInv,
       Running, IsTable, CopyMade, Copying, Absent
  <2>15. ListedInv'
    BY <2>1, <2>2, <2>3 DEF ListedInv, InLost, NextInv, ListsInv, SourceInv, CopyInv, CallsInv, Running, IsTable,
       CopyMade, Copying, Absent
  <2>16. DoneInv'
    BY <2>1, <2>2, <2>3 DEF DoneInv
  <2> QED
    BY <2>4, <2>5, <2>6, <2>7, <2>8, <2>9, <2>10, <2>11, <2>12, <2>13, <2>14, <2>15, <2>16 DEF RInv
<1> QED
  BY <1>1, <1>2 DEF FinishCopy

\* The copy takes the name of its source, or is given up.
LEMMA RenameCopyKeeps ==
  ASSUME RInv, ArchiveNamesFresh, RenameCopy
  PROVE  RInv'
<1>0. RType /\ DirInv /\ NextInv /\ ListsInv /\ SourceInv /\ CopyInv /\ EntriesInv /\ NamesInv /\ CallsInv
      /\ KeptInv /\ FoundInv /\ ListedInv /\ DoneInv
  BY DEF RInv
<1> USE <1>0, TypeFacts
<1>1. CASE /\ Works
           /\ dir' = [dir EXCEPT ![repairer.at] = dir[repairer.copy], ![repairer.copy] = Absent]
           /\ repairer' = [repairer EXCEPT !.pc = "tables", !.tables = @ \cup {repairer.at}]
  <2>1. repairer.pc = "rename" /\ lost' = lost /\ installed' = installed /\ repairs' = repairs
        /\ salvageable' = salvageable /\ found' = found
    BY DEF RenameCopy
  <2>2. repairer.copy \in Numbers /\ repairer.at \in Numbers /\ repairer.at # repairer.copy
        /\ dir[repairer.copy].type = "table" /\ dir[repairer.copy].data = repairer.entries
        /\ ~dir[repairer.copy].bad
    BY <2>1 DEF CopyInv, CopyMade, Copying, IsTable
  <2>3. /\ dir'[repairer.at] = dir[repairer.copy] /\ dir'[repairer.copy] = Absent
        /\ \A n \in Numbers : n # repairer.copy /\ n # repairer.at => dir'[n] = dir[n]
    BY <1>1, <2>2 DEF RType
  <2>4. Absent.type = "none" /\ Absent.data = {} /\ IsFiniteSet(Absent.data)
    BY FS_EmptySet DEF Absent
  <2>5. /\ repairer'.pc = "tables" /\ repairer'.logs = repairer.logs /\ repairer'.numbers = repairer.numbers
        /\ repairer'.tables = repairer.tables \cup {repairer.at} /\ repairer'.next = repairer.next
        /\ repairer'.at = repairer.at
        /\ repairer'.copy = repairer.copy /\ repairer'.entries = repairer.entries /\ repairer'.ok = repairer.ok
    BY <1>1 DEF RType, Repairers
  <2>6. RType'
    <3>1. dir' \in [Numbers -> RepairedFiles]
      BY <1>1, <2>1, <2>2, <2>3, <2>4, <2>5 DEF RType, RepairedFiles, Absent
    <3>2. lost' \in [LostNames -> SUBSET Nat]
      BY <1>1, <2>1, <2>2, <2>3, <2>4, <2>5 DEF RType
    <3>3. repairer' \in Repairers
      <4>1. "tables" \in PCs /\ repairer.next + 1 \in Nat
        BY DEF PCs
      <4> QED
        BY <4>1, <1>1, <2>2 DEF RType, Repairers
    <3>4. installed' \in Descriptors /\ repairs' \in Nat
      BY <2>1, <2>2, <2>3, <2>4, <2>5 DEF RType
    <3> QED
      BY <3>1, <3>2, <3>3, <3>4 DEF RType
  <2>7. DirInv'
    <3>1. ASSUME NEW n \in Numbers
         PROVE  /\ dir'[n].type = "none" => dir'[n] = Absent
                /\ IsFiniteSet(dir'[n].data)
                /\ dir'[n].type # "none" => lost'[<<dir'[n].type, n>>] \subseteq dir'[n].data
      <4>1. CASE n = repairer.at
        BY <2>1, <2>2, <2>3, <2>4, <4>1 DEF DirInv, EntriesInv, Copying
      <4>2. CASE n = repairer.copy
        BY <2>1, <2>2, <2>3, <2>4, <4>2 DEF DirInv, EntriesInv, Copying
      <4>3. CASE n \notin {repairer.at, repairer.copy}
        BY <2>1, <2>2, <2>3, <2>4, <4>3 DEF DirInv
      <4> QED
        BY <4>1, <4>2, <4>3
    <3> QED
      BY <3>1 DEF DirInv
  <2>8. NextInv'
    BY <2>1, <2>2, <2>3, <2>4, <2>5 DEF NextInv, ListsInv, SourceInv, CopyInv, Running, IsTable, CopyMade, Copying
  <2>9. ListsInv'
    BY <2>1, <2>2, <2>3, <2>4, <2>5 DEF ListsInv, NextInv, SourceInv, CopyInv, Running, IsTable, CopyMade, Copying
  <2>10. SourceInv'
    BY <2>1, <2>2, <2>3, <2>4, <2>5 DEF SourceInv, ListsInv, NextInv, Running, IsTable
  <2>11. CopyInv'
    BY <2>1, <2>2, <2>3, <2>4, <2>5 DEF CopyInv, SourceInv, ListsInv, NextInv, Running, IsTable, CopyMade, Copying
  <2>12. EntriesInv'
    BY <2>1, <2>2, <2>3, <2>4, <2>5 DEF EntriesInv, DirInv, SourceInv, CopyInv, IsTable, CopyMade, Copying, Absent
  <2>13. NamesInv'
    BY <2>1, <2>2, <2>3, <2>4, <2>5 DEF NamesInv, Covered, NextInv, SourceInv, CopyInv, EntriesInv, CallsInv,
       Running, IsTable, CopyMade, Copying
  <2>14. CallsInv'
    BY <2>1, <2>2, <2>3, <2>4, <2>5 DEF CallsInv, Running
  <2>15. KeptInv'
    <3>1. ASSUME NEW x \in salvageable PROVE InDir(x)' \/ InLost(x)'
      <4>1. InLost(x) => InLost(x)'
        BY <2>1, <2>2, <2>3, <2>4 DEF InLost
      <4>2. ASSUME NEW n \in Numbers, x \in dir[n].data, n = repairer.copy \/ n = repairer.at PROVE InDir(x)' \/ InLost(x)'
        <5>1. x \in dir'[repairer.at].data
          BY <2>1, <2>2, <2>3, <2>4, <4>2 DEF EntriesInv, DirInv, Copying
        <5> QED
          BY <5>1, <2>1, <2>2, <2>3, <2>4 DEF InDir, InLost
      <4>3. ASSUME NEW n \in Numbers, x \in dir[n].data, n # repairer.copy, n # repairer.at PROVE InDir(x)' \/ InLost(x)'
        <5>1. x \in dir'[n].data
          BY <2>1, <2>2, <2>3, <2>4, <4>3 
        <5> QED
          BY <5>1, <2>1, <2>2, <2>3, <2>4 DEF InDir, InLost
      <4>4. InDir(x) \/ InLost(x)
        BY <2>1, <2>2, <2>3, <2>4 DEF KeptInv
      <4> QED
        BY <4>1, <4>2, <4>3, <4>4 DEF InDir
    <3> QED
      BY <3>1, <2>1, <2>2, <2>3, <2>4 DEF KeptInv
  <2>16. FoundInv'
    BY <2>1, <2>2, <2>3, <2>4, <2>5 DEF FoundInv, InHand, InLost, DirInv, NextInv, ListsInv, SourceInv, CopyInv,
       EntriesInv, Running, IsTable, CopyMade, Copying, Absent
  <2>17. ListedInv'
    BY <2>1, <2>2, <2>3, <2>4, <2>5 DEF ListedInv, InLost, NextInv, ListsInv, SourceInv, CopyInv, CallsInv,
       Running, IsTable, CopyMade, Copying, Absent
  <2>18. DoneInv'
    BY <2>1, <2>2, <2>3, <2>4, <2>5 DEF DoneInv
  <2> QED
    BY <2>6, <2>7, <2>8, <2>9, <2>10, <2>11, <2>12, <2>13, <2>14, <2>15, <2>16, <2>17, <2>18 DEF RInv
<1>2. CASE /\ Fails("rename") /\ UNCHANGED dir
           /\ repairer' = [repairer EXCEPT !.pc = "removeCopy", !.ok = FALSE]
  <2>1. repairer.pc = "rename" /\ dir' = dir /\ lost' = lost /\ installed' = installed /\ repairs' = repairs
        /\ salvageable' = salvageable /\ found' = found
    BY <1>2 DEF RenameCopy
  <2>2. ~(MaxRepairs > 1)
    BY <1>2 DEF ArchiveNamesFresh, Fails, MayFail
  <2>3. /\ repairer'.pc = "removeCopy" /\ repairer'.logs = repairer.logs /\ repairer'.numbers = repairer.numbers
        /\ repairer'.tables = repairer.tables /\ repairer'.next = repairer.next /\ repairer'.at = repairer.at
        /\ repairer'.copy = repairer.copy /\ repairer'.entries = repairer.entries /\ repairer'.ok = FALSE
    BY <1>2 DEF RType, Repairers
  <2>4. RType'
    <3>1. dir' \in [Numbers -> RepairedFiles]
      BY <1>2, <2>1, <2>2, <2>3 DEF RType, RepairedFiles, Absent
    <3>2. lost' \in [LostNames -> SUBSET Nat]
      BY <1>2, <2>1, <2>2, <2>3 DEF RType
    <3>3. repairer' \in Repairers
      <4>1. "removeCopy" \in PCs /\ repairer.next + 1 \in Nat
        BY DEF PCs
      <4> QED
        BY <4>1, <1>2 DEF RType, Repairers
    <3>4. installed' \in Descriptors /\ repairs' \in Nat
      BY <2>1, <2>2, <2>3 DEF RType
    <3> QED
      BY <3>1, <3>2, <3>3, <3>4 DEF RType
  <2>5. DirInv'
    BY <2>1, <2>2, <2>3 DEF DirInv, NextInv, SourceInv, CopyInv, EntriesInv, Running, IsTable, CopyMade, Copying,
       Absent
  <2>6. NextInv'
    BY <2>1, <2>2, <2>3 DEF NextInv, ListsInv, SourceInv, CopyInv, Running, IsTable, CopyMade, Copying
  <2>7. ListsInv'
    BY <2>1, <2>2, <2>3 DEF ListsInv, NextInv, SourceInv, CopyInv, Running, IsTable, CopyMade, Copying
  <2>8. SourceInv'
    BY <2>1, <2>2, <2>3 DEF SourceInv, ListsInv, NextInv, Running, IsTable
  <2>9. CopyInv'
    BY <2>1, <2>2, <2>3 DEF CopyInv, SourceInv, ListsInv, NextInv, Running, IsTable, CopyMade, Copying
  <2>10. EntriesInv'
    BY <2>1, <2>2, <2>3 DEF EntriesInv, DirInv, SourceInv, CopyInv, IsTable, CopyMade, Copying, Absent
  <2>11. NamesInv'
    BY <2>1, <2>2, <2>3 DEF NamesInv, Covered, NextInv, SourceInv, CopyInv, EntriesInv, CallsInv, Running, IsTable,
       CopyMade, Copying
  <2>12. CallsInv'
    BY <2>1, <2>2, <2>3 DEF CallsInv, Running
  <2>13. KeptInv'
    BY <2>1, <2>2, <2>3 DEF KeptInv, InDir, InLost, DirInv, NextInv, SourceInv, CopyInv, EntriesInv, Running,
       IsTable, CopyMade, Copying, Absent
  <2>14. FoundInv'
    BY <2>1, <2>2, <2>3 DEF FoundInv, InHand, InLost, DirInv, NextInv, ListsInv, SourceInv, CopyInv, EntriesInv,
       Running, IsTable, CopyMade, Copying, Absent
  <2>15. ListedInv'
    BY <2>1, <2>2, <2>3 DEF ListedInv, InLost, NextInv, ListsInv, SourceInv, CopyInv, CallsInv, Running, IsTable,
       CopyMade, Copying, Absent
  <2>16. DoneInv'
    BY <2>1, <2>2, <2>3 DEF DoneInv
  <2> QED
    BY <2>4, <2>5, <2>6, <2>7, <2>8, <2>9, <2>10, <2>11, <2>12, <2>13, <2>14, <2>15, <2>16 DEF RInv
<1> QED
  BY <1>1, <1>2 DEF RenameCopy

\* A copy that was given up is removed.
LEMMA RemoveCopyKeeps ==
  ASSUME RInv, ArchiveNamesFresh, RemoveCopy
  PROVE  RInv'
<1>0. RType /\ DirInv /\ NextInv /\ ListsInv /\ SourceInv /\ CopyInv /\ EntriesInv /\ NamesInv /\ CallsInv
      /\ KeptInv /\ FoundInv /\ ListedInv /\ DoneInv
  BY DEF RInv
<1> USE <1>0, TypeFacts
<1>1. repairer.pc = "removeCopy" /\ lost' = lost /\ installed' = installed /\ repairs' = repairs
      /\ salvageable' = salvageable /\ found' = found
      /\ dir' = [dir EXCEPT ![repairer.copy] = Absent] /\ repairer' = [repairer EXCEPT !.pc = "tables"]
  BY DEF RemoveCopy
<1>2. repairer.copy \in Numbers /\ repairer.at \in Numbers /\ repairer.at # repairer.copy
  BY <1>1 DEF CopyInv, CopyMade, Copying, IsTable
<1>3. /\ dir'[repairer.copy] = Absent
      /\ \A n \in Numbers : n # repairer.copy => dir'[n] = dir[n]
  BY <1>1, <1>2 DEF RType
<1>4. Absent.type = "none" /\ Absent.data = {} /\ IsFiniteSet(Absent.data) /\ ~(MaxRepairs > 1)
  BY <1>1, FS_EmptySet DEF Absent, CallsInv
<1>5. /\ repairer'.pc = "tables" /\ repairer'.logs = repairer.logs /\ repairer'.numbers = repairer.numbers
      /\ repairer'.tables = repairer.tables /\ repairer'.next = repairer.next /\ repairer'.at = repairer.at
      /\ repairer'.copy = repairer.copy /\ repairer'.entries = repairer.entries /\ repairer'.ok = repairer.ok
  BY <1>1 DEF RType, Repairers
<1>6. RType'
  <2>1. dir' \in [Numbers -> RepairedFiles]
    BY <1>1, <1>1, <1>2, <1>3, <1>4, <1>5 DEF RType, RepairedFiles, Absent
  <2>2. lost' \in [LostNames -> SUBSET Nat]
    BY <1>1, <1>1, <1>2, <1>3, <1>4, <1>5 DEF RType
  <2>3. repairer' \in Repairers
    <3>1. "tables" \in PCs /\ repairer.next + 1 \in Nat
      BY DEF PCs
    <3> QED
      BY <3>1, <1>1 DEF RType, Repairers
  <2>4. installed' \in Descriptors /\ repairs' \in Nat
    BY <1>1, <1>2, <1>3, <1>4, <1>5 DEF RType
  <2> QED
    BY <2>1, <2>2, <2>3, <2>4 DEF RType
<1>7. DirInv'
  BY <1>1, <1>2, <1>3, <1>4, <1>5 DEF DirInv, NextInv, SourceInv, CopyInv, EntriesInv, Running, IsTable, CopyMade,
     Copying, Absent
<1>8. NextInv'
  BY <1>1, <1>2, <1>3, <1>4, <1>5 DEF NextInv, ListsInv, SourceInv, CopyInv, Running, IsTable, CopyMade, Copying
<1>9. ListsInv'
  BY <1>1, <1>2, <1>3, <1>4, <1>5 DEF ListsInv, NextInv, SourceInv, CopyInv, Running, IsTable, CopyMade, Copying
<1>10. SourceInv'
  BY <1>1, <1>2, <1>3, <1>4, <1>5 DEF SourceInv, ListsInv, NextInv, Running, IsTable
<1>11. CopyInv'
  BY <1>1, <1>2, <1>3, <1>4, <1>5 DEF CopyInv, SourceInv, ListsInv, NextInv, Running, IsTable, CopyMade, Copying
<1>12. EntriesInv'
  BY <1>1, <1>2, <1>3, <1>4, <1>5 DEF EntriesInv, DirInv, SourceInv, CopyInv, IsTable, CopyMade, Copying, Absent
<1>13. NamesInv'
  BY <1>1, <1>2, <1>3, <1>4, <1>5 DEF NamesInv, Covered, NextInv, SourceInv, CopyInv, EntriesInv, CallsInv,
     Running, IsTable, CopyMade, Copying
<1>14. CallsInv'
  BY <1>1, <1>2, <1>3, <1>4, <1>5 DEF CallsInv, Running
<1>15. KeptInv'
  <2>1. ASSUME NEW x \in salvageable PROVE InDir(x)' \/ InLost(x)'
    <3>1. InLost(x) => InLost(x)'
      BY <1>1, <1>2, <1>3 DEF InLost
    <3>2. ASSUME NEW n \in Numbers, x \in dir[n].data, n = repairer.copy PROVE InDir(x)' \/ InLost(x)'
      <4>1. x \in dir'[repairer.at].data \/ x \in lost'[<<"table", repairer.at>>]
        BY <1>1, <1>2, <1>3, <3>2 DEF EntriesInv, Copying
      <4> QED
        BY <4>1, <1>1, <1>2, <1>3 DEF InDir, InLost
    <3>3. ASSUME NEW n \in Numbers, x \in dir[n].data, n # repairer.copy PROVE InDir(x)' \/ InLost(x)'
      <4>1. x \in dir'[n].data
        BY <1>1, <1>2, <1>3, <3>3 
      <4> QED
        BY <4>1, <1>1, <1>2, <1>3 DEF InDir, InLost
    <3>4. InDir(x) \/ InLost(x)
      BY <1>1, <1>2, <1>3 DEF KeptInv
    <3> QED
      BY <3>1, <3>2, <3>3, <3>4 DEF InDir
  <2> QED
    BY <2>1, <1>1, <1>2, <1>3 DEF KeptInv
<1>16. FoundInv'
  BY <1>1, <1>2, <1>3, <1>4, <1>5 DEF FoundInv, InHand, InLost, DirInv, NextInv, ListsInv, SourceInv, CopyInv,
     EntriesInv, Running, IsTable, CopyMade, Copying, Absent
<1>17. ListedInv'
  BY <1>1, <1>2, <1>3, <1>4, <1>5 DEF ListedInv, InLost, NextInv, ListsInv, SourceInv, CopyInv, CallsInv, Running,
     IsTable, CopyMade, Copying, Absent
<1>18. DoneInv'
  BY <1>1, <1>2, <1>3, <1>4, <1>5 DEF DoneInv
<1> QED
  BY <1>6, <1>7, <1>8, <1>9, <1>10, <1>11, <1>12, <1>13, <1>14, <1>15, <1>16, <1>17, <1>18 DEF RInv

\* What archiving a file does to lost/: nothing there is overwritten but by a
\* file that holds as much.
LEMMA ArchivedNames ==
  ASSUME RType, DirInv, NEW n \in Numbers, NEW T \in {"log", "table"}, dir[n].type = T, lost' = Archived(n)
  PROVE  /\ lost' \in [LostNames -> SUBSET Nat] /\ lost'[<<T, n>>] = dir[n].data
         /\ \A f \in LostNames : lost[f] \subseteq lost'[f]
         /\ \A m \in Numbers : m # n \/ T = "log" => lost'[<<"table", m>>] = lost[<<"table", m>>]
         /\ \A m \in Numbers : m # n /\ dir[m].type # "none" => lost'[<<dir[m].type, m>>] = lost[<<dir[m].type, m>>]
<1>1. PICK g : g = <<T, n>>
  OBVIOUS
<1>2. lost' = [lost EXCEPT ![g] = dir[n].data] /\ g \in LostNames
  BY <1>1 DEF Archived, LostNames
<1>3. /\ lost'[g] = dir[n].data /\ \A f \in LostNames : f # g => lost'[f] = lost[f]
      /\ lost' \in [LostNames -> SUBSET Nat]
  BY <1>2, TypeFacts DEF RType
<1>4. lost[g] \subseteq dir[n].data
  BY <1>1 DEF DirInv
<1>5. \A f \in LostNames : lost[f] \subseteq lost'[f]
  BY <1>3, <1>4
<1>6. \A m \in Numbers : m # n => <<"log", m>> # g /\ <<"table", m>> # g
  BY <1>1
<1>7. T = "log" => <<"table", n>> # g
  BY <1>1
<1>8. \A m \in Numbers : <<"log", m>> \in LostNames /\ <<"table", m>> \in LostNames
  BY TypeFacts
<1>9. \A m \in Numbers : m # n \/ T = "log" => lost'[<<"table", m>>] = lost[<<"table", m>>]
  BY <1>3, <1>6, <1>7, <1>8
<1>10. ASSUME NEW m \in Numbers, m # n, dir[m].type # "none"
       PROVE  lost'[<<dir[m].type, m>>] = lost[<<dir[m].type, m>>]
  <2>1. dir[m].type = "log" \/ dir[m].type = "table"
    BY <1>10, TypeFacts
  <2>2. lost'[<<"log", m>>] = lost[<<"log", m>>] /\ lost'[<<"table", m>>] = lost[<<"table", m>>]
    BY <1>3, <1>6, <1>8, <1>10
  <2> QED
    BY <2>1, <2>2
<1>11. lost'[<<T, n>>] = dir[n].data
  BY <1>1, <1>3
<1> QED
  BY <1>3, <1>5, <1>9, <1>10, <1>11

\* The file that is archived is gone.
LEMMA ArchivedDir ==
  ASSUME RType, NEW n \in Numbers, dir' = [dir EXCEPT ![n] = Absent]
  PROVE  /\ dir'[n] = Absent /\ \A m \in Numbers : m # n => dir'[m] = dir[m]
         /\ dir' \in [Numbers -> RepairedFiles]
<1>1. Absent \in RepairedFiles
  BY DEF Absent, RepairedFiles
<1> QED
  BY <1>1 DEF RType

\* A log is archived, or stays where it is.
LEMMA ArchiveLogKeeps ==
  ASSUME RInv, ArchiveNamesFresh, ArchiveLog
  PROVE  RInv'
<1>0. RType /\ DirInv /\ NextInv /\ ListsInv /\ SourceInv /\ CopyInv /\ EntriesInv /\ NamesInv /\ CallsInv
      /\ KeptInv /\ FoundInv /\ ListedInv /\ DoneInv
  BY DEF RInv
<1> USE <1>0, TypeFacts
<1>1. CASE Works /\ lost' = Archived(repairer.at) /\ dir' = [dir EXCEPT ![repairer.at] = Absent]
  <2>1. repairer.pc = "archiveLog" /\ installed' = installed /\ repairs' = repairs /\ salvageable' = salvageable
        /\ found' = found
        /\ repairer' = [repairer EXCEPT !.pc = "logs", !.logs = @ \ {repairer.at}]
    BY <1>1 DEF ArchiveLog
  <2>2. repairer.at \in repairer.logs /\ repairer.at \in Numbers /\ dir[repairer.at].type = "log"
    BY <2>1 DEF ListsInv, Running
  <2>3. /\ lost'[<<"log", repairer.at>>] = dir[repairer.at].data /\ \A f \in LostNames : lost[f] \subseteq lost'[f]
        /\ \A m \in Numbers : lost'[<<"table", m>>] = lost[<<"table", m>>]
        /\ \A m \in Numbers : m # repairer.at /\ dir[m].type # "none" => lost'[<<dir[m].type, m>>] = lost[<<dir[m].type, m>>]
        /\ lost' \in [LostNames -> SUBSET Nat]
    BY <1>1, <2>2, ArchivedNames
  <2>4. /\ dir'[repairer.at] = Absent /\ \A m \in Numbers : m # repairer.at => dir'[m] = dir[m]
        /\ dir' \in [Numbers -> RepairedFiles]
    BY <1>1, <2>2, ArchivedDir
  <2>5. Absent.type = "none" /\ Absent.data = {} /\ IsFiniteSet(Absent.data)
    BY FS_EmptySet DEF Absent
  <2>6. /\ repairer'.pc = "logs" /\ repairer'.logs = repairer.logs \ {repairer.at}
        /\ repairer'.numbers = repairer.numbers
        /\ repairer'.tables = repairer.tables /\ repairer'.next = repairer.next /\ repairer'.at = repairer.at
        /\ repairer'.copy = repairer.copy /\ repairer'.entries = repairer.entries /\ repairer'.ok = repairer.ok
    BY <2>1 DEF RType, Repairers
  <2>7. RType'
    <3>1. dir' \in [Numbers -> RepairedFiles]
      BY <2>1, <2>1, <2>2, <2>3, <2>4, <2>5, <2>6 DEF RType, RepairedFiles, Absent
    <3>2. lost' \in [LostNames -> SUBSET Nat]
      BY <2>1, <2>1, <2>2, <2>3, <2>4, <2>5, <2>6 DEF RType
    <3>3. repairer' \in Repairers
      <4>1. "logs" \in PCs /\ repairer.next + 1 \in Nat
        BY DEF PCs
      <4> QED
        BY <4>1, <2>1 DEF RType, Repairers
    <3>4. installed' \in Descriptors /\ repairs' \in Nat
      BY <2>1, <2>2, <2>3, <2>4, <2>5, <2>6 DEF RType
    <3> QED
      BY <3>1, <3>2, <3>3, <3>4 DEF RType
  <2>8. DirInv'
    <3>1. ASSUME NEW n \in Numbers
         PROVE  /\ dir'[n].type = "none" => dir'[n] = Absent
                /\ IsFiniteSet(dir'[n].data)
                /\ dir'[n].type # "none" => lost'[<<dir'[n].type, n>>] \subseteq dir'[n].data
      <4>1. CASE n = repairer.at
        BY <2>1, <2>2, <2>3, <2>4, <2>5, <4>1 DEF DirInv, EntriesInv, Copying
      <4>2. CASE n \notin {repairer.at}
        BY <2>1, <2>2, <2>3, <2>4, <2>5, <4>2 DEF DirInv
      <4> QED
        BY <4>1, <4>2
    <3> QED
      BY <3>1 DEF DirInv
  <2>9. NextInv'
    BY <2>1, <2>2, <2>3, <2>4, <2>5, <2>6 DEF NextInv, ListsInv, SourceInv, CopyInv, Running, IsTable, CopyMade,
       Copying
  <2>10. ListsInv'
    BY <2>1, <2>2, <2>3, <2>4, <2>5, <2>6 DEF ListsInv, NextInv, SourceInv, CopyInv, Running, IsTable, CopyMade,
       Copying
  <2>11. SourceInv'
    BY <2>1, <2>2, <2>3, <2>4, <2>5, <2>6 DEF SourceInv, ListsInv, NextInv, Running, IsTable
  <2>12. CopyInv'
    BY <2>1, <2>2, <2>3, <2>4, <2>5, <2>6 DEF CopyInv, SourceInv, ListsInv, NextInv, Running, IsTable, CopyMade,
       Copying
  <2>13. EntriesInv'
    BY <2>1, <2>2, <2>3, <2>4, <2>5, <2>6 DEF EntriesInv, DirInv, SourceInv, CopyInv, IsTable, CopyMade, Copying,
       Absent
  <2>14. NamesInv'
    BY <2>1, <2>2, <2>3, <2>4, <2>5, <2>6 DEF NamesInv, Covered, NextInv, SourceInv, CopyInv, EntriesInv, CallsInv,
       Running, IsTable, CopyMade, Copying
  <2>15. CallsInv'
    BY <2>1, <2>2, <2>3, <2>4, <2>5, <2>6 DEF CallsInv, Running
  <2>16. KeptInv'
    <3>1. ASSUME NEW x \in salvageable PROVE InDir(x)' \/ InLost(x)'
      <4>1. InLost(x) => InLost(x)'
        BY <2>1, <2>2, <2>3, <2>4 DEF InLost
      <4>2. ASSUME NEW n \in Numbers, x \in dir[n].data, n = repairer.at PROVE InDir(x)' \/ InLost(x)'
        <5>1. \E f \in LostNames : x \in lost'[f]
          BY <2>1, <2>2, <2>3, <2>4, <4>2 
        <5> QED
          BY <5>1, <2>1, <2>2, <2>3, <2>4 DEF InDir, InLost
      <4>3. ASSUME NEW n \in Numbers, x \in dir[n].data, n # repairer.at PROVE InDir(x)' \/ InLost(x)'
        <5>1. x \in dir'[n].data
          BY <2>1, <2>2, <2>3, <2>4, <4>3 
        <5> QED
          BY <5>1, <2>1, <2>2, <2>3, <2>4 DEF InDir, InLost
      <4>4. InDir(x) \/ InLost(x)
        BY <2>1, <2>2, <2>3, <2>4 DEF KeptInv
      <4> QED
        BY <4>1, <4>2, <4>3, <4>4 DEF InDir
    <3> QED
      BY <3>1, <2>1, <2>2, <2>3, <2>4 DEF KeptInv
  <2>17. FoundInv'
    BY <2>1, <2>2, <2>3, <2>4, <2>5, <2>6 DEF FoundInv, InHand, InLost, DirInv, NextInv, ListsInv, SourceInv,
       CopyInv, EntriesInv, Running, IsTable, CopyMade, Copying, Absent
  <2>18. ListedInv'
    BY <2>1, <2>2, <2>3, <2>4, <2>5, <2>6 DEF ListedInv, InLost, NextInv, ListsInv, SourceInv, CopyInv, CallsInv,
       Running, IsTable, CopyMade, Copying, Absent
  <2>19. DoneInv'
    BY <2>1, <2>2, <2>3, <2>4, <2>5, <2>6 DEF DoneInv
  <2> QED
    BY <2>7, <2>8, <2>9, <2>10, <2>11, <2>12, <2>13, <2>14, <2>15, <2>16, <2>17, <2>18, <2>19 DEF RInv
<1>2. CASE Fails("archive") /\ UNCHANGED <<lost, dir>>
  <2>1. repairer.pc = "archiveLog" /\ dir' = dir /\ lost' = lost /\ installed' = installed /\ repairs' = repairs
        /\ salvageable' = salvageable /\ found' = found
        /\ repairer' = [repairer EXCEPT !.pc = "logs", !.logs = @ \ {repairer.at}]
    BY <1>2 DEF ArchiveLog
  <2>2. repairer.at \in repairer.logs /\ repairer.at \in Numbers /\ dir[repairer.at].type = "log"
    BY <2>1 DEF ListsInv, Running
  <2>3. /\ repairer'.pc = "logs" /\ repairer'.logs = repairer.logs \ {repairer.at}
        /\ repairer'.numbers = repairer.numbers
        /\ repairer'.tables = repairer.tables /\ repairer'.next = repairer.next /\ repairer'.at = repairer.at
        /\ repairer'.copy = repairer.copy /\ repairer'.entries = repairer.entries /\ repairer'.ok = repairer.ok
    BY <2>1 DEF RType, Repairers
  <2>4. RType'
    <3>1. dir' \in [Numbers -> RepairedFiles]
      BY <2>1, <2>1, <2>2, <2>3 DEF RType, RepairedFiles, Absent
    <3>2. lost' \in [LostNames -> SUBSET Nat]
      BY <2>1, <2>1, <2>2, <2>3 DEF RType
    <3>3. repairer' \in Repairers
      <4>1. "logs" \in PCs /\ repairer.next + 1 \in Nat
        BY DEF PCs
      <4> QED
        BY <4>1, <2>1 DEF RType, Repairers
    <3>4. installed' \in Descriptors /\ repairs' \in Nat
      BY <2>1, <2>2, <2>3 DEF RType
    <3> QED
      BY <3>1, <3>2, <3>3, <3>4 DEF RType
  <2>5. DirInv'
    BY <2>1, <2>2, <2>3 DEF DirInv, NextInv, SourceInv, CopyInv, EntriesInv, Running, IsTable, CopyMade, Copying,
       Absent
  <2>6. NextInv'
    BY <2>1, <2>2, <2>3 DEF NextInv, ListsInv, SourceInv, CopyInv, Running, IsTable, CopyMade, Copying
  <2>7. ListsInv'
    BY <2>1, <2>2, <2>3 DEF ListsInv, NextInv, SourceInv, CopyInv, Running, IsTable, CopyMade, Copying
  <2>8. SourceInv'
    BY <2>1, <2>2, <2>3 DEF SourceInv, ListsInv, NextInv, Running, IsTable
  <2>9. CopyInv'
    BY <2>1, <2>2, <2>3 DEF CopyInv, SourceInv, ListsInv, NextInv, Running, IsTable, CopyMade, Copying
  <2>10. EntriesInv'
    BY <2>1, <2>2, <2>3 DEF EntriesInv, DirInv, SourceInv, CopyInv, IsTable, CopyMade, Copying, Absent
  <2>11. NamesInv'
    BY <2>1, <2>2, <2>3 DEF NamesInv, Covered, NextInv, SourceInv, CopyInv, EntriesInv, CallsInv, Running, IsTable,
       CopyMade, Copying
  <2>12. CallsInv'
    BY <2>1, <2>2, <2>3 DEF CallsInv, Running
  <2>13. KeptInv'
    BY <2>1, <2>2, <2>3 DEF KeptInv, InDir, InLost, DirInv, NextInv, SourceInv, CopyInv, EntriesInv, Running,
       IsTable, CopyMade, Copying, Absent
  <2>14. FoundInv'
    BY <2>1, <2>2, <2>3 DEF FoundInv, InHand, InLost, DirInv, NextInv, ListsInv, SourceInv, CopyInv, EntriesInv,
       Running, IsTable, CopyMade, Copying, Absent
  <2>15. ListedInv'
    BY <2>1, <2>2, <2>3 DEF ListedInv, InLost, NextInv, ListsInv, SourceInv, CopyInv, CallsInv, Running, IsTable,
       CopyMade, Copying, Absent
  <2>16. DoneInv'
    BY <2>1, <2>2, <2>3 DEF DoneInv
  <2> QED
    BY <2>4, <2>5, <2>6, <2>7, <2>8, <2>9, <2>10, <2>11, <2>12, <2>13, <2>14, <2>15, <2>16 DEF RInv
<1> QED
  BY <1>1, <1>2 DEF ArchiveLog, ArchiveFile

\* The source of a copy is archived, or stays where it is.
LEMMA ArchiveTableKeeps ==
  ASSUME RInv, ArchiveNamesFresh, ArchiveTable
  PROVE  RInv'
<1>0. RType /\ DirInv /\ NextInv /\ ListsInv /\ SourceInv /\ CopyInv /\ EntriesInv /\ NamesInv /\ CallsInv
      /\ KeptInv /\ FoundInv /\ ListedInv /\ DoneInv
  BY DEF RInv
<1> USE <1>0, TypeFacts
<1>1. CASE Works /\ lost' = Archived(repairer.at) /\ dir' = [dir EXCEPT ![repairer.at] = Absent]
  <2>1. repairer.pc = "archiveTable" /\ installed' = installed /\ repairs' = repairs
        /\ salvageable' = salvageable /\ found' = found
        /\ repairer' = [repairer EXCEPT !.pc = IF dir[repairer.at].data = {} THEN "tables" ELSE "finish",
                                    !.entries = dir[repairer.at].data]
    BY <1>1 DEF ArchiveTable
  <2>2. repairer.at \in Numbers /\ repairer.copy \in Numbers /\ repairer.at < repairer.copy
        /\ dir[repairer.at].type = "table" /\ dir[repairer.at].bad
        /\ dir[repairer.copy].type = "table" /\ dir[repairer.copy].data = {}
    BY <2>1 DEF SourceInv, CopyInv, IsTable, CopyMade, Copying
  <2>3. /\ lost'[<<"table", repairer.at>>] = dir[repairer.at].data /\ \A f \in LostNames : lost[f] \subseteq lost'[f]
        /\ \A m \in Numbers : m # repairer.at => lost'[<<"table", m>>] = lost[<<"table", m>>]
        /\ \A m \in Numbers : m # repairer.at /\ dir[m].type # "none" => lost'[<<dir[m].type, m>>] = lost[<<dir[m].type, m>>]
        /\ lost' \in [LostNames -> SUBSET Nat]
    BY <1>1, <2>2, ArchivedNames
  <2>4. /\ dir'[repairer.at] = Absent /\ \A m \in Numbers : m # repairer.at => dir'[m] = dir[m]
        /\ dir' \in [Numbers -> RepairedFiles]
    BY <1>1, <2>2, ArchivedDir
  <2>5. Absent.type = "none" /\ Absent.data = {} /\ IsFiniteSet(Absent.data)
    BY FS_EmptySet DEF Absent
  <2>6. /\ repairer'.pc = (IF dir[repairer.at].data = {} THEN "tables" ELSE "finish") /\ repairer'.logs = repairer.logs /\ repairer'.numbers = repairer.numbers
        /\ repairer'.tables = repairer.tables /\ repairer'.next = repairer.next /\ repairer'.at = repairer.at
        /\ repairer'.copy = repairer.copy /\ repairer'.entries = dir[repairer.at].data /\ repairer'.ok = repairer.ok
    BY <2>1 DEF RType, Repairers
  <2>7. RType'
    <3>1. dir' \in [Numbers -> RepairedFiles]
      BY <2>1, <2>1, <2>2, <2>3, <2>4, <2>5, <2>6 DEF RType, RepairedFiles, Absent
    <3>2. lost' \in [LostNames -> SUBSET Nat]
      BY <2>1, <2>1, <2>2, <2>3, <2>4, <2>5, <2>6 DEF RType
    <3>3. repairer' \in Repairers
      <4>1. (IF dir[repairer.at].data = {} THEN "tables" ELSE "finish") \in PCs /\ repairer.next + 1 \in Nat
        BY DEF PCs
      <4> QED
        BY <4>1, <2>1, <2>2 DEF RType, Repairers
    <3>4. installed' \in Descriptors /\ repairs' \in Nat
      BY <2>1, <2>2, <2>3, <2>4, <2>5, <2>6 DEF RType
    <3> QED
      BY <3>1, <3>2, <3>3, <3>4 DEF RType
  <2>8. DirInv'
    <3>1. ASSUME NEW n \in Numbers
         PROVE  /\ dir'[n].type = "none" => dir'[n] = Absent
                /\ IsFiniteSet(dir'[n].data)
                /\ dir'[n].type # "none" => lost'[<<dir'[n].type, n>>] \subseteq dir'[n].data
      <4>1. CASE n = repairer.at
        BY <2>1, <2>2, <2>3, <2>4, <2>5, <4>1 DEF DirInv, EntriesInv, Copying
      <4>2. CASE n \notin {repairer.at}
        BY <2>1, <2>2, <2>3, <2>4, <2>5, <4>2 DEF DirInv
      <4> QED
        BY <4>1, <4>2
    <3> QED
      BY <3>1 DEF DirInv
  <2>9. NextInv'
    BY <2>1, <2>2, <2>3, <2>4, <2>5, <2>6 DEF NextInv, ListsInv, SourceInv, CopyInv, Running, IsTable, CopyMade,
       Copying
  <2>10. ListsInv'
    BY <2>1, <2>2, <2>3, <2>4, <2>5, <2>6 DEF ListsInv, NextInv, SourceInv, CopyInv, Running, IsTable, CopyMade,
       Copying
  <2>11. SourceInv'
    BY <2>1, <2>2, <2>3, <2>4, <2>5, <2>6 DEF SourceInv, ListsInv, NextInv, Running, IsTable
  <2>12. CopyInv'
    BY <2>1, <2>2, <2>3, <2>4, <2>5, <2>6 DEF CopyInv, SourceInv, ListsInv, NextInv, Running, IsTable, CopyMade,
       Copying
  <2>13. EntriesInv'
    BY <2>1, <2>2, <2>3, <2>4, <2>5, <2>6 DEF EntriesInv, DirInv, SourceInv, CopyInv, IsTable, CopyMade, Copying,
       Absent
  <2>14. NamesInv'
    BY <2>1, <2>2, <2>3, <2>4, <2>5, <2>6 DEF NamesInv, Covered, NextInv, SourceInv, CopyInv, EntriesInv, CallsInv,
       Running, IsTable, CopyMade, Copying
  <2>15. CallsInv'
    BY <2>1, <2>2, <2>3, <2>4, <2>5, <2>6 DEF CallsInv, Running
  <2>16. KeptInv'
    <3>1. ASSUME NEW x \in salvageable PROVE InDir(x)' \/ InLost(x)'
      <4>1. InLost(x) => InLost(x)'
        BY <2>1, <2>2, <2>3, <2>4, <2>6 DEF InLost
      <4>2. ASSUME NEW n \in Numbers, x \in dir[n].data, n = repairer.at PROVE InDir(x)' \/ InLost(x)'
        <5>1. \E f \in LostNames : x \in lost'[f]
          BY <2>1, <2>2, <2>3, <2>4, <2>6, <4>2 
        <5> QED
          BY <5>1, <2>1, <2>2, <2>3, <2>4, <2>6 DEF InDir, InLost
      <4>3. ASSUME NEW n \in Numbers, x \in dir[n].data, n # repairer.at PROVE InDir(x)' \/ InLost(x)'
        <5>1. x \in dir'[n].data
          BY <2>1, <2>2, <2>3, <2>4, <2>6, <4>3 
        <5> QED
          BY <5>1, <2>1, <2>2, <2>3, <2>4, <2>6 DEF InDir, InLost
      <4>4. InDir(x) \/ InLost(x)
        BY <2>1, <2>2, <2>3, <2>4, <2>6 DEF KeptInv
      <4> QED
        BY <4>1, <4>2, <4>3, <4>4 DEF InDir
    <3> QED
      BY <3>1, <2>1, <2>2, <2>3, <2>4, <2>6 DEF KeptInv
  <2>17. FoundInv'
    BY <2>1, <2>2, <2>3, <2>4, <2>5, <2>6 DEF FoundInv, InHand, InLost, DirInv, NextInv, ListsInv, SourceInv,
       CopyInv, EntriesInv, Running, IsTable, CopyMade, Copying, Absent
  <2>18. ListedInv'
    BY <2>1, <2>2, <2>3, <2>4, <2>5, <2>6 DEF ListedInv, InLost, NextInv, ListsInv, SourceInv, CopyInv, CallsInv,
       Running, IsTable, CopyMade, Copying, Absent
  <2>19. DoneInv'
    BY <2>1, <2>2, <2>3, <2>4, <2>5, <2>6 DEF DoneInv
  <2> QED
    BY <2>7, <2>8, <2>9, <2>10, <2>11, <2>12, <2>13, <2>14, <2>15, <2>16, <2>17, <2>18, <2>19 DEF RInv
<1>2. CASE Fails("archive") /\ UNCHANGED <<lost, dir>>
  <2>1. repairer.pc = "archiveTable" /\ dir' = dir /\ lost' = lost /\ installed' = installed
        /\ repairs' = repairs /\ salvageable' = salvageable /\ found' = found
        /\ repairer' = [repairer EXCEPT !.pc = IF dir[repairer.at].data = {} THEN "tables" ELSE "finish",
                                    !.entries = dir[repairer.at].data]
    BY <1>2 DEF ArchiveTable
  <2>2. repairer.at \in Numbers /\ repairer.copy \in Numbers /\ repairer.at < repairer.copy
        /\ dir[repairer.at].type = "table" /\ dir[repairer.at].bad
        /\ dir[repairer.copy].type = "table" /\ dir[repairer.copy].data = {}
    BY <2>1 DEF SourceInv, CopyInv, IsTable, CopyMade, Copying
  <2>3. /\ repairer'.pc = (IF dir[repairer.at].data = {} THEN "tables" ELSE "finish") /\ repairer'.logs = repairer.logs /\ repairer'.numbers = repairer.numbers
        /\ repairer'.tables = repairer.tables /\ repairer'.next = repairer.next /\ repairer'.at = repairer.at
        /\ repairer'.copy = repairer.copy /\ repairer'.entries = dir[repairer.at].data /\ repairer'.ok = repairer.ok
    BY <2>1 DEF RType, Repairers
  <2>4. RType'
    <3>1. dir' \in [Numbers -> RepairedFiles]
      BY <2>1, <2>1, <2>2, <2>3 DEF RType, RepairedFiles, Absent
    <3>2. lost' \in [LostNames -> SUBSET Nat]
      BY <2>1, <2>1, <2>2, <2>3 DEF RType
    <3>3. repairer' \in Repairers
      <4>1. (IF dir[repairer.at].data = {} THEN "tables" ELSE "finish") \in PCs /\ repairer.next + 1 \in Nat
        BY DEF PCs
      <4> QED
        BY <4>1, <2>1, <2>2 DEF RType, Repairers
    <3>4. installed' \in Descriptors /\ repairs' \in Nat
      BY <2>1, <2>2, <2>3 DEF RType
    <3> QED
      BY <3>1, <3>2, <3>3, <3>4 DEF RType
  <2>5. DirInv'
    BY <2>1, <2>2, <2>3 DEF DirInv, NextInv, SourceInv, CopyInv, EntriesInv, Running, IsTable, CopyMade, Copying,
       Absent
  <2>6. NextInv'
    BY <2>1, <2>2, <2>3 DEF NextInv, ListsInv, SourceInv, CopyInv, Running, IsTable, CopyMade, Copying
  <2>7. ListsInv'
    BY <2>1, <2>2, <2>3 DEF ListsInv, NextInv, SourceInv, CopyInv, Running, IsTable, CopyMade, Copying
  <2>8. SourceInv'
    BY <2>1, <2>2, <2>3 DEF SourceInv, ListsInv, NextInv, Running, IsTable
  <2>9. CopyInv'
    BY <2>1, <2>2, <2>3 DEF CopyInv, SourceInv, ListsInv, NextInv, Running, IsTable, CopyMade, Copying
  <2>10. EntriesInv'
    BY <2>1, <2>2, <2>3 DEF EntriesInv, DirInv, SourceInv, CopyInv, IsTable, CopyMade, Copying, Absent
  <2>11. NamesInv'
    BY <2>1, <2>2, <2>3 DEF NamesInv, Covered, NextInv, SourceInv, CopyInv, EntriesInv, CallsInv, Running, IsTable,
       CopyMade, Copying
  <2>12. CallsInv'
    BY <2>1, <2>2, <2>3 DEF CallsInv, Running
  <2>13. KeptInv'
    BY <2>1, <2>2, <2>3 DEF KeptInv, InDir, InLost, DirInv, NextInv, SourceInv, CopyInv, EntriesInv, Running,
       IsTable, CopyMade, Copying, Absent
  <2>14. FoundInv'
    BY <2>1, <2>2, <2>3 DEF FoundInv, InHand, InLost, DirInv, NextInv, ListsInv, SourceInv, CopyInv, EntriesInv,
       Running, IsTable, CopyMade, Copying, Absent
  <2>15. ListedInv'
    BY <2>1, <2>2, <2>3 DEF ListedInv, InLost, NextInv, ListsInv, SourceInv, CopyInv, CallsInv, Running, IsTable,
       CopyMade, Copying, Absent
  <2>16. DoneInv'
    BY <2>1, <2>2, <2>3 DEF DoneInv
  <2> QED
    BY <2>4, <2>5, <2>6, <2>7, <2>8, <2>9, <2>10, <2>11, <2>12, <2>13, <2>14, <2>15, <2>16 DEF RInv
<1> QED
  BY <1>1, <1>2 DEF ArchiveTable, ArchiveFile

\* A log is converted, or not.
LEMMA ConvertLogToTableKeeps ==
  ASSUME RInv, ArchiveNamesFresh, NEW l \in Numbers, ConvertLogToTable(l)
  PROVE  RInv'
<1>0. RType /\ DirInv /\ NextInv /\ ListsInv /\ SourceInv /\ CopyInv /\ EntriesInv /\ NamesInv /\ CallsInv
      /\ KeptInv /\ FoundInv /\ ListedInv /\ DoneInv
  BY DEF RInv
<1> USE <1>0, TypeFacts
<1>1. CASE /\ Works /\ dir[l].data # {}
           /\ dir' = [dir EXCEPT ![repairer.next] = [type |-> "table", data |-> dir[l].data, bad |-> FALSE]]
           /\ repairer' = [repairer EXCEPT !.pc = "archiveLog", !.at = l, !.next = @ + 1,
                                           !.numbers = @ \cup {repairer.next}]
  <2>1. repairer.pc = "logs" /\ l \in repairer.logs /\ l \in Numbers /\ repairer.next <= MaxNumber
        /\ lost' = lost /\ installed' = installed /\ repairs' = repairs /\ salvageable' = salvageable
        /\ found' = found
    BY <1>1 DEF ConvertLogToTable
  <2>2. repairer.next \in Numbers /\ dir[repairer.next].type = "none" /\ dir[repairer.next].data = {}
        /\ lost[<<"table", repairer.next>>] = {}
    BY <2>1, NextIsFree DEF Running
  <2>3. dir[l].type = "log" /\ IsFiniteSet(dir[l].data) /\ l # repairer.next
    BY <2>1, <2>2 DEF ListsInv, DirInv, Running
  <2>4. /\ dir'[repairer.next].type = "table" /\ dir'[repairer.next].data = dir[l].data
        /\ dir'[repairer.next].bad = FALSE
        /\ \A n \in Numbers : n # repairer.next => dir'[n] = dir[n]
        /\ IsFiniteSet(dir'[repairer.next].data)
    BY <1>1, <2>1, <2>2, <2>3 DEF RType
  <2>5. /\ repairer'.pc = "archiveLog" /\ repairer'.logs = repairer.logs
        /\ repairer'.numbers = repairer.numbers \cup {repairer.next}
        /\ repairer'.tables = repairer.tables /\ repairer'.next = repairer.next + 1 /\ repairer'.at = l
        /\ repairer'.copy = repairer.copy /\ repairer'.entries = repairer.entries /\ repairer'.ok = repairer.ok
    BY <1>1 DEF RType, Repairers
  <2>6. RType'
    <3>1. dir' \in [Numbers -> RepairedFiles]
      BY <1>1, <2>1, <2>2, <2>3, <2>4, <2>5 DEF RType, RepairedFiles, Absent
    <3>2. lost' \in [LostNames -> SUBSET Nat]
      BY <1>1, <2>1, <2>2, <2>3, <2>4, <2>5 DEF RType
    <3>3. repairer' \in Repairers
      <4>1. "archiveLog" \in PCs /\ repairer.next + 1 \in Nat
        BY DEF PCs
      <4> QED
        BY <4>1, <1>1, <2>1, <2>2 DEF RType, Repairers
    <3>4. installed' \in Descriptors /\ repairs' \in Nat
      BY <2>1, <2>2, <2>3, <2>4, <2>5 DEF RType
    <3> QED
      BY <3>1, <3>2, <3>3, <3>4 DEF RType
  <2>7. DirInv'
    <3>1. ASSUME NEW n \in Numbers
         PROVE  /\ dir'[n].type = "none" => dir'[n] = Absent
                /\ IsFiniteSet(dir'[n].data)
                /\ dir'[n].type # "none" => lost'[<<dir'[n].type, n>>] \subseteq dir'[n].data
      <4>1. CASE n = repairer.next
        BY <2>1, <2>2, <2>3, <2>4, <4>1 DEF DirInv, EntriesInv, Copying
      <4>2. CASE n \notin {repairer.next}
        BY <2>1, <2>2, <2>3, <2>4, <4>2 DEF DirInv
      <4> QED
        BY <4>1, <4>2
    <3> QED
      BY <3>1 DEF DirInv
  <2>8. NextInv'
    BY <2>1, <2>2, <2>3, <2>4, <2>5 DEF NextInv, ListsInv, SourceInv, CopyInv, Running, IsTable, CopyMade, Copying
  <2>9. ListsInv'
    BY <2>1, <2>2, <2>3, <2>4, <2>5 DEF ListsInv, NextInv, SourceInv, CopyInv, Running, IsTable, CopyMade, Copying
  <2>10. SourceInv'
    BY <2>1, <2>2, <2>3, <2>4, <2>5 DEF SourceInv, ListsInv, NextInv, Running, IsTable
  <2>11. CopyInv'
    BY <2>1, <2>2, <2>3, <2>4, <2>5 DEF CopyInv, SourceInv, ListsInv, NextInv, Running, IsTable, CopyMade, Copying
  <2>12. EntriesInv'
    BY <2>1, <2>2, <2>3, <2>4, <2>5 DEF EntriesInv, DirInv, SourceInv, CopyInv, IsTable, CopyMade, Copying, Absent
  <2>13. NamesInv'
    BY <2>1, <2>2, <2>3, <2>4, <2>5 DEF NamesInv, Covered, NextInv, SourceInv, CopyInv, EntriesInv, CallsInv,
       Running, IsTable, CopyMade, Copying
  <2>14. CallsInv'
    BY <2>1, <2>2, <2>3, <2>4, <2>5 DEF CallsInv, Running
  <2>15. KeptInv'
    BY <2>1, <2>2, <2>3, <2>4, <2>5 DEF KeptInv, InDir, InLost, DirInv, NextInv, SourceInv, CopyInv, EntriesInv,
       Running, IsTable, CopyMade, Copying, Absent
  <2>16. FoundInv'
    BY <2>1, <2>2, <2>3, <2>4, <2>5 DEF FoundInv, InHand, InLost, DirInv, NextInv, ListsInv, SourceInv, CopyInv,
       EntriesInv, Running, IsTable, CopyMade, Copying, Absent
  <2>17. ListedInv'
    BY <2>1, <2>2, <2>3, <2>4, <2>5 DEF ListedInv, InLost, NextInv, ListsInv, SourceInv, CopyInv, CallsInv,
       Running, IsTable, CopyMade, Copying, Absent
  <2>18. DoneInv'
    BY <2>1, <2>2, <2>3, <2>4, <2>5 DEF DoneInv
  <2> QED
    BY <2>6, <2>7, <2>8, <2>9, <2>10, <2>11, <2>12, <2>13, <2>14, <2>15, <2>16, <2>17, <2>18 DEF RInv
<1>2. CASE /\ Works /\ dir[l].data = {} /\ UNCHANGED dir
           /\ repairer' = [repairer EXCEPT !.pc = "archiveLog", !.at = l, !.next = @ + 1]
  <2>1. repairer.pc = "logs" /\ l \in repairer.logs /\ l \in Numbers /\ repairer.next <= MaxNumber /\ dir' = dir
        /\ lost' = lost /\ installed' = installed /\ repairs' = repairs /\ salvageable' = salvageable
        /\ found' = found
    BY <1>2 DEF ConvertLogToTable
  <2>2. dir[l].data = {}
    BY <1>2
  <2>3. /\ repairer'.pc = "archiveLog" /\ repairer'.logs = repairer.logs /\ repairer'.numbers = repairer.numbers
        /\ repairer'.tables = repairer.tables /\ repairer'.next = repairer.next + 1 /\ repairer'.at = l
        /\ repairer'.copy = repairer.copy /\ repairer'.entries = repairer.entries /\ repairer'.ok = repairer.ok
    BY <1>2 DEF RType, Repairers
  <2>4. RType'
    <3>1. dir' \in [Numbers -> RepairedFiles]
      BY <1>2, <2>1, <2>2, <2>3 DEF RType, RepairedFiles, Absent
    <3>2. lost' \in [LostNames -> SUBSET Nat]
      BY <1>2, <2>1, <2>2, <2>3 DEF RType
    <3>3. repairer' \in Repairers
      <4>1. "archiveLog" \in PCs /\ repairer.next + 1 \in Nat
        BY DEF PCs
      <4> QED
        BY <4>1, <1>2, <2>1 DEF RType, Repairers
    <3>4. installed' \in Descriptors /\ repairs' \in Nat
      BY <2>1, <2>2, <2>3 DEF RType
    <3> QED
      BY <3>1, <3>2, <3>3, <3>4 DEF RType
  <2>5. DirInv'
    BY <2>1, <2>2, <2>3 DEF DirInv, NextInv, SourceInv, CopyInv, EntriesInv, Running, IsTable, CopyMade, Copying,
       Absent
  <2>6. NextInv'
    BY <2>1, <2>2, <2>3 DEF NextInv, ListsInv, SourceInv, CopyInv, Running, IsTable, CopyMade, Copying
  <2>7. ListsInv'
    BY <2>1, <2>2, <2>3 DEF ListsInv, NextInv, SourceInv, CopyInv, Running, IsTable, CopyMade, Copying
  <2>8. SourceInv'
    BY <2>1, <2>2, <2>3 DEF SourceInv, ListsInv, NextInv, Running, IsTable
  <2>9. CopyInv'
    BY <2>1, <2>2, <2>3 DEF CopyInv, SourceInv, ListsInv, NextInv, Running, IsTable, CopyMade, Copying
  <2>10. EntriesInv'
    BY <2>1, <2>2, <2>3 DEF EntriesInv, DirInv, SourceInv, CopyInv, IsTable, CopyMade, Copying, Absent
  <2>11. NamesInv'
    BY <2>1, <2>2, <2>3 DEF NamesInv, Covered, NextInv, SourceInv, CopyInv, EntriesInv, CallsInv, Running, IsTable,
       CopyMade, Copying
  <2>12. CallsInv'
    BY <2>1, <2>2, <2>3 DEF CallsInv, Running
  <2>13. KeptInv'
    BY <2>1, <2>2, <2>3 DEF KeptInv, InDir, InLost, DirInv, NextInv, SourceInv, CopyInv, EntriesInv, Running,
       IsTable, CopyMade, Copying, Absent
  <2>14. FoundInv'
    BY <2>1, <2>2, <2>3 DEF FoundInv, InHand, InLost, DirInv, NextInv, ListsInv, SourceInv, CopyInv, EntriesInv,
       Running, IsTable, CopyMade, Copying, Absent
  <2>15. ListedInv'
    BY <2>1, <2>2, <2>3 DEF ListedInv, InLost, NextInv, ListsInv, SourceInv, CopyInv, CallsInv, Running, IsTable,
       CopyMade, Copying, Absent
  <2>16. DoneInv'
    BY <2>1, <2>2, <2>3 DEF DoneInv
  <2> QED
    BY <2>4, <2>5, <2>6, <2>7, <2>8, <2>9, <2>10, <2>11, <2>12, <2>13, <2>14, <2>15, <2>16 DEF RInv
<1>3. CASE /\ Fails("build") /\ UNCHANGED dir
           /\ repairer' = [repairer EXCEPT !.pc = "archiveLog", !.at = l, !.next = @ + 1, !.ok = FALSE]
  <2>1. repairer.pc = "logs" /\ l \in repairer.logs /\ l \in Numbers /\ repairer.next <= MaxNumber /\ dir' = dir
        /\ lost' = lost /\ installed' = installed /\ repairs' = repairs /\ salvageable' = salvageable
        /\ found' = found
    BY <1>3 DEF ConvertLogToTable
  <2>2. /\ repairer'.pc = "archiveLog" /\ repairer'.logs = repairer.logs /\ repairer'.numbers = repairer.numbers
        /\ repairer'.tables = repairer.tables /\ repairer'.next = repairer.next + 1 /\ repairer'.at = l
        /\ repairer'.copy = repairer.copy /\ repairer'.entries = repairer.entries /\ repairer'.ok = FALSE
    BY <1>3 DEF RType, Repairers
  <2>3. RType'
    <3>1. dir' \in [Numbers -> RepairedFiles]
      BY <1>3, <2>1, <2>2 DEF RType, RepairedFiles, Absent
    <3>2. lost' \in [LostNames -> SUBSET Nat]
      BY <1>3, <2>1, <2>2 DEF RType
    <3>3. repairer' \in Repairers
      <4>1. "archiveLog" \in PCs /\ repairer.next + 1 \in Nat
        BY DEF PCs
      <4> QED
        BY <4>1, <1>3, <2>1 DEF RType, Repairers
    <3>4. installed' \in Descriptors /\ repairs' \in Nat
      BY <2>1, <2>2 DEF RType
    <3> QED
      BY <3>1, <3>2, <3>3, <3>4 DEF RType
  <2>4. DirInv'
    BY <2>1, <2>2 DEF DirInv, NextInv, SourceInv, CopyInv, EntriesInv, Running, IsTable, CopyMade, Copying, Absent
  <2>5. NextInv'
    BY <2>1, <2>2 DEF NextInv, ListsInv, SourceInv, CopyInv, Running, IsTable, CopyMade, Copying
  <2>6. ListsInv'
    BY <2>1, <2>2 DEF ListsInv, NextInv, SourceInv, CopyInv, Running, IsTable, CopyMade, Copying
  <2>7. SourceInv'
    BY <2>1, <2>2 DEF SourceInv, ListsInv, NextInv, Running, IsTable
  <2>8. CopyInv'
    BY <2>1, <2>2 DEF CopyInv, SourceInv, ListsInv, NextInv, Running, IsTable, CopyMade, Copying
  <2>9. EntriesInv'
    BY <2>1, <2>2 DEF EntriesInv, DirInv, SourceInv, CopyInv, IsTable, CopyMade, Copying, Absent
  <2>10. NamesInv'
    BY <2>1, <2>2 DEF NamesInv, Covered, NextInv, SourceInv, CopyInv, EntriesInv, CallsInv, Running, IsTable,
       CopyMade, Copying
  <2>11. CallsInv'
    BY <2>1, <2>2 DEF CallsInv, Running
  <2>12. KeptInv'
    BY <2>1, <2>2 DEF KeptInv, InDir, InLost, DirInv, NextInv, SourceInv, CopyInv, EntriesInv, Running, IsTable,
       CopyMade, Copying, Absent
  <2>13. FoundInv'
    BY <2>1, <2>2 DEF FoundInv, InHand, InLost, DirInv, NextInv, ListsInv, SourceInv, CopyInv, EntriesInv, Running,
       IsTable, CopyMade, Copying, Absent
  <2>14. ListedInv'
    BY <2>1, <2>2 DEF ListedInv, InLost, NextInv, ListsInv, SourceInv, CopyInv, CallsInv, Running, IsTable,
       CopyMade, Copying, Absent
  <2>15. DoneInv'
    BY <2>1, <2>2 DEF DoneInv
  <2> QED
    BY <2>3, <2>4, <2>5, <2>6, <2>7, <2>8, <2>9, <2>10, <2>11, <2>12, <2>13, <2>14, <2>15 DEF RInv
<1>4. CASE /\ Fails("openLog") /\ UNCHANGED dir
           /\ repairer' = [repairer EXCEPT !.pc = "archiveLog", !.at = l, !.ok = FALSE]
  <2>1. repairer.pc = "logs" /\ l \in repairer.logs /\ l \in Numbers /\ repairer.next <= MaxNumber /\ dir' = dir
        /\ lost' = lost /\ installed' = installed /\ repairs' = repairs /\ salvageable' = salvageable
        /\ found' = found
    BY <1>4 DEF ConvertLogToTable
  <2>2. /\ repairer'.pc = "archiveLog" /\ repairer'.logs = repairer.logs /\ repairer'.numbers = repairer.numbers
        /\ repairer'.tables = repairer.tables /\ repairer'.next = repairer.next /\ repairer'.at = l
        /\ repairer'.copy = repairer.copy /\ repairer'.entries = repairer.entries /\ repairer'.ok = FALSE
    BY <1>4 DEF RType, Repairers
  <2>3. RType'
    <3>1. dir' \in [Numbers -> RepairedFiles]
      BY <1>4, <2>1, <2>2 DEF RType, RepairedFiles, Absent
    <3>2. lost' \in [LostNames -> SUBSET Nat]
      BY <1>4, <2>1, <2>2 DEF RType
    <3>3. repairer' \in Repairers
      <4>1. "archiveLog" \in PCs /\ repairer.next + 1 \in Nat
        BY DEF PCs
      <4> QED
        BY <4>1, <1>4, <2>1 DEF RType, Repairers
    <3>4. installed' \in Descriptors /\ repairs' \in Nat
      BY <2>1, <2>2 DEF RType
    <3> QED
      BY <3>1, <3>2, <3>3, <3>4 DEF RType
  <2>4. DirInv'
    BY <2>1, <2>2 DEF DirInv, NextInv, SourceInv, CopyInv, EntriesInv, Running, IsTable, CopyMade, Copying, Absent
  <2>5. NextInv'
    BY <2>1, <2>2 DEF NextInv, ListsInv, SourceInv, CopyInv, Running, IsTable, CopyMade, Copying
  <2>6. ListsInv'
    BY <2>1, <2>2 DEF ListsInv, NextInv, SourceInv, CopyInv, Running, IsTable, CopyMade, Copying
  <2>7. SourceInv'
    BY <2>1, <2>2 DEF SourceInv, ListsInv, NextInv, Running, IsTable
  <2>8. CopyInv'
    BY <2>1, <2>2 DEF CopyInv, SourceInv, ListsInv, NextInv, Running, IsTable, CopyMade, Copying
  <2>9. EntriesInv'
    BY <2>1, <2>2 DEF EntriesInv, DirInv, SourceInv, CopyInv, IsTable, CopyMade, Copying, Absent
  <2>10. NamesInv'
    BY <2>1, <2>2 DEF NamesInv, Covered, NextInv, SourceInv, CopyInv, EntriesInv, CallsInv, Running, IsTable,
       CopyMade, Copying
  <2>11. CallsInv'
    BY <2>1, <2>2 DEF CallsInv, Running
  <2>12. KeptInv'
    BY <2>1, <2>2 DEF KeptInv, InDir, InLost, DirInv, NextInv, SourceInv, CopyInv, EntriesInv, Running, IsTable,
       CopyMade, Copying, Absent
  <2>13. FoundInv'
    BY <2>1, <2>2 DEF FoundInv, InHand, InLost, DirInv, NextInv, ListsInv, SourceInv, CopyInv, EntriesInv, Running,
       IsTable, CopyMade, Copying, Absent
  <2>14. ListedInv'
    BY <2>1, <2>2 DEF ListedInv, InLost, NextInv, ListsInv, SourceInv, CopyInv, CallsInv, Running, IsTable,
       CopyMade, Copying, Absent
  <2>15. DoneInv'
    BY <2>1, <2>2 DEF DoneInv
  <2> QED
    BY <2>3, <2>4, <2>5, <2>6, <2>7, <2>8, <2>9, <2>10, <2>11, <2>12, <2>13, <2>14, <2>15 DEF RInv
<1> QED
  BY <1>1, <1>2, <1>3, <1>4 DEF ConvertLogToTable, Works

\* A table is kept, to be copied, or archived.
LEMMA ScanTableKeeps ==
  ASSUME RInv, ArchiveNamesFresh, NEW n \in Numbers, ScanTable(n)
  PROVE  RInv'
<1>0. RType /\ DirInv /\ NextInv /\ ListsInv /\ SourceInv /\ CopyInv /\ EntriesInv /\ NamesInv /\ CallsInv
      /\ KeptInv /\ FoundInv /\ ListedInv /\ DoneInv
  BY DEF RInv
<1> USE <1>0, TypeFacts
<1>1. CASE /\ ~dir[n].bad /\ Works /\ UNCHANGED <<dir, lost>>
           /\ repairer' = [repairer EXCEPT !.numbers = @ \ {n}, !.tables = @ \cup {n}]
  <2>1. repairer.pc = "tables" /\ n \in repairer.numbers /\ dir' = dir /\ lost' = lost /\ installed' = installed
        /\ repairs' = repairs /\ salvageable' = salvageable /\ found' = found
    BY <1>1 DEF ScanTable
  <2>2. dir[n].type = "table" /\ ~dir[n].bad
    BY <1>1, <2>1 DEF ListsInv, Running
  <2>3. /\ repairer'.pc = repairer.pc /\ repairer'.logs = repairer.logs
        /\ repairer'.numbers = repairer.numbers \ {n}
        /\ repairer'.tables = repairer.tables \cup {n} /\ repairer'.next = repairer.next
        /\ repairer'.at = repairer.at
        /\ repairer'.copy = repairer.copy /\ repairer'.entries = repairer.entries /\ repairer'.ok = repairer.ok
    BY <1>1 DEF RType, Repairers
  <2>4. RType'
    <3>1. dir' \in [Numbers -> RepairedFiles]
      BY <1>1, <2>1, <2>2, <2>3 DEF RType, RepairedFiles, Absent
    <3>2. lost' \in [LostNames -> SUBSET Nat]
      BY <1>1, <2>1, <2>2, <2>3 DEF RType
    <3>3. repairer' \in Repairers
      <4>1. repairer.pc \in PCs /\ repairer.next + 1 \in Nat
        BY DEF PCs
      <4> QED
        BY <4>1, <1>1 DEF RType, Repairers
    <3>4. installed' \in Descriptors /\ repairs' \in Nat
      BY <2>1, <2>2, <2>3 DEF RType
    <3> QED
      BY <3>1, <3>2, <3>3, <3>4 DEF RType
  <2>5. DirInv'
    BY <2>1, <2>2, <2>3 DEF DirInv, NextInv, SourceInv, CopyInv, EntriesInv, Running, IsTable, CopyMade, Copying,
       Absent
  <2>6. NextInv'
    BY <2>1, <2>2, <2>3 DEF NextInv, ListsInv, SourceInv, CopyInv, Running, IsTable, CopyMade, Copying
  <2>7. ListsInv'
    BY <2>1, <2>2, <2>3 DEF ListsInv, NextInv, SourceInv, CopyInv, Running, IsTable, CopyMade, Copying
  <2>8. SourceInv'
    BY <2>1, <2>2, <2>3 DEF SourceInv, ListsInv, NextInv, Running, IsTable
  <2>9. CopyInv'
    BY <2>1, <2>2, <2>3 DEF CopyInv, SourceInv, ListsInv, NextInv, Running, IsTable, CopyMade, Copying
  <2>10. EntriesInv'
    BY <2>1, <2>2, <2>3 DEF EntriesInv, DirInv, SourceInv, CopyInv, IsTable, CopyMade, Copying, Absent
  <2>11. NamesInv'
    BY <2>1, <2>2, <2>3 DEF NamesInv, Covered, NextInv, SourceInv, CopyInv, EntriesInv, CallsInv, Running, IsTable,
       CopyMade, Copying
  <2>12. CallsInv'
    BY <2>1, <2>2, <2>3 DEF CallsInv, Running
  <2>13. KeptInv'
    BY <2>1, <2>2, <2>3 DEF KeptInv, InDir, InLost, DirInv, NextInv, SourceInv, CopyInv, EntriesInv, Running,
       IsTable, CopyMade, Copying, Absent
  <2>14. FoundInv'
    BY <2>1, <2>2, <2>3 DEF FoundInv, InHand, InLost, DirInv, NextInv, ListsInv, SourceInv, CopyInv, EntriesInv,
       Running, IsTable, CopyMade, Copying, Absent
  <2>15. ListedInv'
    BY <2>1, <2>2, <2>3 DEF ListedInv, InLost, NextInv, ListsInv, SourceInv, CopyInv, CallsInv, Running, IsTable,
       CopyMade, Copying, Absent
  <2>16. DoneInv'
    BY <2>1, <2>2, <2>3 DEF DoneInv
  <2> QED
    BY <2>4, <2>5, <2>6, <2>7, <2>8, <2>9, <2>10, <2>11, <2>12, <2>13, <2>14, <2>15, <2>16 DEF RInv
<1>2. CASE /\ dir[n].bad /\ Works /\ UNCHANGED <<dir, lost>>
           /\ repairer' = [repairer EXCEPT !.pc = "copy", !.numbers = @ \ {n}, !.at = n]
  <2>1. repairer.pc = "tables" /\ n \in repairer.numbers /\ dir' = dir /\ lost' = lost /\ installed' = installed
        /\ repairs' = repairs /\ salvageable' = salvageable /\ found' = found
    BY <1>2 DEF ScanTable
  <2>2. dir[n].type = "table" /\ dir[n].bad
    BY <1>2, <2>1 DEF ListsInv, Running
  <2>3. /\ repairer'.pc = "copy" /\ repairer'.logs = repairer.logs /\ repairer'.numbers = repairer.numbers \ {n}
        /\ repairer'.tables = repairer.tables /\ repairer'.next = repairer.next /\ repairer'.at = n
        /\ repairer'.copy = repairer.copy /\ repairer'.entries = repairer.entries /\ repairer'.ok = repairer.ok
    BY <1>2 DEF RType, Repairers
  <2>4. RType'
    <3>1. dir' \in [Numbers -> RepairedFiles]
      BY <1>2, <2>1, <2>2, <2>3 DEF RType, RepairedFiles, Absent
    <3>2. lost' \in [LostNames -> SUBSET Nat]
      BY <1>2, <2>1, <2>2, <2>3 DEF RType
    <3>3. repairer' \in Repairers
      <4>1. "copy" \in PCs /\ repairer.next + 1 \in Nat
        BY DEF PCs
      <4> QED
        BY <4>1, <1>2 DEF RType, Repairers
    <3>4. installed' \in Descriptors /\ repairs' \in Nat
      BY <2>1, <2>2, <2>3 DEF RType
    <3> QED
      BY <3>1, <3>2, <3>3, <3>4 DEF RType
  <2>5. DirInv'
    BY <2>1, <2>2, <2>3 DEF DirInv, NextInv, SourceInv, CopyInv, EntriesInv, Running, IsTable, CopyMade, Copying,
       Absent
  <2>6. NextInv'
    BY <2>1, <2>2, <2>3 DEF NextInv, ListsInv, SourceInv, CopyInv, Running, IsTable, CopyMade, Copying
  <2>7. ListsInv'
    BY <2>1, <2>2, <2>3 DEF ListsInv, NextInv, SourceInv, CopyInv, Running, IsTable, CopyMade, Copying
  <2>8. SourceInv'
    BY <2>1, <2>2, <2>3 DEF SourceInv, ListsInv, NextInv, Running, IsTable
  <2>9. CopyInv'
    BY <2>1, <2>2, <2>3 DEF CopyInv, SourceInv, ListsInv, NextInv, Running, IsTable, CopyMade, Copying
  <2>10. EntriesInv'
    BY <2>1, <2>2, <2>3 DEF EntriesInv, DirInv, SourceInv, CopyInv, IsTable, CopyMade, Copying, Absent
  <2>11. NamesInv'
    BY <2>1, <2>2, <2>3 DEF NamesInv, Covered, NextInv, SourceInv, CopyInv, EntriesInv, CallsInv, Running, IsTable,
       CopyMade, Copying
  <2>12. CallsInv'
    BY <2>1, <2>2, <2>3 DEF CallsInv, Running
  <2>13. KeptInv'
    BY <2>1, <2>2, <2>3 DEF KeptInv, InDir, InLost, DirInv, NextInv, SourceInv, CopyInv, EntriesInv, Running,
       IsTable, CopyMade, Copying, Absent
  <2>14. FoundInv'
    BY <2>1, <2>2, <2>3 DEF FoundInv, InHand, InLost, DirInv, NextInv, ListsInv, SourceInv, CopyInv, EntriesInv,
       Running, IsTable, CopyMade, Copying, Absent
  <2>15. ListedInv'
    BY <2>1, <2>2, <2>3 DEF ListedInv, InLost, NextInv, ListsInv, SourceInv, CopyInv, CallsInv, Running, IsTable,
       CopyMade, Copying, Absent
  <2>16. DoneInv'
    BY <2>1, <2>2, <2>3 DEF DoneInv
  <2> QED
    BY <2>4, <2>5, <2>6, <2>7, <2>8, <2>9, <2>10, <2>11, <2>12, <2>13, <2>14, <2>15, <2>16 DEF RInv
<1>3. CASE /\ Fails("stat")
           /\ lost' = Archived(n) /\ dir' = [dir EXCEPT ![n] = Absent]
           /\ repairer' = [repairer EXCEPT !.numbers = @ \ {n}, !.ok = FALSE]
  <2>1. repairer.pc = "tables" /\ n \in repairer.numbers /\ installed' = installed /\ repairs' = repairs
        /\ salvageable' = salvageable /\ found' = found
    BY <1>3 DEF ScanTable
  <2>2. dir[n].type = "table"
    BY <2>1 DEF ListsInv, Running
  <2>3. /\ lost'[<<"table", n>>] = dir[n].data /\ \A f \in LostNames : lost[f] \subseteq lost'[f]
        /\ \A m \in Numbers : m # n => lost'[<<"table", m>>] = lost[<<"table", m>>]
        /\ \A m \in Numbers : m # n /\ dir[m].type # "none" => lost'[<<dir[m].type, m>>] = lost[<<dir[m].type, m>>]
        /\ lost' \in [LostNames -> SUBSET Nat]
    BY <1>3, <2>2, ArchivedNames
  <2>4. /\ dir'[n] = Absent /\ \A m \in Numbers : m # n => dir'[m] = dir[m]
        /\ dir' \in [Numbers -> RepairedFiles]
    BY <1>3, <2>2, ArchivedDir
  <2>5. Absent.type = "none" /\ Absent.data = {} /\ IsFiniteSet(Absent.data)
    BY FS_EmptySet DEF Absent
  <2>6. ~(MaxRepairs > 1) /\ MaxRepairs <= 1
    BY <1>3 DEF ArchiveNamesFresh, Fails, MayFail
  <2>7. /\ repairer'.pc = repairer.pc /\ repairer'.logs = repairer.logs
        /\ repairer'.numbers = repairer.numbers \ {n}
        /\ repairer'.tables = repairer.tables /\ repairer'.next = repairer.next /\ repairer'.at = repairer.at
        /\ repairer'.copy = repairer.copy /\ repairer'.entries = repairer.entries /\ repairer'.ok = FALSE
    BY <1>3 DEF RType, Repairers
  <2>8. RType'
    <3>1. dir' \in [Numbers -> RepairedFiles]
      BY <1>3, <2>1, <2>2, <2>3, <2>4, <2>5, <2>6, <2>7 DEF RType, RepairedFiles, Absent
    <3>2. lost' \in [LostNames -> SUBSET Nat]
      BY <1>3, <2>1, <2>2, <2>3, <2>4, <2>5, <2>6, <2>7 DEF RType
    <3>3. repairer' \in Repairers
      <4>1. repairer.pc \in PCs /\ repairer.next + 1 \in Nat
        BY DEF PCs
      <4> QED
        BY <4>1, <1>3 DEF RType, Repairers
    <3>4. installed' \in Descriptors /\ repairs' \in Nat
      BY <2>1, <2>2, <2>3, <2>4, <2>5, <2>6, <2>7 DEF RType
    <3> QED
      BY <3>1, <3>2, <3>3, <3>4 DEF RType
  <2>9. DirInv'
    <3>1. ASSUME NEW m \in Numbers
         PROVE  /\ dir'[m].type = "none" => dir'[m] = Absent
                /\ IsFiniteSet(dir'[m].data)
                /\ dir'[m].type # "none" => lost'[<<dir'[m].type, m>>] \subseteq dir'[m].data
      <4>1. CASE m = n
        BY <2>1, <2>2, <2>3, <2>4, <2>5, <4>1 DEF DirInv, EntriesInv, Copying
      <4>2. CASE m \notin {n}
        BY <2>1, <2>2, <2>3, <2>4, <2>5, <4>2 DEF DirInv
      <4> QED
        BY <4>1, <4>2
    <3> QED
      BY <3>1 DEF DirInv
  <2>10. NextInv'
    BY <2>1, <2>2, <2>3, <2>4, <2>5, <2>6, <2>7 DEF NextInv, ListsInv, SourceInv, CopyInv, Running, IsTable,
       CopyMade, Copying
  <2>11. ListsInv'
    BY <2>1, <2>2, <2>3, <2>4, <2>5, <2>6, <2>7 DEF ListsInv, NextInv, SourceInv, CopyInv, Running, IsTable,
       CopyMade, Copying
  <2>12. SourceInv'
    BY <2>1, <2>2, <2>3, <2>4, <2>5, <2>6, <2>7 DEF SourceInv, ListsInv, NextInv, Running, IsTable
  <2>13. CopyInv'
    BY <2>1, <2>2, <2>3, <2>4, <2>5, <2>6, <2>7 DEF CopyInv, SourceInv, ListsInv, NextInv, Running, IsTable,
       CopyMade, Copying
  <2>14. EntriesInv'
    BY <2>1, <2>2, <2>3, <2>4, <2>5, <2>6, <2>7 DEF EntriesInv, DirInv, SourceInv, CopyInv, IsTable, CopyMade,
       Copying, Absent
  <2>15. NamesInv'
    BY <2>1, <2>2, <2>3, <2>4, <2>5, <2>6, <2>7 DEF NamesInv, Covered, NextInv, SourceInv, CopyInv, EntriesInv,
       CallsInv, Running, IsTable, CopyMade, Copying
  <2>16. CallsInv'
    BY <2>1, <2>2, <2>3, <2>4, <2>5, <2>6, <2>7 DEF CallsInv, Running
  <2>17. KeptInv'
    <3>1. ASSUME NEW x \in salvageable PROVE InDir(x)' \/ InLost(x)'
      <4>1. InLost(x) => InLost(x)'
        BY <2>1, <2>2, <2>3, <2>4 DEF InLost
      <4>2. ASSUME NEW m \in Numbers, x \in dir[m].data, m = n PROVE InDir(x)' \/ InLost(x)'
        <5>1. \E f \in LostNames : x \in lost'[f]
          BY <2>1, <2>2, <2>3, <2>4, <4>2 
        <5> QED
          BY <5>1, <2>1, <2>2, <2>3, <2>4 DEF InDir, InLost
      <4>3. ASSUME NEW m \in Numbers, x \in dir[m].data, m # n PROVE InDir(x)' \/ InLost(x)'
        <5>1. x \in dir'[m].data
          BY <2>1, <2>2, <2>3, <2>4, <4>3 
        <5> QED
          BY <5>1, <2>1, <2>2, <2>3, <2>4 DEF InDir, InLost
      <4>4. InDir(x) \/ InLost(x)
        BY <2>1, <2>2, <2>3, <2>4 DEF KeptInv
      <4> QED
        BY <4>1, <4>2, <4>3, <4>4 DEF InDir
    <3> QED
      BY <3>1, <2>1, <2>2, <2>3, <2>4 DEF KeptInv
  <2>18. FoundInv'
    BY <2>1, <2>2, <2>3, <2>4, <2>5, <2>6, <2>7 DEF FoundInv, InHand, InLost, DirInv, NextInv, ListsInv, SourceInv,
       CopyInv, EntriesInv, Running, IsTable, CopyMade, Copying, Absent
  <2>19. ListedInv'
    BY <2>1, <2>2, <2>3, <2>4, <2>5, <2>6, <2>7 DEF ListedInv, InLost, NextInv, ListsInv, SourceInv, CopyInv,
       CallsInv, Running, IsTable, CopyMade, Copying, Absent
  <2>20. DoneInv'
    BY <2>1, <2>2, <2>3, <2>4, <2>5, <2>6, <2>7 DEF DoneInv
  <2> QED
    BY <2>8, <2>9, <2>10, <2>11, <2>12, <2>13, <2>14, <2>15, <2>16, <2>17, <2>18, <2>19, <2>20 DEF RInv
<1> QED
  BY <1>1, <1>2, <1>3 DEF ScanTable, Works

\* The descriptor is written aside, or repair fails.
LEMMA WriteDescriptorKeeps ==
  ASSUME RInv, ArchiveNamesFresh, WriteDescriptor
  PROVE  RInv'
<1>0. RType /\ DirInv /\ NextInv /\ ListsInv /\ SourceInv /\ CopyInv /\ EntriesInv /\ NamesInv /\ CallsInv
      /\ KeptInv /\ FoundInv /\ ListedInv /\ DoneInv
  BY DEF RInv
<1> USE <1>0, TypeFacts
<1>1. CASE Works /\ repairer' = [repairer EXCEPT !.pc = "manifests"]
  <2>1. repairer.pc = "tables" /\ repairer.numbers = {} /\ dir' = dir /\ lost' = lost /\ installed' = installed
        /\ repairs' = repairs /\ salvageable' = salvageable /\ found' = found
    BY DEF WriteDescriptor
  <2>2. /\ repairer'.pc = "manifests" /\ repairer'.logs = repairer.logs /\ repairer'.numbers = repairer.numbers
        /\ repairer'.tables = repairer.tables /\ repairer'.next = repairer.next /\ repairer'.at = repairer.at
        /\ repairer'.copy = repairer.copy /\ repairer'.entries = repairer.entries /\ repairer'.ok = repairer.ok
    BY <1>1 DEF RType, Repairers
  <2>3. RType'
    <3>1. dir' \in [Numbers -> RepairedFiles]
      BY <1>1, <2>1, <2>2 DEF RType, RepairedFiles, Absent
    <3>2. lost' \in [LostNames -> SUBSET Nat]
      BY <1>1, <2>1, <2>2 DEF RType
    <3>3. repairer' \in Repairers
      <4>1. "manifests" \in PCs /\ repairer.next + 1 \in Nat
        BY DEF PCs
      <4> QED
        BY <4>1, <1>1 DEF RType, Repairers
    <3>4. installed' \in Descriptors /\ repairs' \in Nat
      BY <2>1, <2>2 DEF RType
    <3> QED
      BY <3>1, <3>2, <3>3, <3>4 DEF RType
  <2>4. DirInv'
    BY <2>1, <2>2 DEF DirInv, NextInv, SourceInv, CopyInv, EntriesInv, Running, IsTable, CopyMade, Copying, Absent
  <2>5. NextInv'
    BY <2>1, <2>2 DEF NextInv, ListsInv, SourceInv, CopyInv, Running, IsTable, CopyMade, Copying
  <2>6. ListsInv'
    BY <2>1, <2>2 DEF ListsInv, NextInv, SourceInv, CopyInv, Running, IsTable, CopyMade, Copying
  <2>7. SourceInv'
    BY <2>1, <2>2 DEF SourceInv, ListsInv, NextInv, Running, IsTable
  <2>8. CopyInv'
    BY <2>1, <2>2 DEF CopyInv, SourceInv, ListsInv, NextInv, Running, IsTable, CopyMade, Copying
  <2>9. EntriesInv'
    BY <2>1, <2>2 DEF EntriesInv, DirInv, SourceInv, CopyInv, IsTable, CopyMade, Copying, Absent
  <2>10. NamesInv'
    BY <2>1, <2>2 DEF NamesInv, Covered, NextInv, SourceInv, CopyInv, EntriesInv, CallsInv, Running, IsTable,
       CopyMade, Copying
  <2>11. CallsInv'
    BY <2>1, <2>2 DEF CallsInv, Running
  <2>12. KeptInv'
    BY <2>1, <2>2 DEF KeptInv, InDir, InLost, DirInv, NextInv, SourceInv, CopyInv, EntriesInv, Running, IsTable,
       CopyMade, Copying, Absent
  <2>13. FoundInv'
    BY <2>1, <2>2 DEF FoundInv, InHand, InLost, DirInv, NextInv, ListsInv, SourceInv, CopyInv, EntriesInv, Running,
       IsTable, CopyMade, Copying, Absent
  <2>14. ListedInv'
    BY <2>1, <2>2 DEF ListedInv, InLost, NextInv, ListsInv, SourceInv, CopyInv, CallsInv, Running, IsTable,
       CopyMade, Copying, Absent
  <2>15. DoneInv'
    BY <2>1, <2>2 DEF DoneInv
  <2> QED
    BY <2>3, <2>4, <2>5, <2>6, <2>7, <2>8, <2>9, <2>10, <2>11, <2>12, <2>13, <2>14, <2>15 DEF RInv
<1>2. CASE Fails("descriptor") /\ repairer' = [repairer EXCEPT !.pc = "off", !.ok = FALSE]
  <2>1. repairer.pc = "tables" /\ dir' = dir /\ lost' = lost /\ installed' = installed /\ repairs' = repairs
        /\ salvageable' = salvageable /\ found' = found
    BY DEF WriteDescriptor
  <2>2. /\ repairer'.pc = "off" /\ repairer'.logs = repairer.logs /\ repairer'.numbers = repairer.numbers
        /\ repairer'.tables = repairer.tables /\ repairer'.next = repairer.next /\ repairer'.at = repairer.at
        /\ repairer'.copy = repairer.copy /\ repairer'.entries = repairer.entries /\ repairer'.ok = FALSE
    BY <1>2 DEF RType, Repairers
  <2>3. RType'
    <3>1. dir' \in [Numbers -> RepairedFiles]
      BY <1>2, <2>1, <2>2 DEF RType, RepairedFiles, Absent
    <3>2. lost' \in [LostNames -> SUBSET Nat]
      BY <1>2, <2>1, <2>2 DEF RType
    <3>3. repairer' \in Repairers
      <4>1. "off" \in PCs /\ repairer.next + 1 \in Nat
        BY DEF PCs
      <4> QED
        BY <4>1, <1>2 DEF RType, Repairers
    <3>4. installed' \in Descriptors /\ repairs' \in Nat
      BY <2>1, <2>2 DEF RType
    <3> QED
      BY <3>1, <3>2, <3>3, <3>4 DEF RType
  <2>4. DirInv'
    BY <2>1, <2>2 DEF DirInv, NextInv, SourceInv, CopyInv, EntriesInv, Running, IsTable, CopyMade, Copying, Absent
  <2>5. NextInv'
    BY <2>1, <2>2 DEF NextInv, ListsInv, SourceInv, CopyInv, Running, IsTable, CopyMade, Copying
  <2>6. ListsInv'
    BY <2>1, <2>2 DEF ListsInv, NextInv, SourceInv, CopyInv, Running, IsTable, CopyMade, Copying
  <2>7. SourceInv'
    BY <2>1, <2>2 DEF SourceInv, ListsInv, NextInv, Running, IsTable
  <2>8. CopyInv'
    BY <2>1, <2>2 DEF CopyInv, SourceInv, ListsInv, NextInv, Running, IsTable, CopyMade, Copying
  <2>9. EntriesInv'
    BY <2>1, <2>2 DEF EntriesInv, DirInv, SourceInv, CopyInv, IsTable, CopyMade, Copying, Absent
  <2>10. NamesInv'
    BY <2>1, <2>2 DEF NamesInv, Covered, NextInv, SourceInv, CopyInv, EntriesInv, CallsInv, Running, IsTable,
       CopyMade, Copying
  <2>11. CallsInv'
    BY <2>1, <2>2 DEF CallsInv, Running
  <2>12. KeptInv'
    BY <2>1, <2>2 DEF KeptInv, InDir, InLost, DirInv, NextInv, SourceInv, CopyInv, EntriesInv, Running, IsTable,
       CopyMade, Copying, Absent
  <2>13. FoundInv'
    BY <2>1, <2>2 DEF FoundInv, InHand, InLost, DirInv, NextInv, ListsInv, SourceInv, CopyInv, EntriesInv, Running,
       IsTable, CopyMade, Copying, Absent
  <2>14. ListedInv'
    BY <2>1, <2>2 DEF ListedInv, InLost, NextInv, ListsInv, SourceInv, CopyInv, CallsInv, Running, IsTable,
       CopyMade, Copying, Absent
  <2>15. DoneInv'
    BY <2>1, <2>2 DEF DoneInv
  <2> QED
    BY <2>3, <2>4, <2>5, <2>6, <2>7, <2>8, <2>9, <2>10, <2>11, <2>12, <2>13, <2>14, <2>15 DEF RInv
<1> QED
  BY <1>1, <1>2 DEF WriteDescriptor

\* The old descriptors are archived, or stay where they are.
LEMMA ArchiveManifestsKeeps ==
  ASSUME RInv, ArchiveNamesFresh, ArchiveManifests
  PROVE  RInv'
<1>0. RType /\ DirInv /\ NextInv /\ ListsInv /\ SourceInv /\ CopyInv /\ EntriesInv /\ NamesInv /\ CallsInv
      /\ KeptInv /\ FoundInv /\ ListedInv /\ DoneInv
  BY DEF RInv
<1> USE <1>0, TypeFacts
<1>1. CASE Works /\ installed' = [NoDescriptor EXCEPT !.one = installed.one]
  <2>1. repairer.pc = "manifests" /\ dir' = dir /\ lost' = lost /\ repairs' = repairs
        /\ salvageable' = salvageable /\ found' = found
        /\ repairer' = [repairer EXCEPT !.pc = "install"]
    BY DEF ArchiveManifests
  <2>2. /\ installed'.valid = FALSE
        /\ installed' \in Descriptors
    BY <1>1 DEF NoDescriptor, Descriptors
  <2>3. /\ repairer'.pc = "install" /\ repairer'.logs = repairer.logs /\ repairer'.numbers = repairer.numbers
        /\ repairer'.tables = repairer.tables /\ repairer'.next = repairer.next /\ repairer'.at = repairer.at
        /\ repairer'.copy = repairer.copy /\ repairer'.entries = repairer.entries /\ repairer'.ok = repairer.ok
    BY <2>1 DEF RType, Repairers
  <2>4. RType'
    <3>1. dir' \in [Numbers -> RepairedFiles]
      BY <2>1, <2>1, <2>2, <2>3 DEF RType, RepairedFiles, Absent
    <3>2. lost' \in [LostNames -> SUBSET Nat]
      BY <2>1, <2>1, <2>2, <2>3 DEF RType
    <3>3. repairer' \in Repairers
      <4>1. "install" \in PCs /\ repairer.next + 1 \in Nat
        BY DEF PCs
      <4> QED
        BY <4>1, <2>1 DEF RType, Repairers
    <3>4. installed' \in Descriptors /\ repairs' \in Nat
      BY <2>1, <2>2, <2>3 DEF RType
    <3> QED
      BY <3>1, <3>2, <3>3, <3>4 DEF RType
  <2>5. DirInv'
    BY <2>1, <2>2, <2>3 DEF DirInv, NextInv, SourceInv, CopyInv, EntriesInv, Running, IsTable, CopyMade, Copying,
       Absent
  <2>6. NextInv'
    BY <2>1, <2>2, <2>3 DEF NextInv, ListsInv, SourceInv, CopyInv, Running, IsTable, CopyMade, Copying
  <2>7. ListsInv'
    BY <2>1, <2>2, <2>3 DEF ListsInv, NextInv, SourceInv, CopyInv, Running, IsTable, CopyMade, Copying
  <2>8. SourceInv'
    BY <2>1, <2>2, <2>3 DEF SourceInv, ListsInv, NextInv, Running, IsTable
  <2>9. CopyInv'
    BY <2>1, <2>2, <2>3 DEF CopyInv, SourceInv, ListsInv, NextInv, Running, IsTable, CopyMade, Copying
  <2>10. EntriesInv'
    BY <2>1, <2>2, <2>3 DEF EntriesInv, DirInv, SourceInv, CopyInv, IsTable, CopyMade, Copying, Absent
  <2>11. NamesInv'
    BY <2>1, <2>2, <2>3 DEF NamesInv, Covered, NextInv, SourceInv, CopyInv, EntriesInv, CallsInv, Running, IsTable,
       CopyMade, Copying
  <2>12. CallsInv'
    BY <2>1, <2>2, <2>3 DEF CallsInv, Running
  <2>13. KeptInv'
    BY <2>1, <2>2, <2>3 DEF KeptInv, InDir, InLost, DirInv, NextInv, SourceInv, CopyInv, EntriesInv, Running,
       IsTable, CopyMade, Copying, Absent
  <2>14. FoundInv'
    BY <2>1, <2>2, <2>3 DEF FoundInv, InHand, InLost, DirInv, NextInv, ListsInv, SourceInv, CopyInv, EntriesInv,
       Running, IsTable, CopyMade, Copying, Absent
  <2>15. ListedInv'
    BY <2>1, <2>2, <2>3 DEF ListedInv, InLost, NextInv, ListsInv, SourceInv, CopyInv, CallsInv, Running, IsTable,
       CopyMade, Copying, Absent
  <2>16. DoneInv'
    BY <2>1, <2>2, <2>3 DEF DoneInv
  <2> QED
    BY <2>4, <2>5, <2>6, <2>7, <2>8, <2>9, <2>10, <2>11, <2>12, <2>13, <2>14, <2>15, <2>16 DEF RInv
<1>2. CASE Fails("archive") /\ UNCHANGED installed
  <2>1. repairer.pc = "manifests" /\ dir' = dir /\ lost' = lost /\ installed' = installed /\ repairs' = repairs
        /\ salvageable' = salvageable /\ found' = found
        /\ repairer' = [repairer EXCEPT !.pc = "install"]
    BY <1>2 DEF ArchiveManifests
  <2>2. /\ repairer'.pc = "install" /\ repairer'.logs = repairer.logs /\ repairer'.numbers = repairer.numbers
        /\ repairer'.tables = repairer.tables /\ repairer'.next = repairer.next /\ repairer'.at = repairer.at
        /\ repairer'.copy = repairer.copy /\ repairer'.entries = repairer.entries /\ repairer'.ok = repairer.ok
    BY <2>1 DEF RType, Repairers
  <2>3. RType'
    <3>1. dir' \in [Numbers -> RepairedFiles]
      BY <2>1, <2>1, <2>2 DEF RType, RepairedFiles, Absent
    <3>2. lost' \in [LostNames -> SUBSET Nat]
      BY <2>1, <2>1, <2>2 DEF RType
    <3>3. repairer' \in Repairers
      <4>1. "install" \in PCs /\ repairer.next + 1 \in Nat
        BY DEF PCs
      <4> QED
        BY <4>1, <2>1 DEF RType, Repairers
    <3>4. installed' \in Descriptors /\ repairs' \in Nat
      BY <2>1, <2>2 DEF RType
    <3> QED
      BY <3>1, <3>2, <3>3, <3>4 DEF RType
  <2>4. DirInv'
    BY <2>1, <2>2 DEF DirInv, NextInv, SourceInv, CopyInv, EntriesInv, Running, IsTable, CopyMade, Copying, Absent
  <2>5. NextInv'
    BY <2>1, <2>2 DEF NextInv, ListsInv, SourceInv, CopyInv, Running, IsTable, CopyMade, Copying
  <2>6. ListsInv'
    BY <2>1, <2>2 DEF ListsInv, NextInv, SourceInv, CopyInv, Running, IsTable, CopyMade, Copying
  <2>7. SourceInv'
    BY <2>1, <2>2 DEF SourceInv, ListsInv, NextInv, Running, IsTable
  <2>8. CopyInv'
    BY <2>1, <2>2 DEF CopyInv, SourceInv, ListsInv, NextInv, Running, IsTable, CopyMade, Copying
  <2>9. EntriesInv'
    BY <2>1, <2>2 DEF EntriesInv, DirInv, SourceInv, CopyInv, IsTable, CopyMade, Copying, Absent
  <2>10. NamesInv'
    BY <2>1, <2>2 DEF NamesInv, Covered, NextInv, SourceInv, CopyInv, EntriesInv, CallsInv, Running, IsTable,
       CopyMade, Copying
  <2>11. CallsInv'
    BY <2>1, <2>2 DEF CallsInv, Running
  <2>12. KeptInv'
    BY <2>1, <2>2 DEF KeptInv, InDir, InLost, DirInv, NextInv, SourceInv, CopyInv, EntriesInv, Running, IsTable,
       CopyMade, Copying, Absent
  <2>13. FoundInv'
    BY <2>1, <2>2 DEF FoundInv, InHand, InLost, DirInv, NextInv, ListsInv, SourceInv, CopyInv, EntriesInv, Running,
       IsTable, CopyMade, Copying, Absent
  <2>14. ListedInv'
    BY <2>1, <2>2 DEF ListedInv, InLost, NextInv, ListsInv, SourceInv, CopyInv, CallsInv, Running, IsTable,
       CopyMade, Copying, Absent
  <2>15. DoneInv'
    BY <2>1, <2>2 DEF DoneInv
  <2> QED
    BY <2>3, <2>4, <2>5, <2>6, <2>7, <2>8, <2>9, <2>10, <2>11, <2>12, <2>13, <2>14, <2>15 DEF RInv
<1> QED
  BY <1>1, <1>2 DEF ArchiveManifests

\* The descriptor lists the tables that were found good or made good, and is
\* above all there is.
LEMMA DescriptorIsGood ==
  ASSUME RInv, repairer.pc \in {"install", "setCurrent"}
  PROVE  /\ Descriptor \in Descriptors /\ Descriptor.valid /\ Descriptor.tables = repairer.tables
         /\ Descriptor.next = repairer.next /\ Descriptor.ok = repairer.ok
         /\ \A n \in repairer.tables : /\ dir[n].type = "table" /\ ~dir[n].bad /\ n < repairer.next
                                       /\ \A s \in dir[n].data : s <= Descriptor.last
         /\ repairer.ok => \A x \in salvageable : InLost(x) \/ \E n \in repairer.tables : x \in dir[n].data
<1>0. RType /\ DirInv /\ NextInv /\ ListsInv /\ FoundInv
  BY DEF RInv
<1> DEFINE m == Max((UNION {dir[n].data : n \in repairer.tables}) \cup {0})
<1>1. m \in Nat /\ (\A n \in repairer.tables : \A s \in dir[n].data : s <= m)
  <2>1. repairer.tables \subseteq Numbers
    BY <1>0, TypeFacts
  <2> QED
    BY <1>0, <2>1, LastAbove
<1>2. Descriptor = [tables |-> repairer.tables, next |-> repairer.next, valid |-> TRUE, ok |-> repairer.ok, one |-> TRUE,
                    last |-> m]
  BY DEF Descriptor
<1> HIDE DEF m
<1>3. /\ Descriptor \in Descriptors /\ Descriptor.valid /\ Descriptor.tables = repairer.tables
      /\ Descriptor.next = repairer.next /\ Descriptor.ok = repairer.ok /\ Descriptor.last = m
  BY <1>0, <1>1, <1>2, TypeFacts DEF Descriptors
<1>4. \A n \in repairer.tables : dir[n].type = "table" /\ ~dir[n].bad /\ n < repairer.next
  BY <1>0, TypeFacts DEF ListsInv, NextInv, Running
<1>5. ASSUME repairer.ok, NEW x \in salvageable
      PROVE  InLost(x) \/ \E n \in repairer.tables : x \in dir[n].data
  <2>1. x \in found \/ InLost(x)
    BY <1>0 DEF FoundInv, Running
  <2>2. x \in found => InHand(x)
    BY <1>0, <1>5 DEF FoundInv, Running
  <2>3. repairer.logs = {} /\ repairer.numbers = {}
    BY <1>0 DEF ListsInv, Running
  <2> QED
    BY <2>1, <2>2, <2>3 DEF InHand, Copying
<1> QED
  BY <1>1, <1>3, <1>4, <1>5

\* The descriptor gets the name CURRENT may hold already.
LEMMA InstallDescriptorKeeps ==
  ASSUME RInv, ArchiveNamesFresh, InstallDescriptor
  PROVE  RInv'
<1>0. RType /\ DirInv /\ NextInv /\ ListsInv /\ SourceInv /\ CopyInv /\ EntriesInv /\ NamesInv /\ CallsInv
      /\ KeptInv /\ FoundInv /\ ListedInv /\ DoneInv
  BY DEF RInv
<1> USE <1>0, TypeFacts
<1>1. CASE /\ Works /\ installed.one /\ installed' = Descriptor
           /\ repairer' = [repairer EXCEPT !.pc = "setCurrent"]
  <2>1. repairer.pc = "install" /\ dir' = dir /\ lost' = lost /\ repairs' = repairs
        /\ salvageable' = salvageable /\ found' = found
    BY <1>1 DEF InstallDescriptor
  <2>2. /\ installed' = Descriptor /\ installed' \in Descriptors /\ installed'.valid
        /\ installed'.tables = repairer.tables
        /\ installed'.next = repairer.next /\ installed'.ok = repairer.ok
        /\ \A n \in repairer.tables : /\ dir[n].type = "table" /\ ~dir[n].bad /\ n < repairer.next
                                      /\ \A s \in dir[n].data : s <= installed'.last
        /\ repairer.ok => \A x \in salvageable : InLost(x) \/ \E n \in repairer.tables : x \in dir[n].data
    BY <1>1, <2>1, DescriptorIsGood
  <2>3. /\ repairer'.pc = "setCurrent" /\ repairer'.logs = repairer.logs /\ repairer'.numbers = repairer.numbers
        /\ repairer'.tables = repairer.tables /\ repairer'.next = repairer.next /\ repairer'.at = repairer.at
        /\ repairer'.copy = repairer.copy /\ repairer'.entries = repairer.entries /\ repairer'.ok = repairer.ok
    BY <1>1 DEF RType, Repairers
  <2>4. RType'
    <3>1. dir' \in [Numbers -> RepairedFiles]
      BY <1>1, <2>1, <2>2, <2>3 DEF RType, RepairedFiles, Absent
    <3>2. lost' \in [LostNames -> SUBSET Nat]
      BY <1>1, <2>1, <2>2, <2>3 DEF RType
    <3>3. repairer' \in Repairers
      <4>1. "setCurrent" \in PCs /\ repairer.next + 1 \in Nat
        BY DEF PCs
      <4> QED
        BY <4>1, <1>1 DEF RType, Repairers
    <3>4. installed' \in Descriptors /\ repairs' \in Nat
      BY <2>1, <2>2, <2>3 DEF RType
    <3> QED
      BY <3>1, <3>2, <3>3, <3>4 DEF RType
  <2>5. DirInv'
    BY <2>1, <2>2, <2>3 DEF DirInv, NextInv, SourceInv, CopyInv, EntriesInv, Running, IsTable, CopyMade, Copying,
       Absent
  <2>6. NextInv'
    BY <2>1, <2>2, <2>3 DEF NextInv, ListsInv, SourceInv, CopyInv, Running, IsTable, CopyMade, Copying
  <2>7. ListsInv'
    BY <2>1, <2>2, <2>3 DEF ListsInv, NextInv, SourceInv, CopyInv, Running, IsTable, CopyMade, Copying
  <2>8. SourceInv'
    BY <2>1, <2>2, <2>3 DEF SourceInv, ListsInv, NextInv, Running, IsTable
  <2>9. CopyInv'
    BY <2>1, <2>2, <2>3 DEF CopyInv, SourceInv, ListsInv, NextInv, Running, IsTable, CopyMade, Copying
  <2>10. EntriesInv'
    BY <2>1, <2>2, <2>3 DEF EntriesInv, DirInv, SourceInv, CopyInv, IsTable, CopyMade, Copying, Absent
  <2>11. NamesInv'
    BY <2>1, <2>2, <2>3 DEF NamesInv, Covered, NextInv, SourceInv, CopyInv, EntriesInv, CallsInv, Running, IsTable,
       CopyMade, Copying
  <2>12. CallsInv'
    BY <2>1, <2>2, <2>3 DEF CallsInv, Running
  <2>13. KeptInv'
    BY <2>1, <2>2, <2>3 DEF KeptInv, InDir, InLost, DirInv, NextInv, SourceInv, CopyInv, EntriesInv, Running,
       IsTable, CopyMade, Copying, Absent
  <2>14. FoundInv'
    BY <2>1, <2>2, <2>3 DEF FoundInv, InHand, InLost, DirInv, NextInv, ListsInv, SourceInv, CopyInv, EntriesInv,
       Running, IsTable, CopyMade, Copying, Absent
  <2>15. ListedInv'
    BY <2>1, <2>2, <2>3 DEF ListedInv, InLost, NextInv, ListsInv, SourceInv, CopyInv, CallsInv, Running, IsTable,
       CopyMade, Copying, Absent
  <2>16. DoneInv'
    BY <2>1, <2>2, <2>3 DEF DoneInv
  <2> QED
    BY <2>4, <2>5, <2>6, <2>7, <2>8, <2>9, <2>10, <2>11, <2>12, <2>13, <2>14, <2>15, <2>16 DEF RInv
<1>2. CASE /\ Works /\ ~installed.one /\ UNCHANGED installed
           /\ repairer' = [repairer EXCEPT !.pc = "setCurrent"]
  <2>1. repairer.pc = "install" /\ dir' = dir /\ lost' = lost /\ installed' = installed /\ repairs' = repairs
        /\ salvageable' = salvageable /\ found' = found
    BY <1>2 DEF InstallDescriptor
  <2>2. /\ repairer'.pc = "setCurrent" /\ repairer'.logs = repairer.logs /\ repairer'.numbers = repairer.numbers
        /\ repairer'.tables = repairer.tables /\ repairer'.next = repairer.next /\ repairer'.at = repairer.at
        /\ repairer'.copy = repairer.copy /\ repairer'.entries = repairer.entries /\ repairer'.ok = repairer.ok
    BY <1>2 DEF RType, Repairers
  <2>3. RType'
    <3>1. dir' \in [Numbers -> RepairedFiles]
      BY <1>2, <2>1, <2>2 DEF RType, RepairedFiles, Absent
    <3>2. lost' \in [LostNames -> SUBSET Nat]
      BY <1>2, <2>1, <2>2 DEF RType
    <3>3. repairer' \in Repairers
      <4>1. "setCurrent" \in PCs /\ repairer.next + 1 \in Nat
        BY DEF PCs
      <4> QED
        BY <4>1, <1>2 DEF RType, Repairers
    <3>4. installed' \in Descriptors /\ repairs' \in Nat
      BY <2>1, <2>2 DEF RType
    <3> QED
      BY <3>1, <3>2, <3>3, <3>4 DEF RType
  <2>4. DirInv'
    BY <2>1, <2>2 DEF DirInv, NextInv, SourceInv, CopyInv, EntriesInv, Running, IsTable, CopyMade, Copying, Absent
  <2>5. NextInv'
    BY <2>1, <2>2 DEF NextInv, ListsInv, SourceInv, CopyInv, Running, IsTable, CopyMade, Copying
  <2>6. ListsInv'
    BY <2>1, <2>2 DEF ListsInv, NextInv, SourceInv, CopyInv, Running, IsTable, CopyMade, Copying
  <2>7. SourceInv'
    BY <2>1, <2>2 DEF SourceInv, ListsInv, NextInv, Running, IsTable
  <2>8. CopyInv'
    BY <2>1, <2>2 DEF CopyInv, SourceInv, ListsInv, NextInv, Running, IsTable, CopyMade, Copying
  <2>9. EntriesInv'
    BY <2>1, <2>2 DEF EntriesInv, DirInv, SourceInv, CopyInv, IsTable, CopyMade, Copying, Absent
  <2>10. NamesInv'
    BY <2>1, <2>2 DEF NamesInv, Covered, NextInv, SourceInv, CopyInv, EntriesInv, CallsInv, Running, IsTable,
       CopyMade, Copying
  <2>11. CallsInv'
    BY <2>1, <2>2 DEF CallsInv, Running
  <2>12. KeptInv'
    BY <2>1, <2>2 DEF KeptInv, InDir, InLost, DirInv, NextInv, SourceInv, CopyInv, EntriesInv, Running, IsTable,
       CopyMade, Copying, Absent
  <2>13. FoundInv'
    BY <2>1, <2>2 DEF FoundInv, InHand, InLost, DirInv, NextInv, ListsInv, SourceInv, CopyInv, EntriesInv, Running,
       IsTable, CopyMade, Copying, Absent
  <2>14. ListedInv'
    BY <2>1, <2>2 DEF ListedInv, InLost, NextInv, ListsInv, SourceInv, CopyInv, CallsInv, Running, IsTable,
       CopyMade, Copying, Absent
  <2>15. DoneInv'
    BY <2>1, <2>2 DEF DoneInv
  <2> QED
    BY <2>3, <2>4, <2>5, <2>6, <2>7, <2>8, <2>9, <2>10, <2>11, <2>12, <2>13, <2>14, <2>15 DEF RInv
<1>3. CASE /\ Fails("install") /\ UNCHANGED installed
           /\ repairer' = [repairer EXCEPT !.pc = "off", !.ok = FALSE]
  <2>1. repairer.pc = "install" /\ dir' = dir /\ lost' = lost /\ installed' = installed /\ repairs' = repairs
        /\ salvageable' = salvageable /\ found' = found
    BY <1>3 DEF InstallDescriptor
  <2>2. /\ repairer'.pc = "off" /\ repairer'.logs = repairer.logs /\ repairer'.numbers = repairer.numbers
        /\ repairer'.tables = repairer.tables /\ repairer'.next = repairer.next /\ repairer'.at = repairer.at
        /\ repairer'.copy = repairer.copy /\ repairer'.entries = repairer.entries /\ repairer'.ok = FALSE
    BY <1>3 DEF RType, Repairers
  <2>3. RType'
    <3>1. dir' \in [Numbers -> RepairedFiles]
      BY <1>3, <2>1, <2>2 DEF RType, RepairedFiles, Absent
    <3>2. lost' \in [LostNames -> SUBSET Nat]
      BY <1>3, <2>1, <2>2 DEF RType
    <3>3. repairer' \in Repairers
      <4>1. "off" \in PCs /\ repairer.next + 1 \in Nat
        BY DEF PCs
      <4> QED
        BY <4>1, <1>3 DEF RType, Repairers
    <3>4. installed' \in Descriptors /\ repairs' \in Nat
      BY <2>1, <2>2 DEF RType
    <3> QED
      BY <3>1, <3>2, <3>3, <3>4 DEF RType
  <2>4. DirInv'
    BY <2>1, <2>2 DEF DirInv, NextInv, SourceInv, CopyInv, EntriesInv, Running, IsTable, CopyMade, Copying, Absent
  <2>5. NextInv'
    BY <2>1, <2>2 DEF NextInv, ListsInv, SourceInv, CopyInv, Running, IsTable, CopyMade, Copying
  <2>6. ListsInv'
    BY <2>1, <2>2 DEF ListsInv, NextInv, SourceInv, CopyInv, Running, IsTable, CopyMade, Copying
  <2>7. SourceInv'
    BY <2>1, <2>2 DEF SourceInv, ListsInv, NextInv, Running, IsTable
  <2>8. CopyInv'
    BY <2>1, <2>2 DEF CopyInv, SourceInv, ListsInv, NextInv, Running, IsTable, CopyMade, Copying
  <2>9. EntriesInv'
    BY <2>1, <2>2 DEF EntriesInv, DirInv, SourceInv, CopyInv, IsTable, CopyMade, Copying, Absent
  <2>10. NamesInv'
    BY <2>1, <2>2 DEF NamesInv, Covered, NextInv, SourceInv, CopyInv, EntriesInv, CallsInv, Running, IsTable,
       CopyMade, Copying
  <2>11. CallsInv'
    BY <2>1, <2>2 DEF CallsInv, Running
  <2>12. KeptInv'
    BY <2>1, <2>2 DEF KeptInv, InDir, InLost, DirInv, NextInv, SourceInv, CopyInv, EntriesInv, Running, IsTable,
       CopyMade, Copying, Absent
  <2>13. FoundInv'
    BY <2>1, <2>2 DEF FoundInv, InHand, InLost, DirInv, NextInv, ListsInv, SourceInv, CopyInv, EntriesInv, Running,
       IsTable, CopyMade, Copying, Absent
  <2>14. ListedInv'
    BY <2>1, <2>2 DEF ListedInv, InLost, NextInv, ListsInv, SourceInv, CopyInv, CallsInv, Running, IsTable,
       CopyMade, Copying, Absent
  <2>15. DoneInv'
    BY <2>1, <2>2 DEF DoneInv
  <2> QED
    BY <2>3, <2>4, <2>5, <2>6, <2>7, <2>8, <2>9, <2>10, <2>11, <2>12, <2>13, <2>14, <2>15 DEF RInv
<1> QED
  BY <1>1, <1>2, <1>3 DEF InstallDescriptor

\* CURRENT names the descriptor.
LEMMA MakeCurrentKeeps ==
  ASSUME RInv, ArchiveNamesFresh, MakeCurrent
  PROVE  RInv'
<1>0. RType /\ DirInv /\ NextInv /\ ListsInv /\ SourceInv /\ CopyInv /\ EntriesInv /\ NamesInv /\ CallsInv
      /\ KeptInv /\ FoundInv /\ ListedInv /\ DoneInv
  BY DEF RInv
<1> USE <1>0, TypeFacts
<1>1. CASE /\ Works /\ installed' = Descriptor
           /\ repairer' = [repairer EXCEPT !.pc = "done"]
  <2>1. repairer.pc = "setCurrent" /\ dir' = dir /\ lost' = lost /\ repairs' = repairs
        /\ salvageable' = salvageable /\ found' = found
    BY <1>1 DEF MakeCurrent
  <2>2. /\ installed' = Descriptor /\ installed' \in Descriptors /\ installed'.valid
        /\ installed'.tables = repairer.tables
        /\ installed'.next = repairer.next /\ installed'.ok = repairer.ok
        /\ \A n \in repairer.tables : /\ dir[n].type = "table" /\ ~dir[n].bad /\ n < repairer.next
                                      /\ \A s \in dir[n].data : s <= installed'.last
        /\ repairer.ok => \A x \in salvageable : InLost(x) \/ \E n \in repairer.tables : x \in dir[n].data
    BY <1>1, <2>1, DescriptorIsGood
  <2>3. /\ repairer'.pc = "done" /\ repairer'.logs = repairer.logs /\ repairer'.numbers = repairer.numbers
        /\ repairer'.tables = repairer.tables /\ repairer'.next = repairer.next /\ repairer'.at = repairer.at
        /\ repairer'.copy = repairer.copy /\ repairer'.entries = repairer.entries /\ repairer'.ok = repairer.ok
    BY <1>1 DEF RType, Repairers
  <2>4. RType'
    <3>1. dir' \in [Numbers -> RepairedFiles]
      BY <1>1, <2>1, <2>2, <2>3 DEF RType, RepairedFiles, Absent
    <3>2. lost' \in [LostNames -> SUBSET Nat]
      BY <1>1, <2>1, <2>2, <2>3 DEF RType
    <3>3. repairer' \in Repairers
      <4>1. "done" \in PCs /\ repairer.next + 1 \in Nat
        BY DEF PCs
      <4> QED
        BY <4>1, <1>1 DEF RType, Repairers
    <3>4. installed' \in Descriptors /\ repairs' \in Nat
      BY <2>1, <2>2, <2>3 DEF RType
    <3> QED
      BY <3>1, <3>2, <3>3, <3>4 DEF RType
  <2>5. DirInv'
    BY <2>1, <2>2, <2>3 DEF DirInv, NextInv, SourceInv, CopyInv, EntriesInv, Running, IsTable, CopyMade, Copying,
       Absent
  <2>6. NextInv'
    BY <2>1, <2>2, <2>3 DEF NextInv, ListsInv, SourceInv, CopyInv, Running, IsTable, CopyMade, Copying
  <2>7. ListsInv'
    BY <2>1, <2>2, <2>3 DEF ListsInv, NextInv, SourceInv, CopyInv, Running, IsTable, CopyMade, Copying
  <2>8. SourceInv'
    BY <2>1, <2>2, <2>3 DEF SourceInv, ListsInv, NextInv, Running, IsTable
  <2>9. CopyInv'
    BY <2>1, <2>2, <2>3 DEF CopyInv, SourceInv, ListsInv, NextInv, Running, IsTable, CopyMade, Copying
  <2>10. EntriesInv'
    BY <2>1, <2>2, <2>3 DEF EntriesInv, DirInv, SourceInv, CopyInv, IsTable, CopyMade, Copying, Absent
  <2>11. NamesInv'
    BY <2>1, <2>2, <2>3 DEF NamesInv, Covered, NextInv, SourceInv, CopyInv, EntriesInv, CallsInv, Running, IsTable,
       CopyMade, Copying
  <2>12. CallsInv'
    BY <2>1, <2>2, <2>3 DEF CallsInv, Running
  <2>13. KeptInv'
    BY <2>1, <2>2, <2>3 DEF KeptInv, InDir, InLost, DirInv, NextInv, SourceInv, CopyInv, EntriesInv, Running,
       IsTable, CopyMade, Copying, Absent
  <2>14. FoundInv'
    BY <2>1, <2>2, <2>3 DEF FoundInv, InHand, InLost, DirInv, NextInv, ListsInv, SourceInv, CopyInv, EntriesInv,
       Running, IsTable, CopyMade, Copying, Absent
  <2>15. ListedInv'
    BY <2>1, <2>2, <2>3 DEF ListedInv, InLost, NextInv, ListsInv, SourceInv, CopyInv, CallsInv, Running, IsTable,
       CopyMade, Copying, Absent
  <2>16. DoneInv'
    BY <2>1, <2>2, <2>3 DEF DoneInv
  <2> QED
    BY <2>4, <2>5, <2>6, <2>7, <2>8, <2>9, <2>10, <2>11, <2>12, <2>13, <2>14, <2>15, <2>16 DEF RInv
<1>2. CASE /\ Fails("install") /\ UNCHANGED installed
           /\ repairer' = [repairer EXCEPT !.pc = "off", !.ok = FALSE]
  <2>1. repairer.pc = "setCurrent" /\ dir' = dir /\ lost' = lost /\ installed' = installed /\ repairs' = repairs
        /\ salvageable' = salvageable /\ found' = found
    BY <1>2 DEF MakeCurrent
  <2>2. /\ repairer'.pc = "off" /\ repairer'.logs = repairer.logs /\ repairer'.numbers = repairer.numbers
        /\ repairer'.tables = repairer.tables /\ repairer'.next = repairer.next /\ repairer'.at = repairer.at
        /\ repairer'.copy = repairer.copy /\ repairer'.entries = repairer.entries /\ repairer'.ok = FALSE
    BY <1>2 DEF RType, Repairers
  <2>3. RType'
    <3>1. dir' \in [Numbers -> RepairedFiles]
      BY <1>2, <2>1, <2>2 DEF RType, RepairedFiles, Absent
    <3>2. lost' \in [LostNames -> SUBSET Nat]
      BY <1>2, <2>1, <2>2 DEF RType
    <3>3. repairer' \in Repairers
      <4>1. "off" \in PCs /\ repairer.next + 1 \in Nat
        BY DEF PCs
      <4> QED
        BY <4>1, <1>2 DEF RType, Repairers
    <3>4. installed' \in Descriptors /\ repairs' \in Nat
      BY <2>1, <2>2 DEF RType
    <3> QED
      BY <3>1, <3>2, <3>3, <3>4 DEF RType
  <2>4. DirInv'
    BY <2>1, <2>2 DEF DirInv, NextInv, SourceInv, CopyInv, EntriesInv, Running, IsTable, CopyMade, Copying, Absent
  <2>5. NextInv'
    BY <2>1, <2>2 DEF NextInv, ListsInv, SourceInv, CopyInv, Running, IsTable, CopyMade, Copying
  <2>6. ListsInv'
    BY <2>1, <2>2 DEF ListsInv, NextInv, SourceInv, CopyInv, Running, IsTable, CopyMade, Copying
  <2>7. SourceInv'
    BY <2>1, <2>2 DEF SourceInv, ListsInv, NextInv, Running, IsTable
  <2>8. CopyInv'
    BY <2>1, <2>2 DEF CopyInv, SourceInv, ListsInv, NextInv, Running, IsTable, CopyMade, Copying
  <2>9. EntriesInv'
    BY <2>1, <2>2 DEF EntriesInv, DirInv, SourceInv, CopyInv, IsTable, CopyMade, Copying, Absent
  <2>10. NamesInv'
    BY <2>1, <2>2 DEF NamesInv, Covered, NextInv, SourceInv, CopyInv, EntriesInv, CallsInv, Running, IsTable,
       CopyMade, Copying
  <2>11. CallsInv'
    BY <2>1, <2>2 DEF CallsInv, Running
  <2>12. KeptInv'
    BY <2>1, <2>2 DEF KeptInv, InDir, InLost, DirInv, NextInv, SourceInv, CopyInv, EntriesInv, Running, IsTable,
       CopyMade, Copying, Absent
  <2>13. FoundInv'
    BY <2>1, <2>2 DEF FoundInv, InHand, InLost, DirInv, NextInv, ListsInv, SourceInv, CopyInv, EntriesInv, Running,
       IsTable, CopyMade, Copying, Absent
  <2>14. ListedInv'
    BY <2>1, <2>2 DEF ListedInv, InLost, NextInv, ListsInv, SourceInv, CopyInv, CallsInv, Running, IsTable,
       CopyMade, Copying, Absent
  <2>15. DoneInv'
    BY <2>1, <2>2 DEF DoneInv
  <2> QED
    BY <2>3, <2>4, <2>5, <2>6, <2>7, <2>8, <2>9, <2>10, <2>11, <2>12, <2>13, <2>14, <2>15 DEF RInv
<1> QED
  BY <1>1, <1>2 DEF MakeCurrent

\* RepairDB returns.
LEMMA RepairReturnsKeeps ==
  ASSUME RInv, ArchiveNamesFresh, RepairReturns
  PROVE  RInv'
<1>0. RType /\ DirInv /\ NextInv /\ ListsInv /\ SourceInv /\ CopyInv /\ EntriesInv /\ NamesInv /\ CallsInv
      /\ KeptInv /\ FoundInv /\ ListedInv /\ DoneInv
  BY DEF RInv
<1> USE <1>0, TypeFacts
<1>1. repairer.pc = "done" /\ dir' = dir /\ lost' = lost /\ installed' = installed /\ repairs' = repairs
      /\ salvageable' = salvageable /\ found' = found
      /\ repairer' = NoRepairer
  BY DEF RepairReturns
<1>2. /\ repairer'.pc = "off" /\ repairer'.logs = {} /\ repairer'.numbers = {}
      /\ repairer'.tables = {} /\ repairer'.next = 1 /\ repairer'.at = 0
      /\ repairer'.copy = 0 /\ repairer'.entries = {} /\ repairer'.ok = TRUE
  BY <1>1 DEF NoRepairer
<1>3. RType'
  <2>1. dir' \in [Numbers -> RepairedFiles]
    BY <1>1, <1>1, <1>2 DEF RType, RepairedFiles, Absent
  <2>2. lost' \in [LostNames -> SUBSET Nat]
    BY <1>1, <1>1, <1>2 DEF RType, NoRepairer
  <2>3. repairer' \in Repairers
    <3>1. "off" \in PCs /\ repairer.next + 1 \in Nat
      BY DEF PCs
    <3> QED
      BY <3>1, <1>1 DEF RType, Repairers, NoRepairer
  <2>4. installed' \in Descriptors /\ repairs' \in Nat
    BY <1>1, <1>2 DEF RType, NoRepairer
  <2> QED
    BY <2>1, <2>2, <2>3, <2>4 DEF RType
<1>4. DirInv'
  BY <1>1, <1>2 DEF DirInv, NextInv, SourceInv, CopyInv, EntriesInv, Running, IsTable, CopyMade, Copying, Absent
<1>5. NextInv'
  BY <1>1, <1>2 DEF NextInv, ListsInv, SourceInv, CopyInv, Running, IsTable, CopyMade, Copying
<1>6. ListsInv'
  BY <1>1, <1>2 DEF ListsInv, NextInv, SourceInv, CopyInv, Running, IsTable, CopyMade, Copying
<1>7. SourceInv'
  BY <1>1, <1>2 DEF SourceInv, ListsInv, NextInv, Running, IsTable
<1>8. CopyInv'
  BY <1>1, <1>2 DEF CopyInv, SourceInv, ListsInv, NextInv, Running, IsTable, CopyMade, Copying
<1>9. EntriesInv'
  BY <1>1, <1>2 DEF EntriesInv, DirInv, SourceInv, CopyInv, IsTable, CopyMade, Copying, Absent
<1>10. NamesInv'
  BY <1>1, <1>2 DEF NamesInv, Covered, NextInv, SourceInv, CopyInv, EntriesInv, CallsInv, Running, IsTable,
     CopyMade, Copying
<1>11. CallsInv'
  BY <1>1, <1>2 DEF CallsInv, Running
<1>12. KeptInv'
  BY <1>1, <1>2 DEF KeptInv, InDir, InLost, DirInv, NextInv, SourceInv, CopyInv, EntriesInv, Running, IsTable,
     CopyMade, Copying, Absent
<1>13. FoundInv'
  BY <1>1, <1>2 DEF FoundInv, InHand, InLost, DirInv, NextInv, ListsInv, SourceInv, CopyInv, EntriesInv, Running,
     IsTable, CopyMade, Copying, Absent
<1>14. ListedInv'
  BY <1>1, <1>2 DEF ListedInv, InLost, NextInv, ListsInv, SourceInv, CopyInv, CallsInv, Running, IsTable, CopyMade,
     Copying, Absent
<1>15. DoneInv'
  BY <1>1, <1>2 DEF DoneInv
<1> QED
  BY <1>3, <1>4, <1>5, <1>6, <1>7, <1>8, <1>9, <1>10, <1>11, <1>12, <1>13, <1>14, <1>15 DEF RInv

\* The process crashes, between steps or while it builds a table.
LEMMA CrashInRepairKeeps ==
  ASSUME RInv, ArchiveNamesFresh, CrashInRepair
  PROVE  RInv'
<1>0. RType /\ DirInv /\ NextInv /\ ListsInv /\ SourceInv /\ CopyInv /\ EntriesInv /\ NamesInv /\ CallsInv
      /\ KeptInv /\ FoundInv /\ ListedInv /\ DoneInv
  BY DEF RInv
<1> USE <1>0, TypeFacts
<1>1. CASE UNCHANGED dir
  <2>1. Running /\ repairer.pc # "off" /\ dir' = dir /\ lost' = lost /\ installed' = installed
        /\ repairs' = repairs /\ salvageable' = salvageable /\ found' = found
        /\ repairer' = NoRepairer
    BY <1>1 DEF CrashInRepair, Running
  <2>2. /\ repairer'.pc = "off" /\ repairer'.logs = {} /\ repairer'.numbers = {}
        /\ repairer'.tables = {} /\ repairer'.next = 1 /\ repairer'.at = 0
        /\ repairer'.copy = 0 /\ repairer'.entries = {} /\ repairer'.ok = TRUE
    BY <2>1 DEF NoRepairer
  <2>3. RType'
    <3>1. dir' \in [Numbers -> RepairedFiles]
      BY <2>1, <2>1, <2>2 DEF RType, RepairedFiles, Absent
    <3>2. lost' \in [LostNames -> SUBSET Nat]
      BY <2>1, <2>1, <2>2 DEF RType, NoRepairer
    <3>3. repairer' \in Repairers
      <4>1. "off" \in PCs /\ repairer.next + 1 \in Nat
        BY DEF PCs
      <4> QED
        BY <4>1, <2>1 DEF RType, Repairers, NoRepairer
    <3>4. installed' \in Descriptors /\ repairs' \in Nat
      BY <2>1, <2>2 DEF RType, NoRepairer
    <3> QED
      BY <3>1, <3>2, <3>3, <3>4 DEF RType
  <2>4. DirInv'
    BY <2>1, <2>2 DEF DirInv, NextInv, SourceInv, CopyInv, EntriesInv, Running, IsTable, CopyMade, Copying, Absent
  <2>5. NextInv'
    BY <2>1, <2>2 DEF NextInv, ListsInv, SourceInv, CopyInv, Running, IsTable, CopyMade, Copying
  <2>6. ListsInv'
    BY <2>1, <2>2 DEF ListsInv, NextInv, SourceInv, CopyInv, Running, IsTable, CopyMade, Copying
  <2>7. SourceInv'
    BY <2>1, <2>2 DEF SourceInv, ListsInv, NextInv, Running, IsTable
  <2>8. CopyInv'
    BY <2>1, <2>2 DEF CopyInv, SourceInv, ListsInv, NextInv, Running, IsTable, CopyMade, Copying
  <2>9. EntriesInv'
    BY <2>1, <2>2 DEF EntriesInv, DirInv, SourceInv, CopyInv, IsTable, CopyMade, Copying, Absent
  <2>10. NamesInv'
    BY <2>1, <2>2 DEF NamesInv, Covered, NextInv, SourceInv, CopyInv, EntriesInv, CallsInv, Running, IsTable,
       CopyMade, Copying
  <2>11. CallsInv'
    BY <2>1, <2>2 DEF CallsInv, Running
  <2>12. KeptInv'
    BY <2>1, <2>2 DEF KeptInv, InDir, InLost, DirInv, NextInv, SourceInv, CopyInv, EntriesInv, Running, IsTable,
       CopyMade, Copying, Absent
  <2>13. FoundInv'
    BY <2>1, <2>2 DEF FoundInv, InHand, InLost, DirInv, NextInv, ListsInv, SourceInv, CopyInv, EntriesInv, Running,
       IsTable, CopyMade, Copying, Absent
  <2>14. ListedInv'
    BY <2>1, <2>2 DEF ListedInv, InLost, NextInv, ListsInv, SourceInv, CopyInv, CallsInv, Running, IsTable,
       CopyMade, Copying, Absent
  <2>15. DoneInv'
    BY <2>1, <2>2 DEF DoneInv
  <2> QED
    BY <2>3, <2>4, <2>5, <2>6, <2>7, <2>8, <2>9, <2>10, <2>11, <2>12, <2>13, <2>14, <2>15 DEF RInv
<1>2. CASE /\ repairer.pc = "logs" /\ repairer.logs # {} /\ repairer.next <= MaxNumber
           /\ dir' = [dir EXCEPT ![repairer.next] = [type |-> "table", data |-> {}, bad |-> TRUE]]
  <2>1. Running /\ lost' = lost /\ installed' = installed /\ repairs' = repairs /\ salvageable' = salvageable
        /\ found' = found
        /\ repairer' = NoRepairer /\ repairer.pc = "logs" /\ repairer.next <= MaxNumber
    BY <1>2 DEF CrashInRepair, Running
  <2>2. repairer.next \in Numbers /\ dir[repairer.next].type = "none" /\ dir[repairer.next].data = {}
        /\ lost[<<"table", repairer.next>>] = {}
    BY <2>1, NextIsFree DEF Running
  <2>3. /\ dir'[repairer.next].type = "table" /\ dir'[repairer.next].data = {} /\ dir'[repairer.next].bad = TRUE
        /\ \A n \in Numbers : n # repairer.next => dir'[n] = dir[n]
        /\ IsFiniteSet(dir'[repairer.next].data)
    BY <1>2, <2>2, FS_EmptySet DEF RType
  <2>4. /\ repairer'.pc = "off" /\ repairer'.logs = {} /\ repairer'.numbers = {}
        /\ repairer'.tables = {} /\ repairer'.next = 1 /\ repairer'.at = 0
        /\ repairer'.copy = 0 /\ repairer'.entries = {} /\ repairer'.ok = TRUE
    BY <2>1 DEF NoRepairer
  <2>5. RType'
    <3>1. dir' \in [Numbers -> RepairedFiles]
      BY <1>2, <2>1, <2>2 DEF RType, RepairedFiles
    <3>2. lost' \in [LostNames -> SUBSET Nat]
      BY <2>1, <2>1, <2>2, <2>3, <2>4 DEF RType, NoRepairer
    <3>3. repairer' \in Repairers
      <4>1. "off" \in PCs /\ repairer.next + 1 \in Nat
        BY DEF PCs
      <4> QED
        BY <4>1, <2>1 DEF RType, Repairers, NoRepairer
    <3>4. installed' \in Descriptors /\ repairs' \in Nat
      BY <2>1, <2>2, <2>3, <2>4 DEF RType, NoRepairer
    <3> QED
      BY <3>1, <3>2, <3>3, <3>4 DEF RType
  <2>6. DirInv'
    <3>1. ASSUME NEW n \in Numbers
         PROVE  /\ dir'[n].type = "none" => dir'[n] = Absent
                /\ IsFiniteSet(dir'[n].data)
                /\ dir'[n].type # "none" => lost'[<<dir'[n].type, n>>] \subseteq dir'[n].data
      <4>1. CASE n = repairer.next
        BY <2>1, <2>2, <2>3, <4>1 DEF DirInv, EntriesInv, Copying
      <4>2. CASE n \notin {repairer.next}
        BY <2>1, <2>2, <2>3, <4>2 DEF DirInv
      <4> QED
        BY <4>1, <4>2
    <3> QED
      BY <3>1 DEF DirInv
  <2>7. NextInv'
    BY <2>1, <2>2, <2>3, <2>4 DEF NextInv, ListsInv, SourceInv, CopyInv, Running, IsTable, CopyMade, Copying
  <2>8. ListsInv'
    BY <2>1, <2>2, <2>3, <2>4 DEF ListsInv, NextInv, SourceInv, CopyInv, Running, IsTable, CopyMade, Copying
  <2>9. SourceInv'
    BY <2>1, <2>2, <2>3, <2>4 DEF SourceInv, ListsInv, NextInv, Running, IsTable
  <2>10. CopyInv'
    BY <2>1, <2>2, <2>3, <2>4 DEF CopyInv, SourceInv, ListsInv, NextInv, Running, IsTable, CopyMade, Copying
  <2>11. EntriesInv'
    BY <2>1, <2>2, <2>3, <2>4 DEF EntriesInv, DirInv, SourceInv, CopyInv, IsTable, CopyMade, Copying, Absent
  <2>12. NamesInv'
    BY <2>1, <2>2, <2>3, <2>4 DEF NamesInv, Covered, NextInv, SourceInv, CopyInv, EntriesInv, CallsInv, Running,
       IsTable, CopyMade, Copying
  <2>13. CallsInv'
    BY <2>1, <2>2, <2>3, <2>4 DEF CallsInv, Running
  <2>14. KeptInv'
    BY <2>1, <2>2, <2>3, <2>4 DEF KeptInv, InDir, InLost, DirInv, NextInv, SourceInv, CopyInv, EntriesInv, Running,
       IsTable, CopyMade, Copying, Absent
  <2>15. FoundInv'
    BY <2>1, <2>2, <2>3, <2>4 DEF FoundInv, InHand, InLost, DirInv, NextInv, ListsInv, SourceInv, CopyInv,
       EntriesInv, Running, IsTable, CopyMade, Copying, Absent
  <2>16. ListedInv'
    BY <2>1, <2>2, <2>3, <2>4 DEF ListedInv, InLost, NextInv, ListsInv, SourceInv, CopyInv, CallsInv, Running,
       IsTable, CopyMade, Copying, Absent
  <2>17. DoneInv'
    BY <2>1, <2>2, <2>3, <2>4 DEF DoneInv
  <2> QED
    BY <2>5, <2>6, <2>7, <2>8, <2>9, <2>10, <2>11, <2>12, <2>13, <2>14, <2>15, <2>16, <2>17 DEF RInv
<1> QED
  BY <1>1, <1>2 DEF CrashInRepair

\* DB::Open removes the tables that are not listed.
LEMMA OpenRepairedKeeps ==
  ASSUME RInv, ArchiveNamesFresh, OpenRepaired
  PROVE  RInv'
<1>0. RType /\ DirInv /\ NextInv /\ ListsInv /\ SourceInv /\ CopyInv /\ EntriesInv /\ NamesInv /\ CallsInv
      /\ KeptInv /\ FoundInv /\ ListedInv /\ DoneInv
  BY DEF RInv
<1> USE <1>0, TypeFacts
<1>1. repairer.pc = "off" /\ installed.valid /\ lost' = lost /\ installed' = installed /\ repairs' = repairs
      /\ salvageable' = salvageable /\ found' = found
      /\ repairer' = [NoRepairer EXCEPT !.pc = "opened"]
      /\ dir' = [n \in Numbers |-> IF dir[n].type = "table" /\ n \notin installed.tables THEN Absent ELSE dir[n]]
  BY DEF OpenRepaired
<1>2. Absent.type = "none" /\ Absent.data = {} /\ IsFiniteSet(Absent.data)
  BY FS_EmptySet DEF Absent
<1>3. /\ \A n \in Numbers : dir'[n] = Absent \/ dir'[n] = dir[n]
      /\ \A n \in installed.tables : dir'[n] = dir[n]
  BY <1>1
<1>4. /\ repairer'.pc = "opened" /\ repairer'.logs = {} /\ repairer'.numbers = {}
      /\ repairer'.tables = {} /\ repairer'.next = 1 /\ repairer'.at = 0
      /\ repairer'.copy = 0 /\ repairer'.entries = {} /\ repairer'.ok = TRUE
  BY <1>1 DEF NoRepairer
<1>5. RType'
  <2>1. dir' \in [Numbers -> RepairedFiles]
    <3>1. Absent \in RepairedFiles
      BY DEF Absent, RepairedFiles
    <3> QED
      BY <1>1, <3>1 DEF RType
  <2>2. lost' \in [LostNames -> SUBSET Nat]
    BY <1>1, <1>1, <1>2, <1>3, <1>4 DEF RType, NoRepairer
  <2>3. repairer' \in Repairers
    <3>1. "opened" \in PCs /\ repairer.next + 1 \in Nat
      BY DEF PCs
    <3> QED
      BY <3>1, <1>1 DEF RType, Repairers, NoRepairer
  <2>4. installed' \in Descriptors /\ repairs' \in Nat
    BY <1>1, <1>2, <1>3, <1>4 DEF RType, NoRepairer
  <2> QED
    BY <2>1, <2>2, <2>3, <2>4 DEF RType
<1>6. DirInv'
  BY <1>1, <1>2, <1>3 DEF DirInv
<1>7. NextInv'
  BY <1>1, <1>2, <1>3, <1>4 DEF NextInv, ListsInv, SourceInv, CopyInv, Running, IsTable, CopyMade, Copying
<1>8. ListsInv'
  BY <1>1, <1>2, <1>3, <1>4 DEF ListsInv, NextInv, SourceInv, CopyInv, Running, IsTable, CopyMade, Copying
<1>9. SourceInv'
  BY <1>1, <1>2, <1>3, <1>4 DEF SourceInv, ListsInv, NextInv, Running, IsTable
<1>10. CopyInv'
  BY <1>1, <1>2, <1>3, <1>4 DEF CopyInv, SourceInv, ListsInv, NextInv, Running, IsTable, CopyMade, Copying
<1>11. EntriesInv'
  BY <1>1, <1>2, <1>3, <1>4 DEF EntriesInv, DirInv, SourceInv, CopyInv, IsTable, CopyMade, Copying, Absent
<1>12. NamesInv'
  BY <1>1, <1>2, <1>3, <1>4 DEF NamesInv, Covered, NextInv, SourceInv, CopyInv, EntriesInv, CallsInv, Running,
     IsTable, CopyMade, Copying
<1>13. CallsInv'
  BY <1>1, <1>2, <1>3, <1>4 DEF CallsInv, Running
<1>14. KeptInv'
  BY <1>1, <1>2, <1>3, <1>4 DEF KeptInv, InDir, InLost, DirInv, NextInv, SourceInv, CopyInv, EntriesInv, Running,
     IsTable, CopyMade, Copying, Absent
<1>15. FoundInv'
  BY <1>1, <1>2, <1>3, <1>4 DEF FoundInv, InHand, InLost, DirInv, NextInv, ListsInv, SourceInv, CopyInv,
     EntriesInv, Running, IsTable, CopyMade, Copying, Absent
<1>16. ListedInv'
  BY <1>1, <1>2, <1>3, <1>4 DEF ListedInv, InLost, NextInv, ListsInv, SourceInv, CopyInv, CallsInv, Running,
     IsTable, CopyMade, Copying, Absent
<1>17. DoneInv'
  BY <1>1, <1>2, <1>3, <1>4 DEF DoneInv
<1> QED
  BY <1>5, <1>6, <1>7, <1>8, <1>9, <1>10, <1>11, <1>12, <1>13, <1>14, <1>15, <1>16, <1>17 DEF RInv

\* RepairDB is called.
LEMMA FindFilesKeeps ==
  ASSUME RInv, ArchiveNamesFresh, FindFiles
  PROVE  RInv'
<1>0. RType /\ DirInv /\ NextInv /\ ListsInv /\ SourceInv /\ CopyInv /\ EntriesInv /\ NamesInv /\ CallsInv
      /\ KeptInv /\ FoundInv /\ ListedInv /\ DoneInv
  BY DEF RInv
<1> USE <1>0, TypeFacts
<1>1. repairer.pc = "off" /\ repairs < MaxRepairs /\ dir' = dir /\ lost' = lost /\ installed' = installed
      /\ salvageable' = salvageable
      /\ repairs' = repairs + 1 /\ found' = ReadableIn(dir)
  BY DEF FindFiles
<1>2. PICK k \in Nat :
           /\ k > 0 /\ \A n \in Numbers : dir[n].type # "none" => n < k
           /\ repairer' = [NoRepairer EXCEPT !.pc = "logs", !.logs = {n \in Numbers : dir[n].type = "log"},
                                             !.numbers = {n \in Numbers : dir[n].type = "table"}, !.next = k]
  <2> DEFINE L == {n \in Numbers : dir[n].type = "log"}
             T == {n \in Numbers : dir[n].type = "table"}
  <2>1. NextAfter(L \cup T) \in Nat /\ NextAfter(L \cup T) > 0 /\ \A n \in L \cup T : n < NextAfter(L \cup T)
    BY NextAfterAbove
  <2>2. \A n \in Numbers : dir[n].type # "none" => n \in L \cup T
    OBVIOUS
  <2>3. repairer' = [NoRepairer EXCEPT !.pc = "logs", !.logs = L, !.numbers = T, !.next = NextAfter(L \cup T)]
    BY DEF FindFiles
  <2> HIDE DEF L, T
  <2>4. \A n \in Numbers : dir[n].type # "none" => n < NextAfter(L \cup T)
    BY <2>1, <2>2
  <2> QED
    BY <2>1, <2>3, <2>4, Zenon DEF L, T
<1>3. /\ repairer'.pc = "logs" /\ repairer'.next = k /\ repairer'.at = 0 /\ repairer'.copy = 0
      /\ repairer'.logs = {n \in Numbers : dir[n].type = "log"}
      /\ repairer'.numbers = {n \in Numbers : dir[n].type = "table"}
      /\ repairer'.tables = {} /\ repairer'.entries = {} /\ repairer'.ok = TRUE
  BY <1>2 DEF NoRepairer
<1>4. RType'
  <2>1. "logs" \in PCs
    BY DEF PCs
  <2>2. repairer' \in Repairers
    BY <1>2, <2>1 DEF NoRepairer, Repairers
  <2> QED
    BY <1>1, <2>2 DEF RType
<1>5. DirInv'
  BY <1>1 DEF DirInv
<1>6. NextInv'
  <2>1. ASSUME NEW n \in Numbers, n >= k, lost[<<"table", n>>] # {} PROVE FALSE
    <3>1. CASE MaxRepairs > 1
      <4>1. PICK j \in Numbers : j >= n /\ dir[j].type = "table"
        BY <1>1, <2>1, <3>1 DEF NamesInv, Covered, Copying
      <4> QED
        BY <1>2, <2>1, <4>1
    <3>2. CASE ~(MaxRepairs > 1)
      <4>1. repairs = 0
        BY <1>1, <3>2
      <4>2. \A f \in LostNames : lost[f] = {}
        BY <4>1 DEF CallsInv
      <4> QED
        BY <2>1, <4>2
    <3> QED
      BY <3>1, <3>2
  <2> QED
    BY <1>1, <1>2, <1>3, <2>1 DEF NextInv
<1>7. ListsInv' /\ SourceInv' /\ CopyInv' /\ EntriesInv'
  BY <1>1, <1>3 DEF ListsInv, SourceInv, CopyInv, EntriesInv, CopyMade, Copying
<1>8. NamesInv'
  BY <1>1, <1>3 DEF NamesInv, Covered, CopyMade, Copying
<1>9. CallsInv'
  BY <1>1, <1>3 DEF CallsInv
<1>10. KeptInv'
  BY <1>1, <1>3 DEF KeptInv, InDir, InLost
<1>11. FoundInv'
  <2>1. \A x : InDir(x) <=> x \in found'
    BY <1>1 DEF InDir, ReadableIn
  <2>2. ASSUME NEW x \in found' PROVE InHand(x)'
    <3>1. PICK n \in Numbers : x \in dir[n].data
      BY <2>1, <2>2 DEF InDir
    <3>2. dir[n].type # "none"
      <4>1. dir[n] # Absent
        BY <3>1 DEF Absent
      <4> QED
        BY <4>1 DEF DirInv
    <3>3. n \in repairer'.logs \/ n \in repairer'.numbers
      BY <1>3, <3>2
    <3> QED
      BY <1>1, <1>3, <3>1, <3>3 DEF InHand
  <2>3. \A x \in salvageable : InDir(x) \/ InLost(x)
    BY <1>1 DEF KeptInv
  <2>4. \A x \in salvageable : x \in found' \/ InLost(x)'
    BY <1>1, <2>1, <2>3 DEF InLost
  <2> QED
    BY <1>1, <2>2, <2>4 DEF FoundInv
<1>12. ListedInv'
  BY <1>1, <1>3 DEF ListedInv, InLost, CallsInv, Copying
<1>13. DoneInv'
  BY <1>1, <1>3 DEF DoneInv
<1> QED
  BY <1>4, <1>5, <1>6, <1>7, <1>8, <1>9, <1>10, <1>11, <1>12, <1>13 DEF RInv

\* The directory as it was found.
LEMMA DamagedKeeps ==
  ASSUME RInv, ArchiveNamesFresh, NEW d \in FoundFiles, Damaged(d)
  PROVE  RInv'
<1>0. RType /\ CallsInv
  BY DEF RInv
<1>1. /\ repairer.pc = "unmade" /\ dir' = [n \in Numbers |-> IF n \in DOMAIN d THEN d[n] ELSE Absent]
      /\ salvageable' = ReadableIn(dir') /\ repairer' = NoRepairer
      /\ lost' = lost /\ installed' = installed /\ repairs' = repairs
  BY DEF Damaged
<1>2. repairs = 0 /\ ~installed.valid /\ \A f \in LostNames : lost[f] = {}
  BY <1>0, <1>1 DEF CallsInv
<1>3. repairer'.pc = "off"
  BY <1>1 DEF NoRepairer
<1>4. ASSUME NEW n \in Numbers
      PROVE  /\ dir'[n] \in RepairedFiles /\ IsFiniteSet(dir'[n].data)
             /\ dir'[n].type = "none" => dir'[n] = Absent
  <2>1. CASE n \in DOMAIN d
    <3>1. /\ d[n] \in [type : {"log", "table"}, data : SUBSET Nat, bad : BOOLEAN]
          /\ IsFiniteSet(d[n].data)
      BY <2>1, RepairAssumption
    <3> QED
      BY <1>1, <2>1, <3>1 DEF RepairedFiles
  <2>2. CASE n \notin DOMAIN d
    <3>1. dir'[n] = Absent
      BY <1>1, <2>2
    <3>2. Absent \in RepairedFiles /\ IsFiniteSet(Absent.data)
      BY FS_EmptySet DEF Absent, RepairedFiles
    <3> QED
      BY <3>1, <3>2
  <2> QED
    BY <2>1, <2>2
<1>5. RType'
  <2>1. "off" \in PCs
    BY DEF PCs
  <2>2. repairer' \in Repairers
    BY <1>1, <2>1 DEF NoRepairer, Repairers
  <2>3. dir' \in [Numbers -> RepairedFiles]
    BY <1>1, <1>4
  <2> QED
    BY <1>0, <1>1, <2>2, <2>3 DEF RType
<1>6. DirInv'
  <2>1. ASSUME NEW n \in Numbers, dir'[n].type # "none" PROVE lost'[<<dir'[n].type, n>>] \subseteq dir'[n].data
    <3>1. dir'[n].type \in {"log", "table"}
      BY <1>4, <2>1 DEF RepairedFiles
    <3>2. <<dir'[n].type, n>> \in LostNames
      BY <3>1 DEF LostNames
    <3> QED
      BY <1>1, <1>2, <3>2
  <2> QED
    BY <1>4, <2>1 DEF DirInv
<1>7. NextInv' /\ ListsInv' /\ SourceInv' /\ CopyInv' /\ EntriesInv' /\ FoundInv'
  BY <1>3 DEF NextInv, ListsInv, SourceInv, CopyInv, EntriesInv, FoundInv, CopyMade, Copying, Running
<1>8. NamesInv'
  BY <1>0, <1>1, <1>2, TypeFacts DEF NamesInv
<1>9. CallsInv'
  BY <1>1, <1>2, <1>3 DEF CallsInv, Running
<1>10. KeptInv'
  BY <1>1 DEF KeptInv, InDir, ReadableIn
<1>11. ListedInv' /\ DoneInv'
  BY <1>1, <1>2, <1>3 DEF ListedInv, DoneInv
<1> QED
  BY <1>5, <1>6, <1>7, <1>8, <1>9, <1>10, <1>11 DEF RInv

LEMMA RInvInit ==
  ASSUME RInit
  PROVE  RInv
<1>1. /\ repairer.pc = "unmade" /\ repairs = 0 /\ salvageable = {} /\ installed.valid = FALSE
      /\ repairer = [NoRepairer EXCEPT !.pc = "unmade"] /\ installed = NoDescriptor
      /\ \A n \in Numbers : dir[n] = Absent
      /\ \A f \in LostNames : lost[f] = {}
  BY DEF RInit, NoRepairer, NoDescriptor, LostNames
<1>2. Absent \in RepairedFiles /\ IsFiniteSet(Absent.data) /\ Absent.type = "none"
  BY FS_EmptySet DEF Absent, RepairedFiles
<1>3. RType
  <2>1. repairer \in Repairers
    BY <1>1 DEF NoRepairer, Repairers, PCs
  <2>2. installed \in Descriptors
    BY <1>1 DEF NoDescriptor, Descriptors
  <2>3. dir \in [Numbers -> RepairedFiles] /\ lost \in [LostNames -> SUBSET Nat]
    BY <1>2 DEF RInit, LostNames
  <2> QED
    BY <1>1, <2>1, <2>2, <2>3 DEF RType
<1>4. DirInv
  BY <1>1, <1>2 DEF DirInv
<1>5. NextInv /\ ListsInv /\ SourceInv /\ CopyInv /\ EntriesInv /\ FoundInv
  BY <1>1 DEF NextInv, ListsInv, SourceInv, CopyInv, EntriesInv, FoundInv, CopyMade, Copying, Running
<1>6. NamesInv
  BY <1>1, <1>3, TypeFacts DEF NamesInv
<1>7. CallsInv /\ KeptInv /\ ListedInv /\ DoneInv
  BY <1>1 DEF CallsInv, KeptInv, ListedInv, DoneInv, Running
<1> QED
  BY <1>3, <1>4, <1>5, <1>6, <1>7 DEF RInv

\* The invariant holds in every state of a repair.
LEMMA RInvHolds ==
  ASSUME ArchiveNamesFresh
  PROVE  RSpec => []RInv
<1>1. RInit => RInv
  BY RInvInit
<1>2. ASSUME RInv, [RNext]_reVars PROVE RInv'
  <2>1. CASE \E d \in FoundFiles : Damaged(d)
    BY <1>2, <2>1, DamagedKeeps
  <2>2. CASE \E n \in Numbers : ConvertLogToTable(n) \/ ScanTable(n)
    BY <1>2, <2>2, ConvertLogToTableKeeps, ScanTableKeeps
  <2>3. CASE FindFiles \/ ArchiveLog \/ LogsConverted \/ RepairTable \/ ArchiveTable \/ FinishCopy \/ RenameCopy
    BY <1>2, <2>3, FindFilesKeeps, ArchiveLogKeeps, LogsConvertedKeeps, RepairTableKeeps, ArchiveTableKeeps,
       FinishCopyKeeps, RenameCopyKeeps
  <2>4. CASE RemoveCopy \/ WriteDescriptor \/ ArchiveManifests \/ InstallDescriptor \/ MakeCurrent \/ RepairReturns
    BY <1>2, <2>4, RemoveCopyKeeps, WriteDescriptorKeeps, ArchiveManifestsKeeps, InstallDescriptorKeeps,
       MakeCurrentKeeps, RepairReturnsKeeps
  <2>5. CASE CrashInRepair \/ OpenRepaired
    BY <1>2, <2>5, CrashInRepairKeeps, OpenRepairedKeeps
  <2>6. CASE UNCHANGED reVars
    BY <1>2, <2>6 DEF reVars, RInv, RType, DirInv, NextInv, ListsInv, SourceInv, CopyInv, EntriesInv, NamesInv, CallsInv,
       KeptInv, FoundInv, ListedInv, DoneInv, Running, Copying, CopyMade, IsTable, Covered, InLost, InDir, InHand
  <2> QED
    BY <1>2, <2>1, <2>2, <2>3, <2>4, <2>5, <2>6 DEF RNext
<1> QED
  BY <1>1, <1>2, PTL DEF RSpec

-----------------------------------------------------------------------------

\* NothingReadableIsLost: whatever step of a repair fails and wherever it crashes,
\* what could be read before can be read from the directory or from lost/, and
\* still after DB::Open has removed the tables that are not listed, if no file
\* operation failed. For every directory, and for every number of files, failures
\* and repairs for which archived names are fresh.
THEOREM RepairLosesNothing ==
  ASSUME ArchiveNamesFresh
  PROVE  RSpec => []NothingReadableIsLost
<1>1. ASSUME RInv PROVE NothingReadableIsLost
  <2>0. RType /\ KeptInv /\ ListedInv /\ DoneInv
    BY <1>1 DEF RInv
  <2>1. ASSUME repairer.pc = "opened" => installed.ok, NEW x \in salvageable PROVE InDir(x) \/ InLost(x)
    <3>1. CASE repairer.pc # "opened"
      BY <2>0, <3>1 DEF KeptInv
    <3>2. CASE repairer.pc = "opened"
      BY <2>0, <2>1, <3>2, TypeFacts DEF ListedInv, DoneInv, InDir
    <3> QED
      BY <3>1, <3>2
  <2>2. \A x : InDir(x) => x \in ReadableIn(dir)
    BY DEF InDir, ReadableIn
  <2>3. DOMAIN lost = LostNames
    BY <2>0 DEF RType
  <2>4. \A x : InLost(x) => x \in UNION {lost[f] : f \in DOMAIN lost}
    BY <2>3 DEF InLost
  <2> QED
    BY <2>1, <2>2, <2>4 DEF NothingReadableIsLost
<1> QED
  BY <1>1, RInvHolds, PTL

\* RepairIsComplete: a repair in which nothing failed lists all it found readable,
\* and one that returns has put its counters above every file and every update.
THEOREM RepairListsAll ==
  ASSUME ArchiveNamesFresh
  PROVE  RSpec => []RepairIsComplete
<1>1. ASSUME RInv PROVE RepairIsComplete
  <2>0. RType /\ NextInv /\ ListsInv /\ FoundInv /\ ListedInv /\ DoneInv
    BY <1>1 DEF RInv
  <2>1. ASSUME repairer.pc = "done", repairer.ok, NEW x \in found PROVE \E n \in installed.tables : x \in dir[n].data
    <3>1. InHand(x)
      BY <2>0, <2>1 DEF FoundInv, Running
    <3>2. repairer.logs = {} /\ repairer.numbers = {} /\ installed.tables = repairer.tables
      BY <2>0, <2>1 DEF ListsInv, DoneInv, Running
    <3> QED
      BY <2>1, <3>1, <3>2 DEF InHand, Copying
  <2>2. repairer.pc = "done" /\ repairer.ok => found \subseteq UNION {dir[n].data : n \in installed.tables}
    BY <2>1
  <2>3. repairer.pc = "done" => \A n \in Numbers : dir[n].type # "none" => n < installed.next
    BY <2>0 DEF NextInv, DoneInv, Running
  <2>4. installed.valid => \A n \in installed.tables :
           n < installed.next /\ \A s \in dir[n].data : s <= installed.last
    BY <2>0 DEF ListedInv
  <2> QED
    BY <2>2, <2>3, <2>4 DEF RepairIsComplete
<1> QED
  BY <1>1, RInvHolds, PTL

-----------------------------------------------------------------------------
(* The log reader.                                                          *)

-----------------------------------------------------------------------------
(* The log: what its cells are, and in which order.                         *)

FragmentTypes == {"full", "first", "middle", "last"}

Cells == [kind : {"header", "data", "zero", "bad"}, rec : Nat, frag : Nat, at : Nat, len : Nat,
          type : FragmentTypes \cup {"zero"}]

Records == [start : Int, end : Int, frags : Nat]

Writers == [open : BOOLEAN, offset : Nat, rec : Nat, frag : Nat, left : Nat]

Written(p) == p \in 1 .. Len(log) /\ log[p].kind \in {"header", "data"}

LogType ==
    /\ log \in Seq(Cells) /\ added \in Seq(Records) /\ lw \in Writers
    /\ lw.offset <= kBlockSize
    /\ lw.rec # 0 => lw.rec = Len(added) /\ lw.frag > 0

CellsInv ==
    \A p \in 1 .. Len(log) : Written(p) =>
        /\ log[p].rec \in 1 .. Len(added) /\ log[p].frag > 0 /\ log[p].at > 0
        /\ log[p].type \in FragmentTypes /\ (log[p].frag = 1 <=> log[p].type \in {"full", "first"})

\* Cells are in the order of records, fragments and bytes, and nothing of a
\* record comes after its last fragment.
OrderInv ==
    \A p, q \in 1 .. Len(log) : Written(p) /\ Written(q) /\ p < q =>
        \/ log[p].rec < log[q].rec
        \/ log[p].rec = log[q].rec /\ log[p].frag < log[q].frag /\ log[p].type \in {"first", "middle"}
        \/ log[p].rec = log[q].rec /\ log[p].frag = log[q].frag /\ log[p].at < log[q].at

\* The last byte of a record says that the record is whole.
WholeInv ==
    \A p \in 1 .. Len(log) : Written(p) /\ log[p].type \in {"full", "last"} /\ log[p].at = kHeaderSize + log[p].len =>
        added[log[p].rec].frags = log[p].frag /\ added[log[p].rec].end = p

\* What stands right before a fragment that is not the first of its record is
\* of the fragment before it, but for a trailer.
BeforeInv ==
    \A p, q \in 1 .. Len(log) :
        Written(p) /\ Written(q) /\ log[p].at = 1 /\ log[p].frag > 1 /\ q < p /\ p - kHeaderSize <= q =>
            log[q].rec = log[p].rec /\ log[q].frag = log[p].frag - 1

\* The record that is being written.
WriterInv ==
    lw.rec # 0 =>
        /\ ~lr.on
        /\ \A p \in 1 .. Len(log) : Written(p) /\ log[p].rec = lw.rec =>
              log[p].frag < lw.frag /\ log[p].type \in {"first", "middle"}
        /\ lw.frag > 1 => \A q \in 1 .. Len(log) : Len(log) - kHeaderSize < q /\ Written(q) =>
              log[q].rec = lw.rec /\ log[q].frag = lw.frag - 1

WriteInv == LogType /\ CellsInv /\ OrderInv /\ WholeInv /\ BeforeInv /\ WriterInv

-----------------------------------------------------------------------------
(* The reader.                                                              *)

Pieces == [rec : Nat, frag : Nat, len : Nat]

Readers ==
    [on : {TRUE}, initial : Nat, lo : Nat, hi : Nat, eof : BOOLEAN, resyncing : BOOLEAN, in_fragmented : BOOLEAN,
     scratch : Seq(Pieces), out : Seq(Seq(Pieces)), reports : Nat, ioerror : BOOLEAN, done : BOOLEAN]

\* The pieces of one record, from its first on.
Consecutive(s) == Len(s) > 0 /\ \A j \in 1 .. Len(s) : s[j].rec = s[1].rec /\ s[j].frag = j

ReaderType == lr.on \in BOOLEAN /\ (lr.on => lr \in Readers /\ lr.lo <= lr.hi /\ (lr.lo < lr.hi => lr.hi <= Len(log)))

\* The pieces in scratch end where the reader is.
ScratchInv ==
    lr.on /\ lr.in_fragmented =>
        /\ ~lr.resyncing /\ Consecutive(lr.scratch)
        /\ Written(lr.lo) /\ log[lr.lo].rec = lr.scratch[1].rec /\ log[lr.lo].frag = Len(lr.scratch)

\* A record that was returned is whole and behind the reader.
Behind(r) ==
    \E p \in 1 .. Len(log) : /\ Written(p) /\ p <= lr.lo /\ log[p].rec = r
                             /\ log[p].type \in {"full", "last"} /\ log[p].at = kHeaderSize + log[p].len

OutInv ==
    lr.on => \A i \in 1 .. Len(lr.out) :
        /\ Consecutive(lr.out[i]) /\ added[lr.out[i][1].rec].frags = Len(lr.out[i]) /\ Behind(lr.out[i][1].rec)
        /\ \A j \in 1 .. Len(lr.out) : i < j => lr.out[i][1].rec < lr.out[j][1].rec

ReadInv == ReaderType /\ ScratchInv /\ OutInv

-----------------------------------------------------------------------------
(* What a turn of the writer's loop puts at the end of the file: a trailer  *)
(* of T zeros and a fragment, or a part of them.                            *)

LEMMA ConstFacts == /\ kHeaderSize \in Nat /\ kHeaderSize > 0 /\ kBlockSize \in Nat /\ kBlockSize > kHeaderSize
                    /\ Lengths \subseteq Nat /\ InitialOffsets \subseteq Nat
  BY LogFormatAssumption

FragmentCell(T, type, len, c, i) ==
    /\ i <= T => c.kind = "zero"
    /\ i > T => /\ c.kind = (IF i - T <= kHeaderSize THEN "header" ELSE "data")
                /\ c.rec = lw.rec /\ c.frag = lw.frag /\ c.at = i - T
                /\ c.len = len /\ c.type = type

\* b is trailer tr and a fragment.
TurnCells(tr, T, type, len, b) ==
    /\ b \in Seq(Cells) /\ Len(b) = T + kHeaderSize + len /\ Len(tr) = T
    /\ \A i \in 1 .. T + kHeaderSize + len : FragmentCell(T, type, len, b[i], i)

\* The bytes of a turn.
LEMMA TurnBytes ==
  ASSUME NEW T \in Nat, NEW len \in Nat, NEW type \in FragmentTypes, lw \in Writers,
         NEW tr, tr = [i \in 1 .. T |-> ZeroCell]
  PROVE  TurnCells(tr, T, type, len, tr \o PhysicalRecord(lw.rec, lw.frag, type, len))
<1> USE ConstFacts
<1>1. ZeroCell \in Cells /\ ZeroCell.kind = "zero"
  BY DEF ZeroCell, Cells
<1>2. tr \in Seq(Cells) /\ Len(tr) = T
  BY <1>1
<1> DEFINE ph == PhysicalRecord(lw.rec, lw.frag, type, len)
           n == kHeaderSize + len
<1>3. n \in Nat
  OBVIOUS
<1>4. \A i \in 1 .. n : /\ ph[i] \in Cells /\ ph[i].kind = (IF i <= kHeaderSize THEN "header" ELSE "data") /\ ph[i].rec = lw.rec
                        /\ ph[i].frag = lw.frag /\ ph[i].at = i /\ ph[i].len = len /\ ph[i].type = type
  BY DEF PhysicalRecord, Cells, Writers
<1>5. ph = [i \in 1 .. n |-> ph[i]]
  BY DEF PhysicalRecord
<1> HIDE DEF ph
<1>6. ph \in Seq(Cells) /\ Len(ph) = n
  BY <1>3, <1>4, <1>5
<1> DEFINE b == tr \o ph
<1>7. /\ b \in Seq(Cells) /\ Len(b) = T + n
      /\ \A i \in 1 .. T + n : b[i] = IF i <= T THEN tr[i] ELSE ph[i - T]
  <2>1. /\ tr \o ph \in Seq(Cells) /\ Len(tr \o ph) = Len(tr) + Len(ph)
        /\ \A i \in 1 .. Len(tr) + Len(ph) : (tr \o ph)[i] = IF i <= Len(tr) THEN tr[i] ELSE ph[i - Len(tr)]
    BY <1>2, <1>6, ConcatProperties, Zenon
  <2> HIDE DEF n
  <2> QED
    BY <1>2, <1>6, <2>1
<1> HIDE DEF b
<1>8. ASSUME NEW i \in 1 .. T + n PROVE FragmentCell(T, type, len, b[i], i)
  <2>1. CASE i <= T
    BY <1>1, <1>7, <2>1 DEF FragmentCell
  <2>2. CASE i > T
    <3>1. i - T \in 1 .. n /\ b[i] = ph[i - T]
      BY <1>3, <1>7, <2>2
    <3> HIDE DEF n
    <3> QED
      BY <1>4, <2>2, <3>1 DEF FragmentCell
  <2> QED
    BY <2>1, <2>2
<1> QED
  BY <1>2, <1>7, <1>8 DEF b, ph, TurnCells

\* The file grows to n bytes by a turn, or a part of one.
Grows(T, type, len, n) ==
    /\ log' \in Seq(Cells) /\ Len(log') = n /\ n >= Len(log) /\ n <= Len(log) + T + kHeaderSize + len
    /\ \A p \in 1 .. Len(log) : log'[p] = log[p]
    /\ \A p \in Len(log) + 1 .. n : FragmentCell(T, type, len, log'[p], p - Len(log))

LEMMA GrowsBy ==
  ASSUME log \in Seq(Cells), NEW T \in Nat, NEW len \in Nat, NEW type, NEW b \in Seq(Cells),
         Len(b) = T + kHeaderSize + len,
         \A i \in 1 .. T + kHeaderSize + len : FragmentCell(T, type, len, b[i], i)
  PROVE  /\ log' = log \o b => Grows(T, type, len, Len(log) + Len(b))
         /\ \A k \in 0 .. Len(b) - 1 : log' = log \o SubSeq(b, 1, k) => Grows(T, type, len, Len(log) + k)
<1> USE ConstFacts
<1>1. Len(log) \in Nat /\ Len(b) \in Nat
  BY LenProperties
<1>2. ASSUME NEW c \in Seq(Cells), Len(c) <= Len(b), \A i \in 1 .. Len(c) : c[i] = b[i], log' = log \o c
      PROVE  Grows(T, type, len, Len(log) + Len(c))
  <2>1. Len(c) \in Nat
    BY LenProperties
  <2>2. /\ log' \in Seq(Cells) /\ Len(log') = Len(log) + Len(c)
        /\ \A i \in 1 .. Len(log) + Len(c) : log'[i] = IF i <= Len(log) THEN log[i] ELSE c[i - Len(log)]
    BY <1>2, ConcatProperties
  <2>3. ASSUME NEW p \in Len(log) + 1 .. Len(log) + Len(c) PROVE FragmentCell(T, type, len, log'[p], p - Len(log))
    <3>1. p - Len(log) \in 1 .. Len(c) /\ log'[p] = c[p - Len(log)]
      BY <1>1, <2>1, <2>2
    <3>2. p - Len(log) \in 1 .. T + kHeaderSize + len
      BY <1>1, <1>2, <2>1, <3>1
    <3> QED
      BY <1>2, <3>1, <3>2
  <2>4. \A p \in 1 .. Len(log) : log'[p] = log[p]
    BY <1>1, <2>1, <2>2
  <2> QED
    BY <1>1, <1>2, <2>1, <2>2, <2>3, <2>4 DEF Grows
<1>3. ASSUME NEW k \in 0 .. Len(b) - 1, log' = log \o SubSeq(b, 1, k) PROVE Grows(T, type, len, Len(log) + k)
  <2> DEFINE c == SubSeq(b, 1, k)
  <2>1. \A i \in 1 .. k : b[i] \in Cells
    BY <1>1, ElementOfSeq
  <2>2. c \in Seq(Cells) /\ Len(c) = k /\ \A i \in 1 .. k : c[i] = b[i]
    BY <1>1, <2>1, SubSeqProperties
  <2>3. log' = log \o c
    BY <1>3
  <2> HIDE DEF c
  <2>4. Len(c) <= Len(b) /\ \A i \in 1 .. Len(c) : c[i] = b[i]
    BY <1>1, <2>2
  <2>5. Grows(T, type, len, Len(log) + Len(c))
    BY <1>2, <2>2, <2>3, <2>4
  <2> QED
    BY <2>2, <2>5
<1>4. ASSUME log' = log \o b PROVE Grows(T, type, len, Len(log) + Len(b))
  <2>1. Len(b) <= Len(b)
    BY <1>1
  <2> QED
    BY <1>2, <1>4, <2>1
<1> QED
  BY <1>3, <1>4

\* What a turn does to the record and to the writer.
TurnDone(T, type, len, next, n) ==
    /\ n = Len(log) + T + kHeaderSize + len /\ damaged' = damaged
    /\ \E s \in Int : /\ s = IF lw.frag = 1 THEN Len(log) + T ELSE added[lw.rec].start
                      /\ added' = [added EXCEPT ![lw.rec] = [start |-> s, end |-> n,
                                                             frags |-> IF type \in {"full", "last"} THEN lw.frag ELSE 0]]
    /\ lw' = IF type \in {"full", "last"} THEN IdleWriter(next)
             ELSE [lw EXCEPT !.offset = next, !.frag = @ + 1, !.left = @ - len]

TurnFailed(T, len, next, n) ==
    /\ n < Len(log) + T + kHeaderSize + len /\ added' = added /\ lw' = IdleWriter(next)
    /\ \E d \in damaged' : d.kind = "fail"

\* Where a fragment goes: into this block, or into the next one.
Placed(T, len, next) ==
    \/ T = 0 /\ lw.offset + kHeaderSize <= kBlockSize /\ next = lw.offset + kHeaderSize + len
    \/ T = kBlockSize - lw.offset /\ next = kHeaderSize + len

\* A turn of the loop of AddRecord in these terms.
LEMMA TurnOfWriter ==
  ASSUME LogType, EmitPhysicalRecord
  PROVE  \E T, len, next, n \in Nat : \E type \in FragmentTypes :
            /\ T < kHeaderSize /\ next <= kBlockSize /\ len <= lw.left /\ Placed(T, len, next)
            /\ lw.frag = 1 <=> type \in {"full", "first"}
            /\ Grows(T, type, len, n)
            /\ TurnDone(T, type, len, next, n) \/ TurnFailed(T, len, next, n)
<1> USE ConstFacts
<1>1. /\ lw \in Writers /\ log \in Seq(Cells) /\ added \in Seq(Records) /\ lw.offset \in Nat /\ lw.left \in Nat
      /\ lw.offset <= kBlockSize /\ lw.rec \in 1 .. Len(added) /\ lw.rec # 0 /\ Len(log) \in Nat /\ Len(added) \in Nat
  <2>1. lw.rec # 0
    BY DEF EmitPhysicalRecord
  <2>2. Len(log) \in Nat /\ Len(added) \in Nat
    BY LenProperties DEF LogType
  <2> QED
    BY <2>1, <2>2 DEF LogType, Writers
<1> DEFINE leftover == kBlockSize - lw.offset
           trailer == IF Trailer THEN [i \in 1 .. leftover |-> ZeroCell] ELSE <<>>
           T == IF Trailer THEN leftover ELSE 0
           offset == IF Trailer THEN 0 ELSE lw.offset
           avail == kBlockSize - offset - kHeaderSize
           len == IF lw.left < avail THEN lw.left ELSE avail
           end == lw.left = len
           type == IF lw.frag = 1 THEN IF end THEN "full" ELSE "first"
                   ELSE IF end THEN "last" ELSE "middle"
           bytes == trailer \o PhysicalRecord(lw.rec, lw.frag, type, len)
           start == IF lw.frag = 1 THEN Len(log) + Len(trailer) ELSE added[lw.rec].start
           next == offset + kHeaderSize + len
<1>2. T \in Nat /\ T < kHeaderSize /\ offset \in Nat /\ avail \in Nat
  BY <1>1 DEF Trailer
<1>3. len \in Nat /\ len <= lw.left /\ next \in Nat /\ next <= kBlockSize
  <2> HIDE DEF offset
  <2> QED
    BY <1>1, <1>2
<1>12. Placed(T, len, next)
  <2> HIDE DEF len
  <2> QED
    BY <1>1, <1>3 DEF Placed, Trailer
<1>4. /\ type \in FragmentTypes /\ (lw.frag = 1 <=> type \in {"full", "first"}) /\ (end <=> type \in {"full", "last"})
  BY DEF FragmentTypes
<1>5. trailer = [i \in 1 .. T |-> ZeroCell]
  <2>1. CASE Trailer
    BY <2>1
  <2>2. CASE ~Trailer
    <3>1. trailer = <<>> /\ T = 0
      BY <2>2
    <3>2. <<>> = [i \in 1 .. 0 |-> ZeroCell]
      OBVIOUS
    <3> QED
      BY <3>1, <3>2
  <2> QED
    BY <2>1, <2>2
<1>6. /\ bytes \in Seq(Cells) /\ Len(bytes) = T + kHeaderSize + len /\ Len(trailer) = T
      /\ \A i \in 1 .. T + kHeaderSize + len : FragmentCell(T, type, len, bytes[i], i)
  <2>1. PICK t : t = trailer
    OBVIOUS
  <2>2. PICK T0 \in Nat : T0 = T
    BY <1>2
  <2>3. PICK l0 \in Nat : l0 = len
    BY <1>3
  <2>4. PICK ty \in FragmentTypes : ty = type
    BY <1>4
  <2>5. t = [i \in 1 .. T0 |-> ZeroCell]
    BY <1>5, <2>1, <2>2
  <2>6. TurnCells(t, T0, ty, l0, t \o PhysicalRecord(lw.rec, lw.frag, ty, l0))
    BY <1>1, <2>5, TurnBytes
  <2> HIDE DEF T, len, type, trailer
  <2> QED
    BY <2>1, <2>2, <2>3, <2>4, <2>6 DEF TurnCells
<1>7. start \in Int
  <2>1. added[lw.rec] \in Records
    BY <1>1, ElementOfSeq
  <2>2. Len(log) + Len(trailer) \in Int
    <3> HIDE DEF trailer, T
    <3> QED
      BY <1>1, <1>2, <1>6
  <2>3. added[lw.rec].start \in Int
    BY <2>1 DEF Records
  <2> HIDE DEF trailer
  <2> QED
    BY <2>2, <2>3
<1>8. \/ /\ log' = log \o bytes
         /\ added' = [added EXCEPT ![lw.rec] = [start |-> start, end |-> Len(log) + Len(bytes),
                                                frags |-> IF end THEN lw.frag ELSE 0]]
         /\ lw' = IF end THEN IdleWriter(next)
                  ELSE [lw EXCEPT !.offset = next, !.frag = @ + 1, !.left = @ - len]
         /\ damaged' = damaged
      \/ /\ \E k \in 0 .. Len(bytes) - 1 : log' = log \o SubSeq(bytes, 1, k)
         /\ lw' = IdleWriter(next) /\ added' = added
         /\ \E d \in damaged' : d.kind = "fail"
  <2>1. \/ /\ log' = log \o bytes
           /\ added' = [added EXCEPT ![lw.rec] = [start |-> start, end |-> Len(log) + Len(bytes),
                                                  frags |-> IF end THEN lw.frag ELSE 0]]
           /\ lw' = IF end THEN IdleWriter(next)
                    ELSE [lw EXCEPT !.offset = next, !.frag = @ + 1, !.left = @ - len]
           /\ damaged' = damaged
        \/ /\ \E k \in 0 .. Len(bytes) - 1 :
                 /\ log' = log \o SubSeq(bytes, 1, k)
                 /\ damaged' = damaged \cup {[kind |-> "fail", first |-> Len(log), last |-> Len(log) + k]}
           /\ lw' = IdleWriter(next) /\ added' = added
    <3>1. \/ /\ log' = log \o bytes
             /\ added' = [added EXCEPT ![lw.rec] = [start |-> start, end |-> Len(log) + Len(bytes),
                                                    frags |-> IF end THEN lw.frag ELSE 0]]
             /\ lw' = IF end THEN IdleWriter(next)
                      ELSE [lw EXCEPT !.offset = next, !.frag = @ + 1, !.left = @ - len]
             /\ UNCHANGED damaged
          \/ /\ "fail" \in Damages /\ Cardinality(damaged) < MaxDamage
             /\ \E k \in 0 .. Len(bytes) - 1 :
                   /\ log' = log \o SubSeq(bytes, 1, k)
                   /\ damaged' = damaged \cup {[kind |-> "fail", first |-> Len(log), last |-> Len(log) + k]}
             /\ lw' = IdleWriter(next)
             /\ UNCHANGED added
      BY DEF EmitPhysicalRecord
    <3> HIDE DEF bytes, start, end, next, len
    <3> QED
      BY <3>1
  <2>2. \A k : damaged' = damaged \cup {[kind |-> "fail", first |-> Len(log), last |-> Len(log) + k]} =>
          \E d \in damaged' : d.kind = "fail"
    <3> SUFFICES ASSUME NEW k, NEW f, NEW l, damaged' = damaged \cup {[kind |-> "fail", first |-> f, last |-> l]}
                 PROVE  \E d \in damaged' : d.kind = "fail"
      OBVIOUS
    <3>1. [kind |-> "fail", first |-> f, last |-> l] \in damaged'
      OBVIOUS
    <3>2. [kind |-> "fail", first |-> f, last |-> l].kind = "fail"
      OBVIOUS
    <3> QED
      BY <3>1, <3>2
  <2> HIDE DEF bytes, start, end, next, len
  <2> QED
    BY <2>1, <2>2, Zenon
<1> HIDE DEF T, len, type, next, bytes, start, end
<1>9. /\ log' = log \o bytes => Grows(T, type, len, Len(log) + Len(bytes))
      /\ \A k \in 0 .. Len(bytes) - 1 : log' = log \o SubSeq(bytes, 1, k) => Grows(T, type, len, Len(log) + k)
  BY <1>1, <1>2, <1>3, <1>6, GrowsBy
<1>10. CASE /\ log' = log \o bytes
            /\ added' = [added EXCEPT ![lw.rec] = [start |-> start, end |-> Len(log) + Len(bytes),
                                                   frags |-> IF end THEN lw.frag ELSE 0]]
            /\ lw' = IF end THEN IdleWriter(next)
                     ELSE [lw EXCEPT !.offset = next, !.frag = @ + 1, !.left = @ - len]
            /\ damaged' = damaged
  <2> DEFINE n == Len(log) + Len(bytes)
  <2>1. n \in Nat /\ n = Len(log) + T + kHeaderSize + len
    BY <1>1, <1>2, <1>3, <1>6
  <2>2. Grows(T, type, len, n)
    BY <1>9, <1>10
  <2>3. TurnDone(T, type, len, next, n)
    <3>1. added' = [added EXCEPT ![lw.rec] = [start |-> start, end |-> n,
                                              frags |-> IF type \in {"full", "last"} THEN lw.frag ELSE 0]]
      BY <1>4, <1>10
    <3>2. lw' = IF type \in {"full", "last"} THEN IdleWriter(next)
                ELSE [lw EXCEPT !.offset = next, !.frag = @ + 1, !.left = @ - len]
      BY <1>4, <1>10
    <3>3. start = IF lw.frag = 1 THEN Len(log) + T ELSE added[lw.rec].start
      BY <1>6 DEF start
    <3>4. damaged' = damaged
      BY <1>10
    <3> HIDE DEF n
    <3> QED
      BY <1>7, <2>1, <3>1, <3>2, <3>3, <3>4 DEF TurnDone
  <2> HIDE DEF n
  <2> QED
    BY <1>2, <1>3, <1>4, <1>12, <2>1, <2>2, <2>3
<1>11. CASE /\ \E k \in 0 .. Len(bytes) - 1 : log' = log \o SubSeq(bytes, 1, k)
            /\ lw' = IdleWriter(next) /\ added' = added
            /\ \E d \in damaged' : d.kind = "fail"
  <2>1. PICK k \in 0 .. Len(bytes) - 1 : log' = log \o SubSeq(bytes, 1, k)
    BY <1>11
  <2> DEFINE n == Len(log) + k
  <2>2. n \in Nat /\ n < Len(log) + T + kHeaderSize + len
    BY <1>1, <1>2, <1>3, <1>6
  <2>3. Grows(T, type, len, n)
    BY <1>9, <2>1
  <2> HIDE DEF n
  <2>4. TurnFailed(T, len, next, n)
    BY <1>11, <2>2 DEF TurnFailed
  <2> QED
    BY <1>2, <1>3, <1>4, <1>12, <2>2, <2>3, <2>4
<1> QED
  BY <1>8, <1>10, <1>11

\* The cells after a turn: those there were, and those of the fragment.
OldCell(p) == p \in 1 .. Len(log) /\ Written(p) /\ log'[p] = log[p]

NewCell(T, type, len, n, p) ==
    /\ p \in Len(log) + T + 1 .. n
    /\ log'[p].rec = lw.rec /\ log'[p].frag = lw.frag /\ log'[p].at = p - Len(log) - T
    /\ log'[p].len = len /\ log'[p].type = type

LEMMA CellsOfTurn ==
  ASSUME log \in Seq(Cells), NEW T \in Nat, NEW len \in Nat, NEW n \in Nat, NEW type, Grows(T, type, len, n),
         NEW p, Written(p)'
  PROVE  p \in 1 .. n /\ (OldCell(p) \/ NewCell(T, type, len, n, p))
<1>1. Len(log) \in Nat /\ Len(log') = n
  BY LenProperties DEF Grows
<1>2. p \in 1 .. n /\ log'[p].kind \in {"header", "data"}
  BY <1>1 DEF Written
<1>3. CASE p <= Len(log)
  <2>1. p \in 1 .. Len(log) /\ log'[p] = log[p]
    BY <1>1, <1>2, <1>3 DEF Grows
  <2> QED
    BY <1>2, <2>1 DEF OldCell, Written
<1>4. CASE p > Len(log)
  <2>1. FragmentCell(T, type, len, log'[p], p - Len(log))
    BY <1>1, <1>2, <1>4 DEF Grows
  <2>2. ~(p - Len(log) <= T)
    BY <1>2, <2>1 DEF FragmentCell
  <2>3. p \in Len(log) + T + 1 .. n /\ p - Len(log) > T
    BY <1>1, <1>2, <2>2
  <2> QED
    BY <1>2, <2>1, <2>3 DEF FragmentCell, NewCell
<1> QED
  BY <1>1, <1>2, <1>3, <1>4

LEMMA LastByte ==
  ASSUME NEW a \in Nat, NEW b \in Nat, NEW h \in Nat, NEW len \in Nat, NEW n \in Nat, NEW p \in a + b + 1 .. n,
         p - a - b = h + len, n <= a + b + h + len
  PROVE  p = a + b + h + len /\ p = n
  OBVIOUS

\* A turn of AddRecord keeps the file in order.
LEMMA EmitStep ==
  ASSUME WriteInv, EmitPhysicalRecord
  PROVE  WriteInv'
<1> USE ConstFacts
<1>1. /\ log \in Seq(Cells) /\ added \in Seq(Records) /\ lw \in Writers
      /\ lw.rec = Len(added) /\ lw.rec # 0 /\ lw.rec \in Nat /\ lw.frag \in Nat /\ lw.frag > 0 /\ lw.left \in Nat
      /\ Len(log) \in Nat /\ Len(added) \in Nat /\ lw.rec \in 1 .. Len(added) /\ DOMAIN added = 1 .. Len(added)
  <2>1. lw.rec # 0
    BY DEF EmitPhysicalRecord
  <2>2. Len(log) \in Nat /\ Len(added) \in Nat /\ DOMAIN added = 1 .. Len(added)
    BY LenProperties DEF WriteInv, LogType
  <2> QED
    BY <2>1, <2>2 DEF WriteInv, LogType, Writers
<1>2. PICK T, len, next, n \in Nat : \E type \in FragmentTypes :
            /\ T < kHeaderSize /\ next <= kBlockSize /\ len <= lw.left
            /\ lw.frag = 1 <=> type \in {"full", "first"}
            /\ Grows(T, type, len, n)
            /\ TurnDone(T, type, len, next, n) \/ TurnFailed(T, len, next, n)
  BY TurnOfWriter DEF WriteInv
<1>3. PICK type \in FragmentTypes :
            /\ T < kHeaderSize /\ next <= kBlockSize /\ len <= lw.left
            /\ lw.frag = 1 <=> type \in {"full", "first"}
            /\ Grows(T, type, len, n)
            /\ TurnDone(T, type, len, next, n) \/ TurnFailed(T, len, next, n)
  BY <1>2
<1> USE <1>2, <1>3
<1>4. ASSUME NEW p, Written(p)' PROVE p \in 1 .. n /\ (OldCell(p) \/ NewCell(T, type, len, n, p))
  BY <1>1, <1>3, <1>4, CellsOfTurn
<1>5. log' \in Seq(Cells) /\ Len(log') = n
  BY <1>3 DEF Grows
<1>6. /\ added' \in Seq(Records) /\ Len(added') = Len(added)
      /\ \A r \in 1 .. Len(added) : r # lw.rec => added'[r] = added[r]
      /\ n = Len(log) + T + kHeaderSize + len /\ type \in {"full", "last"} =>
            added'[lw.rec].frags = lw.frag /\ added'[lw.rec].end = n
  <2>1. CASE TurnFailed(T, len, next, n)
    BY <1>1, <1>3, <2>1 DEF TurnFailed
  <2>2. CASE TurnDone(T, type, len, next, n)
    <3>1. PICK s \in Int : added' = [added EXCEPT ![lw.rec] = [start |-> s, end |-> n,
                                          frags |-> IF type \in {"full", "last"} THEN lw.frag ELSE 0]]
      BY <2>2 DEF TurnDone
    <3> DEFINE e == [start |-> s, end |-> n, frags |-> IF type \in {"full", "last"} THEN lw.frag ELSE 0]
    <3>2. e \in Records
      BY <1>1 DEF Records
    <3>3. type \in {"full", "last"} => e.frags = lw.frag /\ e.end = n
      OBVIOUS
    <3>4. added' = [added EXCEPT ![lw.rec] = e]
      BY <3>1
    <3> HIDE DEF e
    <3>5. added' \in Seq(Records) /\ Len(added') = Len(added)
      BY <1>1, <3>2, <3>4, ExceptSeq
    <3>6. added'[lw.rec] = e /\ \A r \in 1 .. Len(added) : r # lw.rec => added'[r] = added[r]
      BY <1>1, <3>4
    <3> QED
      BY <3>3, <3>5, <3>6
  <2> QED
    BY <1>3, <2>1, <2>2
<1>7. /\ lw' \in Writers /\ lw'.offset <= kBlockSize
      /\ lw'.rec # 0 => /\ lw'.rec = lw.rec /\ lw'.frag = lw.frag + 1 /\ type \in {"first", "middle"}
                        /\ n = Len(log) + T + kHeaderSize + len
  <2>1. IdleWriter(next) \in Writers /\ IdleWriter(next).offset = next /\ IdleWriter(next).rec = 0
    BY DEF IdleWriter, Writers
  <2>2. CASE TurnFailed(T, len, next, n) \/ (TurnDone(T, type, len, next, n) /\ type \in {"full", "last"})
    BY <1>3, <2>1, <2>2 DEF TurnFailed, TurnDone
  <2>3. CASE TurnDone(T, type, len, next, n) /\ type \notin {"full", "last"}
    <3>1. lw' = [lw EXCEPT !.offset = next, !.frag = @ + 1, !.left = @ - len]
      BY <2>3 DEF TurnDone
    <3>2. /\ lw'.open = lw.open /\ lw'.offset = next /\ lw'.rec = lw.rec
          /\ lw'.frag = lw.frag + 1 /\ lw'.left = lw.left - len /\ lw.left - len \in Nat
      BY <1>1, <1>3, <3>1 DEF Writers
    <3>3. lw' \in Writers
      <4>1. next \in Nat /\ lw.frag + 1 \in Nat /\ lw.left - len \in Nat
        BY <1>1, <3>2
      <4>2. lw' = [lw EXCEPT !.offset = next, !.frag = lw.frag + 1, !.left = lw.left - len]
        BY <3>1
      <4> QED
        BY <1>1, <4>1, <4>2, Zenon DEF Writers
    <3> QED
      BY <1>3, <2>3, <3>2, <3>3 DEF TurnDone, FragmentTypes
  <2> QED
    BY <1>3, <2>2, <2>3
<1>8. LogType'
  <2>1. lw'.rec # 0 => lw'.rec = Len(added') /\ lw'.frag > 0
    <3>1. lw.frag \in Nat /\ lw.frag + 1 > 0
      BY <1>1 DEF Writers
    <3>2. lw.rec = Len(added) /\ Len(added') = Len(added)
      BY <1>1, <1>6
    <3> QED
      BY <1>7, <3>1, <3>2
  <2> QED
    BY <1>5, <1>6, <1>7, <2>1, Zenon DEF LogType
<1>9. CellsInv'
  <2> SUFFICES ASSUME NEW p \in 1 .. Len(log'), Written(p)'
               PROVE  /\ log'[p].rec \in 1 .. Len(added') /\ log'[p].frag > 0 /\ log'[p].at > 0
                      /\ log'[p].type \in FragmentTypes /\ (log'[p].frag = 1 <=> log'[p].type \in {"full", "first"})
    BY DEF CellsInv
  <2>1. CASE OldCell(p)
    BY <1>6, <2>1 DEF OldCell, WriteInv, CellsInv
  <2>2. CASE NewCell(T, type, len, n, p)
    <3>1. /\ log'[p].rec = lw.rec /\ log'[p].frag = lw.frag /\ log'[p].at = p - Len(log) - T
          /\ log'[p].type = type /\ p \in Len(log) + T + 1 .. n
      BY <2>2 DEF NewCell
    <3>2. p - Len(log) - T > 0
      BY <1>1, <3>1
    <3>3. log'[p].rec \in 1 .. Len(added')
      BY <1>1, <1>6, <3>1
    <3> QED
      BY <1>1, <1>3, <3>1, <3>2, <3>3
  <2> QED
    BY <1>4, <2>1, <2>2
<1>10. OrderInv'
  <2> SUFFICES ASSUME NEW p \in 1 .. Len(log'), NEW q \in 1 .. Len(log'), Written(p)', Written(q)', p < q
               PROVE  \/ log'[p].rec < log'[q].rec
                      \/ /\ log'[p].rec = log'[q].rec /\ log'[p].frag < log'[q].frag
                         /\ log'[p].type \in {"first", "middle"}
                      \/ log'[p].rec = log'[q].rec /\ log'[p].frag = log'[q].frag /\ log'[p].at < log'[q].at
    BY DEF OrderInv
  <2>1. CASE OldCell(p) /\ OldCell(q)
    BY <2>1 DEF OldCell, WriteInv, OrderInv
  <2>2. CASE OldCell(p) /\ NewCell(T, type, len, n, q)
    <3>1. log[p].rec \in 1 .. Len(added) /\ log'[p] = log[p] /\ p \in 1 .. Len(log) /\ Written(p)
      BY <2>2 DEF OldCell, WriteInv, CellsInv
    <3>2. log[p].rec = lw.rec => log[p].frag < lw.frag /\ log[p].type \in {"first", "middle"}
      BY <1>1, <3>1 DEF WriteInv, WriterInv
    <3>3. log'[q].rec = lw.rec /\ log'[q].frag = lw.frag
      BY <2>2 DEF NewCell
    <3> QED
      BY <1>1, <3>1, <3>2, <3>3
  <2>3. CASE NewCell(T, type, len, n, p) /\ OldCell(q)
    BY <1>1, <2>3 DEF NewCell, OldCell
  <2>4. CASE NewCell(T, type, len, n, p) /\ NewCell(T, type, len, n, q)
    BY <1>1, <2>4 DEF NewCell
  <2> QED
    BY <1>4, <2>1, <2>2, <2>3, <2>4
<1>11. WholeInv'
  <2> SUFFICES ASSUME NEW p \in 1 .. Len(log'), Written(p)', log'[p].type \in {"full", "last"},
                      log'[p].at = kHeaderSize + log'[p].len
               PROVE  added'[log'[p].rec].frags = log'[p].frag /\ added'[log'[p].rec].end = p
    BY DEF WholeInv
  <2>1. CASE OldCell(p)
    <3>1. /\ log[p].rec \in 1 .. Len(added) /\ log'[p] = log[p] /\ p \in 1 .. Len(log) /\ Written(p)
          /\ added[log[p].rec].frags = log[p].frag /\ added[log[p].rec].end = p
      BY <2>1 DEF OldCell, WriteInv, CellsInv, WholeInv
    <3>2. log[p].rec # lw.rec
      BY <1>1, <3>1 DEF WriteInv, WriterInv
    <3> QED
      BY <1>6, <3>1, <3>2
  <2>2. CASE NewCell(T, type, len, n, p)
    <3>1. p = Len(log) + T + kHeaderSize + len /\ p = n
      <4>1. p - Len(log) - T = kHeaderSize + len /\ p \in Len(log) + T + 1 .. n
        BY <2>2 DEF NewCell
      <4>2. n <= Len(log) + T + kHeaderSize + len
        BY <1>3 DEF Grows
      <4> QED
        BY <1>1, <4>1, <4>2, LastByte, Zenon
    <3> QED
      BY <1>6, <2>2, <3>1 DEF NewCell
  <2> QED
    BY <1>4, <2>1, <2>2
<1>12. BeforeInv'
  <2> SUFFICES ASSUME NEW p \in 1 .. Len(log'), NEW q \in 1 .. Len(log'), Written(p)', Written(q)',
                      log'[p].at = 1, log'[p].frag > 1, q < p, p - kHeaderSize <= q
               PROVE  log'[q].rec = log'[p].rec /\ log'[q].frag = log'[p].frag - 1
    BY DEF BeforeInv
  <2>1. CASE OldCell(p) /\ OldCell(q)
    BY <2>1 DEF OldCell, WriteInv, BeforeInv
  <2>2. CASE OldCell(p) /\ NewCell(T, type, len, n, q)
    BY <1>1, <2>2 DEF OldCell, NewCell
  <2>3. CASE NewCell(T, type, len, n, p)
    <3>1. p = Len(log) + T + 1 /\ log'[p].rec = lw.rec /\ log'[p].frag = lw.frag /\ lw.frag > 1
      <4>1. /\ log'[p].rec = lw.rec /\ log'[p].frag = lw.frag /\ p - Len(log) - T = 1
            /\ p \in Len(log) + T + 1 .. n
        BY <2>3 DEF NewCell
      <4>2. p = Len(log) + T + 1
        BY <1>1, <4>1
      <4> QED
        BY <4>1, <4>2
    <3>2. ~NewCell(T, type, len, n, q)
      BY <1>1, <3>1 DEF NewCell
    <3>3. q \in 1 .. Len(log) /\ Written(q) /\ log'[q] = log[q]
      BY <1>4, <3>2 DEF OldCell
    <3>4. Len(log) - kHeaderSize < q
      BY <1>1, <3>1, <3>3
    <3> QED
      BY <1>1, <3>1, <3>3, <3>4 DEF WriteInv, WriterInv
  <2> QED
    BY <1>4, <2>1, <2>2, <2>3
<1>13. WriterInv'
  <2> SUFFICES ASSUME lw'.rec # 0
               PROVE  /\ ~lr'.on
                      /\ \A p \in 1 .. Len(log') : Written(p)' /\ log'[p].rec = lw'.rec =>
                            log'[p].frag < lw'.frag /\ log'[p].type \in {"first", "middle"}
                      /\ lw'.frag > 1 => \A q \in 1 .. Len(log') : Len(log') - kHeaderSize < q /\ Written(q)' =>
                            log'[q].rec = lw'.rec /\ log'[q].frag = lw'.frag - 1
    BY DEF WriterInv
  <2>0. /\ lw'.rec = lw.rec /\ lw'.frag = lw.frag + 1 /\ type \in {"first", "middle"}
        /\ n = Len(log) + T + kHeaderSize + len
    BY <1>7
  <2>1. ~lr'.on
    BY <1>1 DEF EmitPhysicalRecord, WriteInv, WriterInv
  <2>2. ASSUME NEW p \in 1 .. Len(log'), Written(p)', log'[p].rec = lw'.rec
        PROVE  log'[p].frag < lw'.frag /\ log'[p].type \in {"first", "middle"}
    <3>1. CASE OldCell(p)
      <4>1. log[p].frag < lw.frag /\ log[p].type \in {"first", "middle"} /\ log'[p] = log[p]
        BY <1>1, <2>0, <2>2, <3>1 DEF OldCell, WriteInv, WriterInv
      <4>2. log[p] \in Cells
        BY <1>1, <3>1, ElementOfSeq DEF OldCell
      <4>3. log[p].frag \in Nat
        BY <4>2 DEF Cells
      <4> QED
        BY <1>1, <2>0, <4>1, <4>3
    <3>2. CASE NewCell(T, type, len, n, p)
      BY <1>1, <2>0, <3>2 DEF NewCell
    <3> QED
      BY <1>4, <2>2, <3>1, <3>2
  <2>3. ASSUME NEW q \in 1 .. Len(log'), Len(log') - kHeaderSize < q, Written(q)'
        PROVE  log'[q].rec = lw'.rec /\ log'[q].frag = lw'.frag - 1
    <3>1. q > Len(log)
      BY <1>1, <1>5, <2>0, <2>3
    <3>2. NewCell(T, type, len, n, q)
      BY <1>1, <1>4, <2>3, <3>1 DEF OldCell
    <3> QED
      BY <1>1, <2>0, <3>2 DEF NewCell
  <2> QED
    BY <2>1, <2>2, <2>3
<1> QED
  BY <1>8, <1>9, <1>10, <1>11, <1>12, <1>13 DEF WriteInv

\* What is left of the file is as it was.
Remains ==
    /\ log' \in Seq(Cells) /\ added' \in Seq(Records) /\ Len(added') = Len(added)
    /\ lw' \in Writers /\ lw'.offset <= kBlockSize /\ lw'.rec = 0
    /\ \A p \in 1 .. Len(log') : Written(p)' =>
          /\ Written(p) /\ log'[p] = log[p]
          /\ added[log[p].rec].end = p => added'[log[p].rec] = added[log[p].rec]

LEMMA RemainsStep ==
  ASSUME WriteInv, Remains
  PROVE  WriteInv'
<1>1. LogType'
  BY Zenon DEF Remains, LogType
<1>2. ASSUME NEW p \in 1 .. Len(log'), Written(p)' PROVE p \in 1 .. Len(log) /\ Written(p) /\ log'[p] = log[p]
  BY <1>2, Zenon DEF Remains, Written
<1>3. CellsInv'
  BY <1>2 DEF CellsInv, Remains, WriteInv
<1>4. OrderInv'
  BY <1>2 DEF OrderInv, WriteInv
<1>5. WholeInv'
  BY <1>2 DEF WholeInv, WriteInv, Remains
<1>6. BeforeInv'
  BY <1>2 DEF BeforeInv, WriteInv
<1>7. WriterInv'
  BY DEF WriterInv, Remains
<1> QED
  BY <1>1, <1>3, <1>4, <1>5, <1>6, <1>7 DEF WriteInv

LEMMA CutStep ==
  ASSUME WriteInv, NEW k \in 0 .. Len(log), Cut(k)
  PROVE  WriteInv'
<1> USE ConstFacts
<1>1. log \in Seq(Cells) /\ added \in Seq(Records) /\ Len(log) \in Nat /\ Len(added) \in Nat /\ k \in Nat
  BY LenProperties DEF WriteInv, LogType
<1>2. log' = SubSeq(log, 1, k) /\ added' = Kept(k) /\ lw' = [IdleWriter(k % kBlockSize) EXCEPT !.open = "reopen" \in Damages]
  BY DEF Cut
<1>3. log' \in Seq(Cells) /\ Len(log') = k /\ \A p \in 1 .. k : log'[p] = log[p]
  <2>1. \A p \in 1 .. k : log[p] \in Cells
    BY <1>1, ElementOfSeq
  <2> QED
    BY <1>1, <1>2, <2>1, SubSeqProperties
<1>4. /\ added' \in Seq(Records) /\ Len(added') = Len(added)
      /\ \A r \in 1 .. Len(added) : added[r].end <= k => added'[r] = added[r]
  <2>1. \A r \in 1 .. Len(added) : added[r] \in Records /\ [added[r] EXCEPT !.frags = 0] \in Records
    <3> SUFFICES ASSUME NEW r \in 1 .. Len(added)
                 PROVE  added[r] \in Records /\ [added[r] EXCEPT !.frags = 0] \in Records
      OBVIOUS
    <3>1. added[r] \in Records
      BY <1>1, ElementOfSeq
    <3> QED
      BY <3>1 DEF Records
  <2>2. added' = [r \in 1 .. Len(added) |-> IF added[r].end <= k THEN added[r] ELSE [added[r] EXCEPT !.frags = 0]]
    BY <1>2 DEF Kept
  <2>3. \A r \in 1 .. Len(added) : added'[r] \in Records
    BY <2>1, <2>2
  <2> QED
    BY <1>1, <2>2, <2>3
<1>5. lw' \in Writers /\ lw'.offset <= kBlockSize /\ lw'.rec = 0
  <2>1. k % kBlockSize \in Nat /\ k % kBlockSize <= kBlockSize
    BY <1>1
  <2>2. lw' = [open |-> "reopen" \in Damages, offset |-> k % kBlockSize, rec |-> 0, frag |-> 0, left |-> 0]
    BY <1>2 DEF IdleWriter
  <2> QED
    BY <2>1, <2>2 DEF Writers
<1>6. ASSUME NEW p \in 1 .. Len(log'), Written(p)'
      PROVE  /\ Written(p) /\ log'[p] = log[p]
             /\ added[log[p].rec].end = p => added'[log[p].rec] = added[log[p].rec]
  <2>1. p \in 1 .. Len(log) /\ p <= k /\ log'[p] = log[p]
    BY <1>1, <1>3
  <2>2. Written(p)
    BY <1>6, <2>1 DEF Written
  <2>3. log[p].rec \in 1 .. Len(added)
    BY <2>1, <2>2 DEF WriteInv, CellsInv
  <2> QED
    BY <1>4, <2>1, <2>2, <2>3
<1>7. Remains
  BY <1>3, <1>4, <1>5, <1>6 DEF Remains
<1> QED
  BY <1>7, RemainsStep

\* Damage to cells of the file.
LEMMA DamageStep ==
  ASSUME WriteInv, log' \in Seq(Cells), Len(log') = Len(log), UNCHANGED added, lw.rec = 0,
         \A p \in 1 .. Len(log) : log'[p] = log[p] \/ log'[p].kind \in {"zero", "bad"},
         lw' = [lw EXCEPT !.open = FALSE]
  PROVE  WriteInv'
<1>1. added \in Seq(Records) /\ lw \in Writers /\ lw.offset <= kBlockSize
  BY DEF WriteInv, LogType
<1>2. lw' \in Writers /\ lw'.offset <= kBlockSize /\ lw'.rec = 0
  BY <1>1 DEF Writers
<1>3. ASSUME NEW p \in 1 .. Len(log'), Written(p)' PROVE Written(p) /\ log'[p] = log[p]
  BY <1>3 DEF Written
<1>4. Remains
  BY <1>1, <1>2, <1>3 DEF Remains
<1> QED
  BY <1>4, RemainsStep

LEMMA FlipStep ==
  ASSUME WriteInv, NEW p \in 1 .. Len(log), Flip(p)
  PROVE  WriteInv'
<1>1. log \in Seq(Cells) /\ Len(log) \in Nat
  BY LenProperties DEF WriteInv, LogType
<1>2. BadCell \in Cells /\ BadCell.kind = "bad"
  BY DEF BadCell, ZeroCell, Cells
<1>3. log' = [log EXCEPT ![p] = BadCell] /\ UNCHANGED added /\ lw.rec = 0 /\ lw' = [lw EXCEPT !.open = FALSE]
  BY DEF Flip
<1>4. log' \in Seq(Cells) /\ Len(log') = Len(log)
  BY <1>1, <1>2, <1>3, ExceptSeq
<1>5. ASSUME NEW q \in 1 .. Len(log) PROVE log'[q] = log[q] \/ log'[q].kind \in {"zero", "bad"}
  BY <1>1, <1>2, <1>3
<1> QED
  BY <1>3, <1>4, <1>5, DamageStep

LEMMA ZeroStep ==
  ASSUME WriteInv, NEW p \in 1 .. Len(log), NEW q \in p .. Len(log), Zero(p, q)
  PROVE  WriteInv'
<1>1. log \in Seq(Cells) /\ Len(log) \in Nat
  BY LenProperties DEF WriteInv, LogType
<1>2. ZeroCell \in Cells /\ ZeroCell.kind = "zero"
  BY DEF ZeroCell, Cells
<1>3. /\ log' = [i \in 1 .. Len(log) |-> IF i \in p .. q THEN ZeroCell ELSE log[i]]
      /\ UNCHANGED added /\ lw.rec = 0 /\ lw' = [lw EXCEPT !.open = FALSE]
  BY DEF Zero
<1>4. \A i \in 1 .. Len(log) : log[i] \in Cells
  BY <1>1, ElementOfSeq
<1>5. \A i \in 1 .. Len(log) : /\ (IF i \in p .. q THEN ZeroCell ELSE log[i]) \in Cells
                               /\ log'[i] = log[i] \/ log'[i].kind \in {"zero", "bad"}
  BY <1>2, <1>3, <1>4
<1>6. log' \in Seq(Cells) /\ Len(log') = Len(log)
  BY <1>1, <1>3, <1>5
<1> QED
  BY <1>3, <1>5, <1>6, DamageStep

LEMMA AddRecordStep ==
  ASSUME WriteInv, NEW k \in Lengths, WriterAddRecord(k)
  PROVE  WriteInv'
<1> USE ConstFacts
<1>1. /\ log \in Seq(Cells) /\ Len(log) \in Nat /\ added \in Seq(Records) /\ Len(added) \in Nat
      /\ lw \in Writers /\ lw.offset <= kBlockSize /\ k \in Nat
  BY LenProperties DEF WriteInv, LogType
<1>2. /\ ~lr'.on /\ log' = log /\ added' = Append(added, [start |-> -1, end |-> -1, frags |-> 0])
      /\ lw' = [lw EXCEPT !.rec = Len(added) + 1, !.frag = 1, !.left = k]
  BY DEF WriterAddRecord
<1>3. [start |-> -1, end |-> -1, frags |-> 0] \in Records
  BY DEF Records
<1>4. /\ added' \in Seq(Records) /\ Len(added') = Len(added) + 1
      /\ \A r \in 1 .. Len(added) : added'[r] = added[r]
  BY <1>1, <1>2, <1>3, AppendProperties
<1>5. lw' \in Writers /\ lw'.offset <= kBlockSize /\ lw'.rec = Len(added) + 1 /\ lw'.frag = 1
  <2>1. Len(added) + 1 \in Nat /\ 1 \in Nat
    BY <1>1
  <2>2. lw' \in Writers
    BY <1>1, <1>2, <2>1, Zenon DEF Writers
  <2>3. lw'.offset = lw.offset /\ lw'.rec = Len(added) + 1 /\ lw'.frag = 1
    BY <1>1, <1>2 DEF Writers
  <2> QED
    BY <1>1, <2>2, <2>3
<1>6. \A p : Written(p)' <=> Written(p)
  BY <1>2 DEF Written
<1>7. LogType'
  <2>1. lw'.rec # 0 => lw'.rec = Len(added') /\ lw'.frag > 0
    BY <1>1, <1>4, <1>5
  <2> QED
    BY <1>1, <1>2, <1>4, <1>5, <2>1, Zenon DEF LogType
<1>8. \A p \in 1 .. Len(log) : Written(p) => log[p].rec \in 1 .. Len(added)
  BY DEF WriteInv, CellsInv
<1>9. CellsInv'
  <2>1. \A r \in 1 .. Len(added) : r \in 1 .. Len(added')
    BY <1>1, <1>4
  <2> QED
    BY <1>2, <1>6, <1>8, <2>1 DEF WriteInv, CellsInv
<1>10. OrderInv'
  BY <1>2, <1>6 DEF WriteInv, OrderInv
<1>11. WholeInv'
  BY <1>2, <1>4, <1>6, <1>8 DEF WriteInv, WholeInv
<1>12. BeforeInv'
  BY <1>2, <1>6 DEF WriteInv, BeforeInv
<1>13. WriterInv'
  <2>1. \A p \in 1 .. Len(log') : Written(p)' => log'[p].rec # lw'.rec
    BY <1>1, <1>2, <1>5, <1>6, <1>8
  <2> QED
    BY <1>2, <1>5, <2>1 DEF WriterInv
<1> QED
  BY <1>7, <1>9, <1>10, <1>11, <1>12, <1>13 DEF WriteInv

\* A reader leaves the file alone.
LEMMA ReaderStep ==
  ASSUME WriteInv, UNCHANGED <<log, lw, added>>, lw.rec = 0 \/ lr'.on = lr.on
  PROVE  WriteInv'
<1>1. log' = log /\ lw' = lw /\ added' = added /\ \A p : Written(p)' <=> Written(p)
  BY DEF Written
<1>2. WriterInv'
  BY <1>1 DEF WriteInv, WriterInv
<1>3. LogType'
  BY <1>1 DEF WriteInv, LogType
<1>4. CellsInv'
  BY <1>1 DEF WriteInv, CellsInv
<1>5. OrderInv'
  BY <1>1 DEF WriteInv, OrderInv
<1>6. WholeInv'
  BY <1>1 DEF WriteInv, WholeInv
<1>7. BeforeInv'
  BY <1>1 DEF WriteInv, BeforeInv
<1> QED
  BY <1>2, <1>3, <1>4, <1>5, <1>6, <1>7 DEF WriteInv

-----------------------------------------------------------------------------
(* The reader: what ReadPhysicalRecord may find.                            *)

\* s is r with another buffer, or with more reports.
Same(r, s) ==
    /\ s \in Readers /\ s.initial = r.initial /\ s.resyncing = r.resyncing /\ s.in_fragmented = r.in_fragmented
    /\ s.scratch = r.scratch /\ s.out = r.out /\ s.done = r.done /\ (r.ioerror => s.ioerror)

\* The buffer is a part of the file, at or after where it was.
Buffer(s) == lr.lo <= s.lo /\ s.lo <= s.hi /\ (s.lo < s.hi => s.hi <= Len(log))

LEMMA ReportDropSame ==
  ASSUME NEW r \in Readers, NEW n
  PROVE  /\ Same(r, ReportDrop(r, n)) /\ ReportDrop(r, n).lo = r.lo /\ ReportDrop(r, n).hi = r.hi
         /\ ReportDrop(r, n).eof = r.eof /\ ReportDrop(r, n).ioerror = r.ioerror
<1>1. PICK m : m = r.reports + IF r.lo - n \in 0 .. r.initial - 1 THEN 0 ELSE 1
  OBVIOUS
<1>2. m \in Nat
  BY <1>1 DEF Readers
<1>3. ReportDrop(r, n) = [r EXCEPT !.reports = m]
  BY <1>1 DEF ReportDrop
<1> QED
  BY <1>2, <1>3 DEF Same, Readers

LEMMA ClearedSame ==
  ASSUME NEW r \in Readers
  PROVE  Same(r, Cleared(r)) /\ Cleared(r).lo = r.hi /\ Cleared(r).hi = r.hi
  BY DEF Cleared, Same, Readers

LEMMA SameTrans ==
  ASSUME NEW r, NEW s, NEW t, Same(r, s), Same(s, t)
  PROVE  Same(r, t)
  BY DEF Same

LEMMA RefilledSame ==
  ASSUME log \in Seq(Cells), lr \in Readers, Buffer(lr)
  PROVE  /\ Same(lr, Refilled(lr)) /\ Buffer(Refilled(lr)) /\ Refilled(lr).lo < lr.lo + kHeaderSize
<1> USE ConstFacts
<1>1. Len(log) \in Nat
  BY LenProperties
<1>2. lr.lo \in Nat /\ lr.hi \in Nat /\ lr.eof \in BOOLEAN /\ lr.lo <= lr.hi
  BY DEF Readers, Buffer
<1>3. CASE lr.hi - lr.lo >= kHeaderSize \/ lr.eof
  <2>1. Refilled(lr) = lr
    BY <1>3 DEF Refilled
  <2>2. lr.lo < lr.lo + kHeaderSize
    BY <1>2
  <2> QED
    BY <2>1, <2>2 DEF Same
<1>4. CASE ~(lr.hi - lr.lo >= kHeaderSize \/ lr.eof)
  <2>1. PICK n : n = IF Len(log) - lr.hi < 0 THEN 0
                     ELSE IF Len(log) - lr.hi < kBlockSize THEN Len(log) - lr.hi ELSE kBlockSize
    OBVIOUS
  <2>2. n \in Nat /\ (n > 0 => lr.hi + n <= Len(log))
    BY <1>1, <1>2, <2>1
  <2>3. Refilled(lr) = [lr EXCEPT !.lo = lr.hi, !.hi = lr.hi + n, !.eof = n < kBlockSize]
    BY <1>4, <2>1 DEF Refilled
  <2>4. lr.hi + n \in Nat /\ (n < kBlockSize) \in BOOLEAN
    BY <1>2, <2>2
  <2>5. Refilled(lr) \in Readers
    BY <1>2, <2>3, <2>4, Zenon DEF Readers
  <2>6. Refilled(lr).lo = lr.hi /\ Refilled(lr).hi = lr.hi + n
    BY <2>3 DEF Readers
  <2>7. Same(lr, Refilled(lr))
    BY <2>3, <2>5 DEF Same, Readers
  <2>8. lr.hi < lr.lo + kHeaderSize
    BY <1>2, <1>4
  <2> QED
    BY <1>1, <1>2, <2>2, <2>6, <2>7, <2>8 DEF Buffer
<1> QED
  BY <1>3, <1>4

\* A fragment as written stands in the file between the old and the new place
\* of the reader.
Found(p) ==
    /\ p.rec \in Nat /\ p.frag \in Nat /\ p.len \in Nat /\ p.type \in FragmentTypes
    /\ p.r.lo \in 1 .. Len(log) /\ Written(p.r.lo)
    /\ log[p.r.lo].rec = p.rec /\ log[p.r.lo].frag = p.frag /\ log[p.r.lo].type = p.type
    /\ log[p.r.lo].at = kHeaderSize + log[p.r.lo].len
    /\ \E q \in 1 .. Len(log) : /\ lr.lo < q /\ q <= lr.lo + kHeaderSize /\ Written(q)
                                /\ log[q].rec = p.rec /\ log[q].frag = p.frag /\ log[q].type = p.type /\ log[q].at = 1

Outcome(p) == Same(lr, p.r) /\ Buffer(p.r) /\ (p.type \in {"bad", "eof"} \/ Found(p))

LEMMA FragmentEnd ==
  ASSUME NEW old \in Nat, NEW lo \in Nat, NEW hi \in Nat, NEW n \in Nat, NEW h \in Nat, NEW len \in Nat, h > 0,
         old <= lo, hi <= n, h + len <= hi - lo
  PROVE  /\ lo + h + len \in Nat /\ lo + h + len \in 1 .. n /\ lo + h + len <= hi /\ old <= lo + h + len
         /\ lo < lo + h + len
  OBVIOUS

LEMMA IntactFound ==
  ASSUME log \in Seq(Cells), CellsInv, lr \in Readers, NEW r \in Readers, Buffer(r), r.lo < lr.lo + kHeaderSize,
         r.hi - r.lo >= kHeaderSize, Intact(r)
  PROVE  LET h == Cell(r, 1)
             s == [r EXCEPT !.lo = @ + kHeaderSize + h.len]
         IN  /\ Same(r, s) /\ Buffer(s)
             /\ Found([type |-> h.type, rec |-> h.rec, frag |-> h.frag, len |-> h.len, r |-> s])
<1> USE ConstFacts
<1>1. Len(log) \in Nat /\ r.lo \in Nat /\ r.hi \in Nat /\ lr.lo \in Nat /\ lr.lo <= r.lo /\ r.hi <= Len(log)
  <2>1. Len(log) \in Nat /\ r.lo \in Nat /\ r.hi \in Nat /\ lr.lo \in Nat
    BY LenProperties DEF Readers
  <2>2. r.lo < r.hi
    BY <2>1
  <2> QED
    BY <2>1, <2>2 DEF Buffer
<1>2. PICK h : h = Cell(r, 1)
  OBVIOUS
<1>3. r.lo + 1 \in 1 .. Len(log) /\ h = log[r.lo + 1]
  BY <1>1, <1>2 DEF Cell
<1>4. h \in Cells
  BY <1>3, ElementOfSeq
<1>5. h.len \in Nat /\ h.rec \in Nat /\ h.frag \in Nat
  BY <1>4 DEF Cells
<1>6. /\ h.kind = "header" /\ h.at = 1 /\ kHeaderSize + h.len <= r.hi - r.lo
      /\ \A i \in 1 .. kHeaderSize + h.len :
            log[r.lo + i] = [h EXCEPT !.at = i, !.kind = IF i <= kHeaderSize THEN "header" ELSE "data"]
  BY <1>2 DEF Intact, Cell
<1>7. Written(r.lo + 1)
  BY <1>3, <1>6 DEF Written
<1>8. h.type \in FragmentTypes
  BY <1>3, <1>7 DEF CellsInv
<1> DEFINE s == [r EXCEPT !.lo = @ + kHeaderSize + h.len]
           e == r.lo + kHeaderSize + h.len
<1>9. e \in Nat /\ e \in 1 .. Len(log) /\ e <= r.hi /\ lr.lo <= e /\ r.lo < e
  <2>1. kHeaderSize + h.len <= r.hi - r.lo
    BY <1>6
  <2>2. PICK len \in Nat : len = h.len
    BY <1>5
  <2>3. PICK lo \in Nat : lo = r.lo
    BY <1>1
  <2>4. PICK hi \in Nat : hi = r.hi
    BY <1>1
  <2>5. /\ lo + kHeaderSize + len \in Nat /\ lo + kHeaderSize + len \in 1 .. Len(log)
        /\ lo + kHeaderSize + len <= hi /\ lr.lo <= lo + kHeaderSize + len /\ lo < lo + kHeaderSize + len
    BY <1>1, <2>1, <2>2, <2>3, <2>4, FragmentEnd
  <2> QED
    BY <2>2, <2>3, <2>4, <2>5
<1>10. s = [r EXCEPT !.lo = e]
  OBVIOUS
<1>11. s \in Readers /\ s.lo = e /\ s.hi = r.hi /\ Same(r, s)
  <2> HIDE DEF e, s
  <2>1. s \in Readers
    BY <1>9, <1>10, Zenon DEF Readers
  <2> QED
    BY <1>10, <2>1 DEF Readers, Same
<1>12. Buffer(s)
  BY <1>1, <1>9, <1>11 DEF Buffer
<1>13. /\ log[e].kind \in {"header", "data"} /\ log[e].rec = h.rec /\ log[e].frag = h.frag /\ log[e].type = h.type
       /\ log[e].at = kHeaderSize + log[e].len
  <2>1. PICK i \in Nat : i = kHeaderSize + h.len
    BY <1>5
  <2>2. i \in 1 .. kHeaderSize + h.len /\ e = r.lo + i
    BY <1>1, <1>5, <2>1
  <2>3. log[e] = [h EXCEPT !.at = i, !.kind = IF i <= kHeaderSize THEN "header" ELSE "data"]
    BY <1>6, <2>2
  <2> HIDE DEF e
  <2>4. log[e].at = i /\ log[e].len = h.len
    BY <1>4, <2>3 DEF Cells
  <2>5. log[e].kind \in {"header", "data"} /\ log[e].rec = h.rec /\ log[e].frag = h.frag /\ log[e].type = h.type
    BY <1>4, <2>3 DEF Cells
  <2> QED
    BY <2>1, <2>4, <2>5
<1> HIDE DEF e, s
<1>14. Written(e)
  BY <1>9, <1>13 DEF Written
<1>15. lr.lo < r.lo + 1 /\ r.lo + 1 <= lr.lo + kHeaderSize
  BY <1>1
<1>16. ASSUME NEW p, p = [type |-> h.type, rec |-> h.rec, frag |-> h.frag, len |-> h.len, r |-> s] PROVE Found(p)
  <2>1. p.type = h.type /\ p.rec = h.rec /\ p.frag = h.frag /\ p.len = h.len /\ p.r = s
    BY <1>16
  <2>2. \E q \in 1 .. Len(log) :
            /\ lr.lo < q /\ q <= lr.lo + kHeaderSize /\ Written(q)
            /\ log[q].rec = p.rec /\ log[q].frag = p.frag /\ log[q].type = p.type /\ log[q].at = 1
    BY <1>3, <1>6, <1>7, <1>15, <2>1
  <2> QED
    BY <1>5, <1>8, <1>9, <1>11, <1>13, <1>14, <2>1, <2>2 DEF Found
<1> QED
  BY <1>2, <1>11, <1>12, <1>16 DEF s

\* A buffer that is given up.
LEMMA GivenUp ==
  ASSUME NEW r \in Readers, Buffer(r), Same(lr, r), lr \in Readers, NEW n
  PROVE  /\ Same(lr, Cleared(r)) /\ Buffer(Cleared(r))
         /\ Same(lr, ReportDrop(Cleared(r), n)) /\ Buffer(ReportDrop(Cleared(r), n))
<1>1. Same(r, Cleared(r)) /\ Cleared(r).lo = r.hi /\ Cleared(r).hi = r.hi /\ Cleared(r) \in Readers
  BY ClearedSame DEF Same
<1>2. PICK c \in Readers : c = Cleared(r)
  BY <1>1
<1>3. Same(c, ReportDrop(c, n)) /\ ReportDrop(c, n).lo = c.lo /\ ReportDrop(c, n).hi = c.hi
  BY ReportDropSame
<1>4. lr.lo \in Nat /\ r.lo \in Nat /\ r.hi \in Nat
  BY DEF Readers
<1>5. Same(lr, c) /\ Same(lr, ReportDrop(c, n))
  BY <1>1, <1>2, <1>3, SameTrans
<1>6. Buffer(c) /\ Buffer(ReportDrop(c, n))
  BY <1>1, <1>2, <1>3, <1>4 DEF Buffer
<1> QED
  BY <1>2, <1>5, <1>6

LEMMA PhysicalOutcome ==
  ASSUME WriteInv, lr \in Readers, Buffer(lr), NEW p \in ReadPhysicalRecord
  PROVE  Outcome(p)
<1>1. log \in Seq(Cells) /\ CellsInv
  BY DEF WriteInv, LogType
<1>2. PICK r : r = Refilled(lr)
  OBVIOUS
<1>3. r \in Readers /\ Same(lr, r) /\ Buffer(r) /\ r.lo < lr.lo + kHeaderSize
  BY <1>1, <1>2, RefilledSame DEF Same
<1>4. Same(lr, lr)
  BY DEF Same
<1> DEFINE failed == [ReportDrop(Cleared(lr), kBlockSize) EXCEPT !.eof = TRUE, !.ioerror = TRUE]
           h == Cell(r, 1)
           s == [r EXCEPT !.lo = @ + kHeaderSize + h.len]
<1>5. \/ p = Eof(failed)
      \/ p = Eof(r) \/ p = Dropped(r, TRUE) \/ p = Dropped(r, FALSE)
      \/ /\ r.hi - r.lo >= kHeaderSize /\ Intact(r)
         /\ \/ p = [type |-> "bad", rec |-> 0, frag |-> 0, len |-> 0, r |-> s]
            \/ p = [type |-> h.type, rec |-> h.rec, frag |-> h.frag, len |-> h.len, r |-> s]
  <2>1. CASE p = Eof(failed)
    BY <2>1
  <2>2. CASE p # Eof(failed)
    <3>1. p \in IF r.hi - r.lo < kHeaderSize THEN {Eof(r)}
                ELSE IF Intact(r)
                THEN IF r.lo < r.initial THEN {[type |-> "bad", rec |-> 0, frag |-> 0, len |-> 0, r |-> s]}
                     ELSE {[type |-> h.type, rec |-> h.rec, frag |-> h.frag, len |-> h.len, r |-> s]}
                ELSE IF HeaderIntact(r)
                THEN IF kHeaderSize + Cell(r, 1).len > r.hi - r.lo /\ r.eof THEN {Eof(r)} ELSE {Dropped(r, TRUE)}
                ELSE IF \A i \in 1 .. kHeaderSize : Cell(r, i).kind = "zero" THEN {Dropped(r, FALSE)}
                ELSE {Dropped(r, TRUE), Dropped(r, FALSE)} \cup (IF r.eof THEN {Eof(r)} ELSE {})
      BY <1>2, <2>2 DEF ReadPhysicalRecord
    <3>2. r.hi - r.lo < kHeaderSize \/ r.hi - r.lo >= kHeaderSize
      BY <1>3, ConstFacts DEF Readers
    <3> HIDE DEF s, h, failed
    <3>3. CASE r.hi - r.lo < kHeaderSize
      BY <3>1, <3>3
    <3>4. CASE ~(r.hi - r.lo < kHeaderSize) /\ Intact(r)
      BY <3>1, <3>2, <3>4, Zenon
    <3>5. CASE ~(r.hi - r.lo < kHeaderSize) /\ ~Intact(r)
      BY <3>1, <3>5, Zenon
    <3> QED
      BY <3>3, <3>4, <3>5
  <2> QED
    BY <2>1, <2>2
<1>6. CASE p = Eof(failed)
  <2>1. PICK c : c = ReportDrop(Cleared(lr), kBlockSize)
    OBVIOUS
  <2>2. Same(lr, c) /\ Buffer(c)
    BY <1>4, <2>1, GivenUp
  <2>3. failed = [c EXCEPT !.eof = TRUE, !.ioerror = TRUE]
    BY <2>1
  <2>4. Same(c, failed) /\ failed.lo = c.lo /\ failed.hi = c.hi
    BY <2>2, <2>3 DEF Same, Readers
  <2> HIDE DEF failed
  <2>5. Same(lr, failed) /\ Buffer(failed) /\ failed \in Readers
    BY <2>2, <2>4, SameTrans DEF Buffer, Same
  <2>6. Same(lr, Cleared(failed)) /\ Buffer(Cleared(failed))
    BY <2>5, GivenUp
  <2> QED
    BY <1>6, <2>6 DEF Eof, Outcome
<1>7. CASE p = Eof(r) \/ p = Dropped(r, TRUE) \/ p = Dropped(r, FALSE)
  <2>1. /\ Same(lr, Cleared(r)) /\ Buffer(Cleared(r))
        /\ Same(lr, ReportDrop(Cleared(r), r.hi - r.lo)) /\ Buffer(ReportDrop(Cleared(r), r.hi - r.lo))
    BY <1>3, GivenUp
  <2> QED
    BY <1>7, <2>1 DEF Eof, Dropped, Outcome
<1>8. CASE /\ r.hi - r.lo >= kHeaderSize /\ Intact(r)
           /\ \/ p = [type |-> "bad", rec |-> 0, frag |-> 0, len |-> 0, r |-> s]
              \/ p = [type |-> h.type, rec |-> h.rec, frag |-> h.frag, len |-> h.len, r |-> s]
  <2>1. /\ Same(r, s) /\ Buffer(s)
        /\ Found([type |-> h.type, rec |-> h.rec, frag |-> h.frag, len |-> h.len, r |-> s])
    BY <1>1, <1>3, <1>8, IntactFound
  <2> HIDE DEF s, h
  <2>2. Same(lr, s)
    BY <1>3, <2>1, SameTrans
  <2> QED
    BY <1>8, <2>1, <2>2 DEF Outcome
<1> QED
  BY <1>5, <1>6, <1>7, <1>8

-----------------------------------------------------------------------------
(* A turn of the reader's loop.                                             *)

Piece(p) == [rec |-> p.rec, frag |-> p.frag, len |-> p.len]

\* Fragments read so far are given up, or there are none.
Quiet(p) ==
    /\ lr'.out = lr.out /\ lr'.in_fragmented = FALSE
    /\ p.type \in {"bad", "eof"} \/ (p.type \in {"middle", "last"} /\ lr.in_fragmented = FALSE)

Begins(p) ==
    /\ p.type = "first" /\ lr'.out = lr.out /\ lr'.scratch = <<Piece(p)>> /\ ~lr'.resyncing /\ lr'.in_fragmented

Continues(p) ==
    /\ p.type = "middle" /\ lr.in_fragmented /\ lr'.out = lr.out /\ lr'.scratch = Append(lr.scratch, Piece(p))
    /\ ~lr'.resyncing /\ lr'.in_fragmented

Returns(p) ==
    /\ lr'.in_fragmented = FALSE
    /\ \/ p.type = "full" /\ lr'.out = Append(lr.out, <<Piece(p)>>)
       \/ p.type = "last" /\ lr.in_fragmented /\ lr'.out = Append(lr.out, Append(lr.scratch, Piece(p)))

\* The turn reports nothing more than ReadPhysicalRecord did.
Silent(p) ==
    \/ lr'.reports = p.r.reports
    \/ p.type = "bad" \/ (p.type \in {"full", "first"} /\ lr.in_fragmented)
    \/ (p.type \in {"middle", "last"} /\ ~lr.in_fragmented /\ ~lr.resyncing)

LeavesAlone(p) ==
    /\ lr'.initial = lr.initial /\ lr'.eof = p.r.eof /\ lr'.ioerror = p.r.ioerror
    /\ (p.type = "eof" => lr'.done = TRUE) /\ (p.type # "eof" => lr'.done = lr.done) /\ Silent(p)

LEMMA TurnEffects ==
  ASSUME lr \in Readers, NEW p, Outcome(p), lr.in_fragmented => ~lr.resyncing, lr' = Turn(p)
  PROVE  /\ lr' \in Readers /\ lr'.lo = p.r.lo /\ lr'.hi = p.r.hi
         /\ LeavesAlone(p)
         /\ Quiet(p) \/ Begins(p) \/ Continues(p) \/ Returns(p)
<1>1. Same(lr, p.r) /\ p.r \in Readers /\ (p.type \in {"bad", "eof"} \/ Found(p))
  BY DEF Outcome, Same
<1>2. p.type \in {"bad", "eof", "full", "first", "middle", "last"}
  BY <1>1 DEF Found, FragmentTypes
<1>3. PICK piece : piece = Piece(p)
  OBVIOUS
<1>4. p.type \notin {"bad", "eof"} => piece \in Pieces
  BY <1>1, <1>3 DEF Found, Piece, Pieces
<1>5. PICK r : r = [p.r EXCEPT !.resyncing = @ /\ p.type = "middle"]
  OBVIOUS
<1>6. /\ r \in Readers /\ r.lo = p.r.lo /\ r.hi = p.r.hi /\ r.resyncing = (lr.resyncing /\ p.type = "middle")
      /\ r.in_fragmented = lr.in_fragmented /\ r.scratch = lr.scratch /\ r.out = lr.out
      /\ r.initial = lr.initial /\ r.eof = p.r.eof /\ r.ioerror = p.r.ioerror /\ r.done = lr.done /\ r.reports = p.r.reports
  BY <1>1, <1>5 DEF Same, Readers
<1>7. PICK q : q = ReportPartial(r)
  OBVIOUS
<1>8. /\ Same(r, q) /\ q \in Readers /\ q.lo = r.lo /\ q.hi = r.hi /\ q.eof = r.eof /\ q.ioerror = r.ioerror
      /\ ~lr.in_fragmented => q = r
  <2>1. Same(r, r)
    BY <1>6 DEF Same
  <2>3. PICK m : m = Size(lr.scratch)
    OBVIOUS
  <2>2. /\ Same(r, ReportDrop(r, m)) /\ ReportDrop(r, m).lo = r.lo /\ ReportDrop(r, m).hi = r.hi
        /\ ReportDrop(r, m).eof = r.eof /\ ReportDrop(r, m).ioerror = r.ioerror
    BY <1>6, ReportDropSame
  <2>4. q = IF lr.in_fragmented THEN ReportDrop(r, m) ELSE r
    BY <1>7, <2>3, Zenon DEF ReportPartial
  <2> QED
    BY <1>6, <2>1, <2>2, <2>4 DEF Same
<1>9. PICK t : t = IF Size(lr.scratch) > 0 THEN q ELSE r
  OBVIOUS
<1>10. /\ t \in Readers /\ t.lo = p.r.lo /\ t.hi = p.r.hi /\ t.resyncing = (lr.resyncing /\ p.type = "middle")
       /\ t.in_fragmented = lr.in_fragmented /\ t.scratch = lr.scratch /\ t.out = lr.out
       /\ t.initial = lr.initial /\ t.eof = p.r.eof /\ t.ioerror = p.r.ioerror /\ t.done = lr.done /\ (~lr.in_fragmented => t.reports = p.r.reports)
  BY <1>6, <1>8, <1>9 DEF Same
<1>11. CASE lr.resyncing /\ p.type \in {"middle", "last"}
  <2>1. lr' = r
    BY <1>5, <1>11 DEF Turn
  <2>2. lr.in_fragmented = FALSE
    BY <1>11 DEF Readers
  <2> QED
    BY <1>6, <1>11, <2>1, <2>2 DEF Quiet, LeavesAlone, Silent
<1>12. CASE p.type = "full"
  <2>1. lr' = [t EXCEPT !.out = Append(@, <<piece>>), !.scratch = <<>>, !.in_fragmented = FALSE]
    BY <1>3, <1>5, <1>7, <1>9, <1>12 DEF Turn, Piece
  <2>2. <<piece>> \in Seq(Pieces) /\ <<>> \in Seq(Pieces)
    BY <1>4, <1>12
  <2>3. t.out \in Seq(Seq(Pieces)) /\ Append(t.out, <<piece>>) \in Seq(Seq(Pieces))
    BY <1>10, <2>2, AppendProperties DEF Readers
  <2>4. lr' = [t EXCEPT !.out = Append(t.out, <<piece>>), !.scratch = <<>>, !.in_fragmented = FALSE]
    BY <2>1
  <2>5. lr' \in Readers
    BY <1>10, <2>2, <2>3, <2>4, Zenon DEF Readers
  <2>6. /\ lr'.lo = t.lo /\ lr'.hi = t.hi /\ lr'.out = Append(t.out, <<piece>>) /\ lr'.in_fragmented = FALSE
        /\ lr'.initial = t.initial /\ lr'.eof = t.eof /\ lr'.ioerror = t.ioerror /\ lr'.done = t.done /\ lr'.reports = t.reports
    BY <1>10, <2>4 DEF Readers
  <2> QED
    BY <1>3, <1>10, <1>12, <2>5, <2>6 DEF Returns, LeavesAlone, Silent
<1>13. CASE p.type = "first"
  <2>1. lr' = [t EXCEPT !.scratch = <<piece>>, !.in_fragmented = TRUE]
    BY <1>3, <1>5, <1>7, <1>9, <1>13 DEF Turn, Piece
  <2>2. <<piece>> \in Seq(Pieces)
    BY <1>4, <1>13
  <2>5. lr' \in Readers
    BY <1>10, <2>1, <2>2, Zenon DEF Readers
  <2>6. /\ lr'.lo = t.lo /\ lr'.hi = t.hi /\ lr'.out = t.out /\ lr'.in_fragmented = TRUE /\ lr'.scratch = <<piece>>
        /\ lr'.resyncing = t.resyncing
        /\ lr'.initial = t.initial /\ lr'.eof = t.eof /\ lr'.ioerror = t.ioerror /\ lr'.done = t.done /\ lr'.reports = t.reports
    BY <1>10, <2>1 DEF Readers
  <2> QED
    BY <1>3, <1>10, <1>13, <2>5, <2>6 DEF Begins, LeavesAlone, Silent
<1>14. CASE ~lr.resyncing /\ p.type \in {"middle", "last"} /\ ~lr.in_fragmented
  <2>1. lr' = ReportDrop(r, p.len)
    BY <1>5, <1>14 DEF Turn
  <2>2. Same(r, lr') /\ lr'.lo = r.lo /\ lr'.hi = r.hi /\ lr'.eof = r.eof /\ lr'.ioerror = r.ioerror
    BY <1>6, <2>1, ReportDropSame
  <2>3. lr.in_fragmented = FALSE
    BY <1>14 DEF Readers
  <2> QED
    BY <1>6, <1>14, <2>2, <2>3 DEF Same, Quiet, LeavesAlone, Silent
<1>15. CASE ~lr.resyncing /\ p.type = "middle" /\ lr.in_fragmented
  <2>1. lr' = [r EXCEPT !.scratch = Append(@, piece)]
    BY <1>3, <1>5, <1>15 DEF Turn, Piece
  <2>2. lr.scratch \in Seq(Pieces) /\ Append(lr.scratch, piece) \in Seq(Pieces)
    BY <1>4, <1>15, AppendProperties DEF Readers
  <2>3. lr' = [r EXCEPT !.scratch = Append(lr.scratch, piece)]
    BY <1>6, <2>1
  <2>5. lr' \in Readers
    BY <1>6, <2>2, <2>3, Zenon DEF Readers
  <2>6. /\ lr'.lo = r.lo /\ lr'.hi = r.hi /\ lr'.out = r.out /\ lr'.in_fragmented = r.in_fragmented
        /\ lr'.scratch = Append(lr.scratch, piece) /\ lr'.resyncing = r.resyncing
        /\ lr'.initial = r.initial /\ lr'.eof = r.eof /\ lr'.ioerror = r.ioerror /\ lr'.done = r.done /\ lr'.reports = r.reports
    BY <1>6, <2>3 DEF Readers
  <2> QED
    BY <1>3, <1>6, <1>15, <2>5, <2>6 DEF Continues, LeavesAlone, Silent
<1>16. CASE ~lr.resyncing /\ p.type = "last" /\ lr.in_fragmented
  <2>1. lr' = [r EXCEPT !.out = Append(@, Append(lr.scratch, piece)), !.scratch = <<>>, !.in_fragmented = FALSE]
    BY <1>3, <1>5, <1>16 DEF Turn, Piece
  <2>2. Append(lr.scratch, piece) \in Seq(Pieces) /\ <<>> \in Seq(Pieces)
    BY <1>4, <1>16, AppendProperties DEF Readers
  <2>3. r.out \in Seq(Seq(Pieces)) /\ Append(r.out, Append(lr.scratch, piece)) \in Seq(Seq(Pieces))
    BY <1>6, <2>2, AppendProperties DEF Readers
  <2>4. lr' = [r EXCEPT !.out = Append(r.out, Append(lr.scratch, piece)), !.scratch = <<>>, !.in_fragmented = FALSE]
    BY <2>1
  <2>5. lr' \in Readers
    BY <1>6, <2>2, <2>3, <2>4, Zenon DEF Readers
  <2>6. /\ lr'.lo = r.lo /\ lr'.hi = r.hi /\ lr'.out = Append(r.out, Append(lr.scratch, piece))
        /\ lr'.in_fragmented = FALSE
        /\ lr'.initial = r.initial /\ lr'.eof = r.eof /\ lr'.ioerror = r.ioerror /\ lr'.done = r.done /\ lr'.reports = r.reports
    BY <1>6, <2>4 DEF Readers
  <2> QED
    BY <1>3, <1>6, <1>16, <2>5, <2>6 DEF Returns, LeavesAlone, Silent
<1>17. CASE p.type = "eof"
  <2>1. lr' = [r EXCEPT !.scratch = <<>>, !.in_fragmented = FALSE, !.done = TRUE]
    BY <1>5, <1>17 DEF Turn
  <2>2. <<>> \in Seq(Pieces)
    OBVIOUS
  <2>3. lr' \in Readers
    BY <1>6, <2>1, <2>2, Zenon DEF Readers
  <2>4. /\ lr'.lo = r.lo /\ lr'.hi = r.hi /\ lr'.out = r.out /\ lr'.in_fragmented = FALSE
        /\ lr'.initial = r.initial /\ lr'.eof = r.eof /\ lr'.ioerror = r.ioerror /\ lr'.done = TRUE /\ lr'.reports = r.reports
    BY <1>6, <2>1 DEF Readers
  <2> QED
    BY <1>6, <1>17, <2>3, <2>4 DEF Quiet, LeavesAlone, Silent
<1>18. CASE p.type = "bad"
  <2>1. lr' = [q EXCEPT !.scratch = <<>>, !.in_fragmented = FALSE]
    BY <1>5, <1>7, <1>18 DEF Turn, BadRecord
  <2>2. <<>> \in Seq(Pieces)
    OBVIOUS
  <2>3. lr' \in Readers
    BY <1>8, <2>1, <2>2, Zenon DEF Readers
  <2>4. /\ lr'.lo = q.lo /\ lr'.hi = q.hi /\ lr'.out = q.out /\ lr'.in_fragmented = FALSE
        /\ lr'.initial = q.initial /\ lr'.eof = q.eof /\ lr'.ioerror = q.ioerror /\ lr'.done = q.done
    BY <1>8, <2>1 DEF Readers
  <2> QED
    BY <1>6, <1>8, <1>18, <2>3, <2>4 DEF Quiet, Same, LeavesAlone, Silent
<1> QED
  BY <1>2, <1>11, <1>12, <1>13, <1>14, <1>15, <1>16, <1>17, <1>18

\* A fragment is of a later record than what was returned before.
LEMMA NewerThanReturned ==
  ASSUME WriteInv, lr \in Readers, NEW p, Found(p), NEW r, Behind(r)
  PROVE  r < p.rec
<1>1. PICK b \in 1 .. Len(log) : /\ Written(b) /\ b <= lr.lo /\ log[b].rec = r
                                 /\ log[b].type \in {"full", "last"} /\ log[b].at = kHeaderSize + log[b].len
  BY DEF Behind
<1>2. PICK q \in 1 .. Len(log) : /\ lr.lo < q /\ Written(q) /\ log[q].rec = p.rec /\ log[q].at = 1
  BY DEF Found
<1>3. b < q
  BY <1>1, <1>2 DEF Readers
<1>4. \/ log[b].rec < log[q].rec
      \/ log[b].rec = log[q].rec /\ log[b].frag < log[q].frag /\ log[b].type \in {"first", "middle"}
      \/ log[b].rec = log[q].rec /\ log[b].frag = log[q].frag /\ log[b].at < log[q].at
  BY <1>1, <1>2, <1>3 DEF WriteInv, OrderInv
<1>5. ~(log[b].at < 1)
  <2>1. log[b] \in Cells
    BY ElementOfSeq DEF WriteInv, LogType
  <2>2. log[b].at > 0 /\ log[b].at \in Nat
    BY <1>1, <2>1 DEF WriteInv, CellsInv, Cells
  <2> QED
    BY <2>2
<1> QED
  BY <1>1, <1>2, <1>4, <1>5

\* The first, the next and the only fragment of a record.
LEMMA FoundFacts ==
  ASSUME WriteInv, lr \in Readers, NEW p, Found(p)
  PROVE  /\ p.rec \in 1 .. Len(added)
         /\ p.type \in {"full", "first"} <=> p.frag = 1
         /\ p.type \in {"full", "last"} => added[p.rec].frags = p.frag
         /\ Written(lr.lo) /\ p.frag > 1 => log[lr.lo].rec = p.rec /\ log[lr.lo].frag = p.frag - 1
<1>1. /\ p.r.lo \in 1 .. Len(log) /\ Written(p.r.lo)
      /\ log[p.r.lo].rec = p.rec /\ log[p.r.lo].frag = p.frag /\ log[p.r.lo].type = p.type
      /\ log[p.r.lo].at = kHeaderSize + log[p.r.lo].len
  BY DEF Found
<1>2. p.rec \in 1 .. Len(added) /\ (p.type \in {"full", "first"} <=> p.frag = 1)
  BY <1>1 DEF WriteInv, CellsInv
<1>3. p.type \in {"full", "last"} => added[p.rec].frags = p.frag
  BY <1>1 DEF WriteInv, WholeInv
<1>4. ASSUME Written(lr.lo), p.frag > 1 PROVE log[lr.lo].rec = p.rec /\ log[lr.lo].frag = p.frag - 1
  <2>1. PICK q \in 1 .. Len(log) : /\ lr.lo < q /\ q <= lr.lo + kHeaderSize /\ Written(q)
                                   /\ log[q].rec = p.rec /\ log[q].frag = p.frag /\ log[q].at = 1
    BY DEF Found
  <2>2. lr.lo \in 1 .. Len(log) /\ q - kHeaderSize <= lr.lo
    BY <1>4, <2>1, ConstFacts DEF Written
  <2> QED
    BY <1>4, <2>1, <2>2 DEF WriteInv, BeforeInv
<1> QED
  BY <1>2, <1>3, <1>4

LEMMA TurnStep ==
  ASSUME WriteInv, ReadInv, ReadRecord
  PROVE  ReadInv'
<1>1. lr.on /\ lr \in Readers /\ Buffer(lr) /\ log' = log /\ added' = added
  <2>1. lr.on /\ lr \in Readers /\ lr.lo <= lr.hi /\ (lr.lo < lr.hi => lr.hi <= Len(log)) /\ log' = log /\ added' = added
    BY DEF ReadRecord, ReadInv, ReaderType
  <2>2. lr.lo <= lr.lo
    BY <2>1 DEF Readers
  <2> QED
    BY <2>1, <2>2 DEF Buffer
<1>2. PICK p \in ReadPhysicalRecord : lr' = Turn(p)
  BY DEF ReadRecord
<1>3. Outcome(p)
  BY <1>1, PhysicalOutcome
<1>4. lr.in_fragmented => ~lr.resyncing
  BY <1>1 DEF ReadInv, ScratchInv
<1>5. /\ lr' \in Readers /\ lr'.lo = p.r.lo /\ lr'.hi = p.r.hi
      /\ Quiet(p) \/ Begins(p) \/ Continues(p) \/ Returns(p)
  BY <1>1, <1>2, <1>3, <1>4, TurnEffects
<1>6. lr.lo <= lr'.lo /\ lr.lo \in Nat /\ lr'.lo \in Nat /\ lr'.on = TRUE
  BY <1>1, <1>3, <1>5 DEF Outcome, Buffer, Readers
<1>7. ReaderType'
  BY <1>1, <1>3, <1>5, <1>6 DEF ReaderType, Outcome, Buffer
<1> DEFINE BehindNow(r) == \E b \in 1 .. Len(log) : /\ Written(b) /\ b <= lr'.lo /\ log[b].rec = r
                                                     /\ log[b].type \in {"full", "last"}
                                                     /\ log[b].at = kHeaderSize + log[b].len
<1>8. Written(lr'.lo) <=> (Written(lr.lo))'
  BY <1>1 DEF Written
<1>9. ASSUME NEW r, Behind(r) PROVE BehindNow(r)
  <2>1. PICK b \in 1 .. Len(log) : /\ Written(b) /\ b <= lr.lo /\ log[b].rec = r
                                   /\ log[b].type \in {"full", "last"} /\ log[b].at = kHeaderSize + log[b].len
    BY <1>9 DEF Behind
  <2>2. b <= lr'.lo
    BY <1>6, <2>1
  <2> QED
    BY <2>1, <2>2
<1>10. Begins(p) \/ Continues(p) \/ Returns(p) => Found(p)
  BY <1>3 DEF Outcome, Begins, Continues, Returns
<1>11. Found(p) => /\ p.rec \in Nat /\ p.frag \in Nat /\ p.rec \in 1 .. Len(added)
                   /\ p.type \in {"full", "first"} <=> p.frag = 1
                   /\ p.type \in {"full", "last"} => added[p.rec].frags = p.frag
                   /\ Written(lr.lo) /\ p.frag > 1 => log[lr.lo].rec = p.rec /\ log[lr.lo].frag = p.frag - 1
                   /\ Written(lr'.lo) /\ log[lr'.lo].rec = p.rec /\ log[lr'.lo].frag = p.frag
  <2>1. Found(p) => /\ p.rec \in 1 .. Len(added)
                    /\ p.type \in {"full", "first"} <=> p.frag = 1
                    /\ p.type \in {"full", "last"} => added[p.rec].frags = p.frag
                    /\ Written(lr.lo) /\ p.frag > 1 => log[lr.lo].rec = p.rec /\ log[lr.lo].frag = p.frag - 1
    BY <1>1, FoundFacts
  <2>2. Found(p) => /\ p.rec \in Nat /\ p.frag \in Nat
                    /\ Written(lr'.lo) /\ log[lr'.lo].rec = p.rec /\ log[lr'.lo].frag = p.frag
    BY <1>5 DEF Found
  <2> QED
    BY <2>1, <2>2
<1>12. PICK piece : piece = Piece(p)
  OBVIOUS
<1>13. piece.rec = p.rec /\ piece.frag = p.frag
  BY <1>12 DEF Piece
<1>14. Found(p) /\ p.frag = 1 => Consecutive(<<piece>>) /\ <<piece>>[1] = piece /\ Len(<<piece>>) = 1
  BY <1>13 DEF Consecutive
<1>15. ASSUME Found(p), p.type \in {"middle", "last"}, lr.in_fragmented
       PROVE  LET s == Append(lr.scratch, piece)
              IN  Consecutive(s) /\ s[1].rec = p.rec /\ Len(s) = p.frag
  <2>1. /\ Consecutive(lr.scratch) /\ Written(lr.lo) /\ log[lr.lo].rec = lr.scratch[1].rec
        /\ log[lr.lo].frag = Len(lr.scratch) /\ lr.scratch \in Seq(Pieces)
    BY <1>1, <1>15 DEF ReadInv, ScratchInv, Readers
  <2>2. Len(lr.scratch) \in Nat /\ Len(lr.scratch) > 0
    BY <2>1, LenProperties DEF Consecutive
  <2>3. p.frag # 1
    BY <1>11, <1>15
  <2>4. p.frag > 1
    <3>1. p.frag > 0
      BY <1>15 DEF Found, WriteInv, CellsInv
    <3> QED
      BY <1>11, <1>15, <2>3, <3>1
  <2>5. lr.scratch[1].rec = p.rec /\ Len(lr.scratch) = p.frag - 1
    BY <1>11, <1>15, <2>1, <2>4
  <2>6. piece \in Pieces
    BY <1>12, <1>15 DEF Found, Piece, Pieces
  <2> DEFINE s == Append(lr.scratch, piece)
  <2>7. /\ Len(s) = Len(lr.scratch) + 1 /\ s[Len(lr.scratch) + 1] = piece
        /\ \A i \in 1 .. Len(lr.scratch) : s[i] = lr.scratch[i]
    BY <2>1, <2>6, AppendProperties
  <2> HIDE DEF s
  <2>8. s[1] = lr.scratch[1]
    BY <2>2, <2>7
  <2>9. ASSUME NEW j \in 1 .. Len(s) PROVE s[j].rec = s[1].rec /\ s[j].frag = j
    <3>1. CASE j \in 1 .. Len(lr.scratch)
      BY <2>1, <2>7, <2>8, <3>1 DEF Consecutive
    <3>2. CASE j = Len(lr.scratch) + 1
      <4>1. s[j] = piece /\ j = p.frag
        BY <1>11, <1>15, <2>5, <2>7, <3>2
      <4> QED
        BY <1>13, <2>5, <2>8, <4>1
    <3> QED
      BY <2>2, <2>7, <3>1, <3>2
  <2>10. Len(s) = p.frag /\ Len(s) > 0
    BY <1>11, <1>15, <2>2, <2>5, <2>7
  <2>11. Consecutive(s)
    BY <2>9, <2>10 DEF Consecutive
  <2> QED
    BY <2>5, <2>8, <2>10, <2>11 DEF s
<1>16. ScratchInv'
  <2>1. CASE Quiet(p) \/ Returns(p)
    BY <2>1 DEF Quiet, Returns, ScratchInv
  <2>2. CASE Begins(p)
    <3>1. lr'.scratch = <<piece>> /\ ~lr'.resyncing /\ Found(p) /\ p.type = "first"
      BY <1>10, <1>12, <2>2 DEF Begins
    <3>2. Consecutive(lr'.scratch) /\ lr'.scratch[1].rec = p.rec /\ Len(lr'.scratch) = p.frag
      BY <1>11, <1>13, <1>14, <3>1
    <3>3. Consecutive(lr.scratch)'
      BY <3>2 DEF Consecutive
    <3> QED
      BY <1>1, <1>8, <1>11, <3>1, <3>2, <3>3 DEF ScratchInv
  <2>3. CASE Continues(p)
    <3>1. lr'.scratch = Append(lr.scratch, piece) /\ ~lr'.resyncing /\ Found(p) /\ p.type = "middle" /\ lr.in_fragmented
      BY <1>10, <1>12, <2>3 DEF Continues
    <3>2. Consecutive(lr'.scratch) /\ lr'.scratch[1].rec = p.rec /\ Len(lr'.scratch) = p.frag
      BY <1>15, <3>1
    <3>3. Consecutive(lr.scratch)'
      BY <3>2 DEF Consecutive
    <3> QED
      BY <1>1, <1>8, <1>11, <3>1, <3>2, <3>3 DEF ScratchInv
  <2> QED
    BY <1>5, <2>1, <2>2, <2>3
<1>17. ASSUME lr'.out = lr.out PROVE OutInv'
  <2>1. ASSUME NEW i \in 1 .. Len(lr.out)
        PROVE  /\ Consecutive(lr.out[i]) /\ added[lr.out[i][1].rec].frags = Len(lr.out[i])
               /\ BehindNow(lr.out[i][1].rec)
               /\ \A j \in 1 .. Len(lr.out) : i < j => lr.out[i][1].rec < lr.out[j][1].rec
    <3>1. /\ Consecutive(lr.out[i]) /\ added[lr.out[i][1].rec].frags = Len(lr.out[i]) /\ Behind(lr.out[i][1].rec)
          /\ \A j \in 1 .. Len(lr.out) : i < j => lr.out[i][1].rec < lr.out[j][1].rec
      BY <1>1 DEF ReadInv, OutInv
    <3> HIDE DEF BehindNow
    <3> QED
      BY <1>9, <3>1
  <2>2. \A i \in 1 .. Len(lr.out) : Consecutive(lr.out[i])'
    BY <1>17, <2>1 DEF Consecutive
  <2>3. \A i \in 1 .. Len(lr.out) : Behind(lr.out[i][1].rec)'
    BY <1>1, <1>17, <2>1 DEF Behind, Written
  <2> QED
    BY <1>1, <1>17, <2>1, <2>2, <2>3 DEF OutInv
<1>18. ASSUME Returns(p) PROVE OutInv'
  <2>1. Found(p)
    BY <1>10, <1>18
  <2>2. PICK s : /\ lr'.out = Append(lr.out, s) /\ Consecutive(s) /\ s[1].rec = p.rec /\ Len(s) = p.frag
                 /\ s \in Seq(Pieces) /\ p.type \in {"full", "last"}
    <3>1. piece \in Pieces
      BY <1>12, <2>1 DEF Found, Piece, Pieces
    <3>2. CASE p.type = "full" /\ lr'.out = Append(lr.out, <<Piece(p)>>)
      <4>1. p.frag = 1
        BY <1>11, <2>1, <3>2
      <4>2. <<piece>> \in Seq(Pieces) /\ <<piece>>[1].rec = p.rec /\ Len(<<piece>>) = 1 /\ Consecutive(<<piece>>)
        BY <1>13, <1>14, <2>1, <3>1, <4>1
      <4> QED
        BY <1>12, <3>2, <4>1, <4>2
    <3>3. CASE p.type = "last" /\ lr.in_fragmented /\ lr'.out = Append(lr.out, Append(lr.scratch, Piece(p)))
      <4>1. Append(lr.scratch, piece) \in Seq(Pieces)
        BY <1>1, <3>1, AppendProperties DEF Readers
      <4> QED
        BY <1>12, <1>15, <2>1, <3>3, <4>1
    <3> QED
      BY <1>18, <3>2, <3>3 DEF Returns
  <2>3. /\ lr.out \in Seq(Seq(Pieces)) /\ Len(lr.out) \in Nat /\ Len(lr'.out) = Len(lr.out) + 1
        /\ lr'.out[Len(lr.out) + 1] = s /\ \A i \in 1 .. Len(lr.out) : lr'.out[i] = lr.out[i]
    <3>1. lr.out \in Seq(Seq(Pieces)) /\ Len(lr.out) \in Nat
      BY <1>1, LenProperties DEF Readers
    <3> QED
      BY <2>2, <3>1, AppendProperties
  <2>4. BehindNow(p.rec)
    <3>1. /\ lr'.lo \in 1 .. Len(log) /\ Written(lr'.lo) /\ log[lr'.lo].rec = p.rec /\ log[lr'.lo].type = p.type
          /\ log[lr'.lo].at = kHeaderSize + log[lr'.lo].len
      BY <1>5, <2>1 DEF Found
    <3>2. lr'.lo <= lr'.lo
      BY <1>6
    <3> QED
      BY <2>2, <3>1, <3>2
  <2>5. \A i \in 1 .. Len(lr.out) : /\ Consecutive(lr.out[i]) /\ added[lr.out[i][1].rec].frags = Len(lr.out[i])
                                    /\ Behind(lr.out[i][1].rec)
    BY <1>1 DEF ReadInv, OutInv
  <2>6. ASSUME NEW i \in 1 .. Len(lr.out) PROVE lr.out[i][1].rec < p.rec
    BY <1>1, <2>1, <2>5, NewerThanReturned
  <2>7. ASSUME NEW i \in 1 .. Len(lr'.out)
        PROVE  /\ Consecutive(lr'.out[i]) /\ added[lr'.out[i][1].rec].frags = Len(lr'.out[i])
               /\ BehindNow(lr'.out[i][1].rec)
    <3> HIDE DEF BehindNow
    <3>1. CASE i \in 1 .. Len(lr.out)
      <4>1. lr'.out[i] = lr.out[i]
        BY <2>3, <3>1
      <4> QED
        BY <1>9, <2>5, <3>1, <4>1
    <3>2. CASE i = Len(lr.out) + 1
      <4>1. lr'.out[i] = s
        BY <2>3, <3>2
      <4>2. added[p.rec].frags = p.frag
        BY <1>11, <2>1, <2>2
      <4> QED
        BY <2>2, <2>4, <4>1, <4>2
    <3> QED
      BY <2>3, <3>1, <3>2
  <2>8. ASSUME NEW i \in 1 .. Len(lr'.out), NEW j \in 1 .. Len(lr'.out), i < j
        PROVE  lr'.out[i][1].rec < lr'.out[j][1].rec
    <3>1. i \in 1 .. Len(lr.out) /\ lr'.out[i] = lr.out[i]
      BY <2>3, <2>8
    <3>2. CASE j \in 1 .. Len(lr.out)
      BY <1>1, <2>3, <2>8, <3>1, <3>2 DEF ReadInv, OutInv
    <3>3. CASE j = Len(lr.out) + 1
      BY <2>2, <2>3, <2>6, <3>1, <3>3
    <3> QED
      BY <2>3, <3>2, <3>3
  <2>9. \A i \in 1 .. Len(lr'.out) : Consecutive(lr.out[i])'
    BY <2>7 DEF Consecutive
  <2>10. \A i \in 1 .. Len(lr'.out) : Behind(lr.out[i][1].rec)'
    BY <1>1, <2>7 DEF Behind, Written
  <2> QED
    BY <1>1, <2>7, <2>8, <2>9, <2>10 DEF OutInv
<1>19. OutInv'
  BY <1>5, <1>17, <1>18 DEF Quiet, Begins, Continues
<1> QED
  BY <1>7, <1>16, <1>19 DEF ReadInv

\* A new reader.
LEMMA NewReaderStep ==
  ASSUME WriteInv, NEW offset \in InitialOffsets, NewReader(offset)
  PROVE  ReadInv'
<1>1. offset \in Nat /\ SkipToInitialBlock(offset) \in Nat
  <2>1. offset \in Nat /\ kBlockSize \in Nat /\ kBlockSize > 0 /\ offset - (offset % kBlockSize) \in Nat
    BY ConstFacts
  <2> QED
    BY <2>1 DEF SkipToInitialBlock
<1>2. PICK b \in Nat : b = SkipToInitialBlock(offset)
  BY <1>1
<1>3. lr' = [on |-> TRUE, initial |-> offset, lo |-> b, hi |-> b,
             eof |-> FALSE, resyncing |-> offset > 0, in_fragmented |-> FALSE, scratch |-> <<>>,
             out |-> <<>>, reports |-> 0, ioerror |-> FALSE, done |-> FALSE]
  BY <1>2 DEF NewReader
<1>4. lr' \in Readers
  <2>1. <<>> \in Seq(Pieces) /\ <<>> \in Seq(Seq(Pieces)) /\ (offset > 0) \in BOOLEAN
    BY <1>1
  <2> QED
    BY <1>1, <1>3, <2>1 DEF Readers
<1>5. /\ lr'.on = TRUE /\ lr'.lo = b /\ lr'.hi = b /\ lr'.in_fragmented = FALSE /\ lr'.out = <<>>
  BY <1>3
<1>6. ReaderType'
  <2>0. b <= b /\ ~(b < b)
    BY <1>2
  <2>1. lr'.lo <= lr'.hi /\ ~(lr'.lo < lr'.hi) /\ lr'.on \in BOOLEAN
    BY <1>5, <2>0, Zenon
  <2> QED
    BY <1>4, <2>1, Zenon DEF ReaderType
<1>7. ScratchInv' /\ OutInv'
  BY <1>5 DEF ScratchInv, OutInv
<1> QED
  BY <1>6, <1>7 DEF ReadInv

\* The file in order, and what the reader has of it.
LogInv == WriteInv /\ ReadInv

LEMMA LogInit == LFInit => LogInv
<1> SUFFICES ASSUME LFInit PROVE LogInv
  OBVIOUS
<1>1. log = <<>> /\ lw = IdleWriter(0) /\ added = <<>> /\ lr = NoReaderYet /\ lr.on = FALSE
  BY DEF LFInit, NoReaderYet
<1>2. lw \in Writers /\ lw.offset = 0 /\ lw.rec = 0
  BY <1>1 DEF IdleWriter, Writers
<1>3. LogType
  BY <1>1, <1>2, ConstFacts DEF LogType
<1>4. CellsInv /\ OrderInv /\ WholeInv /\ BeforeInv /\ WriterInv
  BY <1>1, <1>2 DEF CellsInv, OrderInv, WholeInv, BeforeInv, WriterInv
<1>5. ReadInv
  BY <1>1 DEF ReadInv, ReaderType, ScratchInv, OutInv
<1> QED
  BY <1>3, <1>4, <1>5 DEF LogInv, WriteInv

LEMMA LogNext == LogInv /\ [LFNext]_lfVars => LogInv'
<1> SUFFICES ASSUME LogInv, [LFNext]_lfVars PROVE LogInv'
  OBVIOUS
<1>1. WriteInv /\ ReadInv
  BY DEF LogInv
<1>2. ASSUME lr' = lr, ~lr.on PROVE ReadInv'
  BY <1>1, <1>2 DEF ReadInv, ReaderType, ScratchInv, OutInv
<1>3. ASSUME NEW n \in Lengths, WriterAddRecord(n) PROVE LogInv'
  BY <1>1, <1>2, <1>3, AddRecordStep DEF LogInv, WriterAddRecord
<1>4. ASSUME EmitPhysicalRecord PROVE LogInv'
  <2>1. lr' = lr /\ ~lr.on
    BY <1>1, <1>4 DEF EmitPhysicalRecord, WriteInv, WriterInv
  <2> QED
    BY <1>1, <1>2, <1>4, <2>1, EmitStep DEF LogInv
<1>5. ASSUME NEW k \in 0 .. Len(log), Cut(k) PROVE LogInv'
  BY <1>1, <1>2, <1>5, CutStep DEF LogInv, Cut, MayDamage
<1>6. ASSUME NEW p \in 1 .. Len(log), Flip(p) PROVE LogInv'
  BY <1>1, <1>2, <1>6, FlipStep DEF LogInv, Flip, MayDamage
<1>7. ASSUME NEW p \in 1 .. Len(log), NEW q \in p .. Len(log), Zero(p, q) PROVE LogInv'
  BY <1>1, <1>2, <1>7, ZeroStep DEF LogInv, Zero, MayDamage
<1>8. ASSUME NEW offset \in InitialOffsets, NewReader(offset) PROVE LogInv'
  <2>1. WriteInv'
    BY <1>1, <1>8, ReaderStep DEF NewReader
  <2> QED
    BY <1>1, <1>8, <2>1, NewReaderStep DEF LogInv
<1>9. ASSUME ReadRecord PROVE LogInv'
  <2>1. ReadInv'
    BY <1>1, <1>9, TurnStep
  <2>2. lr.on /\ lw.rec = 0
    BY <1>1, <1>9 DEF ReadRecord, WriteInv, WriterInv
  <2>3. WriteInv'
    BY <1>1, <1>9, <2>2, ReaderStep DEF ReadRecord
  <2> QED
    BY <2>1, <2>3 DEF LogInv
<1>10. ASSUME UNCHANGED lfVars PROVE LogInv'
  <2>1. log' = log /\ lw' = lw /\ added' = added /\ lr' = lr
    BY <1>10 DEF lfVars
  <2>2. WriteInv'
    BY <1>1, <2>1, ReaderStep
  <2>3. ReadInv'
    BY <1>1, <2>1 DEF ReadInv, ReaderType, ScratchInv, OutInv, Behind, Written, Consecutive
  <2> QED
    BY <2>2, <2>3 DEF LogInv
<1> QED
  BY <1>3, <1>4, <1>5, <1>6, <1>7, <1>8, <1>9, <1>10 DEF LFNext

\* The reader returns only whole records, each once and in order
\* (log_reader.cc:56-174), whatever was cut, changed, zeroed, unreadable or
\* half written, for every block size, header size, length and initial offset.
THEOREM ReaderReturnsWholeRecords == LFSpec => []OnlyWholeRecords
<1>1. LogInv => OnlyWholeRecords
  BY DEF LogInv, ReadInv, OutInv, OnlyWholeRecords, Consecutive
<1> QED
  BY <1>1, LogInit, LogNext, PTL DEF LFSpec

-----------------------------------------------------------------------------
(* A file that was only cut: where the fragments are among its first m      *)
(* bytes. l and a are the file and its records.                             *)

\* Where in its block offset x is.
InBlock(x) == x % kBlockSize

Of(l, p) == l[p].kind \in {"header", "data"}

\* The offset at which the fragment of byte p starts.
StartOf(l, p) == p - l[p].at

\* A fragment is in one piece, but for the last one, and in one block.
FragmentsIn(l, m) ==
    \A p \in 1 .. m : Of(l, p) =>
        /\ l[p].at \in 1 .. kHeaderSize + l[p].len /\ StartOf(l, p) >= 0
        /\ InBlock(StartOf(l, p)) + kHeaderSize + l[p].len <= kBlockSize
        /\ \A i \in 1 .. kHeaderSize + l[p].len : StartOf(l, p) + i <= m => l[StartOf(l, p) + i] =
              [l[p] EXCEPT !.at = i, !.kind = IF i <= kHeaderSize THEN "header" ELSE "data"]

\* Only where no header fits there is a trailer.
TrailersIn(l, m) == \A p \in 1 .. m : ~Of(l, p) => InBlock(p - 1) > kBlockSize - kHeaderSize

\* Byte q is the last one of a fragment among the first x.
LastOf(l, q, x) == q \in 1 .. x /\ Of(l, q) /\ \A j \in q + 1 .. x : ~Of(l, j)

Unfinished(c) == c.type \in {"first", "middle"}

\* What precedes a fragment: the fragment before it, or the end of a record.
ChainIn(l, m) ==
    \A p \in 1 .. m : Of(l, p) /\ l[p].at = 1 =>
        /\ \A q \in 1 .. p - 1 : LastOf(l, q, p - 1) =>
              (Unfinished(l[q]) <=> l[p].frag > 1) /\ (Unfinished(l[q]) => l[q].rec = l[p].rec)
        /\ l[p].frag > 1 => \E q \in 1 .. p - 1 : LastOf(l, q, p - 1)

\* Where the records of the bytes start.
StartsIn(l, a, m) ==
    \A p \in 1 .. m : Of(l, p) =>
        LET s == a[l[p].rec].start
        IN  /\ s \in 0 .. p - 1 /\ Of(l, s + 1) /\ l[s + 1].at = 1
            /\ l[p].frag = 1 => s = StartOf(l, p)

\* Where the records end that were written whole.
EndsIn(l, a, m) ==
    \A r \in 1 .. Len(a) : a[r].frags > 0 /\ a[r].end <= m =>
        LET e == a[r].end
        IN  e \in 1 .. m /\ Of(l, e) /\ l[e].rec = r /\ ~Unfinished(l[e]) /\ l[e].at = kHeaderSize + l[e].len

Layout(l, a, m) == FragmentsIn(l, m) /\ TrailersIn(l, m) /\ ChainIn(l, m) /\ StartsIn(l, a, m) /\ EndsIn(l, a, m)

\* The file was cut at k, and has grown since if it was opened again.
CutAt(k) == damaged # {} /\ \A d \in damaged : d.kind = "cut" /\ d.first = k

\* Every fragment ends among the first L bytes.
ClosedIn(l, L) ==
    \A p \in 1 .. L : Of(l, p) => l[p].at \in Nat /\ l[p].len \in Nat /\ StartOf(l, p) + kHeaderSize + l[p].len <= L

\* The fragment is the next one of its record, or the first of one.
Follows(l, L, rec, frag) ==
    /\ \A q \in 1 .. L : LastOf(l, q, L) => (Unfinished(l[q]) <=> frag > 1) /\ (frag > 1 => l[q].rec = rec)
    /\ frag > 1 => \E q \in 1 .. L : LastOf(l, q, L)

\* The writer of a file nothing has happened to.
NextFragmentInv ==
    damaged = {} =>
        /\ Layout(log, added, Len(log))
        /\ InBlock(lw.offset) = InBlock(Len(log))
        /\ ClosedIn(log, Len(log)) /\ Follows(log, Len(log), lw.rec, lw.frag)

CutInv ==
    \A k \in Nat : CutAt(k) =>
        /\ k <= Len(log) /\ Layout(log, added, k)
        /\ \A p \in 1 .. k : Of(log, p) => log[p].rec # lw.rec

EndInv ==
    /\ lw.rec = 0 => lw.frag = 0
    /\ \A r \in 1 .. Len(added) : added[r].frags > 0 => added[r].end <= Len(log)

LayoutInv == NextFragmentInv /\ CutInv /\ EndInv

\* Nothing has happened to what the reader reads but a cut.
OnlyCut == lr.on /\ ~lr.ioerror /\ (\A d \in damaged : d.kind = "cut" /\ d.first = Len(log))

\* No fragment lies across offset x.
Boundary(x) == \A p \in 1 .. Len(log) : Of(log, p) /\ p > x => StartOf(log, p) >= x

NextBlock(x) == x - InBlock(x) + kBlockSize

\* The buffer ends with a block or with the file.
Positioned(r) ==
    /\ IF r.eof THEN r.hi >= Len(log) ELSE InBlock(r.hi) = 0
    /\ r.lo < r.hi => r.hi <= NextBlock(r.lo)
    /\ Boundary(r.lo)

BufferInv == Positioned(lr)

\* A record whose start was read and whose end was not is in scratch.
BegunInv ==
    /\ \A q \in 1 .. Len(log) : LastOf(log, q, IF lr.lo < Len(log) THEN lr.lo ELSE Len(log)) /\ Unfinished(log[q]) =>
          lr.in_fragmented \/ lr.done \/ added[log[q].rec].start < lr.initial
    /\ lr.in_fragmented => added[lr.scratch[1].rec].start >= lr.initial /\ Unfinished(log[lr.lo])

PassedInv ==
    /\ \A r \in Complete : added[r].end <= lr.lo => Returned(r) \/ added[r].start < lr.initial
    /\ \A i \in 1 .. Len(lr.out) : added[lr.out[i][1].rec].start >= lr.initial
    /\ lr.initial = 0 => lr.reports = 0
    /\ lr.done => lr.lo >= Len(log)

ProgressInv == OnlyCut => BufferInv /\ BegunInv /\ PassedInv

-----------------------------------------------------------------------------
(* Blocks.                                                                  *)

LEMMA Quotient ==
  ASSUME NEW b \in Nat, b > 0, NEW x \in Nat
  PROVE  x \div b \in Int /\ x % b \in Int /\ x = b * (x \div b) + (x % b) /\ 0 <= x % b /\ x % b < b
  OBVIOUS

LEMMA Multiple ==
  ASSUME NEW b \in Nat, b > 0, NEW k \in Int
  PROVE  b * k \in Int /\ (k >= 1 => b * k >= b) /\ (k <= -1 => b * k <= -b)
  OBVIOUS

LEMMA Difference ==
  ASSUME NEW b \in Int, NEW q \in Int, NEW k \in Int
  PROVE  b * (q - k) = b * q - b * k /\ b * q \in Int /\ b * k \in Int
  OBVIOUS

LEMMA Remainder ==
  ASSUME NEW b \in Nat, b > 0, NEW x \in Nat, NEW q \in Int, NEW r \in Int, x = b * q + r, 0 <= r, r < b
  PROVE  x % b = r
<1>1. PICK k \in Int : k = x \div b
  BY Quotient
<1>2. PICK t \in Int : t = x % b
  BY Quotient
<1>3. x = b * k + t /\ 0 <= t /\ t < b
  BY <1>1, <1>2, Quotient
<1>4. b * (q - k) = t - r
  BY <1>3, Difference
<1>5. q - k \in Int /\ ~(q - k >= 1) /\ ~(q - k <= -1)
  BY <1>3, <1>4, Multiple
<1>6. q = k
  BY <1>5
<1> QED
  BY <1>2, <1>3, <1>6

LEMMA BlockType ==
  ASSUME NEW x \in Nat
  PROVE  InBlock(x) \in Nat /\ InBlock(x) < kBlockSize /\ InBlock(x) <= x
<1>1. InBlock(x) \in Nat /\ InBlock(x) < kBlockSize
  BY ConstFacts, Quotient DEF InBlock
<1>2. x \div kBlockSize \in Int /\ x = kBlockSize * (x \div kBlockSize) + InBlock(x)
  BY ConstFacts, Quotient DEF InBlock
<1>3. PICK k \in Int : k = x \div kBlockSize
  BY <1>2
<1>4. kBlockSize * k \in Int /\ (k <= -1 => kBlockSize * k <= -kBlockSize) /\ (k >= 1 => kBlockSize * k >= kBlockSize)
      /\ (k = 0 => kBlockSize * k = 0)
  BY ConstFacts, Multiple
<1>5. x = kBlockSize * k + InBlock(x)
  BY <1>2, <1>3
<1> QED
  BY ConstFacts, <1>1, <1>4, <1>5

\* The bytes after offset x to the end of its block, and the end.
LEMMA SameBlock ==
  ASSUME NEW x \in Nat, NEW y \in Nat, x <= y
  PROVE  /\ InBlock(x) + (y - x) < kBlockSize => InBlock(y) = InBlock(x) + (y - x)
         /\ InBlock(x) + (y - x) = kBlockSize => InBlock(y) = 0
<1> USE ConstFacts
<1>1. PICK k \in Int : k = x \div kBlockSize
  BY Quotient
<1>2. PICK t \in Int : t = InBlock(x) /\ t = x % kBlockSize
  BY Quotient DEF InBlock
<1>3. x = kBlockSize * k + t /\ 0 <= t /\ t < kBlockSize
  BY <1>1, <1>2, Quotient
<1>4. kBlockSize * k \in Int /\ kBlockSize * (k + 1) = kBlockSize * k + kBlockSize
  OBVIOUS
<1>5. ASSUME t + (y - x) < kBlockSize PROVE InBlock(y) = t + (y - x)
  <2>1. PICK r \in Int : r = t + (y - x)
    OBVIOUS
  <2>2. y = kBlockSize * k + r /\ 0 <= r /\ r < kBlockSize
    BY <1>3, <1>4, <1>5, <2>1
  <2>3. y % kBlockSize = r
    BY <2>2, Remainder
  <2> QED
    BY <2>1, <2>3 DEF InBlock
<1>6. ASSUME t + (y - x) = kBlockSize PROVE InBlock(y) = 0
  <2>1. y = kBlockSize * (k + 1) + 0 /\ k + 1 \in Int
    BY <1>3, <1>4, <1>6
  <2>2. y % kBlockSize = 0
    BY <2>1, Remainder
  <2> QED
    BY <2>2 DEF InBlock
<1> QED
  BY <1>2, <1>5, <1>6

LEMMA NextBlockFacts ==
  ASSUME NEW x \in Nat
  PROVE  /\ NextBlock(x) \in Nat /\ x < NextBlock(x) /\ NextBlock(x) <= x + kBlockSize /\ InBlock(NextBlock(x)) = 0
         /\ \A y \in Nat : x <= y /\ y < NextBlock(x) => NextBlock(y) = NextBlock(x) /\ InBlock(y) = InBlock(x) + (y - x)
         /\ \A y \in Nat : x < y /\ InBlock(y) = 0 => NextBlock(x) <= y
         /\ InBlock(x) = 0 => NextBlock(x) = x + kBlockSize
<1> USE ConstFacts
<1>1. InBlock(x) \in Nat /\ InBlock(x) < kBlockSize /\ InBlock(x) <= x
  BY BlockType
<1>2. /\ NextBlock(x) \in Nat /\ x < NextBlock(x) /\ NextBlock(x) <= x + kBlockSize
      /\ InBlock(x) + (NextBlock(x) - x) = kBlockSize /\ (InBlock(x) = 0 => NextBlock(x) = x + kBlockSize)
  BY <1>1 DEF NextBlock
<1>3. InBlock(NextBlock(x)) = 0
  BY <1>2, SameBlock
<1>4. ASSUME NEW y \in Nat, x <= y, y < NextBlock(x) PROVE NextBlock(y) = NextBlock(x) /\ InBlock(y) = InBlock(x) + (y - x)
  <2>1. InBlock(y) = InBlock(x) + (y - x)
    BY <1>1, <1>2, <1>4, SameBlock
  <2> QED
    BY <1>1, <2>1 DEF NextBlock
<1>5. ASSUME NEW y \in Nat, x < y, InBlock(y) = 0 PROVE NextBlock(x) <= y
  <2>1. y < NextBlock(x) => InBlock(y) = InBlock(x) + (y - x)
    BY <1>4, <1>5
  <2> QED
    BY <1>1, <1>2, <1>5, <2>1
<1> QED
  BY <1>2, <1>3, <1>4, <1>5

-----------------------------------------------------------------------------
(* The layout depends on the bytes and records it speaks of.                *)

LEMMA LastOfSame ==
  ASSUME NEW l, NEW k, NEW x \in Int, \A p \in 1 .. x : k[p] = l[p], NEW q
  PROVE  LastOf(k, q, x) <=> LastOf(l, q, x)
<1>1. ASSUME q \in 1 .. x PROVE \A j \in q + 1 .. x : j \in 1 .. x
  BY <1>1
<1> QED
  BY <1>1 DEF LastOf, Of

\* A file l2 with records a2 that begins with m bytes of l.
LEMMA LayoutSame ==
  ASSUME NEW l, NEW a, NEW m \in Nat, Layout(l, a, m), NEW l2, NEW a2,
         \A p \in 1 .. m : l2[p] = l[p],
         \A p \in 1 .. m : Of(l, p) => l[p].at \in Nat /\ l[p].len \in Nat /\ a2[l[p].rec].start = a[l[p].rec].start,
         \A r \in 1 .. Len(a2) : a2[r].frags > 0 /\ a2[r].end <= m =>
             r \in 1 .. Len(a) /\ a[r].frags > 0 /\ a2[r].end = a[r].end
  PROVE  Layout(l2, a2, m)
<1> USE ConstFacts
<1>1. \A p \in 1 .. m : /\ (Of(l2, p) <=> Of(l, p)) /\ StartOf(l2, p) = StartOf(l, p) /\ l2[p].len = l[p].len
                        /\ (Of(l, p) => StartOf(l, p) \in Nat)
  <2> SUFFICES ASSUME NEW p \in 1 .. m
               PROVE  /\ (Of(l2, p) <=> Of(l, p)) /\ StartOf(l2, p) = StartOf(l, p) /\ l2[p].len = l[p].len
                      /\ (Of(l, p) => StartOf(l, p) \in Nat)
    OBVIOUS
  <2>1. l2[p] = l[p]
    OBVIOUS
  <2>2. Of(l, p) => l[p].at \in Nat /\ StartOf(l, p) >= 0
    BY DEF Layout, FragmentsIn
  <2>3. Of(l, p) => StartOf(l, p) \in Nat
    BY <2>2 DEF StartOf
  <2> QED
    BY <2>1, <2>3 DEF Of, StartOf
<1>2. FragmentsIn(l2, m)
  <2> SUFFICES ASSUME NEW p \in 1 .. m, Of(l, p)
               PROVE  /\ l2[p].at \in 1 .. kHeaderSize + l2[p].len /\ StartOf(l2, p) >= 0
                      /\ InBlock(StartOf(l2, p)) + kHeaderSize + l2[p].len <= kBlockSize
                      /\ \A i \in 1 .. kHeaderSize + l2[p].len : StartOf(l2, p) + i <= m => l2[StartOf(l2, p) + i] =
                            [l2[p] EXCEPT !.at = i, !.kind = IF i <= kHeaderSize THEN "header" ELSE "data"]
    BY <1>1 DEF FragmentsIn
  <2>1. /\ l[p].at \in 1 .. kHeaderSize + l[p].len /\ StartOf(l, p) >= 0
        /\ InBlock(StartOf(l, p)) + kHeaderSize + l[p].len <= kBlockSize
        /\ \A i \in 1 .. kHeaderSize + l[p].len : StartOf(l, p) + i <= m => l[StartOf(l, p) + i] =
              [l[p] EXCEPT !.at = i, !.kind = IF i <= kHeaderSize THEN "header" ELSE "data"]
    BY DEF Layout, FragmentsIn
  <2>2. StartOf(l2, p) = StartOf(l, p) /\ l2[p] = l[p] /\ StartOf(l, p) \in Nat
    BY <1>1
  <2>3. ASSUME NEW i \in 1 .. kHeaderSize + l[p].len, StartOf(l, p) + i <= m
        PROVE  l2[StartOf(l, p) + i] = l[StartOf(l, p) + i]
    <3>1. StartOf(l, p) + i \in 1 .. m
      BY <2>2, <2>3
    <3> QED
      BY <3>1
  <2>4. ASSUME NEW i \in 1 .. kHeaderSize + l[p].len, StartOf(l, p) + i <= m
        PROVE  l2[StartOf(l, p) + i] = [l2[p] EXCEPT !.at = i, !.kind = IF i <= kHeaderSize THEN "header" ELSE "data"]
    BY <2>1, <2>2, <2>3, <2>4, Zenon
  <2> QED
    BY <2>1, <2>2, <2>4
<1>3. TrailersIn(l2, m)
  BY <1>1 DEF Layout, TrailersIn
<1>4. ChainIn(l2, m)
  <2> SUFFICES ASSUME NEW p \in 1 .. m, Of(l, p), l[p].at = 1
               PROVE  /\ \A q \in 1 .. p - 1 : LastOf(l2, q, p - 1) =>
                            (Unfinished(l2[q]) <=> l2[p].frag > 1) /\ (Unfinished(l2[q]) => l2[q].rec = l2[p].rec)
                      /\ l2[p].frag > 1 => \E q \in 1 .. p - 1 : LastOf(l2, q, p - 1)
    BY <1>1 DEF ChainIn
  <2>1. /\ \A q \in 1 .. p - 1 : LastOf(l, q, p - 1) =>
              (Unfinished(l[q]) <=> l[p].frag > 1) /\ (Unfinished(l[q]) => l[q].rec = l[p].rec)
        /\ l[p].frag > 1 => \E q \in 1 .. p - 1 : LastOf(l, q, p - 1)
    BY DEF Layout, ChainIn
  <2>2. \A q \in 1 .. p - 1 : (LastOf(l2, q, p - 1) <=> LastOf(l, q, p - 1)) /\ l2[q] = l[q]
    <3>1. p - 1 \in Int /\ \A j \in 1 .. p - 1 : l2[j] = l[j]
      OBVIOUS
    <3> QED
      BY <3>1, LastOfSame
  <2> QED
    BY <2>1, <2>2
<1>5. StartsIn(l2, a2, m)
  <2> SUFFICES ASSUME NEW p \in 1 .. m, Of(l, p), NEW s, s = a[l[p].rec].start
               PROVE  /\ s \in 0 .. p - 1 /\ Of(l2, s + 1) /\ l2[s + 1].at = 1
                      /\ l2[p].frag = 1 => s = StartOf(l2, p)
    BY <1>1 DEF StartsIn
  <2>1. /\ s \in 0 .. p - 1 /\ Of(l, s + 1) /\ l[s + 1].at = 1
        /\ l[p].frag = 1 => s = StartOf(l, p)
    BY DEF Layout, StartsIn
  <2>2. s + 1 \in 1 .. m
    BY <2>1
  <2> QED
    BY <1>1, <2>1, <2>2
<1>6. EndsIn(l2, a2, m)
  <2> SUFFICES ASSUME NEW r \in 1 .. Len(a2), a2[r].frags > 0, a2[r].end <= m, NEW e, e = a2[r].end
               PROVE  e \in 1 .. m /\ Of(l2, e) /\ l2[e].rec = r /\ ~Unfinished(l2[e]) /\ l2[e].at = kHeaderSize + l2[e].len
    BY DEF EndsIn
  <2>1. r \in 1 .. Len(a) /\ a[r].frags > 0 /\ e = a[r].end
    OBVIOUS
  <2>2. e \in 1 .. m /\ Of(l, e) /\ l[e].rec = r /\ ~Unfinished(l[e]) /\ l[e].at = kHeaderSize + l[e].len
    BY <2>1 DEF Layout, EndsIn
  <2> QED
    BY <1>1, <2>2
<1> QED
  BY <1>2, <1>3, <1>4, <1>5, <1>6 DEF Layout

LEMMA LayoutPrefix ==
  ASSUME NEW l, NEW a \in Seq(Records), NEW m \in Nat, Layout(l, a, m), NEW k \in 0 .. m
  PROVE  Layout(l, a, k)
<1>1. \A p \in 1 .. k : p \in 1 .. m
  OBVIOUS
<1>2. FragmentsIn(l, k)
  <2> SUFFICES ASSUME NEW p \in 1 .. k, Of(l, p), l[p].at \in 1 .. kHeaderSize + l[p].len,
                      NEW i \in 1 .. kHeaderSize + l[p].len, StartOf(l, p) + i <= k
               PROVE  StartOf(l, p) + i <= m
    BY <1>1 DEF Layout, FragmentsIn
  <2>1. l[p].at \in Int /\ StartOf(l, p) \in Int
    BY DEF StartOf
  <2> QED
    BY <2>1
<1>3. TrailersIn(l, k) /\ ChainIn(l, k) /\ StartsIn(l, a, k)
  BY <1>1 DEF Layout, TrailersIn, ChainIn, StartsIn
<1>4. EndsIn(l, a, k)
  <2> SUFFICES ASSUME NEW r \in 1 .. Len(a), a[r].frags > 0, a[r].end <= k, a[r].end \in 1 .. m \/ ~(a[r].end <= m)
               PROVE  a[r].end \in 1 .. k /\ a[r].end <= m
    BY DEF Layout, EndsIn
  <2>1. a[r].end \in Int
    <3>1. a[r] \in Records
      BY ElementOfSeq
    <3> QED
      BY <3>1 DEF Records
  <2> QED
    BY <2>1
<1> QED
  BY <1>2, <1>3, <1>4 DEF Layout

-----------------------------------------------------------------------------
(* The writer.                                                              *)

\* Where in the block the writer puts its trailer and its fragment.
LEMMA WriterPosition ==
  ASSUME NEW n \in Nat, NEW T \in Nat, NEW len \in Nat, NEW next \in Nat, lw.offset \in Nat, lw.offset <= kBlockSize,
         InBlock(lw.offset) = InBlock(n), Placed(T, len, next), T < kHeaderSize, next <= kBlockSize
  PROVE  /\ InBlock(n + T) \in Nat /\ InBlock(n + T) + kHeaderSize + len <= kBlockSize
         /\ InBlock(next) = InBlock(n + T + kHeaderSize + len)
         /\ \A j \in 0 .. T - 1 : InBlock(n + j) > kBlockSize - kHeaderSize
<1> USE ConstFacts
<1>1. InBlock(0) = 0
  BY BlockType
<1>2. lw.offset < kBlockSize => InBlock(lw.offset) = lw.offset
  BY <1>1, SameBlock
<1>3. lw.offset = kBlockSize => InBlock(lw.offset) = 0
  BY <1>1, SameBlock
<1>4. InBlock(n) \in Nat
  BY BlockType
<1>5. InBlock(n + T) \in Nat /\ next = InBlock(n + T) + kHeaderSize + len
  <2>1. CASE T = 0 /\ lw.offset + kHeaderSize <= kBlockSize /\ next = lw.offset + kHeaderSize + len
    <3>1. n + T = n /\ InBlock(n) = lw.offset
      BY <1>2, <2>1
    <3> QED
      BY <1>4, <2>1, <3>1
  <2>2. CASE T = kBlockSize - lw.offset /\ next = kHeaderSize + len
    <3>1. CASE lw.offset = kBlockSize
      <4>1. n + T = n /\ InBlock(n) = 0
        BY <1>3, <2>2, <3>1
      <4> QED
        BY <2>2, <4>1
    <3>2. CASE lw.offset < kBlockSize
      <4>1. InBlock(n) + ((n + T) - n) = kBlockSize /\ n + T \in Nat /\ n <= n + T
        BY <1>2, <2>2, <3>2
      <4>2. InBlock(n + T) = 0
        BY <4>1, SameBlock
      <4> QED
        BY <2>2, <4>2
    <3> QED
      BY <3>1, <3>2
  <2> QED
    BY <2>1, <2>2 DEF Placed
<1>6. InBlock(next) = InBlock(n + T + kHeaderSize + len)
  <2>1. PICK x \in Nat : x = n + T
    OBVIOUS
  <2>2. PICK y \in Nat : y = n + T + kHeaderSize + len
    OBVIOUS
  <2>3. x <= y /\ next = InBlock(x) + (y - x)
    BY <1>5, <2>1, <2>2
  <2>4. InBlock(0) + (next - 0) = next
    BY <1>1
  <2>5. CASE next < kBlockSize
    <3>1. InBlock(y) = next
      BY <2>3, <2>5, SameBlock
    <3>2. InBlock(next) = next
      BY <1>1, <2>4, <2>5, SameBlock
    <3> QED
      BY <2>2, <3>1, <3>2
  <2>6. CASE next = kBlockSize
    <3>1. InBlock(y) = 0
      BY <2>3, <2>6, SameBlock
    <3>2. InBlock(next) = 0
      BY <2>4, <2>6, SameBlock
    <3> QED
      BY <2>2, <3>1, <3>2
  <2> QED
    BY <2>5, <2>6
<1>7. ASSUME NEW j \in 0 .. T - 1 PROVE InBlock(n + j) > kBlockSize - kHeaderSize
  <2>1. T = kBlockSize - lw.offset /\ lw.offset < kBlockSize /\ InBlock(n) = lw.offset
    BY <1>2, <1>7 DEF Placed
  <2>2. InBlock(n) + ((n + j) - n) < kBlockSize /\ n + j \in Nat /\ n <= n + j
    BY <1>7, <2>1
  <2>3. InBlock(n + j) = InBlock(n) + ((n + j) - n)
    BY <2>2, SameBlock
  <2> QED
    BY <1>7, <2>1, <2>3
<1> QED
  BY <1>5, <1>6, <1>7

\* After the L bytes of l there are a trailer of T bytes and a fragment of rec.
Grown(l, L, l2, T, len, n, rec, frag, type) ==
    /\ \A p \in 1 .. L : l2[p] = l[p]
    /\ \A p \in L + 1 .. L + T : ~Of(l2, p)
    /\ \A p \in L + T + 1 .. n :
          /\ Of(l2, p)
          /\ l2[p] = [kind |-> IF p - L - T <= kHeaderSize THEN "header" ELSE "data", rec |-> rec,
                      frag |-> frag, at |-> p - L - T, len |-> len, type |-> type]

\* The bytes of a turn that was not cut short.
LEMMA NewBytes ==
  ASSUME log \in Seq(Cells), NEW T \in Nat, NEW len \in Nat, NEW type \in FragmentTypes, NEW n \in Nat,
         Grows(T, type, len, n), n = Len(log) + T + kHeaderSize + len
  PROVE  /\ Grown(log, Len(log), log', T, len, n, lw.rec, lw.frag, type)
         /\ \A p \in Len(log) + T + 1 .. n : log'[p] \in Cells
<1> USE ConstFacts
<1>1. Len(log) \in Nat
  BY LenProperties
<1>2. ASSUME NEW p \in Len(log) + 1 .. Len(log) + T PROVE ~Of(log', p)
  <2>1. FragmentCell(T, type, len, log'[p], p - Len(log)) /\ p - Len(log) <= T
    BY <1>1 DEF Grows
  <2> QED
    BY <2>1 DEF FragmentCell, Of
<1>3. ASSUME NEW p \in Len(log) + T + 1 .. n
      PROVE  /\ Of(log', p) /\ log'[p] \in Cells
             /\ log'[p] = [kind |-> IF p - Len(log) - T <= kHeaderSize THEN "header" ELSE "data", rec |-> lw.rec,
                           frag |-> lw.frag, at |-> p - Len(log) - T, len |-> len, type |-> type]
  <2>1. FragmentCell(T, type, len, log'[p], p - Len(log)) /\ p - Len(log) > T
    BY <1>1 DEF Grows
  <2>2. log'[p] \in Cells
    <3>1. log' \in Seq(Cells) /\ p \in 1 .. Len(log')
      BY <1>1 DEF Grows
    <3> QED
      BY <3>1, ElementOfSeq
  <2>3. PICK c : c = log'[p]
    OBVIOUS
  <2>9. p \in Int /\ p - Len(log) - T \in Int
    BY <1>1
  <2>4. PICK i \in Int : i = p - Len(log) - T
    BY <2>9, Zenon
  <2>5. /\ c.kind = (IF i <= kHeaderSize THEN "header" ELSE "data") /\ c.rec = lw.rec /\ c.frag = lw.frag
        /\ c.at = i /\ c.len = len /\ c.type = type
    BY <1>1, <2>1, <2>3, <2>4 DEF FragmentCell
  <2>6. c = [kind |-> c.kind, rec |-> c.rec, frag |-> c.frag, at |-> c.at, len |-> c.len, type |-> c.type]
    BY <2>2, <2>3 DEF Cells
  <2>7. c = [kind |-> IF i <= kHeaderSize THEN "header" ELSE "data", rec |-> lw.rec,
             frag |-> lw.frag, at |-> i, len |-> len, type |-> type]
    BY <2>5, <2>6
  <2>8. Of(log', p)
    BY <2>3, <2>5 DEF Of
  <2> QED
    BY <2>2, <2>3, <2>4, <2>7, <2>8
<1>4. \A p \in 1 .. Len(log) : log'[p] = log[p]
  BY DEF Grows
<1> QED
  BY <1>2, <1>3, <1>4, Zenon DEF Grown

\* The trailer is where no header fits, the fragment where it does.
Room(L, T, len) ==
    /\ InBlock(L + T) \in Nat /\ InBlock(L + T) + kHeaderSize + len <= kBlockSize
    /\ \A j \in 0 .. T - 1 : InBlock(L + j) > kBlockSize - kHeaderSize

RecordGrows(l, L, a, a2, T, n, rec, frag, type) ==
    /\ a2[rec].start = IF frag = 1 THEN L + T ELSE a[rec].start
    /\ \A p \in 1 .. L : Of(l, p) => IF l[p].rec = rec THEN frag > 1 ELSE a2[l[p].rec].start = a[l[p].rec].start
    /\ \A r \in 1 .. Len(a2) : a2[r].frags > 0 =>
          IF r = rec THEN a2[r].end = n /\ type \notin {"first", "middle"}
          ELSE r \in 1 .. Len(a) /\ a[r].frags > 0 /\ a2[r].end = a[r].end /\ a[r].end <= L

\* The file grows by a trailer of T bytes and a fragment of rec.
LEMMA Extended ==
  ASSUME NEW l, NEW a, NEW L \in Nat, Layout(l, a, L), NEW l2, NEW a2, NEW T \in Nat, NEW len \in Nat, NEW n \in Nat,
         n = L + T + kHeaderSize + len, NEW rec, NEW frag \in Nat, frag > 0, NEW type,
         ClosedIn(l, L), Grown(l, L, l2, T, len, n, rec, frag, type), Room(L, T, len), Follows(l, L, rec, frag),
         RecordGrows(l, L, a, a2, T, n, rec, frag, type)
  PROVE  Layout(l2, a2, n)
<1> USE ConstFacts
<1>1. \A p \in 1 .. n : p \in 1 .. L \/ p \in L + 1 .. L + T \/ p \in L + T + 1 .. n
  OBVIOUS
<1>2. ASSUME NEW p \in 1 .. L
      PROVE  /\ (Of(l2, p) <=> Of(l, p)) /\ StartOf(l2, p) = StartOf(l, p) /\ l2[p] = l[p]
             /\ (Of(l, p) => StartOf(l, p) \in Nat /\ l[p].len \in Nat /\ StartOf(l, p) + kHeaderSize + l[p].len <= L)
  <2>1. l2[p] = l[p]
    BY DEF Grown
  <2>2. Of(l, p) => l[p].at \in Nat /\ StartOf(l, p) >= 0 /\ l[p].len \in Nat /\ StartOf(l, p) + kHeaderSize + l[p].len <= L
    BY DEF Layout, FragmentsIn, ClosedIn
  <2>3. Of(l, p) => StartOf(l, p) \in Nat
    BY <2>2 DEF StartOf
  <2> QED
    BY <2>1, <2>2, <2>3 DEF Of, StartOf
<1>3. ASSUME NEW p \in L + T + 1 .. n
      PROVE  /\ Of(l2, p) /\ StartOf(l2, p) = L + T /\ l2[p].at = p - L - T /\ l2[p].len = len /\ l2[p].rec = rec
             /\ l2[p].frag = frag /\ l2[p].type = type /\ l2[p].at \in 1 .. kHeaderSize + len
  <2>1. PICK i \in Int : i = p - L - T
    OBVIOUS
  <2>2. l2[p] = [kind |-> IF i <= kHeaderSize THEN "header" ELSE "data", rec |-> rec,
                 frag |-> frag, at |-> i, len |-> len, type |-> type]
    BY <2>1, Zenon DEF Grown
  <2>6. Of(l2, p)
    BY DEF Grown
  <2>3. Of(l2, p) /\ l2[p].at = i /\ l2[p].len = len /\ l2[p].rec = rec /\ l2[p].frag = frag /\ l2[p].type = type
    BY <2>2, <2>6
  <2>4. StartOf(l2, p) = L + T
    BY <2>1, <2>3 DEF StartOf
  <2>5. i \in 1 .. kHeaderSize + len
    BY <2>1
  <2> QED
    BY <2>1, <2>3, <2>4, <2>5
<1>4. FragmentsIn(l2, n)
  <2> SUFFICES ASSUME NEW p \in 1 .. n, Of(l2, p)
               PROVE  /\ l2[p].at \in 1 .. kHeaderSize + l2[p].len /\ StartOf(l2, p) >= 0
                      /\ InBlock(StartOf(l2, p)) + kHeaderSize + l2[p].len <= kBlockSize
                      /\ \A i \in 1 .. kHeaderSize + l2[p].len : StartOf(l2, p) + i <= n => l2[StartOf(l2, p) + i] =
                            [l2[p] EXCEPT !.at = i, !.kind = IF i <= kHeaderSize THEN "header" ELSE "data"]
    BY DEF FragmentsIn
  <2>1. CASE p \in 1 .. L
    <3>1. /\ l[p].at \in 1 .. kHeaderSize + l[p].len /\ StartOf(l, p) >= 0
          /\ InBlock(StartOf(l, p)) + kHeaderSize + l[p].len <= kBlockSize
          /\ \A i \in 1 .. kHeaderSize + l[p].len : StartOf(l, p) + i <= L => l[StartOf(l, p) + i] =
                [l[p] EXCEPT !.at = i, !.kind = IF i <= kHeaderSize THEN "header" ELSE "data"]
      BY <1>2, <2>1 DEF Layout, FragmentsIn
    <3>2. /\ StartOf(l2, p) = StartOf(l, p) /\ l2[p] = l[p] /\ StartOf(l, p) \in Nat /\ l[p].len \in Nat
          /\ StartOf(l, p) + kHeaderSize + l[p].len <= L
      BY <1>2, <2>1
    <3>3. ASSUME NEW i \in 1 .. kHeaderSize + l[p].len
          PROVE  l2[StartOf(l, p) + i] = l[StartOf(l, p) + i] /\ StartOf(l, p) + i <= L
      <4>1. StartOf(l, p) + i \in 1 .. L
        BY <3>2, <3>3
      <4> QED
        BY <4>1 DEF Grown
    <3>4. ASSUME NEW i \in 1 .. kHeaderSize + l[p].len
          PROVE  l2[StartOf(l, p) + i] = [l2[p] EXCEPT !.at = i, !.kind = IF i <= kHeaderSize THEN "header" ELSE "data"]
      BY <3>1, <3>2, <3>3, <3>4, Zenon
    <3> QED
      BY <3>1, <3>2, <3>4
  <2>2. CASE p \in L + T + 1 .. n
    <3>1. /\ StartOf(l2, p) = L + T /\ l2[p].at = p - L - T /\ l2[p].len = len /\ l2[p].at \in 1 .. kHeaderSize + len
      BY <1>3, <2>2
    <3>2. ASSUME NEW i \in 1 .. kHeaderSize + len
          PROVE  l2[L + T + i] = [l2[p] EXCEPT !.at = i, !.kind = IF i <= kHeaderSize THEN "header" ELSE "data"]
      <4>1. PICK x \in Int : x = L + T + i
        OBVIOUS
      <4>2. x \in L + T + 1 .. n /\ x - L - T = i
        BY <3>2, <4>1
      <4>3. l2[x] = [kind |-> IF i <= kHeaderSize THEN "header" ELSE "data", rec |-> rec,
                     frag |-> frag, at |-> i, len |-> len, type |-> type]
        BY <4>2 DEF Grown
      <4>4. \E k, j : l2[p] = [kind |-> k, rec |-> rec, frag |-> frag, at |-> j, len |-> len, type |-> type]
        BY <2>2, Zenon DEF Grown
      <4>5. PICK k, j : l2[p] = [kind |-> k, rec |-> rec, frag |-> frag, at |-> j, len |-> len, type |-> type]
        BY <4>4
      <4>6. PICK kd : kd = IF i <= kHeaderSize THEN "header" ELSE "data"
        OBVIOUS
      <4>7. [l2[p] EXCEPT !.at = i, !.kind = kd] = [kind |-> kd, rec |-> rec, frag |-> frag, at |-> i, len |-> len, type |-> type]
        <5>1. PICK d : d = [kind |-> k, rec |-> rec, frag |-> frag, at |-> i, len |-> len, type |-> type]
          OBVIOUS
        <5>2. [l2[p] EXCEPT !.at = i] = d
          BY <4>5, <5>1
        <5>3. [d EXCEPT !.kind = kd] = [kind |-> kd, rec |-> rec, frag |-> frag, at |-> i, len |-> len, type |-> type]
          BY <5>1
        <5> QED
          BY <5>2, <5>3, Zenon
      <4> QED
        BY <4>1, <4>3, <4>6, <4>7, Zenon
    <3>3. L + T >= 0
      OBVIOUS
    <3>4. InBlock(L + T) + kHeaderSize + len <= kBlockSize
      BY DEF Room
    <3> QED
      BY <3>1, <3>2, <3>3, <3>4, Zenon
  <2>3. ~(p \in L + 1 .. L + T)
    BY DEF Grown
  <2> QED
    BY <1>1, <2>1, <2>2, <2>3
<1>5. TrailersIn(l2, n)
  <2> SUFFICES ASSUME NEW p \in 1 .. n, ~Of(l2, p) PROVE InBlock(p - 1) > kBlockSize - kHeaderSize
    BY DEF TrailersIn
  <2>1. CASE p \in 1 .. L
    BY <1>2, <2>1 DEF Layout, TrailersIn
  <2>2. CASE p \in L + 1 .. L + T
    <3>1. PICK j \in 0 .. T - 1 : p - 1 = L + j
      <4>1. p - 1 - L \in 0 .. T - 1 /\ p - 1 = L + (p - 1 - L)
        BY <2>2
      <4> QED
        BY <4>1
    <3> QED
      BY <3>1 DEF Room
  <2>3. ~(p \in L + T + 1 .. n)
    BY <1>3
  <2> QED
    BY <1>1, <2>1, <2>2, <2>3
<1>6. \A x \in 0 .. L : \A q : LastOf(l2, q, x) <=> LastOf(l, q, x)
  <2> SUFFICES ASSUME NEW x \in 0 .. L, NEW q PROVE LastOf(l2, q, x) <=> LastOf(l, q, x)
    OBVIOUS
  <2>1. x \in Int /\ \A p \in 1 .. x : l2[p] = l[p]
    BY <1>2
  <2> QED
    BY <2>1, LastOfSame
<1>7. \A q : LastOf(l2, q, L + T) <=> LastOf(l, q, L)
  <2> SUFFICES ASSUME NEW q PROVE LastOf(l2, q, L + T) <=> LastOf(l2, q, L)
    BY <1>6
  <2>1. \A j \in L + 1 .. L + T : ~Of(l2, j)
    BY DEF Grown
  <2>2. ASSUME LastOf(l2, q, L + T) PROVE LastOf(l2, q, L)
    <3>1. q \in 1 .. L + T /\ Of(l2, q) /\ \A j \in q + 1 .. L + T : ~Of(l2, j)
      BY <2>2 DEF LastOf
    <3>2. q \in 1 .. L /\ \A j \in q + 1 .. L : ~Of(l2, j)
      BY <2>1, <3>1
    <3> QED
      BY <3>1, <3>2 DEF LastOf
  <2>3. ASSUME LastOf(l2, q, L) PROVE LastOf(l2, q, L + T)
    <3>1. q \in 1 .. L /\ Of(l2, q) /\ \A j \in q + 1 .. L : ~Of(l2, j)
      BY <2>3 DEF LastOf
    <3>2. q \in 1 .. L + T
      BY <3>1
    <3>3. ASSUME NEW j \in q + 1 .. L + T PROVE ~Of(l2, j)
      <4>1. j \in q + 1 .. L \/ j \in L + 1 .. L + T
        BY <3>1
      <4> QED
        BY <2>1, <3>1, <4>1
    <3> QED
      BY <3>1, <3>2, <3>3 DEF LastOf
  <2> QED
    BY <2>2, <2>3
<1>8. ChainIn(l2, n)
  <2> SUFFICES ASSUME NEW p \in 1 .. n, Of(l2, p), l2[p].at = 1
               PROVE  /\ \A q \in 1 .. p - 1 : LastOf(l2, q, p - 1) =>
                            (Unfinished(l2[q]) <=> l2[p].frag > 1) /\ (Unfinished(l2[q]) => l2[q].rec = l2[p].rec)
                      /\ l2[p].frag > 1 => \E q \in 1 .. p - 1 : LastOf(l2, q, p - 1)
    BY DEF ChainIn
  <2>1. CASE p \in 1 .. L
    <3>1. /\ \A q \in 1 .. p - 1 : LastOf(l, q, p - 1) =>
                (Unfinished(l[q]) <=> l[p].frag > 1) /\ (Unfinished(l[q]) => l[q].rec = l[p].rec)
          /\ l[p].frag > 1 => \E q \in 1 .. p - 1 : LastOf(l, q, p - 1)
      BY <1>2, <2>1 DEF Layout, ChainIn
    <3>2. \A q \in 1 .. p - 1 : (LastOf(l2, q, p - 1) <=> LastOf(l, q, p - 1)) /\ l2[q] = l[q]
      <4>1. p - 1 \in 0 .. L /\ \A q \in 1 .. p - 1 : q \in 1 .. L
        BY <2>1
      <4> QED
        BY <1>2, <1>6, <4>1
    <3>3. l2[p] = l[p]
      BY <1>2, <2>1
    <3> QED
      BY <3>1, <3>2, <3>3
  <2>2. CASE p \in L + T + 1 .. n
    <3>1. l2[p].at = p - L - T /\ l2[p].frag = frag /\ l2[p].rec = rec
      BY <1>3, <2>2
    <3>2. p - 1 = L + T
      BY <2>2, <3>1
    <3>3. ASSUME NEW q \in 1 .. L + T, LastOf(l2, q, L + T)
          PROVE  (Unfinished(l2[q]) <=> frag > 1) /\ (Unfinished(l2[q]) => l2[q].rec = rec)
      <4>1. LastOf(l, q, L)
        BY <1>7, <3>3
      <4>2. q \in 1 .. L
        BY <4>1 DEF LastOf
      <4>3. l2[q] = l[q]
        BY <1>2, <4>2
      <4> QED
        BY <4>1, <4>2, <4>3 DEF Follows
    <3>4. ASSUME frag > 1 PROVE \E q \in 1 .. L + T : LastOf(l2, q, L + T)
      <4>1. PICK q \in 1 .. L : LastOf(l, q, L)
        BY <3>4 DEF Follows
      <4>2. q \in 1 .. L + T /\ LastOf(l2, q, L + T)
        BY <1>7, <4>1
      <4> QED
        BY <4>2
    <3> QED
      BY <3>1, <3>2, <3>3, <3>4
  <2>3. ~(p \in L + 1 .. L + T)
    BY DEF Grown
  <2> QED
    BY <1>1, <2>1, <2>2, <2>3
<1>9. StartsIn(l2, a2, n)
  <2> SUFFICES ASSUME NEW p \in 1 .. n, Of(l2, p), NEW s, s = a2[l2[p].rec].start
               PROVE  /\ s \in 0 .. p - 1 /\ Of(l2, s + 1) /\ l2[s + 1].at = 1
                      /\ l2[p].frag = 1 => s = StartOf(l2, p)
    BY DEF StartsIn
  <2>1. CASE p \in 1 .. L
    <3>1. l2[p] = l[p] /\ Of(l, p) /\ StartOf(l2, p) = StartOf(l, p)
      BY <1>2, <2>1
    <3>2. s = a[l[p].rec].start
      <4>1. s = a2[l[p].rec].start
        BY <3>1
      <4> QED
        BY <2>1, <3>1, <4>1 DEF RecordGrows
    <3>3. /\ s \in 0 .. p - 1 /\ Of(l, s + 1) /\ l[s + 1].at = 1
          /\ l[p].frag = 1 => s = StartOf(l, p)
      BY <2>1, <3>1, <3>2 DEF Layout, StartsIn
    <3>4. s + 1 \in 1 .. L
      BY <2>1, <3>3
    <3> QED
      BY <1>2, <3>1, <3>3, <3>4
  <2>2. CASE p \in L + T + 1 .. n
    <3>1. l2[p].rec = rec /\ l2[p].frag = frag /\ StartOf(l2, p) = L + T
      BY <1>3, <2>2
    <3>2. CASE frag = 1
      <4>1. s = L + T /\ s + 1 \in L + T + 1 .. n /\ s \in 0 .. p - 1
        <5>1. s = L + T
          BY <3>1, <3>2 DEF RecordGrows
        <5> QED
          BY <2>2, <5>1
      <4>2. Of(l2, s + 1) /\ l2[s + 1].at = s + 1 - L - T
        BY <1>3, <4>1
      <4> QED
        BY <3>1, <4>1, <4>2
    <3>3. CASE frag > 1
      <4>1. PICK q \in 1 .. L : LastOf(l, q, L)
        BY <3>3 DEF Follows
      <4>2. l[q].rec = rec /\ Of(l, q)
        BY <3>3, <4>1 DEF LastOf, Follows
      <4>3. s = a[l[q].rec].start
        BY <3>1, <3>3, <4>2 DEF RecordGrows
      <4>4. s \in 0 .. q - 1 /\ Of(l, s + 1) /\ l[s + 1].at = 1
        BY <4>2, <4>3 DEF Layout, StartsIn
      <4>5. s + 1 \in 1 .. L /\ s \in 0 .. p - 1
        BY <2>2, <4>4
      <4> QED
        BY <1>2, <3>1, <3>3, <4>4, <4>5
    <3> QED
      BY <3>2, <3>3
  <2>3. ~(p \in L + 1 .. L + T)
    BY DEF Grown
  <2> QED
    BY <1>1, <2>1, <2>2, <2>3
<1>10. EndsIn(l2, a2, n)
  <2> SUFFICES ASSUME NEW r \in 1 .. Len(a2), a2[r].frags > 0, NEW e, e = a2[r].end
               PROVE  e \in 1 .. n /\ Of(l2, e) /\ l2[e].rec = r /\ ~Unfinished(l2[e]) /\ l2[e].at = kHeaderSize + l2[e].len
    BY DEF EndsIn
  <2>1. CASE r = rec
    <3>1. e = n /\ n \in L + T + 1 .. n /\ n \in 1 .. n /\ type \notin {"first", "middle"}
      <4>1. e = n /\ type \notin {"first", "middle"}
        BY <2>1 DEF RecordGrows
      <4> QED
        BY <4>1
    <3>2. Of(l2, n) /\ l2[n].at = n - L - T /\ l2[n].len = len /\ l2[n].rec = rec /\ l2[n].type = type
      BY <1>3, <3>1
    <3> QED
      BY <2>1, <3>1, <3>2 DEF Unfinished
  <2>2. CASE r # rec
    <3>1. r \in 1 .. Len(a) /\ a[r].frags > 0 /\ e = a[r].end /\ e <= L
      BY <2>2 DEF RecordGrows
    <3>2. e \in 1 .. L /\ Of(l, e) /\ l[e].rec = r /\ ~Unfinished(l[e]) /\ l[e].at = kHeaderSize + l[e].len
      BY <3>1 DEF Layout, EndsIn
    <3>3. e \in 1 .. n
      BY ONLY <3>2, n = L + T + kHeaderSize + len, L \in Nat, T \in Nat, len \in Nat, ConstFacts
    <3>4. l2[e] = l[e] /\ Of(l2, e)
      BY <1>2, <3>2, Zenon
    <3> QED
      BY <3>2, <3>3, <3>4, Zenon
  <2> QED
    BY <2>1, <2>2
<1> QED
  BY <1>4, <1>5, <1>8, <1>9, <1>10 DEF Layout

\* What the turn does to the records, for the layout.
LEMMA TurnOfRecord ==
  ASSUME LogType, CellsInv, EndInv, WriterInv, lw.rec # 0, NEW T \in Nat, NEW len \in Nat, NEW next \in Nat, NEW n \in Nat,
         NEW type \in FragmentTypes, TurnDone(T, type, len, next, n)
  PROVE  /\ RecordGrows(log, Len(log), added, added', T, n, lw.rec, lw.frag, type)
         /\ Len(added') = Len(added) /\ lw.rec \in 1 .. Len(added) /\ added'[lw.rec].end = n
         /\ \A r \in 1 .. Len(added) : r # lw.rec => added'[r] = added[r]
<1> USE ConstFacts
<1>1. /\ log \in Seq(Cells) /\ added \in Seq(Records) /\ Len(log) \in Nat /\ Len(added) \in Nat /\ lw.rec = Len(added)
      /\ lw.rec \in 1 .. Len(added) /\ DOMAIN added = 1 .. Len(added) /\ lw.frag \in Nat /\ lw.frag > 0
  <2>1. Len(log) \in Nat /\ Len(added) \in Nat /\ DOMAIN added = 1 .. Len(added)
    BY LenProperties DEF LogType
  <2> QED
    BY <2>1 DEF LogType, Writers
<1>2. PICK s \in Int : /\ s = IF lw.frag = 1 THEN Len(log) + T ELSE added[lw.rec].start
                       /\ added' = [added EXCEPT ![lw.rec] = [start |-> s, end |-> n,
                                                             frags |-> IF type \in {"full", "last"} THEN lw.frag ELSE 0]]
  BY DEF TurnDone
<1>3. PICK f : f = IF type \in {"full", "last"} THEN lw.frag ELSE 0
  OBVIOUS
<1>4. PICK c : c = [start |-> s, end |-> n, frags |-> f]
  OBVIOUS
<1>5. added' = [added EXCEPT ![lw.rec] = c]
  BY <1>2, <1>3, <1>4, Zenon
<1>6. /\ Len(added') = Len(added) /\ added'[lw.rec] = c /\ \A r \in 1 .. Len(added) : r # lw.rec => added'[r] = added[r]
  <2>1. c \in Records
    <3>1. f \in Nat
      BY <1>1, <1>3
    <3> QED
      BY <1>4, <3>1 DEF Records
  <2>2. PICK i \in 1 .. Len(added) : i = lw.rec
    BY <1>1
  <2>3. PICK e : e = [added EXCEPT ![i] = c]
    OBVIOUS
  <2>4. Len(e) = Len(added) /\ \A j \in 1 .. Len(added) : e[j] = IF j = i THEN c ELSE added[j]
    <3>1. added \in Seq(Records)
      BY <1>1
    <3>2. /\ Len([added EXCEPT ![i] = c]) = Len(added)
          /\ \A j \in 1 .. Len(added) : [added EXCEPT ![i] = c][j] = IF j = i THEN c ELSE added[j]
      BY <2>1, <3>1, ExceptSeq
    <3> QED
      BY <2>3, <3>2, Zenon
  <2>5. added' = e
    BY <1>5, <2>2, <2>3, Zenon
  <2> QED
    BY <2>2, <2>4, <2>5
<1>7. c.start = s /\ c.end = n /\ c.frags = f
  BY <1>4
<1>8. f > 0 => type \notin {"first", "middle"}
  BY <1>3 DEF FragmentTypes
<1>9. ASSUME NEW p \in 1 .. Len(log), Of(log, p)
      PROVE  IF log[p].rec = lw.rec THEN lw.frag > 1 ELSE added'[log[p].rec].start = added[log[p].rec].start
  <2>1. Written(p)
    BY <1>9 DEF Of, Written
  <2>2. log[p].rec \in 1 .. Len(added) /\ log[p].frag > 0
    BY <2>1 DEF CellsInv
  <2>3. log[p].rec = lw.rec => log[p].frag < lw.frag
    BY <2>1 DEF WriterInv
  <2>4. log[p].frag \in Nat
    <3>1. log[p] \in Cells
      BY <1>1, ElementOfSeq
    <3> QED
      BY <3>1 DEF Cells
  <2>5. log[p].rec = lw.rec => lw.frag > 1
    BY <1>1, <2>2, <2>3, <2>4
  <2> QED
    BY <1>6, <2>2, <2>5
<1>10. ASSUME NEW r \in 1 .. Len(added), added'[r].frags > 0
       PROVE  IF r = lw.rec THEN added'[r].end = n /\ type \notin {"first", "middle"}
              ELSE r \in 1 .. Len(added) /\ added[r].frags > 0 /\ added'[r].end = added[r].end /\ added[r].end <= Len(log)
  BY <1>6, <1>7, <1>8, <1>10 DEF EndInv
<1>11. added'[lw.rec].start = IF lw.frag = 1 THEN Len(log) + T ELSE added[lw.rec].start
  BY <1>2, <1>6, <1>7
<1> QED
  BY <1>1, <1>6, <1>7, <1>9, <1>10, <1>11 DEF RecordGrows

\* A turn of AddRecord extends the layout.
LEMMA EmitLayout ==
  ASSUME WriteInv, LayoutInv, lw.rec # 0, NEW T \in Nat, NEW len \in Nat, NEW next \in Nat, NEW n \in Nat,
         NEW type \in FragmentTypes, T < kHeaderSize, next <= kBlockSize, Placed(T, len, next), Grows(T, type, len, n),
         TurnDone(T, type, len, next, n)
  PROVE  LayoutInv'
<1> USE ConstFacts
<1>1. /\ log \in Seq(Cells) /\ added \in Seq(Records) /\ Len(log) \in Nat /\ Len(added) \in Nat /\ lw.rec = Len(added)
      /\ lw.offset \in Nat /\ lw.offset <= kBlockSize /\ lw.frag \in Nat /\ lw.frag > 0 /\ lw \in Writers
  <2>1. Len(log) \in Nat /\ Len(added) \in Nat
    BY LenProperties DEF WriteInv, LogType
  <2> QED
    BY <2>1 DEF WriteInv, LogType, Writers
<1>2. /\ RecordGrows(log, Len(log), added, added', T, n, lw.rec, lw.frag, type)
      /\ Len(added') = Len(added) /\ lw.rec \in 1 .. Len(added) /\ added'[lw.rec].end = n
      /\ \A r \in 1 .. Len(added) : r # lw.rec => added'[r] = added[r]
  BY TurnOfRecord DEF WriteInv, LayoutInv
<1>3. n = Len(log) + T + kHeaderSize + len /\ damaged' = damaged /\ Len(log') = n
  BY DEF TurnDone, Grows
<1>4. /\ \A p \in 1 .. Len(log) : log'[p] = log[p]
      /\ Grown(log, Len(log), log', T, len, n, lw.rec, lw.frag, type)
      /\ \A p \in Len(log) + T + 1 .. n : log'[p] \in Cells
  <2>1. log \in Seq(Cells) /\ n = Len(log) + T + kHeaderSize + len
    BY <1>1, <1>3
  <2>2. /\ Grown(log, Len(log), log', T, len, n, lw.rec, lw.frag, type)
        /\ \A p \in Len(log) + T + 1 .. n : log'[p] \in Cells
    BY <2>1, NewBytes
  <2> QED
    BY <2>2, Zenon DEF Grown
<1>5. lw' = IF type \in {"full", "last"} THEN IdleWriter(next)
            ELSE [lw EXCEPT !.offset = next, !.frag = @ + 1, !.left = @ - len]
  BY DEF TurnDone
<1>6. /\ lw'.offset = next
      /\ IF type \in {"full", "last"} THEN lw'.rec = 0 /\ lw'.frag = 0 ELSE lw'.rec = lw.rec /\ lw'.frag = lw.frag + 1
  <2>1. CASE type \in {"full", "last"}
    BY <1>5, <2>1 DEF IdleWriter
  <2>2. CASE type \notin {"full", "last"}
    <3>1. PICK b : b = lw.left - len
      OBVIOUS
    <3>2. lw' = [lw EXCEPT !.offset = next, !.frag = lw.frag + 1, !.left = b]
      BY <1>1, <1>5, <2>2, <3>1
    <3> QED
      BY <1>1, <2>2, <3>2 DEF Writers
  <2> QED
    BY <2>1, <2>2
<1>7. EndInv'
  <2>1. lw'.rec = 0 => lw'.frag = 0
    BY <1>1, <1>2, <1>6
  <2>2. ASSUME NEW r \in 1 .. Len(added'), added'[r].frags > 0 PROVE added'[r].end <= Len(log')
    <3>1. CASE r = lw.rec
      BY <1>2, <1>3, <3>1
    <3>2. CASE r # lw.rec
      <4>1. added'[r] = added[r] /\ added[r].frags > 0 /\ r \in 1 .. Len(added)
        BY <1>2, <2>2, <3>2
      <4>2. added[r].end <= Len(log)
        BY <4>1 DEF LayoutInv, EndInv
      <4>3. added[r].end \in Int
        <5>1. added[r] \in Records
          BY <1>1, <4>1, ElementOfSeq
        <5> QED
          BY <5>1 DEF Records
      <4> QED
        BY <1>1, <1>3, <4>1, <4>2, <4>3
    <3> QED
      BY <3>1, <3>2
  <2> QED
    BY <2>1, <2>2 DEF EndInv
<1>8. NextFragmentInv'
  <2> SUFFICES ASSUME damaged = {}
               PROVE  /\ Layout(log', added', n) /\ InBlock(lw'.offset) = InBlock(n)
                      /\ ClosedIn(log', n) /\ Follows(log', n, lw'.rec, lw'.frag)
    BY <1>3 DEF NextFragmentInv
  <2>1. /\ Layout(log, added, Len(log)) /\ InBlock(lw.offset) = InBlock(Len(log))
        /\ ClosedIn(log, Len(log)) /\ Follows(log, Len(log), lw.rec, lw.frag)
    BY DEF LayoutInv, NextFragmentInv
  <2>2. Room(Len(log), T, len) /\ InBlock(next) = InBlock(n)
    <3>1. PICK N \in Nat : N = Len(log)
      BY <1>1
    <3>2. InBlock(lw.offset) = InBlock(N)
      BY <2>1, <3>1
    <3>3. /\ InBlock(N + T) \in Nat /\ InBlock(N + T) + kHeaderSize + len <= kBlockSize
          /\ InBlock(next) = InBlock(N + T + kHeaderSize + len)
          /\ \A j \in 0 .. T - 1 : InBlock(N + j) > kBlockSize - kHeaderSize
      BY <1>1, <3>2, WriterPosition
    <3>4. n = N + T + kHeaderSize + len
      BY <1>3, <3>1
    <3> QED
      BY <3>1, <3>3, <3>4, Zenon DEF Room
  <2>3. Layout(log', added', n)
    BY <1>1, <1>2, <1>3, <1>4, <2>1, <2>2, Extended
  <2>4. ASSUME NEW p \in Len(log) + T + 1 .. n
        PROVE  /\ Of(log', p) /\ log'[p].at = p - Len(log) - T /\ log'[p].len = len /\ log'[p].rec = lw.rec
               /\ log'[p].type = type
    <3>1. PICK k : log'[p] = [kind |-> k, rec |-> lw.rec, frag |-> lw.frag, at |-> p - Len(log) - T, len |-> len, type |-> type]
      BY <1>4, Zenon DEF Grown
    <3>2. Of(log', p)
      BY <1>4 DEF Grown
    <3> QED
      BY <3>1, <3>2
  <2>5. ClosedIn(log', n)
    <3> SUFFICES ASSUME NEW p \in 1 .. n, Of(log', p)
                 PROVE  log'[p].at \in Nat /\ log'[p].len \in Nat /\ StartOf(log', p) + kHeaderSize + log'[p].len <= n
      BY DEF ClosedIn
    <3>1. CASE p \in 1 .. Len(log)
      <4>1. log'[p] = log[p] /\ Of(log, p)
        BY <1>4, <3>1 DEF Of
      <4>2. log[p].at \in Nat /\ log[p].len \in Nat /\ StartOf(log, p) + kHeaderSize + log[p].len <= Len(log)
        BY <2>1, <3>1, <4>1 DEF ClosedIn
      <4>3. StartOf(log', p) = StartOf(log, p) /\ StartOf(log, p) \in Int
        BY <4>1, <4>2 DEF StartOf
      <4> QED
        BY <1>1, <1>3, <4>1, <4>2, <4>3
    <3>2. CASE p \in Len(log) + T + 1 .. n
      <4>1. log'[p].at = p - Len(log) - T /\ log'[p].len = len
        BY <2>4, <3>2
      <4>2. PICK N \in Nat : N = Len(log)
        BY <1>1
      <4>3. PICK z \in Nat : z = p /\ N + T + 1 <= z /\ z <= n
        BY <3>2, <4>2
      <4>4. PICK a \in Int : a = z - N - T
        BY <4>3
      <4>5. a \in Nat /\ z - a + kHeaderSize + len <= n
        <5>1. n = N + T + kHeaderSize + len
          BY <1>3, <4>2, Zenon
        <5> QED
          BY ONLY <4>3, <4>4, <5>1, ConstFacts, N \in Nat, T \in Nat, z \in Nat, a \in Int, n \in Nat, len \in Nat
      <4>6. log'[p].at = a /\ log'[p].len = len /\ StartOf(log', p) = z - a
        BY <4>1, <4>2, <4>3, <4>4, Zenon DEF StartOf
      <4> QED
        BY <4>5, <4>6, Zenon
    <3>3. ~(p \in Len(log) + 1 .. Len(log) + T)
      BY <1>4 DEF Grown
    <3> QED
      BY <1>1, <1>3, <3>1, <3>2, <3>3
  <2>6. Follows(log', n, lw'.rec, lw'.frag)
    <3>1. n \in Len(log) + T + 1 .. n /\ n \in 1 .. n
      BY <1>1, <1>3
    <3>2. Of(log', n) /\ log'[n].rec = lw.rec /\ log'[n].type = type
      BY <2>4, <3>1
    <3>3. LastOf(log', n, n)
      BY <3>1, <3>2 DEF LastOf
    <3>4. ASSUME NEW q \in 1 .. n, LastOf(log', q, n) PROVE q = n
      <4>1. q < n => n \in q + 1 .. n
        OBVIOUS
      <4> QED
        BY <3>2, <3>4, <4>1 DEF LastOf
    <3>5. (Unfinished(log'[n]) <=> lw'.frag > 1) /\ (lw'.frag > 1 => log'[n].rec = lw'.rec)
      BY <1>1, <1>6, <3>2 DEF Unfinished, FragmentTypes
    <3> QED
      BY <3>1, <3>3, <3>4, <3>5 DEF Follows
  <2> QED
    BY <1>6, <2>2, <2>3, <2>5, <2>6
<1>9. CutInv'
  <2> SUFFICES ASSUME NEW k \in Nat, CutAt(k)'
               PROVE  /\ k <= Len(log') /\ Layout(log', added', k)
                      /\ \A p \in 1 .. k : Of(log', p) => log'[p].rec # lw'.rec
    BY DEF CutInv
  <2>1. CutAt(k)
    BY <1>3 DEF CutAt
  <2>2. k <= Len(log) /\ Layout(log, added, k) /\ \A p \in 1 .. k : Of(log, p) => log[p].rec # lw.rec
    BY <2>1 DEF LayoutInv, CutInv
  <2>3. ASSUME NEW p \in 1 .. k, Of(log, p)
        PROVE  /\ log[p].at \in Nat /\ log[p].len \in Nat /\ added'[log[p].rec].start = added[log[p].rec].start
               /\ log[p].rec # lw.rec /\ log[p].rec \in 1 .. Len(added)
    <3>1. p \in 1 .. Len(log)
      BY <1>1, <2>2
    <3>2. log[p] \in Cells
      BY <1>1, <3>1, ElementOfSeq
    <3>3. log[p].rec \in 1 .. Len(added)
      BY <2>3, <3>1 DEF WriteInv, CellsInv, Written, Of
    <3>4. log[p].rec # lw.rec
      BY <2>2, <2>3
    <3> QED
      BY <1>2, <3>2, <3>3, <3>4 DEF Cells
  <2>4. ASSUME NEW r \in 1 .. Len(added'), added'[r].frags > 0, added'[r].end <= k
        PROVE  r \in 1 .. Len(added) /\ added[r].frags > 0 /\ added'[r].end = added[r].end
    <3>1. r # lw.rec
      BY <1>1, <1>2, <1>3, <2>2, <2>4
    <3> QED
      BY <1>2, <2>4, <3>1
  <2>5. \A p \in 1 .. k : log'[p] = log[p]
    BY <1>1, <1>4, <2>2
  <2>6. Layout(log', added', k)
    BY <2>2, <2>3, <2>4, <2>5, LayoutSame
  <2>7. ASSUME NEW p \in 1 .. k, Of(log', p) PROVE log'[p].rec # lw'.rec
    <3>1. log'[p] = log[p] /\ Of(log, p)
      BY <2>5, <2>7 DEF Of
    <3> QED
      BY <1>1, <1>6, <2>3, <3>1
  <2> QED
    BY <1>1, <1>3, <2>2, <2>6, <2>7
<1> QED
  BY <1>7, <1>8, <1>9 DEF LayoutInv

LEMMA EmitKeeps ==
  ASSUME WriteInv, LayoutInv, EmitPhysicalRecord
  PROVE  LayoutInv'
<1> USE ConstFacts
<1>1. lw.rec # 0
  BY DEF EmitPhysicalRecord
<1>2. PICK T, len, next, n \in Nat : \E type \in FragmentTypes :
            /\ T < kHeaderSize /\ next <= kBlockSize /\ len <= lw.left /\ Placed(T, len, next)
            /\ lw.frag = 1 <=> type \in {"full", "first"}
            /\ Grows(T, type, len, n)
            /\ TurnDone(T, type, len, next, n) \/ TurnFailed(T, len, next, n)
  BY TurnOfWriter DEF WriteInv
<1>3. PICK type \in FragmentTypes :
            /\ T < kHeaderSize /\ next <= kBlockSize /\ Placed(T, len, next) /\ Grows(T, type, len, n)
            /\ TurnDone(T, type, len, next, n) \/ TurnFailed(T, len, next, n)
  BY <1>2
<1>4. CASE TurnDone(T, type, len, next, n)
  BY <1>1, <1>3, <1>4, EmitLayout
<1>5. CASE TurnFailed(T, len, next, n)
  <2>1. PICK d \in damaged' : d.kind = "fail"
    BY <1>5 DEF TurnFailed
  <2>2. NextFragmentInv'
    BY <2>1 DEF NextFragmentInv
  <2>3. CutInv'
    BY <2>1 DEF CutInv, CutAt
  <2>4. lw'.rec = 0 /\ lw'.frag = 0 /\ added' = added
    BY <1>5 DEF TurnFailed, IdleWriter
  <2>5. Len(log) \in Nat /\ Len(log') = n /\ n >= Len(log)
    BY <1>3, LenProperties DEF Grows, WriteInv, LogType
  <2>6. ASSUME NEW r \in 1 .. Len(added), added[r].frags > 0 PROVE added[r].end <= Len(log')
    <3>1. added[r].end <= Len(log)
      BY <2>6 DEF LayoutInv, EndInv
    <3>2. added[r] \in Records
      BY ElementOfSeq DEF WriteInv, LogType
    <3>3. added[r].end \in Int
      BY <3>2 DEF Records
    <3> QED
      BY <2>5, <3>1, <3>3
  <2>7. EndInv'
    BY <2>4, <2>6 DEF EndInv
  <2> QED
    BY <2>2, <2>3, <2>7 DEF LayoutInv
<1> QED
  BY <1>3, <1>4, <1>5

LEMMA AddRecordKeeps ==
  ASSUME WriteInv, LayoutInv, NEW k \in Lengths, WriterAddRecord(k)
  PROVE  LayoutInv'
<1>1. /\ log \in Seq(Cells) /\ added \in Seq(Records) /\ Len(log) \in Nat /\ Len(added) \in Nat /\ lw \in Writers
      /\ lw.rec = 0 /\ lw.frag = 0
  <2>1. Len(log) \in Nat /\ Len(added) \in Nat
    BY LenProperties DEF WriteInv, LogType
  <2> QED
    BY <2>1 DEF WriteInv, LogType, WriterAddRecord, LayoutInv, EndInv
<1>2. PICK c : c = [start |-> -1, end |-> -1, frags |-> 0]
  OBVIOUS
<1>3. log' = log /\ damaged' = damaged /\ added' = Append(added, c) /\ lw' = [lw EXCEPT !.rec = Len(added) + 1, !.frag = 1, !.left = k]
  BY <1>2 DEF WriterAddRecord
<1>4. lw'.rec = Len(added) + 1 /\ lw'.frag = 1 /\ lw'.offset = lw.offset
  BY <1>1, <1>3 DEF Writers
<1>5. Len(added') = Len(added) + 1 /\ \A r \in 1 .. Len(added) : added'[r] = added[r]
  <2>1. c \in Records
    BY <1>2 DEF Records
  <2> QED
    BY <1>1, <1>3, <2>1, AppendProperties
<1>6. ~(added'[Len(added) + 1].frags > 0)
  <2>1. c \in Records /\ c.frags = 0
    BY <1>2 DEF Records
  <2>2. added'[Len(added) + 1] = c
    BY <1>1, <1>3, <2>1, AppendProperties
  <2> QED
    BY <2>1, <2>2
<1>7. ASSUME NEW r \in 1 .. Len(added'), added'[r].frags > 0
      PROVE  r \in 1 .. Len(added) /\ added[r].frags > 0 /\ added'[r] = added[r]
  <2>1. r # Len(added) + 1
    BY <1>6, <1>7
  <2>2. r \in 1 .. Len(added)
    BY <1>1, <1>5, <2>1
  <2> QED
    BY <1>5, <1>7, <2>2
<1>8. ASSUME NEW p \in 1 .. Len(log), Of(log, p)
      PROVE  /\ log[p].at \in Nat /\ log[p].len \in Nat /\ added'[log[p].rec].start = added[log[p].rec].start
             /\ log[p].rec \in 1 .. Len(added)
  <2>1. log[p] \in Cells
    BY <1>1, ElementOfSeq
  <2>2. log[p].rec \in 1 .. Len(added)
    BY <1>8 DEF WriteInv, CellsInv, Written, Of
  <2> QED
    BY <1>5, <2>1, <2>2 DEF Cells
<1>9. ASSUME NEW m \in 0 .. Len(log), Layout(log, added, m) PROVE Layout(log', added', m)
  <2>1. m \in Nat /\ \A p \in 1 .. m : p \in 1 .. Len(log)
    BY <1>1
  <2>2. \A p \in 1 .. m : Of(log, p) =>
            log[p].at \in Nat /\ log[p].len \in Nat /\ added'[log[p].rec].start = added[log[p].rec].start
    BY <1>8, <2>1
  <2>3. \A r \in 1 .. Len(added') : added'[r].frags > 0 /\ added'[r].end <= m =>
             r \in 1 .. Len(added) /\ added[r].frags > 0 /\ added'[r].end = added[r].end
    BY <1>7
  <2>4. \A p \in 1 .. m : log'[p] = log[p]
    BY <1>3
  <2> QED
    BY <1>9, <2>1, <2>2, <2>3, <2>4, LayoutSame
<1>10. NextFragmentInv'
  <2> SUFFICES ASSUME damaged = {}
               PROVE  /\ Layout(log', added', Len(log)) /\ InBlock(lw.offset) = InBlock(Len(log))
                      /\ ClosedIn(log, Len(log)) /\ Follows(log, Len(log), lw'.rec, lw'.frag)
    BY <1>3, <1>4 DEF NextFragmentInv
  <2>1. /\ Layout(log, added, Len(log)) /\ InBlock(lw.offset) = InBlock(Len(log))
        /\ ClosedIn(log, Len(log)) /\ Follows(log, Len(log), lw.rec, lw.frag)
    BY DEF LayoutInv, NextFragmentInv
  <2>2. Len(log) \in 0 .. Len(log)
    BY <1>1
  <2>3. Layout(log', added', Len(log))
    BY <1>9, <2>1, <2>2
  <2>4. Follows(log, Len(log), lw'.rec, lw'.frag)
    BY <1>1, <1>4, <2>1 DEF Follows
  <2> QED
    BY <2>1, <2>3, <2>4
<1>11. CutInv'
  <2> SUFFICES ASSUME NEW m \in Nat, CutAt(m)'
               PROVE  /\ m <= Len(log') /\ Layout(log', added', m)
                      /\ \A p \in 1 .. m : Of(log', p) => log'[p].rec # lw'.rec
    BY DEF CutInv
  <2>1. CutAt(m)
    BY <1>3 DEF CutAt
  <2>2. m <= Len(log) /\ Layout(log, added, m)
    BY <2>1 DEF LayoutInv, CutInv
  <2>3. m \in 0 .. Len(log) /\ \A p \in 1 .. m : p \in 1 .. Len(log)
    BY <1>1, <2>2
  <2>4. ASSUME NEW p \in 1 .. m, Of(log, p) PROVE log[p].rec # lw'.rec
    BY <1>1, <1>4, <1>8, <2>3, <2>4
  <2> QED
    BY <1>3, <1>9, <2>2, <2>3, <2>4
<1>12. EndInv'
  <2>1. lw'.rec # 0
    BY <1>1, <1>4
  <2>2. ASSUME NEW r \in 1 .. Len(added'), added'[r].frags > 0 PROVE added'[r].end <= Len(log')
    BY <1>3, <1>7, <2>2 DEF LayoutInv, EndInv
  <2> QED
    BY <2>1, <2>2 DEF EndInv
<1> QED
  BY <1>10, <1>11, <1>12 DEF LayoutInv

LEMMA CutKeeps ==
  ASSUME WriteInv, LayoutInv, NEW k \in 0 .. Len(log), Cut(k)
  PROVE  LayoutInv'
<1> USE ConstFacts
<1>1. log \in Seq(Cells) /\ added \in Seq(Records) /\ Len(log) \in Nat /\ Len(added) \in Nat /\ k \in Nat
  BY LenProperties DEF WriteInv, LogType
<1>2. log' = SubSeq(log, 1, k) /\ added' = Kept(k) /\ lw' = [IdleWriter(k % kBlockSize) EXCEPT !.open = "reopen" \in Damages]
  BY DEF Cut
<1>3. Len(log') = k /\ \A p \in 1 .. k : log'[p] = log[p]
  <2>1. \A p \in 1 .. k : log[p] \in Cells
    BY <1>1, ElementOfSeq
  <2> QED
    BY <1>1, <1>2, <2>1, SubSeqProperties
<1>4. lw'.rec = 0 /\ lw'.frag = 0
  <2>1. lw' = [open |-> "reopen" \in Damages, offset |-> k % kBlockSize, rec |-> 0, frag |-> 0, left |-> 0]
    BY <1>2 DEF IdleWriter
  <2> QED
    BY <2>1
<1>5. /\ Len(added') = Len(added)
      /\ \A r \in 1 .. Len(added) : added'[r] = IF added[r].end <= k THEN added[r] ELSE [added[r] EXCEPT !.frags = 0]
  BY <1>1, <1>2 DEF Kept
<1>6. ASSUME NEW r \in 1 .. Len(added)
      PROVE  /\ added'[r].start = added[r].start
             /\ added'[r].frags > 0 => added[r].end <= k /\ added'[r] = added[r]
  <2>1. added[r] \in Records
    BY <1>1, ElementOfSeq
  <2>2. [added[r] EXCEPT !.frags = 0].start = added[r].start /\ [added[r] EXCEPT !.frags = 0].frags = 0
    BY <2>1 DEF Records
  <2>3. PICK c : c = [added[r] EXCEPT !.frags = 0]
    OBVIOUS
  <2>4. c.start = added[r].start /\ c.frags = 0
    BY <2>2, <2>3, Zenon
  <2>5. added'[r] = IF added[r].end <= k THEN added[r] ELSE c
    BY <1>5, <2>3, Zenon
  <2> QED
    BY <2>4, <2>5
<1>7. PICK d \in damaged' : d.kind = "cut" /\ d.first = k
  <2>1. damaged' = damaged \cup {[kind |-> "cut", first |-> k, last |-> k]}
    BY DEF Cut
  <2>2. [kind |-> "cut", first |-> k, last |-> k] \in damaged'
    BY <2>1
  <2>3. [kind |-> "cut", first |-> k, last |-> k].kind = "cut" /\ [kind |-> "cut", first |-> k, last |-> k].first = k
    OBVIOUS
  <2> QED
    BY <2>2, <2>3
<1>8. damaged \subseteq damaged'
  BY DEF Cut
<1>9. NextFragmentInv'
  BY <1>7 DEF NextFragmentInv
<1>10. EndInv'
  BY <1>3, <1>4, <1>5, <1>6 DEF EndInv
<1>11. CutInv'
  <2> SUFFICES ASSUME NEW m \in Nat, CutAt(m)'
               PROVE  /\ m <= Len(log') /\ Layout(log', added', m)
                      /\ \A p \in 1 .. m : Of(log', p) => log'[p].rec # lw'.rec
    BY DEF CutInv
  <2>1. m = k
    BY <1>7 DEF CutAt
  <2>2. Layout(log, added, k)
    <3>1. CASE damaged = {}
      <4>1. Layout(log, added, Len(log))
        BY <3>1 DEF LayoutInv, NextFragmentInv
      <4> QED
        BY <1>1, <4>1, LayoutPrefix
    <3>2. CASE damaged # {}
      <4>1. CutAt(k)
        BY <1>8, <2>1, <3>2 DEF CutAt
      <4> QED
        BY <1>1, <4>1 DEF LayoutInv, CutInv
    <3> QED
      BY <3>1, <3>2
  <2>3. ASSUME NEW p \in 1 .. k, Of(log, p)
        PROVE  /\ log[p].at \in Nat /\ log[p].len \in Nat /\ added'[log[p].rec].start = added[log[p].rec].start
               /\ log[p].rec # 0
    <3>1. p \in 1 .. Len(log)
      BY <1>1
    <3>2. log[p] \in Cells
      BY <1>1, <3>1, ElementOfSeq
    <3>3. log[p].rec \in 1 .. Len(added)
      BY <2>3, <3>1 DEF WriteInv, CellsInv, Written, Of
    <3> QED
      BY <1>6, <3>2, <3>3 DEF Cells
  <2>4. \A r \in 1 .. Len(added') : added'[r].frags > 0 /\ added'[r].end <= k =>
             r \in 1 .. Len(added) /\ added[r].frags > 0 /\ added'[r].end = added[r].end
    BY <1>5, <1>6
  <2>5. Layout(log', added', k)
    BY <1>1, <1>3, <2>2, <2>3, <2>4, LayoutSame
  <2>6. ASSUME NEW p \in 1 .. k, Of(log', p) PROVE log'[p].rec # lw'.rec
    <3>1. log'[p] = log[p] /\ Of(log, p)
      BY <1>3, <2>6 DEF Of
    <3> QED
      BY <1>4, <2>3, <3>1
  <2> QED
    BY <1>1, <1>3, <2>1, <2>5, <2>6
<1> QED
  BY <1>9, <1>10, <1>11 DEF LayoutInv

\* What changes bytes is no cut.
LEMMA DamageKeeps ==
  ASSUME WriteInv, LayoutInv, Len(log') = Len(log), UNCHANGED added, lw' = [lw EXCEPT !.open = FALSE],
         \E d \in damaged' : d.kind # "cut"
  PROVE  LayoutInv'
<1>1. NextFragmentInv' /\ CutInv'
  BY DEF NextFragmentInv, CutInv, CutAt
<1>2. lw'.rec = lw.rec /\ lw'.frag = lw.frag
  BY DEF WriteInv, LogType, Writers
<1>3. EndInv'
  BY <1>2 DEF LayoutInv, EndInv
<1> QED
  BY <1>1, <1>3 DEF LayoutInv

LEMMA FlipKeeps ==
  ASSUME WriteInv, LayoutInv, NEW p \in 1 .. Len(log), Flip(p)
  PROVE  LayoutInv'
<1>1. log \in Seq(Cells)
  BY DEF WriteInv, LogType
<1>2. Len(log') = Len(log)
  <2>1. log' = [log EXCEPT ![p] = BadCell] /\ BadCell \in Cells
    BY DEF Flip, BadCell, ZeroCell, Cells
  <2> HIDE DEF BadCell
  <2> QED
    BY <1>1, <2>1, ExceptSeq
<1>3. PICK k : k = IF log[p].kind = "data" THEN "flip data" ELSE "flip"
  OBVIOUS
<1>4. [kind |-> k, first |-> p - 1, last |-> p - 1] \in damaged'
  BY <1>3 DEF Flip
<1>5. [kind |-> k, first |-> p - 1, last |-> p - 1].kind # "cut"
  BY <1>3
<1>6. \E d \in damaged' : d.kind # "cut"
  BY <1>4, <1>5
<1> QED
  BY <1>2, <1>6, DamageKeeps DEF Flip

LEMMA ZeroKeeps ==
  ASSUME WriteInv, LayoutInv, NEW p \in 1 .. Len(log), NEW q \in p .. Len(log), Zero(p, q)
  PROVE  LayoutInv'
<1>1. log \in Seq(Cells) /\ Len(log) \in Nat
  BY LenProperties DEF WriteInv, LogType
<1>2. Len(log') = Len(log)
  BY <1>1 DEF Zero
<1>3. [kind |-> "zero", first |-> p - 1, last |-> q - 1] \in damaged'
  BY DEF Zero
<1>4. [kind |-> "zero", first |-> p - 1, last |-> q - 1].kind # "cut"
  OBVIOUS
<1>5. \E d \in damaged' : d.kind # "cut"
  BY <1>3, <1>4
<1> QED
  BY <1>2, <1>5, DamageKeeps DEF Zero

LEMMA ReaderKeeps ==
  ASSUME LayoutInv, UNCHANGED <<log, lw, added, damaged>>
  PROVE  LayoutInv'
<1>1. \A k : CutAt(k)' <=> CutAt(k)
  BY DEF CutAt
<1> QED
  BY <1>1 DEF LayoutInv, NextFragmentInv, CutInv, EndInv

-----------------------------------------------------------------------------
(* Where the reader is among the fragments.                                 *)

\* The fragment of a byte.
LEMMA FragmentOf ==
  ASSUME log \in Seq(Cells), Layout(log, added, Len(log)), NEW p \in 1 .. Len(log), Of(log, p)
  PROVE  /\ log[p] \in Cells /\ log[p].len \in Nat /\ log[p].at \in 1 .. kHeaderSize + log[p].len
         /\ StartOf(log, p) \in Nat /\ p = StartOf(log, p) + log[p].at /\ StartOf(log, p) + 1 \in 1 .. Len(log)
         /\ InBlock(StartOf(log, p)) + kHeaderSize + log[p].len <= kBlockSize
         /\ \A i \in 1 .. kHeaderSize + log[p].len : StartOf(log, p) + i <= Len(log) => log[StartOf(log, p) + i] =
               [log[p] EXCEPT !.at = i, !.kind = IF i <= kHeaderSize THEN "header" ELSE "data"]
<1> USE ConstFacts
<1>1. log[p] \in Cells /\ Len(log) \in Nat
  BY ElementOfSeq, LenProperties
<1>2. log[p].at \in Nat /\ log[p].len \in Nat
  BY <1>1 DEF Cells
<1>3. /\ log[p].at \in 1 .. kHeaderSize + log[p].len /\ StartOf(log, p) >= 0
      /\ InBlock(StartOf(log, p)) + kHeaderSize + log[p].len <= kBlockSize
      /\ \A i \in 1 .. kHeaderSize + log[p].len : StartOf(log, p) + i <= Len(log) => log[StartOf(log, p) + i] =
            [log[p] EXCEPT !.at = i, !.kind = IF i <= kHeaderSize THEN "header" ELSE "data"]
  BY DEF Layout, FragmentsIn
<1>4. StartOf(log, p) \in Nat /\ p = StartOf(log, p) + log[p].at /\ StartOf(log, p) + 1 \in 1 .. Len(log)
  <2>1. PICK a \in Int : a = log[p].at
    BY <1>2
  <2>2. PICK len \in Nat : len = log[p].len
    BY <1>2
  <2>3. StartOf(log, p) = p - a /\ a \in 1 .. kHeaderSize + len
    BY <1>3, <2>1, <2>2 DEF StartOf
  <2>4. PICK st : st = StartOf(log, p)
    OBVIOUS
  <2>7. a >= 1
    BY <2>3
  <2>5. st = p - a /\ st >= 0 /\ a >= 1
    BY <1>3, <2>3, <2>4, <2>7, Zenon
  <2>6. st \in Nat /\ p = st + a /\ st + 1 \in 1 .. Len(log)
    BY <1>1, <2>5
  <2> QED
    BY <2>1, <2>4, <2>6
<1> QED
  BY <1>1, <1>2, <1>3, <1>4

\* A fragment starts at x: its bytes are up to n, and all others are of later
\* fragments.
LEMMA FragmentAt ==
  ASSUME log \in Seq(Cells), Layout(log, added, Len(log)), NEW x \in Nat, Boundary(x), x + 1 \in 1 .. Len(log),
         Of(log, x + 1), log[x + 1].at = 1, NEW n, n = x + kHeaderSize + log[x + 1].len,
         NEW p \in 1 .. Len(log), Of(log, p), p > x
  PROVE  /\ p <= n => /\ StartOf(log, p) = x /\ log[p].len = log[x + 1].len /\ log[p].rec = log[x + 1].rec
                      /\ log[p].frag = log[x + 1].frag /\ log[p].type = log[x + 1].type
         /\ p > n => StartOf(log, p) >= n
<1> USE ConstFacts
<1>1. PICK st \in Nat : st = StartOf(log, p)
  BY FragmentOf
<1>2. st >= x
  BY <1>1 DEF Boundary
<1>3. PICK c : c = log[p]
  OBVIOUS
<1>4. PICK h : h = log[x + 1]
  OBVIOUS
<1>5. c \in Cells /\ h \in Cells /\ c.len \in Nat /\ h.len \in Nat /\ c.at \in 1 .. kHeaderSize + c.len /\ p = st + c.at
      /\ st + 1 \in 1 .. Len(log)
  BY <1>1, <1>3, <1>4, FragmentOf
<1>6. log[st + 1] = [c EXCEPT !.at = 1, !.kind = "header"]
  <2>1. \A i \in 1 .. kHeaderSize + c.len : st + i <= Len(log) => log[st + i] =
            [c EXCEPT !.at = i, !.kind = IF i <= kHeaderSize THEN "header" ELSE "data"]
    BY <1>1, <1>3, FragmentOf
  <2>2. 1 \in 1 .. kHeaderSize + c.len /\ st + 1 <= Len(log) /\ 1 <= kHeaderSize
    BY <1>5
  <2> QED
    BY <2>1, <2>2
<1>7. log[st + 1].at = 1 /\ log[st + 1].len = c.len /\ log[st + 1].rec = c.rec /\ log[st + 1].frag = c.frag
      /\ log[st + 1].type = c.type
  BY <1>5, <1>6 DEF Cells
<1>8. ASSUME st < n PROVE st = x
  <2>1. StartOf(log, x + 1) = x
    BY DEF StartOf
  <2>2. \A i \in 1 .. kHeaderSize + h.len : x + i <= Len(log) => log[x + i] =
            [h EXCEPT !.at = i, !.kind = IF i <= kHeaderSize THEN "header" ELSE "data"]
    <3>1. PICK y \in 1 .. Len(log) : y = x + 1
      OBVIOUS
    <3>2. Of(log, y) /\ StartOf(log, y) = x /\ log[y] = h
      BY <1>4, <2>1, <3>1
    <3>3. \A i \in 1 .. kHeaderSize + log[y].len : StartOf(log, y) + i <= Len(log) => log[StartOf(log, y) + i] =
               [log[y] EXCEPT !.at = i, !.kind = IF i <= kHeaderSize THEN "header" ELSE "data"]
      BY <3>2, FragmentOf
    <3> QED
      BY <3>2, <3>3, Zenon
  <2>3. PICK i \in Int : i = st + 1 - x
    OBVIOUS
  <2>4. i \in 1 .. kHeaderSize + h.len /\ x + i = st + 1 /\ x + i <= Len(log)
    <3>1. PICK m \in Nat : m = h.len
      BY <1>5
    <3>2. n = x + kHeaderSize + m
      BY <1>4, <3>1, Zenon
    <3>3. i \in 1 .. kHeaderSize + m /\ x + i = st + 1
      BY ONLY <1>2, <1>8, <2>3, <3>2, ConstFacts, x \in Nat, st \in Nat, m \in Nat, i \in Int
    <3>4. st + 1 <= Len(log)
      BY <1>5
    <3> QED
      BY <3>1, <3>3, <3>4, Zenon
  <2>5. log[st + 1] = [h EXCEPT !.at = i, !.kind = IF i <= kHeaderSize THEN "header" ELSE "data"]
    BY <2>2, <2>4
  <2>6. log[st + 1].at = i
    BY <1>5, <2>5 DEF Cells
  <2> QED
    BY <1>7, <2>3, <2>6
<1>9. ASSUME st = x PROVE p <= n /\ c.len = h.len /\ c.rec = h.rec /\ c.frag = h.frag /\ c.type = h.type
  <2>1. c.len = h.len /\ c.rec = h.rec /\ c.frag = h.frag /\ c.type = h.type
    BY <1>4, <1>7, <1>9
  <2> QED
    BY <1>4, <1>5, <1>9, <2>1
<1>10. n \in Nat
  <2>1. PICK m \in Nat : m = h.len
    BY <1>5
  <2>2. n = x + kHeaderSize + m
    BY <1>4, <2>1, Zenon
  <2> QED
    BY ONLY <2>2, ConstFacts, x \in Nat, m \in Nat
<1>11. p <= n => st < n
  BY <1>5, <1>10
<1>12. p > n => st >= n
  BY <1>8, <1>9, <1>10
<1> QED
  BY <1>1, <1>3, <1>4, <1>8, <1>9, <1>11, <1>12

\* No fragment lies across the start of a block.
LEMMA BlockBoundary ==
  ASSUME log \in Seq(Cells), Layout(log, added, Len(log)), NEW x \in Nat, InBlock(x) = 0
  PROVE  Boundary(x)
<1> USE ConstFacts
<1> SUFFICES ASSUME NEW p \in 1 .. Len(log), Of(log, p), p > x PROVE StartOf(log, p) >= x
  BY DEF Boundary
<1>1. PICK st \in Nat : st = StartOf(log, p)
  BY FragmentOf
<1>2. InBlock(st) + kHeaderSize + log[p].len <= kBlockSize /\ p = st + log[p].at /\ log[p].len \in Nat
      /\ log[p].at \in 1 .. kHeaderSize + log[p].len
  BY <1>1, FragmentOf
<1>3. st < x => NextBlock(st) <= x
  BY NextBlockFacts
<1>4. NextBlock(st) = st - InBlock(st) + kBlockSize /\ InBlock(st) \in Nat
  BY BlockType DEF NextBlock
<1> QED
  BY <1>1, <1>2, <1>3, <1>4

\* Before the end of a block that no header fits in there is no fragment.
LEMMA NoFragmentInGap ==
  ASSUME log \in Seq(Cells), Layout(log, added, Len(log)), NEW r \in Readers, Positioned(r), ~r.eof,
         r.lo <= r.hi, r.hi - r.lo < kHeaderSize, NEW p \in 1 .. Len(log), r.lo < p, p <= r.hi
  PROVE  ~Of(log, p)
<1> USE ConstFacts
<1> SUFFICES ASSUME Of(log, p) PROVE FALSE
  OBVIOUS
<1>1. r.lo \in Nat /\ r.hi \in Nat /\ InBlock(r.hi) = 0 /\ Boundary(r.lo)
  BY DEF Positioned, Readers
<1>2. PICK st \in Nat : st = StartOf(log, p)
  BY FragmentOf
<1>3. InBlock(st) + kHeaderSize + log[p].len <= kBlockSize /\ p = st + log[p].at /\ log[p].len \in Nat
      /\ log[p].at \in 1 .. kHeaderSize + log[p].len
  BY <1>2, FragmentOf
<1>4. st >= r.lo /\ st < r.hi
  BY <1>1, <1>2, <1>3 DEF Boundary
<1>5. NextBlock(st) <= r.hi
  BY <1>1, <1>4, NextBlockFacts
<1>6. NextBlock(st) = st - InBlock(st) + kBlockSize /\ InBlock(st) \in Nat
  BY BlockType DEF NextBlock
<1>7. PICK len \in Nat : len = log[p].len
  BY <1>3
<1>8. st - InBlock(st) + kBlockSize <= r.hi /\ InBlock(st) + kHeaderSize + len <= kBlockSize
  BY <1>3, <1>5, <1>6, <1>7
<1>9. PICK b \in Nat : b = InBlock(st)
  BY <1>6
<1>10. PICK lo \in Nat, hi \in Nat : lo = r.lo /\ hi = r.hi
  BY <1>1
<1>11. st >= lo /\ hi - lo < kHeaderSize /\ st - b + kBlockSize <= hi /\ b + kHeaderSize + len <= kBlockSize
  BY <1>4, <1>8, <1>9, <1>10, Zenon
<1> QED
  BY ONLY <1>11, ConstFacts, st \in Nat, b \in Nat, lo \in Nat, hi \in Nat, len \in Nat

\* Where a header fits there is one.
LEMMA HeaderThere ==
  ASSUME log \in Seq(Cells), Layout(log, added, Len(log)), NEW r \in Readers, Positioned(r),
         r.lo <= r.hi, r.lo < r.hi => r.hi <= Len(log), r.hi - r.lo >= kHeaderSize
  PROVE  r.lo + 1 \in 1 .. Len(log) /\ Of(log, r.lo + 1) /\ log[r.lo + 1].at = 1 /\ r.hi <= Len(log)
<1> USE ConstFacts
<1>1. r.lo \in Nat /\ r.hi \in Nat /\ Boundary(r.lo) /\ Len(log) \in Nat
  BY LenProperties DEF Positioned, Readers
<1>2. r.lo < r.hi /\ r.hi <= NextBlock(r.lo) /\ r.hi <= Len(log) /\ r.lo + 1 \in 1 .. Len(log)
  BY <1>1 DEF Positioned
<1>3. NextBlock(r.lo) = r.lo - InBlock(r.lo) + kBlockSize /\ InBlock(r.lo) \in Nat
  BY <1>1, BlockType DEF NextBlock
<1>4. ~(InBlock(r.lo) > kBlockSize - kHeaderSize)
  BY <1>1, <1>2, <1>3
<1>5. PICK p \in 1 .. Len(log) : p = r.lo + 1
  BY <1>2
<1>6. p - 1 = r.lo
  BY <1>1, <1>5
<1>7. Of(log, p)
  BY <1>4, <1>6 DEF Layout, TrailersIn
<1>8. StartOf(log, p) \in Nat /\ p = StartOf(log, p) + log[p].at /\ log[p].at \in 1 .. kHeaderSize + log[p].len
      /\ log[p].len \in Nat
  BY <1>7, FragmentOf
<1>9. StartOf(log, p) >= r.lo
  BY <1>1, <1>5, <1>7 DEF Boundary
<1>10. log[p].at = 1
  BY <1>1, <1>5, <1>8, <1>9
<1> QED
  BY <1>2, <1>5, <1>7, <1>10

\* A fragment that is not there as written is cut off by the end of the file.
LEMMA IntactOrEnd ==
  ASSUME log \in Seq(Cells), Layout(log, added, Len(log)), NEW r \in Readers, Positioned(r),
         r.lo <= r.hi, r.lo < r.hi => r.hi <= Len(log), r.hi - r.lo >= kHeaderSize
  PROVE  /\ kHeaderSize + log[r.lo + 1].len <= r.hi - r.lo => Intact(r)
         /\ HeaderIntact(r)
         /\ ~r.eof => kHeaderSize + log[r.lo + 1].len <= r.hi - r.lo
<1> USE ConstFacts
<1>1. r.lo \in Nat /\ r.hi \in Nat /\ Boundary(r.lo) /\ Len(log) \in Nat /\ r.hi <= Len(log)
  BY HeaderThere, LenProperties DEF Positioned, Readers
<1>2. PICK p \in 1 .. Len(log) : p = r.lo + 1
  BY HeaderThere
<1>3. Of(log, p) /\ log[p].at = 1
  BY <1>2, HeaderThere
<1>4. PICK h \in Cells : h = log[p] /\ h.len \in Nat /\ h.at = 1
  BY <1>3, FragmentOf
<1>5. StartOf(log, p) = r.lo
  BY <1>1, <1>2, <1>3 DEF StartOf
<1>6. /\ InBlock(r.lo) + kHeaderSize + h.len <= kBlockSize
      /\ \A i \in 1 .. kHeaderSize + h.len : r.lo + i <= Len(log) => log[r.lo + i] =
            [h EXCEPT !.at = i, !.kind = IF i <= kHeaderSize THEN "header" ELSE "data"]
  BY <1>3, <1>4, <1>5, FragmentOf
<1>7. Cell(r, 1) = h
  BY <1>2, <1>4 DEF Cell
<1>8. h.kind = "header"
  <2>1. 1 \in 1 .. kHeaderSize + h.len /\ r.lo + 1 <= Len(log) /\ 1 <= kHeaderSize
    BY <1>2, <1>4
  <2>2. log[r.lo + 1] = [h EXCEPT !.at = 1, !.kind = "header"]
    BY <1>6, <2>1
  <2>3. h = [h EXCEPT !.at = 1, !.kind = "header"]
    BY <1>2, <1>4, <2>2
  <2>4. [h EXCEPT !.at = 1, !.kind = "header"].kind = "header"
    BY <1>4 DEF Cells
  <2> QED
    BY <2>3, <2>4
<1>9. ASSUME kHeaderSize + h.len <= r.hi - r.lo PROVE Intact(r)
  <2>1. ASSUME NEW i \in 1 .. kHeaderSize + h.len
        PROVE  Cell(r, i) = [h EXCEPT !.at = i, !.kind = IF i <= kHeaderSize THEN "header" ELSE "data"]
    <3>1. r.lo + i <= Len(log)
      BY <1>1, <1>4, <1>9, <2>1
    <3> QED
      BY <1>6, <3>1, Zenon DEF Cell
  <2> QED
    BY <1>4, <1>7, <1>8, <1>9, <2>1, Zenon DEF Intact
<1>10. HeaderIntact(r)
  <2>1. ASSUME NEW i \in 1 .. kHeaderSize PROVE Cell(r, i) = [h EXCEPT !.at = i]
    <3>1. r.lo + i <= Len(log) /\ i \in 1 .. kHeaderSize + h.len /\ i <= kHeaderSize
      BY <1>1, <1>4, <2>1
    <3>2. log[r.lo + i] = [h EXCEPT !.at = i, !.kind = "header"]
      BY <1>6, <3>1
    <3>3. [h EXCEPT !.at = i, !.kind = "header"] = [h EXCEPT !.at = i]
      <4>1. PICK d : d = [h EXCEPT !.at = i]
        OBVIOUS
      <4>2. d \in [kind : {"header", "data", "zero", "bad"}, rec : Nat, frag : Nat, at : {i}, len : Nat,
                   type : FragmentTypes \cup {"zero"}]
        BY <1>4, <4>1 DEF Cells
      <4>3. d.kind = "header"
        BY <1>4, <1>8, <4>1 DEF Cells
      <4>4. [d EXCEPT !.kind = "header"] = d
        BY <4>2, <4>3
      <4> QED
        BY <4>1, <4>4, Zenon
    <3> QED
      BY <3>2, <3>3, Zenon DEF Cell
  <2> QED
    BY <1>4, <1>7, <1>8, <2>1, Zenon DEF HeaderIntact
<1>11. ASSUME ~r.eof PROVE kHeaderSize + h.len <= r.hi - r.lo
  <2>1. InBlock(r.hi) = 0 /\ r.lo < r.hi
    BY <1>1, <1>11 DEF Positioned
  <2>2. NextBlock(r.lo) <= r.hi
    BY <1>1, <2>1, NextBlockFacts
  <2>3. NextBlock(r.lo) = r.lo - InBlock(r.lo) + kBlockSize /\ InBlock(r.lo) \in Nat
    BY <1>1, BlockType DEF NextBlock
  <2>4. PICK b \in Nat : b = InBlock(r.lo)
    BY <2>3
  <2>5. r.lo - b + kBlockSize <= r.hi /\ b + kHeaderSize + h.len <= kBlockSize
    BY <1>6, <2>2, <2>3, <2>4
  <2>6. PICK lo \in Nat, hi \in Nat, m \in Nat : lo = r.lo /\ hi = r.hi /\ m = h.len
    BY <1>1, <1>4
  <2>7. lo - b + kBlockSize <= hi /\ b + kHeaderSize + m <= kBlockSize
    BY <2>5, <2>6, Zenon
  <2>8. kHeaderSize + m <= hi - lo
    BY ONLY <2>7, ConstFacts, lo \in Nat, hi \in Nat, m \in Nat, b \in Nat
  <2> QED
    BY <2>6, <2>8, Zenon
<1> QED
  BY <1>2, <1>4, <1>9, <1>10, <1>11

\* Another block, or the rest of the file, is read; nothing is skipped.
LEMMA RefilledPositioned ==
  ASSUME log \in Seq(Cells), Layout(log, added, Len(log)), lr \in Readers, Buffer(lr), Positioned(lr)
  PROVE  /\ Positioned(Refilled(lr)) /\ Refilled(lr).ioerror = lr.ioerror /\ Refilled(lr).reports = lr.reports
         /\ \A p \in 1 .. Len(log) : lr.lo < p /\ p <= Refilled(lr).lo => ~Of(log, p)
<1> USE ConstFacts
<1>1. lr.lo \in Nat /\ lr.hi \in Nat /\ lr.eof \in BOOLEAN /\ lr.lo <= lr.hi /\ Len(log) \in Nat
  BY LenProperties DEF Readers, Buffer
<1>2. CASE lr.hi - lr.lo >= kHeaderSize \/ lr.eof
  <2>1. Refilled(lr) = lr
    BY <1>2 DEF Refilled
  <2> QED
    BY <1>1, <2>1
<1>3. CASE ~(lr.hi - lr.lo >= kHeaderSize \/ lr.eof)
  <2>1. PICK n : n = IF Len(log) - lr.hi < 0 THEN 0
                     ELSE IF Len(log) - lr.hi < kBlockSize THEN Len(log) - lr.hi ELSE kBlockSize
    OBVIOUS
  <2>2. n \in Nat /\ n <= kBlockSize /\ (n < kBlockSize => lr.hi + n >= Len(log))
    BY <1>1, <2>1
  <2>3. Refilled(lr) = [lr EXCEPT !.lo = lr.hi, !.hi = lr.hi + n, !.eof = n < kBlockSize]
    BY <1>3, <2>1 DEF Refilled
  <2>4. PICK s : s = Refilled(lr)
    OBVIOUS
  <2>5. PICK e \in BOOLEAN : e = (n < kBlockSize)
    <3>1. (n < kBlockSize) \in BOOLEAN
      BY <2>2
    <3> QED
      BY <3>1, Zenon
  <2>15. e <=> n < kBlockSize
    BY <2>5
  <2>6. s = [lr EXCEPT !.lo = lr.hi, !.hi = lr.hi + n, !.eof = e]
    BY <2>3, <2>4, <2>5, Zenon
  <2>7. s.lo = lr.hi /\ s.hi = lr.hi + n /\ s.eof = e /\ s.ioerror = lr.ioerror /\ s.reports = lr.reports
    BY <2>6 DEF Readers
  <2>8. InBlock(lr.hi) = 0
    BY <1>3 DEF Positioned
  <2>9. Boundary(lr.hi) /\ NextBlock(lr.hi) = lr.hi + kBlockSize /\ InBlock(NextBlock(lr.hi)) = 0
    BY <1>1, <2>8, BlockBoundary, NextBlockFacts
  <2>10. e => s.hi >= Len(log)
    BY <2>2, <2>7, <2>15
  <2>11. ~e => s.hi = NextBlock(lr.hi)
    <3>1. ~e => n = kBlockSize
      BY <2>2, <2>15
    <3> QED
      BY <2>7, <2>9, <3>1
  <2>12. s.hi <= NextBlock(s.lo)
    BY <1>1, <2>2, <2>7, <2>9
  <2>13. Positioned(s)
    BY <2>7, <2>9, <2>10, <2>11, <2>12 DEF Positioned
  <2>14. ASSUME NEW p \in 1 .. Len(log), lr.lo < p, p <= lr.hi PROVE ~Of(log, p)
    <3>1. ~lr.eof /\ lr.hi - lr.lo < kHeaderSize
      BY <1>1, <1>3
    <3> QED
      BY <1>1, <2>14, <3>1, NoFragmentInGap
  <2> QED
    BY <2>4, <2>7, <2>13, <2>14
<1> QED
  BY <1>2, <1>3

\* After a fragment there is the next one.
LEMMA AfterFragment ==
  ASSUME log \in Seq(Cells), Layout(log, added, Len(log)), NEW r \in Readers, Positioned(r),
         r.lo <= r.hi, r.lo < r.hi => r.hi <= Len(log), r.hi - r.lo >= kHeaderSize,
         kHeaderSize + log[r.lo + 1].len <= r.hi - r.lo,
         NEW s, s.lo = r.lo + kHeaderSize + log[r.lo + 1].len, s.hi = r.hi, s.eof = r.eof
  PROVE  Positioned(s)
<1> USE ConstFacts
<1>1. r.lo \in Nat /\ r.hi \in Nat /\ Boundary(r.lo) /\ Len(log) \in Nat /\ r.hi <= Len(log)
  BY HeaderThere, LenProperties DEF Positioned, Readers
<1>2. PICK p \in 1 .. Len(log) : p = r.lo + 1
  BY HeaderThere
<1>3. Of(log, p) /\ log[p].at = 1
  BY <1>2, HeaderThere
<1>4. PICK len \in Nat : len = log[r.lo + 1].len
  BY <1>2, <1>3, FragmentOf
<1>5. PICK n \in Nat : n = s.lo /\ n = r.lo + kHeaderSize + len /\ r.lo < n /\ n <= r.hi
  <2>1. r.lo + kHeaderSize + len \in Nat /\ r.lo < r.lo + kHeaderSize + len /\ r.lo + kHeaderSize + len <= r.hi
    <3>1. kHeaderSize + len <= r.hi - r.lo
      BY <1>4
    <3> QED
      BY ONLY <1>1, <3>1, ConstFacts, len \in Nat
  <2> QED
    BY <1>4, <2>1
<1>6. Boundary(n)
  <2> SUFFICES ASSUME NEW q \in 1 .. Len(log), Of(log, q), q > n PROVE StartOf(log, q) >= n
    BY DEF Boundary
  <2>1. q > r.lo /\ n = r.lo + kHeaderSize + log[r.lo + 1].len /\ r.lo + 1 \in 1 .. Len(log)
    BY <1>1, <1>2, <1>4, <1>5
  <2>2. Of(log, r.lo + 1) /\ log[r.lo + 1].at = 1
    BY <1>2, <1>3
  <2>3. PICK x \in Nat : x = r.lo
    BY <1>1
  <2>4. /\ Boundary(x) /\ x + 1 \in 1 .. Len(log) /\ Of(log, x + 1) /\ log[x + 1].at = 1 /\ q > x
        /\ n = x + kHeaderSize + log[x + 1].len
    BY <1>1, <2>1, <2>2, <2>3
  <2> QED
    BY <2>4, FragmentAt
<1>7. ASSUME n < r.hi PROVE r.hi <= NextBlock(n)
  <2>1. r.hi <= NextBlock(r.lo) /\ r.lo <= n
    BY <1>1, <1>5 DEF Positioned
  <2>2. NextBlock(r.lo) \in Nat
    BY <1>1, NextBlockFacts
  <2>3. n < NextBlock(r.lo)
    BY <1>1, <1>7, <2>1, <2>2
  <2>4. NextBlock(n) = NextBlock(r.lo)
    BY <1>1, <2>1, <2>3, NextBlockFacts
  <2> QED
    BY <2>1, <2>4
<1>8. IF s.eof THEN s.hi >= Len(log) ELSE InBlock(s.hi) = 0
  BY DEF Positioned
<1> QED
  BY <1>5, <1>6, <1>7, <1>8 DEF Positioned

\* What ReadPhysicalRecord finds in a file that was only cut: the next fragment,
\* which starts at x, or the end of the file and no end of a fragment before it.
Passes(x, p) ==
    /\ lr.lo <= x /\ x + 1 \in 1 .. Len(log) /\ Of(log, x + 1) /\ log[x + 1].at = 1 /\ Boundary(x)
    /\ \A q \in 1 .. Len(log) : lr.lo < q /\ q <= x => ~Of(log, q)
    /\ p.r.lo = x + kHeaderSize + log[x + 1].len /\ p.r.lo <= Len(log)
    /\ IF x < lr.initial THEN p.type = "bad"
       ELSE p.type = log[x + 1].type /\ p.rec = log[x + 1].rec /\ p.frag = log[x + 1].frag

Ends(p) ==
    /\ p.type = "eof" /\ p.r.lo >= Len(log)
    /\ \A e \in 1 .. Len(log) : lr.lo < e /\ Of(log, e) => log[e].at # kHeaderSize + log[e].len

LEMMA ClearedAtEnd ==
  ASSUME log \in Seq(Cells), NEW r \in Readers, Positioned(r), r.eof
  PROVE  /\ Positioned(Cleared(r)) /\ Cleared(r).lo >= Len(log) /\ Cleared(r).reports = r.reports
<1>1. PICK c : c = Cleared(r)
  OBVIOUS
<1>2. c.lo = r.hi /\ c.hi = r.hi /\ c.eof = r.eof /\ c.reports = r.reports /\ r.hi \in Nat /\ r.hi >= Len(log)
  BY <1>1 DEF Cleared, Readers, Positioned
<1>3. Len(log) \in Nat
  BY LenProperties
<1>4. Boundary(r.hi)
  BY <1>2, <1>3 DEF Boundary
<1>5. ~(c.lo < c.hi)
  BY <1>2
<1> QED
  BY <1>1, <1>2, <1>4, <1>5 DEF Positioned

\* A buffer that cannot hold a header is read after the end.
LEMMA ShortBuffer ==
  ASSUME log \in Seq(Cells), lr \in Readers, Buffer(lr), Refilled(lr).hi - Refilled(lr).lo < kHeaderSize
  PROVE  Refilled(lr).eof
<1> USE ConstFacts
<1>1. lr.lo \in Nat /\ lr.hi \in Nat /\ lr.eof \in BOOLEAN /\ Len(log) \in Nat
  BY LenProperties DEF Readers
<1>2. CASE lr.hi - lr.lo >= kHeaderSize \/ lr.eof
  <2>1. Refilled(lr) = lr
    BY <1>2 DEF Refilled
  <2> QED
    BY <1>1, <1>2, <2>1
<1>3. CASE ~(lr.hi - lr.lo >= kHeaderSize \/ lr.eof)
  <2>1. PICK n : n = IF Len(log) - lr.hi < 0 THEN 0
                     ELSE IF Len(log) - lr.hi < kBlockSize THEN Len(log) - lr.hi ELSE kBlockSize
    OBVIOUS
  <2>2. n \in Nat
    BY <1>1, <2>1
  <2>3. PICK e \in BOOLEAN : e = (n < kBlockSize)
    <3>1. (n < kBlockSize) \in BOOLEAN
      BY <2>2
    <3> QED
      BY <3>1, Zenon
  <2>4. Refilled(lr) = [lr EXCEPT !.lo = lr.hi, !.hi = lr.hi + n, !.eof = e]
    BY <1>3, <2>1, <2>3 DEF Refilled
  <2>5. PICK s : s = Refilled(lr)
    OBVIOUS
  <2>6. s.lo = lr.hi /\ s.hi = lr.hi + n /\ s.eof = e
    BY <2>4, <2>5 DEF Readers
  <2>7. n < kBlockSize
    BY <1>1, <2>2, <2>5, <2>6
  <2> QED
    BY <2>3, <2>5, <2>6, <2>7
<1> QED
  BY <1>2, <1>3

LEMMA CutOutcome ==
  ASSUME WriteInv, Layout(log, added, Len(log)), lr \in Readers, Buffer(lr), Positioned(lr), NEW p \in ReadPhysicalRecord,
         ~p.r.ioerror
  PROVE  Positioned(p.r) /\ p.r.reports = lr.reports /\ (Ends(p) \/ \E x \in Nat : Passes(x, p))
<1> USE ConstFacts
<1>1. log \in Seq(Cells) /\ CellsInv /\ Len(log) \in Nat
  BY LenProperties DEF WriteInv, LogType
<1>2. PICK r : r = Refilled(lr)
  OBVIOUS
<1>3. /\ r \in Readers /\ Same(lr, r) /\ Buffer(r) /\ r.lo < lr.lo + kHeaderSize /\ Positioned(r)
      /\ r.ioerror = lr.ioerror /\ r.reports = lr.reports
      /\ \A q \in 1 .. Len(log) : lr.lo < q /\ q <= r.lo => ~Of(log, q)
  BY <1>1, <1>2, RefilledSame, RefilledPositioned DEF Same
<1>4. /\ r.lo \in Nat /\ r.hi \in Nat /\ lr.lo \in Nat /\ lr.lo <= r.lo /\ r.lo <= r.hi /\ (r.lo < r.hi => r.hi <= Len(log))
      /\ r.initial = lr.initial /\ lr.initial \in Nat /\ Boundary(r.lo) /\ (r.eof => r.hi >= Len(log))
  BY <1>3 DEF Readers, Buffer, Same, Positioned
<1> DEFINE failed == [ReportDrop(Cleared(lr), kBlockSize) EXCEPT !.eof = TRUE, !.ioerror = TRUE]
           h == Cell(r, 1)
           s == [r EXCEPT !.lo = @ + kHeaderSize + h.len]
<1>5. p # Eof(failed)
  <2>1. PICK c : c = ReportDrop(Cleared(lr), kBlockSize)
    OBVIOUS
  <2>2. Cleared(lr) \in Readers
    BY ClearedSame DEF Same
  <2>3. c \in Readers
    BY <2>1, <2>2, ReportDropSame DEF Same
  <2>4. failed = [c EXCEPT !.eof = TRUE, !.ioerror = TRUE]
    BY <2>1
  <2>5. failed.ioerror = TRUE /\ failed \in Readers
    BY <2>3, <2>4 DEF Readers
  <2> HIDE DEF failed
  <2>6. Cleared(failed).ioerror = TRUE
    BY <2>5 DEF Cleared, Readers
  <2>7. Eof(failed).r = Cleared(failed)
    BY DEF Eof
  <2> QED
    BY <2>6, <2>7
<1>6. p \in IF r.hi - r.lo < kHeaderSize THEN {Eof(r)}
            ELSE IF Intact(r)
            THEN IF r.lo < r.initial THEN {[type |-> "bad", rec |-> 0, frag |-> 0, len |-> 0, r |-> s]}
                 ELSE {[type |-> h.type, rec |-> h.rec, frag |-> h.frag, len |-> h.len, r |-> s]}
            ELSE IF HeaderIntact(r)
            THEN IF kHeaderSize + Cell(r, 1).len > r.hi - r.lo /\ r.eof THEN {Eof(r)} ELSE {Dropped(r, TRUE)}
            ELSE IF \A i \in 1 .. kHeaderSize : Cell(r, i).kind = "zero" THEN {Dropped(r, FALSE)}
            ELSE {Dropped(r, TRUE), Dropped(r, FALSE)} \cup (IF r.eof THEN {Eof(r)} ELSE {})
  BY <1>2, <1>5 DEF ReadPhysicalRecord
<1> HIDE DEF s, failed, h
<1>7. ASSUME p = Eof(r), r.eof
      PROVE  Positioned(p.r) /\ p.r.reports = lr.reports /\ p.type = "eof" /\ p.r.lo >= Len(log)
  <2>1. p.r = Cleared(r) /\ p.type = "eof"
    BY <1>7 DEF Eof
  <2>2. Positioned(Cleared(r)) /\ Cleared(r).lo >= Len(log) /\ Cleared(r).reports = r.reports
    BY <1>1, <1>3, <1>7, ClearedAtEnd
  <2> QED
    BY <1>3, <2>1, <2>2
<1>8. CASE r.hi - r.lo < kHeaderSize
  <2>1. p = Eof(r)
    BY <1>6, <1>8
  <2>2. r.eof
    BY <1>1, <1>2, <1>8, ShortBuffer
  <2>3. ASSUME NEW e \in 1 .. Len(log), lr.lo < e, Of(log, e), log[e].at = kHeaderSize + log[e].len PROVE FALSE
    <3>1. r.lo < e
      BY <1>3, <1>4, <2>3
    <3>2. PICK len \in Nat : len = log[e].len
      BY <1>1, <2>3, FragmentOf
    <3>3. StartOf(log, e) \in Nat /\ e = StartOf(log, e) + kHeaderSize + len
      <4>1. StartOf(log, e) \in Nat /\ e = StartOf(log, e) + log[e].at
        BY <1>1, <2>3, FragmentOf
      <4>2. PICK st \in Nat : st = StartOf(log, e)
        BY <4>1
      <4>3. e = st + (kHeaderSize + len)
        BY <2>3, <3>2, <4>1, <4>2, Zenon
      <4> QED
        BY <4>2, <4>3
    <3>4. StartOf(log, e) >= r.lo
      BY <1>4, <2>3, <3>1 DEF Boundary
    <3>5. e >= r.lo + kHeaderSize /\ r.hi >= Len(log)
      BY <1>4, <2>2, <3>3, <3>4
    <3> QED
      BY <1>1, <1>4, <1>8, <3>5
  <2> QED
    BY <1>7, <2>1, <2>2, <2>3 DEF Ends
<1>9. CASE ~(r.hi - r.lo < kHeaderSize)
  <2>1. r.hi - r.lo >= kHeaderSize
    BY <1>4, <1>9
  <2>2. /\ r.lo + 1 \in 1 .. Len(log) /\ Of(log, r.lo + 1) /\ log[r.lo + 1].at = 1 /\ r.hi <= Len(log)
        /\ kHeaderSize + log[r.lo + 1].len <= r.hi - r.lo => Intact(r)
        /\ HeaderIntact(r)
        /\ ~r.eof => kHeaderSize + log[r.lo + 1].len <= r.hi - r.lo
    BY <1>1, <1>3, <1>4, <2>1, HeaderThere, IntactOrEnd
  <2>3. h = log[r.lo + 1] /\ Cell(r, 1) = h
    BY DEF h, Cell
  <2>4. PICK len \in Nat : len = h.len
    BY <1>1, <2>2, <2>3, FragmentOf
  <2>5. CASE kHeaderSize + len <= r.hi - r.lo
    <3>1. Intact(r)
      BY <2>2, <2>3, <2>4, <2>5
    <3>2. p \in IF r.lo < r.initial THEN {[type |-> "bad", rec |-> 0, frag |-> 0, len |-> 0, r |-> s]}
                ELSE {[type |-> h.type, rec |-> h.rec, frag |-> h.frag, len |-> h.len, r |-> s]}
      BY <1>6, <1>9, <3>1, Zenon
    <3>3. PICK n \in Nat : n = r.lo + kHeaderSize + len /\ n <= Len(log)
      <4>1. r.lo + kHeaderSize + len \in Nat /\ r.lo + kHeaderSize + len <= Len(log)
        BY ONLY <1>1, <1>4, <2>2, <2>5, ConstFacts, len \in Nat
      <4> QED
        BY <4>1
    <3>4. s = [r EXCEPT !.lo = n]
      BY <2>4, <3>3 DEF s
    <3>5. s.lo = n /\ s.hi = r.hi /\ s.eof = r.eof /\ s.reports = r.reports
      BY <1>3, <3>4 DEF Readers
    <3>6. n = r.lo + kHeaderSize + log[r.lo + 1].len /\ kHeaderSize + log[r.lo + 1].len <= r.hi - r.lo
      BY <2>3, <2>4, <2>5, <3>3
    <3>7. Positioned(s)
      BY <1>1, <1>3, <1>4, <2>1, <3>5, <3>6, AfterFragment
    <3>8. p.r = s
      <4>1. \/ p = [type |-> "bad", rec |-> 0, frag |-> 0, len |-> 0, r |-> s]
            \/ p = [type |-> h.type, rec |-> h.rec, frag |-> h.frag, len |-> h.len, r |-> s]
        BY <3>2, Zenon
      <4> QED
        BY <4>1
    <3>9. IF r.lo < lr.initial THEN p.type = "bad"
          ELSE p.type = log[r.lo + 1].type /\ p.rec = log[r.lo + 1].rec /\ p.frag = log[r.lo + 1].frag
      <4>1. CASE r.lo < lr.initial
        BY <1>4, <3>2, <4>1
      <4>2. CASE ~(r.lo < lr.initial)
        <5>1. p = [type |-> h.type, rec |-> h.rec, frag |-> h.frag, len |-> h.len, r |-> s]
          BY <1>4, <3>2, <4>2
        <5> QED
          BY <2>3, <4>2, <5>1
      <4> QED
        BY <4>1, <4>2
    <3>10. Passes(r.lo, p)
      BY <1>3, <1>4, <2>2, <3>3, <3>5, <3>6, <3>8, <3>9 DEF Passes
    <3> QED
      BY <1>3, <1>4, <3>5, <3>7, <3>8, <3>10
  <2>6. CASE ~(kHeaderSize + len <= r.hi - r.lo)
    <3>1. r.eof /\ HeaderIntact(r) /\ kHeaderSize + Cell(r, 1).len > r.hi - r.lo
      <4>1. r.eof
        BY <2>2, <2>3, <2>4, <2>6
      <4>2. kHeaderSize + len > r.hi - r.lo
        BY <1>4, <2>6
      <4> QED
        BY <2>2, <2>3, <2>4, <4>1, <4>2
    <3>2. ~Intact(r)
      <4>1. Intact(r) => kHeaderSize + h.len <= r.hi - r.lo
        BY <2>3, Zenon DEF Intact
      <4> QED
        BY <2>4, <2>6, <4>1
    <3>3. p = Eof(r)
      <4>1. p \in IF HeaderIntact(r)
                  THEN IF kHeaderSize + Cell(r, 1).len > r.hi - r.lo /\ r.eof THEN {Eof(r)} ELSE {Dropped(r, TRUE)}
                  ELSE IF \A i \in 1 .. kHeaderSize : Cell(r, i).kind = "zero" THEN {Dropped(r, FALSE)}
                  ELSE {Dropped(r, TRUE), Dropped(r, FALSE)} \cup (IF r.eof THEN {Eof(r)} ELSE {})
        BY <1>6, <1>9, <3>2, Zenon
      <4>2. p \in {Eof(r)}
        BY <3>1, <4>1, Zenon
      <4> QED
        BY <4>2
    <3>4. ASSUME NEW e \in 1 .. Len(log), lr.lo < e, Of(log, e), log[e].at = kHeaderSize + log[e].len PROVE FALSE
      <4>1. r.lo < e
        BY <1>3, <1>4, <3>4
      <4>2. PICK n \in Nat : n = r.lo + kHeaderSize + len
        BY <1>4
      <4>3. PICK x \in Nat : x = r.lo
        BY <1>4
      <4>4. /\ Boundary(x) /\ x + 1 \in 1 .. Len(log) /\ Of(log, x + 1) /\ log[x + 1].at = 1 /\ e > x
            /\ n = x + kHeaderSize + log[x + 1].len
        BY <1>4, <2>2, <2>3, <2>4, <4>1, <4>2, <4>3
      <4>5. n > r.hi /\ r.hi = Len(log)
        BY <1>1, <1>4, <2>2, <2>6, <3>1, <4>2
      <4>6. StartOf(log, e) = x /\ log[e].len = len
        <5>1. e <= n
          BY <4>5
        <5>2. StartOf(log, e) = x /\ log[e].len = log[x + 1].len
          BY <1>1, <3>4, <4>4, <5>1, FragmentAt
        <5> QED
          BY <2>3, <2>4, <4>3, <5>2
      <4>7. e = StartOf(log, e) + log[e].at
        BY <1>1, <3>4, FragmentOf
      <4> QED
        BY <3>4, <4>2, <4>3, <4>5, <4>6, <4>7
    <3> QED
      BY <1>7, <3>1, <3>3, <3>4 DEF Ends
  <2> QED
    BY <2>5, <2>6
<1> QED
  BY <1>8, <1>9

-----------------------------------------------------------------------------
(* A turn of the reader's loop in a file that was only cut.                 *)

LEMMA WholeLayout ==
  ASSUME WriteInv, LayoutInv, \A d \in damaged : d.kind = "cut" /\ d.first = Len(log)
  PROVE  Layout(log, added, Len(log))
<1>1. Len(log) \in Nat
  BY LenProperties DEF WriteInv, LogType
<1>2. CASE damaged = {}
  BY <1>2 DEF LayoutInv, NextFragmentInv
<1>3. CASE damaged # {}
  <2>1. CutAt(Len(log))
    BY <1>3 DEF CutAt
  <2> QED
    BY <1>1, <2>1 DEF LayoutInv, CutInv
<1> QED
  BY <1>2, <1>3

\* The fragment c that the turn passes ends at n.
PassedTo(c, n) ==
    /\ n \in 1 .. Len(log) /\ Of(log, n) /\ log[n].rec = c.rec /\ log[n].type = c.type
    /\ \A q \in 1 .. Len(log) : LastOf(log, q, n) => q = n
    /\ \A e \in 1 .. Len(log) : Of(log, e) /\ log[e].at = kHeaderSize + log[e].len /\ lr.lo < e /\ e <= n => e = n

LEMMA PassedFragment ==
  ASSUME log \in Seq(Cells), Layout(log, added, Len(log)), lr \in Readers, NEW p, NEW x \in Nat, Passes(x, p)
  PROVE  PassedTo(log[x + 1], p.r.lo)
<1> USE ConstFacts
<1>1. Len(log) \in Nat /\ lr.lo \in Nat
  BY LenProperties DEF Readers
<1>2. /\ x + 1 \in 1 .. Len(log) /\ Of(log, x + 1) /\ log[x + 1].at = 1 /\ Boundary(x)
      /\ \A q \in 1 .. Len(log) : lr.lo < q /\ q <= x => ~Of(log, q)
  BY DEF Passes
<1>3. PICK y \in 1 .. Len(log) : y = x + 1
  BY <1>2
<1>4. PICK c \in Cells : c = log[y] /\ c.len \in Nat
  BY <1>2, <1>3, FragmentOf
<1>5. PICK len \in Nat : len = c.len
  BY <1>4
<1>6. PICK n \in Nat : n = p.r.lo /\ n = x + kHeaderSize + len /\ n \in 1 .. Len(log) /\ x < n
  <2>1. p.r.lo = x + kHeaderSize + len /\ p.r.lo <= Len(log)
    BY <1>3, <1>4, <1>5 DEF Passes
  <2>2. x + kHeaderSize + len \in Nat /\ x + kHeaderSize + len > x /\ x + kHeaderSize + len >= 1
    BY ONLY ConstFacts, x \in Nat, len \in Nat
  <2> QED
    BY <1>1, <2>1, <2>2
<1>7. StartOf(log, y) = x /\ Of(log, y)
  BY <1>2, <1>3 DEF StartOf
<1>8. Of(log, n) /\ log[n].rec = c.rec /\ log[n].type = c.type
  <2>1. \A i \in 1 .. kHeaderSize + log[y].len : StartOf(log, y) + i <= Len(log) => log[StartOf(log, y) + i] =
               [log[y] EXCEPT !.at = i, !.kind = IF i <= kHeaderSize THEN "header" ELSE "data"]
    BY <1>7, FragmentOf
  <2>2. \A i \in 1 .. kHeaderSize + len : x + i <= Len(log) => log[x + i] =
               [c EXCEPT !.at = i, !.kind = IF i <= kHeaderSize THEN "header" ELSE "data"]
    BY <1>4, <1>5, <1>7, <2>1, Zenon
  <2>3. PICK i \in Nat : i = kHeaderSize + len
    OBVIOUS
  <2>4. i \in 1 .. kHeaderSize + len /\ x + i = n /\ x + i <= Len(log)
    BY <1>1, <1>6, <2>3
  <2>5. PICK kd : kd = IF i <= kHeaderSize THEN "header" ELSE "data"
    OBVIOUS
  <2>6. log[n] = [c EXCEPT !.at = i, !.kind = kd]
    BY <2>2, <2>4, <2>5, Zenon
  <2>7. log[n].kind = kd /\ log[n].rec = c.rec /\ log[n].type = c.type
    BY <1>4, <2>6 DEF Cells
  <2> QED
    BY <2>5, <2>7 DEF Of
<1>9. ASSUME NEW q \in 1 .. Len(log), LastOf(log, q, n) PROVE q = n
  <2>1. q \in 1 .. n /\ \A j \in q + 1 .. n : ~Of(log, j)
    BY <1>9 DEF LastOf
  <2>2. q < n => n \in q + 1 .. n
    BY <1>6
  <2> QED
    BY <1>6, <1>8, <2>1, <2>2
<1>10. ASSUME NEW e \in 1 .. Len(log), Of(log, e), log[e].at = kHeaderSize + log[e].len, lr.lo < e, e <= n PROVE e = n
  <2>1. e > x
    BY <1>2, <1>10
  <2>2. n = x + kHeaderSize + log[x + 1].len
    BY <1>3, <1>4, <1>5, <1>6
  <2>3. StartOf(log, e) = x /\ log[e].len = log[x + 1].len
    BY <1>2, <1>10, <2>1, <2>2, FragmentAt
  <2>4. e = StartOf(log, e) + log[e].at
    BY <1>10, FragmentOf
  <2>5. log[e].at = kHeaderSize + len
    BY <1>3, <1>4, <1>5, <1>10, <2>3
  <2> QED
    BY <1>6, <2>3, <2>4, <2>5
<1> QED
  BY <1>3, <1>4, <1>6, <1>8, <1>9, <1>10 DEF PassedTo

\* What is known of the record of the fragment, from what was read before it.
LEMMA Predecessor ==
  ASSUME WriteInv, ReadInv, LayoutInv, Layout(log, added, Len(log)), lr.on, ~lr.done, BegunInv,
         NEW p, NEW x \in Nat, Passes(x, p), NEW c, c = log[x + 1]
  PROVE  /\ c \in Cells /\ c.rec \in 1 .. Len(added) /\ c.type \in FragmentTypes
         /\ added[c.rec].start \in 0 .. x
         /\ IF c.type \in {"full", "first"} THEN added[c.rec].start = x /\ ~lr.in_fragmented
            ELSE lr.in_fragmented \/ added[c.rec].start < lr.initial
         /\ lr.in_fragmented => lr.scratch[1].rec = c.rec
<1> USE ConstFacts
<1>1. log \in Seq(Cells) /\ Len(log) \in Nat /\ lr \in Readers /\ lr.lo \in Nat
  BY LenProperties DEF WriteInv, LogType, ReadInv, ReaderType, Readers
<1>2. /\ lr.lo <= x /\ x + 1 \in 1 .. Len(log) /\ Of(log, x + 1) /\ log[x + 1].at = 1
      /\ \A q \in 1 .. Len(log) : lr.lo < q /\ q <= x => ~Of(log, q)
  BY DEF Passes
<1>3. PICK y \in 1 .. Len(log) : y = x + 1
  BY <1>2
<1>4. c = log[y] /\ c \in Cells /\ Of(log, y) /\ c.at = 1 /\ y - 1 = x
  <2>1. c = log[y] /\ Of(log, y) /\ c.at = 1
    BY <1>2, <1>3, Zenon
  <2>2. log[y] \in Cells
    BY <1>1, ElementOfSeq
  <2>3. y - 1 = x
    BY <1>3
  <2> QED
    BY <2>1, <2>2, <2>3
<1>5. c.rec \in 1 .. Len(added) /\ c.frag > 0 /\ c.type \in FragmentTypes /\ (c.frag = 1 <=> c.type \in {"full", "first"})
  <2>1. Written(y)
    BY <1>4 DEF Written, Of
  <2> QED
    BY <1>4, <2>1 DEF WriteInv, CellsInv
<1>6. c.frag \in Nat
  BY <1>4 DEF Cells
<1>7. added[c.rec].start \in 0 .. x /\ (c.frag = 1 => added[c.rec].start = x)
  <2>1. added[c.rec].start \in 0 .. y - 1 /\ (c.frag = 1 => added[c.rec].start = StartOf(log, y))
    BY <1>4 DEF Layout, StartsIn
  <2>2. StartOf(log, y) = x
    BY <1>3, <1>4 DEF StartOf
  <2> QED
    BY <1>4, <2>1, <2>2
<1>8. /\ \A q \in 1 .. x : LastOf(log, q, x) =>
            (Unfinished(log[q]) <=> c.frag > 1) /\ (Unfinished(log[q]) => log[q].rec = c.rec)
      /\ c.frag > 1 => \E q \in 1 .. x : LastOf(log, q, x)
  BY <1>4 DEF Layout, ChainIn
<1>9. \A q : LastOf(log, q, x) <=> LastOf(log, q, lr.lo)
  <2> SUFFICES ASSUME NEW q PROVE LastOf(log, q, x) <=> LastOf(log, q, lr.lo)
    OBVIOUS
  <2>1. ASSUME LastOf(log, q, x) PROVE LastOf(log, q, lr.lo)
    <3>1. q \in 1 .. x /\ Of(log, q) /\ \A j \in q + 1 .. x : ~Of(log, j)
      BY <2>1 DEF LastOf
    <3>2. q \in 1 .. lr.lo
      BY <1>1, <1>2, <3>1
    <3>3. \A j \in q + 1 .. lr.lo : j \in q + 1 .. x
      BY <1>1, <1>2, <3>1
    <3> QED
      BY <3>1, <3>2, <3>3 DEF LastOf
  <2>2. ASSUME LastOf(log, q, lr.lo) PROVE LastOf(log, q, x)
    <3>1. q \in 1 .. lr.lo /\ Of(log, q) /\ \A j \in q + 1 .. lr.lo : ~Of(log, j)
      BY <2>2 DEF LastOf
    <3>2. q \in 1 .. x
      BY <1>1, <1>2, <3>1
    <3>3. ASSUME NEW j \in q + 1 .. x PROVE ~Of(log, j)
      <4>1. j \in q + 1 .. lr.lo \/ (j \in 1 .. Len(log) /\ lr.lo < j /\ j <= x)
        BY <1>1, <1>2, <3>1
      <4> QED
        BY <1>2, <3>1, <4>1
    <3> QED
      BY <3>1, <3>2, <3>3 DEF LastOf
  <2> QED
    BY <2>1, <2>2
<1>10. ASSUME lr.in_fragmented PROVE c.frag > 1 /\ lr.scratch[1].rec = c.rec
  <2>1. Written(lr.lo) /\ log[lr.lo].rec = lr.scratch[1].rec
    BY <1>10 DEF ReadInv, ScratchInv
  <2>2. lr.lo \in 1 .. Len(log) /\ Of(log, lr.lo)
    BY <2>1 DEF Written, Of
  <2>3. LastOf(log, lr.lo, lr.lo)
    BY <1>1, <2>2 DEF LastOf
  <2>4. lr.lo \in 1 .. x /\ LastOf(log, lr.lo, x)
    BY <1>1, <1>2, <1>9, <2>2, <2>3
  <2>5. Unfinished(log[lr.lo])
    BY <1>10 DEF BegunInv
  <2> QED
    BY <1>8, <2>1, <2>4, <2>5
<1>11. ASSUME c.frag > 1 PROVE lr.in_fragmented \/ added[c.rec].start < lr.initial
  <2>1. PICK q \in 1 .. x : LastOf(log, q, x)
    BY <1>8, <1>11
  <2>2. Unfinished(log[q]) /\ log[q].rec = c.rec /\ LastOf(log, q, lr.lo)
    BY <1>8, <1>9, <1>11, <2>1
  <2>3. lr.lo < Len(log) /\ q \in 1 .. Len(log)
    BY <1>1, <1>2, <2>1
  <2>4. (IF lr.lo < Len(log) THEN lr.lo ELSE Len(log)) = lr.lo
    BY <2>3
  <2>5. lr.in_fragmented \/ lr.done \/ added[log[q].rec].start < lr.initial
    BY <2>2, <2>3, <2>4 DEF BegunInv
  <2> QED
    BY <2>2, <2>5
<1> QED
  BY <1>4, <1>5, <1>6, <1>7, <1>10, <1>11

\* The reader passes fragment c and comes to n: what is left to show.
LEMMA Advance ==
  ASSUME WriteInv, LayoutInv, Layout(log, added, Len(log)), lr \in Readers, lr' \in Readers, PassedInv, ~lr.done,
         UNCHANGED <<log, lw, added, damaged>>, NEW c, NEW n, PassedTo(c, n), lr'.lo = n, lr'.initial = lr.initial,
         lr'.done = lr.done,
         \A r : Returned(r) => Returned(r)',
         Unfinished(c) => lr'.in_fragmented \/ added[c.rec].start < lr.initial,
         ~Unfinished(c) => Returned(c.rec)' \/ added[c.rec].start < lr.initial,
         lr'.in_fragmented => added[lr'.scratch[1].rec].start >= lr.initial /\ Unfinished(c),
         \A i \in 1 .. Len(lr'.out) : added[lr'.out[i][1].rec].start >= lr.initial,
         lr.initial = 0 => lr'.reports = 0
  PROVE  BegunInv' /\ PassedInv'
<1>1. log \in Seq(Cells) /\ Len(log) \in Nat /\ log' = log /\ added' = added /\ Complete' = Complete
  BY LenProperties DEF WriteInv, LogType, Complete
<1>2. n \in 1 .. Len(log) /\ log[n].rec = c.rec /\ log[n].type = c.type /\ n \in Nat
  BY DEF PassedTo
<1>3. (IF lr'.lo < Len(log) THEN lr'.lo ELSE Len(log)) = n
  BY <1>1, <1>2
<1>4. Unfinished(log[n]) <=> Unfinished(c)
  BY <1>2 DEF Unfinished
<1>5. ASSUME NEW q \in 1 .. Len(log), LastOf(log, q, n), Unfinished(log[q])
      PROVE  lr'.in_fragmented \/ lr'.done \/ added[log[q].rec].start < lr.initial
  <2>1. q = n
    BY <1>5 DEF PassedTo
  <2> QED
    BY <1>2, <1>4, <1>5, <2>1
<1>6. BegunInv'
  BY <1>1, <1>3, <1>4, <1>5 DEF BegunInv
<1>7. ASSUME NEW r \in Complete, added[r].end <= n PROVE Returned(r)' \/ added[r].start < lr.initial
  <2>1. r \in 1 .. Len(added) /\ added[r].frags > 0 /\ added[r].end <= Len(log)
    BY DEF Complete, LayoutInv, EndInv
  <2>2. PICK e \in 1 .. Len(log) : /\ e = added[r].end /\ Of(log, e) /\ log[e].rec = r /\ ~Unfinished(log[e])
                                   /\ log[e].at = kHeaderSize + log[e].len
    BY <2>1 DEF Layout, EndsIn
  <2>3. CASE e <= lr.lo
    BY <2>2, <2>3 DEF PassedInv
  <2>4. CASE ~(e <= lr.lo)
    <3>1. lr.lo < e /\ e <= n
      BY <1>1, <1>7, <2>2, <2>4 DEF Readers
    <3>2. e = n
      BY <2>2, <3>1 DEF PassedTo
    <3>3. r = c.rec /\ ~Unfinished(c)
      BY <1>2, <1>4, <2>2, <3>2
    <3> QED
      BY <3>3
  <2> QED
    BY <2>3, <2>4
<1>8. PassedInv'
  BY <1>1, <1>7 DEF PassedInv
<1> QED
  BY <1>6, <1>8

\* Records that were returned stay returned.
LEMMA OutGrows ==
  ASSUME lr \in Readers, lr' \in Readers, NEW s \in Seq(Pieces), lr'.out = Append(lr.out, s), NEW S
  PROVE  /\ \A r : Returned(r) => Returned(r)'
         /\ Returned(s[1].rec)'
         /\ /\ \A i \in 1 .. Len(lr.out) : lr.out[i][1].rec \in S
            /\ s[1].rec \in S
            => \A i \in 1 .. Len(lr'.out) : lr'.out[i][1].rec \in S
<1>1. lr.out \in Seq(Seq(Pieces)) /\ Len(lr.out) \in Nat
  BY LenProperties DEF Readers
<1>2. /\ Len(lr'.out) = Len(lr.out) + 1 /\ lr'.out[Len(lr.out) + 1] = s
      /\ \A i \in 1 .. Len(lr.out) : lr'.out[i] = lr.out[i]
  BY <1>1, AppendProperties
<1>3. Len(lr.out) + 1 \in 1 .. Len(lr'.out) /\ \A i \in 1 .. Len(lr.out) : i \in 1 .. Len(lr'.out)
  BY <1>1, <1>2
<1>4. \A r : Returned(r) => Returned(r)'
  BY <1>2, <1>3 DEF Returned
<1>5. Returned(s[1].rec)'
  BY <1>2, <1>3 DEF Returned
<1>6. \A i \in 1 .. Len(lr'.out) : i \in 1 .. Len(lr.out) \/ i = Len(lr.out) + 1
  BY <1>1, <1>2
<1> QED
  BY <1>2, <1>4, <1>5, <1>6

LEMMA PassesKeeps ==
  ASSUME WriteInv, ReadInv, LayoutInv, Layout(log, added, Len(log)), lr.on, ~lr.done, BegunInv, PassedInv,
         UNCHANGED <<log, lw, added, damaged>>, NEW p, Outcome(p), p.r.reports = lr.reports, lr' = Turn(p),
         NEW x \in Nat, Passes(x, p)
  PROVE  BegunInv' /\ PassedInv'
<1>1. log \in Seq(Cells) /\ lr \in Readers /\ (lr.in_fragmented => ~lr.resyncing) /\ lr.initial \in Nat
  BY DEF WriteInv, LogType, ReadInv, ReaderType, Readers, ScratchInv
<1>2. /\ lr' \in Readers /\ lr'.lo = p.r.lo /\ LeavesAlone(p)
      /\ Quiet(p) \/ Begins(p) \/ Continues(p) \/ Returns(p)
  BY <1>1, TurnEffects
<1>3. PICK c : c = log[x + 1]
  OBVIOUS
<1>4. PassedTo(c, p.r.lo)
  BY <1>1, <1>3, PassedFragment
<1>5. /\ c \in Cells /\ c.rec \in 1 .. Len(added) /\ c.type \in FragmentTypes
      /\ added[c.rec].start \in 0 .. x
      /\ IF c.type \in {"full", "first"} THEN added[c.rec].start = x /\ ~lr.in_fragmented
         ELSE lr.in_fragmented \/ added[c.rec].start < lr.initial
      /\ lr.in_fragmented => lr.scratch[1].rec = c.rec
  BY <1>3, Predecessor
<1>6. IF x < lr.initial THEN p.type = "bad" ELSE p.type = c.type /\ p.rec = c.rec /\ p.frag = c.frag
  BY <1>3 DEF Passes
<1>7. lr'.initial = lr.initial /\ lr'.done = lr.done
  BY <1>5, <1>6, <1>2 DEF LeavesAlone, FragmentTypes
<1>8. ASSUME lr'.out = lr.out
      PROVE  /\ \A r : Returned(r) => Returned(r)'
             /\ \A i \in 1 .. Len(lr'.out) : added[lr'.out[i][1].rec].start >= lr.initial
  BY <1>8 DEF Returned, PassedInv
<1>9. lr.in_fragmented => added[c.rec].start >= lr.initial
  BY <1>5 DEF BegunInv
<1>10. CASE x < lr.initial
  <2>1. p.type = "bad"
    BY <1>6, <1>10
  <2>2. lr'.out = lr.out /\ lr'.in_fragmented = FALSE
    BY <1>2, <2>1 DEF Quiet, Begins, Continues, Returns
  <2>3. added[c.rec].start < lr.initial /\ lr.initial # 0
    BY <1>1, <1>5, <1>10
  <2> QED
    BY <1>1, <1>2, <1>4, <1>7, <1>8, <2>2, <2>3, Advance
<1>11. CASE ~(x < lr.initial) /\ c.type \in {"full", "first"}
  <2>1. p.type = c.type /\ p.rec = c.rec /\ added[c.rec].start >= lr.initial /\ ~lr.in_fragmented
    BY <1>1, <1>5, <1>6, <1>11
  <2>2. lr.initial = 0 => lr'.reports = 0
    <3>1. lr'.reports = p.r.reports
      BY <1>2, <1>11, <2>1 DEF LeavesAlone, Silent
    <3> QED
      BY <3>1 DEF PassedInv
  <2>3. Piece(p).rec = c.rec
    BY <2>1 DEF Piece
  <2>4. CASE c.type = "full"
    <3>1. Returns(p)
      BY <1>2, <2>1, <2>4 DEF Quiet, Begins, Continues
    <3>2. lr'.in_fragmented = FALSE /\ lr'.out = Append(lr.out, <<Piece(p)>>)
      BY <2>1, <2>4, <3>1 DEF Returns
    <3>3. PICK s : s = <<Piece(p)>>
      OBVIOUS
    <3>4. s \in Seq(Pieces) /\ s[1].rec = c.rec
      <4>1. p.type \notin {"bad", "eof"}
        BY <2>1, <2>4
      <4>2. Piece(p) \in Pieces
        BY <4>1 DEF Outcome, Found, Piece, Pieces
      <4> QED
        BY <2>3, <3>3, <4>2
    <3>5. PICK T : T = {k \in {lr.out[i][1].rec : i \in 1 .. Len(lr.out)} \cup {c.rec} : added[k].start >= lr.initial}
      OBVIOUS
    <3>6. (\A i \in 1 .. Len(lr.out) : lr.out[i][1].rec \in T) /\ s[1].rec \in T
      BY <2>1, <3>4, <3>5 DEF PassedInv
    <3>7. /\ \A r : Returned(r) => Returned(r)'
          /\ Returned(c.rec)' /\ \A i \in 1 .. Len(lr'.out) : lr'.out[i][1].rec \in T
      BY <1>1, <1>2, <3>2, <3>3, <3>4, <3>6, OutGrows
    <3>8. \A i \in 1 .. Len(lr'.out) : added[lr'.out[i][1].rec].start >= lr.initial
      BY <3>5, <3>7
    <3>9. ~Unfinished(c)
      BY <2>4 DEF Unfinished
    <3> QED
      BY <1>1, <1>2, <1>4, <1>7, <2>2, <3>2, <3>7, <3>8, <3>9, Advance
  <2>5. CASE c.type = "first"
    <3>1. Begins(p)
      BY <1>2, <2>1, <2>5 DEF Quiet, Returns, Continues
    <3>2. lr'.in_fragmented /\ lr'.out = lr.out /\ lr'.scratch[1].rec = c.rec
      BY <2>3, <3>1 DEF Begins
    <3>3. Unfinished(c)
      BY <2>5 DEF Unfinished
    <3> QED
      BY <1>1, <1>2, <1>4, <1>7, <1>8, <2>1, <2>2, <3>2, <3>3, Advance
  <2> QED
    BY <1>11, <2>4, <2>5
<1>12. CASE ~(x < lr.initial) /\ c.type \notin {"full", "first"} /\ ~lr.in_fragmented
  <2>1. p.type = c.type /\ c.type \in {"middle", "last"}
    BY <1>5, <1>6, <1>12 DEF FragmentTypes
  <2>2. lr'.out = lr.out /\ lr'.in_fragmented = FALSE
    BY <1>2, <1>12, <2>1 DEF Quiet, Begins, Continues, Returns
  <2>3. added[c.rec].start < lr.initial /\ lr.initial # 0
    BY <1>1, <1>5, <1>12
  <2> QED
    BY <1>1, <1>2, <1>4, <1>7, <1>8, <2>2, <2>3, Advance
<1>13. CASE ~(x < lr.initial) /\ c.type \notin {"full", "first"} /\ lr.in_fragmented
  <2>1. p.type = c.type /\ p.rec = c.rec /\ c.type \in {"middle", "last"} /\ added[c.rec].start >= lr.initial
    BY <1>5, <1>6, <1>9, <1>13 DEF FragmentTypes
  <2>2. lr.initial = 0 => lr'.reports = 0
    <3>1. lr'.reports = p.r.reports
      BY <1>2, <1>13, <2>1 DEF LeavesAlone, Silent
    <3> QED
      BY <3>1 DEF PassedInv
  <2>3. Piece(p) \in Pieces
    <3>1. p.type \notin {"bad", "eof"}
      BY <2>1
    <3> QED
      BY <3>1 DEF Outcome, Found, Piece, Pieces
  <2>4. PICK s : s = Append(lr.scratch, Piece(p))
    OBVIOUS
  <2>5. s \in Seq(Pieces) /\ s[1].rec = c.rec
    <3>1. lr.scratch \in Seq(Pieces) /\ Len(lr.scratch) > 0 /\ Len(lr.scratch) \in Nat
      BY <1>1, <1>13, LenProperties DEF ReadInv, ScratchInv, Consecutive, Readers
    <3>2. s \in Seq(Pieces) /\ \A i \in 1 .. Len(lr.scratch) : s[i] = lr.scratch[i]
      BY <2>3, <2>4, <3>1, AppendProperties
    <3>3. 1 \in 1 .. Len(lr.scratch)
      BY <3>1
    <3> QED
      BY <1>5, <1>13, <3>2, <3>3
  <2>6. CASE c.type = "middle"
    <3>1. Continues(p)
      BY <1>2, <1>13, <2>1, <2>6 DEF Quiet, Returns, Begins
    <3>2. lr'.in_fragmented /\ lr'.out = lr.out /\ lr'.scratch = s
      BY <2>4, <3>1 DEF Continues
    <3>3. Unfinished(c)
      BY <2>6 DEF Unfinished
    <3> QED
      BY <1>1, <1>2, <1>4, <1>7, <1>8, <2>1, <2>2, <2>5, <3>2, <3>3, Advance
  <2>7. CASE c.type = "last"
    <3>1. Returns(p)
      BY <1>2, <1>13, <2>1, <2>7 DEF Quiet, Continues, Begins
    <3>2. lr'.in_fragmented = FALSE /\ lr'.out = Append(lr.out, s)
      BY <2>1, <2>4, <2>7, <3>1 DEF Returns
    <3>5. PICK T : T = {k \in {lr.out[i][1].rec : i \in 1 .. Len(lr.out)} \cup {c.rec} : added[k].start >= lr.initial}
      OBVIOUS
    <3>6. (\A i \in 1 .. Len(lr.out) : lr.out[i][1].rec \in T) /\ s[1].rec \in T
      BY <2>1, <2>5, <3>5 DEF PassedInv
    <3>7. /\ \A r : Returned(r) => Returned(r)'
          /\ Returned(c.rec)' /\ \A i \in 1 .. Len(lr'.out) : lr'.out[i][1].rec \in T
      BY <1>1, <1>2, <2>5, <3>2, <3>6, OutGrows
    <3>8. \A i \in 1 .. Len(lr'.out) : added[lr'.out[i][1].rec].start >= lr.initial
      BY <3>5, <3>7
    <3>9. ~Unfinished(c)
      BY <2>7 DEF Unfinished
    <3> QED
      BY <1>1, <1>2, <1>4, <1>7, <2>2, <3>2, <3>7, <3>8, <3>9, Advance
  <2> QED
    BY <2>1, <2>6, <2>7
<1> QED
  BY <1>10, <1>11, <1>12, <1>13

LEMMA EndsKeeps ==
  ASSUME WriteInv, ReadInv, LayoutInv, Layout(log, added, Len(log)), lr.on, PassedInv,
         UNCHANGED <<log, lw, added, damaged>>, NEW p, Outcome(p), p.r.reports = lr.reports, lr' = Turn(p), Ends(p)
  PROVE  BegunInv' /\ PassedInv'
<1>1. lr \in Readers /\ (lr.in_fragmented => ~lr.resyncing) /\ log' = log /\ added' = added /\ Complete' = Complete
  BY DEF ReadInv, ReaderType, ScratchInv, Complete
<1>2. /\ lr' \in Readers /\ lr'.lo = p.r.lo /\ LeavesAlone(p) /\ p.type = "eof"
      /\ Quiet(p) \/ Begins(p) \/ Continues(p) \/ Returns(p)
  BY <1>1, TurnEffects DEF Ends
<1>3. lr'.out = lr.out /\ lr'.in_fragmented = FALSE
  BY <1>2 DEF Quiet, Begins, Continues, Returns
<1>4. lr'.done = TRUE /\ lr'.initial = lr.initial /\ lr'.reports = lr.reports
  BY <1>2 DEF LeavesAlone, Silent
<1>5. BegunInv'
  BY <1>3, <1>4 DEF BegunInv
<1>6. \A r : Returned(r) => Returned(r)'
  BY <1>3 DEF Returned
<1>7. ASSUME NEW r \in Complete PROVE Returned(r)' \/ added[r].start < lr.initial
  <2>1. r \in 1 .. Len(added) /\ added[r].frags > 0 /\ added[r].end <= Len(log)
    BY DEF Complete, LayoutInv, EndInv
  <2>2. PICK e \in 1 .. Len(log) : e = added[r].end /\ Of(log, e) /\ log[e].at = kHeaderSize + log[e].len
    BY <2>1 DEF Layout, EndsIn
  <2>3. ~(lr.lo < e)
    BY <2>2 DEF Ends
  <2>4. e <= lr.lo
    BY <1>1, <2>3 DEF Readers
  <2> QED
    BY <1>6, <2>2, <2>4 DEF PassedInv
<1>8. lr'.lo >= Len(log)
  BY <1>2 DEF Ends
<1>9. PassedInv'
  BY <1>1, <1>3, <1>4, <1>7, <1>8 DEF PassedInv
<1> QED
  BY <1>5, <1>9

LEMMA ReadKeepsProgress ==
  ASSUME WriteInv, ReadInv, LayoutInv, ProgressInv, ReadRecord
  PROVE  ProgressInv'
<1> SUFFICES ASSUME OnlyCut' PROVE BufferInv' /\ BegunInv' /\ PassedInv'
  BY DEF ProgressInv
<1>1. lr.on /\ ~lr.done /\ UNCHANGED <<log, lw, added, damaged>>
  BY DEF ReadRecord
<1>2. PICK p \in ReadPhysicalRecord : lr' = Turn(p)
  BY DEF ReadRecord
<1>3. lr \in Readers /\ Buffer(lr) /\ (lr.in_fragmented => ~lr.resyncing)
  <2>1. lr \in Readers /\ lr.lo <= lr.hi /\ (lr.lo < lr.hi => lr.hi <= Len(log)) /\ (lr.in_fragmented => ~lr.resyncing)
    BY <1>1 DEF ReadInv, ReaderType, ScratchInv
  <2>2. lr.lo <= lr.lo
    BY <2>1 DEF Readers
  <2> QED
    BY <2>1, <2>2 DEF Buffer
<1>4. Outcome(p)
  BY <1>3, PhysicalOutcome
<1>5. lr'.lo = p.r.lo /\ lr'.hi = p.r.hi /\ LeavesAlone(p)
  BY <1>2, <1>3, <1>4, TurnEffects
<1>6. ~p.r.ioerror /\ lr'.eof = p.r.eof
  BY <1>5 DEF OnlyCut, LeavesAlone
<1>7. ~lr.ioerror
  BY <1>4, <1>6 DEF Outcome, Same
<1>8. OnlyCut
  BY <1>1, <1>7 DEF OnlyCut
<1>9. BufferInv /\ BegunInv /\ PassedInv
  BY <1>8 DEF ProgressInv
<1>10. Layout(log, added, Len(log))
  BY <1>8, WholeLayout DEF OnlyCut
<1>11. Positioned(p.r) /\ p.r.reports = lr.reports /\ (Ends(p) \/ \E x \in Nat : Passes(x, p))
  BY <1>2, <1>3, <1>6, <1>9, <1>10, CutOutcome DEF BufferInv
<1>12. BufferInv'
  <2>1. log' = log
    BY <1>1
  <2>2. Positioned(p.r)
    BY <1>11
  <2>3. /\ IF lr'.eof THEN lr'.hi >= Len(log) ELSE InBlock(lr'.hi) = 0
        /\ lr'.lo < lr'.hi => lr'.hi <= NextBlock(lr'.lo)
        /\ Boundary(p.r.lo)
    BY <1>5, <1>6, <2>2 DEF Positioned
  <2>4. \A q \in 1 .. Len(log) : Of(log, q) /\ q > lr'.lo => StartOf(log, q) >= lr'.lo
    BY <1>5, <2>3 DEF Boundary
  <2> QED
    BY <2>1, <2>3, <2>4 DEF BufferInv, Positioned, Boundary
<1>13. CASE Ends(p)
  BY <1>1, <1>2, <1>4, <1>9, <1>10, <1>11, <1>12, <1>13, EndsKeeps
<1>14. ASSUME NEW x \in Nat, Passes(x, p) PROVE BufferInv' /\ BegunInv' /\ PassedInv'
  BY <1>1, <1>2, <1>4, <1>9, <1>10, <1>11, <1>12, <1>14, PassesKeeps
<1> QED
  BY <1>11, <1>13, <1>14

\* The start of a block.
LEMMA BlockStart ==
  ASSUME NEW x \in Nat
  PROVE  x - InBlock(x) \in Nat /\ InBlock(x - InBlock(x)) = 0
<1> USE ConstFacts
<1>1. InBlock(x) \in Nat /\ InBlock(x) < kBlockSize /\ InBlock(x) <= x
  BY BlockType
<1>2. PICK t \in Nat : t = InBlock(x)
  BY <1>1
<1>3. PICK k \in Int : k = x \div kBlockSize
  BY Quotient
<1>4. x = kBlockSize * k + t
  BY <1>2, <1>3, Quotient DEF InBlock
<1>5. PICK y \in Nat : y = x - t
  BY <1>1, <1>2
<1>6. y = kBlockSize * k + 0
  BY <1>4, <1>5
<1>7. y % kBlockSize = 0
  BY <1>6, Remainder
<1> QED
  BY <1>2, <1>5, <1>7 DEF InBlock

\* No record starts at the initial offset or later and before the block that the
\* reader skips to.
LEMMA NothingSkipped ==
  ASSUME log \in Seq(Cells), Layout(log, added, Len(log)), NEW offset \in Nat,
         NEW p \in 1 .. Len(log), Of(log, p), p <= SkipToInitialBlock(offset)
  PROVE  added[log[p].rec].start < offset
<1> USE ConstFacts
<1>1. PICK s \in Nat : s = added[log[p].rec].start /\ s < p /\ Of(log, s + 1) /\ log[s + 1].at = 1
  BY DEF Layout, StartsIn
<1>2. PICK y \in 1 .. Len(log) : y = s + 1
  BY <1>1
<1>3. InBlock(s) + kHeaderSize <= kBlockSize
  <2>1. StartOf(log, y) = s /\ Of(log, y)
    BY <1>1, <1>2 DEF StartOf
  <2>2. InBlock(s) + kHeaderSize + log[y].len <= kBlockSize /\ log[y].len \in Nat
    BY <2>1, FragmentOf
  <2>3. PICK b \in Nat : b = InBlock(s)
    BY BlockType
  <2> QED
    BY <2>2, <2>3
<1>4. InBlock(offset) \in Nat /\ InBlock(offset) <= offset /\ InBlock(s) \in Nat
  BY BlockType
<1>5. PICK t \in Nat : t = InBlock(offset)
  BY <1>4
<1>6. SkipToInitialBlock(offset) = IF t > kBlockSize - (kHeaderSize - 1) THEN NextBlock(offset) ELSE offset - t
  BY <1>5 DEF SkipToInitialBlock, InBlock, NextBlock
<1>7. CASE ~(t > kBlockSize - (kHeaderSize - 1))
  <2>1. SkipToInitialBlock(offset) = offset - t
    BY <1>6, <1>7
  <2>2. p <= offset - t
    BY <2>1
  <2>3. PICK z \in Nat : z = p
    OBVIOUS
  <2>4. s < z /\ z <= offset - t
    BY <1>1, <2>2, <2>3
  <2>5. s < offset
    BY ONLY <2>4, s \in Nat, z \in Nat, t \in Nat, offset \in Nat
  <2> QED
    BY <1>1, <2>5, Zenon
<1>8. CASE t > kBlockSize - (kHeaderSize - 1)
  <2>1. p <= NextBlock(offset)
    BY <1>6, <1>8
  <2>2. NextBlock(offset) \in Nat
    BY NextBlockFacts
  <2>3. s < NextBlock(offset)
    BY <1>1, <2>1, <2>2
  <2>4. offset <= s => InBlock(s) = InBlock(offset) + (s - offset)
    BY <2>3, NextBlockFacts
  <2>5. PICK u \in Nat : u = InBlock(s)
    BY <1>4
  <2>6. u + kHeaderSize <= kBlockSize /\ (offset <= s => u = t + (s - offset))
    BY <1>3, <1>5, <2>4, <2>5
  <2>7. s < offset
    BY ONLY <1>8, <2>6, ConstFacts, s \in Nat, u \in Nat, t \in Nat, offset \in Nat
  <2> QED
    BY <1>1, <2>7, Zenon
<1> QED
  BY <1>7, <1>8

LEMMA NewReaderProgress ==
  ASSUME WriteInv, LayoutInv, NEW offset \in InitialOffsets, NewReader(offset)
  PROVE  ProgressInv'
<1> USE ConstFacts
<1> SUFFICES ASSUME OnlyCut' PROVE BufferInv' /\ BegunInv' /\ PassedInv'
  BY DEF ProgressInv
<1>1. log' = log /\ added' = added /\ damaged' = damaged /\ Complete' = Complete
  BY DEF NewReader, Complete
<1>2. Layout(log, added, Len(log)) /\ log \in Seq(Cells) /\ Len(log) \in Nat
  BY <1>1, WholeLayout, LenProperties DEF OnlyCut, WriteInv, LogType
<1>3. offset \in Nat
  OBVIOUS
<1>4. PICK b \in Nat : b = SkipToInitialBlock(offset) /\ InBlock(b) = 0
  <2>1. SkipToInitialBlock(offset) \in {NextBlock(offset), offset - InBlock(offset)}
    BY <1>3 DEF SkipToInitialBlock, NextBlock, InBlock
  <2>2. NextBlock(offset) \in Nat /\ InBlock(NextBlock(offset)) = 0
    BY <1>3, NextBlockFacts
  <2>3. offset - InBlock(offset) \in Nat /\ InBlock(offset - InBlock(offset)) = 0
    BY <1>3, BlockStart
  <2> QED
    BY <2>1, <2>2, <2>3, Zenon
<1>5. lr' = [on |-> TRUE, initial |-> offset, lo |-> b, hi |-> b,
             eof |-> FALSE, resyncing |-> offset > 0, in_fragmented |-> FALSE, scratch |-> <<>>,
             out |-> <<>>, reports |-> 0, ioerror |-> FALSE, done |-> FALSE]
  BY <1>4 DEF NewReader
<1>6. /\ lr'.initial = offset /\ lr'.lo = b /\ lr'.hi = b /\ lr'.eof = FALSE /\ lr'.in_fragmented = FALSE
      /\ lr'.out = <<>> /\ lr'.reports = 0 /\ lr'.done = FALSE
  BY <1>5
<1>7. ASSUME NEW p \in 1 .. Len(log), Of(log, p), p <= b PROVE added[log[p].rec].start < offset
  BY <1>2, <1>3, <1>4, <1>7, NothingSkipped
<1>8. BufferInv'
  <2>1. Boundary(b)
    BY <1>2, <1>4, BlockBoundary
  <2>2. ~(b < b)
    BY <1>4
  <2> QED
    BY <1>1, <1>4, <1>6, <2>1, <2>2 DEF BufferInv, Positioned, Boundary
<1>9. BegunInv'
  <2>1. ASSUME NEW q \in 1 .. Len(log), LastOf(log, q, IF b < Len(log) THEN b ELSE Len(log))
        PROVE  added[log[q].rec].start < offset
    <3>1. PICK m \in Nat : m = (IF b < Len(log) THEN b ELSE Len(log)) /\ m <= b
      BY <1>2, <1>4
    <3>2. q \in 1 .. m /\ Of(log, q)
      BY <2>1, <3>1 DEF LastOf
    <3>3. q <= b
      BY <1>4, <3>1, <3>2
    <3> QED
      BY <1>7, <3>2, <3>3
  <2> QED
    BY <1>1, <1>6, <2>1 DEF BegunInv
<1>10. PassedInv'
  <2>1. ASSUME NEW r \in Complete, added[r].end <= b PROVE added[r].start < offset
    <3>1. r \in 1 .. Len(added) /\ added[r].frags > 0 /\ added[r].end <= Len(log)
      BY DEF Complete, LayoutInv, EndInv
    <3>2. PICK e \in 1 .. Len(log) : e = added[r].end /\ Of(log, e) /\ log[e].rec = r
      BY <1>2, <3>1 DEF Layout, EndsIn
    <3> QED
      BY <1>7, <2>1, <3>2
  <2>2. 1 .. Len(lr'.out) = {}
    BY <1>6
  <2> QED
    BY <1>1, <1>6, <2>1, <2>2 DEF PassedInv
<1> QED
  BY <1>8, <1>9, <1>10

TornInv == LogInv /\ LayoutInv /\ ProgressInv

LEMMA TornInit == LFInit => TornInv
<1> SUFFICES ASSUME LFInit PROVE TornInv
  OBVIOUS
<1>1. log = <<>> /\ lw = IdleWriter(0) /\ added = <<>> /\ damaged = {} /\ lr = NoReaderYet /\ lr.on = FALSE
  BY DEF LFInit, NoReaderYet
<1>2. lw.offset = 0 /\ lw.rec = 0 /\ lw.frag = 0 /\ Len(log) = 0 /\ Len(added) = 0
  BY <1>1 DEF IdleWriter
<1>3. 1 .. 0 = {}
  OBVIOUS
<1>4. Layout(log, added, 0)
  BY <1>2, <1>3 DEF Layout, FragmentsIn, TrailersIn, ChainIn, StartsIn, EndsIn
<1>5. ClosedIn(log, 0) /\ Follows(log, 0, lw.rec, lw.frag)
  BY <1>2, <1>3 DEF ClosedIn, Follows
<1>6. NextFragmentInv
  BY <1>2, <1>4, <1>5 DEF NextFragmentInv
<1>7. CutInv /\ EndInv
  BY <1>1, <1>2, <1>3 DEF CutInv, CutAt, EndInv
<1>8. ProgressInv
  BY <1>1 DEF ProgressInv, OnlyCut
<1> QED
  BY <1>6, <1>7, <1>8, LogInit DEF TornInv, LayoutInv

LEMMA TornNext == TornInv /\ [LFNext]_lfVars => TornInv'
<1> SUFFICES ASSUME TornInv, [LFNext]_lfVars PROVE LayoutInv' /\ ProgressInv'
  BY LogNext DEF TornInv
<1>1. WriteInv /\ ReadInv /\ LayoutInv /\ ProgressInv
  BY DEF TornInv, LogInv
<1>2. ASSUME lr' = lr, ~lr.on PROVE ProgressInv'
  BY <1>2 DEF ProgressInv, OnlyCut
<1>3. ASSUME NEW n \in Lengths, WriterAddRecord(n) PROVE LayoutInv' /\ ProgressInv'
  BY <1>1, <1>2, <1>3, AddRecordKeeps DEF WriterAddRecord
<1>4. ASSUME EmitPhysicalRecord PROVE LayoutInv' /\ ProgressInv'
  <2>1. lr' = lr /\ ~lr.on
    BY <1>1, <1>4 DEF EmitPhysicalRecord, WriteInv, WriterInv
  <2> QED
    BY <1>1, <1>2, <1>4, <2>1, EmitKeeps
<1>5. ASSUME NEW k \in 0 .. Len(log), Cut(k) PROVE LayoutInv' /\ ProgressInv'
  BY <1>1, <1>2, <1>5, CutKeeps DEF Cut, MayDamage
<1>6. ASSUME NEW p \in 1 .. Len(log), Flip(p) PROVE LayoutInv' /\ ProgressInv'
  BY <1>1, <1>2, <1>6, FlipKeeps DEF Flip, MayDamage
<1>7. ASSUME NEW p \in 1 .. Len(log), NEW q \in p .. Len(log), Zero(p, q) PROVE LayoutInv' /\ ProgressInv'
  BY <1>1, <1>2, <1>7, ZeroKeeps DEF Zero, MayDamage
<1>8. ASSUME NEW offset \in InitialOffsets, NewReader(offset) PROVE LayoutInv' /\ ProgressInv'
  <2>1. UNCHANGED <<log, lw, added, damaged>>
    BY <1>8 DEF NewReader
  <2> QED
    BY <1>1, <1>8, <2>1, ReaderKeeps, NewReaderProgress
<1>9. ASSUME ReadRecord PROVE LayoutInv' /\ ProgressInv'
  <2>1. UNCHANGED <<log, lw, added, damaged>>
    BY <1>9 DEF ReadRecord
  <2> QED
    BY <1>1, <1>9, <2>1, ReaderKeeps, ReadKeepsProgress
<1>10. ASSUME UNCHANGED lfVars PROVE LayoutInv' /\ ProgressInv'
  <2>1. UNCHANGED <<log, lw, added, damaged, lr>>
    BY <1>10 DEF lfVars
  <2>2. LayoutInv'
    BY <1>1, <2>1, ReaderKeeps
  <2>3. ProgressInv'
    BY <1>1, <2>1 DEF ProgressInv, OnlyCut, BufferInv, Positioned, Boundary, BegunInv, PassedInv, Complete, Returned
  <2> QED
    BY <2>2, <2>3
<1> QED
  BY <1>3, <1>4, <1>5, <1>6, <1>7, <1>8, <1>9, <1>10 DEF LFNext

\* A torn tail is no corruption (log_reader.cc:190-272): if nothing happened to the
\* file but a crash that cut it, a reader that has come to the end has returned
\* exactly the records that are there whole and start at or after its initial
\* offset, and a reader from the start has reported nothing, for every block size,
\* header size, length and place of the cut.
THEOREM TornTailIsNoCorruption == LFSpec => []TornTailIsQuiet
<1>1. TornInv => TornTailIsQuiet
  <2> SUFFICES ASSUME TornInv, lr.on, lr.done, ~lr.ioerror, \A d \in damaged : d.kind = "cut" /\ d.first = Len(log)
               PROVE  /\ \A r \in Complete : Returned(r) <=> added[r].start >= lr.initial
                      /\ lr.initial = 0 => lr.reports = 0
    BY DEF TornTailIsQuiet
  <2>1. PassedInv /\ LayoutInv /\ WriteInv /\ ReadInv
    BY DEF TornInv, LogInv, ProgressInv, OnlyCut
  <2>2. ASSUME NEW r \in Complete PROVE Returned(r) <=> added[r].start >= lr.initial
    <3>1. r \in 1 .. Len(added) /\ added[r].end <= Len(log)
      BY <2>1 DEF Complete, LayoutInv, EndInv
    <3>2. added[r] \in Records /\ Len(log) \in Nat /\ lr.lo \in Nat /\ lr.initial \in Nat
      BY <2>1, <3>1, ElementOfSeq, LenProperties DEF WriteInv, LogType, ReadInv, ReaderType, Readers
    <3>3. added[r].end \in Int /\ added[r].start \in Int
      BY <3>2 DEF Records
    <3>4. added[r].end <= lr.lo
      BY <2>1, <3>1, <3>2, <3>3 DEF PassedInv
    <3>5. Returned(r) \/ added[r].start < lr.initial
      BY <2>1, <3>4 DEF PassedInv
    <3>6. Returned(r) => added[r].start >= lr.initial
      BY <2>1 DEF PassedInv, Returned
    <3> QED
      BY <3>2, <3>3, <3>5, <3>6
  <2> QED
    BY <2>1, <2>2 DEF PassedInv
<1> QED
  BY <1>1, TornInit, TornNext, PTL DEF LFSpec

=============================================================================
