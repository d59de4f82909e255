------------------------------ MODULE MemTable ------------------------------
(***************************************************************************)
(* The memtable (lib/leveldb/db/memtable.cc) and the skip list it is made  *)
(* of (db/skiplist.h): one writer, which the writer queue serialises, and  *)
(* a reader that takes no lock. The writer stores one pointer per step and *)
(* the reader loads one pointer per step.                                  *)
(*                                                                         *)
(* A node is named by the sequence number of its entry. next_[i] of a node *)
(* is Garbage until it is stored. Pointers are published with release      *)
(* stores and read with acquire loads, so a load sees the current value.   *)
(* max_height_ is relaxed: a reader may see any value it has had.          *)
(***************************************************************************)
EXTENDS Integers, FiniteSets, FiniteSetsExt

CONSTANTS
    UserKeys,    \* a set of numbers, for the order
    kMaxHeight,
    MaxEntries   \* bound: entries added to the memtable

ASSUME MemTableAssumption ==
    /\ UserKeys \subseteq Nat /\ UserKeys # {} /\ IsFiniteSet(UserKeys)
    /\ kMaxHeight \in Nat \ {0} /\ MaxEntries \in Nat

Entries == 1 .. MaxEntries
HeadNode == 0
Nil == -1
Garbage == -2
Levels == 0 .. kMaxHeight - 1
ValueTypes == {"value", "deletion"}

VARIABLES
    entry,       \* sequence number -> [user, type] of the entries added
    next_,       \* node -> level -> node
    heights,     \* values max_height_ has had
    writer,      \* [node, height, level, prev, part] of the Insert that runs
    lastSeq,     \* last_sequence_: entries up to it are completely inserted
    reader       \* the operation the reader runs and where it is

mtVars == <<entry, next_, heights, writer, lastSeq, reader>>

\* The boundary of a search: "at" user u and sequence number s, before the
\* first entry, or after the last.
First == [user |-> -1, seq |-> 0]
LastBound == [user |-> Max(UserKeys) + 1, seq |-> 0]

KeyOf(n) == [user |-> entry[n].user, seq |-> n]

\* InternalKeyComparator: users ascending, sequence numbers descending.
Less(a, b) == a.user < b.user \/ (a.user = b.user /\ a.seq > b.seq)

NoWriter == [node |-> Nil, height |-> 0, level |-> 0, prev |-> [i \in Levels |-> HeadNode]]

\* op is what the reader runs and back its direction; key is the boundary it
\* searches from, seen the last entry inserted when it began; x and level are
\* where the search is, node is its result.
NoReader == [op |-> "none", back |-> FALSE, key |-> First, seen |-> 0, x |-> HeadNode, level |-> 0, node |-> Nil]

\* A new node: its links hold whatever the memory did. A link is an atomic
\* pointer that is loaded and stored in one step.
NewNode == [i \in Levels |-> Garbage]

RandomHeight == 1 .. kMaxHeight

MTInit ==
    /\ entry = [n \in Entries |-> [user |-> -1, type |-> "value"]]
    /\ next_ = [n \in Entries \cup {HeadNode} |->
                  IF n = HeadNode THEN [i \in Levels |-> Nil] ELSE NewNode]
    /\ heights = {1}
    /\ writer = NoWriter
    /\ lastSeq = 0
    /\ reader = NoReader

-----------------------------------------------------------------------------
(* The writer: MemTable::Add, SkipList::Insert.                             *)

\* null n is considered infinite
KeyIsAfterNode(key, n) == n # Nil /\ Less(KeyOf(n), key)

\* The node the search of FindGreaterOrEqual leaves level i at: no other
\* thread changes a pointer, so the writer's search is one step.
PrevAt(i, key) ==
    LET before == {n \in Entries : entry[n].user # -1 /\ next_[n][i] # Garbage /\ Less(KeyOf(n), key)}
    IN  IF before = {} THEN HeadNode
        ELSE CHOOSE n \in before : \A m \in before : m = n \/ Less(KeyOf(m), KeyOf(n))

max_height == Max(heights)

\* The search, RandomHeight and the store of max_height_.
Add(user, type, height) ==
    /\ writer.node = Nil /\ lastSeq < MaxEntries
    /\ LET n == lastSeq + 1
           key == [user |-> user, seq |-> n]
       IN  /\ writer' = [node |-> n, height |-> height, level |-> 0,
                         prev |-> [i \in Levels |-> IF i < max_height THEN PrevAt(i, key) ELSE HeadNode]]
           /\ entry' = [entry EXCEPT ![n] = [user |-> user, type |-> type]]
           /\ heights' = IF height > max_height THEN heights \cup {height} ELSE heights
    /\ UNCHANGED <<next_, lastSeq, reader>>

\* Mutant of LinkNext: the new node is published before its pointer is set.
LinkNextPublishes ==
    /\ writer.node # Nil /\ writer.level < writer.height
    /\ next_[writer.node][writer.level] = Garbage
    /\ LET p == writer.prev[writer.level]
       IN  next_' = [next_ EXCEPT ![p][writer.level] = writer.node]
    /\ UNCHANGED <<entry, heights, writer, lastSeq, reader>>

\* x->NoBarrier_SetNext(i, prev[i]->NoBarrier_Next(i))
LinkNext ==
    /\ writer.node # Nil /\ writer.level < writer.height
    /\ next_[writer.node][writer.level] = Garbage
    /\ next_' = [next_ EXCEPT ![writer.node][writer.level] = next_[writer.prev[writer.level]][writer.level]]
    /\ UNCHANGED <<entry, heights, writer, lastSeq, reader>>

\* prev[i]->SetNext(i, x)
LinkPrev ==
    /\ writer.node # Nil /\ writer.level < writer.height
    /\ next_[writer.node][writer.level] # Garbage
    /\ next_' = [next_ EXCEPT ![writer.prev[writer.level]][writer.level] = writer.node]
    /\ writer' = [writer EXCEPT !.level = @ + 1]
    /\ UNCHANGED <<entry, heights, lastSeq, reader>>

\* Insert returns and the write is published (DBImpl::Write).
Published ==
    /\ writer.node # Nil /\ writer.level = writer.height
    /\ lastSeq' = writer.node /\ writer' = NoWriter
    /\ UNCHANGED <<entry, next_, heights, reader>>

-----------------------------------------------------------------------------
(* The reader.                                                              *)

Idle == reader.op \in {"none", "done"}

Valid == reader.op = "done" /\ reader.node # Nil

Search(back, key, h) ==
    reader' = [op |-> "search", back |-> back, key |-> key, seen |-> lastSeq,
               x |-> HeadNode, level |-> h - 1, node |-> Nil]

\* Iterator::Seek, which MemTable::Get begins with: FindGreaterOrEqual. The
\* sequence number is the reader's snapshot.
Seek ==
    /\ Idle
    /\ \E u \in UserKeys, s \in 0 .. lastSeq, h \in heights : Search(FALSE, [user |-> u, seq |-> s], h)

\* Iterator::Prev: FindLessThan the key of the current node.
Prev ==
    /\ Valid
    /\ \E h \in heights : Search(TRUE, KeyOf(reader.node), h)

\* Iterator::SeekToLast: FindLast.
SeekToLast ==
    /\ Idle
    /\ \E h \in heights : Search(TRUE, LastBound, h)

\* Iterator::SeekToFirst and Iterator::Next load one pointer.
Follow(key, n) ==
    reader' = [op |-> "done", back |-> FALSE, key |-> key, seen |-> lastSeq,
               x |-> n, level |-> 0, node |-> next_[n][0]]

SeekToFirst == Idle /\ Follow(First, HeadNode)

IterNext == Valid /\ Follow([user |-> entry[reader.node].user, seq |-> reader.node - 1], reader.node)

\* One turn of the loop of FindGreaterOrEqual, FindLessThan or FindLast: a
\* pointer is loaded and followed, or the search goes down a level or ends.
Load ==
    /\ reader.op = "search"
    /\ LET n == next_[reader.x][reader.level]
       IN  reader' = IF KeyIsAfterNode(reader.key, n) THEN [reader EXCEPT !.x = n]
                     ELSE IF reader.level > 0 THEN [reader EXCEPT !.level = @ - 1]
                     ELSE [reader EXCEPT !.op = "done",
                              !.node = IF ~reader.back THEN n
                                       ELSE IF reader.x = HeadNode THEN Nil ELSE reader.x]

ReaderStep ==
    /\ Seek \/ Prev \/ SeekToLast \/ SeekToFirst \/ IterNext \/ Load
    /\ UNCHANGED <<entry, next_, heights, writer, lastSeq>>

\* What MemTable::Get returns for the key it sought: the value or the deletion
\* of the entry found, or false.
Get == IF Valid /\ entry[reader.node].user = reader.key.user THEN entry[reader.node].type ELSE "false"

-----------------------------------------------------------------------------
MTNext ==
    \/ \E u \in UserKeys, type \in ValueTypes, h \in RandomHeight : Add(u, type, h)
    \/ LinkNext \/ LinkPrev \/ Published
    \/ ReaderStep

MTSpec == MTInit /\ [][MTNext]_mtVars

-----------------------------------------------------------------------------
\* Get finds the newest entry of its key that its snapshot covers.
GetIsNewest ==
    ~reader.back /\ reader.key.user \in UserKeys =>
        LET mine == {m \in 1 .. reader.key.seq : entry[m].user = reader.key.user}
        IN  Get = IF mine = {} THEN "false" ELSE entry[Max(mine)].type

\* An operation of a reader lands on the right side of its boundary and
\* passes over no entry that was inserted before it began, however far the
\* writer has come with another one, and whatever height it saw. It loads no
\* pointer the writer has not stored yet: a node is reached on a level only
\* when it is linked on every level below (skiplist.h:337-365).
NothingSkipped ==
    /\ reader.op = "search" => next_[reader.x][reader.level] # Garbage
    /\ Valid => next_[reader.node][0] # Garbage
    /\ reader.op = "done" =>
        /\ GetIsNewest
        /\ Valid => Less(KeyOf(reader.node), reader.key) = reader.back
        /\ \A m \in 1 .. reader.seen :
              \/ Less(KeyOf(m), reader.key) # reader.back
              \/ Valid /\ IF reader.back THEN ~Less(KeyOf(reader.node), KeyOf(m))
                                         ELSE ~Less(KeyOf(m), KeyOf(reader.node))

=============================================================================
