----------------------------- MODULE DBIterator -----------------------------
(***************************************************************************)
(* An iterator of the store: DBIter (lib/leveldb/db/db_iter.cc) over a     *)
(* MergingIterator (lib/leveldb/table/merger.cc) over one iterator of the  *)
(* memtable and one per table or level (lib/leveldb/table/                 *)
(* two_level_iterator.cc), while writers add entries to the memtable. A    *)
(* step moves the iterators below once; writes fall between any two.       *)
(*                                                                         *)
(* The data of a child is a set of entries. The blocks that cannot be read *)
(* are the set lost; a child skips over them and remembers the error. Keys *)
(* of entries are numbers in their order; a value is the sequence number   *)
(* of the entry that holds it. The damage is there from the start: an      *)
(* iterator keeps the files of its version.                                *)
(***************************************************************************)
EXTENDS Integers, FiniteSets, FiniteSetsExt, Functions

CONSTANTS
    IterKeys,       \* user keys
    IterChildren,   \* children of the merging iterator; 1 is the memtable's
    IterEntries,    \* the number of entries at the start
    IterBlock,      \* entries of a block
    MaxIterWrites,  \* bound: entries written while the iterator is there
    MaxIterDamage   \* bound: blocks that are lost and entries that are corrupt

ASSUME DBIteratorAssumption ==
    /\ IterKeys \subseteq Nat \ {0} /\ IsFiniteSet(IterKeys)
    /\ IterChildren \subseteq Nat /\ 1 \in IterChildren /\ IsFiniteSet(IterChildren)
    /\ IterEntries \in Nat /\ IterBlock \in Nat \ {0}
    /\ MaxIterWrites \in Nat /\ MaxIterDamage \in Nat

VARIABLES
    data,       \* child -> its entries
    lost,       \* entries in blocks that cannot be read
    corrupt,    \* entries whose internal key does not parse
    sequence,   \* sequence_, the iterator's snapshot
    child,      \* child -> [at, ok]: the entry it is at, its status
    merge,      \* the merging iterator: [current, forward]
    db,         \* DBIter: [forward, valid, key, value, ok]; key and value are
                \* saved_key_ and saved_value_, ok is its own status_
    step,       \* the loop DBIter is in: [in, skipping, type], and the move of
                \* the merging iterator that is half done: [move]
    request,    \* the call
    result      \* what the caller sees after it: [at, ok]

iterVars == <<data, lost, corrupt, sequence, child, merge, db, step, request, result>>

NoEntry == [seq |-> 0, key |-> 0, type |-> "none"]

\* InternalKeyComparator: by user key, newest first.
Before(a, b) == a.key < b.key \/ (a.key = b.key /\ a.seq > b.seq)

FirstEntry(S) == IF S = {} THEN NoEntry
                 ELSE CHOOSE e \in S : \A f \in S \ {e} : Before(e, f)
LastEntry(S) == IF S = {} THEN NoEntry
                ELSE CHOOSE e \in S : \A f \in S \ {e} : Before(f, e)

\* The blocks of a child's table.
Blocks(S) ==
    LET Index(e) == Cardinality({f \in S : Before(f, e)}) \div IterBlock
    IN  {{e \in S : Index(e) = i} : i \in {Index(e) : e \in S}}

-----------------------------------------------------------------------------
(* Children. TwoLevelIterator::Valid is at # NoEntry.                       *)

\* To the first entry of T, the entries that lie ahead, that can be read:
\* SkipEmptyDataBlocksForward passes the blocks that are not, and
\* SetDataIterator keeps their errors.
Forward(c, T) ==
    LET e == FirstEntry(T \ lost)
    IN  [at |-> e, ok |-> c.ok /\ \A f \in T \cap lost : e # NoEntry /\ Before(e, f)]

Backward(c, T) ==
    LET e == LastEntry(T \ lost)
    IN  [at |-> e, ok |-> c.ok /\ \A f \in T \cap lost : e # NoEntry /\ Before(f, e)]

ChildFirst(i) == Forward(child[i], data[i])
ChildLast(i) == Backward(child[i], data[i])
ChildSeek(i, target) == Forward(child[i], {e \in data[i] : ~Before(e, target)})
ChildNext(i) == Forward(child[i], {e \in data[i] : Before(child[i].at, e)})
ChildPrev(i) == Backward(child[i], {e \in data[i] : Before(e, child[i].at)})

-----------------------------------------------------------------------------
(* MergingIterator.                                                         *)

IterValid == merge.current # 0
IterEntry == IF IterValid THEN child[merge.current].at ELSE NoEntry

ValidOnes(children) == {i \in IterChildren : children[i].at # NoEntry}

FindSmallest(children) ==
    IF ValidOnes(children) = {} THEN 0
    ELSE CHOOSE i \in ValidOnes(children) :
            \A j \in ValidOnes(children) \ {i} : Before(children[i].at, children[j].at)

FindLargest(children) ==
    IF ValidOnes(children) = {} THEN 0
    ELSE CHOOSE i \in ValidOnes(children) :
            \A j \in ValidOnes(children) \ {i} : Before(children[j].at, children[i].at)

Positioned(children, forward) ==
    /\ child' = children
    /\ merge' = [current |-> IF forward THEN FindSmallest(children) ELSE FindLargest(children),
                 forward |-> forward]

\* A move against the direction takes two steps: it seeks the other children
\* to key() first. No child but the current one holds key().
Turning(move) ==
    \/ move = "next" /\ ~merge.forward
    \/ move = "prev" /\ merge.forward

\* SeekToFirst, SeekToLast, Seek, Next and Prev. The target of Seek is the user
\* key with the iterator's sequence number and kValueTypeForSeek: it comes
\* before the entries that number can see.
Below(move, key) ==
    \/ /\ move = "first"
       /\ Positioned([i \in IterChildren |-> ChildFirst(i)], TRUE)
    \/ /\ move = "last"
       /\ Positioned([i \in IterChildren |-> ChildLast(i)], FALSE)
    \/ /\ move = "seek"
       /\ LET target == [key |-> key, seq |-> sequence]
          IN  Positioned([i \in IterChildren |-> ChildSeek(i, target)], TRUE)
    \/ /\ move = "next" /\ merge.forward
       /\ Positioned([child EXCEPT ![merge.current] = ChildNext(merge.current)], TRUE)
    \/ /\ move = "prev" /\ ~merge.forward
       /\ Positioned([child EXCEPT ![merge.current] = ChildPrev(merge.current)], FALSE)
    \/ /\ Turning(move)
       /\ child' = [i \in IterChildren |->
                        IF i = merge.current THEN child[i] ELSE ChildSeek(i, IterEntry)]
       /\ UNCHANGED merge

\* The second step of Next: the others are at or after key() now.
TurnNext ==
    /\ step.move = "next"
    /\ Positioned([i \in IterChildren |->
                      IF i = merge.current \/ child[i].at = IterEntry THEN ChildNext(i)
                      ELSE child[i]], TRUE)
    /\ step' = [step EXCEPT !.move = "none"]
    /\ UNCHANGED <<data, lost, corrupt, sequence, db, request, result>>

\* Mutant of TurnedBack: a child with nothing at or after key() is left where it is.
TurnedBackValid(i) == IF child[i].at # NoEntry THEN ChildPrev(i) ELSE child[i]

\* ... and of Prev: they go back one entry, or to their last.
TurnedBack(i) == IF child[i].at # NoEntry THEN ChildPrev(i) ELSE ChildLast(i)

TurnPrev ==
    /\ step.move = "prev"
    /\ Positioned([i \in IterChildren |->
                      IF i = merge.current THEN ChildPrev(i) ELSE TurnedBack(i)], FALSE)
    /\ step' = [step EXCEPT !.move = "none"]
    /\ UNCHANGED <<data, lost, corrupt, sequence, db, request, result>>

-----------------------------------------------------------------------------
(* DBIter.                                                                  *)

Idle == step.in = "idle"
Looping(in, skipping) == [in |-> in, skipping |-> skipping, type |-> "deletion", move |-> "none"]
Called(op, key) == [op |-> op, key |-> key]

\* iter_ makes a move, and the loop goes on from where it leads.
GoOn(d, s, move) ==
    /\ db' = d
    /\ Below(move, request'.key)
    /\ step' = [s EXCEPT !.move = IF Turning(move) THEN move ELSE "none"]
    /\ UNCHANGED <<data, lost, corrupt, sequence>>

KeepGoing(d, s, move) == GoOn(d, s, move) /\ UNCHANGED <<request, result>>

\* key() and value(): in the forward direction those of the iterator below.
NotThere == [key |-> 0, value |-> 0]

Shown(d) ==
    IF ~d.valid THEN NotThere
    ELSE IF d.forward THEN [key |-> IterEntry.key, value |-> IterEntry.seq]
    ELSE [key |-> d.key, value |-> d.value]

Return(d) ==
    /\ db' = d
    /\ result' = [at |-> Shown(d), ok |-> d.ok /\ \A i \in IterChildren : child[i].ok]
    /\ request' = Called("none", 0)
    /\ step' = Looping("idle", FALSE)
    /\ UNCHANGED <<data, lost, corrupt, sequence, child, merge>>

\* A call starts, from where the iterator stands, with a first move ...
Start(op, d, s, move) ==
    /\ Idle /\ db.valid
    /\ request' = Called(op, 0)
    /\ GoOn(d, s, move)
    /\ UNCHANGED result

\* ... or anywhere: valid_ and the saved key and value are not read before
\* they are set, and until then the iterator stands nowhere.
StartSeek(op, key, forward, s, move) ==
    /\ Idle
    /\ request' = Called(op, key)
    /\ GoOn([db EXCEPT !.forward = forward, !.valid = FALSE, !.key = 0, !.value = 0], s, move)
    /\ result' = [result EXCEPT !.at = NotThere]

DBNext ==
    Start("Next",
          IF db.forward THEN [db EXCEPT !.key = IterEntry.key] ELSE [db EXCEPT !.forward = TRUE],
          Looping("find_next", TRUE),
          IF ~db.forward /\ ~IterValid THEN "first" ELSE "next")

\* In the forward direction Prev leaves the entries of the current key first.
DBPrev ==
    /\ db.forward
    /\ Start("Prev", [db EXCEPT !.key = IterEntry.key], Looping("back", FALSE), "prev")

DBPrevAgain ==
    /\ Idle /\ db.valid /\ ~db.forward
    /\ request' = Called("Prev", 0)
    /\ step' = Looping("find_prev", FALSE)
    /\ UNCHANGED <<data, lost, corrupt, sequence, child, merge, db, result>>

DBSeek(key) == StartSeek("Seek", key, TRUE, Looping("find_next", FALSE), "seek")

DBSeekToFirst == StartSeek("SeekToFirst", 0, TRUE, Looping("find_next", FALSE), "first")

DBSeekToLast == StartSeek("SeekToLast", 0, FALSE, Looping("find_prev", FALSE), "last")

AtEntry(in) == step.in = in /\ step.move = "none"
Parsed == IterEntry \notin corrupt
AfterParse == [db EXCEPT !.ok = @ /\ Parsed]
Seen == Parsed /\ IterEntry.seq <= sequence

\* An entry that a deletion or a newer value before it hides.
Hidden == step.skipping /\ IterEntry.key <= db.key

\* One turn of FindNextUserEntry.
FindNextUserEntry ==
    /\ AtEntry("find_next")
    /\ \/ /\ ~IterValid
          /\ Return([db EXCEPT !.valid = FALSE, !.key = 0])
       \/ /\ IterValid /\ Seen /\ IterEntry.type = "value" /\ ~Hidden
          /\ Return([db EXCEPT !.valid = TRUE, !.key = 0])
       \/ /\ IterValid /\ Seen /\ IterEntry.type = "deletion"
          /\ KeepGoing([db EXCEPT !.key = IterEntry.key], [step EXCEPT !.skipping = TRUE], "next")
       \/ /\ IterValid /\ (~Seen \/ (IterEntry.type = "value" /\ Hidden))
          /\ KeepGoing(AfterParse, step, "next")

\* One turn of the loop of Prev that leaves the entries of the current key.
ScanBack ==
    /\ AtEntry("back")
    /\ \/ /\ ~IterValid
          /\ Return([db EXCEPT !.valid = FALSE, !.key = 0, !.value = 0])
       \/ /\ IterValid /\ IterEntry.key < db.key
          /\ db' = [db EXCEPT !.forward = FALSE]
          /\ step' = Looping("find_prev", FALSE)
          /\ UNCHANGED <<data, lost, corrupt, sequence, child, merge, request, result>>
       \/ /\ IterValid /\ IterEntry.key >= db.key
          /\ KeepGoing(db, step, "prev")

\* The entry is of a key before the one found.
PreviousFound == step.type # "deletion" /\ IterEntry.key < db.key

\* One turn of FindPrevUserEntry.
FindPrevUserEntry ==
    /\ AtEntry("find_prev")
    /\ \/ /\ ~IterValid \/ (Seen /\ PreviousFound)
          /\ Return(IF step.type = "deletion"
                    THEN [db EXCEPT !.valid = FALSE, !.key = 0, !.value = 0, !.forward = TRUE]
                    ELSE [db EXCEPT !.valid = TRUE])
       \/ /\ IterValid /\ Seen /\ ~PreviousFound
          /\ LET e == IterEntry
                 deletion == e.type = "deletion"
             IN  KeepGoing([db EXCEPT !.key = IF deletion THEN 0 ELSE e.key,
                                 !.value = IF deletion THEN 0 ELSE e.seq],
                      [step EXCEPT !.type = e.type], "prev")
       \/ /\ IterValid /\ ~Seen
          /\ KeepGoing(AfterParse, step, "prev")

\* A writer adds an entry to the memtable.
Written == UNION Range(data)

AddToMemTable(key, type) ==
    /\ Cardinality(Written) < IterEntries + MaxIterWrites
    /\ LET e == [seq |-> Cardinality(Written) + 1, key |-> key, type |-> type]
       IN  data' = [data EXCEPT ![1] = @ \cup {e}]
    /\ UNCHANGED <<lost, corrupt, sequence, child, merge, db, step, request, result>>

\* Any entries, in any of the children; a child's newest entry of a key is
\* not always newer than another's. A snapshot may be older than the last.
IterData ==
    /\ \E f \in [1 .. IterEntries ->
                    [key : IterKeys, type : {"value", "deletion"}, in : IterChildren]] :
          data = [i \in IterChildren |->
                    {[seq |-> s, key |-> f[s].key, type |-> f[s].type] :
                        s \in {s \in 1 .. IterEntries : f[s].in = i}}]
    /\ \E bad \in SUBSET UNION {Blocks(data[i]) : i \in IterChildren \ {1}} :
          /\ Cardinality(bad) <= MaxIterDamage
          /\ lost = UNION bad
          /\ corrupt \in {S \in SUBSET UNION {data[i] : i \in IterChildren \ {1}} :
                            Cardinality(S) + Cardinality(bad) <= MaxIterDamage}
    /\ sequence \in {IterEntries - 1, IterEntries}

NewIterator ==
    /\ child = [i \in IterChildren |-> [at |-> NoEntry, ok |-> TRUE]]
    /\ merge = [current |-> 0, forward |-> TRUE]
    /\ db = [forward |-> TRUE, valid |-> FALSE, key |-> 0, value |-> 0, ok |-> TRUE]
    /\ step = Looping("idle", FALSE)
    /\ request = Called("none", 0)
    /\ result = [at |-> NotThere, ok |-> TRUE]

IterInit == IterData /\ NewIterator

IterNext ==
    \/ DBNext
    \/ DBPrev
    \/ DBPrevAgain
    \/ \E key \in IterKeys : DBSeek(key)
    \/ DBSeekToFirst
    \/ DBSeekToLast
    \/ TurnNext
    \/ TurnPrev
    \/ FindNextUserEntry
    \/ ScanBack
    \/ FindPrevUserEntry
    \/ \E key \in IterKeys, type \in {"value", "deletion"} : AddToMemTable(key, type)

IterSpec == IterInit /\ [][IterNext]_iterVars

-----------------------------------------------------------------------------
(* The iterator of the snapshot.                                            *)

\* The value of a key at the iterator's snapshot, had nothing been damaged.
ViewOf(key) ==
    LET e == FirstEntry({e \in Written : e.key = key /\ e.seq <= sequence})
    IN  IF e.type = "value" THEN e.seq ELSE 0

Snapshot == INSTANCE Cursor WITH
    CursorKeys <- IterKeys,
    view <- [key \in IterKeys |-> ViewOf(key)],
    call <- request,
    at <- result.at,
    ok <- result.ok

\* DBIter over the merging iterator is a cursor over the snapshot it was made
\* for, in any order of calls (Next after Prev, Prev after Next) over deletions,
\* overwritten and unreadable entries, and whatever is written meanwhile; an
\* answer that is not the snapshot's comes with a status that says so.
IsCursor == Snapshot!CursorSpec

=============================================================================
