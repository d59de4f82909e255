-------------------------------- MODULE Block --------------------------------
(***************************************************************************)
(* Blocks of tables: BlockBuilder (lib/leveldb/table/block_builder.cc),    *)
(* which keeps of a key what differs from the one before it, and whole     *)
(* keys only at restart points, and Block::Iter (table/block.cc), which    *)
(* finds its way back through them. A step is a turn of a loop.            *)
(*                                                                         *)
(* A key is a sequence of letters; AllKeys lists the keys there may be, in *)
(* the comparator's order. The offset of an entry is the number of entries *)
(* before it. A value is the rank of its key.                              *)
(***************************************************************************)
EXTENDS Integers, Sequences, SequencesExt, FiniteSetsExt

CONSTANTS
    AllKeys,          \* the keys, in order
    RestartInterval,  \* Options::block_restart_interval
    MaxBlockDamage    \* bound: entries that are damaged

ASSUME BlockAssumption ==
    /\ AllKeys \in Seq(Seq(Nat)) /\ IsInjective(AllKeys)
    /\ RestartInterval \in Nat \ {0} /\ MaxBlockDamage \in Nat

VARIABLES
    contents,   \* the keys the block is given
    builder,    \* [buffer, restarts, counter, last_key]; buffer's entries are
                \* [shared, delta, value, decodes]
    finished,   \* Finish has been called, and the block is read
    iter,       \* [current, next, restart_index, key, ok]; next is NextEntryOffset
    loop,       \* the loop the iterator is in: [in, left, right, skip, original]
    asked,      \* the call
    seen        \* what the caller sees: [at, ok]

blockVars == <<contents, builder, finished, iter, loop, asked, seen>>

Rank(key) == CHOOSE i \in DOMAIN AllKeys : AllKeys[i] = key
KeyLess(a, b) == Rank(a) < Rank(b)

-----------------------------------------------------------------------------
(* BlockBuilder.                                                            *)

\* The length of the prefix that two keys share.
SharedLength(a, b) == Len(LongestCommonPrefix({a, b}))

Restarting == builder.counter >= RestartInterval

\* The keys come in order; the first of a restart block is kept whole.
BuilderAdd ==
    /\ ~finished /\ Len(builder.buffer) < Len(contents)
    /\ LET key == contents[Len(builder.buffer) + 1]
           shared == IF Restarting THEN 0 ELSE SharedLength(builder.last_key, key)
           size == Len(builder.buffer)
       IN  builder' = [buffer |-> Append(builder.buffer,
                            [shared |-> shared, delta |-> SubSeq(key, shared + 1, Len(key)),
                             value |-> Rank(key), decodes |-> TRUE]),
                       restarts |-> IF Restarting THEN Append(builder.restarts, size)
                                    ELSE builder.restarts,
                       counter |-> IF Restarting THEN 1 ELSE builder.counter + 1,
                       last_key |-> key]
    /\ UNCHANGED <<contents, finished, iter, loop, asked, seen>>

\* Entries of the finished block may be damaged (checksums are not verified by
\* default): one no longer decodes, or claims more of the key before it than
\* there is.
Damage(buffer, bad, long) ==
    [i \in DOMAIN buffer |->
        [buffer[i] EXCEPT !.decodes = i \notin bad,
                          !.shared = IF i \in long THEN 1 + Max({Len(k) : k \in ToSet(AllKeys)})
                                     ELSE @]]

restarts_ == Len(builder.buffer)
num_restarts_ == Len(builder.restarts)
NotInLoop == [in |-> "none", left |-> 0, right |-> 0, skip |-> FALSE, original |-> 0]

\* The constructor of Block::Iter: at no entry.
NewBlockIter ==
    [current |-> restarts_, next |-> 0, restart_index |-> num_restarts_, key |-> <<>>, ok |-> TRUE]

BuilderFinish(bad, long) ==
    /\ ~finished /\ Len(builder.buffer) = Len(contents)
    /\ finished' = TRUE
    /\ builder' = [builder EXCEPT !.buffer = Damage(builder.buffer, bad, long)]
    /\ iter' = NewBlockIter
    /\ UNCHANGED <<contents, loop, asked, seen>>

-----------------------------------------------------------------------------
(* Block::Iter.                                                             *)

BlockValid(it) == it.current < restarts_

GetRestartPoint(index) == builder.restarts[index + 1]

AtRestartPoint(it, index) ==
    [it EXCEPT !.key = <<>>, !.restart_index = index, !.next = GetRestartPoint(index)]

CorruptionError == [NewBlockIter EXCEPT !.ok = FALSE]

\* The restart block an entry falls into, searched from the current one on.
\* An entry at a restart point still counts to the block before it.
RestartIndexAt(from, current) ==
    Max({from} \cup {i \in from + 1 .. num_restarts_ - 1 : GetRestartPoint(i) < current})

\* The entry at p: how much of the key it shares and what it adds, if its
\* lengths can be decoded and lie within the block.
DecodeEntry(p) == builder.buffer[p + 1]

ParseNextKey(it) ==
    LET current == it.next
        entry == DecodeEntry(current)
    IN  IF current >= restarts_
        THEN [it EXCEPT !.current = restarts_, !.restart_index = num_restarts_]
        ELSE IF ~entry.decodes \/ Len(it.key) < entry.shared THEN CorruptionError
        ELSE [it EXCEPT !.current = current, !.next = current + 1,
                        !.key = SubSeq(it.key, 1, entry.shared) \o entry.delta,
                        !.restart_index = RestartIndexAt(it.restart_index, current)]

\* What the caller sees once the call has returned.
SeenAt(it) ==
    [at |-> IF BlockValid(it)
            THEN [key |-> Rank(it.key), value |-> builder.buffer[it.current + 1].value]
            ELSE [key |-> 0, value |-> 0],
     ok |-> it.ok]

BlockReturn(it) ==
    /\ iter' = it
    /\ loop' = NotInLoop
    /\ asked' = [op |-> "none", key |-> 0]
    /\ seen' = SeenAt(it)
    /\ UNCHANGED <<contents, builder, finished>>

BlockStep(it, l) ==
    /\ iter' = it
    /\ loop' = l
    /\ UNCHANGED <<contents, builder, finished, asked, seen>>

InLoop(l) == loop.in = l
Starting(op) == loop.in = "none" /\ asked.op = op

AskBlock(op, key) ==
    /\ finished /\ asked.op = "none"
    /\ op \in {"Next", "Prev"} => BlockValid(iter)
    /\ asked' = [op |-> op, key |-> key]
    /\ seen' = IF op \in {"Next", "Prev"} THEN seen ELSE [seen EXCEPT !.at = [key |-> 0, value |-> 0]]
    /\ UNCHANGED <<contents, builder, finished, iter, loop>>

BlockNext == Starting("Next") /\ BlockReturn(ParseNextKey(iter))

BlockSeekToFirst == Starting("SeekToFirst") /\ BlockReturn(ParseNextKey(AtRestartPoint(iter, 0)))

\* Back to the last restart point before the entry, and from there on to the
\* entry that ends where it starts.
BlockPrev ==
    /\ Starting("Prev")
    /\ LET points == {i \in 0 .. iter.restart_index : GetRestartPoint(i) < iter.current}
       IN  IF points = {}
           THEN BlockReturn([iter EXCEPT !.current = restarts_, !.restart_index = num_restarts_])
           ELSE BlockStep(AtRestartPoint(iter, Max(points)),
                          [NotInLoop EXCEPT !.in = "until", !.original = iter.current])

BlockSeekToLast ==
    /\ Starting("SeekToLast")
    /\ BlockStep(AtRestartPoint(iter, num_restarts_ - 1),
                 [NotInLoop EXCEPT !.in = "until", !.original = restarts_])

\* A turn of the loops of Prev and SeekToLast.
ScanUntil ==
    /\ InLoop("until")
    /\ LET it == ParseNextKey(iter)
       IN  IF BlockValid(it) /\ it.next < loop.original THEN BlockStep(it, loop)
           ELSE BlockReturn(it)

Target == AllKeys[asked.key]

\* Seek: the current position bounds the search.
BlockSeek ==
    /\ Starting("Seek")
    /\ LET valid == BlockValid(iter)
           less == valid /\ KeyLess(iter.key, Target)
       IN  IF valid /\ iter.key = Target THEN BlockReturn(iter)
           ELSE BlockStep(iter,
                    [in |-> "binary", skip |-> less, original |-> 0,
                     left |-> IF less THEN iter.restart_index ELSE 0,
                     right |-> IF valid /\ ~less THEN iter.restart_index
                               ELSE num_restarts_ - 1])

\* A turn of the search for the last restart point with a key before the target.
BinarySearch ==
    /\ InLoop("binary") /\ loop.left < loop.right
    /\ LET mid == (loop.left + loop.right + 1) \div 2
           entry == DecodeEntry(GetRestartPoint(mid))
       IN  IF ~entry.decodes \/ entry.shared # 0 THEN BlockReturn(CorruptionError)
           ELSE IF KeyLess(entry.delta, Target) THEN BlockStep(iter, [loop EXCEPT !.left = mid])
           ELSE BlockStep(iter, [loop EXCEPT !.right = mid - 1])

\* Mutant of SkipSeek: the current position is used whenever it is in the block.
SkipSeekAlways == loop.left = iter.restart_index

\* The search may go on from the current entry.
SkipSeek == loop.left = iter.restart_index /\ loop.skip

SearchedRestarts ==
    /\ InLoop("binary") /\ loop.left >= loop.right
    /\ BlockStep(IF SkipSeek THEN iter ELSE AtRestartPoint(iter, loop.left),
                 [NotInLoop EXCEPT !.in = "linear"])

\* A turn of the search for the first key at or after the target.
LinearSearch ==
    /\ InLoop("linear")
    /\ LET it == ParseNextKey(iter)
       IN  IF BlockValid(it) /\ KeyLess(it.key, Target) THEN BlockStep(it, loop)
           ELSE BlockReturn(it)

NewBlock ==
    /\ builder = [buffer |-> <<>>, restarts |-> <<0>>, counter |-> 0, last_key |-> <<>>]
    /\ finished = FALSE
    /\ iter = [current |-> 0, next |-> 0, restart_index |-> 0, key |-> <<>>, ok |-> TRUE]
    /\ loop = NotInLoop
    /\ asked = [op |-> "none", key |-> 0]
    /\ seen = [at |-> [key |-> 0, value |-> 0], ok |-> TRUE]

\* Any keys there may be, in order.
BlockInit ==
    /\ \E ranks \in SUBSET (DOMAIN AllKeys) :
          contents = [i \in 1 .. Cardinality(ranks) |-> AllKeys[SetToSortSeq(ranks, <)[i]]]
    /\ NewBlock

BlockNextStep ==
    \/ BuilderAdd
    \/ \E bad, long \in SUBSET (DOMAIN builder.buffer) :
          /\ Cardinality(bad) + Cardinality(long) <= MaxBlockDamage
          /\ BuilderFinish(bad, long)
    \/ \E op \in {"SeekToFirst", "SeekToLast", "Next", "Prev"} : AskBlock(op, 0)
    \/ \E key \in DOMAIN AllKeys : AskBlock("Seek", key)
    \/ BlockNext
    \/ BlockSeekToFirst
    \/ BlockPrev
    \/ BlockSeekToLast
    \/ ScanUntil
    \/ BlockSeek
    \/ BinarySearch
    \/ SearchedRestarts
    \/ LinearSearch

BlockSpec == BlockInit /\ [][BlockNextStep]_blockVars

-----------------------------------------------------------------------------
BlockCursor == INSTANCE Cursor WITH
    CursorKeys <- DOMAIN AllKeys,
    view <- [rank \in DOMAIN AllKeys |->
                IF AllKeys[rank] \in ToSet(contents) THEN rank ELSE 0],
    call <- asked,
    at <- seen.at,
    ok <- seen.ok

\* Block::Iter is a cursor over the keys BlockBuilder was given, wherever the
\* restart points fall and wherever the iterator stands when it seeks, and a
\* damaged entry that it meets ends in a status that says so.
BlockIsCursor == BlockCursor!CursorSpec

=============================================================================
