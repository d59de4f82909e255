-------------------------------- MODULE Table --------------------------------
(***************************************************************************)
(* A table file from its making to its reading: TableBuilder               *)
(* (lib/leveldb/table/table_builder.cc) with the filters of                *)
(* FilterBlockBuilder (table/filter_block.cc) and the Bloom filter         *)
(* (util/bloom.cc), then Table::Open, InternalGet and BlockReader          *)
(* (table/table.cc), with writes and reads that fail.                      *)
(*                                                                         *)
(* Blocks are found and searched as Block.tla shows they are, and appear   *)
(* here as sequences of entries. The sizes of keys and values are left out:*)
(* a block may be full after any entry and take up any of BlockSizes.      *)
(***************************************************************************)
EXTENDS Integers, Sequences, SequencesExt, FiniteSets, FiniteSetsExt

CONSTANTS
    TableKeys,        \* user keys, as numbers in their order
    AddedKeys,        \* those that tables may hold
    BlockSizes,       \* sizes of written blocks
    kBlockTrailerSize,
    kFilterBase,
    BitsPerKey,
    Probes,           \* user key -> the hashes the Bloom filter probes
    MaxTableEntries,  \* bound: entries of a table
    MaxTableFaults    \* bound: writes and reads that fail

ASSUME TableAssumption ==
    /\ TableKeys \subseteq Nat \ {0} /\ AddedKeys \subseteq TableKeys /\ IsFiniteSet(TableKeys)
    /\ BlockSizes \subseteq Nat \ {0} /\ kBlockTrailerSize \in Nat /\ kFilterBase \in Nat \ {0}
    /\ BitsPerKey \in Nat /\ Probes \in [TableKeys -> SUBSET Nat]
    /\ MaxTableEntries \in Nat /\ MaxTableFaults \in Nat

VARIABLES
    given,     \* the entries added, in order
    rep,       \* TableBuilder::Rep: [offset, ok, data_block, index_block, last_key,
               \* pending_index_entry, pending_handle, closed]
    filters,   \* FilterBlockBuilder: [keys, result]
    blocks,    \* offset in the file -> the block there
    table,     \* the table as opened: [open, filter]
    unread,    \* offsets of data blocks that cannot be read
    cached,    \* offsets of blocks in the block cache
    tableFaults

tableVars == <<given, rep, filters, blocks, table, unread, cached, tableFaults>>

kMaxSequenceNumber == MaxTableEntries + 1
KeyAt(key, seq) == [key |-> key, seq |-> seq]

\* InternalKeyComparator::Compare is below 0.
InternalLess(a, b) == a.key < b.key \/ (a.key = b.key /\ a.seq > b.seq)

\* What FindShortestSeparator may make of a key: the key, or a shorter user key
\* between the two, with the number that puts it before all of its entries.
Separators(start, limit) ==
    {start} \cup {KeyAt(key, kMaxSequenceNumber) :
                    key \in {k \in TableKeys : start.key < k /\ k < limit.key}}

\* What FindShortSuccessor may make of a key.
Successors(key) ==
    {key} \cup {KeyAt(k, kMaxSequenceNumber) : k \in {k \in TableKeys : key.key < k}}

-----------------------------------------------------------------------------
(* Filters: one for the blocks that start in each kFilterBase bytes.        *)

\* BloomFilterPolicy::CreateFilter: its length in bytes, with the one that
\* holds the number of probes, and the bits that are set.
CreateFilter(keys) ==
    LET bytes == (Max({Len(keys) * BitsPerKey, 64}) + 7) \div 8
    IN  [len |-> bytes + 1,
         bits |-> {p % (bytes * 8) : p \in UNION {Probes[k] : k \in ToSet(keys)}}]

EmptyFilter == [len |-> 0, bits |-> {}]

\* BloomFilterPolicy::KeyMayMatch.
PolicyMayMatch(key, f) ==
    f.len >= 2 /\ \A p \in Probes[key] : p % ((f.len - 1) * 8) \in f.bits

GenerateFilter(fb) ==
    [keys |-> <<>>,
     result |-> Append(fb.result, IF fb.keys = <<>> THEN EmptyFilter ELSE CreateFilter(fb.keys))]

\* Mutant of StartBlock: the filter is closed by a block that only reaches into
\* the next range.
StartBlockEarly(fb, offset) ==
    LET index == (offset + kFilterBase - 1) \div kFilterBase
        closed == GenerateFilter(fb)
    IN  IF index <= Len(fb.result) THEN fb
        ELSE [closed EXCEPT !.result = @ \o [i \in 1 .. index - Len(@) |-> EmptyFilter]]

\* The keys so far go to the first filter that is missing, none to the others.
StartBlock(fb, offset) ==
    LET index == offset \div kFilterBase
        closed == GenerateFilter(fb)
    IN  IF index <= Len(fb.result) THEN fb
        ELSE [closed EXCEPT !.result = @ \o [i \in 1 .. index - Len(@) |-> EmptyFilter]]

FinishFilters(fb) == IF fb.keys = <<>> THEN fb ELSE GenerateFilter(fb)

\* FilterBlockReader::KeyMayMatch.
KeyMayMatch(offset, key) ==
    LET index == offset \div kFilterBase + 1
    IN  index \in DOMAIN filters.result => PolicyMayMatch(key, filters.result[index])

-----------------------------------------------------------------------------
(* TableBuilder.                                                            *)

\* How a block may come to the file: its size, and the write that fails, the
\* "append" of the block or its trailer, or the "flush" of the file after them.
Flushes == [size : BlockSizes, fault : {"none", "append", "flush"}]

CountFault(fault) ==
    /\ fault # "none" => tableFaults < MaxTableFaults
    /\ tableFaults' = tableFaults + IF fault = "none" THEN 0 ELSE 1

\* Flush: the data block, if there is something in it, becomes a block of the
\* file. Where it is is the pending handle of the index.
Flushed(r, flush) ==
    IF ~r.ok \/ r.data_block = <<>> THEN r
    ELSE [r EXCEPT !.data_block = <<>>,
                   !.pending_handle = r.offset,
                   !.ok = flush.fault = "none",
                   !.pending_index_entry = flush.fault # "append",
                   !.offset = IF flush.fault = "append" THEN @
                              ELSE @ + flush.size + kBlockTrailerSize]

FlushedBlocks(r, flush) ==
    IF ~r.ok \/ r.data_block = <<>> \/ flush.fault = "append" THEN blocks
    ELSE [o \in DOMAIN blocks \cup {r.offset} |-> IF o = r.offset THEN r.data_block ELSE blocks[o]]

FlushedFilters(fb, before, after) ==
    IF ~before.ok \/ before.data_block = <<>> THEN fb ELSE StartBlock(fb, after.offset)

\* The index entry of the block before is added with the first key after it.
WithIndexEntry(r, separator) ==
    IF r.pending_index_entry
    THEN [r EXCEPT !.index_block = Append(@, [key |-> separator, handle |-> r.pending_handle]),
                   !.pending_index_entry = FALSE]
    ELSE r

\* An entry comes to the data block; the index entry of the block before, to
\* the index.
Adding(e, separator) ==
    /\ rep.closed = "no" /\ Len(given) < MaxTableEntries
    /\ given # <<>> => InternalLess(Last(given), e)
    /\ separator \in IF rep.pending_index_entry THEN Separators(rep.last_key, e) ELSE {e}
    /\ given' = Append(given, e)
    /\ UNCHANGED <<table, unread, cached>>

RepWith(e, separator) ==
    [WithIndexEntry(rep, separator) EXCEPT !.last_key = e, !.data_block = Append(@, e)]
FiltersWith(e) == [filters EXCEPT !.keys = Append(@, e.key)]

\* Add of an entry that does not fill the block; after an error, of nothing.
TableAdd(e, separator) ==
    /\ Adding(e, separator)
    /\ rep' = IF rep.ok THEN RepWith(e, separator) ELSE rep
    /\ filters' = IF rep.ok THEN FiltersWith(e) ELSE filters
    /\ UNCHANGED <<blocks, tableFaults>>

\* Add of an entry that does, with the Flush that follows.
TableAddFull(e, separator, flush) ==
    /\ rep.ok
    /\ Adding(e, separator)
    /\ LET r == RepWith(e, separator)
       IN  /\ rep' = Flushed(r, flush)
           /\ filters' = FlushedFilters(FiltersWith(e), r, Flushed(r, flush))
           /\ blocks' = FlushedBlocks(r, flush)
    /\ CountFault(flush.fault)

\* Finish: the last data block, the filters, the index with its last entry, and
\* the footer; late is whether the write of one of the others fails.
TableFinish(successor, flush, late) ==
    /\ rep.closed = "no"
    /\ LET flushed == Flushed(rep, flush)
           r == [flushed EXCEPT !.closed = "Finish", !.ok = @ /\ ~late]
           fb == FlushedFilters(filters, rep, flushed)
       IN  /\ successor \in IF r.pending_index_entry THEN Successors(r.last_key) ELSE {r.last_key}
           /\ rep' = IF r.ok THEN WithIndexEntry(r, successor) ELSE r
           /\ filters' = IF flushed.ok THEN FinishFilters(fb) ELSE fb
    /\ blocks' = FlushedBlocks(rep, flush)
    /\ CountFault(IF late THEN "late" ELSE flush.fault)
    /\ UNCHANGED <<given, table, unread, cached>>

TableAbandon ==
    /\ rep.closed = "no"
    /\ rep' = [rep EXCEPT !.closed = "Abandon"]
    /\ UNCHANGED <<given, filters, blocks, table, unread, cached, tableFaults>>

-----------------------------------------------------------------------------
(* Table.                                                                   *)

\* Open of a finished table: with no filter policy, and if the metaindex or
\* the filter block cannot be read, there is no filter; data blocks are read
\* later. (A footer or an index that cannot be read fails Open.)
TableOpen(filter) ==
    /\ rep.closed = "Finish" /\ rep.ok /\ ~table.open
    /\ table' = [open |-> TRUE, filter |-> filter]
    /\ UNCHANGED <<given, rep, filters, blocks, unread, cached, tableFaults>>

NoTableEntry == KeyAt(0, 0)

\* The first of a sequence of entries or index entries, by the key Key gives,
\* that is not before the target; 0 if there is none.
SeekIn(s, Key(_), target) ==
    LET from == {i \in DOMAIN s : ~InternalLess(Key(s[i]), target)}
    IN  IF from = {} THEN 0 ELSE Min(from)

IndexSeek(target) == SeekIn(rep.index_block, LAMBDA x : x.key, target)
BlockSeekTo(handle, target) == SeekIn(blocks[handle], LAMBDA x : x, target)

\* SaveValue, called for the entry found, takes it if it is of the user key.
SaveValue(key, e) == IF e.key = key THEN e ELSE NoTableEntry

\* BlockReader has the block: from the cache, or it can read it.
Readable(handle) == handle \in cached \/ handle \notin unread

\* InternalGet: what it finds of a user key at a sequence number, and its
\* status. If the filter has not seen the key no block is read.
InternalGet(key, seq) ==
    LET target == KeyAt(key, seq)
        i == IndexSeek(target)
        handle == rep.index_block[i].handle
        at == BlockSeekTo(handle, target)
        Result(e, ok) == [found |-> e, ok |-> ok]
    IN  IF i = 0 \/ (table.filter /\ ~KeyMayMatch(handle, key)) THEN Result(NoTableEntry, TRUE)
        ELSE IF ~Readable(handle) THEN Result(NoTableEntry, FALSE)
        ELSE Result(IF at = 0 THEN NoTableEntry ELSE SaveValue(key, blocks[handle][at]), TRUE)

\* BlockReader reads a block for a Get or an iterator with fill_cache.
BlockReader(handle) ==
    /\ table.open
    /\ handle \notin cached /\ Readable(handle)
    /\ cached' = cached \cup {handle}
    /\ UNCHANGED <<given, rep, filters, blocks, table, unread, tableFaults>>

\* A part of the file goes bad, or can be read again, while the table is open.
FileChanges(handle) ==
    /\ table.open /\ tableFaults < MaxTableFaults
    /\ unread' = IF handle \in unread THEN unread \ {handle} ELSE unread \cup {handle}
    /\ tableFaults' = tableFaults + 1
    /\ UNCHANGED <<given, rep, filters, blocks, table, cached>>

TableInit ==
    /\ given = <<>>
    /\ rep = [offset |-> 0, ok |-> TRUE, data_block |-> <<>>, index_block |-> <<>>,
              last_key |-> NoTableEntry, pending_index_entry |-> FALSE, pending_handle |-> 0,
              closed |-> "no"]
    /\ filters = [keys |-> <<>>, result |-> <<>>]
    /\ blocks = [o \in {} |-> <<>>]
    /\ table = [open |-> FALSE, filter |-> FALSE]
    /\ unread = {}
    /\ cached = {}
    /\ tableFaults = 0

TableNext ==
    \/ \E key \in AddedKeys, seq \in 1 .. MaxTableEntries :
          LET e == KeyAt(key, seq)
          IN  \E separator \in {e} \cup Separators(rep.last_key, e) :
                \/ TableAdd(e, separator)
                \/ \E flush \in Flushes : TableAddFull(e, separator, flush)
    \/ \E flush \in Flushes, late \in BOOLEAN, successor \in Successors(rep.last_key) :
          TableFinish(successor, flush, late)
    \/ TableAbandon
    \/ \E filter \in BOOLEAN : TableOpen(filter)
    \/ \E handle \in DOMAIN blocks : BlockReader(handle)
    \/ \E handle \in DOMAIN blocks : FileChanges(handle)

TableSpec == TableInit /\ [][TableNext]_tableVars

-----------------------------------------------------------------------------
\* What a Get of a key at a sequence number should find in the table.
NewestAt(key, seq) ==
    LET i == SeekIn(given, LAMBDA x : x, KeyAt(key, seq))
    IN  IF i = 0 THEN NoTableEntry ELSE SaveValue(key, given[i])

\* A table that Finish returned OK for answers InternalGet with the newest
\* entry that the sequence number sees, or with an error: no filter hides a key
\* (whichever range of the file its block starts in), no separator in the index
\* leads to the wrong block, and a block that cannot be read is never a "not
\* found" with an OK status.
TableFinds ==
    table.open =>
        \A key \in TableKeys, seq \in 1 .. kMaxSequenceNumber :
            LET get == InternalGet(key, seq)
            IN  get.ok => get.found = NewestAt(key, seq)

=============================================================================
