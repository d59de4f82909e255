------------------------------ MODULE LRUCache ------------------------------
(***************************************************************************)
(* One shard of the LRU cache (lib/leveldb/util/cache.cc): entries with    *)
(* reference counts, the two lists they move between, and the hash table   *)
(* that finds them. Every operation of the class holds mutex_ from start   *)
(* to end, so an operation is a function from a cache to a cache; the      *)
(* threads that call them are in TableCache.                               *)
(*                                                                         *)
(* A cache is a record: entry gives each slot of the heap its LRUHandle (a *)
(* slot with refs = 0 is free memory), lru and in_use are the lists, oldest*)
(* first, list is the array of buckets, each a chain of slots.             *)
(***************************************************************************)
EXTENDS Integers, Sequences, SequencesExt, FiniteSets, FiniteSetsExt

CONSTANTS
    Keys,        \* keys of the cache
    Slots,       \* places of the heap for entries
    Hash,        \* [Keys -> Nat]
    Capacity,    \* capacity_
    MinLength,   \* the smallest number of buckets, 4 in the code
    NoKey

NoEntry == 0

ASSUME LRUCacheAssumption ==
    /\ Slots \subseteq Nat \ {NoEntry} /\ IsFiniteSet(Slots)
    /\ Hash \in [Keys -> Nat]
    /\ Capacity \in Nat /\ MinLength \in Nat \ {0}
    /\ NoKey \notin Keys

FreeSlot == [key |-> NoKey, charge |-> 0, refs |-> 0, in_cache |-> FALSE]

EmptyCache ==
    [entry |-> [e \in Slots |-> FreeSlot], lru |-> <<>>, in_use |-> <<>>, usage |-> 0, elems |-> 0,
     list |-> [b \in 0 .. MinLength - 1 |-> <<>>]]

-----------------------------------------------------------------------------
(* HandleTable.                                                             *)

Length(c) == Cardinality(DOMAIN c.list)

Bucket(c, key) == Hash[key] % Length(c)

\* The position in its chain of the entry with this key, 0 if there is none.
FindPointer(c, key) ==
    LET chain == c.list[Bucket(c, key)]
    IN  SelectInSeq(chain, LAMBDA e : c.entry[e].key = key)

TableLookup(c, key) ==
    LET p == FindPointer(c, key) IN IF p = 0 THEN NoEntry ELSE c.list[Bucket(c, key)][p]

\* Mutant of Resize: the chains are moved as they are, entry by bucket.
ResizeKeepsChains(c) ==
    LET n == Length(c) IN [c EXCEPT !.list = [b \in 0 .. 2 * n - 1 |-> IF b < n THEN c.list[b] ELSE <<>>]]

\* The least power-of-two multiple of MinLength that is not below elems, and
\* every entry put in front of its new chain, bucket by bucket.
Resize(c) ==
    LET new_length == Min({MinLength * 2^i : i \in {i \in 0 .. c.elems : MinLength * 2^i >= c.elems}})
        Entries == FlattenSeq([b \in 1 .. Length(c) |-> c.list[b - 1]])
        Chain(b) == SelectSeq(Entries, LAMBDA e : Hash[c.entry[e].key] % new_length = b)
    IN  [c EXCEPT !.list = [b \in 0 .. new_length - 1 |-> Reverse(Chain(b))]]

\* Puts e in the place of the entry with its key, or at the end of the chain.
TableInsert(c, e) ==
    LET key == c.entry[e].key
        b == Bucket(c, key)
        p == FindPointer(c, key)
    IN  IF p # 0
        THEN [c EXCEPT !.list[b][p] = e]
        ELSE LET d == [c EXCEPT !.list[b] = Append(@, e), !.elems = @ + 1]
             IN  IF d.elems > Length(d) THEN Resize(d) ELSE d

TableRemove(c, key) ==
    LET p == FindPointer(c, key)
    IN  IF p = 0 THEN c ELSE [c EXCEPT !.list[Bucket(c, key)] = RemoveAt(@, p), !.elems = @ - 1]

-----------------------------------------------------------------------------
(* Reference counts and lists.                                              *)

\* An entry is unlinked from whichever list it is on.
LRU_Remove(c, e) == [c EXCEPT !.lru = Remove(@, e), !.in_use = Remove(@, e)]

Ref(c, e) ==
    LET d == IF c.entry[e].refs = 1 /\ c.entry[e].in_cache
             THEN [LRU_Remove(c, e) EXCEPT !.in_use = Append(@, e)]
             ELSE c
    IN  [d EXCEPT !.entry[e].refs = @ + 1]

\* The last reference gives the entry to its deleter and frees it.
Unref(c, e) ==
    LET d == [c EXCEPT !.entry[e].refs = @ - 1]
    IN  IF d.entry[e].refs = 0
        THEN [d EXCEPT !.entry[e] = FreeSlot]
        ELSE IF d.entry[e].in_cache /\ d.entry[e].refs = 1
             THEN [LRU_Remove(d, e) EXCEPT !.lru = Append(@, e)]
             ELSE d

\* The cache gives up an entry that is no longer in the hash table.
FinishErase(c, e) ==
    IF e = NoEntry THEN c
    ELSE LET d == [LRU_Remove(c, e) EXCEPT !.entry[e].in_cache = FALSE, !.usage = @ - c.entry[e].charge]
         IN  Unref(d, e)

-----------------------------------------------------------------------------
(* The operations of LRUCache.                                              *)

Lookup(c, key) ==
    LET e == TableLookup(c, key) IN IF e = NoEntry THEN c ELSE Ref(c, e)

Release(c, e) == Unref(c, e)

Erase(c, key) == FinishErase(TableRemove(c, key), TableLookup(c, key))

\* One turn of the loop of Insert: the oldest entry goes.
EvictOldest(c) == Erase(c, c.entry[Head(c.lru)].key)

\* Insert evicts, oldest first, while the cache is over its capacity.
Evict(c) == FoldLeft(LAMBDA d, e : IF d.usage > Capacity THEN EvictOldest(d) ELSE d, c, c.lru)

Available(c) == {e \in Slots : c.entry[e].refs = 0}

\* e is the slot malloc returned; the caller gets a reference.
Insert(c, key, charge, e) ==
    LET new == [key |-> key, charge |-> charge, refs |-> 1, in_cache |-> FALSE]
        d == [c EXCEPT !.entry[e] = [new EXCEPT !.refs = 2, !.in_cache = TRUE],
                       !.in_use = Append(@, e), !.usage = @ + charge]
    IN  Evict(IF Capacity = 0
              THEN [c EXCEPT !.entry[e] = new]
              ELSE FinishErase(TableInsert(d, e), TableLookup(c, key)))

-----------------------------------------------------------------------------
(* What the comment of cache.cc:22-39 and the asserts say.                  *)

InCache(c) == {e \in Slots : c.entry[e].in_cache}

\* held[e] is the number of handles clients have of e. The two lists hold the
\* entries of the cache, each once; an entry is on the LRU list exactly if no
\* client has it; references are the cache's and the clients'; usage_ is what
\* is cached; the hash table finds every cached entry, and two entries of the
\* cache have different keys.
Coherent(c, held) ==
    /\ ToSet(c.lru) \cap ToSet(c.in_use) = {} /\ ToSet(c.lru) \cup ToSet(c.in_use) = InCache(c)
    /\ Len(c.lru) + Len(c.in_use) = Cardinality(InCache(c))
    /\ \A e \in Slots : c.entry[e].refs = held[e] + (IF c.entry[e].in_cache THEN 1 ELSE 0)
    /\ \A e \in InCache(c) : e \in ToSet(c.lru) <=> held[e] = 0
    /\ c.usage = MapThenSumSet(LAMBDA e : c.entry[e].charge, InCache(c))
    /\ c.elems = Cardinality(InCache(c))
    /\ \A e \in InCache(c) : TableLookup(c, c.entry[e].key) = e

=============================================================================
