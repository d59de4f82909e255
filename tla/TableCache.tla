----------------------------- MODULE TableCache -----------------------------
(***************************************************************************)
(* The table cache (lib/leveldb/db/table_cache.cc) over one shard of the   *)
(* LRU cache, the two limiters of open files (util/env_posix.cc) and the   *)
(* removal of obsolete tables (DBImpl::RemoveObsoleteFiles), used by       *)
(* threads that run FindTable without a lock between its steps.            *)
(*                                                                         *)
(* A thread works with a file of a version it has a reference to (pinned). *)
(* An open file is a mapping ("mmap"), a descriptor kept open ("fd"), or a *)
(* name that every read opens again ("name"), by what the limiters allow.  *)
(***************************************************************************)
EXTENDS LRUCache

CONSTANTS
    Threads,     \* threads in Get or with an iterator on a table
    MaxMmaps,    \* mmap_limiter_
    MaxFds,      \* fd_limiter_
    MaxOpens     \* bound: tables opened in a behaviour

VARIABLES
    cache,       \* the LRUCache
    kind,        \* slot -> the kind of open file its entry owns
    tc,          \* thread -> [pc, file, kind, handle]
    allowed,     \* limiter -> acquires_allowed_
    current,     \* files of the current version
    doomed,      \* files RemoveObsoleteFiles has evicted and will unlink
    onDisk,      \* files that exist
    opens        \* number of tables opened, for the bound

tcVars == <<cache, kind, tc, allowed, current, doomed, onDisk, opens>>

Files == Keys

ASSUME TableCacheAssumption ==
    MaxMmaps \in Nat /\ MaxFds \in Nat /\ MaxOpens \in Nat /\ IsFiniteSet(Keys)

MaxAllowed == [mmap |-> MaxMmaps, fd |-> MaxFds]

Limiters == DOMAIN MaxAllowed

IdleThread == [pc |-> "idle", file |-> NoKey, kind |-> "none", handle |-> NoEntry]

TCInit ==
    /\ cache = EmptyCache
    /\ kind = [e \in Slots |-> "none"]
    /\ tc = [t \in Threads |-> IdleThread]
    /\ allowed = MaxAllowed
    /\ current = Files /\ onDisk = Files /\ doomed = {}
    /\ opens = 0

Goto(t, pc) == tc' = [tc EXCEPT ![t].pc = pc]

Pinned == {tc[t].file : t \in {t \in Threads : tc[t].pc # "idle"}}

-----------------------------------------------------------------------------
(* Limiter.                                                                 *)

\* Mutant of Acquired: the last resource is given away twice.
AcquiredTwice(old) == old >= 0

\* Acquire is a fetch_sub and, unless the old value was positive, a fetch_add.
Acquired(old) == old > 0

FetchSub(l) == allowed' = [allowed EXCEPT ![l] = @ - 1]

FetchAdd(l) == allowed' = [allowed EXCEPT ![l] = @ + 1]

\* Deleting an open file gives back what it holds.
Released(a, k) == IF k \in Limiters THEN [a EXCEPT ![k] = @ + 1] ELSE a

-----------------------------------------------------------------------------
(* Calls of the cache. An operation that drops the last reference of an     *)
(* entry runs its deleter: the table and the file of the entry go.          *)

\* Entries the step from cache c to cache d freed.
Freed(c, d) == {e \in Slots : c.entry[e].refs > 0 /\ d.entry[e].refs = 0}

DeleteEntry(d) ==
    /\ cache' = d
    /\ kind' = [e \in Slots |-> IF e \in Freed(cache, d) THEN "none" ELSE kind[e]]
    /\ allowed' = [l \in Limiters |-> allowed[l] + Cardinality({e \in Freed(cache, d) : kind[e] = l})]

-----------------------------------------------------------------------------
(* FindTable, Get, NewIterator.                                             *)

\* A thread takes a reference to the current version and asks for a file of it.
Start(t, f) ==
    /\ tc[t].pc = "idle" /\ f \in current
    /\ tc' = [tc EXCEPT ![t].pc = "lookup", ![t].file = f]
    /\ UNCHANGED <<cache, kind, allowed, current, doomed, onDisk, opens>>

FindTable(t) ==
    /\ tc[t].pc = "lookup"
    /\ LET e == TableLookup(cache, tc[t].file)
       IN  tc' = [tc EXCEPT ![t].pc = IF e = NoEntry THEN "open" ELSE "use", ![t].handle = e]
    /\ cache' = Lookup(cache, tc[t].file)
    /\ UNCHANGED <<kind, allowed, current, doomed, onDisk, opens>>

\* The descriptor is opened and mmap_limiter_.Acquire begins.
NewRandomAccessFile(t) ==
    /\ tc[t].pc = "open" /\ tc[t].file \in onDisk /\ opens < MaxOpens
    /\ FetchSub("mmap")
    /\ Goto(t, IF Acquired(allowed.mmap) THEN "map" ELSE "mmapDenied")
    /\ opens' = opens + 1
    /\ UNCHANGED <<cache, kind, current, doomed, onDisk>>

MmapDenied(t) ==
    /\ tc[t].pc = "mmapDenied"
    /\ FetchAdd("mmap") /\ Goto(t, "fdAcquire")
    /\ UNCHANGED <<cache, kind, current, doomed, onDisk, opens>>

\* The thread's call failed: FindTable returns the status and the version is
\* released.
Fail(t) == tc' = [tc EXCEPT ![t] = IdleThread]

\* open fails, with the old name of the file too.
OpenFails(t) ==
    /\ tc[t].pc = "open" /\ Fail(t)
    /\ UNCHANGED <<cache, kind, allowed, current, doomed, onDisk, opens>>

\* GetFileSize or mmap fails.
MapFails(t) ==
    /\ tc[t].pc = "map" /\ Fail(t) /\ FetchAdd("mmap")
    /\ UNCHANGED <<cache, kind, current, doomed, onDisk, opens>>

Map(t) ==
    /\ tc[t].pc = "map"
    /\ tc' = [tc EXCEPT ![t].pc = "table", ![t].kind = "mmap"]
    /\ UNCHANGED <<cache, kind, allowed, current, doomed, onDisk, opens>>

\* The constructor of PosixRandomAccessFile.
FdAcquire(t) ==
    /\ tc[t].pc = "fdAcquire" /\ FetchSub("fd")
    /\ tc' = [tc EXCEPT ![t].pc = IF Acquired(allowed.fd) THEN "table" ELSE "fdDenied",
                        ![t].kind = IF Acquired(allowed.fd) THEN "fd" ELSE "name"]
    /\ UNCHANGED <<cache, kind, current, doomed, onDisk, opens>>

FdDenied(t) ==
    /\ tc[t].pc = "fdDenied" /\ FetchAdd("fd") /\ Goto(t, "table")
    /\ UNCHANGED <<cache, kind, current, doomed, onDisk, opens>>

\* Table::Open fails: the file is deleted and nothing is cached.
TableOpenFails(t) ==
    /\ tc[t].pc = "table" /\ Fail(t)
    /\ allowed' = Released(allowed, tc[t].kind)
    /\ UNCHANGED <<cache, kind, current, doomed, onDisk, opens>>

TableOpen(t) ==
    /\ tc[t].pc = "table" /\ Goto(t, "insert")
    /\ UNCHANGED <<cache, kind, allowed, current, doomed, onDisk, opens>>

\* cache_->Insert with charge 1; another thread may have inserted this file
\* in the meantime, and its entry is then replaced.
InsertTable(t) ==
    /\ tc[t].pc = "insert"
    /\ LET e == Min(Available(cache))
           d == Insert(cache, tc[t].file, 1, e)
       IN  /\ cache' = d
           /\ kind' = [x \in Slots |-> CASE x = e -> tc[t].kind
                                         [] x \in Freed(cache, d) -> "none"
                                         [] OTHER -> kind[x]]
           /\ allowed' = [l \in Limiters |-> allowed[l] + Cardinality({x \in Freed(cache, d) : kind[x] = l})]
           /\ tc' = [tc EXCEPT ![t].pc = "use", ![t].handle = e]
    /\ UNCHANGED <<current, doomed, onDisk, opens>>

\* Read of the open file: without a descriptor of its own it opens the file by
\* its name at every read.
MayRead(k, f) == k \in Limiters \/ (k = "name" /\ f \in onDisk)

\* Get returns, or the iterator is deleted: the handle is released, then the
\* reference to the version.
Finish(t) ==
    /\ tc[t].pc = "use"
    /\ DeleteEntry(Release(cache, tc[t].handle))
    /\ tc' = [tc EXCEPT ![t] = IdleThread]
    /\ UNCHANGED <<current, doomed, onDisk, opens>>

-----------------------------------------------------------------------------
(* Obsolete files.                                                          *)

\* A compaction installs a version without f.
Compacted(f) ==
    /\ f \in current /\ current' = current \ {f}
    /\ UNCHANGED <<cache, kind, tc, allowed, doomed, onDisk, opens>>

\* Mutant of Obsolete: the versions of readers are not looked at.
ObsoleteNow == onDisk \ (current \cup doomed)

\* Files of no live version.
Obsolete == onDisk \ (current \cup Pinned \cup doomed)

\* RemoveObsoleteFiles with mutex_ held: every obsolete table is evicted.
\* (One per step: TableCache::Evict takes no lock of the database.)
Evict1(f) ==
    /\ f \in Obsolete
    /\ DeleteEntry(Erase(cache, f))
    /\ doomed' = doomed \cup {f}
    /\ UNCHANGED <<tc, current, onDisk, opens>>

\* Without the mutex the files are unlinked.
Unlink(f) ==
    /\ f \in doomed
    /\ doomed' = doomed \ {f} /\ onDisk' = onDisk \ {f}
    /\ UNCHANGED <<cache, kind, tc, allowed, current, opens>>

-----------------------------------------------------------------------------
TCNext ==
    \/ \E t \in Threads :
          \/ \E f \in Files : Start(t, f)
          \/ FindTable(t) \/ NewRandomAccessFile(t) \/ OpenFails(t) \/ MmapDenied(t) \/ MapFails(t) \/ Map(t)
          \/ FdAcquire(t) \/ FdDenied(t) \/ TableOpenFails(t) \/ TableOpen(t) \/ InsertTable(t)
          \/ Finish(t)
    \/ \E f \in Files : Compacted(f) \/ Evict1(f) \/ Unlink(f)

TCSpec == TCInit /\ [][TCNext]_tcVars

-----------------------------------------------------------------------------
Held(e) == Cardinality({t \in Threads : tc[t].handle = e})

\* The two lists, the hash table, the counts of references and the usage of
\* the LRU cache agree, whatever is looked up, opened twice, evicted or
\* released in between (cache.cc:22-39 and its asserts).
CacheCoherent == Coherent(cache, [e \in Slots |-> Held(e)])

\* What a thread reads through a handle is the table it asked for, still open
\* and still in the directory: RemoveObsoleteFiles neither closes nor unlinks
\* it under the reader, and no entry of the cache outlives the file of its
\* number (db_impl.cc:228-289, cache.cc:226-239).
HandlesAreGood ==
    /\ \A t \in Threads : tc[t].pc = "use" =>
          LET e == tc[t].handle
          IN  /\ e # NoEntry /\ cache.entry[e].key = tc[t].file
              /\ MayRead(kind[e], tc[t].file) /\ tc[t].file \in onDisk
    /\ \A e \in InCache(cache) : cache.entry[e].key \in onDisk \ doomed

\* Each limiter counts the files that hold it and the calls that are about to
\* give it back.
LimitersCount ==
    \A l \in Limiters :
        allowed[l] = MaxAllowed[l]
            - Cardinality({e \in Slots : kind[e] = l})
            - Cardinality({t \in Threads : tc[t].pc \in {"table", "insert"} /\ tc[t].kind = l})
            - Cardinality({t \in Threads : tc[t].pc \in IF l = "mmap" THEN {"map", "mmapDenied"} ELSE {"fdDenied"}})

\* Nothing acquired is leaked or given back twice, whichever step of opening
\* fails, and threads that acquire at the same time never have more than the
\* limit open between them (env_posix.cc:90-117).
LimitsRespected ==
    /\ LimitersCount
    /\ \A l \in Limiters : Cardinality({e \in Slots : kind[e] = l}) <= MaxAllowed[l]

=============================================================================
