# A TLA+ model of tleveldb

tleveldb is a fork of LevelDB (`src/lib/leveldb`) with the beginnings of a
persistent-memory storage layer of its own (`src/src`, `src/include`). This
directory models the parts of it whose correctness depends on the order in
which several threads, compactions or power failures take their turns, checks
them with TLC on small instances and proves some of the results with TLAPS for
every instance.

## 1. The system

### Inventory

| Part | State it keeps | Operations | What makes it hard | What makes it correct |
|---|---|---|---|---|
| Write path (`db_impl.cc`: `Write`, `BuildBatchGroup`, `MakeRoomForWrite`) | `writers_`, `mem_`, `imm_`, `log_`, `last_sequence_`, `bg_error_` | `Put`, `Delete`, `Write`, flush (`Write(nullptr)`) | group commit releases the mutex while it logs and inserts; back-pressure waits; failing appends and syncs | one logger at a time; visible = acknowledged; acknowledged updates are in a table or in a log recovery reads; synced ones are on disk |
| Background thread (`MaybeScheduleCompaction`, `BackgroundCall`, `BackgroundCompaction`, `CompactMemTable`, `DoCompactionWork`) | `background_compaction_scheduled_`, `manual_compaction_`, `shutting_down_`, `pending_outputs_` | flush, compact, manual compaction, destructor | condition variables, requests on other threads' stacks, a flush nested in a compaction, errors and shutdown at any point | no lost wakeup, work to do is scheduled, manual requests do not dangle, every call returns |
| Tables and levels (`version_set.cc`, `Get`) | `files_[level]`, `compact_pointer_`, snapshots | `Get`, choice of compaction inputs, merging, `LogAndApply` | versions that change between the start and the end of a compaction, user keys split over two files, ranges with gaps | levels disjoint, newer updates above older ones, reads and snapshots right |
| Recovery (`Recover`, `RecoverLogFile`, MANIFEST, CURRENT) | files | open, log and MANIFEST replay | crashes between any two file operations | acknowledged synced updates survive, no deleted file is referenced |
| Log format (`log_writer.cc`, `log_reader.cc`) | block offset | append, read | block boundaries, torn tails | the reader returns a prefix of what was appended, or reports |
| File lifetime (`RemoveObsoleteFiles`, version references) | `pending_outputs_`, version list | create, delete | deletion outside the mutex | no live file is deleted |
| Memtable, skip list, arena | nodes | insert, seek, lock-free reads | publication order | readers see a sorted prefix |
| Iterators (`db_iter.cc`, `merger.cc`, `two_level_iterator.cc`) | direction, saved key | seek, next, prev | change of direction over deletions and hidden versions | equal to scanning the visible map |
| Tables, blocks, filters | bytes | build, seek | restart points, filter offsets | a seek finds what was added; a filter never hides a key |
| Table cache, LRU cache | two lists, reference counts | lookup, insert, erase, release | concurrent pins and eviction | pinned entries live, usage is what is held |
| Environments (`env_posix.cc`, `env_windows.cc`, memenv) | work queue, limiters, locks, write buffers, files in memory | schedule, open, lock, write, rename | thread start, wakeup, failing system calls, locks per process | scheduled work runs once, in order; limits and locks are given back; bytes keep their order |
| Repair (`repair.cc`) | directory, `lost/` | convert logs, copy damaged tables, new descriptor | crashes and failing calls half way, a second repair | nothing readable is lost; the repaired database lists all of it |
| C bindings, tools | none | - | - | - |
| Persistent-memory groups (`groupManager.cc`) | `listroot`, `listnode::next` in a pmemobj pool | constructor, `alloc_node`, `free_node`, `add_node_to_tail`, `delete_node_from_list` | cache lines reach the memory in any order; power fails | the list is sound and durable after every call |
| Devices, `main.cc`, value-log example | pool handles | open, close | - | - |

How they interact: client threads and the one background thread share the state
of `DBImpl` under `mutex_`; the background thread alone installs versions; a
client that must wait does so on its own condition variable (the queue) or on
`background_work_finished_signal_`; `Get` pins memtables and a version under
the mutex and reads without it. The persistent-memory layer is not connected to
the database yet.

### Modules

| Module | Models |
|---|---|
| `WritePath` | the write path and the background thread as control, log files, acknowledged updates |
| `WritePathProofs` | the proofs about its control and about the updates it keeps |
| `LSMTree` | memtables, levels, `Get`, flush, compaction, snapshots |
| `LSMTreeProofs` | the proofs about it, and that it implements `KVStore` |
| `KVStore` | the store `db.h` promises; `LSMTree` refines it |
| `Cursor` | the iterator `iterator.h` promises; `DBIterator` and `Block` refine it |
| `DBIterator` | `DBIter`, `MergingIterator`, `TwoLevelIterator` |
| `Block` | `BlockBuilder`, `Block::Iter` |
| `Table` | `TableBuilder`, filter blocks, Bloom filter, `Table::Open`, `InternalGet` |
| `TableProofs` | the proof that a finished table finds what was added |
| `Durability` | the database directory: logs, tables, MANIFESTs, CURRENT; `DB::Open`, `LogAndApply`, `RemoveObsoleteFiles`, crashes |
| `DurabilityProofs` | the proofs that a database opens again with all it owes |
| `LogFormat` | `log::Writer` and `log::Reader`, byte by byte |
| `Repair` | `RepairDB` |
| `RecoveryProofs` | the proofs about `Repair` and `LogFormat` |
| `MemTable` | the skip list under one writer and a reader without a lock |
| `LRUCache`, `TableCache` | the LRU cache as operators; `TableCache`, the limiters and open files of `env_posix.cc` over it |
| `WorkQueue`, `FileLock`, `WritableFile` | `Env::Schedule`, `LockFile`, `PosixWritableFile` of `env_posix.cc` |
| `MemEnv` | the in-memory environment |
| `PMGroup`, `PMGroupProofs` | one persistent-memory group, the proofs about it |
| `PosixEnvProofs` | the proofs about `WorkQueue`, `FileLock`, `WritableFile` |
| `InMemoryProofs` | the proofs about `MemTable` and `MemEnv` |
| `MCWritePath`, `MCLSMTree`, `MCDurability`, `MCPMGroup`, `MCFileLock` | instances of one module each |
| `MCTree`, `MCTables`, `MCRecovery`, `MCSystem` | several instances or components in one run, see below |

`PROJECT.json` maps every definition to its lines.

How the modules rest on each other: `Durability` takes a log to be a sequence of
records of which a reader returns those before the first fragment, and
`LogFormat` shows what the reader does with bytes; `LSMTree` takes a table to be
a set of updates in which a seek finds the newest one, and `Table` over `Block`
shows that it does; `DBIterator` takes the children of the merging iterator to
be ordered, which `Block` and `MemTable` show of blocks and of the skip list;
`WritePath` takes `Env::Schedule` to run the background call, and `WorkQueue`
shows it; `TableCache` uses the operators of `LRUCache`.

### Runs over several components

`MCTree`, `MCTables`, `MCRecovery` and `MCSystem` check several components, or one
component with two sets of constants (`INSTANCE ... WITH`), in one run. They are
unions, not products: the first state picks a component, only that one moves, and
the others stay in their initial states. Each invariant then speaks about its own
component, over all the behaviours of that component.

| Run | Components | Distinct states |
|---|---|---|
| `lsm` | `LSMTree` twice: every manual range and failures; a deletion and a snapshot | 1,080,698 |
| `tables` | `LSMTree` as `KVStore`, `Block`, `Table`, `DBIterator` | 887,841 |
| `recovery` | `Durability` twice: two crashes; `reuse_logs` and every error. `LogFormat`. `Repair` twice: one call; three | 4,378,816 |
| `system` | `TableCache`, `MemTable`, `PMGroup`, `FileLock`, `WritableFile`, `WorkQueue`, `MemEnv` | 878,874, up to symmetry of `MemEnv`'s names and handles |

Deadlock is not checked in them: in each of these components everybody may be
done, or at a bound.

## 2. WritePath

A client is in one call at a time: a plain write (`put`), a synced one
(`putsync`), the null batch of `TEST_CompactMemTable` (`flush`), a manual
compaction (`range`) or the destructor (`close`). `pc` says where it is; an
action is what a thread does between two points at which another thread can
see it: taking `mutex_`, releasing it, waiting. `Write` therefore is
`StartWrite` or `WakeWriter` (enter and leave the queue), `RoomError`,
`RoomDelay`, `DelayOver`, `RoomWait`, `RoomSwitch`, `RoomSwitchFails`,
`RoomFound` (the turns of `MakeRoomForWrite`'s loop; the last one also builds
the group), `AddRecord`, `SyncLog`, `InsertInto` (the unlocked part) and
`Commit` (sequence number, waking the group and the next head). A background
call is `BackgroundCall`, then `TableBuilt`, `InstallMemTable` or
`CompactMemTableFails`, `RemoveObsoleteFiles` for a memtable, and
`CompactImmFirst`, `CompactionDone`, `InstallCompaction` or `CompactionFails`
for tables; `BackgroundCallEnds` reschedules and signals.

Data is abstract: updates are sequence numbers; a memtable, the set of tables
and each log file are sets of them; level 0 is a number of files; the size
limit of a group is a number of batches. `faults` bounds failing file-system
operations.

| Run | Instance | Properties |
|---|---|---|
| `writepath_calls` | 3 threads, every kind of call, 3 calls, batches of 2 updates, level-0 triggers 1 and 2, one fault, one read sample that asks for a compaction | `TypeOK`, `OneLogger`, `VisibleIsAcked`, `AckedIsRecoverable`, `SyncedIsDurable`, `NoLostWakeup`, `ManualAlive` |
| `writepath_liveness` | 2 threads, stop trigger at one file, one fault | `EveryCallReturns` |
| `writepath_flush` | violation, see findings | `FlushCompactsMemTable` |

Bounds. Three threads are a leader, a member of its group and one that arrives
meanwhile; a memtable that is full after each write makes every write meet
`MakeRoomForWrite`'s waits; the triggers are lowered so that slowdown and stop
happen with two files. One fault is enough, because the first one sets
`bg_error_` or fails the call.

Fairness. `EveryCallReturns` assumes weak fairness of each client and of the
background thread: the operating system runs every runnable thread, and
`Env::Schedule` runs what it was given. No fairness is assumed for faults or
new calls. A client blocked on a condition variable is not enabled, so the
property does depend on the signals.

## 3. LSMTree and KVStore

An update is named by its sequence number; `hist` gives its user key and
whether it is a deletion. A file is the set of its updates; `files[level]` is
`files_[level]`, ordered as in the code for levels above 0 and by file number
in level 0. `Get` is the code's: memtables, level 0 from the newest file that
covers the key, then for each level the one file `FindFile`'s bisection names.
The choice of inputs (`GetOverlappingInputs` with its widening restart in level
0, `AddBoundaryInputs`, `SetupOtherInputs` with its optional growth,
`CompactRange` with its truncation), the level of a flushed memtable, the
trivial move, the two dropping rules and the order of `SaveTo` are translated.
Limits in bytes are nondeterministic wherever the sum they limit is not empty,
so the outputs of a compaction may be cut after any update, also between two
updates of one key. Which file an automatic compaction starts from (scores,
`compact_pointer_`, seek counters) is a free choice.

A compaction is two actions: the start fixes inputs, version and
`smallest_snapshot`; the end merges and installs. In between clients write,
take and release snapshots, and the background thread may flush `imm_`
(`CompactMemTable` inside `DoCompactionWork`). A failed flush sets `bg_error_`
and the compaction it was called from goes on, as in the code.

| Run | Instance | Properties |
|---|---|---|
| `lsm`, first part | 3 keys, 4 updates, every manual range, faults | `TypeOK`, `NewerAbove`, `LevelsDisjoint`, `ReadsCorrect` |
| `lsm`, second part | 2 keys, 4 updates (at most one deletion), 1 snapshot, automatic compactions | the same |
| `tables` | 3 levels, 3 keys, 3 updates, 1 deletion, 1 snapshot, automatic and manual compactions, flushes inside automatic ones | `ImplementsStore`: the refinement of `KVStore` |
| `lsm_overlap` | violation, see findings | `LevelsDisjoint` |

`ImplementsStore` maps the store's map to `Get` at the last sequence number and
each snapshot's view to `Get` at that snapshot. The store's `updates` are what
the clients have written (`hist`); only `KVStore.Write` makes them longer, and it
gives the key the value that was written. A flush or a compaction leaves `hist`
alone, so it has to be a stuttering step: no answer, at present or at a snapshot,
may change.

Bounds. Four levels, since a flush may go to level 2 and may be compacted from
there; `tables` has three, which are enough for that flush and for a deletion
that must be kept for an older update two levels below. Two updates of a key and a
snapshot between them are what it takes to split a user key over two files; three
keys are what it takes for a file to fall between two others. `lsm` lets a memtable be flushed during automatic
compactions and not during manual ones (`FlushDuring`): with both, the levels
overlap, which is the finding of `lsm_overlap`. The run therefore also shows
that this is the only combination, within its bounds, that breaks them.
Deadlock is not checked: a database with no writes left to do may rest.

## 4. Durability

The state is the directory (`logs`, `tables`, `manifests`, `current`), the
fields of `VersionSet` and `DBImpl` that decide what is written and deleted,
and one thread that changes files: `DB::Open` first, the background thread
afterwards. A log or MANIFEST is a sequence of records, the length known to be
on the disk, and the places where a fragment of a record lies. Updates are
numbered by the write that made them; `seq` gives their sequence numbers, which
may be given out again after a crash lost their first owners.

Opening is `NewDB`, `NewDBSetCurrent`, `Recover` or `RecoverFails`, one
`RecoverLogFile` per log, `OpenLog`, then `LogAndApply`. Every `LogAndApply`
passes through the same steps: `AppendEdit`, then `SyncAndInstall`, or
`SyncNewManifest` and `SetCurrentFile` for a new MANIFEST; then `RemoveFile`
works off the list of obsolete files. The background thread gets there by
`FlushStart`/`FlushBuilt`, `CompactionStart`/`CompactionBuilt` (a flush may run
in between) or `TrivialMove`. `Write`, `SwitchMemTable` and the iterators run
at any time the database is open. The failing variants follow the code: a
failed log sync or MANIFEST write sets `bg_error_`, a failed log append does
not. A write is one step, since `WritePath` has its queue; an unacknowledged
record in a log is what `WriteSyncFails` leaves.

`ProcessCrash` keeps all files (so does the destructor, which writes nothing);
`PowerFailure` keeps of each file the synced records, some of the others and
perhaps a part of the next one. Assumed of the file system: creation, renaming
and removal of files are durable at once and in order (the code syncs the
directory only before a MANIFEST). `owed` is what the database may not lose:
all acknowledged updates, and after a failure of the machine those written with
sync or whose memtable had been written out.

| Run | Instance | Properties |
|---|---|---|
| `recovery`, first part | 2 writes, two crashes of either kind, one failed MANIFEST write, one iterator, flush inside a compaction, no `reuse_logs` | `TypeOK`, `UsedFilesExist`, `SequencesGrow`, `OpenSucceeds`, `OwedIsReadable` |
| `recovery`, second part | 2 writes, one error of any kind, one crash of the process or the machine, flush inside a compaction, last log and MANIFEST reused or not | the same |
| `durability_hybrid` | violation, see findings | `SyncCoversEarlier` |

`OpenSucceeds` and `OwedIsReadable` except a database in which a record was
appended behind a fragment (`buried`). In the first part that never happens,
because without `reuse_logs` a recovered file is not appended to and there are no
appends that fail half way. `NoWriteIsLost` and `AlwaysOpens` are the same promises
without the exception; they do not hold, and section 11 says with which constants
TLC shows it.

Bounds. Two writes are one on each side of a memtable switch. `MaxFiles = 8`
leaves room for a flush, a compaction and a switch with a flush inside that
compaction; the second crash falls into or after the recovery from the first.
`RecoverLogFile` splits a log into at most two memtables. Deadlock is not
checked: a database may rest.

## 5. PMGroup

`root` and `next` are what the CPU sees, `droot` and `dnext` what the memory
holds. A store dirties a cache line, `Evict` may write it back at any time,
flush and drain must; `Crash` throws the caches away and the next constructor
runs `check_list_exist`. `listroot` may straddle two cache lines (it is only
16-byte aligned). Allocation and freeing are libpmemobj's, atomic and durable,
marked external with the eviction and the power failure.

`pmemobj_root` allocates the root object, or makes it larger, and returns null
where it cannot. The constructor then returns as if nothing were wrong
(`groupManager.cc:15-18`) and the group is `listless`: `ConstructNoRoot`. Adding a
node to such a group asks for the smaller root again (`AddWithoutList`): without
one `add_node_to_tail` returns, with one it follows a null tail and the process
ends. `rootSize` remembers what was allocated.

| Run | Instance | Properties |
|---|---|---|
| `system` | 4 nodes, one power failure in the constructor, between calls or in a group without a list | `ListMatchesCalls`, `ReturnedIsDurable`, `ListIsSound` |
| `pm_crash` | 3 nodes, a power failure inside adding or deleting: violation, see findings | `ListIsSound` |
| `pm_ctor` | 3 nodes, two power failures inside the constructor: violation, see findings | `ListIsSound` |

`system` has one power failure, because a second one inside the constructor of the
same pool breaks the list: that is the run `pm_ctor`. Failures between calls are
proved harmless in any number (section 12).

## 6. LogFormat

A file is a sequence of cells, one per byte, each of which says what was written
there: byte so many of the header or the data of a fragment, a trailer's zero, or
damage. `WriterAddRecord` begins a record, each `EmitPhysicalRecord` writes one
fragment, after the trailer where fewer than `kHeaderSize` bytes of a block are
left. Between any two of them the process may end and the file be cut (`Cut`,
after which the file may be reopened for appending, as `reuse_logs` does), or a
write may fail half way and the writer go on, as `DBImpl::Write` does. Afterwards
a byte may change (`Flip`), a range be zero (`Zero`, a preallocated file or a lost
block), or a read fail. `ReadRecord` is one turn of the reader's loop over
`ReadPhysicalRecord`, from any of `InitialOffsets`. A checksum is right exactly
if the fragment is there as it was written. The reader is one that checks it, as
recovery's do; `RepairDB` reads logs without (section 11).

Properties: `OnlyWholeRecords` (no gluing, no repetition, order kept, under every
damage), `TornTailIsQuiet` (a crash alone is no corruption, and everything whole
is returned), `LossIsLocal` (a record is lost only to damage in a block it lies
in, and a reader of the whole file reports what a changed byte costs it).

Bounds: blocks of 6 bytes with headers of 2 and records of 0, 3, 4 and 9 bytes
make records that end at a block's end, one byte before it, exactly where a
header fits with no data, and that need three fragments. Three records are one
before, one in and one after the damage. One damage per file.

## 7. Repair

The state is the directory (`dir`), `lost/`, what CURRENT leads to, and the
`Repairer`. A file is the set of updates that can be read from it and whether
something in it cannot. `FindFiles`, `ConvertLogToTable` with `ArchiveLog` for
each log, `ScanTable` for each table and, for a damaged one, `RepairTable`,
`ArchiveTable`, `FinishCopy`, `RenameCopy`, `RemoveCopy`, then `WriteDescriptor`,
`ArchiveManifests`, `InstallDescriptor`, `MakeCurrent`. Each file operation may
fail and the process may end between any two (`CrashInRepair`); repair may then
be called again, and at the end `OpenRepaired` removes what the new descriptor
does not list. `NothingReadableIsLost` and `RepairIsComplete` are the promises.

| Run | Instance | Properties |
|---|---|---|
| `recovery`, one call | anything may fail, 12 times | both |
| `recovery`, again | three calls of `RepairDB`, three failures or crashes, but no failing stat, finish or rename | both |

These are the two cases of `ArchiveNamesFresh`, the hypothesis of the proofs
(section 12). With two calls and four failures of any kind `NothingReadableIsLost`
does not hold (section 11). Directories: two tables and two logs, one of each
possibly damaged; or a log and a table that is newer than it. Twelve failures are
more than one call on these has operations that fail.

## 8. Reading: DBIterator, Cursor, Block, Table, MemTable

`Cursor` is what `iterator.h` says an iterator is: a position in a fixed view,
moved by five calls; if something could not be read the position may be any, and
`status()` says so from then on. `IsCursor` and `BlockIsCursor` state that
`DBIterator` and `Block` implement it (`INSTANCE Cursor WITH ...`; run `tables`). A call is a
step of its own, and each turn of the code's loops another, so that a write can
fall in between.

`DBIterator` has a memtable that grows (child 1) and children of tables with
blocks that cannot be read and keys that do not parse. `ChildSeek`, `ChildNext`
and so on are `TwoLevelIterator`'s operations, `Positioned`, `TurnNext` and
`TurnPrev` those of `MergingIterator`, where turning around seeks all other
children first, a step during which the memtable may grow; `FindNextUserEntry`,
`ScanBack` and `FindPrevUserEntry` are `DBIter`'s loops. Bounds: 2 keys, 3
entries in any two children, one written meanwhile, one damage. Two versions of
a key and one of another are what it takes to walk over hidden versions in both
directions.

`Block` builds a block from any subsequence of six keys that share prefixes, with
a restart point at every second entry, perhaps damages one entry, and runs any
sequence of calls. `BlockSeek`, `BinarySearch`, `SkipSeek` and `LinearSearch` are
the parts of `Seek`, which starts at the iterator's position.

`Table` adds entries, flushes a block after any of them (its size is any of
`BlockSizes`), cuts index keys anywhere between two blocks, starts filters by
`StartBlock` with `kFilterBase = 5`, so that blocks fall on, across and behind
boundaries, lets a write fail, and then answers `InternalGet` for every key and
sequence number, also when blocks or the filter cannot be read. `TableFinds`
compares the answer with the entries given.

`MemTable` has one writer and one reader. Insertion stores one pointer at a time
(`LinkNext`, `LinkPrev`), searches load one at a time (`Load`). The pointers are
loaded with acquire and stored with release, so that a load that sees a pointer
sees everything stored before it, which is what interleaving gives;
`max_height_` is relaxed, so a reader may see any value it ever had (`heights`).
Pointers a node does not have yet are `Garbage`, and `NothingSkipped` says nobody
loads one. Bounds: 3 entries of 2 keys, height 2.

## 9. Below the store: TableCache, WorkQueue, FileLock, WritableFile, MemEnv

`LRUCache` gives each operation of `cache.cc` as an operator from cache to
cache, with the chains of the hash table, their growth in `Resize`, and both
lists in their order. `TableCache` runs `FindTable` by two threads: lookup,
open, acquire a map or a descriptor (`FetchSub`, then perhaps `FetchAdd`, as two
atomic steps), `Table::Open`, insert; each may fail. Compactions take files out of
the current version, and `RemoveObsoleteFiles` evicts and later unlinks them.
Capacity 1, one map and one descriptor, two files whose hashes meet in a bucket
until the table grows, four opens: every kind of open file happens, and both
threads open the same file at once. Properties: `CacheCoherent`,
`HandlesAreGood`, `LimitsRespected`.

`WorkQueue` splits `Schedule` and `BackgroundThreadMain` at every use of the
mutex and the condition variable; a waiter may also wake up for no reason.
`NoWorkForgotten` states the absence of lost wakeups as an invariant: while there
is work the worker is not asleep. Two callers, four pieces of work; work that
runs schedules more, as `BackgroundCall` does.

`FileLock` has two users in one process and one in another that open, close and
destroy a database. fcntl locks belong to a process and an inode and go when the
process closes any descriptor of the file; that is the kernel's and marked
external. The unlocking fcntl may fail as well (`UnlockFails`): `UnlockFile` then
returns early, keeps the name in `locks_` and the descriptor open, and its callers
ignore the error; `kept` records it. `NoLockLeft` says that neither `locks_` nor
the kernel keeps a lock nobody will release, save one that is `kept`, which lets no
other user of the process in until the process ends; and that one process has one
holder. Run `lock_holders` shows that two processes may have one (section 11).

`WritableFile` appends data of any length to a buffer of 2 bytes; writes may end
early, syncs fail, and the caller goes on. `BytesKept`: in order, no byte twice,
none missing unless a call that had it failed.

`MemEnv` has two names, two places for files, two handles, blocks of 2 bytes and
files of up to 5, so that a transfer can begin inside a block, pass a whole one and
end inside a third. `Append` and `Read` are the loops of the code, turn by turn
(`AppendTurn`, `ReadTurn`). `StatesCounted` is about references; `ReadsAreWritten`
compares what the loops return with what was appended, for every offset and length.
A `Skip` asks for the size twice and is two steps, between which another handle may
truncate the file. Names and handles are interchangeable. Only files that exist are
opened for appending (`AppendNew = FALSE`; section 11).

## 10. Fairness

Only `EveryCallReturns` is a liveness property (section 2). The other waiting in
this code is stated as invariants that hold at every moment (`NoLostWakeup`,
`NoWorkForgotten`) rather than under fairness.

## 11. Findings

* `writepath_flush`: a flush queued behind another writer is absorbed into that
  writer's group and returns OK although nothing was flushed.
* `lsm_overlap`: a memtable flushed during a manual compaction can land in the
  compaction's output level inside a gap of its inputs; the output then overlaps
  it. Debug builds abort in `SaveTo`, release builds lose the flushed keys to
  `Get`.
* `durability_hybrid`: a memtable switch closes the old log without a sync, so a
  later synchronous write does not cover earlier asynchronous ones.
* `pm_crash`: adding and deleting a node are not atomic with respect to power
  failures.
* `pm_ctor`: two power failures inside the constructor of one pool leave `head` and
  `tail` of different attempts, since `tail` lies in another cache line, and the third
  constructor takes them for a list.
* `lock_holders`: `LockFile` opens the lock file before it asks `locks_`, and closes
  it again when the process has the lock already; that `close` releases the
  process's fcntl lock, and another process can open the database
  (`env_posix.cc:656-666`).

`PROJECT.json` quotes the lines that say otherwise. The following are reached as
soon as the constants allow them; the properties named are in the modules, and the
other constants are those of the passing runs:

* A log append that failed half way does not set `bg_error_`: later writes go behind
  the fragment and are acknowledged, and recovery drops them (`db_impl.cc:1235`).
  `options.h:177-179` says that "no writes will be lost" if just the process
  crashes. `Durability`, `Faults = {"log_append"}`, `PowerFails = FALSE`, one crash:
  `NoWriteIsLost`.
* With `reuse_logs` a log that ends in a fragment is appended to, and what was
  acknowledged after it is lost at the next start (`db_impl.cc:478`). `ReuseLogs =
  TRUE`, no errors, two crashes: `NoWriteIsLost`.
* A flush inside a compaction fails in the middle of its MANIFEST record; the
  compaction appends its own behind the fragment and the database cannot be opened
  (`db_impl.cc:932` and `1048`), although line 674 has "no more changes" after an
  error. `Faults = {"manifest_tear"}`, `PowerFails = FALSE`, one crash: `AlwaysOpens`.
* With `reuse_logs` a MANIFEST record that was never synced before a process crash
  is trusted when the database is opened again: the MANIFEST is reused without a
  sync and the log the record made obsolete is deleted. If the machine then fails,
  the record is cut off and with it a synchronous write (`version_set.cc:1020`).
  `ReuseLogs = TRUE`, no errors, two crashes: `OwedIsReadable`. This is why that
  property is claimed with `reuse_logs` for one crash only.
* A second repair can overwrite in `lost/` a table that the first one archived
  (`repair.cc:98-129`, `408-426`), while `db.h:158-159` promises "as much of the
  contents of the database as possible". `Repair`, all `RepairFaults`,
  `MaxRepairs = 2`, `MaxRepairFaults = 4`: `NothingReadableIsLost`.
* `NewAppendableFile` of the in-memory environment, for a name that is not there,
  writes to a `FileState` that it never enters under the name, and leaves a null
  entry (`memenv.cc:279-286`; `env.h:98-99` says it "writes to a new file"). The
  database itself only appends to files it has read. `MemEnv`, `AppendNew = TRUE`:
  `NewFilesHaveNames`.

More that the modules show and no line of the repository contradicts:

* `LogFormat`: with an initial offset, `ReportDrop` compares that offset with a
  difference of unsigned numbers, and records behind the offset may be dropped
  without a report (`log_reader.cc:182-187`). `LossIsLocal` claims reports for
  readers of the whole file only, as recovery's are.
* `Repair`: a damaged table on which `RepairTable` gives up because it cannot
  create the copy is neither listed nor archived, and `DB::Open` then deletes it
  (`repair.cc:294-304`); all tables are put into level 0 in the order of their
  numbers, so an old version of a key can hide a newer one; the comment at
  `repair.cc:169-173` speaks of forcing checksums and the call passes `false`;
  the database's lock is not taken.
* `Block`: `CorruptionError` forgets the position in the block; the caller may
  only seek afterwards, as `iterator.h` demands.

## 12. Proofs

TLAPS checks the following theorems for every value of the constants that
satisfies the named assumption of the module (`WritePathAssumption`,
`WorkQueueAssumption`, ...), with the extra hypotheses given.

| Module | Theorem | States |
|---|---|---|
| `WritePathProofs` | `TypeCorrect` | `Spec => []TypeOK` |
| | `QueueDiscipline` | `Spec => []OneLogger` |
| | `WakeupsAreNotLost` | `Spec => []NoLostWakeup` |
| | `ManualRequestsLive` | `Spec => []ManualAlive` |
| | `VisibleIsAckedHolds` | `Spec => []VisibleIsAcked` |
| | `AckedIsRecoverableHolds` | `Spec => []AckedIsRecoverable` |
| | `SyncedIsDurableHolds` | `Spec => []SyncedIsDurable` |
| `PosixEnvProofs` | `NoWorkForgottenHolds`, `InOrderOneAtATimeHolds` | `WQSpec => []NoWorkForgotten`, `[]InOrderOneAtATime` |
| | `NoLockLeftHolds` | `FLSpec => []NoLockLeft` |
| | `BytesKeptHolds` | `WFSpec => []BytesKept` |
| `PMGroupProofs` | `ListMatchesCallsHolds`, `ReturnedIsDurableHolds`, `ListIsSoundHolds` | `PMSpec => []...` for each, under `CrashesSurvived` |
| `InMemoryProofs` | `NothingSkippedHolds` | `MTSpec => []NothingSkipped` |
| | `StatesCountedHolds` | `MESpec => []StatesCounted`, under `~AppendNew` |
| `LSMTreeProofs` | `TypeCorrect` | `Spec => []TypeOK`, under `QuietManual`, as all of this module |
| | `NewerStaysAbove` | `Spec => []NewerAbove` |
| | `LevelsStayDisjoint` | `Spec => []LevelsDisjoint` |
| | `ReadsStayCorrect` | `Spec => []ReadsCorrect` |
| | `TreeIsStore` | `Spec => ImplementsStore`, the refinement of `KVStore` |
| `DurabilityProofs` | `TypeCorrect` | `Spec => []TypeOK`, under `CleanAppends`, as all of this module |
| | `UsedFilesExistHolds` | `Spec => []UsedFilesExist` |
| | `SequencesGrowHolds` | `Spec => []SequencesGrow` |
| | `OpenSucceedsHolds` | `Spec => []OpenSucceeds` |
| | `OwedIsReadableHolds` | `Spec => []OwedIsReadable` |
| `RecoveryProofs` | `RepairLosesNothing` | `RSpec => []NothingReadableIsLost`, under `ArchiveNamesFresh` |
| | `RepairListsAll` | `RSpec => []RepairIsComplete`, under `ArchiveNamesFresh` |
| | `ReaderReturnsWholeRecords` | `LFSpec => []OnlyWholeRecords` |
| | `TornTailIsNoCorruption` | `LFSpec => []TornTailIsQuiet` |
| `TableProofs` | `TableFindsWhatWasAdded` | `TableSpec => []TableFinds` |

### The write path

The control properties follow from one inductive invariant, `IndInv`, the
conjunction of

* `TypeOK`;
* `JobInv`: a compaction's level-0 inputs are still in level 0 when it ends;
  without it the type of `level0` is not inductive, since `InstallCompaction`
  subtracts;
* `QueueInv`: the queue has no duplicates, its members are unserved and in
  `Write`, only its head works, everybody unserved is in it, and the group being
  written is a prefix of it. `OneLogger` alone is not inductive: a group longer
  than the queue would pop someone who was never served;
* `SchedInv`: `NoLostWakeup`, `ManualAlive`, and that once `shutting_down_` is
  set no call but the destructor is active, which is the contract of deleting a
  `DB`.

`InitIndInv` and `NextIndInv` show it inductive, one step per action and under
it one per part the action can disturb (`TypeStep`, `JobStep`, `QueueStep`,
`WakeupStep`, `ManualStep`).

The data properties need `DataInv` on top of `IndInv`:

* `GroupInv`: a sync write is in the group only behind a sync leader; the group's
  record is in the current log once `AddRecord` has succeeded, on the disk once
  `Sync` has, and all of it is in `mem` when the group is committed OK;
* `MemInv`: `imm`, the tables and what was acknowledged lie within
  `last_sequence`, and `mem` holds more only of the group that is being inserted;
* `LogInv`: the current log exists and is not below `log_number`, no log that
  recovery reads is on the list of deletions, and the log number in a flush's edit
  is still the current log's when it is installed;
* `ReplayInv`: the records of `mem` are in the current log and those of `imm` in a
  log that recovery would replay. It is what `RemoveObsoleteFiles` and the log
  number of a flush must keep; `AckedIsRecoverable` alone does not say which log
  an update of `mem` is in, and is not inductive.

### Below the store

* `WQInv`: who has the mutex, that at most one worker was started, that the thread
  has been woken whenever a caller is about to put work into the queue, and that
  what ran followed by what is queued is what was put there.
* `FLInv`: `locks_` of a process is exactly its users that are between inserting
  and removing the name, and a kernel lock belongs to a user that holds it on that
  inode.
* `WFInv`: file and buffer together are in the order of the bytes handed over, all
  of them within the first `handed`.
* `MEInv`: the references of each `FileState` are the cardinalities of the names
  and the handles that lead to it. The hypothesis `~AppendNew` is needed:
  `NewAppendableFile` of a new name takes a reference for an entry of the map that
  it does not make (section 11).
* `MTInv`: the lists of the levels are sorted (`Sorted`), a node of a level is on
  all lower ones (`Stacked`) except while it is being linked (`Writing`), every
  inserted entry is reachable (`Reached`), and a search stands at a node before its
  target such that nothing older lies in between (`Searching`, `Reading`). That a
  walk along `next` meets every node is an induction over the list, done by the
  least counterexample (`LeastNumber`), for the induction rules of the library
  take an operator the provers cannot instantiate.

### Tables

`TableFindsWhatWasAdded` has only `TableAssumption` as a hypothesis: any keys, any
block sizes, any value of `kFilterBase`, any probes of the hash function and any
choice of separators and successors by the comparator. `TableInv` says of a table
in the making (`Building`) and of a finished one (`Built`):

* `Holds`: the entries added are those in the blocks of the index, in the block whose
  index entry is still pending, and in the block being filled;
* `Separates`: the key of an index entry is not before any entry of its block, and
  before every entry of a later one; moreover it is an entry of its block or its
  user key is smaller than that of every later entry. Without the second part a
  seek for (user key, sequence number) could stop in a block that only has a
  separator made up for that user key, while the newest visible entry is in the next;
* `Filtered`: the keys of a block are in the filter of the range of offsets the block
  starts in, or among the keys that wait for this filter. This needs
  `Len(result) = offset \div kFilterBase`, which `StartBlock` keeps, also when a
  block spans several ranges and empty filters are put in between.

A seek in the index or in a block is the first entry not before the target here
(`SeekIn`, `SeekFinds`); that the binary search of `Block::Iter::Seek` finds it is
what run `tables` checks of `Block`. A write that fails leaves `rep.ok` false, and
such a table is never opened.

### The tree of tables

The theorems hold for any number of keys, levels, updates and snapshots, under

    QuietManual == "manual" \in FlushDuring => ManualRanges = {}

that is, no memtable is flushed in the middle of a manual compaction. The
hypothesis is the finding of `lsm_overlap` and nothing more: flushes during
automatic compactions, manual compactions of every range and failing writes are
all covered. The inductive invariant, `LSMInv`, is the conjunction of

* `TreeType`: `TypeOK` with the bound on the history and without the compaction;
* `Aged`: everything in `imm_` is older than everything in `mem_`, every table is
  older than both, and a file of level 0 is older than the next one;
* `Layered`: of two levels the deeper one has the older updates of a key;
* `InKeyOrder`: below level 0 every file of `files_[level]` is before the next,
  by internal keys. Two files may share a user key, and then the newer updates
  are in the first;
* `Complete`: the newest update a reader may see is held by some place; or it is a
  deletion, and no older update of its key is left anywhere. This is what the two
  dropping rules of `DoCompactionWork` must keep, for every live snapshot and for
  the present;
* `Working`, about the compaction under way. Its inputs are still files of their
  levels, no file left behind in those levels has an older update of a key of
  theirs, and no file of the output level lies between them (`GoodInputs`); no
  snapshot is below `smallest_snapshot`; the levels further down hold nothing
  older that `IsBaseLevelForKey` has not seen; and if a flush may happen before
  the end, the inputs leave no gap between their keys (`Covered`), so that a file
  flushed into the output level lies beside what the compaction will write there.

The lemmas follow the code. `FindFileFinds` shows that the bisection stops behind
the last file that ends before the key; `OverlapMissed` and `FlushLevel` that the
level of a flushed memtable and all levels above it are free of its keys;
`BoundaryChain` and `PickIsWhole` that `AddBoundaryInputs` takes along every file
in which a user key goes on; `LeastRangeExists` and `TopInputs` that the widening
search of level 0 ends in a least range; `SetupGood` and `SetupCovered` that what
`SetupOtherInputs` settles on are good inputs, without gaps if the files it began
with had none, which a single file or the overlapping files of level 0 have and
the files of a manual range need not; `InstallKeeps` and `OutputsAre` that the
new version is in order; `DropIsSafe` that nothing a reader needs is dropped.
Recursion and sorting (`FindFile`, `AddBoundaryInputs`, `InOrder`) are reasoned
about by least counterexamples, with `WFMin` on the natural numbers, since the
induction rules take an operator. `ReadsStayCorrect` then compares the turns of
two places (`TurnOrder`, `NewestIsHit`, `FirstHitDecides`), and `TreeIsStore` that
what a reader is told depends on the history alone (`SameSeen`).

### Recovery

The theorems hold for any number of writes, files, edits, iterators, errors and
crashes, under

    CleanAppends == ~ReuseLogs /\ "manifest_tear" \notin Faults /\ "log_append" \notin Faults

that is, `options.reuse_logs` has its default and no append leaves a part of its
record in a file that is appended to again. Failures of the machine still cut
files inside a record, and all other errors are allowed: a failed log sync, a
failed table, a MANIFEST write that fails with or without its record in the file,
a failed `DB::Open`. The excluded cases are those in which a record may come to
lie behind a fragment (`buried`), where section 11 says what is lost.

The inductive invariant, `Inv`, says above all that the disk is good at any time
(`DiskInv`): `Restarts` holds of the MANIFEST that CURRENT names. This is stated
for every length at which a failure of the machine may cut it, from what was
synced to its end, since an edit that was appended and not synced, or whose sync
failed, may or may not be found by the next `DB::Open`. For each of these lengths
`Restart` demands that the tables of that version exist, that with the logs from
its log number on they hold all that is owed, on the disk if it is owed after a
failure of the machine, that the updates a recovery would read are in the order
of their sequence numbers, and that the counters are beyond every number in use.
The rest of `Inv` is what keeps this true:

* `DownInv`, while the database is opened: the tables of the edit hold all the logs
  that `Recover` need not read any more (`RecoveringLogs`), and the new MANIFEST is a
  snapshot and this edit, complete before CURRENT names it (`WritingManifest`);
* `UpData`: what is owed is in a memtable or in a table of the version, of the one in
  memory and of the last one in the MANIFEST, which differ after an error; each
  memtable is in a log that the log number keeps;
* `UpManifest`: without a background error the MANIFEST and memory agree, except for
  the one edit between `AppendEdit` and `SyncAndInstall`, and files are deleted only
  when they agree;
* `UpOutputs`: the number of a table that is being built is in `pending_outputs_` and
  in no version a restart could find;
* `UpDeletes` and `UpNumbers`: what is on the list of files to delete is used by
  nobody, and every number in use is below the next one;
* `UpSequences` and `UpEdit`: the same order for all updates that memory or the last
  version has, and what `LogAndApply` may take for granted of its edit.

`UpManifest` is why `RemoveObsoleteFiles` must refuse after a background error: the
version in memory is then not the one a restart may find. There is one lemma per
action (`WriteStep`, `RecoverLogFileStep`, `SyncAndInstallStep`, ...); an action
that changes neither the recorded tables nor the logs is dealt with by the lemmas
about `Quiet` steps, and the general facts are lemmas about `Restart` and
`Restarts`: a write, a new table, a deletion of files nobody needs, one more edit,
a sync and a cut all keep them. `ReplayAppend` shows that one more edit does to the
version what `LogAndApply` does to it in memory, and `ReadWhole` that a reader
returns all the records of a file whose only fragment is its end.

### Log records

`ReaderReturnsWholeRecords` has no hypothesis beyond `LogFormatAssumption` (blocks
are longer than headers): it covers every block size, header size, record length,
initial offset and number of damages. Its invariant, `LogInv`, has two halves.
`WriteInv` is about the file, which only the writer extends and damage only takes
bytes from:

* `CellsInv`, `OrderInv`: a byte that can still be trusted belongs to a record that
  was added, and such bytes are in the order of records, fragments and positions
  in the fragment, with nothing of a record behind its `full` or `last` fragment;
* `WholeInv`: if the last byte of such a fragment is in the file, the record was
  added whole. A crash or a failed write in the middle leaves no such byte;
* `BeforeInv`: right before fragment k + 1 of a record, trailer aside, there is
  nothing but fragment k. It is what keeps a fragment from being glued to one
  further back, and holds although the writer may go on after a failed append,
  since it then begins a new record;
* `WriterInv`: the same two facts for the fragment that is written next.

`ReadInv` is about the reader: `ScratchInv` says that `scratch` holds fragments 1
to k of one record and that the byte before the reader is of fragment k, so that
only k + 1 can be accepted next; `OutInv` that what was returned is whole and
behind the reader, from which order and the absence of repetitions follow.

`TornTailIsNoCorruption`, under the same assumption alone, is the other direction:
what is there is returned. That needs to know where the fragments are, since the
reader finds them by position only. Its invariant is `LogInv` with two more parts.
`LayoutInv` follows the writer:

* `Layout(log, added, m)`: among the first m bytes, every fragment is in one piece
  and in one block, all that is not of a fragment is a trailer in which no header
  fits, a fragment follows the one before it of the same record or the end of a
  record, and a record's `start` and `end` are where its first fragment begins and
  its last one ends;
* `NextFragmentInv`: as long as nothing happened to the file, this holds of all of
  it, `block_offset_` is the position in the block, and the last fragment is the
  one before the one that is written next;
* `CutInv`: it holds of the bytes up to a cut, also after the file is reopened and
  more is appended behind the cut. The property speaks only of files whose cut is
  at their end, but the invariant has to keep what was known when the cut was made;
* `EndInv`: a record that was added whole and not cut ends within the file.

`ProgressInv` follows the reader of a file that was only cut:

* `BufferInv`: no fragment lies across the place where it stands, and its buffer
  reaches no further than the block and ends with it, unless the file does;
* `BegunInv`: if the last fragment it has passed is the first or a middle one, it
  has the record in `scratch`, or the record starts before the initial offset;
* `PassedInv`: every whole record it has passed was returned or starts before the
  initial offset, a reader from the start has reported nothing, and one that is
  done has passed the whole file. That the reader may begin at the block of the
  initial offset, or at the next one where no header fits any more, skips nothing
  it should return: this is lemma `NothingSkipped`.

Both were checked with TLC before they were proved, with the bounds of section 6 and
up to three cuts of one file (137,442 and 378,165 states).

### Repair

Both theorems hold for every directory, any number of files and updates, any
failures of file operations and crashes, under

    ArchiveNamesFresh == MaxRepairs <= 1 \/ RepairFaults \cap {"stat", "finish", "rename"} = {}

This says that a table is never archived under the name of another one. The
hypothesis is needed. `FindFiles` gives out numbers above those in the directory
and does not look into `lost/` (`repair.cc:98-129`). When a table was archived and
the rename of its copy failed, its number may be free; the next call of `RepairDB`
may give it to another table, and archive that one by a rename onto the first
(`repair.cc:408-426`), which is then gone (section 11). With one call, or if these
three operations succeed, no sequence of other failures and crashes loses anything.

The invariant, `RInv`, says where a readable update is at every step of the repair:
in a file still to be looked at, in a listed table, in the source or the copy of a
table that is being replaced (`SourceInv`, `CopyInv`, `EntriesInv`), or in `lost/`;
and for a repair in which nothing failed, in one of the first three (`FoundInv`,
`ListedInv`, `KeptInv`). `NextInv` keeps the numbers given out above every file, so
that no copy overwrites a table, and `NamesInv` keeps them above the archived ones.

### Persistent-memory groups

`PMInv` has one part per call and step: what the CPU and the memory hold of
`root` and of the nodes' `next` while a node is linked or unlinked. It holds under

    CrashesSurvived == CrashIn \subseteq {"ctor", "idle", "listless"} /\ ("ctor" \in CrashIn => MaxCrashes <= 1)

which excludes just the failures that `pm_crash` and `pm_ctor` show to break the
list. A group that got no root object has no part of a list, in the caches or in the
memory, until a constructor makes one.

### Model-checked only

Liveness (`EveryCallReturns`; TLAPS has no fairness reasoning) and

* the refinements `IsCursor` and `BlockIsCursor`: their refinement mappings are
  searches through what an iterator has still to visit;
* `LossIsLocal` of `LogFormat`: that the reader finds its way back to the fragments
  behind a damaged block, for which `Layout` would have to be kept for the parts of
  the file that are not damaged;
* `CacheCoherent`, `HandlesAreGood` and `LimitsRespected` of `TableCache`:
  `LRUCache` evicts with a fold and walks chains, and their effect is an induction
  over data;
* `ReadsAreWritten` of `MemEnv`: what its loops copy is an induction over their turns;
* of `Durability`, what happens with `reuse_logs` or after an append that failed
  half way (`recovery`, second part); of `Repair`, a second call after a failed stat,
  finish or rename.

## 13. Not modelled

* Windows environment: the same functions as `env_posix.cc` over other system
  calls. Its work queue is the same code; its locks are kept by handle.
* C bindings, tools, `leveldbutil`, logging, histograms, status: conversion and
  printing, no state.
* Write batches and coding: sequential encodings of bytes, whose laws are about
  every input of a recursive function; the repository's unit tests cover them. A
  batch is a number of updates in `WritePath`.
* The arena, the block cache, `Prune`, sharding, compression and the encodings
  of handles: no property here tells them apart.
* Compaction scores, `compact_pointer_` and seek counters: `LSMTree` lets any
  file be chosen, which includes every choice they make. That compaction makes
  progress in the long run is therefore not shown.
* Devices, `main.cc`, the value-log example, benchmarks and third-party code.

## 14. Plan

The models are complete along the plan, and the write path, the tree of tables,
tables, recovery, log records, repair, the memtable, the environments and the
groups are proved about. What is left is proofs, in this order:

1. `TableCache`: `LimitsRespected` and `HandlesAreGood`. `LRUCache` removes
   entries with a fold, whose effect has to be stated as a lemma first.
2. `LogFormat`: `LossIsLocal`, with `Layout` and `PassedInv` restricted to the blocks
   that are not damaged.
3. `Durability` with `ReuseLogs`: `UsedFilesExist`, with an invariant for files in
   which a record lies behind a fragment.
