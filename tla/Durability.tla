----------------------------- MODULE Durability -----------------------------
(***************************************************************************)
(* What a database directory holds, what DB::Open makes of it, and what a  *)
(* crash leaves: log files, tables, MANIFEST files and CURRENT, written by *)
(* DBImpl (db_impl.cc), VersionSet (version_set.cc) and BuildTable         *)
(* (builder.cc), and read again by Recover.                                *)
(*                                                                         *)
(* An update is the number of the write that made it; keys do not matter   *)
(* here (LSMTree has them), and a compaction keeps every update.  Logs and *)
(* MANIFESTs are sequences of records of which a prefix is known to be on  *)
(* the disk; a fragment of a record may follow the last one.               *)
(*                                                                         *)
(* Assumption on the file system: creating, renaming and removing a file   *)
(* is durable at once and in order; only the contents of files wait for    *)
(* Sync.  Whoever calls Write has gone through WritePath's queue, so a     *)
(* write is one step here.                                                 *)
(***************************************************************************)
EXTENDS Integers, Sequences, FiniteSets, FiniteSetsExt

CONSTANTS
    ReuseLogs,    \* options_.reuse_logs
    PowerFails,   \* whether a crash may be one of the machine
    Faults,       \* the kinds of I/O errors that happen
    MaxWrites,    \* bound on writes
    MaxEdits,     \* bound on the records of a MANIFEST to which a compaction is added
    MaxFiles,     \* bound on the file numbers at which a memtable switch or compaction starts
    MaxCrashes,   \* bound on crashes
    MaxFaults,    \* bound on I/O errors
    MaxIterators  \* bound on iterators ever opened

FaultKinds == {"log_sync", "log_append", "close", "table", "manifest", "manifest_tear", "open"}

ASSUME BoundsAssumption ==
    /\ {ReuseLogs, PowerFails} \subseteq BOOLEAN
    /\ Faults \subseteq FaultKinds
    /\ {MaxWrites, MaxEdits, MaxFiles, MaxCrashes, MaxFaults, MaxIterators} \subseteq Nat

VARIABLES
    \* the directory
    logs,                  \* log number -> file of updates
    tables,                \* table number -> set of updates
    manifests,             \* MANIFEST number -> file of edits
    current,               \* the number in CURRENT, 0 if there is no CURRENT
    \* VersionSet
    live,                  \* numbers of the tables of current_
    log_number, next_file_number, manifest_file_number, last_sequence,
    descriptor,            \* descriptor_log_ # nullptr
    \* DBImpl
    mem, imm, has_imm, logfile_number,
    bg_error,              \* ~bg_error_.ok()
    pending_outputs,
    iterator,              \* tables of the version an iterator refers to
    \* the thread that changes files: DB::Open, then the background thread
    pc,
    job,                   \* what LogAndApply is called for
    edit,                  \* its argument
    output,                \* number of the table being written
    compaction,            \* the running compaction: its inputs and its output
    todo,                  \* numbers in logs, in Recover
    files_to_delete,
    \* history
    seq,                   \* seq[i]: the sequence number given to update i
    owed,                  \* updates the database may not lose
    durable,               \* updates that even a failure of the machine must leave
    covered,               \* updates acknowledged before some synchronous write was
    buried,                \* whether a record was ever appended behind a fragment
    crashes, faults, iterators

disk    == <<logs, tables, manifests, current>>
version == <<live, log_number, manifest_file_number, descriptor>>
memory  == <<mem, imm, has_imm, logfile_number>>
thread  == <<pc, job, edit, output, compaction, todo, files_to_delete>>
history == <<seq, owed, durable, covered, buried>>
bounds  == <<crashes, faults, iterators>>
vars == <<disk, version, next_file_number, last_sequence, memory, bg_error, pending_outputs,
          iterator, thread, history, bounds>>

Unset == -1
NoCompaction == [inputs |-> {}, output |-> 0]

-----------------------------------------------------------------------------
(* Files of records.                                                        *)

\* A new, truncated file; torn holds the positions after which a fragment lies.
NewWritableFile == [recs |-> <<>>, synced |-> 0, torn |-> {}]

AddRecord(f, r) == [f EXCEPT !.recs = Append(@, r)]

Sync(f) == [f EXCEPT !.synced = Len(f.recs)]

\* A write that failed half way.
Torn(f) == [f EXCEPT !.torn = @ \cup {Len(f.recs)}]

\* What log::Reader returns: everything up to the first fragment.  A fragment
\* takes the bytes that follow it with it.
ReadRecords(f) == SubSeq(f.recs, 1, Min(f.torn \cup {Len(f.recs)}))

\* log::Reader reports a fragment if what follows makes up the length in its
\* header; otherwise it takes the fragment for the end of the file.
MayReport(f) == \E p \in f.torn : p < Len(f.recs)

\* What a failure of the machine may leave of a file: everything synced, some
\* of the rest, and perhaps a part of the record after it.
Remains(f) ==
    UNION {{[recs |-> SubSeq(f.recs, 1, k), synced |-> k, torn |-> {p \in f.torn : p < k} \cup t] :
               t \in SUBSET ({k} \cap (f.torn \cup 0 .. Len(f.recs) - 1))} : k \in f.synced .. Len(f.recs)}

\* The file under a name is created or replaced.
Put(files, n, f) == [x \in DOMAIN files \cup {n} |-> IF x = n THEN f ELSE files[x]]

\* The files other than those named are kept.
Without(files, names) == [x \in DOMAIN files \ names |-> files[x]]

Contents(numbers) == UNION {tables[t] : t \in numbers}

-----------------------------------------------------------------------------
(* Version edits.                                                           *)

NoEdit == [add |-> {}, del |-> {}, log |-> Unset, next |-> Unset, seq |-> Unset]

NewDBEdit == [NoEdit EXCEPT !.log = 0, !.next = 2, !.seq = 0]

\* The record WriteSnapshot puts first into a new MANIFEST.
Snapshot == [NoEdit EXCEPT !.add = live]

\* The tables after all edits: the deletions of an edit come before its additions.
Replay(edits) ==
    {t \in UNION {edits[i].add : i \in DOMAIN edits} :
        \E i \in DOMAIN edits : /\ t \in edits[i].add
                                /\ \A j \in DOMAIN edits : j > i => t \notin edits[j].del}

\* Positions of the edits that carry the counters.
Counted(edits) == {i \in DOMAIN edits : edits[i].next # Unset}

-----------------------------------------------------------------------------
(* File numbers and obsolete files.                                         *)

MarkFileNumberUsed(next, n) == Max({next, n + 1})

\* Mutant: only the current version is asked for its files.
AddFilesOfCurrent(current_files, inputs) == current_files \cup inputs

\* The tables of every version in the list, of an iterator's and a compaction's too.
AddLiveFiles(current_files, inputs) == current_files \cup iterator \cup inputs

\* The files RemoveObsoleteFiles finds when the version set has these values.
Obsolete(current_files, inputs, min_log, pending) ==
    {<<"log", n>> : n \in {n \in DOMAIN logs : n < min_log}}
        \cup {<<"manifest", n>> : n \in {n \in DOMAIN manifests : n < manifest_file_number}}
        \cup {<<"table", n>> : n \in DOMAIN tables \ (pending \cup AddLiveFiles(current_files, inputs))}

\* Mutant: files are collected although an edit may be in the MANIFEST without
\* being installed.
RemoveDespiteError(current_files, inputs, min_log, pending) ==
    Obsolete(current_files, inputs, min_log, pending)

RemoveObsoleteFiles(current_files, inputs, min_log, pending) ==
    IF bg_error THEN {} ELSE Obsolete(current_files, inputs, min_log, pending)

\* The thread goes on deleting files, then returns to the compaction it
\* interrupted or waits for work.
Continue(doomed, comp) ==
    /\ files_to_delete' = doomed
    /\ pc' = IF doomed # {} THEN "delete" ELSE IF comp = NoCompaction THEN "idle" ELSE "compacting"
    /\ job' = IF doomed # {} THEN job ELSE "none"

IsOpen == \/ pc \in {"idle", "building", "compacting"}
          \/ (pc \in {"append", "sync", "delete"} /\ job # "open")

Fault(kind) ==
    /\ kind \in Faults /\ faults < MaxFaults
    /\ faults' = faults + 1
    /\ UNCHANGED <<crashes, iterators>>

-----------------------------------------------------------------------------
(* The process starts without a database, and restarts with what is on the  *)
(* disk only.                                                               *)

VolatileReset ==
    /\ live' = {} /\ log_number' = 0 /\ next_file_number' = 0 /\ manifest_file_number' = 0
    /\ last_sequence' = 0 /\ descriptor' = FALSE
    /\ mem' = {} /\ imm' = {} /\ has_imm' = FALSE /\ logfile_number' = 0
    /\ bg_error' = FALSE /\ pending_outputs' = {} /\ iterator' = {}
    /\ pc' = "down" /\ job' = "none" /\ edit' = NoEdit /\ output' = 0
    /\ compaction' = NoCompaction /\ todo' = {} /\ files_to_delete' = {}

Init ==
    /\ logs = <<>> /\ tables = <<>> /\ manifests = <<>> /\ current = 0
    /\ live = {} /\ log_number = 0 /\ next_file_number = 0 /\ manifest_file_number = 0
    /\ last_sequence = 0 /\ descriptor = FALSE
    /\ mem = {} /\ imm = {} /\ has_imm = FALSE /\ logfile_number = 0
    /\ bg_error = FALSE /\ pending_outputs = {} /\ iterator = {}
    /\ pc = "down" /\ job = "none" /\ edit = NoEdit /\ output = 0
    /\ compaction = NoCompaction /\ todo = {} /\ files_to_delete = {}
    /\ seq = <<>> /\ owed = {} /\ durable = {} /\ covered = {} /\ buried = FALSE
    /\ crashes = 0 /\ faults = 0 /\ iterators = 0

-----------------------------------------------------------------------------
(* DB::Open.                                                                *)

\* MANIFEST-000001 is written and synced; whatever a failed creation left under
\* that name is truncated.
NewDB ==
    /\ pc = "down" /\ current = 0
    /\ manifests' = Put(manifests, 1, Sync(AddRecord(NewWritableFile, NewDBEdit)))
    /\ pc' = "created"
    /\ UNCHANGED <<logs, tables, current, version, next_file_number, last_sequence, memory, bg_error,
                   pending_outputs, iterator, job, edit, output, compaction, todo, files_to_delete,
                   history, bounds>>

NewDBSetCurrent ==
    /\ pc = "created"
    /\ current' = 1
    /\ pc' = "down"
    /\ UNCHANGED <<logs, tables, manifests, version, next_file_number, last_sequence, memory, bg_error,
                   pending_outputs, iterator, job, edit, output, compaction, todo, files_to_delete,
                   history, bounds>>

\* The MANIFEST can be used: it is there, has the counters, and each of its tables
\* has a file of its number in the directory, whatever the type of the file.
Usable(edits) ==
    /\ Counted(edits) # {}
    /\ Replay(edits) \subseteq DOMAIN logs \cup DOMAIN tables \cup DOMAIN manifests

\* Status::Corruption.
RecoverFails ==
    /\ pc = "down" /\ current # 0
    /\ (current \in DOMAIN manifests =>
           ~Usable(ReadRecords(manifests[current])) \/ MayReport(manifests[current]))
    /\ pc' = "corrupt"
    /\ UNCHANGED <<disk, version, next_file_number, last_sequence, memory, bg_error, pending_outputs,
                   iterator, job, edit, output, compaction, todo, files_to_delete, history, bounds>>

\* What ReuseManifest may answer: a MANIFEST that is too big, or cannot be
\* opened for appending, is not reused.
ReuseManifest == {ReuseLogs, FALSE}

\* Mutant: Recover does not set manifest_file_number_.
ManifestNumberNotSet(reuse, next) == IF reuse THEN current ELSE manifest_file_number

\* The MANIFEST that edits go to from now on.
ManifestNumber(reuse, next) == IF reuse THEN current ELSE next

\* VersionSet::Recover, then the list of logs in DBImpl::Recover.
Recover ==
    /\ pc = "down" /\ current \in DOMAIN manifests
    /\ LET edits == ReadRecords(manifests[current])
           last == edits[Max(Counted(edits))]
       IN  /\ Usable(edits)
           /\ live' = Replay(edits)
           /\ log_number' = last.log
           /\ next_file_number' = last.next + 1
           /\ last_sequence' = last.seq
           /\ \E reuse \in ReuseManifest :
                 /\ descriptor' = reuse
                 /\ manifest_file_number' = ManifestNumber(reuse, last.next)
           /\ todo' = {n \in DOMAIN logs : n >= last.log}
    /\ pc' = "logs"
    /\ UNCHANGED <<disk, memory, bg_error, pending_outputs, iterator, job, edit, output, compaction,
                   files_to_delete, history, bounds>>

\* Mutant: the sequence number of the MANIFEST is taken as the last one.
SequenceOfManifest(updates) == last_sequence

MaxSequence(updates) == Max({last_sequence} \cup {seq[i] : i \in updates})

\* The oldest log not read yet.  The first "full" records fill a memtable that
\* is written out at once; the rest is written out too, or stays the memtable
\* when the log is reused.
RecoverLogFile ==
    /\ pc = "logs" /\ todo # {}
    /\ LET n == Min(todo)
           records == ReadRecords(logs[n])
           Updates(i, j) == {records[k] : k \in i .. j}
       IN  \E full \in 0 .. Len(records), reuse \in BOOLEAN :
             /\ reuse => ReuseLogs /\ todo = {n} /\ full = 0
             /\ LET rest == Updates(full + 1, Len(records))
                    written == {u \in {Updates(1, full), IF reuse THEN {} ELSE rest} : u # {}}
                    added == next_file_number .. next_file_number + Cardinality(written) - 1
                    first == IF full > 0 THEN Updates(1, full) ELSE rest
                IN  /\ tables' = [t \in DOMAIN tables \cup added |->
                                     IF t \notin added THEN tables[t]
                                     ELSE IF t = next_file_number THEN first ELSE rest]
                    /\ edit' = [edit EXCEPT !.add = @ \cup added]
                    /\ next_file_number' =
                          MarkFileNumberUsed(next_file_number + Cardinality(written), n)
                    /\ mem' = IF reuse THEN rest ELSE mem
                    /\ logfile_number' = IF reuse THEN n ELSE logfile_number
             /\ last_sequence' = MaxSequence(Updates(1, Len(records)))
             /\ todo' = todo \ {n}
    /\ UNCHANGED <<logs, manifests, current, version, imm, has_imm, bg_error, pending_outputs, iterator,
                   pc, job, output, compaction, files_to_delete, history, bounds>>

\* Mutant: an edit without a log number gets that of the newest log.
NewestLogNumber == logfile_number

\* The log number of an edit that brings none.
DefaultLogNumber == log_number

\* The counters that LogAndApply adds to an edit before it releases the mutex.
LogAndApply(e, j) ==
    /\ edit' = [e EXCEPT !.next = next_file_number', !.seq = last_sequence]
    /\ job' = j
    /\ pc' = "append"

\* The rest of DB::Open up to LogAndApply, or to RemoveObsoleteFiles if the
\* reused MANIFEST has nothing to add.
OpenLog ==
    /\ pc = "logs" /\ todo = {}
    /\ IF logfile_number = 0
       THEN /\ logs' = Put(logs, next_file_number, NewWritableFile)
            /\ logfile_number' = next_file_number
            /\ next_file_number' = next_file_number + 1
       ELSE UNCHANGED <<logs, logfile_number, next_file_number>>
    /\ UNCHANGED <<tables, manifests, current>>
    /\ IF ~descriptor \/ edit.add # {}
       THEN /\ LogAndApply([edit EXCEPT !.log = logfile_number'], "open")
            /\ UNCHANGED files_to_delete
       ELSE /\ LET doomed == RemoveObsoleteFiles(live, {}, log_number, pending_outputs)
               IN  /\ files_to_delete' = doomed
                   /\ pc' = IF doomed = {} THEN "idle" ELSE "delete"
                   /\ job' = IF doomed = {} THEN "none" ELSE "open"
            /\ edit' = NoEdit
    /\ UNCHANGED <<version, last_sequence, mem, imm, has_imm, bg_error, pending_outputs, iterator, output,
                   compaction, todo, history, bounds>>

-----------------------------------------------------------------------------
(* LogAndApply, for DB::Open and for the background thread.                 *)

AppendEdit ==
    LET file == IF descriptor THEN manifests[manifest_file_number] ELSE AddRecord(NewWritableFile, Snapshot)
    IN  /\ pc = "append"
        /\ manifests' = Put(manifests, manifest_file_number, AddRecord(file, edit))
        /\ buried' = (buried \/ file.torn # {})
        /\ pc' = "sync"
        /\ UNCHANGED <<logs, tables, current, version, next_file_number, last_sequence, memory, bg_error,
                       pending_outputs, iterator, job, edit, output, compaction, todo, files_to_delete,
                       seq, owed, durable, covered, bounds>>

SyncManifest == Put(manifests, manifest_file_number, Sync(manifests[manifest_file_number]))

\* The version is installed; CompactMemTable drops the memtable, a compaction
\* its state, and all but a trivial move call RemoveObsoleteFiles.
Install ==
    LET comp == IF job = "compact" THEN NoCompaction ELSE compaction
    IN  /\ live' = (live \ edit.del) \cup edit.add
        /\ log_number' = edit.log
        /\ descriptor' = TRUE
        /\ IF job = "flush" THEN imm' = {} /\ has_imm' = FALSE ELSE UNCHANGED <<imm, has_imm>>
        /\ compaction' = comp
        /\ pending_outputs' = pending_outputs \ (IF job = "compact" THEN {compaction.output} ELSE {})
        /\ edit' = NoEdit
        /\ durable' = durable \cup Contents(edit.add)
        /\ Continue(IF job = "move" THEN {}
                    ELSE RemoveObsoleteFiles(live', comp.inputs, log_number', pending_outputs'), comp)
        /\ UNCHANGED <<logs, tables, manifest_file_number, next_file_number, last_sequence, mem,
                       logfile_number, bg_error, iterator, output, todo, seq, owed, covered,
                       buried, bounds>>

SyncAndInstall ==
    /\ pc = "sync" /\ descriptor
    /\ manifests' = SyncManifest
    /\ UNCHANGED current
    /\ Install

\* A new MANIFEST is synced before CURRENT names it.
SyncNewManifest ==
    /\ pc = "sync" /\ ~descriptor
    /\ manifests' = SyncManifest
    /\ pc' = "setcurrent"
    /\ UNCHANGED <<logs, tables, current, version, next_file_number, last_sequence, memory, bg_error,
                   pending_outputs, iterator, job, edit, output, compaction, todo, files_to_delete,
                   history, bounds>>

SetCurrentFile ==
    /\ pc = "setcurrent"
    /\ current' = manifest_file_number
    /\ UNCHANGED manifests
    /\ Install

\* The loop of RemoveObsoleteFiles, without the mutex, in the directory's order.
RemoveFile ==
    /\ pc = "delete"
    /\ \E f \in files_to_delete :
          /\ logs' = Without(logs, IF f[1] = "log" THEN {f[2]} ELSE {})
          /\ tables' = Without(tables, IF f[1] = "table" THEN {f[2]} ELSE {})
          /\ manifests' = Without(manifests, IF f[1] = "manifest" THEN {f[2]} ELSE {})
          /\ Continue(files_to_delete \ {f}, compaction)
    /\ UNCHANGED <<current, version, next_file_number, last_sequence, memory, bg_error, pending_outputs,
                   iterator, edit, output, compaction, todo, history, bounds>>

\* An I/O error makes DB::Open fail; LogAndApply removes the MANIFEST it began.
OpenFails ==
    /\ \/ pc \in {"created", "logs", "setcurrent"}
       \/ (pc \in {"append", "sync"} /\ job = "open")
    /\ Fault("open")
    /\ manifests' = Without(manifests, IF pc \in {"sync", "setcurrent"} /\ ~descriptor
                                      THEN {manifest_file_number} ELSE {})
    /\ VolatileReset
    /\ UNCHANGED <<logs, tables, current, history>>

-----------------------------------------------------------------------------
(* Writing.                                                                 *)

Logged(f) == Put(logs, logfile_number, f)

MayWrite == IsOpen /\ ~bg_error /\ Len(seq) < MaxWrites

\* Write: append, sync if asked to, insert, acknowledge.
Write(sync) ==
    LET i == Len(seq) + 1
        file == AddRecord(logs[logfile_number], i)
    IN  /\ MayWrite
        /\ logs' = Logged(IF sync THEN Sync(file) ELSE file)
        /\ mem' = mem \cup {i}
        /\ last_sequence' = last_sequence + 1
        /\ seq' = Append(seq, last_sequence + 1)
        /\ owed' = owed \cup {i}
        /\ durable' = durable \cup (IF sync THEN {i} ELSE {})
        /\ covered' = covered \cup (IF sync THEN owed ELSE {})
        /\ buried' = (buried \/ file.torn # {})
        /\ UNCHANGED <<tables, manifests, current, version, next_file_number, imm, has_imm, logfile_number,
                       bg_error, pending_outputs, iterator, thread, bounds>>

\* The record is in the file, the sync fails, and no write is accepted after it.
WriteSyncFails ==
    /\ MayWrite /\ Fault("log_sync")
    /\ logs' = Logged(AddRecord(logs[logfile_number], Len(seq) + 1))
    /\ last_sequence' = last_sequence + 1
    /\ seq' = Append(seq, last_sequence + 1)
    /\ bg_error' = TRUE
    /\ buried' = (buried \/ logs[logfile_number].torn # {})
    /\ UNCHANGED <<tables, manifests, current, version, next_file_number, memory, pending_outputs, iterator,
                   thread, owed, durable, covered>>

\* AddRecord itself fails and leaves a fragment; the database goes on.
WriteAppendFails ==
    /\ MayWrite /\ Fault("log_append")
    /\ logs' = Logged(Torn(logs[logfile_number]))
    /\ last_sequence' = last_sequence + 1
    /\ seq' = Append(seq, last_sequence + 1)
    /\ UNCHANGED <<tables, manifests, current, version, next_file_number, memory, bg_error, pending_outputs,
                   iterator, thread, owed, durable, covered, buried>>

\* MakeRoomForWrite's last branch.  The old log is closed, not synced.
SwitchMemTable ==
    /\ IsOpen /\ ~bg_error /\ ~has_imm
    /\ next_file_number < MaxFiles
    /\ logs' = Put(logs, next_file_number, NewWritableFile)
    /\ logfile_number' = next_file_number
    /\ next_file_number' = next_file_number + 1
    /\ imm' = mem /\ has_imm' = TRUE /\ mem' = {}
    /\ \/ UNCHANGED <<bg_error, bounds>>
       \/ Fault("close") /\ bg_error' = TRUE
    /\ UNCHANGED <<tables, manifests, current, version, last_sequence, pending_outputs, iterator, thread,
                   history>>

-----------------------------------------------------------------------------
(* The background thread.                                                   *)

\* CompactMemTable up to the release of the mutex in WriteLevel0Table; from
\* DoCompactionWork after a background error too.
FlushStart ==
    /\ has_imm
    /\ (pc = "idle" /\ ~bg_error) \/ pc = "compacting"
    /\ output' = next_file_number
    /\ next_file_number' = next_file_number + 1
    /\ pending_outputs' = pending_outputs \cup {output'}
    /\ tables' = IF imm = {} THEN tables ELSE Put(tables, output', {})
    /\ pc' = "building"
    /\ UNCHANGED <<logs, manifests, current, version, last_sequence, memory, bg_error, iterator, job, edit,
                   compaction, todo, files_to_delete, history, bounds>>

\* BuildTable has synced the table; an empty memtable makes none.  Earlier logs
\* are no longer needed.
FlushBuilt ==
    /\ pc = "building"
    /\ tables' = IF imm = {} THEN tables ELSE Put(tables, output, imm)
    /\ pending_outputs' = pending_outputs \ {output}
    /\ UNCHANGED <<next_file_number, last_sequence>>
    /\ LogAndApply([NoEdit EXCEPT !.add = IF imm = {} THEN {} ELSE {output}, !.log = logfile_number], "flush")
    /\ output' = 0
    /\ UNCHANGED <<logs, manifests, current, version, memory, bg_error, iterator, compaction, todo,
                   files_to_delete, history, bounds>>

\* BuildTable fails and removes its file.
FlushFails ==
    /\ pc = "building" /\ Fault("table")
    /\ tables' = Without(tables, {output})
    /\ pending_outputs' = pending_outputs \ {output}
    /\ output' = 0
    /\ bg_error' = TRUE
    /\ Continue({}, compaction)
    /\ UNCHANGED <<logs, manifests, current, version, next_file_number, last_sequence, memory, iterator, edit,
                   compaction, todo, history>>

MayCompact ==
    /\ pc = "idle" /\ ~bg_error /\ ~has_imm
    /\ Len(manifests[manifest_file_number].recs) < MaxEdits

\* DoCompactionWork up to the creation of its output.
CompactionStart ==
    /\ MayCompact /\ next_file_number < MaxFiles
    /\ \E inputs \in (SUBSET live) \ {{}} :
          compaction' = [inputs |-> inputs, output |-> next_file_number]
    /\ next_file_number' = next_file_number + 1
    /\ pending_outputs' = pending_outputs \cup {next_file_number}
    /\ tables' = Put(tables, next_file_number, {})
    /\ pc' = "compacting"
    /\ UNCHANGED <<logs, manifests, current, version, last_sequence, memory, bg_error, iterator, job, edit,
                   output, todo, files_to_delete, history, bounds>>

\* The output is synced and InstallCompactionResults called, whatever became of
\* a flush in between.
CompactionBuilt ==
    /\ pc = "compacting"
    /\ tables' = Put(tables, compaction.output, Contents(compaction.inputs))
    /\ UNCHANGED <<next_file_number, last_sequence>>
    /\ LogAndApply([NoEdit EXCEPT !.add = {compaction.output}, !.del = compaction.inputs,
                                  !.log = DefaultLogNumber], "compact")
    /\ UNCHANGED <<logs, manifests, current, version, memory, bg_error, pending_outputs, iterator, output,
                   compaction, todo, files_to_delete, history, bounds>>

\* An error while the output is written; RemoveObsoleteFiles then refuses.
CompactionFails ==
    /\ pc = "compacting" /\ Fault("table")
    /\ bg_error' = TRUE
    /\ pending_outputs' = pending_outputs \ {compaction.output}
    /\ compaction' = NoCompaction
    /\ Continue({}, NoCompaction)
    /\ UNCHANGED <<disk, version, next_file_number, last_sequence, memory, iterator, edit, output, todo,
                   history>>

\* A table changes its level, which is the same table here.
TrivialMove ==
    /\ MayCompact
    /\ UNCHANGED <<next_file_number, last_sequence>>
    /\ \E t \in live : LogAndApply([NoEdit EXCEPT !.add = {t}, !.del = {t}, !.log = DefaultLogNumber], "move")
    /\ UNCHANGED <<disk, version, memory, bg_error, pending_outputs, iterator, output, compaction, todo,
                   files_to_delete, history, bounds>>

\* LogAndApply fails in the background: at the append, with or without a
\* fragment, or at the sync, with the record in the file.
LogAndApplyFails ==
    /\ pc \in {"append", "sync"} /\ job # "open"
    /\ \/ Fault("manifest") /\ UNCHANGED manifests
       \/ /\ pc = "append" /\ Fault("manifest_tear")
          /\ manifests' = Put(manifests, manifest_file_number, Torn(manifests[manifest_file_number]))
    /\ bg_error' = TRUE
    /\ LET comp == IF job = "compact" THEN NoCompaction ELSE compaction
       IN  /\ compaction' = comp
           /\ pending_outputs' = pending_outputs \ (IF job = "compact" THEN {compaction.output} ELSE {})
           /\ Continue({}, comp)
    /\ edit' = NoEdit
    /\ UNCHANGED <<logs, tables, current, version, next_file_number, last_sequence, memory, iterator, output,
                   todo, history>>

-----------------------------------------------------------------------------
(* Readers and crashes.                                                     *)

NewIterator ==
    /\ IsOpen /\ iterator = {} /\ live # {} /\ iterators < MaxIterators
    /\ iterator' = live
    /\ iterators' = iterators + 1
    /\ UNCHANGED <<disk, version, next_file_number, last_sequence, memory, bg_error, pending_outputs, thread,
                   history, crashes, faults>>

CleanupIteratorState ==
    /\ iterator # {}
    /\ iterator' = {}
    /\ UNCHANGED <<disk, version, next_file_number, last_sequence, memory, bg_error, pending_outputs, thread,
                   history, bounds>>

MayCrash ==
    /\ crashes < MaxCrashes
    /\ crashes' = crashes + 1
    /\ UNCHANGED <<faults, iterators>>

\* The process ends, by a crash or by the destructor, which writes nothing.
ProcessCrash ==
    /\ pc \notin {"down", "corrupt"} /\ MayCrash
    /\ VolatileReset
    /\ UNCHANGED <<disk, history>>

\* The machine fails: updates that were never synced are no longer owed.
PowerFailure ==
    /\ PowerFails /\ pc # "corrupt" /\ MayCrash
    /\ \E f \in [DOMAIN logs -> UNION {Remains(logs[n]) : n \in DOMAIN logs}] :
          (\A n \in DOMAIN logs : f[n] \in Remains(logs[n])) /\ logs' = f
    /\ \E f \in [DOMAIN manifests -> UNION {Remains(manifests[n]) : n \in DOMAIN manifests}] :
          (\A n \in DOMAIN manifests : f[n] \in Remains(manifests[n])) /\ manifests' = f
    /\ owed' = owed \cap durable
    /\ VolatileReset
    /\ UNCHANGED <<tables, current, seq, durable, covered, buried>>

Next ==
    \/ NewDB \/ NewDBSetCurrent \/ RecoverFails \/ Recover \/ RecoverLogFile \/ OpenLog
    \/ AppendEdit \/ SyncAndInstall \/ SyncNewManifest \/ SetCurrentFile \/ RemoveFile \/ OpenFails
    \/ \E sync \in BOOLEAN : Write(sync)
    \/ WriteSyncFails \/ WriteAppendFails \/ SwitchMemTable
    \/ FlushStart \/ FlushBuilt \/ FlushFails
    \/ CompactionStart \/ CompactionBuilt \/ CompactionFails \/ TrivialMove \/ LogAndApplyFails
    \/ NewIterator \/ CleanupIteratorState \/ ProcessCrash \/ PowerFailure

Spec == Init /\ [][Next]_vars

-----------------------------------------------------------------------------
(* Properties.                                                              *)

\* Types of all variables.
TypeOK ==
    LET Update == 1 .. Len(seq)
        EditType == [add : SUBSET Nat, del : SUBSET Nat, log : Nat \cup {Unset}, next : Nat \cup {Unset},
                     seq : Nat \cup {Unset}]
        IsFile(f) == f.synced \in 0 .. Len(f.recs) /\ f.torn \subseteq 0 .. Len(f.recs)
    IN  /\ \A n \in DOMAIN logs : IsFile(logs[n]) /\ \A i \in DOMAIN logs[n].recs : logs[n].recs[i] \in Update
        /\ \A n \in DOMAIN manifests :
              IsFile(manifests[n]) /\ \A i \in DOMAIN manifests[n].recs : manifests[n].recs[i] \in EditType
        /\ \A n \in DOMAIN tables : tables[n] \subseteq Update
        /\ DOMAIN logs \cup DOMAIN tables \cup DOMAIN manifests \subseteq Nat \ {0}
        /\ {current, log_number, next_file_number, manifest_file_number, last_sequence, logfile_number,
            output, compaction.output} \subseteq Nat
        /\ live \cup pending_outputs \cup iterator \cup compaction.inputs \cup todo \subseteq Nat
        /\ {descriptor, has_imm, bg_error} \subseteq BOOLEAN
        /\ mem \cup imm \cup owed \cup durable \cup covered \subseteq Update
        /\ pc \in {"down", "created", "logs", "append", "sync", "setcurrent", "delete", "idle", "building",
                   "compacting", "corrupt"}
        /\ job \in {"none", "open", "flush", "compact", "move"}
        /\ edit \in EditType
        /\ files_to_delete \subseteq {"log", "table", "manifest"} \X Nat

Readable == mem \cup imm \cup Contents(live \cap DOMAIN tables)

\* DB::Open succeeds whatever crash or error came before, unless a record was
\* appended behind a fragment: Recover finds a MANIFEST it can read and every
\* table it names (version_set.cc:876-956, db_impl.cc:356-361).
OpenSucceeds == pc = "corrupt" => buried

\* What options.h:176-184 promises, unless a record was appended behind a
\* fragment: an open database has every acknowledged update, except those without
\* sync that a failure of the machine cut off before their memtable was written.
OwedIsReadable == IsOpen /\ ~buried => owed \subseteq Readable

\* options.h:176-184 without the exception: "if it is just the process that
\* crashes (i.e., the machine does not reboot), no writes will be lost even if
\* sync==false", and one with sync is not lost either.
NoWriteIsLost == IsOpen => owed \subseteq Readable

\* After a background error there are "no more changes" (db_impl.cc:673-674), so
\* none can make the MANIFEST unreadable.
AlwaysOpens == pc # "corrupt"

\* Every table of the current version and of an iterator's has its file, no file
\* on a list of files to delete is one the database uses (deletion goes on
\* without the mutex, db_impl.cc:282-289), and the number of no file in use will
\* be given to a new one, which would truncate it (db_impl.cc:375).
UsedFilesExist ==
    IsOpen => /\ live \cup iterator \subseteq DOMAIN tables
              /\ logfile_number \in DOMAIN logs /\ manifest_file_number = current
              /\ \A n \in live \cup iterator \cup pending_outputs \cup {n \in DOMAIN logs : n >= log_number} :
                    n < next_file_number
              /\ \A f \in files_to_delete :
                    /\ f[1] = "table" => f[2] \notin live \cup iterator \cup pending_outputs
                    /\ f[1] = "log" => f[2] < log_number
                    /\ f[1] = "manifest" => f[2] # current

\* A later write has a larger sequence number than any update an open database
\* has, across crashes, and all of them are within last_sequence: otherwise a
\* recovered update would hide a newer one, or be invisible (db_impl.cc:378).
SequencesGrow ==
    IsOpen => \A i \in Readable : /\ seq[i] <= last_sequence
                                  /\ \A j \in Readable : i < j => seq[i] < seq[j]

\* The scheme of doc/index.md:119-124: what was acknowledged before a synchronous
\* write finished need not be written again after a crash.
SyncCoversEarlier == IsOpen => covered \subseteq Readable

=============================================================================
