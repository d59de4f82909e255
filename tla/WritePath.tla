------------------------------ MODULE WritePath ------------------------------
(***************************************************************************)
(* DBImpl's write path and its background thread (db/db_impl.cc): the      *)
(* queue of writers and group commit, MakeRoomForWrite with its memtable   *)
(* switch and back-pressure, the scheduling of the one background call,    *)
(* memtable and table compaction as far as they touch this state, manual   *)
(* compaction, background errors and the destructor.                       *)
(*                                                                         *)
(* An action is what one thread does between two points where it can be    *)
(* observed: taking mutex_, releasing it, or waiting on a condition        *)
(* variable.  A memtable, a table and a log hold sequence numbers.         *)
(***************************************************************************)
EXTENDS Integers, Sequences, FiniteSets

CONSTANTS
  Clients,                    \* threads that call into the DB
  NoThread,                   \* a null pointer where a thread could be
  Ops,                        \* the calls clients make in this instance
  BatchCount,                 \* updates in one WriteBatch
  MaxGroup,                   \* batches that fit in a group (max_size)
  WriteBufferSize,            \* updates a memtable holds and still has room
  kL0_CompactionTrigger, kL0_SlowdownWritesTrigger, kL0_StopWritesTrigger,
  MaxOps,                     \* bound on calls
  MaxFaults,                  \* bound on failing file-system operations
  MaxSamples,                 \* bound on read samples that ask to compact
  MaxRounds,                  \* bound on the pieces of one manual compaction
  MaxDeeper                   \* bound on compactions owed below level 0

AllOps == {"put", "putsync", "flush", "range", "close"}

ASSUME WritePathAssumption ==
  /\ NoThread \notin Clients
  /\ Ops \subseteq AllOps
  /\ BatchCount \in Nat \ {0} /\ MaxGroup \in Nat /\ WriteBufferSize \in Nat
  /\ kL0_CompactionTrigger \in Nat \ {0}
  /\ kL0_SlowdownWritesTrigger \in Nat
  /\ kL0_StopWritesTrigger \in Nat
  /\ kL0_CompactionTrigger <= kL0_StopWritesTrigger
  /\ {MaxOps, MaxFaults, MaxSamples, MaxRounds, MaxDeeper} \subseteq Nat

VARIABLES
  (* the calling threads *)
  writers,         \* writers_: the queue; its head does the work
  pc,              \* where each thread is
  op,              \* the call it is in
  done,            \* Writer::done and Writer::status: "no", "ok" or "error"
  cv,              \* queued writers whose Writer::cv has been signalled
  blocked,         \* threads inside background_work_finished_signal_.Wait()
  mutex,           \* the thread that keeps mutex_ between two of its actions
  (* locals of Write and MakeRoomForWrite in the thread at the head *)
  force, allow_delay, group_len, status,
  (* memtables, tables, log files *)
  mem, imm, has_imm, tables, last_sequence,
  logfile_number, log_number, logfiles,
  logrec,          \* <<n, s>>: log file n holds update s
  synced,          \* the part of logrec that has reached the disk
  (* the background thread *)
  bgpc,            \* "idle" iff ~background_compaction_scheduled_
  nested,          \* CompactMemTable was called from DoCompactionWork
  is_manual, edit_log, inputs0, deletions,
  bg_error, shutting_down, manual_compaction, manual_done, rounds,
  (* the current Version: files in level 0, compactions owed below it,     *)
  (* file_to_compact_ set by reads                                         *)
  level0, deeper, file_to_compact,
  (* history *)
  acked,           \* updates whose Write returned OK
  acksync,         \* those of them written with sync
  callseq,         \* last_sequence when each thread's flush call started
  flushed,         \* the largest callseq of a flush call that returned OK
  ops, faults, samples

queueVars == <<writers, pc, op, done, cv, mutex>>
roomVars  == <<force, allow_delay, group_len, status>>
dataVars  == <<mem, imm, has_imm, tables, last_sequence>>
logVars   == <<logfile_number, log_number, logfiles, logrec, synced>>
jobVars   == <<nested, is_manual, edit_log, inputs0, deletions>>
manVars   == <<manual_compaction, manual_done, rounds>>
treeVars  == <<level0, deeper, file_to_compact>>
histVars  == <<acked, acksync, callseq, flushed>>
vars == <<queueVars, roomVars, dataVars, logVars, jobVars, manVars, treeVars,
          histVars, blocked, bgpc, bg_error, shutting_down, ops, faults,
          samples>>

-----------------------------------------------------------------------------
(* Writers, groups and sequence numbers. *)

Null(c) == op[c] = "flush"        \* w.batch == nullptr
Sync(c) == op[c] = "putsync"      \* w.sync

\* The number of batches among the first n writers of the queue.
Puts(n) == Cardinality({i \in 1..n : ~Null(writers[i])})

\* Mutant of Fits: a sync write joins the group of a non-sync write.
FitsIgnoringSync(n) == \A i \in 2..n : ~Null(writers[i]) => Puts(i) <= MaxGroup

\* BuildBatchGroup may take the first n writers of the queue.
Fits(n) ==
  \A i \in 2..n :
    /\ Sync(writers[i]) => Sync(writers[1])
    /\ ~Null(writers[i]) => Puts(i) <= MaxGroup

\* ... and takes no fewer than it may.
BuildBatchGroup(n) ==
  Fits(n) /\ (n < Len(writers) => ~Fits(n + 1))

\* The sequence numbers of the group being written.
GroupSeqs == (last_sequence + 1) .. (last_sequence + Puts(group_len) * BatchCount)

\* Mutant of NewLastSequence: only the first batch of the group is counted.
CountsFirstBatch == last_sequence + BatchCount

\* SetLastSequence, once the group is in the memtable.
NewLastSequence == last_sequence + Puts(group_len) * BatchCount

\* Those of the group's updates that came with sync.
SyncSeqs ==
  {s \in GroupSeqs :
     \E i \in 1..group_len :
       /\ Sync(writers[i])
       /\ s > last_sequence + (Puts(i) - 1) * BatchCount
       /\ s <= last_sequence + Puts(i) * BatchCount}

-----------------------------------------------------------------------------
(* Scheduling. *)

NeedsCompaction ==
  \/ level0 >= kL0_CompactionTrigger
  \/ deeper > 0
  \/ file_to_compact

WorkToDo == has_imm \/ manual_compaction # NoThread \/ NeedsCompaction

CanSchedule == ~shutting_down /\ ~bg_error /\ WorkToDo

\* Evaluated on the state the action leaves behind.
MaybeScheduleCompaction ==
  bgpc' = IF bgpc = "idle" /\ CanSchedule' THEN "scheduled" ELSE bgpc

\* SignalAll happens only when the error is the first one.
RecordBackgroundError ==
  /\ bg_error' = TRUE
  /\ blocked' = IF bg_error THEN blocked ELSE {}

Free == mutex = NoThread
Lockable(c) == mutex \in {NoThread, c}

Fault == faults < MaxFaults /\ faults' = faults + 1

-----------------------------------------------------------------------------
(* A client starts a call. *)

Start(c, o) ==
  /\ Free /\ pc[c] = "idle" /\ ops < MaxOps /\ ~shutting_down
  /\ ops' = ops + 1
  /\ op' = [op EXCEPT ![c] = o]

\* Mutant of GoesFirst: a writer does not wait to be the front.
GoesFirstAlways == TRUE

\* After its push_back the writer is the front of the queue.
GoesFirst == writers = <<>>

\* Write: push_back, and either be the head or wait on w.cv.
StartWrite(c, o) ==
  /\ o \in {"put", "putsync", "flush"} /\ Start(c, o)
  /\ writers' = Append(writers, c)
  /\ done' = [done EXCEPT ![c] = "no"]
  /\ pc' = [pc EXCEPT ![c] = IF GoesFirst THEN "room" ELSE "queued"]
  /\ IF GoesFirst
       THEN force' = (o = "flush") /\ allow_delay' = (o # "flush")
       ELSE UNCHANGED <<force, allow_delay>>
  /\ mutex' = IF GoesFirst THEN c ELSE NoThread
  /\ callseq' = [callseq EXCEPT ![c] = IF o = "flush" THEN last_sequence ELSE 0]
  /\ UNCHANGED <<cv, group_len, status, dataVars, logVars, jobVars, manVars,
                 treeVars, acked, acksync, flushed, blocked, bgpc, bg_error,
                 shutting_down, faults, samples>>

\* TEST_CompactRange: a fresh ManualCompaction on the caller's stack.
StartRange(c) ==
  /\ Start(c, "range")
  /\ pc' = [pc EXCEPT ![c] = "range"]
  /\ manual_done' = manual_done \ {c}
  /\ rounds' = [rounds EXCEPT ![c] = MaxRounds]
  /\ UNCHANGED <<writers, done, cv, mutex, roomVars, dataVars, logVars,
                 jobVars, manual_compaction, treeVars, histVars, blocked,
                 bgpc, bg_error, shutting_down, faults, samples>>

\* ~DBImpl; the caller guarantees that no other call is in progress.
StartClose(c) ==
  /\ Start(c, "close")
  /\ \A d \in Clients : pc[d] = "idle"
  /\ pc' = [pc EXCEPT ![c] = "close"]
  /\ shutting_down' = TRUE
  /\ UNCHANGED <<writers, done, cv, mutex, roomVars, dataVars, logVars,
                 jobVars, manVars, treeVars, histVars, blocked, bgpc,
                 bg_error, faults, samples>>

-----------------------------------------------------------------------------
(* The writer at the head of the queue. *)

\* The queued writer wakes: it is done, it is the head, or it waits again.
WakeWriter(c) ==
  /\ Free /\ pc[c] = "queued" /\ c \in cv
  /\ cv' = cv \ {c}
  /\ LET next == IF done[c] # "no"
                 THEN IF Null(c) /\ done[c] = "ok" THEN "flushwait" ELSE "idle"
                 ELSE IF c = Head(writers) THEN "room" ELSE "queued"
     IN /\ pc' = [pc EXCEPT ![c] = next]
        /\ mutex' = IF next = "room" THEN c ELSE NoThread
        /\ IF next = "room"
             THEN force' = Null(c) /\ allow_delay' = ~Null(c)
             ELSE UNCHANGED <<force, allow_delay>>
  /\ UNCHANGED <<writers, op, done, group_len, status, dataVars, logVars,
                 jobVars, manVars, treeVars, histVars, blocked, bgpc,
                 bg_error, shutting_down, ops, faults, samples>>

\* Write's tail: pop the first n writers, pass them st, wake the new head.
FinishWrite(c, n, st) ==
  LET group == {writers[i] : i \in 1..n} IN
  /\ writers' = SubSeq(writers, n + 1, Len(writers))
  /\ done' = [d \in Clients |-> IF d \in group THEN st ELSE done[d]]
  /\ cv' = (cv \cup (group \ {c}))
             \cup (IF n < Len(writers) THEN {writers[n + 1]} ELSE {})
  /\ pc' = [pc EXCEPT ![c] = IF Null(c) /\ st = "ok" THEN "flushwait" ELSE "idle"]
  /\ mutex' = NoThread

InRoom(c) ==
  /\ pc[c] = "room" /\ c \notin blocked /\ Lockable(c)

\* A background error fails the write.
RoomError(c) ==
  /\ InRoom(c) /\ bg_error
  /\ FinishWrite(c, 1, "error")
  /\ UNCHANGED <<op, roomVars, dataVars, logVars, jobVars, manVars, treeVars,
                 histVars, blocked, bgpc, bg_error, shutting_down, ops,
                 faults, samples>>

Delay == allow_delay /\ level0 >= kL0_SlowdownWritesTrigger

\* Close to the limit on level-0 files: give up the mutex for 1ms, once.
RoomDelay(c) ==
  /\ InRoom(c) /\ ~bg_error /\ Delay
  /\ allow_delay' = FALSE
  /\ pc' = [pc EXCEPT ![c] = "delay"]
  /\ mutex' = NoThread
  /\ UNCHANGED <<writers, op, done, cv, force, group_len, status, dataVars,
                 logVars, jobVars, manVars, treeVars, histVars, blocked, bgpc,
                 bg_error, shutting_down, ops, faults, samples>>

DelayOver(c) ==
  /\ Free /\ pc[c] = "delay"
  /\ pc' = [pc EXCEPT ![c] = "room"]
  /\ mutex' = c
  /\ UNCHANGED <<writers, op, done, cv, roomVars, dataVars, logVars, jobVars,
                 manVars, treeVars, histVars, blocked, bgpc, bg_error,
                 shutting_down, ops, faults, samples>>

Room == ~force /\ Cardinality(mem) <= WriteBufferSize

\* There is room.  A null batch is finished; otherwise build the group.
RoomFound(c) ==
  /\ InRoom(c) /\ ~bg_error /\ ~Delay /\ Room
  /\ IF Null(c)
       THEN /\ FinishWrite(c, 1, "ok")
            /\ UNCHANGED group_len
       ELSE /\ \E n \in 1..Len(writers) : BuildBatchGroup(n) /\ group_len' = n
            /\ pc' = [pc EXCEPT ![c] = "log"]
            /\ mutex' = NoThread
            /\ UNCHANGED <<writers, done, cv>>
  /\ UNCHANGED <<op, force, allow_delay, status, dataVars, logVars, jobVars,
                 manVars, treeVars, histVars, blocked, bgpc, bg_error,
                 shutting_down, ops, faults, samples>>

\* Wait for the previous memtable, or for fewer level-0 files.
RoomWait(c) ==
  /\ InRoom(c) /\ ~bg_error /\ ~Delay /\ ~Room
  /\ has_imm \/ level0 >= kL0_StopWritesTrigger
  /\ blocked' = blocked \cup {c}
  /\ mutex' = NoThread
  /\ UNCHANGED <<writers, pc, op, done, cv, roomVars, dataVars, logVars,
                 jobVars, manVars, treeVars, histVars, bgpc, bg_error,
                 shutting_down, ops, faults, samples>>

CanSwitch(c) ==
  /\ InRoom(c) /\ ~bg_error /\ ~Delay /\ ~Room
  /\ ~has_imm /\ level0 < kL0_StopWritesTrigger

\* Switch to a new log file and memtable.  Closing the old log file may
\* fail: the switch happens all the same, with a background error.
RoomSwitch(c) ==
  /\ CanSwitch(c)
  /\ logfile_number' = logfile_number + 1
  /\ logfiles' = logfiles \cup {logfile_number + 1}
  /\ imm' = mem /\ has_imm' = TRUE /\ mem' = {}
  /\ force' = FALSE
  /\ mutex' = c
  /\ \/ UNCHANGED <<bg_error, blocked, faults>>
     \/ RecordBackgroundError /\ Fault
  /\ UNCHANGED <<writers, pc, op, done, cv, allow_delay, group_len, status,
                 tables, last_sequence, log_number, logrec, synced, jobVars,
                 manVars, treeVars, histVars, shutting_down, ops, samples>>
  /\ MaybeScheduleCompaction

\* The new log file cannot be created: its number is given back.
RoomSwitchFails(c) ==
  /\ CanSwitch(c) /\ Fault
  /\ FinishWrite(c, 1, "error")
  /\ UNCHANGED <<op, roomVars, dataVars, logVars, jobVars, manVars, treeVars,
                 histVars, blocked, bgpc, bg_error, shutting_down, ops,
                 samples>>

\* log_->AddRecord, without mutex_.  A failed append may leave the record
\* in the log or not; the memtable is then left alone.
AddRecord(c) ==
  LET recs == {<<logfile_number, s>> : s \in GroupSeqs} IN
  /\ pc[c] = "log"
  /\ \/ /\ logrec' = logrec \cup recs
        /\ status' = "ok"
        /\ pc' = [pc EXCEPT ![c] = IF Sync(c) THEN "sync" ELSE "insert"]
        /\ UNCHANGED faults
     \/ /\ Fault
        /\ logrec' \in {logrec, logrec \cup recs}
        /\ status' = "error"
        /\ pc' = [pc EXCEPT ![c] = "commit"]
  /\ UNCHANGED <<writers, op, done, cv, mutex, force, allow_delay, group_len,
                 dataVars, logfile_number, log_number, logfiles, synced,
                 jobVars, manVars, treeVars, histVars, blocked, bgpc,
                 bg_error, shutting_down, ops, samples>>

\* logfile_->Sync, without mutex_: everything in the log reaches the disk.
SyncLog(c) ==
  LET here == {r \in logrec : r[1] = logfile_number} IN
  /\ pc[c] = "sync"
  /\ \/ /\ synced' = synced \cup here
        /\ pc' = [pc EXCEPT ![c] = "insert"]
        /\ UNCHANGED <<status, faults>>
     \/ /\ Fault
        /\ synced' \in {synced, synced \cup here}
        /\ status' = "syncerror"
        /\ pc' = [pc EXCEPT ![c] = "commit"]
  /\ UNCHANGED <<writers, op, done, cv, mutex, force, allow_delay, group_len,
                 dataVars, logfile_number, log_number, logfiles, logrec,
                 jobVars, manVars, treeVars, histVars, blocked, bgpc,
                 bg_error, shutting_down, ops, samples>>

\* InsertInto, without mutex_: one update after the other, in order.
InsertInto(c) ==
  /\ pc[c] = "insert"
  /\ \E s \in GroupSeqs \ mem :
       /\ \A t \in GroupSeqs \ mem : s <= t
       /\ mem' = mem \cup {s}
       /\ pc' = [pc EXCEPT ![c] = IF GroupSeqs \ mem = {s} THEN "commit" ELSE "insert"]
  /\ UNCHANGED <<writers, op, done, cv, mutex, roomVars, imm, has_imm, tables,
                 last_sequence, logVars, jobVars, manVars, treeVars, histVars,
                 blocked, bgpc, bg_error, shutting_down, ops, faults, samples>>

\* Back under mutex_: publish the sequence numbers and finish the group.
Commit(c) ==
  LET ok == status = "ok" IN
  /\ Free /\ pc[c] = "commit"
  /\ IF status = "syncerror" THEN RecordBackgroundError
                             ELSE UNCHANGED <<bg_error, blocked>>
  /\ last_sequence' = NewLastSequence
  /\ FinishWrite(c, group_len, IF ok THEN "ok" ELSE "error")
  /\ acked' = IF ok THEN acked \cup GroupSeqs ELSE acked
  /\ acksync' = IF ok THEN acksync \cup SyncSeqs ELSE acksync
  /\ group_len' = 0
  /\ UNCHANGED <<op, force, allow_delay, status, mem, imm, has_imm, tables,
                 logVars, jobVars, manVars, treeVars, callseq, flushed, bgpc,
                 shutting_down, ops, faults, samples>>

-----------------------------------------------------------------------------
(* The other callers of background_work_finished_signal_.Wait(). *)

Waits(c) == blocked' = blocked \cup {c}

\* TEST_CompactMemTable, once its null batch has returned OK.
FlushWait(c) ==
  /\ Free /\ pc[c] = "flushwait" /\ c \notin blocked
  /\ IF has_imm /\ ~bg_error
       THEN Waits(c) /\ UNCHANGED <<pc, flushed>>
       ELSE /\ pc' = [pc EXCEPT ![c] = "idle"]
            /\ flushed' = IF ~has_imm /\ callseq[c] > flushed
                            THEN callseq[c] ELSE flushed
            /\ UNCHANGED blocked
  /\ UNCHANGED <<writers, op, done, cv, mutex, roomVars, dataVars, logVars,
                 jobVars, manVars, treeVars, acked, acksync, callseq, bgpc,
                 bg_error, shutting_down, ops, faults, samples>>

\* Mutant of Draining: the second loop is left out.
DrainingNever == FALSE

\* TEST_CompactRange's second loop goes on while a call is scheduled.
Draining == bgpc # "idle"

\* TEST_CompactRange's two loops: hand in the request and wait until it is
\* done; then wait until no background call is left, and cancel the request.
RangeWait(c) ==
  LET waiting == /\ pc[c] = "range" /\ c \notin manual_done
                 /\ ~shutting_down /\ ~bg_error
  IN
  /\ Free /\ pc[c] \in {"range", "drain"} /\ c \notin blocked
  /\ IF waiting
       THEN /\ manual_compaction' = IF manual_compaction = NoThread
                                      THEN c ELSE manual_compaction
            /\ Waits(c)
            /\ UNCHANGED pc
       ELSE IF Draining
       THEN /\ pc' = [pc EXCEPT ![c] = "drain"]
            /\ Waits(c)
            /\ UNCHANGED manual_compaction
       ELSE /\ pc' = [pc EXCEPT ![c] = "idle"]
            /\ manual_compaction' = IF manual_compaction = c
                                      THEN NoThread ELSE manual_compaction
            /\ UNCHANGED blocked
  /\ UNCHANGED <<writers, op, done, cv, mutex, roomVars, dataVars, logVars,
                 jobVars, manual_done, rounds, treeVars, histVars, bg_error,
                 shutting_down, ops, faults, samples>>
  /\ IF waiting /\ manual_compaction = NoThread
       THEN MaybeScheduleCompaction ELSE UNCHANGED bgpc

\* The destructor waits for the background call; mutex_ is then given up.
CloseWait(c) ==
  /\ Free /\ pc[c] = "close" /\ c \notin blocked
  /\ IF bgpc # "idle"
       THEN Waits(c) /\ UNCHANGED pc
       ELSE pc' = [pc EXCEPT ![c] = "closed"] /\ UNCHANGED blocked
  /\ UNCHANGED <<writers, op, done, cv, mutex, roomVars, dataVars, logVars,
                 jobVars, manVars, treeVars, histVars, bgpc, bg_error,
                 shutting_down, ops, faults, samples>>

\* Get's tail and RecordReadSample: a read has used up the allowed seeks of
\* a file of the current version.
RecordReadSample ==
  /\ Free /\ samples < MaxSamples /\ ~file_to_compact /\ ~shutting_down
  /\ samples' = samples + 1
  /\ file_to_compact' = TRUE
  /\ UNCHANGED <<queueVars, roomVars, dataVars, logVars, jobVars, manVars,
                 level0, deeper, histVars, blocked, bg_error, shutting_down,
                 ops, faults>>
  /\ MaybeScheduleCompaction

-----------------------------------------------------------------------------
(* The background thread.  Its unlocked phases are values of bgpc:         *)
(*   build     BuildTable for the immutable memtable                       *)
(*   manifest  LogAndApply for the table that was built                    *)
(*   compact   the loop of DoCompactionWork                                *)
(*   install   LogAndApply for a compaction;  move: for a trivial move     *)
(*   remove    RemoveObsoleteFiles deleting files                          *)

clientVars == <<queueVars, roomVars, histVars, mem, last_sequence, ops, samples,
                shutting_down>>

\* Mutant of BackgroundCallEnds: it does not reschedule.
BackgroundCallJustEnds == blocked' = {} /\ bgpc' = "idle"

\* BackgroundCall's tail: reschedule if there is more to do, wake everyone.
\* The last conjunct of an action, for it looks at the state left behind.
BackgroundCallEnds ==
  /\ blocked' = {}
  /\ bgpc' = IF CanSchedule' THEN "scheduled" ELSE "idle"

\* BackgroundCompaction's tail for a manual request.
ManualEnds(ok) ==
  IF is_manual
    THEN /\ manual_done' = IF ok THEN manual_done
                           ELSE manual_done \cup {manual_compaction}
         /\ manual_compaction' = NoThread
    ELSE UNCHANGED <<manual_done, manual_compaction>>

\* Mutant of PickCompaction: one level-0 file more than there are.
PickCompactionOneMore == IF NeedsCompaction THEN 1..(level0 + 1) ELSE {}

\* The number of level-0 files a compaction may take: none if it works on a deeper
\* level.  Size triggers come before seek triggers.
PickCompaction ==
  LET size0 == IF level0 >= kL0_CompactionTrigger THEN 1..level0 ELSE {}
      sizeN == IF deeper > 0 THEN {0} ELSE {}
  IN IF size0 \cup sizeN # {} THEN size0 \cup sizeN
     ELSE IF file_to_compact THEN 0..level0 ELSE {}

\* BackgroundCall up to the first point where it gives up mutex_.
BackgroundCall ==
  /\ Free /\ bgpc = "scheduled"
  /\ UNCHANGED <<clientVars, imm, has_imm, tables, logVars, treeVars, bg_error,
                 faults>>
  /\ IF shutting_down \/ bg_error
       THEN /\ UNCHANGED <<jobVars, manVars>>
            /\ BackgroundCallEnds
     ELSE IF has_imm
       THEN /\ bgpc' = "build"
            /\ nested' = FALSE /\ is_manual' = FALSE
            /\ UNCHANGED <<edit_log, inputs0, deletions, manVars, blocked>>
     ELSE IF manual_compaction # NoThread
       THEN \/ \* CompactRange finds no file in the range
               /\ manual_done' = manual_done \cup {manual_compaction}
               /\ manual_compaction' = NoThread
               /\ UNCHANGED <<jobVars, rounds>>
               /\ BackgroundCallEnds
            \/ /\ rounds[manual_compaction] > 0
               /\ rounds' = [rounds EXCEPT ![manual_compaction] = @ - 1]
               /\ inputs0' \in 0..level0
               /\ is_manual' = TRUE
               /\ bgpc' = "compact"
               /\ UNCHANGED <<nested, edit_log, deletions, manual_compaction,
                              manual_done, blocked>>
     ELSE IF PickCompaction = {}
       THEN /\ UNCHANGED <<jobVars, manVars>>
            /\ BackgroundCallEnds
     ELSE /\ inputs0' \in PickCompaction
          /\ is_manual' = FALSE
          /\ bgpc' \in {"compact"} \cup (IF inputs0' <= 1 THEN {"move"} ELSE {})
          /\ UNCHANGED <<nested, edit_log, deletions, manVars, blocked>>

\* Mutant of NewVersion: the seek compaction stays asked for.
NewVersionKeepsSeek == UNCHANGED file_to_compact

\* LogAndApply installs a Version no read has asked to compact.
NewVersion == file_to_compact' = FALSE

\* The log files RemoveObsoleteFiles deletes when LogNumber is first.
ObsoleteLogs(first) == {n \in logfiles : n < first}

\* Mutant of EditLogNumber: one too high.
EditNextLogNumber == logfile_number + 1

\* edit.SetLogNumber: the earlier logs are no longer needed.
EditLogNumber == logfile_number

\* CompactMemTable returns: to the loop of DoCompactionWork, which wakes the
\* waiting writers, or to the end of BackgroundCall.
CompactMemTableReturns ==
  IF nested
    THEN bgpc' = "compact" /\ nested' = FALSE /\ blocked' = {}
    ELSE UNCHANGED nested /\ BackgroundCallEnds

\* The loop of DoCompactionWork puts the immutable memtable first.
CompactImmFirst ==
  /\ Free /\ bgpc = "compact" /\ has_imm /\ ~shutting_down
  /\ bgpc' = "build" /\ nested' = TRUE
  /\ UNCHANGED <<clientVars, imm, has_imm, tables, logVars, is_manual, edit_log,
                 inputs0, deletions, manVars, treeVars, blocked, bg_error,
                 faults>>

\* WriteLevel0Table is over and mutex_ is held again.
TableBuilt ==
  /\ Free /\ bgpc = "build" /\ ~shutting_down
  /\ bgpc' = "manifest"
  /\ edit_log' = EditLogNumber
  /\ UNCHANGED <<clientVars, imm, has_imm, tables, logVars, nested, is_manual,
                 inputs0, deletions, manVars, treeVars, blocked, bg_error,
                 faults>>

\* The table cannot be written, the database is closing, or LogAndApply
\* fails: the immutable memtable stays.
CompactMemTableFails ==
  /\ Free
  /\ \/ bgpc = "build" /\ shutting_down /\ UNCHANGED faults
     \/ bgpc \in {"build", "manifest"} /\ Fault
  /\ bg_error' = TRUE
  /\ UNCHANGED <<clientVars, imm, has_imm, tables, logVars, is_manual, edit_log,
                 inputs0, deletions, manVars, treeVars>>
  /\ CompactMemTableReturns

\* LogAndApply has installed the table, in level 0 or below; an empty
\* memtable makes no table.  RemoveObsoleteFiles then looks for files to
\* delete, unless there has been an error.
InstallMemTable ==
  /\ Free /\ bgpc = "manifest"
  /\ tables' = tables \cup imm
  /\ imm' = {} /\ has_imm' = FALSE
  /\ log_number' = edit_log
  /\ IF imm = {} THEN UNCHANGED <<level0, deeper>>
     ELSE \/ level0' = level0 + 1 /\ UNCHANGED deeper
          \/ UNCHANGED level0 /\ deeper' \in {deeper, deeper + 1} \cap 0..MaxDeeper
  /\ NewVersion
  /\ UNCHANGED <<clientVars, logfile_number, logfiles, logrec, synced, is_manual,
                 edit_log, inputs0, manVars, bg_error, faults>>
  /\ IF bg_error
       THEN UNCHANGED deletions /\ CompactMemTableReturns
       ELSE /\ deletions' = ObsoleteLogs(edit_log)
            /\ bgpc' = "remove"
            /\ UNCHANGED <<nested, blocked>>

\* Files have been deleted without mutex_, and it is held again.
RemoveObsoleteFiles ==
  /\ Free /\ bgpc = "remove"
  /\ logfiles' = logfiles \ deletions
  /\ deletions' = {}
  /\ UNCHANGED <<clientVars, imm, has_imm, tables, logfile_number, log_number,
                 logrec, synced, is_manual, edit_log, inputs0, rounds, treeVars,
                 bg_error, faults>>
  /\ IF nested THEN UNCHANGED <<manual_done, manual_compaction>>
               ELSE ManualEnds(TRUE)
  /\ CompactMemTableReturns

\* DoCompactionWork's loop is over, mutex_ is held, LogAndApply begins.
\* (shutting_down_ may have been set since the loop read it.)
CompactionDone ==
  /\ Free /\ bgpc = "compact"
  /\ bgpc' = "install"
  /\ UNCHANGED <<clientVars, imm, has_imm, tables, logVars, jobVars, manVars,
                 treeVars, blocked, bg_error, faults>>

\* The loop fails or sees shutting_down_, or LogAndApply fails.
CompactionFails ==
  /\ Free
  /\ \/ bgpc = "compact" /\ shutting_down /\ UNCHANGED faults
     \/ bgpc \in {"compact", "install", "move"} /\ Fault
  /\ bg_error' = TRUE
  /\ ManualEnds(FALSE)
  /\ UNCHANGED <<clientVars, imm, has_imm, tables, logVars, jobVars, rounds,
                 treeVars>>
  /\ BackgroundCallEnds

\* LogAndApply has installed the outputs.  Level 0 loses its inputs; the
\* level below it may now be too large.  A trivial move removes no file.
InstallCompaction ==
  /\ Free /\ bgpc \in {"install", "move"}
  /\ level0' = level0 - inputs0
  /\ deeper' \in (IF inputs0 = 0 /\ ~is_manual /\ deeper > 0
                  THEN {deeper - 1} ELSE {deeper, deeper + 1}) \cap 0..MaxDeeper
  /\ NewVersion
  /\ UNCHANGED <<clientVars, imm, has_imm, tables, logVars, nested, is_manual,
                 edit_log, inputs0, rounds, bg_error, faults>>
  /\ IF bgpc = "move" \/ bg_error
       THEN /\ ManualEnds(TRUE)
            /\ UNCHANGED deletions
            /\ BackgroundCallEnds
       ELSE /\ deletions' = ObsoleteLogs(log_number)
            /\ bgpc' = "remove"
            /\ UNCHANGED <<manual_done, manual_compaction, blocked>>

-----------------------------------------------------------------------------
(* The specification. *)

\* DB::Open has returned: an empty memtable, log file 1, no work to do.
Init ==
  /\ writers = <<>> /\ cv = {} /\ blocked = {} /\ mutex = NoThread
  /\ pc = [c \in Clients |-> "idle"] /\ op = [c \in Clients |-> "put"]
  /\ done = [c \in Clients |-> "no"]
  /\ force = FALSE /\ allow_delay = FALSE /\ group_len = 0 /\ status = "ok"
  /\ mem = {} /\ imm = {} /\ has_imm = FALSE /\ tables = {} /\ last_sequence = 0
  /\ logfile_number = 1 /\ log_number = 1 /\ logfiles = {1}
  /\ logrec = {} /\ synced = {}
  /\ bgpc = "idle" /\ nested = FALSE /\ is_manual = FALSE
  /\ edit_log = 1 /\ inputs0 = 0 /\ deletions = {}
  /\ bg_error = FALSE /\ shutting_down = FALSE
  /\ manual_compaction = NoThread /\ manual_done = {}
  /\ rounds = [c \in Clients |-> 0]
  /\ level0 = 0 /\ deeper = 0 /\ file_to_compact = FALSE
  /\ acked = {} /\ acksync = {} /\ flushed = 0
  /\ callseq = [c \in Clients |-> 0]
  /\ ops = 0 /\ faults = 0 /\ samples = 0

\* A thread starts a call of its own accord ...
Call(c) ==
  \/ \E o \in Ops \cap {"put", "putsync", "flush"} : StartWrite(c, o)
  \/ "range" \in Ops /\ StartRange(c)
  \/ "close" \in Ops /\ StartClose(c)

\* ... and once it has, it goes on whenever it can.
Client(c) ==
  \/ WakeWriter(c)
  \/ RoomError(c) \/ RoomDelay(c) \/ DelayOver(c)
  \/ RoomFound(c) \/ RoomWait(c) \/ RoomSwitch(c) \/ RoomSwitchFails(c)
  \/ AddRecord(c) \/ SyncLog(c) \/ InsertInto(c) \/ Commit(c)
  \/ FlushWait(c) \/ RangeWait(c) \/ CloseWait(c)

Background ==
  \/ BackgroundCall
  \/ CompactImmFirst \/ TableBuilt \/ CompactMemTableFails \/ InstallMemTable
  \/ RemoveObsoleteFiles
  \/ CompactionDone \/ CompactionFails \/ InstallCompaction

\* Nobody is in a call and no background call is scheduled: the process may
\* stay as it is.
Quiescent ==
  /\ \A c \in Clients : pc[c] \in {"idle", "closed"}
  /\ bgpc = "idle"
  /\ UNCHANGED vars

Next ==
  \/ \E c \in Clients : Call(c) \/ Client(c)
  \/ RecordReadSample
  \/ Background
  \/ Quiescent

\* The operating system runs every thread that can run; Env runs what has
\* been scheduled.
Fairness ==
  /\ \A c \in Clients : WF_vars(Client(c))
  /\ WF_vars(Background)

Spec == Init /\ [][Next]_vars /\ Fairness

-----------------------------------------------------------------------------
(* Properties. *)

Busy == {"room", "delay", "log", "sync", "insert", "commit"}
Pcs == Busy \cup {"idle", "queued", "flushwait", "range", "drain", "close", "closed"}
BgPcs == {"idle", "scheduled", "build", "manifest", "compact", "install",
          "move", "remove"}

TypeQueue ==
  /\ writers \in Seq(Clients)
  /\ pc \in [Clients -> Pcs] /\ op \in [Clients -> AllOps]
  /\ done \in [Clients -> {"no", "ok", "error"}]
  /\ cv \subseteq Clients /\ mutex \in Clients \cup {NoThread}
TypeRoom ==
  /\ force \in BOOLEAN /\ allow_delay \in BOOLEAN
  /\ group_len \in Nat /\ status \in {"ok", "error", "syncerror"}
TypeData ==
  /\ mem \subseteq Nat /\ imm \subseteq Nat /\ tables \subseteq Nat
  /\ has_imm \in BOOLEAN /\ last_sequence \in Nat
TypeLog ==
  /\ logfile_number \in Nat /\ log_number \in Nat /\ logfiles \subseteq Nat
  /\ logrec \subseteq Nat \X Nat /\ synced \subseteq logrec
TypeJob ==
  /\ nested \in BOOLEAN /\ is_manual \in BOOLEAN
  /\ edit_log \in Nat /\ inputs0 \in Nat /\ deletions \subseteq Nat
TypeMan ==
  /\ manual_compaction \in Clients \cup {NoThread}
  /\ manual_done \subseteq Clients /\ rounds \in [Clients -> Nat]
TypeTree ==
  /\ level0 \in Nat /\ deeper \in Nat /\ file_to_compact \in BOOLEAN
TypeHist ==
  /\ acked \subseteq Nat /\ acksync \subseteq acked
  /\ callseq \in [Clients -> Nat] /\ flushed \in Nat
TypeCtl ==
  /\ blocked \subseteq Clients /\ bgpc \in BgPcs
  /\ bg_error \in BOOLEAN /\ shutting_down \in BOOLEAN
  /\ ops \in Nat /\ faults \in Nat /\ samples \in Nat

\* Every variable keeps its type: the queue holds client threads, memtables,
\* tables and logs hold sequence numbers, a compaction never takes more files
\* out of level 0 than it holds when it is installed, and a request that has
\* failed belongs to a client.
TypeOK ==
  /\ TypeQueue /\ TypeRoom /\ TypeData /\ TypeLog /\ TypeJob /\ TypeMan
  /\ TypeTree /\ TypeHist /\ TypeCtl

\* One thread at a time is past the queue in Write, and it is the head of
\* writers_: between the Unlock and the Lock in Write it alone appends to the
\* log and inserts into mem_, though it does not hold mutex_.
OneLogger ==
  \A c \in Clients :
    /\ pc[c] \in Busy => writers # <<>> /\ c = Head(writers)
    /\ pc[c] \in Busy \cup {"queued"} /\ done[c] = "no" =>
         \E i \in 1..Len(writers) : writers[i] = c

\* Readers see exactly the updates that were acknowledged: a sequence number
\* up to LastSequence is in a memtable or a table iff its Write returned OK.
VisibleIsAcked == (mem \cup imm \cup tables) \cap 1..last_sequence = acked

\* An acknowledged update is in a table, or in a log file that exists and
\* that recovery would replay (its number is at least LogNumber).
AckedIsRecoverable ==
  \A s \in acked :
    \/ s \in tables
    \/ \E n \in logfiles : n >= log_number /\ <<n, s>> \in logrec

\* An update acknowledged with sync is in a table or on disk in such a log.
SyncedIsDurable ==
  \A s \in acksync :
    \/ s \in tables
    \/ \E n \in logfiles : n >= log_number /\ <<n, s>> \in synced

\* No lost wakeup: while a thread waits on background_work_finished_signal_
\* a background call is scheduled or running, and will signal it; and work
\* that may be done is always scheduled.
NoLostWakeup ==
  /\ blocked # {} => bgpc # "idle"
  /\ CanSchedule => bgpc # "idle"

\* BackgroundCompaction dereferences manual_compaction_ when the compaction
\* ends: the request, on its caller's stack, is still there.
ManualAlive ==
  /\ is_manual /\ bgpc # "idle" /\ bgpc # "scheduled" =>
       manual_compaction # NoThread
  /\ manual_compaction # NoThread => pc[manual_compaction] \in {"range", "drain"}

\* Every call returns.
EveryCallReturns ==
  \A c \in Clients : pc[c] # "idle" ~> pc[c] \in {"idle", "closed"}

\* "Force current memtable contents to be compacted." (db_impl.h): when
\* TEST_CompactMemTable has returned OK, no update that was there when it
\* was called is left in a memtable.
FlushCompactsMemTable ==
  \A s \in mem \cup imm : s > flushed
=============================================================================
