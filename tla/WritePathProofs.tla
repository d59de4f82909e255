-------------------------- MODULE WritePathProofs --------------------------
(***************************************************************************)
(* Proofs about WritePath, for any set of clients, any triggers and any    *)
(* bounds: its control first, then the updates it keeps.                   *)
(***************************************************************************)
EXTENDS WritePath, TLAPS, FiniteSetTheorems, SequenceTheorems

Logging == {"log", "sync", "insert", "commit"}

\* The background job: CompactMemTable is nested only while it runs, and a
\* compaction's inputs stay within level 0.
JobInv ==
  /\ nested => bgpc \in {"build", "manifest", "remove"}
  /\ bgpc \in {"compact", "install", "move"} \/ nested => inputs0 <= level0

\* The queue: no writer twice, every member is at work or waiting and not
\* done, whoever works is its head, whoever waits is in it, and the group
\* being written is a prefix of it.
InQueue(c) == \E i \in 1..Len(writers) : writers[i] = c

QueueInv ==
  /\ \A i, j \in 1..Len(writers) : writers[i] = writers[j] => i = j
  /\ \A i \in 1..Len(writers) :
       pc[writers[i]] \in Busy \cup {"queued"} /\ done[writers[i]] = "no"
  /\ \A c \in Clients : pc[c] \in Busy => Len(writers) > 0 /\ c = writers[1]
  /\ \A c \in Clients : pc[c] = "queued" /\ done[c] = "no" => InQueue(c)
  /\ \A c \in Clients : pc[c] \in Logging => group_len \in 1..Len(writers)

\* Scheduling: NoLostWakeup, ManualAlive, and no call but the destructor once
\* shutting_down_ is set.
SchedInv ==
  /\ NoLostWakeup
  /\ ManualAlive
  /\ shutting_down => \A c \in Clients : pc[c] \in {"idle", "close", "closed"}

IndInv == TypeOK /\ JobInv /\ QueueInv /\ SchedInv

-----------------------------------------------------------------------------
(* Facts about the operators. *)

\* Puts counts some of the first n positions.
LEMMA PutsType ==
  ASSUME NEW n \in Nat
  PROVE  Puts(n) \in Nat /\ Puts(n) <= n
<1>1. IsFiniteSet(1..n) /\ Cardinality(1..n) = n
  BY FS_Interval
<1>2. QED
  BY <1>1, FS_Subset, FS_CardinalityType DEF Puts

\* A group's sequence numbers are natural numbers.
LEMMA GroupSeqsType ==
  ASSUME last_sequence \in Nat, group_len \in Nat
  PROVE  /\ GroupSeqs \subseteq Nat
         /\ SyncSeqs \subseteq GroupSeqs
         /\ NewLastSequence \in Nat
<1>1. Puts(group_len) * BatchCount \in Nat
  BY PutsType, WritePathAssumption
<1>2. QED
  BY <1>1 DEF GroupSeqs, SyncSeqs, NewLastSequence

\* Popping a prefix of the queue.
LEMMA PopQueue ==
  ASSUME writers \in Seq(Clients), NEW n \in 1..Len(writers)
  PROVE  LET rest == SubSeq(writers, n + 1, Len(writers)) IN
         /\ rest \in Seq(Clients)
         /\ Len(rest) = Len(writers) - n
         /\ \A i \in 1..Len(rest) : rest[i] = writers[i + n]
  BY SubSeqProperties, LenProperties

\* What a step leaves alone keeps its type.
LEMMA TypeUnchanged ==
  /\ TypeQueue /\ UNCHANGED queueVars => TypeQueue'
  /\ TypeRoom /\ UNCHANGED roomVars => TypeRoom'
  /\ TypeData /\ UNCHANGED dataVars => TypeData'
  /\ TypeLog /\ UNCHANGED logVars => TypeLog'
  /\ TypeJob /\ UNCHANGED jobVars => TypeJob'
  /\ TypeMan /\ UNCHANGED manVars => TypeMan'
  /\ TypeTree /\ UNCHANGED treeVars => TypeTree'
  /\ TypeHist /\ UNCHANGED histVars => TypeHist'
  /\ /\ TypeCtl
     /\ UNCHANGED <<blocked, bgpc, bg_error, shutting_down, ops, faults, samples>>
     => TypeCtl'
  BY DEF TypeQueue, TypeRoom, TypeData, TypeLog, TypeJob, TypeMan, TypeTree,
         TypeHist, TypeCtl, queueVars, roomVars, dataVars, logVars, jobVars,
         manVars, treeVars, histVars

\* FinishWrite pops some of the queue and keeps the types.
LEMMA FinishWriteType ==
  ASSUME TypeQueue, NEW c \in Clients, NEW n \in 1..Len(writers),
         NEW st \in {"ok", "error"}, FinishWrite(c, n, st)
  PROVE  /\ writers' \in Seq(Clients)
         /\ done' \in [Clients -> {"no", "ok", "error"}]
         /\ cv' \subseteq Clients
         /\ mutex' = NoThread
<1>1. writers \in Seq(Clients) /\ Len(writers) \in Nat
  BY DEF TypeQueue
<1>2. \A i \in 1..Len(writers) : writers[i] \in Clients
  BY <1>1
<1>3. writers' \in Seq(Clients)
  BY <1>1, PopQueue DEF FinishWrite
<1>4. done' \in [Clients -> {"no", "ok", "error"}]
  BY DEF FinishWrite, TypeQueue
<1>5. /\ {writers[i] : i \in 1..n} \subseteq Clients
      /\ n < Len(writers) => writers[n + 1] \in Clients
  BY <1>1, <1>2
<1>6. cv' \subseteq Clients
  <2> DEFINE group == {writers[i] : i \in 1..n}
             next == IF n < Len(writers) THEN {writers[n + 1]} ELSE {}
  <2>1. group \subseteq Clients /\ next \subseteq Clients
    BY <1>5
  <2>2. cv' = (cv \cup (group \ {c})) \cup next
    BY DEF FinishWrite
  <2>3. cv \subseteq Clients
    BY DEF TypeQueue
  <2> HIDE DEF group, next
  <2> QED
    BY <2>1, <2>2, <2>3
<1> QED
  BY <1>3, <1>4, <1>6 DEF FinishWrite

\* PickCompaction names numbers of files level 0 has.
LEMMA PickCompactionType ==
  ASSUME level0 \in Nat
  PROVE  PickCompaction \subseteq 0..level0
  BY DEF PickCompaction

\* Every step keeps the types: one step per action, and under it one for
\* each part of TypeOK that has variables the action changes.
LEMMA TypeStep ==
  ASSUME IndInv, Next
  PROVE  TypeOK'
<1> USE DEF queueVars, roomVars, dataVars, logVars, jobVars, manVars,
        treeVars, histVars, clientVars
<1>0. TypeOK /\ JobInv /\ QueueInv /\ ManualAlive
  BY DEF IndInv, SchedInv
<1>1. ASSUME NEW c \in Clients, NEW o \in AllOps, StartWrite(c, o) PROVE TypeOK'
  <2>1. pc' \in [Clients -> Pcs]
    BY <1>0, <1>1
    DEF TypeOK, TypeQueue, StartWrite, Pcs, Busy
  <2>2. done' \in [Clients -> {"no", "ok", "error"}]
    BY <1>0, <1>1
    DEF TypeOK, TypeQueue, StartWrite
  <2>3. force' \in BOOLEAN /\ allow_delay' \in BOOLEAN
    BY <1>0, <1>1
    DEF TypeOK, TypeRoom, StartWrite
  <2>4. writers' \in Seq(Clients)
    BY <1>0, <1>1
    DEF TypeOK, TypeQueue, StartWrite
  <2>5. /\ op' \in [Clients -> AllOps]
        /\ callseq' \in [Clients -> Nat]
        /\ ops' \in Nat
    BY <1>0, <1>1
    DEF TypeOK, TypeQueue, TypeHist, TypeCtl, StartWrite, Start, TypeData
  <2>6. mutex' \in Clients \cup {NoThread}
    BY <1>0, <1>1
    DEF TypeOK, TypeQueue, StartWrite
  <2>7. UNCHANGED <<cv, group_len, status, dataVars, logVars, jobVars, manVars,
                  treeVars, acked, acksync, flushed, blocked, bgpc, bg_error,
                  shutting_down, faults, samples>>
    BY <1>1 DEF StartWrite
  <2>8. TypeQueue'
    BY <1>0, <2>1, <2>2, <2>4, <2>5, <2>6, <2>7 DEF TypeOK, TypeQueue
  <2>9. TypeRoom'
    BY <1>0, <2>3, <2>7 DEF TypeOK, TypeRoom
  <2>10. TypeHist'
    BY <1>0, <2>5, <2>7 DEF TypeOK, TypeHist
  <2>11. TypeCtl'
    BY <1>0, <2>5, <2>7 DEF TypeOK, TypeCtl
  <2> QED
    BY <1>0, <2>7, <2>8, <2>9, <2>10, <2>11, TypeUnchanged DEF TypeOK
<1>2. ASSUME NEW c \in Clients, StartRange(c) PROVE TypeOK'
  <2>1. pc' \in [Clients -> Pcs]
    BY <1>0, <1>2
    DEF TypeOK, TypeQueue, StartRange, Pcs, Busy
  <2>2. op' \in [Clients -> AllOps] /\ ops' \in Nat
    BY <1>0, <1>2
    DEF TypeOK, TypeQueue, TypeCtl, StartRange, Start, AllOps
  <2>3. manual_done' \subseteq Clients /\ rounds' \in [Clients -> Nat]
    BY <1>0, <1>2, WritePathAssumption
    DEF TypeOK, TypeMan, StartRange
  <2>4. UNCHANGED <<writers, done, cv, mutex, roomVars, dataVars, logVars,
                  jobVars, manual_compaction, treeVars, histVars, blocked,
                  bgpc, bg_error, shutting_down, faults, samples>>
    BY <1>2 DEF StartRange
  <2>5. TypeQueue'
    BY <1>0, <2>1, <2>2, <2>4 DEF TypeOK, TypeQueue
  <2>6. TypeMan'
    BY <1>0, <2>3, <2>4 DEF TypeOK, TypeMan
  <2>7. TypeCtl'
    BY <1>0, <2>2, <2>4 DEF TypeOK, TypeCtl
  <2> QED
    BY <1>0, <2>4, <2>5, <2>6, <2>7, TypeUnchanged DEF TypeOK
<1>3. ASSUME NEW c \in Clients, StartClose(c) PROVE TypeOK'
  <2>1. pc' \in [Clients -> Pcs]
    BY <1>0, <1>3
    DEF TypeOK, TypeQueue, StartClose, Pcs, Busy
  <2>2. op' \in [Clients -> AllOps] /\ ops' \in Nat
    BY <1>0, <1>3
    DEF TypeOK, TypeQueue, TypeCtl, StartClose, Start, AllOps
  <2>3. shutting_down' \in BOOLEAN
    BY <1>0, <1>3
    DEF TypeOK, TypeCtl, StartClose
  <2>4. UNCHANGED <<writers, done, cv, mutex, roomVars, dataVars, logVars,
                  jobVars, manVars, treeVars, histVars, blocked, bgpc,
                  bg_error, faults, samples>>
    BY <1>3 DEF StartClose
  <2>5. TypeQueue'
    BY <1>0, <2>1, <2>2, <2>4 DEF TypeOK, TypeQueue
  <2>6. TypeCtl'
    BY <1>0, <2>2, <2>3, <2>4 DEF TypeOK, TypeCtl
  <2> QED
    BY <1>0, <2>4, <2>5, <2>6, TypeUnchanged DEF TypeOK
<1>4. ASSUME NEW c \in Clients, WakeWriter(c) PROVE TypeOK'
  <2>1. pc' \in [Clients -> Pcs]
    BY <1>0, <1>4
    DEF TypeOK, TypeQueue, WakeWriter, Pcs, Busy
  <2>2. mutex' \in Clients \cup {NoThread} /\ cv' \subseteq Clients
    BY <1>0, <1>4
    DEF TypeOK, TypeQueue, WakeWriter
  <2>3. force' \in BOOLEAN /\ allow_delay' \in BOOLEAN
    BY <1>0, <1>4
    DEF TypeOK, TypeRoom, WakeWriter, Null
  <2>4. UNCHANGED <<writers, op, done, group_len, status, dataVars, logVars,
                  jobVars, manVars, treeVars, histVars, blocked, bgpc,
                  bg_error, shutting_down, ops, faults, samples>>
    BY <1>4 DEF WakeWriter
  <2>5. TypeQueue'
    BY <1>0, <2>1, <2>2, <2>4 DEF TypeOK, TypeQueue
  <2>6. TypeRoom'
    BY <1>0, <2>3, <2>4 DEF TypeOK, TypeRoom
  <2> QED
    BY <1>0, <2>4, <2>5, <2>6, TypeUnchanged DEF TypeOK
<1>5. ASSUME NEW c \in Clients, RoomError(c) PROVE TypeOK'
  <2>1. pc' \in [Clients -> Pcs]
    BY <1>0, <1>5
    DEF TypeOK, TypeQueue, RoomError, FinishWrite, Pcs, Busy
  <2>2. /\ writers' \in Seq(Clients)
        /\ done' \in [Clients -> {"no", "ok", "error"}]
        /\ cv' \subseteq Clients
        /\ mutex' \in Clients \cup {NoThread}
    BY <1>0, <1>5, FinishWriteType
    DEF TypeOK, TypeQueue, RoomError, InRoom, CanSwitch, QueueInv, Busy
  <2>3. UNCHANGED <<op, roomVars, dataVars, logVars, jobVars, manVars,
                  treeVars, histVars, blocked, bgpc, bg_error, shutting_down,
                  ops, faults, samples>>
    BY <1>5 DEF RoomError, FinishWrite
  <2>4. TypeQueue'
    BY <1>0, <2>1, <2>2, <2>3 DEF TypeOK, TypeQueue
  <2> QED
    BY <1>0, <2>3, <2>4, TypeUnchanged DEF TypeOK
<1>6. ASSUME NEW c \in Clients, RoomDelay(c) PROVE TypeOK'
  <2>1. pc' \in [Clients -> Pcs]
    BY <1>0, <1>6
    DEF TypeOK, TypeQueue, RoomDelay, Pcs, Busy
  <2>2. allow_delay' \in BOOLEAN /\ mutex' \in Clients \cup {NoThread}
    BY <1>0, <1>6
    DEF TypeOK, TypeQueue, TypeRoom, RoomDelay
  <2>3. UNCHANGED <<writers, op, done, cv, force, group_len, status, dataVars,
                  logVars, jobVars, manVars, treeVars, histVars, blocked,
                  bgpc, bg_error, shutting_down, ops, faults, samples>>
    BY <1>6 DEF RoomDelay
  <2>4. TypeQueue'
    BY <1>0, <2>1, <2>2, <2>3 DEF TypeOK, TypeQueue
  <2>5. TypeRoom'
    BY <1>0, <2>2, <2>3 DEF TypeOK, TypeRoom
  <2> QED
    BY <1>0, <2>3, <2>4, <2>5, TypeUnchanged DEF TypeOK
<1>7. ASSUME NEW c \in Clients, DelayOver(c) PROVE TypeOK'
  <2>1. pc' \in [Clients -> Pcs]
    BY <1>0, <1>7
    DEF TypeOK, TypeQueue, DelayOver, Pcs, Busy
  <2>2. mutex' \in Clients \cup {NoThread}
    BY <1>0, <1>7
    DEF TypeOK, TypeQueue, DelayOver
  <2>3. UNCHANGED <<writers, op, done, cv, roomVars, dataVars, logVars,
                  jobVars, manVars, treeVars, histVars, blocked, bgpc,
                  bg_error, shutting_down, ops, faults, samples>>
    BY <1>7 DEF DelayOver
  <2>4. TypeQueue'
    BY <1>0, <2>1, <2>2, <2>3 DEF TypeOK, TypeQueue
  <2> QED
    BY <1>0, <2>3, <2>4, TypeUnchanged DEF TypeOK
<1>8. ASSUME NEW c \in Clients, RoomFound(c) PROVE TypeOK'
  <2>1. pc' \in [Clients -> Pcs]
    BY <1>0, <1>8
    DEF TypeOK, TypeQueue, RoomFound, FinishWrite, Pcs, Busy
  <2>2. /\ writers' \in Seq(Clients)
        /\ done' \in [Clients -> {"no", "ok", "error"}]
        /\ cv' \subseteq Clients
        /\ mutex' \in Clients \cup {NoThread}
    BY <1>0, <1>8, FinishWriteType
    DEF TypeOK, TypeQueue, RoomFound, InRoom, CanSwitch, QueueInv, Busy
  <2>3. group_len' \in Nat
    BY <1>0, <1>8
    DEF TypeOK, TypeRoom, RoomFound
  <2>4. UNCHANGED <<op, force, allow_delay, status, dataVars, logVars, jobVars,
                  manVars, treeVars, histVars, blocked, bgpc, bg_error,
                  shutting_down, ops, faults, samples>>
    BY <1>8 DEF RoomFound, FinishWrite
  <2>5. TypeQueue'
    BY <1>0, <2>1, <2>2, <2>4 DEF TypeOK, TypeQueue
  <2>6. TypeRoom'
    BY <1>0, <2>3, <2>4 DEF TypeOK, TypeRoom
  <2> QED
    BY <1>0, <2>4, <2>5, <2>6, TypeUnchanged DEF TypeOK
<1>9. ASSUME NEW c \in Clients, RoomWait(c) PROVE TypeOK'
  <2>1. blocked' \subseteq Clients /\ mutex' \in Clients \cup {NoThread}
    BY <1>0, <1>9
    DEF TypeOK, TypeQueue, TypeCtl, RoomWait
  <2>2. UNCHANGED <<writers, pc, op, done, cv, roomVars, dataVars, logVars,
                  jobVars, manVars, treeVars, histVars, bgpc, bg_error,
                  shutting_down, ops, faults, samples>>
    BY <1>9 DEF RoomWait
  <2>3. TypeQueue'
    BY <1>0, <2>1, <2>2 DEF TypeOK, TypeQueue
  <2>4. TypeCtl'
    BY <1>0, <2>1, <2>2 DEF TypeOK, TypeCtl
  <2> QED
    BY <1>0, <2>2, <2>3, <2>4, TypeUnchanged DEF TypeOK
<1>10. ASSUME NEW c \in Clients, RoomSwitch(c) PROVE TypeOK'
  <2>1. logfile_number' \in Nat /\ logfiles' \subseteq Nat
    BY <1>0, <1>10
    DEF TypeOK, TypeLog, RoomSwitch
  <2>2. /\ imm' \subseteq Nat
        /\ mem' \subseteq Nat
        /\ has_imm' \in BOOLEAN
    BY <1>0, <1>10
    DEF TypeOK, TypeData, RoomSwitch
  <2>3. force' \in BOOLEAN /\ mutex' \in Clients \cup {NoThread}
    BY <1>0, <1>10
    DEF TypeOK, TypeQueue, TypeRoom, RoomSwitch
  <2>4. blocked' \subseteq Clients
    BY <1>0, <1>10
    DEF TypeOK, TypeCtl, RoomSwitch, RecordBackgroundError
  <2>5. bg_error' \in BOOLEAN
    BY <1>0, <1>10
    DEF TypeOK, TypeCtl, RoomSwitch, RecordBackgroundError
  <2>6. faults' \in Nat
    BY <1>0, <1>10
    DEF TypeOK, TypeCtl, RoomSwitch, Fault
  <2>7. bgpc' \in BgPcs
    BY <1>0, <1>10
    DEF TypeOK, TypeCtl, RoomSwitch, MaybeScheduleCompaction, BgPcs
  <2>8. UNCHANGED <<writers, pc, op, done, cv, allow_delay, group_len, status,
                  tables, last_sequence, log_number, logrec, synced, jobVars,
                  manVars, treeVars, histVars, shutting_down, ops, samples>>
    BY <1>10 DEF RoomSwitch
  <2>9. TypeQueue'
    BY <1>0, <2>3, <2>8 DEF TypeOK, TypeQueue
  <2>10. TypeRoom'
    BY <1>0, <2>3, <2>8 DEF TypeOK, TypeRoom
  <2>11. TypeData'
    BY <1>0, <2>2, <2>8 DEF TypeOK, TypeData
  <2>12. TypeLog'
    BY <1>0, <2>1, <2>8 DEF TypeOK, TypeLog
  <2>13. TypeCtl'
    BY <1>0, <2>4, <2>5, <2>6, <2>7, <2>8 DEF TypeOK, TypeCtl
  <2> QED
    BY <1>0, <2>8, <2>9, <2>10, <2>11, <2>12, <2>13, TypeUnchanged DEF TypeOK
<1>11. ASSUME NEW c \in Clients, RoomSwitchFails(c) PROVE TypeOK'
  <2>1. pc' \in [Clients -> Pcs]
    BY <1>0, <1>11
    DEF TypeOK, TypeQueue, RoomSwitchFails, FinishWrite, Pcs, Busy
  <2>2. /\ writers' \in Seq(Clients)
        /\ done' \in [Clients -> {"no", "ok", "error"}]
        /\ cv' \subseteq Clients
        /\ mutex' \in Clients \cup {NoThread}
    BY <1>0, <1>11, FinishWriteType
    DEF TypeOK, TypeQueue, RoomSwitchFails, InRoom, CanSwitch, QueueInv,
        Busy
  <2>3. faults' \in Nat
    BY <1>0, <1>11
    DEF TypeOK, TypeCtl, RoomSwitchFails, Fault
  <2>4. UNCHANGED <<op, roomVars, dataVars, logVars, jobVars, manVars,
                  treeVars, histVars, blocked, bgpc, bg_error, shutting_down,
                  ops, samples>>
    BY <1>11 DEF RoomSwitchFails, FinishWrite
  <2>5. TypeQueue'
    BY <1>0, <2>1, <2>2, <2>4 DEF TypeOK, TypeQueue
  <2>6. TypeCtl'
    BY <1>0, <2>3, <2>4 DEF TypeOK, TypeCtl
  <2> QED
    BY <1>0, <2>4, <2>5, <2>6, TypeUnchanged DEF TypeOK
<1>12. ASSUME NEW c \in Clients, AddRecord(c) PROVE TypeOK'
  <2>1. pc' \in [Clients -> Pcs]
    BY <1>0, <1>12
    DEF TypeOK, TypeQueue, AddRecord, Pcs, Busy
  <2>2. logrec' \subseteq Nat \X Nat /\ synced' \subseteq logrec'
    BY <1>0, <1>12, GroupSeqsType
    DEF TypeOK, TypeLog, AddRecord, TypeData, TypeRoom
  <2>3. status' \in {"ok", "error", "syncerror"}
    BY <1>0, <1>12
    DEF TypeOK, TypeRoom, AddRecord
  <2>4. faults' \in Nat
    BY <1>0, <1>12
    DEF TypeOK, TypeCtl, AddRecord, Fault
  <2>5. UNCHANGED <<writers, op, done, cv, mutex, force, allow_delay,
                  group_len, dataVars, logfile_number, log_number, logfiles,
                  jobVars, manVars, treeVars, histVars, blocked, bgpc,
                  bg_error, shutting_down, ops, samples>>
    BY <1>12 DEF AddRecord
  <2>6. TypeQueue'
    BY <1>0, <2>1, <2>5 DEF TypeOK, TypeQueue
  <2>7. TypeRoom'
    BY <1>0, <2>3, <2>5 DEF TypeOK, TypeRoom
  <2>8. TypeLog'
    BY <1>0, <2>2, <2>5 DEF TypeOK, TypeLog
  <2>9. TypeCtl'
    BY <1>0, <2>4, <2>5 DEF TypeOK, TypeCtl
  <2> QED
    BY <1>0, <2>5, <2>6, <2>7, <2>8, <2>9, TypeUnchanged DEF TypeOK
<1>13. ASSUME NEW c \in Clients, SyncLog(c) PROVE TypeOK'
  <2>1. pc' \in [Clients -> Pcs]
    BY <1>0, <1>13
    DEF TypeOK, TypeQueue, SyncLog, Pcs, Busy
  <2>2. synced' \subseteq logrec'
    BY <1>0, <1>13
    DEF TypeOK, TypeLog, SyncLog
  <2>3. status' \in {"ok", "error", "syncerror"}
    BY <1>0, <1>13
    DEF TypeOK, TypeRoom, SyncLog
  <2>4. faults' \in Nat
    BY <1>0, <1>13
    DEF TypeOK, TypeCtl, SyncLog, Fault
  <2>5. UNCHANGED <<writers, op, done, cv, mutex, force, allow_delay,
                  group_len, dataVars, logfile_number, log_number, logfiles,
                  logrec, jobVars, manVars, treeVars, histVars, blocked,
                  bgpc, bg_error, shutting_down, ops, samples>>
    BY <1>13 DEF SyncLog
  <2>6. TypeQueue'
    BY <1>0, <2>1, <2>5 DEF TypeOK, TypeQueue
  <2>7. TypeRoom'
    BY <1>0, <2>3, <2>5 DEF TypeOK, TypeRoom
  <2>8. TypeLog'
    BY <1>0, <2>2, <2>5 DEF TypeOK, TypeLog
  <2>9. TypeCtl'
    BY <1>0, <2>4, <2>5 DEF TypeOK, TypeCtl
  <2> QED
    BY <1>0, <2>5, <2>6, <2>7, <2>8, <2>9, TypeUnchanged DEF TypeOK
<1>14. ASSUME NEW c \in Clients, InsertInto(c) PROVE TypeOK'
  <2>1. pc' \in [Clients -> Pcs]
    BY <1>0, <1>14
    DEF TypeOK, TypeQueue, InsertInto, Pcs, Busy
  <2>2. mem' \subseteq Nat
    BY <1>0, <1>14, GroupSeqsType
    DEF TypeOK, TypeData, InsertInto, TypeRoom, TypeLog
  <2>3. UNCHANGED <<writers, op, done, cv, mutex, roomVars, imm, has_imm,
                  tables, last_sequence, logVars, jobVars, manVars, treeVars,
                  histVars, blocked, bgpc, bg_error, shutting_down, ops,
                  faults, samples>>
    BY <1>14 DEF InsertInto
  <2>4. TypeQueue'
    BY <1>0, <2>1, <2>3 DEF TypeOK, TypeQueue
  <2>5. TypeData'
    BY <1>0, <2>2, <2>3 DEF TypeOK, TypeData
  <2> QED
    BY <1>0, <2>3, <2>4, <2>5, TypeUnchanged DEF TypeOK
<1>15. ASSUME NEW c \in Clients, Commit(c) PROVE TypeOK'
  <2>1. pc' \in [Clients -> Pcs]
    BY <1>0, <1>15
    DEF TypeOK, TypeQueue, Commit, FinishWrite, Pcs, Busy
  <2>2. /\ writers' \in Seq(Clients)
        /\ done' \in [Clients -> {"no", "ok", "error"}]
        /\ cv' \subseteq Clients
        /\ mutex' \in Clients \cup {NoThread}
    BY <1>0, <1>15, FinishWriteType
    DEF TypeOK, TypeQueue, Commit, QueueInv, Logging, TypeRoom
  <2>3. bg_error' \in BOOLEAN
    BY <1>0, <1>15
    DEF TypeOK, TypeCtl, Commit, RecordBackgroundError
  <2>4. blocked' \subseteq Clients
    BY <1>0, <1>15
    DEF TypeOK, TypeCtl, Commit, RecordBackgroundError
  <2>5. /\ last_sequence' \in Nat
        /\ acked' \subseteq Nat
        /\ acksync' \subseteq acked'
        /\ group_len' \in Nat
    BY <1>0, <1>15, GroupSeqsType
    DEF TypeOK, TypeRoom, TypeData, TypeHist, Commit, TypeLog
  <2>6. UNCHANGED <<op, force, allow_delay, status, mem, imm, has_imm, tables,
                  logVars, jobVars, manVars, treeVars, callseq, flushed,
                  bgpc, shutting_down, ops, faults, samples>>
    BY <1>15 DEF Commit, FinishWrite
  <2>7. TypeQueue'
    BY <1>0, <2>1, <2>2, <2>6 DEF TypeOK, TypeQueue
  <2>8. TypeRoom'
    BY <1>0, <2>5, <2>6 DEF TypeOK, TypeRoom
  <2>9. TypeData'
    BY <1>0, <2>5, <2>6 DEF TypeOK, TypeData
  <2>10. TypeHist'
    BY <1>0, <2>5, <2>6 DEF TypeOK, TypeHist
  <2>11. TypeCtl'
    BY <1>0, <2>3, <2>4, <2>6 DEF TypeOK, TypeCtl
  <2> QED
    BY <1>0, <2>6, <2>7, <2>8, <2>9, <2>10, <2>11, TypeUnchanged DEF TypeOK
<1>16. ASSUME NEW c \in Clients, FlushWait(c) PROVE TypeOK'
  <2>1. pc' \in [Clients -> Pcs]
    BY <1>0, <1>16
    DEF TypeOK, TypeQueue, FlushWait, Pcs, Busy
  <2>2. blocked' \subseteq Clients /\ flushed' \in Nat
    BY <1>0, <1>16
    DEF TypeOK, TypeHist, TypeCtl, FlushWait, Waits
  <2>3. UNCHANGED <<writers, op, done, cv, mutex, roomVars, dataVars, logVars,
                  jobVars, manVars, treeVars, acked, acksync, callseq, bgpc,
                  bg_error, shutting_down, ops, faults, samples>>
    BY <1>16 DEF FlushWait, Waits
  <2>4. TypeQueue'
    BY <1>0, <2>1, <2>3 DEF TypeOK, TypeQueue
  <2>5. TypeHist'
    BY <1>0, <2>2, <2>3 DEF TypeOK, TypeHist
  <2>6. TypeCtl'
    BY <1>0, <2>2, <2>3 DEF TypeOK, TypeCtl
  <2> QED
    BY <1>0, <2>3, <2>4, <2>5, <2>6, TypeUnchanged DEF TypeOK
<1>17. ASSUME NEW c \in Clients, RangeWait(c) PROVE TypeOK'
  <2>1. pc' \in [Clients -> Pcs]
    BY <1>0, <1>17
    DEF TypeOK, TypeQueue, RangeWait, Pcs, Busy
  <2>2. /\ blocked' \subseteq Clients
        /\ manual_compaction' \in Clients \cup {NoThread}
    BY <1>0, <1>17
    DEF TypeOK, TypeMan, TypeCtl, RangeWait, Waits
  <2>3. bgpc' \in BgPcs
    BY <1>0, <1>17
    DEF TypeOK, TypeCtl, RangeWait, MaybeScheduleCompaction, BgPcs
  <2>4. UNCHANGED <<writers, op, done, cv, mutex, roomVars, dataVars, logVars,
                  jobVars, manual_done, rounds, treeVars, histVars, bg_error,
                  shutting_down, ops, faults, samples>>
    BY <1>17 DEF RangeWait, Waits
  <2>5. TypeQueue'
    BY <1>0, <2>1, <2>4 DEF TypeOK, TypeQueue
  <2>6. TypeMan'
    BY <1>0, <2>2, <2>4 DEF TypeOK, TypeMan
  <2>7. TypeCtl'
    BY <1>0, <2>2, <2>3, <2>4 DEF TypeOK, TypeCtl
  <2> QED
    BY <1>0, <2>4, <2>5, <2>6, <2>7, TypeUnchanged DEF TypeOK
<1>18. ASSUME NEW c \in Clients, CloseWait(c) PROVE TypeOK'
  <2>1. pc' \in [Clients -> Pcs]
    BY <1>0, <1>18
    DEF TypeOK, TypeQueue, CloseWait, Pcs, Busy
  <2>2. blocked' \subseteq Clients
    BY <1>0, <1>18
    DEF TypeOK, TypeCtl, CloseWait, Waits
  <2>3. UNCHANGED <<writers, op, done, cv, mutex, roomVars, dataVars, logVars,
                  jobVars, manVars, treeVars, histVars, bgpc, bg_error,
                  shutting_down, ops, faults, samples>>
    BY <1>18 DEF CloseWait, Waits
  <2>4. TypeQueue'
    BY <1>0, <2>1, <2>3 DEF TypeOK, TypeQueue
  <2>5. TypeCtl'
    BY <1>0, <2>2, <2>3 DEF TypeOK, TypeCtl
  <2> QED
    BY <1>0, <2>3, <2>4, <2>5, TypeUnchanged DEF TypeOK
<1>19. ASSUME RecordReadSample PROVE TypeOK'
  <2>1. samples' \in Nat /\ file_to_compact' \in BOOLEAN
    BY <1>0, <1>19
    DEF TypeOK, TypeTree, TypeCtl, RecordReadSample
  <2>2. bgpc' \in BgPcs
    BY <1>0, <1>19
    DEF TypeOK, TypeCtl, RecordReadSample, MaybeScheduleCompaction, BgPcs
  <2>3. UNCHANGED <<queueVars, roomVars, dataVars, logVars, jobVars, manVars,
                  level0, deeper, histVars, blocked, bg_error, shutting_down,
                  ops, faults>>
    BY <1>19 DEF RecordReadSample
  <2>4. TypeTree'
    BY <1>0, <2>1, <2>3 DEF TypeOK, TypeTree
  <2>5. TypeCtl'
    BY <1>0, <2>1, <2>2, <2>3 DEF TypeOK, TypeCtl
  <2> QED
    BY <1>0, <2>3, <2>4, <2>5, TypeUnchanged DEF TypeOK
<1>20. ASSUME BackgroundCall PROVE TypeOK'
  <2>1. bgpc' \in BgPcs
    BY <1>0, <1>20
    DEF TypeOK, TypeCtl, BackgroundCall, BackgroundCallEnds, BgPcs
  <2>2. nested' \in BOOLEAN /\ is_manual' \in BOOLEAN
    BY <1>0, <1>20
    DEF TypeOK, TypeJob, BackgroundCall
  <2>3. /\ blocked' \subseteq Clients
        /\ edit_log' \in Nat
        /\ deletions' \subseteq Nat
    BY <1>0, <1>20
    DEF TypeOK, TypeJob, TypeCtl, BackgroundCall, BackgroundCallEnds
  <2>4. inputs0' \in Nat
    BY <1>0, <1>20, PickCompactionType
    DEF TypeOK, TypeJob, BackgroundCall, TypeTree
  <2>5. /\ manual_compaction' \in Clients \cup {NoThread}
        /\ manual_done' \subseteq Clients
    BY <1>0, <1>20
    DEF TypeOK, TypeMan, BackgroundCall
  <2>6. rounds' \in [Clients -> Nat]
    BY <1>0, <1>20
    DEF TypeOK, TypeMan, BackgroundCall
  <2>7. UNCHANGED <<queueVars, roomVars, dataVars, logVars, treeVars, histVars,
                  bg_error, shutting_down, ops, faults, samples>>
    BY <1>20 DEF BackgroundCall
  <2>8. TypeJob'
    BY <1>0, <2>2, <2>3, <2>4, <2>7 DEF TypeOK, TypeJob
  <2>9. TypeMan'
    BY <1>0, <2>5, <2>6, <2>7 DEF TypeOK, TypeMan
  <2>10. TypeCtl'
    BY <1>0, <2>1, <2>3, <2>7 DEF TypeOK, TypeCtl
  <2> QED
    BY <1>0, <2>7, <2>8, <2>9, <2>10, TypeUnchanged DEF TypeOK
<1>21. ASSUME CompactImmFirst PROVE TypeOK'
  <2>1. bgpc' \in BgPcs /\ nested' \in BOOLEAN
    BY <1>0, <1>21
    DEF TypeOK, TypeJob, TypeCtl, CompactImmFirst, BgPcs
  <2>2. UNCHANGED <<queueVars, roomVars, dataVars, logVars, is_manual,
                  edit_log, inputs0, deletions, manVars, treeVars, histVars,
                  blocked, bg_error, shutting_down, ops, faults, samples>>
    BY <1>21 DEF CompactImmFirst
  <2>3. TypeJob'
    BY <1>0, <2>1, <2>2 DEF TypeOK, TypeJob
  <2>4. TypeCtl'
    BY <1>0, <2>1, <2>2 DEF TypeOK, TypeCtl
  <2> QED
    BY <1>0, <2>2, <2>3, <2>4, TypeUnchanged DEF TypeOK
<1>22. ASSUME TableBuilt PROVE TypeOK'
  <2>1. bgpc' \in BgPcs /\ edit_log' \in Nat
    BY <1>0, <1>22
    DEF TypeOK, TypeJob, TypeCtl, TableBuilt, BgPcs, EditLogNumber, TypeLog
  <2>2. UNCHANGED <<queueVars, roomVars, dataVars, logVars, nested, is_manual,
                  inputs0, deletions, manVars, treeVars, histVars, blocked,
                  bg_error, shutting_down, ops, faults, samples>>
    BY <1>22 DEF TableBuilt
  <2>3. TypeJob'
    BY <1>0, <2>1, <2>2 DEF TypeOK, TypeJob
  <2>4. TypeCtl'
    BY <1>0, <2>1, <2>2 DEF TypeOK, TypeCtl
  <2> QED
    BY <1>0, <2>2, <2>3, <2>4, TypeUnchanged DEF TypeOK
<1>23. ASSUME CompactMemTableFails PROVE TypeOK'
  <2>1. bgpc' \in BgPcs
    BY <1>0, <1>23
    DEF TypeOK, TypeCtl, CompactMemTableFails, CompactMemTableReturns,
        BackgroundCallEnds, BgPcs
  <2>2. nested' \in BOOLEAN
    BY <1>0, <1>23
    DEF TypeOK, TypeJob, CompactMemTableFails, CompactMemTableReturns
  <2>3. blocked' \subseteq Clients
    BY <1>0, <1>23
    DEF TypeOK, TypeCtl, CompactMemTableFails, CompactMemTableReturns,
        BackgroundCallEnds
  <2>4. bg_error' \in BOOLEAN
    BY <1>0, <1>23
    DEF TypeOK, TypeCtl, CompactMemTableFails
  <2>5. faults' \in Nat
    BY <1>0, <1>23
    DEF TypeOK, TypeCtl, CompactMemTableFails, Fault
  <2>6. UNCHANGED <<queueVars, roomVars, dataVars, logVars, is_manual,
                  edit_log, inputs0, deletions, manVars, treeVars, histVars,
                  shutting_down, ops, samples>>
    BY <1>23 DEF CompactMemTableFails
  <2>7. TypeJob'
    BY <1>0, <2>2, <2>6 DEF TypeOK, TypeJob
  <2>8. TypeCtl'
    BY <1>0, <2>1, <2>3, <2>4, <2>5, <2>6 DEF TypeOK, TypeCtl
  <2> QED
    BY <1>0, <2>6, <2>7, <2>8, TypeUnchanged DEF TypeOK
<1>24. ASSUME InstallMemTable PROVE TypeOK'
  <2>1. bgpc' \in BgPcs
    BY <1>0, <1>24
    DEF TypeOK, TypeCtl, InstallMemTable, CompactMemTableReturns,
        BackgroundCallEnds, BgPcs
  <2>2. nested' \in BOOLEAN
    BY <1>0, <1>24
    DEF TypeOK, TypeJob, InstallMemTable, CompactMemTableReturns
  <2>3. blocked' \subseteq Clients
    BY <1>0, <1>24
    DEF TypeOK, TypeCtl, InstallMemTable, CompactMemTableReturns,
        BackgroundCallEnds
  <2>4. /\ tables' \subseteq Nat
        /\ imm' \subseteq Nat
        /\ has_imm' \in BOOLEAN
        /\ log_number' \in Nat
    BY <1>0, <1>24
    DEF TypeOK, TypeData, TypeLog, InstallMemTable, TypeJob
  <2>5. level0' \in Nat /\ deeper' \in Nat
    BY <1>0, <1>24
    DEF TypeOK, TypeTree, InstallMemTable
  <2>6. file_to_compact' \in BOOLEAN
    BY <1>0, <1>24
    DEF TypeOK, TypeTree, InstallMemTable, NewVersion
  <2>7. deletions' \subseteq Nat
    BY <1>0, <1>24
    DEF TypeOK, TypeJob, InstallMemTable, ObsoleteLogs, TypeLog
  <2>8. UNCHANGED <<queueVars, roomVars, mem, last_sequence, logfile_number,
                  logfiles, logrec, synced, is_manual, edit_log, inputs0,
                  manVars, histVars, bg_error, shutting_down, ops, faults,
                  samples>>
    BY <1>24 DEF InstallMemTable
  <2>9. TypeData'
    BY <1>0, <2>4, <2>8 DEF TypeOK, TypeData
  <2>10. TypeLog'
    BY <1>0, <2>4, <2>8 DEF TypeOK, TypeLog
  <2>11. TypeJob'
    BY <1>0, <2>2, <2>7, <2>8 DEF TypeOK, TypeJob
  <2>12. TypeTree'
    BY <1>0, <2>5, <2>6, <2>8 DEF TypeOK, TypeTree
  <2>13. TypeCtl'
    BY <1>0, <2>1, <2>3, <2>8 DEF TypeOK, TypeCtl
  <2> QED
    BY <1>0, <2>8, <2>9, <2>10, <2>11, <2>12, <2>13, TypeUnchanged DEF TypeOK
<1>25. ASSUME RemoveObsoleteFiles PROVE TypeOK'
  <2>1. bgpc' \in BgPcs
    BY <1>0, <1>25
    DEF TypeOK, TypeCtl, RemoveObsoleteFiles, CompactMemTableReturns,
        BackgroundCallEnds, BgPcs
  <2>2. nested' \in BOOLEAN
    BY <1>0, <1>25
    DEF TypeOK, TypeJob, RemoveObsoleteFiles, CompactMemTableReturns
  <2>3. blocked' \subseteq Clients
    BY <1>0, <1>25
    DEF TypeOK, TypeCtl, RemoveObsoleteFiles, CompactMemTableReturns,
        BackgroundCallEnds
  <2>4. logfiles' \subseteq Nat /\ deletions' \subseteq Nat
    BY <1>0, <1>25
    DEF TypeOK, TypeLog, TypeJob, RemoveObsoleteFiles
  <2>5. /\ manual_compaction' \in Clients \cup {NoThread}
        /\ manual_done' \subseteq Clients
    BY <1>0, <1>25
    DEF TypeOK, TypeMan, RemoveObsoleteFiles, ManualEnds
  <2>6. UNCHANGED <<queueVars, roomVars, dataVars, logfile_number, log_number,
                  logrec, synced, is_manual, edit_log, inputs0, rounds,
                  treeVars, histVars, bg_error, shutting_down, ops, faults,
                  samples>>
    BY <1>25 DEF RemoveObsoleteFiles
  <2>7. TypeLog'
    BY <1>0, <2>4, <2>6 DEF TypeOK, TypeLog
  <2>8. TypeJob'
    BY <1>0, <2>2, <2>4, <2>6 DEF TypeOK, TypeJob
  <2>9. TypeMan'
    BY <1>0, <2>5, <2>6 DEF TypeOK, TypeMan
  <2>10. TypeCtl'
    BY <1>0, <2>1, <2>3, <2>6 DEF TypeOK, TypeCtl
  <2> QED
    BY <1>0, <2>6, <2>7, <2>8, <2>9, <2>10, TypeUnchanged DEF TypeOK
<1>26. ASSUME CompactionDone PROVE TypeOK'
  <2>1. bgpc' \in BgPcs
    BY <1>0, <1>26
    DEF TypeOK, TypeCtl, CompactionDone, BgPcs
  <2>2. UNCHANGED <<queueVars, roomVars, dataVars, logVars, jobVars, manVars,
                  treeVars, histVars, blocked, bg_error, shutting_down, ops,
                  faults, samples>>
    BY <1>26 DEF CompactionDone
  <2>3. TypeCtl'
    BY <1>0, <2>1, <2>2 DEF TypeOK, TypeCtl
  <2> QED
    BY <1>0, <2>2, <2>3, TypeUnchanged DEF TypeOK
<1>27. ASSUME CompactionFails PROVE TypeOK'
  <2>1. bgpc' \in BgPcs /\ blocked' \subseteq Clients
    BY <1>0, <1>27
    DEF TypeOK, TypeCtl, CompactionFails, BackgroundCallEnds, BgPcs
  <2>2. bg_error' \in BOOLEAN
    BY <1>0, <1>27
    DEF TypeOK, TypeCtl, CompactionFails
  <2>3. faults' \in Nat
    BY <1>0, <1>27
    DEF TypeOK, TypeCtl, CompactionFails, Fault
  <2>4. /\ manual_compaction' \in Clients \cup {NoThread}
        /\ manual_done' \subseteq Clients
    BY <1>0, <1>27
    DEF TypeOK, TypeMan, CompactionFails, ManualEnds, ManualAlive
  <2>5. UNCHANGED <<queueVars, roomVars, dataVars, logVars, jobVars, rounds,
                  treeVars, histVars, shutting_down, ops, samples>>
    BY <1>27 DEF CompactionFails
  <2>6. TypeMan'
    BY <1>0, <2>4, <2>5 DEF TypeOK, TypeMan
  <2>7. TypeCtl'
    BY <1>0, <2>1, <2>2, <2>3, <2>5 DEF TypeOK, TypeCtl
  <2> QED
    BY <1>0, <2>5, <2>6, <2>7, TypeUnchanged DEF TypeOK
<1>28. ASSUME InstallCompaction PROVE TypeOK'
  <2>1. bgpc' \in BgPcs
    BY <1>0, <1>28
    DEF TypeOK, TypeCtl, InstallCompaction, BackgroundCallEnds, BgPcs
  <2>2. blocked' \subseteq Clients
    BY <1>0, <1>28
    DEF TypeOK, TypeCtl, InstallCompaction, BackgroundCallEnds
  <2>3. level0' \in Nat
    BY <1>0, <1>28
    DEF TypeOK, TypeTree, InstallCompaction, JobInv, TypeJob
  <2>4. deeper' \in Nat
    BY <1>0, <1>28
    DEF TypeOK, TypeTree, InstallCompaction
  <2>5. file_to_compact' \in BOOLEAN
    BY <1>0, <1>28
    DEF TypeOK, TypeTree, InstallCompaction, NewVersion
  <2>6. deletions' \subseteq Nat
    BY <1>0, <1>28
    DEF TypeOK, TypeJob, InstallCompaction, ObsoleteLogs, TypeLog
  <2>7. /\ manual_compaction' \in Clients \cup {NoThread}
        /\ manual_done' \subseteq Clients
    BY <1>0, <1>28
    DEF TypeOK, TypeMan, InstallCompaction, ManualEnds
  <2>8. UNCHANGED <<queueVars, roomVars, dataVars, logVars, nested, is_manual,
                  edit_log, inputs0, rounds, histVars, bg_error,
                  shutting_down, ops, faults, samples>>
    BY <1>28 DEF InstallCompaction
  <2>9. TypeJob'
    BY <1>0, <2>6, <2>8 DEF TypeOK, TypeJob
  <2>10. TypeMan'
    BY <1>0, <2>7, <2>8 DEF TypeOK, TypeMan
  <2>11. TypeTree'
    BY <1>0, <2>3, <2>4, <2>5, <2>8 DEF TypeOK, TypeTree
  <2>12. TypeCtl'
    BY <1>0, <2>1, <2>2, <2>8 DEF TypeOK, TypeCtl
  <2> QED
    BY <1>0, <2>8, <2>9, <2>10, <2>11, <2>12, TypeUnchanged DEF TypeOK
<1>29. ASSUME Quiescent PROVE TypeOK'
  BY <1>0, <1>29, TypeUnchanged DEF TypeOK, Quiescent, vars
<1> QED
  BY <1>1, <1>2, <1>3, <1>4, <1>5, <1>6, <1>7, <1>8, <1>9, <1>10, <1>11,
     <1>12, <1>13, <1>14, <1>15, <1>16, <1>17, <1>18, <1>19, <1>20, <1>21,
     <1>22, <1>23, <1>24, <1>25, <1>26, <1>27, <1>28, <1>29,
     WritePathAssumption
  DEF Next, Call, Client, Background

-----------------------------------------------------------------------------
(* The background job. *)

\* A client leaves the job alone; at most it schedules one.
LEMMA ClientJob ==
  ASSUME NEW c \in Clients, Call(c) \/ Client(c) \/ RecordReadSample
  PROVE  /\ UNCHANGED <<nested, inputs0, level0, is_manual, deletions, edit_log>>
         /\ bgpc' = bgpc \/ (bgpc = "idle" /\ bgpc' = "scheduled")
<1> USE DEF queueVars, roomVars, dataVars, logVars, jobVars, manVars,
        treeVars, histVars
<1>1. CASE Call(c)
  BY <1>1 DEF Call, StartWrite, StartRange, StartClose
<1>2. CASE WakeWriter(c)
  BY <1>2 DEF WakeWriter
<1>3. CASE RoomError(c)
  BY <1>3 DEF RoomError
<1>4. CASE RoomDelay(c)
  BY <1>4 DEF RoomDelay
<1>5. CASE DelayOver(c)
  BY <1>5 DEF DelayOver
<1>6. CASE RoomFound(c)
  BY <1>6 DEF RoomFound
<1>7. CASE RoomWait(c)
  BY <1>7 DEF RoomWait
<1>8. CASE RoomSwitch(c)
  BY <1>8 DEF RoomSwitch, MaybeScheduleCompaction
<1>9. CASE RoomSwitchFails(c)
  BY <1>9 DEF RoomSwitchFails
<1>10. CASE AddRecord(c)
  BY <1>10 DEF AddRecord
<1>11. CASE SyncLog(c)
  BY <1>11 DEF SyncLog
<1>12. CASE InsertInto(c)
  BY <1>12 DEF InsertInto
<1>13. CASE Commit(c)
  BY <1>13 DEF Commit
<1>14. CASE FlushWait(c)
  BY <1>14 DEF FlushWait
<1>15. CASE RangeWait(c)
  BY <1>15 DEF RangeWait, MaybeScheduleCompaction
<1>16. CASE CloseWait(c)
  BY <1>16 DEF CloseWait
<1>17. CASE RecordReadSample
  BY <1>17 DEF RecordReadSample, MaybeScheduleCompaction
<1> QED
  BY <1>1, <1>2, <1>3, <1>4, <1>5, <1>6, <1>7, <1>8, <1>9, <1>10, <1>11, <1>12, <1>13, <1>14, <1>15, <1>16, <1>17 DEF Client

\* A compaction's inputs stay within level 0: only the background thread
\* changes either, and while CompactMemTable is nested level 0 only grows.
LEMMA JobStep ==
  ASSUME IndInv, Next
  PROVE  JobInv'
<1> USE DEF JobInv, queueVars, roomVars, dataVars, logVars, jobVars, manVars,
        treeVars, histVars, clientVars
<1>0. JobInv /\ level0 \in Nat /\ inputs0 \in Nat
  BY DEF IndInv, TypeOK, TypeTree, TypeJob
<1>1. ASSUME NEW c \in Clients, Call(c) \/ Client(c) \/ RecordReadSample
      PROVE  JobInv'
  BY <1>0, <1>1, ClientJob
<1>2. CASE BackgroundCall
  BY <1>0, <1>2, PickCompactionType DEF BackgroundCall, BackgroundCallEnds
<1>3. CASE CompactImmFirst
  BY <1>0, <1>3 DEF CompactImmFirst
<1>4. CASE TableBuilt
  BY <1>0, <1>4 DEF TableBuilt
<1>5. CASE CompactMemTableFails
  BY <1>0, <1>5 DEF CompactMemTableFails, CompactMemTableReturns, BackgroundCallEnds
<1>6. CASE InstallMemTable
  BY <1>0, <1>6 DEF InstallMemTable, CompactMemTableReturns, BackgroundCallEnds
<1>7. CASE RemoveObsoleteFiles
  BY <1>0, <1>7 DEF RemoveObsoleteFiles, CompactMemTableReturns, BackgroundCallEnds
<1>8. CASE CompactionDone
  BY <1>0, <1>8 DEF CompactionDone
<1>9. CASE CompactionFails
  BY <1>0, <1>9 DEF CompactionFails, BackgroundCallEnds
<1>10. CASE InstallCompaction
  BY <1>0, <1>10 DEF InstallCompaction, BackgroundCallEnds
<1>11. CASE Quiescent
  BY <1>0, <1>11 DEF Quiescent, vars
<1>12. CASE RecordReadSample
  BY <1>0, <1>12 DEF RecordReadSample, MaybeScheduleCompaction
<1> QED
  BY <1>1, <1>2, <1>3, <1>4, <1>5, <1>6, <1>7, <1>8, <1>9, <1>10, <1>11, <1>12 DEF Next, Background

-----------------------------------------------------------------------------
(* The queue. *)

\* A step that touches neither the queue nor anyone's place keeps QueueInv.
LEMMA QueueSame ==
  ASSUME QueueInv, UNCHANGED <<writers, pc, done, group_len>>
  PROVE  QueueInv'
  BY DEF QueueInv, InQueue

\* The head moves on within Write.
LEMMA QueueBusy ==
  ASSUME TypeQueue, QueueInv, NEW c \in Clients, NEW q \in Busy, pc[c] \in Busy,
         pc' = [pc EXCEPT ![c] = q], UNCHANGED <<writers, done>>,
         q \in Logging =>
           \/ group_len' \in 1..Len(writers)
           \/ pc[c] \in Logging /\ group_len' = group_len
  PROVE  QueueInv'
<1>1. \A d \in Clients : pc'[d] = IF d = c THEN q ELSE pc[d]
  BY DEF TypeQueue
<1>2. \A i \in 1..Len(writers) : writers[i] \in Clients
  BY DEF TypeQueue
<1>3. c = writers[1] /\ Len(writers) > 0 /\ Len(writers) \in Nat
  BY DEF QueueInv, TypeQueue
<1>4. \A d \in Clients : d # c => pc[d] \notin Busy
  BY <1>3 DEF QueueInv
<1>5. "queued" \notin Busy /\ Logging \subseteq Busy
  BY DEF Busy, Logging
<1> QED
  BY <1>1, <1>2, <1>3, <1>4, <1>5 DEF QueueInv, InQueue

\* A thread outside Write stays outside.
LEMMA QueueOutside ==
  ASSUME TypeQueue, QueueInv, NEW c \in Clients, NEW q,
         pc[c] \notin Busy \cup {"queued"}, q \notin Busy \cup {"queued"},
         pc' = [pc EXCEPT ![c] = q], UNCHANGED <<writers, done, group_len>>
  PROVE  QueueInv'
<1>1. \A d \in Clients : pc'[d] = IF d = c THEN q ELSE pc[d]
  BY DEF TypeQueue
<1>2. \A i \in 1..Len(writers) : writers[i] \in Clients /\ writers[i] # c
  BY DEF TypeQueue, QueueInv
<1>3. Logging \subseteq Busy
  BY DEF Busy, Logging
<1> QED
  BY <1>1, <1>2, <1>3 DEF QueueInv, InQueue

\* The head leaves with its group: the others of the group are done, and no
\* one who is left in the queue is.
LEMMA QueueFinish ==
  ASSUME TypeQueue, QueueInv, NEW c \in Clients, pc[c] \in Busy,
         NEW n \in 1..Len(writers), NEW st \in {"ok", "error"},
         FinishWrite(c, n, st)
  PROVE  QueueInv'
<1>1. /\ writers \in Seq(Clients) /\ Len(writers) \in Nat
      /\ \A i \in 1..Len(writers) : writers[i] \in Clients
  BY DEF TypeQueue
<1>2. c = writers[1] /\ \A d \in Clients : d # c => pc[d] \notin Busy
  BY DEF QueueInv
<1>3. /\ writers' \in Seq(Clients) /\ Len(writers') = Len(writers) - n
      /\ \A i \in 1..Len(writers') : writers'[i] = writers[i + n]
  BY <1>1, PopQueue DEF FinishWrite
<1>4. PICK q \in {"flushwait", "idle"} : pc' = [pc EXCEPT ![c] = q]
  BY DEF FinishWrite
<1>5. \A d \in Clients : pc'[d] = IF d = c THEN q ELSE pc[d]
  BY <1>4 DEF TypeQueue
<1>6. \A d \in Clients :
        done'[d] = IF \E i \in 1..n : writers[i] = d THEN st ELSE done[d]
  BY DEF FinishWrite
<1>7. \A d \in Clients : pc'[d] \notin Busy
  BY <1>2, <1>4, <1>5 DEF Busy
<1>8. Logging \subseteq Busy /\ "queued" \notin Busy
  BY DEF Busy, Logging
<1>9. \A i, j \in 1..Len(writers') : writers'[i] = writers'[j] => i = j
  BY <1>1, <1>3 DEF QueueInv
<1>10. \A i \in 1..Len(writers') :
         pc'[writers'[i]] = "queued" /\ done'[writers'[i]] = "no"
  <2> SUFFICES ASSUME NEW i \in 1..Len(writers')
               PROVE  pc'[writers'[i]] = "queued" /\ done'[writers'[i]] = "no"
    OBVIOUS
  <2>1. i + n \in 1..Len(writers) /\ writers'[i] = writers[i + n] /\ i + n # 1
    BY <1>1, <1>3
  <2>2. writers[i + n] # c /\ \A j \in 1..n : writers[j] # writers[i + n]
    BY <1>1, <1>2, <2>1 DEF QueueInv
  <2>3. pc[writers[i + n]] = "queued" /\ done[writers[i + n]] = "no"
    BY <1>1, <1>2, <2>1, <2>2 DEF QueueInv
  <2> QED
    BY <1>1, <1>5, <1>6, <2>1, <2>2, <2>3
<1>11. ASSUME NEW d \in Clients, pc'[d] = "queued", done'[d] = "no"
       PROVE  \E i \in 1..Len(writers') : writers'[i] = d
  <2>1. d # c /\ pc[d] = "queued"
    BY <1>4, <1>5, <1>11
  <2>2. done[d] = "no" /\ \A i \in 1..n : writers[i] # d
    BY <1>6, <1>11
  <2>3. PICK j \in 1..Len(writers) : writers[j] = d
    BY <2>1, <2>2 DEF QueueInv, InQueue
  <2>4. j > n /\ (j - n) \in 1..Len(writers') /\ writers'[j - n] = d
    BY <1>1, <1>3, <2>2, <2>3
  <2> QED
    BY <2>4
<1> QED
  BY <1>7, <1>8, <1>9, <1>10, <1>11 DEF QueueInv, InQueue

\* A new writer is last in the queue, and works at once iff it is alone.
LEMMA QueueStart ==
  ASSUME TypeQueue, QueueInv, NEW c \in Clients, NEW o, StartWrite(c, o)
  PROVE  QueueInv'
<1>1. /\ writers \in Seq(Clients) /\ Len(writers) \in Nat
      /\ \A i \in 1..Len(writers) : writers[i] \in Clients
  BY DEF TypeQueue
<1>2. pc[c] = "idle" /\ \A i \in 1..Len(writers) : writers[i] # c
  BY DEF StartWrite, Start, QueueInv, Busy
<1>3. /\ Len(writers') = Len(writers) + 1
      /\ writers'[Len(writers) + 1] = c
      /\ \A i \in 1..Len(writers) : writers'[i] = writers[i]
  BY <1>1 DEF StartWrite
<1>4. /\ \A d \in Clients : d # c => pc'[d] = pc[d] /\ done'[d] = done[d]
      /\ done'[c] = "no" /\ group_len' = group_len
      /\ pc'[c] = IF writers = <<>> THEN "room" ELSE "queued"
  BY DEF TypeQueue, StartWrite, GoesFirst
<1>5. writers = <<>> <=> Len(writers) = 0
  BY <1>1
<1>6. {"queued"} \cap Busy = {} /\ "room" \in Busy /\ "room" \notin Logging
  BY DEF Busy, Logging
<1>7. Logging \subseteq Busy
  BY DEF Busy, Logging
<1>8. \A i, j \in 1..Len(writers') : writers'[i] = writers'[j] => i = j
  BY <1>1, <1>2, <1>3 DEF QueueInv
<1>9. \A i \in 1..Len(writers') :
        pc'[writers'[i]] \in Busy \cup {"queued"} /\ done'[writers'[i]] = "no"
  BY <1>1, <1>2, <1>3, <1>4, <1>6 DEF QueueInv
<1>10. \A d \in Clients : pc'[d] \in Busy => Len(writers') > 0 /\ d = writers'[1]
  BY <1>1, <1>3, <1>4, <1>5, <1>6 DEF QueueInv
<1>11. \A d \in Clients : pc'[d] = "queued" /\ done'[d] = "no" =>
         \E i \in 1..Len(writers') : writers'[i] = d
  BY <1>1, <1>3, <1>4 DEF QueueInv, InQueue
<1>12. \A d \in Clients : pc'[d] \in Logging => group_len' \in 1..Len(writers')
  BY <1>1, <1>3, <1>4, <1>6, <1>7 DEF QueueInv
<1> QED
  BY <1>8, <1>9, <1>10, <1>11, <1>12 DEF QueueInv, InQueue

\* A queued writer that wakes is done, is the head, or waits again.
LEMMA QueueWake ==
  ASSUME TypeQueue, QueueInv, NEW c \in Clients, WakeWriter(c)
  PROVE  QueueInv'
<1>1. pc[c] = "queued" /\ UNCHANGED <<writers, done, group_len>>
  BY DEF WakeWriter
<1>2. CASE done[c] # "no"
  <2>1. PICK q \in {"flushwait", "idle"} : pc' = [pc EXCEPT ![c] = q]
    BY <1>2 DEF WakeWriter
  <2>2. \A d \in Clients : pc'[d] = IF d = c THEN q ELSE pc[d]
    BY <2>1 DEF TypeQueue
  <2>3. \A i \in 1..Len(writers) : writers[i] \in Clients /\ writers[i] # c
    BY <1>2 DEF TypeQueue, QueueInv
  <2>4. q \notin Busy \cup {"queued"} /\ Logging \subseteq Busy
    BY <2>1 DEF Busy, Logging
  <2> QED
    BY <1>1, <2>2, <2>3, <2>4 DEF QueueInv, InQueue
<1>3. CASE done[c] = "no" /\ c # Head(writers)
  <2>1. pc' = [pc EXCEPT ![c] = "queued"]
    BY <1>3 DEF WakeWriter
  <2>2. pc' = pc
    BY <1>1, <2>1 DEF TypeQueue
  <2> QED
    BY <1>1, <2>2, QueueSame
<1>4. CASE done[c] = "no" /\ c = Head(writers)
  <2>1. pc' = [pc EXCEPT ![c] = "room"]
    BY <1>4 DEF WakeWriter
  <2>2. \A d \in Clients : pc'[d] = IF d = c THEN "room" ELSE pc[d]
    BY <2>1 DEF TypeQueue
  <2>3. \E i \in 1..Len(writers) : writers[i] = c
    BY <1>1, <1>4 DEF QueueInv, InQueue
  <2>4. Len(writers) > 0 /\ c = writers[1]
    BY <1>4, <2>3 DEF TypeQueue
  <2>5. \A i \in 1..Len(writers) : writers[i] \in Clients
    BY DEF TypeQueue
  <2>6. "room" \in Busy /\ "room" \notin Logging /\ "queued" \notin Busy
    BY DEF Busy, Logging
  <2>7. \A d \in Clients : pc[d] \in Busy => d = c
    BY <2>4 DEF QueueInv
  <2>8. Logging \subseteq Busy
    BY DEF Busy, Logging
  <2> QED
    BY <1>1, <2>2, <2>4, <2>5, <2>6, <2>7, <2>8 DEF QueueInv, InQueue
<1> QED
  BY <1>2, <1>3, <1>4

\* A group has at least its leader and is a prefix of the queue.
LEMMA QueueStep ==
  ASSUME IndInv, Next
  PROVE  QueueInv'
<1> USE DEF queueVars, roomVars, dataVars, logVars, jobVars, manVars,
        treeVars, histVars, clientVars
<1>0. TypeQueue /\ QueueInv /\ group_len \in Nat
  BY DEF IndInv, TypeOK, TypeRoom
<1>1. ASSUME NEW c \in Clients, NEW o, StartWrite(c, o) PROVE QueueInv'
  BY <1>0, <1>1, QueueStart
<1>2. ASSUME NEW c \in Clients, StartRange(c) PROVE QueueInv'
  BY <1>0, <1>2, QueueOutside DEF StartRange, Start, Busy
<1>3. ASSUME NEW c \in Clients, StartClose(c) PROVE QueueInv'
  BY <1>0, <1>3, QueueOutside DEF StartClose, Start, Busy
<1>4. ASSUME NEW c \in Clients, WakeWriter(c) PROVE QueueInv'
  BY <1>0, <1>4, QueueWake
<1>5. ASSUME NEW c \in Clients, pc[c] = "room" PROVE 1 \in 1..Len(writers)
  BY <1>0, <1>5 DEF QueueInv, Busy, TypeQueue
<1>6. ASSUME NEW c \in Clients, RoomError(c) \/ RoomSwitchFails(c)
      PROVE  QueueInv'
  <2>1. pc[c] = "room" /\ FinishWrite(c, 1, "error")
    BY <1>6 DEF RoomError, RoomSwitchFails, CanSwitch, InRoom
  <2> QED
    BY <1>0, <1>5, <2>1, QueueFinish DEF Busy
<1>7. ASSUME NEW c \in Clients, RoomDelay(c) PROVE QueueInv'
  BY <1>0, <1>7, QueueBusy DEF RoomDelay, InRoom, Busy, Logging
<1>8. ASSUME NEW c \in Clients, DelayOver(c) PROVE QueueInv'
  BY <1>0, <1>8, QueueBusy DEF DelayOver, Busy, Logging
<1>9. ASSUME NEW c \in Clients, RoomFound(c) PROVE QueueInv'
  <2>1. pc[c] = "room"
    BY <1>9 DEF RoomFound, InRoom
  <2>2. CASE Null(c)
    BY <1>0, <1>5, <1>9, <2>1, <2>2, QueueFinish DEF RoomFound, Busy
  <2>3. CASE ~Null(c)
    BY <1>0, <1>9, <2>1, <2>3, QueueBusy DEF RoomFound, Busy
  <2> QED
    BY <2>2, <2>3
<1>10. ASSUME NEW c \in Clients, RoomWait(c) \/ RoomSwitch(c) PROVE QueueInv'
  BY <1>0, <1>10, QueueSame DEF RoomWait, RoomSwitch
<1>11. ASSUME NEW c \in Clients, AddRecord(c) PROVE QueueInv'
  BY <1>0, <1>11, QueueBusy DEF AddRecord, Busy, Logging
<1>12. ASSUME NEW c \in Clients, SyncLog(c) PROVE QueueInv'
  BY <1>0, <1>12, QueueBusy DEF SyncLog, Busy, Logging
<1>13. ASSUME NEW c \in Clients, InsertInto(c) PROVE QueueInv'
  BY <1>0, <1>13, QueueBusy DEF InsertInto, Busy, Logging
<1>14. ASSUME NEW c \in Clients, Commit(c) PROVE QueueInv'
  <2>1. pc[c] = "commit" /\ group_len \in 1..Len(writers)
    BY <1>0, <1>14 DEF Commit, QueueInv, Logging
  <2>2. PICK st \in {"ok", "error"} : FinishWrite(c, group_len, st)
    BY <1>14 DEF Commit
  <2> QED
    BY <1>0, <2>1, <2>2, QueueFinish DEF Busy
<1>15. ASSUME NEW c \in Clients, FlushWait(c) PROVE QueueInv'
  BY <1>0, <1>15, QueueSame, QueueOutside DEF FlushWait, Busy
<1>16. ASSUME NEW c \in Clients, RangeWait(c) PROVE QueueInv'
  BY <1>0, <1>16, QueueSame, QueueOutside DEF RangeWait, Busy
<1>17. ASSUME NEW c \in Clients, CloseWait(c) PROVE QueueInv'
  BY <1>0, <1>17, QueueSame, QueueOutside DEF CloseWait, Busy
<1>18. ASSUME RecordReadSample \/ Background \/ Quiescent PROVE QueueInv'
  <2>1. UNCHANGED <<writers, pc, done, group_len>>
    BY <1>18
    DEF RecordReadSample, Quiescent, vars, Background, BackgroundCall,
        CompactImmFirst, TableBuilt, CompactMemTableFails, InstallMemTable,
        RemoveObsoleteFiles, CompactionDone, CompactionFails,
        InstallCompaction
  <2> QED
    BY <1>0, <2>1, QueueSame
<1> QED
  BY <1>1, <1>2, <1>3, <1>4, <1>6, <1>7, <1>8, <1>9, <1>10, <1>11, <1>12,
     <1>13, <1>14, <1>15, <1>16, <1>17, <1>18
  DEF Next, Call, Client

-----------------------------------------------------------------------------
(* Scheduling and waiting. *)

\* The part of SchedInv about the destructor.
QuietInv == shutting_down => \A c \in Clients : pc[c] \in {"idle", "close", "closed"}

\* Once shutting_down_ is set nobody is in a call but the destructor.
LEMMA QuietStep ==
  ASSUME TypeOK, QuietInv, Next
  PROVE  QuietInv'
<1> USE DEF QuietInv, queueVars, roomVars, dataVars, logVars, jobVars, manVars,
        treeVars, histVars, clientVars
<1>0. pc \in [Clients -> Pcs] /\ shutting_down \in BOOLEAN
  BY DEF TypeOK, TypeQueue, TypeCtl
<1>1. ASSUME NEW c \in Clients, Call(c) PROVE QuietInv'
  BY <1>0, <1>1 DEF Call, StartWrite, StartRange, StartClose, Start
<1>2. ASSUME NEW c \in Clients, Client(c) PROVE QuietInv'
  <2>1. UNCHANGED shutting_down
    BY <1>2
    DEF Client, WakeWriter, RoomError, RoomDelay, DelayOver, RoomFound, RoomWait,
        RoomSwitch, RoomSwitchFails, AddRecord, SyncLog, InsertInto, Commit,
        FlushWait, RangeWait, CloseWait
  <2>2. CASE ~shutting_down
    BY <2>1, <2>2
  <2>3. CASE shutting_down
    <3>1. CloseWait(c)
      BY <1>2, <2>3
      DEF Client, WakeWriter, RoomError, RoomDelay, DelayOver, RoomFound,
          RoomWait, RoomSwitch, RoomSwitchFails, CanSwitch, InRoom, AddRecord,
          SyncLog, InsertInto, Commit, FlushWait, RangeWait
    <3> QED
      BY <1>0, <2>3, <3>1 DEF CloseWait
  <2> QED
    BY <1>0, <2>2, <2>3
<1>3. ASSUME RecordReadSample \/ Background \/ Quiescent PROVE QuietInv'
  <2>1. UNCHANGED <<pc, shutting_down>>
    BY <1>3
    DEF RecordReadSample, Quiescent, vars, Background, BackgroundCall,
        CompactImmFirst, TableBuilt, CompactMemTableFails, InstallMemTable,
        RemoveObsoleteFiles, CompactionDone, CompactionFails,
        InstallCompaction
  <2> QED
    BY <2>1
<1> QED
  BY <1>1, <1>2, <1>3 DEF Next

\* Whatever CanSchedule looks at, and nobody new waiting.
LEMMA WakeupSame ==
  ASSUME NoLostWakeup, blocked' \subseteq blocked, bgpc' = bgpc,
         UNCHANGED <<has_imm, manual_compaction, level0, deeper, file_to_compact,
                     shutting_down>>,
         bg_error => bg_error'
  PROVE  NoLostWakeup'
  BY DEF NoLostWakeup, CanSchedule, WorkToDo, NeedsCompaction

\* BackgroundCall's tail leaves nobody waiting and all work scheduled.
LEMMA WakeupEnds ==
  ASSUME BackgroundCallEnds
  PROVE  NoLostWakeup'
  BY DEF BackgroundCallEnds, NoLostWakeup

\* While the background call is neither idle nor about to be, nothing is lost.
LEMMA WakeupBusy ==
  ASSUME bgpc' # "idle"
  PROVE  NoLostWakeup'
  BY DEF NoLostWakeup

\* Each wait begins with a background call on its way, and each step that
\* makes work or ends a call schedules.
LEMMA WakeupStep ==
  ASSUME TypeOK, NoLostWakeup, QuietInv, Next
  PROVE  NoLostWakeup'
<1> USE DEF queueVars, roomVars, dataVars, logVars, jobVars, manVars,
        treeVars, histVars, clientVars
<1>0. /\ pc \in [Clients -> Pcs] /\ level0 \in Nat
      /\ bg_error \in BOOLEAN /\ shutting_down \in BOOLEAN /\ has_imm \in BOOLEAN
  BY DEF TypeOK, TypeQueue, TypeTree, TypeCtl, TypeData
<1>1. ASSUME NEW c \in Clients, Call(c) PROVE NoLostWakeup'
  <2>1. /\ UNCHANGED <<blocked, bgpc, has_imm, manual_compaction, level0, deeper,
                       file_to_compact, bg_error>>
        /\ shutting_down => shutting_down'
    BY <1>1 DEF Call, StartWrite, StartRange, StartClose
  <2> QED
    BY <2>1 DEF NoLostWakeup, CanSchedule, WorkToDo, NeedsCompaction
<1>2. ASSUME NEW c \in Clients,
             \/ WakeWriter(c) \/ RoomError(c) \/ RoomDelay(c) \/ DelayOver(c)
             \/ RoomFound(c) \/ RoomSwitchFails(c) \/ AddRecord(c)
             \/ SyncLog(c) \/ InsertInto(c)
      PROVE  NoLostWakeup'
  <2>1. UNCHANGED <<blocked, bgpc, has_imm, manual_compaction, level0, deeper,
                    file_to_compact, bg_error, shutting_down>>
    BY <1>2
    DEF WakeWriter, RoomError, RoomDelay, DelayOver, RoomFound, RoomSwitchFails,
        AddRecord, SyncLog, InsertInto
  <2> QED
    BY <2>1, WakeupSame
<1>3. ASSUME NEW c \in Clients, Commit(c) PROVE NoLostWakeup'
  <2>1. /\ UNCHANGED <<bgpc, has_imm, manual_compaction, level0, deeper,
                       file_to_compact, shutting_down>>
        /\ blocked' \subseteq blocked
        /\ bg_error => bg_error'
    BY <1>3 DEF Commit, RecordBackgroundError
  <2> QED
    BY <2>1, WakeupSame
<1>4. ASSUME NEW c \in Clients, RoomWait(c) PROVE NoLostWakeup'
  <2>1. ~shutting_down /\ ~bg_error
    BY <1>4 DEF RoomWait, InRoom, QuietInv
  <2>2. has_imm \/ level0 >= kL0_CompactionTrigger
    BY <1>0, <1>4, WritePathAssumption DEF RoomWait
  <2>3. bgpc # "idle"
    BY <2>1, <2>2 DEF NoLostWakeup, CanSchedule, WorkToDo, NeedsCompaction
  <2> QED
    BY <1>4, <2>3, WakeupBusy DEF RoomWait
<1>5. ASSUME NEW c \in Clients, RoomSwitch(c) PROVE NoLostWakeup'
  <2>1. bgpc' = "idle" => bgpc = "idle" /\ ~CanSchedule'
    BY <1>5 DEF RoomSwitch, MaybeScheduleCompaction
  <2>2. blocked' \subseteq blocked
    BY <1>5 DEF RoomSwitch, RecordBackgroundError
  <2> QED
    BY <2>1, <2>2 DEF NoLostWakeup
<1>6. ASSUME NEW c \in Clients, FlushWait(c) PROVE NoLostWakeup'
  <2>1. UNCHANGED <<bgpc, has_imm, manual_compaction, level0, deeper,
                    file_to_compact, shutting_down, bg_error>>
    BY <1>6 DEF FlushWait
  <2>2. CASE has_imm /\ ~bg_error
    <3>1. ~shutting_down
      BY <1>6 DEF FlushWait, QuietInv
    <3>2. bgpc # "idle"
      BY <2>2, <3>1 DEF NoLostWakeup, CanSchedule, WorkToDo
    <3> QED
      BY <2>1, <3>2, WakeupBusy
  <2>3. CASE ~(has_imm /\ ~bg_error)
    BY <1>6, <2>1, <2>3, WakeupSame DEF FlushWait
  <2> QED
    BY <2>2, <2>3
<1>7. ASSUME NEW c \in Clients, RangeWait(c) PROVE NoLostWakeup'
  <2> DEFINE waiting == /\ pc[c] = "range" /\ c \notin manual_done
                        /\ ~shutting_down /\ ~bg_error
  <2>1. UNCHANGED <<has_imm, level0, deeper, file_to_compact, shutting_down,
                    bg_error>>
    BY <1>7 DEF RangeWait
  <2>2. CASE waiting /\ manual_compaction = NoThread
    <3>1. manual_compaction' = c
      BY <1>7, <2>2 DEF RangeWait
    <3>2. CanSchedule'
      BY <2>1, <2>2, <3>1, WritePathAssumption DEF CanSchedule, WorkToDo
    <3>3. bgpc' # "idle"
      BY <1>7, <2>2, <3>2 DEF RangeWait, MaybeScheduleCompaction
    <3> QED
      BY <3>3, WakeupBusy
  <2>3. CASE waiting /\ manual_compaction # NoThread
    <3>1. CanSchedule
      BY <2>3 DEF CanSchedule, WorkToDo
    <3>2. bgpc # "idle" /\ bgpc' = bgpc
      BY <1>7, <2>3, <3>1 DEF RangeWait, NoLostWakeup
    <3> QED
      BY <3>2, WakeupBusy
  <2>4. CASE ~waiting
    <3>1. bgpc' = bgpc
      BY <1>7, <2>4 DEF RangeWait
    <3>2. CASE bgpc # "idle"
      BY <3>1, <3>2, WakeupBusy
    <3>3. CASE bgpc = "idle"
      <4>1. blocked' = blocked
        BY <1>7, <2>4, <3>3 DEF RangeWait, Draining
      <4>2. manual_compaction' # NoThread => manual_compaction # NoThread
        BY <1>7, <2>4, <3>3 DEF RangeWait, Draining
      <4> QED
        BY <2>1, <3>1, <4>1, <4>2
        DEF NoLostWakeup, CanSchedule, WorkToDo, NeedsCompaction
    <3> QED
      BY <3>2, <3>3
  <2> QED
    BY <2>2, <2>3, <2>4
<1>8. ASSUME NEW c \in Clients, CloseWait(c) PROVE NoLostWakeup'
  <2>1. UNCHANGED <<bgpc, has_imm, manual_compaction, level0, deeper,
                    file_to_compact, shutting_down, bg_error>>
    BY <1>8 DEF CloseWait
  <2>2. CASE bgpc # "idle"
    BY <2>1, <2>2, WakeupBusy
  <2>3. CASE bgpc = "idle"
    BY <1>8, <2>1, <2>3, WakeupSame DEF CloseWait
  <2> QED
    BY <2>2, <2>3
<1>9. ASSUME RecordReadSample PROVE NoLostWakeup'
  BY <1>9 DEF RecordReadSample, MaybeScheduleCompaction, NoLostWakeup
<1>10. ASSUME Background PROVE NoLostWakeup'
  <2>1. BackgroundCallEnds \/ bgpc' # "idle"
    BY <1>10
    DEF Background, BackgroundCall, CompactImmFirst, TableBuilt,
        CompactMemTableFails, InstallMemTable, RemoveObsoleteFiles,
        CompactMemTableReturns, CompactionDone, CompactionFails,
        InstallCompaction
  <2> QED
    BY <2>1, WakeupEnds, WakeupBusy
<1>11. ASSUME Quiescent PROVE NoLostWakeup'
  BY <1>11, WakeupSame DEF Quiescent, vars
<1> QED
  BY <1>1, <1>2, <1>3, <1>4, <1>5, <1>6, <1>7, <1>8, <1>9, <1>10, <1>11
  DEF Next, Client

\* A request that is handed in belongs to a thread in TEST_CompactRange, and
\* stays handed in while its compaction runs: only the background thread takes
\* it back, when it ends, or its owner, when no call is scheduled.
LEMMA ManualStep ==
  ASSUME TypeOK, JobInv, ManualAlive, Next
  PROVE  ManualAlive'
<1> USE DEF queueVars, roomVars, dataVars, logVars, jobVars, manVars,
        treeVars, histVars, clientVars
<1>0. /\ pc \in [Clients -> Pcs] /\ manual_compaction \in Clients \cup {NoThread}
      /\ bgpc \in BgPcs /\ NoThread \notin Clients
  BY WritePathAssumption DEF TypeOK, TypeQueue, TypeMan, TypeCtl
<1>1. ASSUME NEW c \in Clients, NEW q, pc' = [pc EXCEPT ![c] = q],
             pc[c] \notin {"range", "drain"},
             UNCHANGED <<manual_compaction, is_manual>>,
             bgpc' = bgpc \/ bgpc' = "scheduled"
      PROVE  ManualAlive'
  BY <1>0, <1>1 DEF ManualAlive
<1>2. ASSUME UNCHANGED <<pc, manual_compaction, is_manual>>,
             bgpc' = bgpc \/ bgpc' = "scheduled"
      PROVE  ManualAlive'
  BY <1>0, <1>2 DEF ManualAlive
<1>3. ASSUME NEW c \in Clients, Call(c) PROVE ManualAlive'
  <2>1. /\ pc[c] = "idle" /\ UNCHANGED <<manual_compaction, is_manual, bgpc>>
        /\ \E q \in Pcs : pc' = [pc EXCEPT ![c] = q]
    BY <1>3 DEF Call, StartWrite, StartRange, StartClose, Start, Pcs, Busy
  <2> QED
    BY <1>1, <2>1
<1>4. ASSUME NEW c \in Clients,
             \/ WakeWriter(c) \/ RoomError(c) \/ RoomDelay(c) \/ DelayOver(c)
             \/ RoomFound(c) \/ RoomSwitchFails(c) \/ AddRecord(c)
             \/ SyncLog(c) \/ InsertInto(c) \/ Commit(c)
      PROVE  ManualAlive'
  <2>1. /\ UNCHANGED <<manual_compaction, is_manual, bgpc>>
        /\ pc[c] \in Busy \cup {"queued"}
    BY <1>4
    DEF WakeWriter, RoomError, RoomDelay, DelayOver, RoomFound, RoomSwitchFails,
        CanSwitch, InRoom, AddRecord, SyncLog, InsertInto, Commit, Busy
  <2>2. \E q : pc' = [pc EXCEPT ![c] = q]
    BY <1>4
    DEF WakeWriter, RoomError, RoomDelay, DelayOver, RoomFound, RoomSwitchFails,
        AddRecord, SyncLog, InsertInto, Commit, FinishWrite
  <2> QED
    BY <1>1, <2>1, <2>2 DEF Busy
<1>5. ASSUME NEW c \in Clients, RoomWait(c) \/ RoomSwitch(c) PROVE ManualAlive'
  BY <1>2, <1>5 DEF RoomWait, RoomSwitch, MaybeScheduleCompaction
<1>6. ASSUME NEW c \in Clients, FlushWait(c) \/ CloseWait(c) PROVE ManualAlive'
  <2>1. /\ UNCHANGED <<manual_compaction, is_manual, bgpc>>
        /\ pc[c] \in {"flushwait", "close"}
        /\ pc' = pc \/ \E q : pc' = [pc EXCEPT ![c] = q]
    BY <1>6 DEF FlushWait, CloseWait
  <2> QED
    BY <1>1, <1>2, <2>1
<1>7. ASSUME NEW c \in Clients, RangeWait(c) PROVE ManualAlive'
  <2>1. /\ pc[c] \in {"range", "drain"} /\ UNCHANGED is_manual
        /\ bgpc' = bgpc \/ bgpc' = "scheduled"
    BY <1>7 DEF RangeWait, MaybeScheduleCompaction
  <2>2. CASE pc' = pc
    <3>1. \/ manual_compaction' = manual_compaction
          \/ manual_compaction' = c
      BY <1>0, <1>7, <2>1, <2>2 DEF RangeWait, Pcs, Busy
    <3> QED
      BY <1>0, <2>1, <2>2, <3>1 DEF ManualAlive
  <2>3. CASE pc' = [pc EXCEPT ![c] = "drain"] /\ UNCHANGED manual_compaction
    BY <1>0, <2>1, <2>3 DEF ManualAlive
  <2>4. CASE /\ pc' = [pc EXCEPT ![c] = "idle"] /\ bgpc = "idle"
             /\ manual_compaction' = IF manual_compaction = c
                                       THEN NoThread ELSE manual_compaction
    BY <1>0, <2>1, <2>4 DEF ManualAlive
  <2> QED
    BY <1>7, <2>2, <2>3, <2>4 DEF RangeWait, Draining
<1>8. ASSUME RecordReadSample PROVE ManualAlive'
  BY <1>2, <1>8 DEF RecordReadSample, MaybeScheduleCompaction
<1>9. ASSUME BackgroundCallEnds, UNCHANGED pc,
             manual_compaction' \in {NoThread, manual_compaction}
      PROVE  ManualAlive'
  BY <1>0, <1>9 DEF ManualAlive, BackgroundCallEnds
<1>10. ASSUME UNCHANGED <<pc, manual_compaction, is_manual>>,
              bgpc \notin {"idle", "scheduled"}
       PROVE  ManualAlive'
  BY <1>10 DEF ManualAlive
<1>11. CASE BackgroundCall
  <2>1. UNCHANGED pc
    BY <1>11 DEF BackgroundCall
  <2>2. CASE BackgroundCallEnds
    BY <1>0, <1>9, <1>11, <2>1, <2>2 DEF BackgroundCall
  <2>3. CASE UNCHANGED manual_compaction /\ is_manual' = FALSE
    BY <2>1, <2>3 DEF ManualAlive
  <2>4. CASE UNCHANGED manual_compaction /\ manual_compaction # NoThread
    BY <2>1, <2>4 DEF ManualAlive
  <2> QED
    BY <1>11, <2>2, <2>3, <2>4 DEF BackgroundCall
<1>12. CASE CompactImmFirst \/ TableBuilt \/ CompactionDone
  BY <1>10, <1>12 DEF CompactImmFirst, TableBuilt, CompactionDone
<1>13. CASE CompactMemTableFails
  BY <1>9, <1>10, <1>13 DEF CompactMemTableFails, CompactMemTableReturns
<1>14. CASE InstallMemTable
  BY <1>9, <1>10, <1>14 DEF InstallMemTable, CompactMemTableReturns
<1>15. CASE RemoveObsoleteFiles
  BY <1>9, <1>10, <1>15
  DEF RemoveObsoleteFiles, CompactMemTableReturns, ManualEnds
<1>16. CASE CompactionFails
  BY <1>9, <1>16 DEF CompactionFails, ManualEnds
<1>17. CASE InstallCompaction
  BY <1>9, <1>10, <1>17 DEF InstallCompaction, ManualEnds
<1>18. CASE Quiescent
  BY <1>2, <1>18 DEF Quiescent, vars
<1> QED
  BY <1>3, <1>4, <1>5, <1>6, <1>7, <1>8, <1>11, <1>12, <1>13, <1>14, <1>15,
     <1>16, <1>17, <1>18
  DEF Next, Client, Background

-----------------------------------------------------------------------------
(* The theorems. *)

\* The inductive invariant holds when the database has been opened.
LEMMA InitIndInv == Init => IndInv
<1> SUFFICES ASSUME Init PROVE IndInv
  OBVIOUS
<1>1. TypeOK
  <2>1. TypeQueue
    BY DEF Init, TypeQueue, Pcs, AllOps
  <2>2. TypeRoom /\ TypeData
    BY DEF Init, TypeRoom, TypeData
  <2>3. TypeLog
    <3>1. logfile_number = 1 /\ log_number = 1 /\ logfiles = {1}
      BY DEF Init
    <3>2. logrec = {} /\ synced = {}
      BY DEF Init
    <3> QED
      BY <3>1, <3>2 DEF TypeLog
  <2>4. TypeJob
    BY DEF Init, TypeJob
  <2>5. TypeMan /\ TypeTree /\ TypeHist /\ TypeCtl
    BY DEF Init, TypeMan, TypeTree, TypeHist, TypeCtl, BgPcs
  <2> QED
    BY <2>1, <2>2, <2>3, <2>4, <2>5 DEF TypeOK
<1>2. JobInv /\ QueueInv
  BY DEF Init, JobInv, QueueInv, InQueue, Busy, Logging
<1>3. SchedInv
  BY WritePathAssumption
  DEF Init, SchedInv, NoLostWakeup, ManualAlive, CanSchedule, WorkToDo,
      NeedsCompaction
<1> QED
  BY <1>1, <1>2, <1>3 DEF IndInv

\* ... and every step keeps it.
LEMMA NextIndInv == IndInv /\ [Next]_vars => IndInv'
<1> SUFFICES ASSUME IndInv, [Next]_vars PROVE IndInv'
  OBVIOUS
<1>1. CASE Next
  <2>1. TypeOK' /\ JobInv' /\ QueueInv'
    BY <1>1, TypeStep, JobStep, QueueStep
  <2>2. QuietInv' /\ NoLostWakeup' /\ ManualAlive'
    BY <1>1, QuietStep, WakeupStep, ManualStep DEF IndInv, SchedInv, QuietInv
  <2> QED
    BY <2>1, <2>2 DEF IndInv, SchedInv, QuietInv
<1>2. CASE UNCHANGED vars
  BY <1>2
  DEF vars, queueVars, roomVars, dataVars, logVars, jobVars, manVars, treeVars,
      histVars, IndInv, TypeOK, TypeQueue, TypeRoom, TypeData, TypeLog, TypeJob,
      TypeMan, TypeTree, TypeHist, TypeCtl, JobInv, QueueInv, InQueue, SchedInv,
      NoLostWakeup, ManualAlive, CanSchedule, WorkToDo, NeedsCompaction
<1> QED
  BY <1>1, <1>2

\* So it holds throughout every behaviour.
LEMMA IndInvHolds == Spec => []IndInv
  BY InitIndInv, NextIndInv, PTL DEF Spec

\* Type correctness of the write path for every set of threads, any batch and
\* buffer sizes and any triggers; in particular level 0 never loses a file it
\* does not have, though memtables are flushed in the middle of a compaction.
THEOREM TypeCorrect == Spec => []TypeOK
<1>1. IndInv => TypeOK
  BY DEF IndInv
<1> QED
  BY <1>1, IndInvHolds, PTL

\* Between Unlock and Lock in Write one thread at a time logs and inserts: the
\* head of writers_; and a writer that waits unserved is in the queue.
THEOREM QueueDiscipline == Spec => []OneLogger
<1>1. IndInv => OneLogger
  <2> SUFFICES ASSUME IndInv, NEW c \in Clients
               PROVE  /\ pc[c] \in Busy => writers # <<>> /\ c = Head(writers)
                      /\ pc[c] \in Busy \cup {"queued"} /\ done[c] = "no" =>
                           \E i \in 1..Len(writers) : writers[i] = c
    BY DEF OneLogger
  <2>1. writers \in Seq(Clients) /\ Len(writers) \in Nat
    BY DEF IndInv, TypeOK, TypeQueue
  <2>2. pc[c] \in Busy => Len(writers) > 0 /\ c = writers[1]
    BY DEF IndInv, QueueInv
  <2>3. pc[c] = "queued" /\ done[c] = "no" =>
          \E i \in 1..Len(writers) : writers[i] = c
    BY DEF IndInv, QueueInv, InQueue
  <2> QED
    BY <2>1, <2>2, <2>3
<1> QED
  BY <1>1, IndInvHolds, PTL

\* MaybeScheduleCompaction, BackgroundCall and RecordBackgroundError together
\* lose no wakeup: a thread waits on background_work_finished_signal_ only
\* while a background call is on its way, and work to do is always scheduled.
THEOREM WakeupsAreNotLost == Spec => []NoLostWakeup
<1>1. IndInv => NoLostWakeup
  BY DEF IndInv, SchedInv
<1> QED
  BY <1>1, IndInvHolds, PTL

\* manual_compaction_ never dangles: the drain loop of TEST_CompactRange keeps
\* the request alive until the compaction that uses it has ended.
THEOREM ManualRequestsLive == Spec => []ManualAlive
<1>1. IndInv => ManualAlive
  BY DEF IndInv, SchedInv
<1> QED
  BY <1>1, IndInvHolds, PTL

-----------------------------------------------------------------------------
(* What the write path does to the updates: readers see what was            *)
(* acknowledged, what was acknowledged can be recovered, and what was       *)
(* acknowledged with sync is on the disk. This rests on the discipline of   *)
(* the queue above.                                                         *)

\* The group's record is in the log, and synced if that was asked for.
Written(c) == pc[c] = "insert" \/ (pc[c] = "commit" /\ status = "ok")

\* The group being written: a sync write is in it only behind a sync leader;
\* its record is in the current log once AddRecord has succeeded, on the disk
\* once Sync has, and all of it is in mem_ when the group is committed OK.
GroupInv ==
  \A c \in Clients : pc[c] \in Logging =>
    /\ \A i \in 2..group_len : Sync(writers[i]) => Sync(writers[1])
    /\ pc[c] \in {"sync", "insert"} => status = "ok"
    /\ pc[c] = "sync" \/ Written(c) =>
         \A s \in GroupSeqs : <<logfile_number, s>> \in logrec
    /\ Written(c) /\ Sync(c) =>
         \A s \in GroupSeqs : <<logfile_number, s>> \in synced
    /\ pc[c] = "commit" /\ status = "ok" => GroupSeqs \subseteq mem

\* Memtables and tables hold what was acknowledged; only mem_ holds more, of
\* the group that is being inserted.
MemInv ==
  /\ imm \cup tables \cup acked \subseteq 1..last_sequence
  /\ \A s \in mem : \/ s \in 1..last_sequence
                    \/ s \in GroupSeqs /\ \E c \in Clients : Written(c)
  /\ VisibleIsAcked
  /\ ~has_imm => imm = {}

\* The logs: the current one exists, none that recovery reads is about to be
\* deleted, and while imm_ is being written out no other memtable switch can
\* move the log number the edit will set.
LogInv ==
  /\ log_number <= logfile_number /\ logfile_number \in logfiles
  /\ \A n \in deletions : n < log_number
  /\ bgpc \in {"build", "manifest"} => has_imm
  /\ bgpc = "manifest" => edit_log = logfile_number

\* mem_ is in the current log, imm_ in logs that recovery reads, and so are,
\* on the disk, the updates of theirs that were acknowledged with sync.
ReplayInv ==
  /\ \A s \in mem : <<logfile_number, s>> \in logrec
  /\ \A s \in imm : \E n \in logfiles : n >= log_number /\ <<n, s>> \in logrec
  /\ \A s \in acksync \cap mem : <<logfile_number, s>> \in synced
  /\ \A s \in acksync \cap imm :
       \E n \in logfiles : n >= log_number /\ <<n, s>> \in synced

DataInv == GroupInv /\ MemInv /\ LogInv /\ ReplayInv

-----------------------------------------------------------------------------
(* Facts the steps share. *)

\* Two threads past the queue are the same thread.
LEMMA OneBusy ==
  ASSUME QueueInv, NEW c \in Clients, NEW d \in Clients,
         pc[c] \in Busy, pc[d] \in Busy
  PROVE  c = d
  BY DEF QueueInv

LEMMA LoggingIsBusy == Logging \subseteq Busy
  BY DEF Logging, Busy

\* A group stays what it is while its writers keep their places and calls.
LEMMA GroupSame ==
  ASSUME TypeOK, QueueInv, NEW c \in Clients, pc[c] \in Logging,
         UNCHANGED <<group_len, last_sequence>>,
         \A i \in 1..group_len : /\ writers'[i] = writers[i]
                                 /\ op'[writers[i]] = op[writers[i]]
  PROVE  /\ GroupSeqs' = GroupSeqs
         /\ \A i \in 1..group_len : Sync(writers[i])' = Sync(writers[i])
         /\ group_len \in 1..Len(writers)
<1>1. {i \in 1..group_len : ~Null(writers[i])}' = {i \in 1..group_len : ~Null(writers[i])}
  BY DEF Null
<1>2. Puts(group_len)' = Puts(group_len)
  BY <1>1 DEF Puts
<1>3. GroupSeqs' = GroupSeqs
  BY <1>2 DEF GroupSeqs
<1>4. \A i \in 1..group_len : Sync(writers[i])' = Sync(writers[i])
  BY DEF Sync
<1> QED
  BY <1>3, <1>4 DEF QueueInv

\* The group's numbers follow last_sequence_ and reach to the new one.
LEMMA GroupRange ==
  ASSUME TypeOK
  PROVE  /\ NewLastSequence \in Nat /\ last_sequence \in Nat
         /\ GroupSeqs = (last_sequence + 1) .. NewLastSequence
         /\ last_sequence <= NewLastSequence
<1>1. last_sequence \in Nat /\ group_len \in Nat
  BY DEF TypeOK, TypeData, TypeRoom
<1>2. Puts(group_len) * BatchCount \in Nat
  BY <1>1, PutsType, WritePathAssumption
<1> QED
  BY <1>1, <1>2 DEF GroupSeqs, NewLastSequence

\* A step that leaves data and logs alone, and the group if there is one,
\* keeps all that is said about them.
LEMMA DataFrame ==
  ASSUME TypeOK, QueueInv, GroupInv, MemInv, ReplayInv,
         UNCHANGED <<dataVars, logVars, status, acked, acksync>>,
         \A d \in Clients : pc[d] \in Logging \/ pc'[d] \in Logging => pc'[d] = pc[d],
         (\E d \in Clients : pc[d] \in Logging) =>
           /\ group_len' = group_len
           /\ \A i \in 1..group_len : /\ writers'[i] = writers[i]
                                      /\ op'[writers[i]] = op[writers[i]]
  PROVE  GroupInv' /\ MemInv' /\ ReplayInv'
<1> USE DEF dataVars, logVars
<1>1. ASSUME NEW c \in Clients, pc[c] \in Logging
      PROVE  /\ GroupSeqs' = GroupSeqs
             /\ \A i \in 1..group_len : Sync(writers[i])' = Sync(writers[i])
             /\ group_len \in 1..Len(writers) /\ group_len' = group_len
             /\ c = writers[1] /\ Sync(c)' = Sync(c)
             /\ Written(c)' = Written(c)
  <2>1. /\ GroupSeqs' = GroupSeqs
        /\ \A i \in 1..group_len : Sync(writers[i])' = Sync(writers[i])
        /\ group_len \in 1..Len(writers) /\ group_len' = group_len
    BY <1>1, GroupSame
  <2>2. Len(writers) \in Nat /\ c = writers[1]
    BY <1>1, LoggingIsBusy DEF QueueInv, TypeOK, TypeQueue
  <2>3. writers'[1] = writers[1] /\ op'[writers[1]] = op[writers[1]]
    BY <1>1, <2>1, <2>2
  <2> QED
    BY <1>1, <2>1, <2>2, <2>3 DEF Sync, Written
<1>2. ASSUME NEW c \in Clients, Written(c) \/ Written(c)'
      PROVE  pc[c] \in Logging
  BY <1>2 DEF Written, Logging
<1>3. GroupInv'
  <2> SUFFICES ASSUME NEW c \in Clients, pc'[c] \in Logging
               PROVE  /\ \A i \in 2..group_len' : Sync(writers[i])' => Sync(writers[1])'
                      /\ pc'[c] \in {"sync", "insert"} => status' = "ok"
                      /\ pc'[c] = "sync" \/ Written(c)' =>
                           \A s \in GroupSeqs' : <<logfile_number', s>> \in logrec'
                      /\ Written(c)' /\ Sync(c)' =>
                           \A s \in GroupSeqs' : <<logfile_number', s>> \in synced'
                      /\ pc'[c] = "commit" /\ status' = "ok" => GroupSeqs' \subseteq mem'
    BY DEF GroupInv
  <2>1. pc[c] \in Logging /\ pc'[c] = pc[c]
    OBVIOUS
  <2>2. /\ GroupSeqs' = GroupSeqs /\ Sync(c)' = Sync(c) /\ Written(c)' = Written(c)
        /\ \A i \in 1..group_len : Sync(writers[i])' = Sync(writers[i])
        /\ group_len \in Nat /\ group_len >= 1 /\ group_len' = group_len
    BY <1>1, <2>1 DEF TypeOK, TypeRoom
  <2>3. \A i \in 2..group_len' : Sync(writers[i])' => Sync(writers[1])'
    BY <2>1, <2>2 DEF GroupInv
  <2> QED
    BY <2>1, <2>2, <2>3 DEF GroupInv
<1>4. MemInv'
  <2>1. \A s \in mem' : \/ s \in 1..last_sequence'
                        \/ s \in GroupSeqs' /\ \E c \in Clients : Written(c)'
    BY <1>1, <1>2 DEF MemInv
  <2>2. VisibleIsAcked'
    BY DEF MemInv, VisibleIsAcked
  <2> QED
    BY <2>1, <2>2 DEF MemInv
<1>5. ReplayInv'
  BY DEF ReplayInv
<1> QED
  BY <1>3, <1>4, <1>5

\* ... and of the logs, if no flush begins.
LEMMA LogFrame ==
  ASSUME LogInv, UNCHANGED <<has_imm, logVars, edit_log>>,
         deletions' \subseteq deletions \cup {n \in Nat : n < log_number},
         bgpc' \in {"build", "manifest"} => bgpc' = bgpc
  PROVE  LogInv'
  BY DEF LogInv, logVars

-----------------------------------------------------------------------------
(* The steps that leave the updates alone. *)

\* A thread outside the unlocked part of Write moves: if somebody logs, it is
\* another thread, and the group at the head of the queue is not touched.
LEMMA OtherClientStep ==
  ASSUME IndInv, DataInv, NEW c \in Clients,
         \/ Call(c)
         \/ WakeWriter(c) \/ RoomError(c) \/ RoomDelay(c) \/ DelayOver(c)
         \/ RoomWait(c) \/ RoomSwitchFails(c)
         \/ FlushWait(c) \/ RangeWait(c) \/ CloseWait(c)
  PROVE  DataInv'
<1> USE DEF queueVars, roomVars, dataVars, logVars, jobVars, manVars,
        treeVars, histVars
<1>0. TypeOK /\ QueueInv /\ GroupInv /\ MemInv /\ ReplayInv /\ LogInv
  BY DEF IndInv, DataInv
<1>t. pc \in [Clients -> Pcs] /\ writers \in Seq(Clients) /\ Len(writers) \in Nat
  BY <1>0 DEF TypeOK, TypeQueue
<1>1. UNCHANGED <<mem, imm, has_imm, tables, last_sequence, logfile_number,
                  log_number, logfiles, logrec, synced, status, acked, acksync,
                  edit_log, deletions, group_len>>
  BY DEF Call, StartWrite, StartRange, StartClose, WakeWriter, RoomError,
         RoomDelay, DelayOver, RoomWait, RoomSwitchFails, FlushWait, RangeWait,
         CloseWait
<1>2. bgpc' \in {bgpc, "scheduled"}
  BY DEF Call, StartWrite, StartRange, StartClose, WakeWriter, RoomError,
         RoomDelay, DelayOver, RoomWait, RoomSwitchFails, FlushWait, RangeWait,
         CloseWait, MaybeScheduleCompaction
<1>3. pc[c] \notin Logging
  BY DEF Call, StartWrite, StartRange, StartClose, Start, WakeWriter, RoomError,
         RoomDelay, DelayOver, RoomWait, RoomSwitchFails, CanSwitch, InRoom,
         FlushWait, RangeWait, CloseWait, Logging
<1>4. \E q \in Pcs \ Logging : pc' = [pc EXCEPT ![c] = q] \/ pc' = pc
  BY <1>t
  DEF Call, StartWrite, StartRange, StartClose, WakeWriter, RoomError,
      RoomDelay, DelayOver, RoomWait, RoomSwitchFails, FlushWait, RangeWait,
      CloseWait, FinishWrite, Logging, Pcs, Busy
<1>5. \A d \in Clients : pc[d] \in Logging \/ pc'[d] \in Logging => pc'[d] = pc[d]
  BY <1>t, <1>3, <1>4
<1>6. ASSUME NEW d \in Clients, pc[d] \in Logging
      PROVE  \A i \in 1..group_len : /\ writers'[i] = writers[i]
                                     /\ op'[writers[i]] = op[writers[i]]
  <2>1. ~(RoomError(c) \/ RoomSwitchFails(c))
    BY <1>0, <1>3, <1>6, OneBusy, LoggingIsBusy
    DEF RoomError, RoomSwitchFails, CanSwitch, InRoom, Busy
  <2>2. writers' = writers \/ writers' = Append(writers, c)
    BY <2>1
    DEF Call, StartWrite, StartRange, StartClose, WakeWriter, RoomDelay,
        DelayOver, RoomWait, FlushWait, RangeWait, CloseWait
  <2>3. group_len \in 1..Len(writers)
    BY <1>0, <1>6 DEF QueueInv
  <2>4. op' = op \/ (pc[c] = "idle" /\ \E o : op' = [op EXCEPT ![c] = o])
    BY <2>1
    DEF Call, StartWrite, StartRange, StartClose, Start, WakeWriter, RoomDelay,
        DelayOver, RoomWait, FlushWait, RangeWait, CloseWait
  <2>5. \A i \in 1..Len(writers) : pc[writers[i]] # "idle" /\ writers[i] \in Clients
    BY <1>0, <1>t DEF QueueInv, Busy
  <2>6. \A i \in 1..Len(writers) : writers'[i] = writers[i]
    BY <1>t, <2>2
  <2>7. \A i \in 1..Len(writers) : op'[writers[i]] = op[writers[i]]
    BY <1>0, <2>4, <2>5 DEF TypeOK, TypeQueue
  <2> QED
    BY <1>t, <2>3, <2>6, <2>7
<1>7. GroupInv' /\ MemInv' /\ ReplayInv'
  BY <1>0, <1>1, <1>5, <1>6, DataFrame
<1>8. LogInv'
  BY <1>0, <1>1, <1>2, LogFrame
<1> QED
  BY <1>7, <1>8 DEF DataInv

\* Neither do reads, and the background thread while it plans, builds tables
\* or compacts: a compaction keeps the updates of its inputs.
LEMMA OtherBackgroundStep ==
  ASSUME IndInv, DataInv,
         \/ RecordReadSample \/ BackgroundCall \/ CompactImmFirst \/ TableBuilt
         \/ CompactMemTableFails \/ CompactionDone \/ CompactionFails
         \/ InstallCompaction
  PROVE  DataInv'
<1> USE DEF queueVars, roomVars, dataVars, logVars, jobVars, manVars,
        treeVars, histVars, clientVars
<1>0. TypeOK /\ QueueInv /\ GroupInv /\ MemInv /\ ReplayInv /\ LogInv
  BY DEF IndInv, DataInv
<1>1. UNCHANGED <<mem, imm, has_imm, tables, last_sequence, logfile_number,
                  log_number, logfiles, logrec, synced, status, acked, acksync,
                  group_len, writers, op, pc>>
  BY DEF RecordReadSample, BackgroundCall, CompactImmFirst, TableBuilt,
         CompactMemTableFails, CompactionDone, CompactionFails, InstallCompaction
<1>2. GroupInv' /\ MemInv' /\ ReplayInv'
  BY <1>0, <1>1, DataFrame
<1>3. LogInv'
  <2>1. log_number \in Nat /\ logfiles \subseteq Nat
    BY <1>0 DEF TypeOK, TypeLog
  <2>2. deletions' \subseteq deletions \cup {n \in Nat : n < log_number}
    BY <2>1
    DEF RecordReadSample, BackgroundCall, CompactImmFirst, TableBuilt,
        CompactMemTableFails, CompactionDone, CompactionFails,
        InstallCompaction, ObsoleteLogs
  <2>3. CASE BackgroundCall \/ CompactImmFirst
    <3>1. UNCHANGED edit_log /\ bgpc' # "manifest"
      BY <2>3 DEF BackgroundCall, CompactImmFirst, BackgroundCallEnds
    <3>2. bgpc' = "build" => has_imm
      BY <2>3 DEF BackgroundCall, CompactImmFirst, BackgroundCallEnds
    <3> QED
      BY <1>0, <1>1, <2>2, <3>1, <3>2 DEF LogInv
  <2>4. CASE TableBuilt
    <3>1. edit_log' = logfile_number /\ bgpc = "build"
      BY <2>4 DEF TableBuilt, EditLogNumber
    <3> QED
      BY <1>0, <1>1, <2>2, <3>1 DEF LogInv
  <2>5. CASE RecordReadSample \/ CompactMemTableFails \/ CompactionDone
             \/ CompactionFails \/ InstallCompaction
    <3>1. UNCHANGED edit_log /\ (bgpc' \in {"build", "manifest"} => bgpc' = bgpc)
      BY <2>5
      DEF RecordReadSample, MaybeScheduleCompaction, CompactMemTableFails,
          CompactMemTableReturns, CompactionDone, CompactionFails,
          InstallCompaction, BackgroundCallEnds
    <3> QED
      BY <1>0, <1>1, <2>2, <3>1, LogFrame
  <2> QED
    BY <2>3, <2>4, <2>5
<1> QED
  BY <1>2, <1>3 DEF DataInv

-----------------------------------------------------------------------------
(* The steps of the head of the queue. *)

\* What the head's steps rely on: nobody else is past the queue.
LEMMA HeadStep ==
  ASSUME IndInv, DataInv, NEW c \in Clients, pc[c] \in Busy
  PROVE  /\ TypeOK /\ QueueInv /\ GroupInv /\ MemInv /\ ReplayInv /\ LogInv
         /\ pc \in [Clients -> Pcs] /\ writers \in Seq(Clients)
         /\ Len(writers) \in Nat /\ c = writers[1]
         /\ \A d \in Clients : pc[d] \in Logging => d = c
         /\ \A d \in Clients : Written(d) => d = c
<1>1. TypeOK /\ QueueInv /\ GroupInv /\ MemInv /\ ReplayInv /\ LogInv
  BY DEF IndInv, DataInv
<1>2. pc \in [Clients -> Pcs] /\ writers \in Seq(Clients) /\ Len(writers) \in Nat
  BY <1>1 DEF TypeOK, TypeQueue
<1>3. \A d \in Clients : pc[d] \in Logging => d = c
  BY <1>1, OneBusy, LoggingIsBusy
<1>4. \A d \in Clients : Written(d) => d = c
  BY <1>3 DEF Written, Logging
<1> QED
  BY <1>1, <1>2, <1>3, <1>4 DEF QueueInv

\* There is room: a null batch is done, or the group is built, and takes a
\* sync write only if its leader syncs.
LEMMA RoomFoundStep ==
  ASSUME IndInv, DataInv, NEW c \in Clients, RoomFound(c)
  PROVE  DataInv'
<1> USE DEF queueVars, roomVars, dataVars, logVars, jobVars, manVars,
        treeVars, histVars
<1>0. /\ TypeOK /\ QueueInv /\ GroupInv /\ MemInv /\ ReplayInv /\ LogInv
      /\ pc \in [Clients -> Pcs] /\ writers \in Seq(Clients)
      /\ Len(writers) \in Nat /\ c = writers[1]
      /\ \A d \in Clients : pc[d] \notin Logging
      /\ \A d \in Clients : ~Written(d)
  BY HeadStep DEF RoomFound, InRoom, Busy, Logging, Written
<1>1. UNCHANGED <<mem, imm, has_imm, tables, last_sequence, logfile_number,
                  log_number, logfiles, logrec, synced, status, acked, acksync,
                  edit_log, deletions, bgpc>>
  BY DEF RoomFound
<1>2. LogInv'
  BY <1>0, <1>1, LogFrame
<1>3. CASE Null(c)
  <2>1. \E q \in Pcs \ Logging : pc' = [pc EXCEPT ![c] = q]
    BY <1>3 DEF RoomFound, FinishWrite, Pcs, Busy, Logging
  <2>2. \A d \in Clients : pc'[d] \notin Logging
    BY <1>0, <2>1
  <2>3. GroupInv' /\ MemInv' /\ ReplayInv'
    BY <1>0, <1>1, <2>2, DataFrame
  <2> QED
    BY <1>2, <2>3 DEF DataInv
<1>4. CASE ~Null(c)
  <2>1. pc' = [pc EXCEPT ![c] = "log"] /\ UNCHANGED writers /\ UNCHANGED op
    BY <1>4 DEF RoomFound
  <2>2. Fits(group_len') /\ group_len' \in 1..Len(writers)
    BY <1>4 DEF RoomFound, BuildBatchGroup
  <2>3. \A d \in Clients : ~Written(d)'
    BY <1>0, <2>1 DEF Written, Logging
  <2>4. \A d \in Clients : pc'[d] \in Logging => pc'[d] = "log"
    BY <1>0, <2>1
  <2>5. \A i \in 2..group_len' : Sync(writers[i])' => Sync(writers[1])'
    BY <2>1, <2>2 DEF Fits, Sync
  <2>6. GroupInv'
    BY <2>3, <2>4, <2>5 DEF GroupInv
  <2>7. MemInv'
    BY <1>0, <1>1 DEF MemInv, VisibleIsAcked
  <2>8. ReplayInv'
    BY <1>0, <1>1 DEF ReplayInv
  <2> QED
    BY <1>2, <2>6, <2>7, <2>8 DEF DataInv
<1> QED
  BY <1>3, <1>4

\* The memtable switch: nobody is inserting, so all of mem_ has been
\* acknowledged; it becomes imm_, whose log is the one just left.
LEMMA RoomSwitchStep ==
  ASSUME IndInv, DataInv, NEW c \in Clients, RoomSwitch(c)
  PROVE  DataInv'
<1> USE DEF queueVars, roomVars, dataVars, logVars, jobVars, manVars,
        treeVars, histVars
<1>0. /\ TypeOK /\ QueueInv /\ GroupInv /\ MemInv /\ ReplayInv /\ LogInv
      /\ \A d \in Clients : pc[d] \notin Logging
      /\ \A d \in Clients : ~Written(d)
  BY HeadStep DEF RoomSwitch, CanSwitch, InRoom, Busy, Logging, Written
<1>1. /\ ~has_imm /\ imm' = mem /\ has_imm' = TRUE /\ mem' = {}
      /\ logfile_number' = logfile_number + 1
      /\ logfiles' = logfiles \cup {logfile_number + 1}
      /\ UNCHANGED <<pc, tables, last_sequence, log_number, logrec, synced, acked,
                     acksync, edit_log, deletions>>
  BY DEF RoomSwitch, CanSwitch
<1>2. logfile_number \in Nat /\ log_number \in Nat
  BY <1>0 DEF TypeOK, TypeLog
<1>3. GroupInv'
  BY <1>0, <1>1 DEF GroupInv
<1>4. mem \subseteq 1..last_sequence /\ imm = {}
  BY <1>0, <1>1 DEF MemInv
<1>5. MemInv'
  BY <1>0, <1>1, <1>4 DEF MemInv, VisibleIsAcked
<1>6. LogInv'
  <2>1. bgpc' = bgpc \/ bgpc' = "scheduled"
    BY DEF RoomSwitch, MaybeScheduleCompaction
  <2>2. bgpc \notin {"build", "manifest"}
    BY <1>0, <1>1 DEF LogInv
  <2> QED
    BY <1>0, <1>1, <1>2, <2>1, <2>2 DEF LogInv
<1>7. ReplayInv'
  <2>1. \A s \in imm' : <<logfile_number, s>> \in logrec'
    BY <1>0, <1>1 DEF ReplayInv
  <2>2. \A s \in acksync' \cap imm' : <<logfile_number, s>> \in synced'
    BY <1>0, <1>1 DEF ReplayInv
  <2>3. logfile_number \in logfiles' /\ logfile_number >= log_number'
    BY <1>0, <1>1, <1>2 DEF LogInv
  <2> QED
    BY <1>1, <2>1, <2>2, <2>3 DEF ReplayInv
<1> QED
  BY <1>3, <1>5, <1>6, <1>7 DEF DataInv

\* log_->AddRecord: the group is in the current log, or the write has failed
\* and mem_ stays without it.
LEMMA AddRecordStep ==
  ASSUME IndInv, DataInv, NEW c \in Clients, AddRecord(c)
  PROVE  DataInv'
<1> USE DEF queueVars, roomVars, dataVars, logVars, jobVars, manVars,
        treeVars, histVars
<1>0. /\ TypeOK /\ QueueInv /\ GroupInv /\ MemInv /\ ReplayInv /\ LogInv
      /\ pc \in [Clients -> Pcs] /\ pc[c] = "log" /\ c = writers[1]
      /\ \A d \in Clients : pc[d] \in Logging => d = c
      /\ \A d \in Clients : ~Written(d)
  BY HeadStep DEF AddRecord, Busy, Written
<1>1. /\ UNCHANGED <<mem, imm, has_imm, tables, last_sequence, logfile_number,
                     log_number, logfiles, synced, acked, acksync, edit_log,
                     deletions, bgpc, writers, op, group_len>>
      /\ logrec \subseteq logrec'
  BY DEF AddRecord
<1>2. LogInv'
  BY <1>0, <1>1 DEF LogInv
<1>3. MemInv'
  BY <1>0, <1>1 DEF MemInv, VisibleIsAcked
<1>4. ReplayInv'
  <2>1. \A s \in imm : \E n \in logfiles : n >= log_number /\ <<n, s>> \in logrec'
    BY <1>0, <1>1 DEF ReplayInv
  <2> QED
    BY <1>0, <1>1, <2>1 DEF ReplayInv
<1>5. /\ \E q : pc' = [pc EXCEPT ![c] = q]
      /\ GroupSeqs' = GroupSeqs
      /\ \A d \in Clients : Sync(d)' = Sync(d)
  BY <1>1 DEF AddRecord, GroupSeqs, Puts, Null, Sync
<1>6. \A d \in Clients : pc'[d] \in Logging => d = c
  BY <1>0, <1>5
<1>7. \A i \in 2..group_len' : Sync(writers[i])' => Sync(writers[1])'
  BY <1>0, <1>1 DEF GroupInv, Sync, Logging
<1>8. CASE status' = "ok"
  <2>1. /\ \A s \in GroupSeqs : <<logfile_number, s>> \in logrec'
        /\ pc'[c] = IF Sync(c) THEN "sync" ELSE "insert"
    BY <1>0, <1>8 DEF AddRecord
  <2>2. GroupInv'
    BY <1>1, <1>5, <1>6, <1>7, <1>8, <2>1 DEF GroupInv, Written
  <2> QED
    BY <1>2, <1>3, <1>4, <2>2 DEF DataInv
<1>9. CASE status' # "ok"
  <2>1. pc'[c] = "commit"
    BY <1>0, <1>9 DEF AddRecord
  <2>2. GroupInv'
    BY <1>1, <1>5, <1>6, <1>7, <1>9, <2>1 DEF GroupInv, Written
  <2> QED
    BY <1>2, <1>3, <1>4, <2>2 DEF DataInv
<1> QED
  BY <1>8, <1>9

\* logfile_->Sync: what the current log holds is on the disk, the group too.
LEMMA SyncLogStep ==
  ASSUME IndInv, DataInv, NEW c \in Clients, SyncLog(c)
  PROVE  DataInv'
<1> USE DEF queueVars, roomVars, dataVars, logVars, jobVars, manVars,
        treeVars, histVars
<1>0. /\ TypeOK /\ QueueInv /\ GroupInv /\ MemInv /\ ReplayInv /\ LogInv
      /\ pc \in [Clients -> Pcs] /\ pc[c] = "sync" /\ c = writers[1]
      /\ \A d \in Clients : pc[d] \in Logging => d = c
      /\ \A d \in Clients : ~Written(d)
  BY HeadStep DEF SyncLog, Busy, Written
<1>1. /\ UNCHANGED <<mem, imm, has_imm, tables, last_sequence, logfile_number,
                     log_number, logfiles, logrec, acked, acksync, edit_log,
                     deletions, bgpc, writers, op, group_len>>
      /\ synced \subseteq synced'
  BY DEF SyncLog
<1>2. LogInv'
  BY <1>0, <1>1 DEF LogInv
<1>3. MemInv'
  BY <1>0, <1>1 DEF MemInv, VisibleIsAcked
<1>4. ReplayInv'
  <2>1. \A s \in acksync \cap imm :
          \E n \in logfiles : n >= log_number /\ <<n, s>> \in synced'
    BY <1>0, <1>1 DEF ReplayInv
  <2> QED
    BY <1>0, <1>1, <2>1 DEF ReplayInv
<1>5. /\ \E q : pc' = [pc EXCEPT ![c] = q]
      /\ GroupSeqs' = GroupSeqs
      /\ \A d \in Clients : Sync(d)' = Sync(d)
  BY <1>1 DEF SyncLog, GroupSeqs, Puts, Null, Sync
<1>6. \A d \in Clients : pc'[d] \in Logging => d = c
  BY <1>0, <1>5
<1>7. /\ \A i \in 2..group_len' : Sync(writers[i])' => Sync(writers[1])'
      /\ \A s \in GroupSeqs : <<logfile_number, s>> \in logrec
      /\ status = "ok"
  BY <1>0, <1>1 DEF GroupInv, Sync, Logging
<1>8. CASE pc'[c] = "insert"
  <2>1. /\ \A s \in GroupSeqs : <<logfile_number, s>> \in synced'
        /\ status' = "ok"
    BY <1>0, <1>7, <1>8 DEF SyncLog
  <2>2. GroupInv'
    BY <1>1, <1>5, <1>6, <1>7, <1>8, <2>1 DEF GroupInv, Written
  <2> QED
    BY <1>2, <1>3, <1>4, <2>2 DEF DataInv
<1>9. CASE pc'[c] # "insert"
  <2>1. pc'[c] = "commit" /\ status' = "syncerror"
    BY <1>0, <1>9 DEF SyncLog
  <2>2. GroupInv'
    BY <1>1, <1>5, <1>6, <1>7, <2>1 DEF GroupInv, Written
  <2> QED
    BY <1>2, <1>3, <1>4, <2>2 DEF DataInv
<1> QED
  BY <1>8, <1>9

\* InsertInto puts one more update of the group into mem_: it is not visible
\* yet, for LastSequence is behind it.
LEMMA InsertIntoStep ==
  ASSUME IndInv, DataInv, NEW c \in Clients, InsertInto(c)
  PROVE  DataInv'
<1> USE DEF queueVars, roomVars, dataVars, logVars, jobVars, manVars,
        treeVars, histVars
<1>0. /\ TypeOK /\ QueueInv /\ GroupInv /\ MemInv /\ ReplayInv /\ LogInv
      /\ pc \in [Clients -> Pcs] /\ pc[c] = "insert" /\ c = writers[1]
      /\ \A d \in Clients : pc[d] \in Logging => d = c
  BY HeadStep DEF InsertInto, Busy
<1>1. /\ UNCHANGED <<imm, has_imm, tables, last_sequence, logfile_number,
                     log_number, logfiles, logrec, synced, acked, acksync,
                     edit_log, deletions, bgpc, writers, op, group_len, status>>
  BY DEF InsertInto
<1>2. /\ GroupSeqs' = GroupSeqs
      /\ \A d \in Clients : Sync(d)' = Sync(d)
  BY <1>1 DEF GroupSeqs, Puts, Null, Sync
<1>3. PICK t \in GroupSeqs \ mem :
        /\ mem' = mem \cup {t}
        /\ pc' = [pc EXCEPT ![c] = IF GroupSeqs \ mem = {t} THEN "commit" ELSE "insert"]
  BY DEF InsertInto
<1>4. /\ \A i \in 2..group_len : Sync(writers[i]) => Sync(writers[1])
      /\ status = "ok"
      /\ \A s \in GroupSeqs : <<logfile_number, s>> \in logrec
      /\ Sync(c) => \A s \in GroupSeqs : <<logfile_number, s>> \in synced
  BY <1>0 DEF GroupInv, Written, Logging
<1>5. Written(c)'
  BY <1>0, <1>1, <1>3, <1>4 DEF Written
<1>6. GroupInv'
  <2>1. \A d \in Clients : pc'[d] \in Logging => d = c
    BY <1>0, <1>3
  <2>2. pc'[c] = "commit" => GroupSeqs \subseteq mem'
    BY <1>0, <1>3
  <2>3. \A i \in 2..group_len' : Sync(writers[i])' => Sync(writers[1])'
    BY <1>1, <1>4 DEF Sync
  <2> QED
    BY <1>1, <1>2, <1>4, <2>1, <2>2, <2>3 DEF GroupInv
<1>7. MemInv'
  <2>1. t \notin 1..last_sequence
    BY <1>0, <1>3, GroupRange
  <2>2. VisibleIsAcked'
    BY <1>0, <1>1, <1>3, <2>1 DEF MemInv, VisibleIsAcked
  <2>3. \A s \in mem' : \/ s \in 1..last_sequence'
                        \/ s \in GroupSeqs' /\ \E d \in Clients : Written(d)'
    BY <1>0, <1>1, <1>2, <1>3, <1>5 DEF MemInv
  <2> QED
    BY <1>0, <1>1, <2>2, <2>3 DEF MemInv
<1>8. ReplayInv'
  <2>1. t \notin acksync
    <3>1. acksync \subseteq 1..last_sequence
      BY <1>0 DEF MemInv, TypeOK, TypeHist
    <3> QED
      BY <1>0, <1>3, <3>1, GroupRange
  <2> QED
    BY <1>0, <1>1, <1>3, <1>4, <2>1 DEF ReplayInv
<1>9. LogInv'
  BY <1>0, <1>1 DEF LogInv
<1> QED
  BY <1>6, <1>7, <1>8, <1>9 DEF DataInv

\* If one of the group's updates came with sync, the leader's did.
LEMMA SyncGroup ==
  ASSUME IndInv, DataInv, NEW c \in Clients, pc[c] \in Logging, SyncSeqs # {}
  PROVE  Sync(c)
<1>0. /\ GroupInv /\ c = writers[1] /\ group_len \in 1..Len(writers)
      /\ Len(writers) \in Nat
  BY HeadStep, LoggingIsBusy DEF QueueInv
<1>1. PICK i \in 1..group_len : Sync(writers[i])
  BY DEF SyncSeqs
<1>2. CASE i = 1
  BY <1>0, <1>1, <1>2
<1>3. CASE i # 1
  BY <1>0, <1>1, <1>3 DEF GroupInv
<1> QED
  BY <1>2, <1>3

\* Back under mutex_: the group becomes visible and acknowledged, or neither.
LEMMA CommitStep ==
  ASSUME IndInv, DataInv, NEW c \in Clients, Commit(c)
  PROVE  DataInv'
<1> USE DEF queueVars, roomVars, dataVars, logVars, jobVars, manVars,
        treeVars, histVars
<1>0. /\ TypeOK /\ QueueInv /\ GroupInv /\ MemInv /\ ReplayInv /\ LogInv
      /\ pc \in [Clients -> Pcs] /\ pc[c] = "commit"
      /\ \A d \in Clients : pc[d] \in Logging => d = c
      /\ \A d \in Clients : Written(d) => d = c
  BY HeadStep DEF Commit, Busy
<1>1. /\ UNCHANGED <<mem, imm, has_imm, tables, logfile_number, log_number,
                     logfiles, logrec, synced, edit_log, deletions, bgpc, status>>
      /\ last_sequence' = NewLastSequence
      /\ acked' = IF status = "ok" THEN acked \cup GroupSeqs ELSE acked
      /\ acksync' = IF status = "ok" THEN acksync \cup SyncSeqs ELSE acksync
  BY DEF Commit
<1>2. /\ NewLastSequence \in Nat /\ last_sequence \in Nat
      /\ GroupSeqs = (last_sequence + 1) .. NewLastSequence
      /\ last_sequence <= NewLastSequence
  BY <1>0, GroupRange
<1>3. 1..NewLastSequence = 1..last_sequence \cup GroupSeqs
  BY <1>2
<1>4. /\ status = "ok" => GroupSeqs \subseteq mem
      /\ status # "ok" => mem \subseteq 1..last_sequence
      /\ mem \subseteq 1..last_sequence \cup GroupSeqs
      /\ GroupSeqs \cap (imm \cup tables \cup acked) = {}
  <2>1. status = "ok" => GroupSeqs \subseteq mem
    BY <1>0 DEF GroupInv, Logging
  <2>2. status # "ok" => \A d \in Clients : ~Written(d)
    BY <1>0 DEF Written
  <2>3. imm \cup tables \cup acked \subseteq 1..last_sequence
    BY <1>0 DEF MemInv
  <2>4. GroupSeqs \cap 1..last_sequence = {}
    BY <1>2
  <2>5. mem \subseteq 1..last_sequence \cup GroupSeqs
    BY <1>0 DEF MemInv
  <2>6. status # "ok" => mem \subseteq 1..last_sequence
    BY <1>0, <2>2 DEF MemInv
  <2> QED
    BY <2>1, <2>3, <2>4, <2>5, <2>6
<1>5. GroupInv'
  <2>1. pc' = [pc EXCEPT ![c] = "idle"] \/ pc' = [pc EXCEPT ![c] = "flushwait"]
    BY DEF Commit, FinishWrite
  <2>2. \A d \in Clients : pc'[d] \notin Logging
    BY <1>0, <2>1 DEF Logging
  <2> QED
    BY <2>2 DEF GroupInv
<1>6. MemInv'
  <2> HIDE DEF NewLastSequence
  <2>1. (mem \cup imm \cup tables) \cap 1..last_sequence = acked
    BY <1>0 DEF MemInv, VisibleIsAcked
  <2>2. (mem \cup imm \cup tables) \cap 1..last_sequence' = acked'
    BY <1>1, <1>3, <1>4, <2>1
  <2>3. imm \cup tables \cup acked' \subseteq 1..last_sequence'
    BY <1>0, <1>1, <1>3 DEF MemInv
  <2>4. mem \subseteq 1..last_sequence'
    BY <1>1, <1>3, <1>4
  <2> QED
    BY <1>0, <1>1, <2>2, <2>3, <2>4 DEF MemInv, VisibleIsAcked
<1>7. ReplayInv'
  <2>1. SyncSeqs \subseteq GroupSeqs
    BY DEF SyncSeqs
  <2>2. status = "ok" => \A s \in SyncSeqs : <<logfile_number, s>> \in synced
    BY <1>0, <2>1, SyncGroup DEF GroupInv, Written, Logging
  <2>3. \A s \in acksync' \cap mem : <<logfile_number, s>> \in synced
    BY <1>0, <1>1, <2>2 DEF ReplayInv
  <2>4. acksync' \cap imm = acksync \cap imm
    BY <1>1, <1>4, <2>1
  <2> QED
    BY <1>0, <1>1, <2>3, <2>4 DEF ReplayInv
<1>8. LogInv'
  BY <1>0, <1>1 DEF LogInv
<1> QED
  BY <1>5, <1>6, <1>7, <1>8 DEF DataInv

-----------------------------------------------------------------------------
(* The steps of the background thread that move updates or remove logs. *)

\* LogAndApply installs imm_ as a table and moves the log number to the log
\* of mem_, which no switch has changed since TableBuilt.
LEMMA InstallMemTableStep ==
  ASSUME IndInv, DataInv, InstallMemTable
  PROVE  DataInv'
<1> USE DEF queueVars, roomVars, dataVars, logVars, jobVars, manVars,
        treeVars, histVars, clientVars
<1>0. TypeOK /\ QueueInv /\ GroupInv /\ MemInv /\ ReplayInv /\ LogInv
  BY DEF IndInv, DataInv
<1>1. /\ UNCHANGED <<mem, last_sequence, logfile_number, logfiles, logrec,
                     synced, acked, acksync, status, pc, op, writers, group_len,
                     edit_log>>
      /\ tables' = tables \cup imm /\ imm' = {} /\ has_imm' = FALSE
      /\ log_number' = logfile_number
  BY <1>0 DEF InstallMemTable, LogInv
<1>2. GroupInv'
  BY <1>0, <1>1 DEF GroupInv, GroupSeqs, Puts, Null, Sync, Written
<1>3. MemInv'
  <2>1. (mem \cup imm \cup tables)' = mem \cup imm \cup tables
    BY <1>1
  <2> QED
    BY <1>0, <1>1, <2>1
    DEF MemInv, VisibleIsAcked, GroupSeqs, Puts, Null, Written
<1>4. ReplayInv'
  BY <1>0, <1>1 DEF ReplayInv
<1>5. LogInv'
  <2>1. /\ log_number \in Nat /\ logfile_number \in Nat /\ logfiles \subseteq Nat
        /\ log_number <= logfile_number /\ deletions \subseteq Nat
    BY <1>0 DEF TypeOK, TypeLog, TypeJob, LogInv
  <2>2. \A n \in deletions' : n < logfile_number
    <3>1. edit_log = logfile_number
      BY <1>0 DEF InstallMemTable, LogInv
    <3>2. deletions' = deletions \/ deletions' = ObsoleteLogs(logfile_number)
      BY <3>1 DEF InstallMemTable
    <3>3. \A n \in deletions : n < logfile_number
      BY <1>0, <2>1 DEF LogInv
    <3>4. \A n \in ObsoleteLogs(logfile_number) : n < logfile_number
      BY DEF ObsoleteLogs
    <3> QED
      BY <3>2, <3>3, <3>4
  <2>3. bgpc' \notin {"build", "manifest"}
    BY DEF InstallMemTable, CompactMemTableReturns, BackgroundCallEnds
  <2> QED
    BY <1>0, <1>1, <2>1, <2>2, <2>3 DEF LogInv
<1> QED
  BY <1>2, <1>3, <1>4, <1>5 DEF DataInv

\* The logs that are deleted, without mutex_ and after other threads have
\* moved on, are still older than the log number.
LEMMA RemoveStep ==
  ASSUME IndInv, DataInv, RemoveObsoleteFiles
  PROVE  DataInv'
<1> USE DEF queueVars, roomVars, dataVars, logVars, jobVars, manVars,
        treeVars, histVars, clientVars
<1>0. TypeOK /\ QueueInv /\ GroupInv /\ MemInv /\ ReplayInv /\ LogInv
  BY DEF IndInv, DataInv
<1>1. /\ UNCHANGED <<mem, imm, has_imm, tables, last_sequence, logfile_number,
                     log_number, logrec, synced, acked, acksync, status, pc, op,
                     writers, group_len, edit_log>>
      /\ logfiles' = logfiles \ deletions /\ deletions' = {}
  BY DEF RemoveObsoleteFiles
<1>2. /\ log_number \in Nat /\ logfile_number \in Nat /\ logfiles \subseteq Nat
      /\ log_number <= logfile_number
  BY <1>0 DEF TypeOK, TypeLog, LogInv
<1>3. \A n \in logfiles : n >= log_number => n \in logfiles'
  BY <1>0, <1>1, <1>2 DEF LogInv
<1>4. GroupInv'
  BY <1>0, <1>1 DEF GroupInv, GroupSeqs, Puts, Null, Sync, Written
<1>5. MemInv'
  BY <1>0, <1>1
  DEF MemInv, VisibleIsAcked, GroupSeqs, Puts, Null, Written
<1>6. ReplayInv'
  BY <1>0, <1>1, <1>3 DEF ReplayInv
<1>7. LogInv'
  <2>1. bgpc' \notin {"build", "manifest"}
    BY DEF RemoveObsoleteFiles, CompactMemTableReturns, BackgroundCallEnds
  <2>2. logfile_number \in logfiles'
    BY <1>0, <1>2, <1>3 DEF LogInv
  <2> QED
    BY <1>0, <1>1, <2>1, <2>2 DEF LogInv
<1> QED
  BY <1>4, <1>5, <1>6, <1>7 DEF DataInv

-----------------------------------------------------------------------------
(* The theorems. *)

LEMMA InitDataInv == Init => DataInv
<1> SUFFICES ASSUME Init PROVE DataInv
  OBVIOUS
<1>1. GroupInv
  BY DEF Init, GroupInv, Logging
<1>2. MemInv
  BY DEF Init, MemInv, VisibleIsAcked
<1>3. LogInv
  BY DEF Init, LogInv
<1>4. ReplayInv
  BY DEF Init, ReplayInv
<1> QED
  BY <1>1, <1>2, <1>3, <1>4 DEF DataInv

\* Every step keeps DataInv.
LEMMA NextDataInv == IndInv /\ DataInv /\ [Next]_vars => DataInv'
<1> SUFFICES ASSUME IndInv, DataInv, [Next]_vars PROVE DataInv'
  OBVIOUS
<1>1. ASSUME NEW c \in Clients, Call(c) \/ Client(c) PROVE DataInv'
  BY <1>1, OtherClientStep, RoomFoundStep, RoomSwitchStep, AddRecordStep,
     SyncLogStep, InsertIntoStep, CommitStep
  DEF Client
<1>2. ASSUME RecordReadSample \/ Background PROVE DataInv'
  BY <1>2, OtherBackgroundStep, InstallMemTableStep, RemoveStep DEF Background
<1>3. CASE UNCHANGED vars
  <2> USE DEF vars, queueVars, roomVars, dataVars, logVars, jobVars, manVars,
          treeVars, histVars
  <2>1. GroupInv' /\ MemInv' /\ ReplayInv'
    BY <1>3, DataFrame DEF IndInv, DataInv
  <2>2. LogInv'
    BY <1>3 DEF DataInv, LogInv
  <2> QED
    BY <2>1, <2>2 DEF DataInv
<1> QED
  BY <1>1, <1>2, <1>3 DEF Next, Quiescent

LEMMA DataInvHolds == Spec => []DataInv
  BY InitDataInv, NextDataInv, IndInvHolds, PTL DEF Spec

\* Readers see exactly what was acknowledged, however many threads write and
\* whatever fails: a group whose log append or sync failed leaves nothing
\* behind that a later SetLastSequence would publish (db_impl.cc, Write).
THEOREM VisibleIsAckedHolds == Spec => []VisibleIsAcked
<1>1. DataInv => VisibleIsAcked
  BY DEF DataInv, MemInv
<1> QED
  BY <1>1, DataInvHolds, PTL

\* No acknowledged update is lost with the memtables: until it is in a table,
\* a log that exists and that recovery reads has it, through memtable
\* switches, flushes inside compactions and the deletion of old logs.
THEOREM AckedIsRecoverableHolds == Spec => []AckedIsRecoverable
<1>1. DataInv => AckedIsRecoverable
  <2> SUFFICES ASSUME DataInv, NEW s \in acked, s \notin tables
               PROVE  \E n \in logfiles : n >= log_number /\ <<n, s>> \in logrec
    BY DEF AckedIsRecoverable
  <2>1. s \in mem \/ s \in imm
    BY DEF DataInv, MemInv, VisibleIsAcked
  <2>2. s \in mem => <<logfile_number, s>> \in logrec
    BY DEF DataInv, ReplayInv
  <2>3. logfile_number \in logfiles /\ logfile_number >= log_number
    BY DEF DataInv, LogInv
  <2> QED
    BY <2>1, <2>2, <2>3 DEF DataInv, ReplayInv
<1> QED
  BY <1>1, DataInvHolds, PTL

\* An update acknowledged with sync is in a table or on the disk in a log
\* that recovery reads, also when its write rode in another thread's group.
THEOREM SyncedIsDurableHolds == Spec => []SyncedIsDurable
<1>1. TypeOK /\ DataInv => SyncedIsDurable
  <2> SUFFICES ASSUME TypeOK, DataInv, NEW s \in acksync, s \notin tables
               PROVE  \E n \in logfiles : n >= log_number /\ <<n, s>> \in synced
    BY DEF SyncedIsDurable
  <2>1. s \in mem \/ s \in imm
    BY DEF DataInv, MemInv, VisibleIsAcked, TypeOK, TypeHist
  <2>2. s \in mem => <<logfile_number, s>> \in synced
    BY DEF DataInv, ReplayInv
  <2>3. logfile_number \in logfiles /\ logfile_number >= log_number
    BY DEF DataInv, LogInv, TypeOK, TypeLog
  <2> QED
    BY <2>1, <2>2, <2>3 DEF DataInv, ReplayInv
<1> QED
  BY <1>1, DataInvHolds, TypeCorrect, PTL

=============================================================================
