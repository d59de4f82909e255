--------------------------- MODULE PosixEnvProofs ---------------------------
(***************************************************************************)
(* Proofs about the parts of the POSIX environment (env_posix.cc) that the *)
(* database relies on: the background work queue (WorkQueue), the LOCK     *)
(* file (FileLock) and buffered files (WritableFile).                      *)
(***************************************************************************)
EXTENDS WorkQueue, FileLock, WritableFile, TLAPS, FiniteSetTheorems,
        SequenceTheorems

-----------------------------------------------------------------------------
(* The work queue. *)

WQType ==
    /\ work_mutex \in Callers \cup Workers \cup {NoOne} /\ started \in BOOLEAN
    /\ work_queue \in Seq(Nat) /\ emplaced \in Seq(Nat) /\ ran \in Seq(Nat)
    /\ schedule \in [Callers \cup Workers -> {"out", "lock", "start", "signal", "emplace"}]
    /\ worker \in [Workers -> [pc : {"none", "lock", "test", "wait", "run"}, work : Nat]]

\* background_work_mutex_ is held by whoever is in a section it guards. Only
\* work that runs is in Schedule on a background thread.
WQMutex ==
    /\ \A t \in Callers \cup Workers : schedule[t] \in {"start", "signal", "emplace"} => work_mutex = t
    /\ \A w \in Workers : worker[w].pc = "test" => work_mutex = w
    /\ \A w \in Workers : schedule[w] # "out" => worker[w].pc = "run"

\* One thread is started, by the first call.
WQStarted ==
    /\ \A w, v \in Workers : worker[w].pc # "none" /\ worker[v].pc # "none" => w = v
    /\ started <=> \E w \in Workers : worker[w].pc # "none"
    /\ \A t \in Callers \cup Workers : schedule[t] \in {"signal", "emplace"} => started

\* When work enters the queue the thread has been woken: between the signal
\* and that moment it cannot go back to sleep, for the caller has the mutex.
WQAwake ==
    \A t \in Callers \cup Workers : schedule[t] = "emplace" =>
        \E w \in Workers : worker[w].pc \notin {"none", "wait"}

WQInv == WQType /\ WQMutex /\ WQStarted /\ WQAwake /\ NoWorkForgotten /\ ran \o work_queue = emplaced

\* Work that enters the queue comes last ...
LEMMA EnqueuedInOrder ==
    ASSUME NEW r \in Seq(Nat), NEW q \in Seq(Nat), NEW x \in Nat
    PROVE  r \o Append(q, x) = Append(r \o q, x)
  BY AppendIsConcat, ConcatAssociative, ConcatProperties

\* ... and the work that is begun is the first of the queue.
LEMMA BegunInOrder ==
    ASSUME NEW r \in Seq(Nat), NEW q \in Seq(Nat), q # <<>>
    PROVE  Append(r, Head(q)) \o Tail(q) = r \o q
<1>1. q = <<Head(q)>> \o Tail(q)
  OBVIOUS
<1>2. Head(q) \in Nat /\ Tail(q) \in Seq(Nat) /\ <<Head(q)>> \in Seq(Nat)
  OBVIOUS
<1>3. Append(r, Head(q)) = r \o <<Head(q)>>
  BY <1>2, AppendIsConcat
<1> QED
  BY <1>1, <1>2, <1>3, ConcatAssociative

\* At most one worker runs work, as there is at most one.
LEMMA OneRuns ==
    ASSUME WQInv
    PROVE  Cardinality({w \in Workers : worker[w].pc = "run"}) <= 1
<1> DEFINE R == {w \in Workers : worker[w].pc = "run"}
<1>1. \A w, v \in R : w = v
  BY DEF WQInv, WQStarted
<1>2. CASE R = {}
  BY <1>2, FS_EmptySet
<1>3. CASE R # {}
  <2>1. PICK w \in R : TRUE
    BY <1>3
  <2>2. R = {w}
    BY <1>1, <2>1
  <2>3. Cardinality({w}) = 1
    BY FS_Singleton
  <2> QED
    BY <2>2, <2>3
<1> QED
  BY <1>2, <1>3

LEMMA WQInitInv == WQInit => WQInv
<1> SUFFICES ASSUME WQInit PROVE WQInv
  OBVIOUS
<1> USE WorkQueueAssumption DEF WQInit
<1>1. WQType
  <2>1. worker \in [Workers -> [pc : {"none", "lock", "test", "wait", "run"}, work : Nat]]
    BY DEF NoWork
  <2>2. work_queue \in Seq(Nat) /\ emplaced \in Seq(Nat) /\ ran \in Seq(Nat)
    OBVIOUS
  <2> QED
    BY <2>1, <2>2 DEF WQType
<1>2. WQMutex /\ WQStarted /\ WQAwake /\ NoWorkForgotten
  BY DEF WQMutex, WQStarted, WQAwake, NoWorkForgotten
<1>3. ran \o work_queue = emplaced
  OBVIOUS
<1> QED
  BY <1>1, <1>2, <1>3 DEF WQInv

LEMMA WQNextInv ==
    ASSUME WQInv, [WQNext]_wqVars
    PROVE  WQInv'
<1> USE WorkQueueAssumption DEF WQInv
<1>1. ASSUME NEW t \in Callers \cup Workers, Schedule(t) PROVE WQInv'
  BY <1>1 DEF Schedule, MayCall, WQType, WQMutex, WQStarted, WQAwake, NoWorkForgotten, Workers
<1>2. ASSUME NEW t \in Callers \cup Workers, ScheduleLock(t) PROVE WQInv'
  BY <1>2 DEF ScheduleLock, WQType, WQMutex, WQStarted, WQAwake, NoWorkForgotten
<1>3. ASSUME NEW t \in Callers \cup Workers, StartThread(t) PROVE WQInv'
  <2> USE <1>3 DEF StartThread
  <2>1. WQType' /\ work_mutex = t
    <3>1. worker' \in [Workers -> [pc : {"none", "lock", "test", "wait", "run"}, work : Nat]]
      <4>1. CASE started
        BY <4>1 DEF WQType
      <4>2. CASE ~started
        <5>1. PICK w \in Workers : worker' = [worker EXCEPT ![w].pc = "lock"]
          BY <4>2
        <5> QED
          BY <5>1 DEF WQType
      <4> QED
        BY <4>1, <4>2
    <3>2. work_mutex = t /\ started' \in BOOLEAN
      BY DEF WQMutex
    <3> QED
      BY <3>1, <3>2 DEF WQType
  <2>2. CASE started
    <3>1. worker' = worker /\ started' = started
      BY <2>2
    <3> QED
      BY <2>1, <2>2, <3>1 DEF WQType, WQMutex, WQStarted, WQAwake, NoWorkForgotten
  <2>3. CASE ~started
    <3>1. PICK w \in Workers : worker[w].pc = "none" /\ worker' = [worker EXCEPT ![w].pc = "lock"]
      BY <2>3
    <3>2. \A v \in Workers : worker'[v].pc = IF v = w THEN "lock" ELSE worker[v].pc
      BY <3>1 DEF WQType
    <3>3. \A v \in Workers : worker[v].pc = "none" /\ schedule[v] = "out"
      BY <2>3 DEF WQStarted, WQMutex
    <3>4. WQMutex'
      BY <2>1, <3>2, <3>3 DEF WQMutex, WQType
    <3>5. WQStarted'
      BY <2>1, <3>2, <3>3 DEF WQStarted, WQType
    <3>6. WQAwake' /\ NoWorkForgotten'
      BY <3>2 DEF WQAwake, NoWorkForgotten, WQType
    <3> QED
      BY <2>1, <3>4, <3>5, <3>6
  <2> QED
    BY <2>2, <2>3
<1>4. ASSUME NEW t \in Callers \cup Workers, Signal(t) PROVE WQInv'
  <2> USE <1>4 DEF Signal, Signalled
  <2>1. work_mutex = t /\ started
    BY DEF WQMutex, WQStarted
  <2>2. PICK v \in Workers : worker[v].pc # "none"
    BY <2>1 DEF WQStarted
  <2>3. /\ worker' \in [Workers -> [pc : {"none", "lock", "test", "wait", "run"}, work : Nat]]
        /\ \A w \in Workers :
              (worker'[w].pc = worker[w].pc) \/ (worker[w].pc = "wait" /\ worker'[w].pc = "lock")
    <3>1. CASE worker' = worker
      BY <3>1 DEF WQType
    <3>2. CASE worker' # worker
      <4>1. PICK w \in Workers : worker[w].pc = "wait" /\ worker' = [worker EXCEPT ![w].pc = "lock"]
        BY <3>2
      <4> QED
        BY <4>1 DEF WQType
    <3> QED
      BY <3>1, <3>2
  <2>4. WQType'
    BY <2>3 DEF WQType
  <2>5. worker'[v].pc \notin {"none", "wait"}
    <3>1. CASE worker[v].pc # "wait"
      BY <2>2, <2>3, <3>1
    <3>2. CASE worker[v].pc = "wait"
      <4>1. work_queue = <<>>
        BY <2>2, <3>2 DEF NoWorkForgotten, WQStarted
      <4>2. {w \in Workers : worker[w].pc = "wait"} = {v}
        BY <2>2, <3>2 DEF WQStarted
      <4> QED
        BY <4>1, <4>2 DEF WQType
    <3> QED
      BY <3>1, <3>2
  <2>6. WQMutex'
    BY <2>1, <2>3 DEF WQMutex, WQType
  <2>7. WQStarted'
    <3>1. \A w \in Workers : worker'[w].pc # "none" <=> worker[w].pc # "none"
      BY <2>3
    <3>2. started' = started /\ started
      BY <2>1
    <3> QED
      BY <3>1, <3>2 DEF WQStarted
  <2>8. WQAwake' /\ NoWorkForgotten'
    BY <2>5 DEF WQAwake, NoWorkForgotten
  <2> QED
    BY <2>4, <2>6, <2>7, <2>8
<1>5. ASSUME NEW t \in Callers \cup Workers, Emplace(t) PROVE WQInv'
  <2> USE <1>5 DEF Emplace
  <2> DEFINE work == Len(emplaced) + 1
  <2>1. work \in Nat /\ emplaced' = Append(emplaced, work) /\ work_queue' = Append(work_queue, work)
    BY DEF WQType
  <2>2. ran' \o work_queue' = emplaced'
    <3>1. ran \o Append(work_queue, work) = Append(ran \o work_queue, work)
      BY <2>1, EnqueuedInOrder DEF WQType
    <3>2. ran' = ran /\ ran \o work_queue = emplaced
      OBVIOUS
    <3> HIDE DEF work
    <3> QED
      BY <2>1, <3>1, <3>2
  <2>3. WQType'
    BY <2>1 DEF WQType
  <2>4. WQMutex' /\ WQStarted'
    BY DEF WQMutex, WQStarted, WQType
  <2>5. WQAwake' /\ NoWorkForgotten'
    BY DEF WQAwake, NoWorkForgotten, WQType
  <2> QED
    BY <2>2, <2>3, <2>4, <2>5
<1>6. ASSUME NEW w \in Workers, WorkerLock(w) PROVE WQInv'
  <2> USE <1>6 DEF WorkerLock
  <2>1. WQType'
    BY DEF WQType
  <2>2. WQMutex'
    BY DEF WQMutex, WQType
  <2>3. WQStarted'
    BY DEF WQStarted, WQType
  <2>4. WQAwake' /\ NoWorkForgotten'
    BY DEF WQAwake, NoWorkForgotten, WQType
  <2> QED
    BY <2>1, <2>2, <2>3, <2>4
<1>7. ASSUME NEW w \in Workers, Wait(w) PROVE WQInv'
  <2> USE <1>7 DEF Wait
  <2>1. WQType' /\ ran' \o work_queue' = emplaced'
    BY DEF WQType
  <2>2. WQMutex'
    BY DEF WQMutex, WQType
  <2>3. WQStarted'
    BY DEF WQStarted, WQType
  <2>4. WQAwake' /\ NoWorkForgotten'
    BY DEF WQAwake, NoWorkForgotten, WQType, WQMutex
  <2> QED
    BY <2>1, <2>2, <2>3, <2>4
<1>8. ASSUME NEW w \in Workers, WakeUp(w) PROVE WQInv'
  <2> USE <1>8 DEF WakeUp
  <2>1. WQType' /\ ran' \o work_queue' = emplaced'
    BY DEF WQType
  <2>2. WQMutex'
    BY DEF WQMutex, WQType
  <2>3. WQStarted'
    BY DEF WQStarted, WQType
  <2>4. WQAwake' /\ NoWorkForgotten'
    BY DEF WQAwake, NoWorkForgotten, WQType
  <2> QED
    BY <2>1, <2>2, <2>3, <2>4
<1>9. ASSUME NEW w \in Workers, Pop(w) PROVE WQInv'
  <2> USE <1>9 DEF Pop
  <2>1. Head(work_queue) \in Nat /\ Tail(work_queue) \in Seq(Nat)
    BY DEF WQType
  <2>2. ran' \o work_queue' = emplaced'
    BY BegunInOrder DEF WQType
  <2>3. WQType'
    BY <2>1 DEF WQType
  <2>4. WQMutex'
    BY DEF WQMutex, WQType
  <2>5. WQStarted'
    BY DEF WQStarted, WQType
  <2>6. WQAwake' /\ NoWorkForgotten'
    BY <2>3 DEF WQAwake, NoWorkForgotten, WQType
  <2> QED
    BY <2>2, <2>3, <2>4, <2>5, <2>6
<1>10. ASSUME NEW w \in Workers, WorkDone(w) PROVE WQInv'
  <2> USE <1>10 DEF WorkDone, NoWork
  <2>1. WQType' /\ ran' \o work_queue' = emplaced'
    BY DEF WQType
  <2>2. WQMutex'
    BY DEF WQMutex, WQType
  <2>3. WQStarted'
    BY DEF WQStarted, WQType
  <2>4. WQAwake' /\ NoWorkForgotten'
    BY DEF WQAwake, NoWorkForgotten, WQType
  <2> QED
    BY <2>1, <2>2, <2>3, <2>4
<1>11. CASE UNCHANGED wqVars
  BY <1>11 DEF wqVars, WQType, WQMutex, WQStarted, WQAwake, NoWorkForgotten
<1> QED
  BY <1>1, <1>2, <1>3, <1>4, <1>5, <1>6, <1>7, <1>8, <1>9, <1>10, <1>11 DEF WQNext

\* The background work queue keeps the inductive invariant.
THEOREM WQInvariant == WQSpec => []WQInv
  BY WQInitInv, WQNextInv, PTL DEF WQSpec

\* No wakeup is lost between Schedule and BackgroundThreadMain, whatever the
\* number of callers and of calls (env_posix.cc:814-852).
THEOREM NoWorkForgottenHolds == WQSpec => []NoWorkForgotten
<1>1. WQInv => NoWorkForgotten
  BY DEF WQInv
<1> QED
  BY <1>1, WQInvariant, PTL

\* Work is begun in the order of the calls of Schedule, each once and one at a
\* time, for every number of callers and calls (env_posix.cc:814-852).
THEOREM InOrderOneAtATimeHolds == WQSpec => []InOrderOneAtATime
<1>1. WQInv => InOrderOneAtATime
  BY OneRuns DEF WQInv, InOrderOneAtATime
<1> QED
  BY <1>1, WQInvariant, PTL

-----------------------------------------------------------------------------
(* The LOCK file. *)

Owning == {"fcntl", "denied", "forget", "held", "remove"}

\* A user that is in a call or has the database open has a descriptor.
UserStates ==
    {r \in [pc : Owning \cup {"away", "insert", "refused", "close", "unlink"},
            fd : 0 .. MaxInodes, destroy : BOOLEAN] :
        r.pc \notin {"away", "unlink"} => r.fd # NoInode}

FLType ==
    /\ lockFile \in 0 .. MaxInodes /\ inodes \in 0 .. MaxInodes
    /\ fcntlLock \in [1 .. MaxInodes -> Processes \cup {NoProcess}]
    /\ locked \subseteq Processes
    /\ user \in [Users -> UserStates]
    /\ kept \subseteq Processes \X (1 .. MaxInodes)

\* The process has a lock it failed to release.
Keeps(p) == \E k \in kept : k[1] = p

\* A name in locks_ belongs to exactly one user of the process, or to an unlock
\* that failed, and the kernel's lock of an inode to a user that has the
\* database open through that inode, or to an unlock of it that failed.
FLOwners ==
    /\ \A u \in Users : user[u].pc \in Owning => ProcessOf[u] \in locked
    /\ \A u, v \in Users : user[u].pc \in Owning /\ user[v].pc \in Owning /\ ProcessOf[u] = ProcessOf[v] => u = v
    /\ \A p \in locked : Keeps(p) \/ \E u \in Users : ProcessOf[u] = p /\ user[u].pc \in Owning
    /\ \A p \in Processes : Keeps(p) => p \in locked /\ \A u \in Users : ProcessOf[u] = p => user[u].pc \notin Owning
    /\ \A i \in 1 .. MaxInodes : fcntlLock[i] # NoProcess =>
          \/ <<fcntlLock[i], i>> \in kept
          \/ \E u \in Users : user[u].pc = "held" /\ ProcessOf[u] = fcntlLock[i] /\ user[u].fd = i

FLInv == FLType /\ FLOwners

LEMMA FLInitInv == FLInit => FLInv
<1> SUFFICES ASSUME FLInit PROVE FLInv
  OBVIOUS
<1>1. Away \in UserStates
  BY FileLockAssumption DEF Away, UserStates, NoInode
<1>2. FLType
  BY <1>1, FileLockAssumption DEF FLInit, FLType, NoInode
<1>3. FLOwners
  BY DEF FLInit, FLOwners, Away, Owning, Keeps
<1> QED
  BY <1>2, <1>3 DEF FLInv

LEMMA UserMoves ==
    ASSUME FLType, NEW u \in Users, user[u].pc \notin {"away", "unlink"},
           NEW pc \in Owning \cup {"refused", "close"}, To(u, pc)
    PROVE  /\ user' \in [Users -> UserStates]
           /\ \A v \in Users : user'[v].pc = (IF v = u THEN pc ELSE user[v].pc) /\ user'[v].fd = user[v].fd
<1>1. user[u] \in UserStates /\ [user[u] EXCEPT !.pc = pc] \in UserStates
  BY DEF FLType, UserStates
<1> QED
  BY <1>1 DEF FLType, To

LEMMA UserLeaves ==
    ASSUME FLType, NEW u \in Users, user' = [user EXCEPT ![u] = Away]
    PROVE  user' \in [Users -> UserStates] /\ \A v \in Users : user'[v] = IF v = u THEN Away ELSE user[v]
<1>1. Away \in UserStates
  BY FileLockAssumption DEF Away, UserStates, NoInode
<1> QED
  BY <1>1 DEF FLType

\* After UnlockFile the user is away, or DestroyDB has the file to remove.
LEMMA UserGoesOn ==
    ASSUME FLType, NEW u \in Users, AfterUnlock(u)
    PROVE  /\ user' \in [Users -> UserStates] /\ \A v \in Users \ {u} : user'[v] = user[v]
           /\ user'[u].pc \in {"away", "unlink"}
<1> DEFINE r == IF user[u].destroy THEN [user[u] EXCEPT !.pc = "unlink", !.fd = NoInode] ELSE Away
<1>1. r \in UserStates /\ r.pc \in {"away", "unlink"}
  <2>1. user[u] \in UserStates
    BY DEF FLType
  <2>2. CASE user[u].destroy
    <3>1. r = [pc |-> "unlink", fd |-> NoInode, destroy |-> user[u].destroy]
      BY <2>1, <2>2 DEF UserStates
    <3>2. user[u].destroy \in BOOLEAN
      BY <2>1 DEF UserStates
    <3> HIDE DEF r
    <3> QED
      BY <3>1, <3>2, FileLockAssumption DEF UserStates, NoInode
  <2>3. CASE ~user[u].destroy
    BY <2>3, FileLockAssumption DEF UserStates, NoInode, Away
  <2> QED
    BY <2>2, <2>3
<1>2. user' = [user EXCEPT ![u] = r]
  BY DEF FLType, AfterUnlock
<1> HIDE DEF r
<1> QED
  BY <1>1, <1>2 DEF FLType

\* A step that leaves the locks alone, of a user that goes from one owning place
\* to another or from one place that does not own to another.
LEMMA FLStepInv ==
    ASSUME FLInv, NEW u \in Users,
           FLType', UNCHANGED <<locked, fcntlLock, kept>>,
           \A v \in Users \ {u} : user'[v].pc = user[v].pc /\ user'[v].fd = user[v].fd,
           user[u].pc \in Owning <=> user'[u].pc \in Owning,
           user[u].pc # "held"
    PROVE  FLInv'
  BY DEF FLInv, FLOwners, Keeps

\* Giving up locks of the kernel needs nothing.
LEMMA FLReleaseInv ==
    ASSUME FLInv, NEW u \in Users,
           FLType', UNCHANGED <<locked, kept>>,
           \A i \in 1 .. MaxInodes : fcntlLock'[i] \in {fcntlLock[i], NoProcess},
           \A v \in Users \ {u} : user'[v].pc = user[v].pc /\ user'[v].fd = user[v].fd,
           user[u].pc \in Owning <=> user'[u].pc \in Owning,
           user[u].pc # "held"
    PROVE  FLInv'
  BY DEF FLInv, FLOwners, Keeps

\* Closing a descriptor can only give a lock up.
LEMMA DescriptorCloses ==
    ASSUME FLType, NEW u \in Users, CloseDescriptor(u)
    PROVE  /\ fcntlLock' \in [1 .. MaxInodes -> Processes \cup {NoProcess}]
           /\ \A i \in 1 .. MaxInodes : fcntlLock'[i] \in {fcntlLock[i], NoProcess}
  BY DEF FLType, CloseDescriptor

LEMMA FLNextInv ==
    ASSUME FLInv, [FLNext]_flVars
    PROVE  FLInv'
<1> USE FileLockAssumption
<1>1. ASSUME NEW u \in Users, NEW destroy \in BOOLEAN, OpenLockFile(u, destroy) PROVE FLInv'
  <2> USE <1>1 DEF OpenLockFile
  <2> DEFINE i == IF lockFile = NoInode THEN inodes + 1 ELSE lockFile
             r == [pc |-> "insert", fd |-> i, destroy |-> destroy]
  <2>1. i \in 1 .. MaxInodes /\ lockFile' = i /\ inodes' \in 0 .. MaxInodes
    BY DEF FLInv, FLType, NoInode
  <2>2. r \in UserStates
    BY <2>1 DEF UserStates, NoInode
  <2>3. user' = [user EXCEPT ![u] = r]
    OBVIOUS
  <2> HIDE DEF i, r
  <2>4. FLType'
    BY <2>1, <2>2, <2>3 DEF FLInv, FLType
  <2>5. user[u].pc = "away" /\ user'[u].pc = "insert"
    BY <2>3 DEF FLInv, FLType, r
  <2> QED
    BY <2>3, <2>4, <2>5, FLStepInv DEF FLInv, FLType, Owning
<1>2. ASSUME NEW u \in Users, InsertLock(u) PROVE FLInv'
  <2> USE <1>2 DEF InsertLock
  <2>1. CASE ProcessOf[u] \in locked
    <3>1. /\ user' \in [Users -> UserStates]
          /\ \A v \in Users : user'[v].pc = (IF v = u THEN "refused" ELSE user[v].pc) /\ user'[v].fd = user[v].fd
      BY <2>1, UserMoves DEF FLInv
    <3>2. FLType'
      BY <2>1, <3>1 DEF FLInv, FLType
    <3> QED
      BY <2>1, <3>1, <3>2, FLStepInv DEF Owning
  <2>2. CASE ProcessOf[u] \notin locked
    <3>1. /\ user' \in [Users -> UserStates]
          /\ \A v \in Users : user'[v].pc = (IF v = u THEN "fcntl" ELSE user[v].pc) /\ user'[v].fd = user[v].fd
      BY <2>2, UserMoves DEF FLInv, Owning
    <3>2. FLType'
      BY <2>2, <3>1 DEF FLInv, FLType, Processes
    <3>3. FLOwners'
      BY <2>2, <3>1 DEF FLInv, FLOwners, Owning, Keeps, Processes
    <3> QED
      BY <3>2, <3>3 DEF FLInv
  <2> QED
    BY <2>1, <2>2
<1>3. ASSUME NEW u \in Users, Refused(u) PROVE FLInv'
  <2> USE <1>3 DEF Refused
  <2>1. user' \in [Users -> UserStates] /\ \A v \in Users : user'[v] = IF v = u THEN Away ELSE user[v]
    BY UserLeaves DEF FLInv
  <2>2. FLType' /\ \A i \in 1 .. MaxInodes : fcntlLock'[i] \in {fcntlLock[i], NoProcess}
    BY <2>1, DescriptorCloses DEF FLInv, FLType
  <2> QED
    BY <2>1, <2>2, FLReleaseInv DEF Owning, Away
<1>4. ASSUME NEW u \in Users, Fcntl(u) PROVE FLInv'
  <2> USE <1>4 DEF Fcntl
  <2>1. user[u].fd \in 1 .. MaxInodes /\ ProcessOf[u] \in Processes
    BY DEF FLInv, FLType, Processes, UserStates, NoInode
  <2>2. CASE /\ fcntlLock' = [fcntlLock EXCEPT ![user[u].fd] = ProcessOf[u]] /\ To(u, "held")
    <3>1. /\ user' \in [Users -> UserStates]
          /\ \A v \in Users : user'[v].pc = (IF v = u THEN "held" ELSE user[v].pc) /\ user'[v].fd = user[v].fd
      BY <2>2, UserMoves DEF FLInv, Owning
    <3>2. FLType'
      BY <2>1, <2>2, <3>1 DEF FLInv, FLType
    <3>3. \A i \in 1 .. MaxInodes : fcntlLock'[i] = IF i = user[u].fd THEN ProcessOf[u] ELSE fcntlLock[i]
      BY <2>2 DEF FLInv, FLType
    <3>4. FLOwners'
      BY <2>1, <3>1, <3>3 DEF FLInv, FLOwners, Owning, Keeps, Processes
    <3> QED
      BY <3>2, <3>4 DEF FLInv
  <2>3. CASE UNCHANGED fcntlLock /\ To(u, "denied")
    <3>1. /\ user' \in [Users -> UserStates]
          /\ \A v \in Users : user'[v].pc = (IF v = u THEN "denied" ELSE user[v].pc) /\ user'[v].fd = user[v].fd
      BY <2>3, UserMoves DEF FLInv, Owning
    <3>2. FLType'
      BY <2>3, <3>1 DEF FLInv, FLType
    <3> QED
      BY <2>3, <3>1, <3>2, FLStepInv DEF Owning
  <2> QED
    BY <2>2, <2>3
<1>5. ASSUME NEW u \in Users, Denied(u) PROVE FLInv'
  <2> USE <1>5 DEF Denied
  <2>1. /\ user' \in [Users -> UserStates]
        /\ \A v \in Users : user'[v].pc = (IF v = u THEN "forget" ELSE user[v].pc) /\ user'[v].fd = user[v].fd
    BY UserMoves DEF FLInv, Owning
  <2>2. FLType' /\ \A i \in 1 .. MaxInodes : fcntlLock'[i] \in {fcntlLock[i], NoProcess}
    BY <2>1, DescriptorCloses DEF FLInv, FLType
  <2> QED
    BY <2>1, <2>2, FLReleaseInv DEF Owning
<1>6. ASSUME NEW u \in Users, DeniedRemoves(u) PROVE FLInv'
  <2> USE <1>6 DEF DeniedRemoves
  <2>1. user' \in [Users -> UserStates] /\ \A v \in Users : user'[v] = IF v = u THEN Away ELSE user[v]
    BY UserLeaves DEF FLInv
  <2>2. FLType'
    BY <2>1 DEF FLInv, FLType
  <2>3. FLOwners'
    BY <2>1 DEF FLInv, FLOwners, Owning, Keeps, Processes, Away
  <2> QED
    BY <2>2, <2>3 DEF FLInv
<1>7. ASSUME NEW u \in Users, Unlock(u) PROVE FLInv'
  <2> USE <1>7 DEF Unlock
  <2>1. /\ user' \in [Users -> UserStates]
        /\ \A v \in Users : user'[v].pc = (IF v = u THEN "remove" ELSE user[v].pc) /\ user'[v].fd = user[v].fd
    BY UserMoves DEF FLInv, Owning
  <2>2. FLType'
    BY <2>1 DEF FLInv, FLType
  <2>3. \A i \in 1 .. MaxInodes :
           fcntlLock'[i] = IF i = user[u].fd /\ fcntlLock[i] = ProcessOf[u] THEN NoProcess ELSE fcntlLock[i]
    BY DEF FLInv, FLType
  <2>4. FLOwners'
    BY <2>1, <2>3 DEF FLInv, FLOwners, Owning, Keeps, Processes
  <2> QED
    BY <2>2, <2>4 DEF FLInv
<1>8. ASSUME NEW u \in Users, RemoveLock(u) PROVE FLInv'
  <2> USE <1>8 DEF RemoveLock
  <2>1. /\ user' \in [Users -> UserStates]
        /\ \A v \in Users : user'[v].pc = (IF v = u THEN "close" ELSE user[v].pc) /\ user'[v].fd = user[v].fd
    BY UserMoves DEF FLInv
  <2>2. FLType'
    BY <2>1 DEF FLInv, FLType
  <2>3. FLOwners'
    BY <2>1 DEF FLInv, FLOwners, Owning, Keeps, Processes
  <2> QED
    BY <2>2, <2>3 DEF FLInv
<1>9. ASSUME NEW u \in Users, CloseLock(u) PROVE FLInv'
  <2> USE <1>9 DEF CloseLock
  <2>1. /\ user' \in [Users -> UserStates] /\ \A v \in Users \ {u} : user'[v] = user[v]
        /\ user'[u].pc \in {"away", "unlink"}
    BY UserGoesOn DEF FLInv
  <2>2. FLType' /\ \A i \in 1 .. MaxInodes : fcntlLock'[i] \in {fcntlLock[i], NoProcess}
    BY <2>1, DescriptorCloses DEF FLInv, FLType
  <2> QED
    BY <2>1, <2>2, FLReleaseInv DEF Owning
<1>10. ASSUME NEW u \in Users, UnlinkLock(u) PROVE FLInv'
  <2> USE <1>10 DEF UnlinkLock
  <2>1. user' \in [Users -> UserStates] /\ \A v \in Users : user'[v] = IF v = u THEN Away ELSE user[v]
    BY UserLeaves DEF FLInv
  <2>2. FLType'
    BY <2>1 DEF FLInv, FLType, NoInode
  <2> QED
    BY <2>1, <2>2, FLStepInv DEF Owning, Away
<1>11. ASSUME NEW p \in Processes, ProcessExit(p) PROVE FLInv'
  <2> USE <1>11 DEF ProcessExit
  <2>1. Away \in UserStates
    BY DEF Away, UserStates, NoInode
  <2>2. FLType'
    BY <2>1 DEF FLInv, FLType
  <2>3. \A u \in Users : user'[u] = IF ProcessOf[u] = p THEN Away ELSE user[u]
    OBVIOUS
  <2>4. \A i \in 1 .. MaxInodes : fcntlLock'[i] = IF fcntlLock[i] = p THEN NoProcess ELSE fcntlLock[i]
    OBVIOUS
  <2>5. locked' = locked \ {p}
    OBVIOUS
  <2>6. kept' = {k \in kept : k[1] # p}
    OBVIOUS
  <2>7. \A q : Keeps(q)' <=> Keeps(q) /\ q # p
    BY <2>6 DEF Keeps
  <2>8. \A i \in 1 .. MaxInodes : <<fcntlLock[i], i>> \in kept /\ fcntlLock[i] # p => <<fcntlLock[i], i>> \in kept'
    BY <2>6
  <2>9. FLOwners'
    BY ONLY FLInv, <2>3, <2>4, <2>5, <2>7, <2>8 DEF FLInv, FLOwners, Away, Owning
  <2> QED
    BY <2>2, <2>9 DEF FLInv
<1>12. ASSUME NEW u \in Users, UnlockFails(u) PROVE FLInv'
  <2> USE <1>12 DEF UnlockFails
  <2>1. /\ user' \in [Users -> UserStates] /\ \A v \in Users \ {u} : user'[v] = user[v]
        /\ user'[u].pc \in {"away", "unlink"}
    BY UserGoesOn DEF FLInv
  <2>2. user[u].fd \in 1 .. MaxInodes /\ ProcessOf[u] \in Processes
    BY DEF FLInv, FLType, Processes, UserStates, NoInode
  <2>3. FLType'
    BY <2>1, <2>2 DEF FLInv, FLType
  <2>4. kept' = kept \cup {<<ProcessOf[u], user[u].fd>>} /\ UNCHANGED <<locked, fcntlLock>>
    OBVIOUS
  <2>5. \A p : Keeps(p)' <=> Keeps(p) \/ p = ProcessOf[u]
    <3>1. PICK k : k = <<ProcessOf[u], user[u].fd>>
      OBVIOUS
    <3>2. kept' = kept \cup {k} /\ k[1] = ProcessOf[u]
      BY <2>4, <3>1
    <3> QED
      BY ONLY <3>2 DEF Keeps
  <2>6. user[u].pc = "held"
    OBVIOUS
  <2>7. FLOwners'
    BY ONLY FLInv, <2>1, <2>2, <2>4, <2>5, <2>6 DEF FLInv, FLOwners, Owning
  <2> QED
    BY <2>3, <2>7 DEF FLInv
<1>13. CASE UNCHANGED flVars
  BY <1>13 DEF flVars, FLInv, FLType, FLOwners, Keeps
<1> QED
  BY <1>1, <1>2, <1>3, <1>4, <1>5, <1>6, <1>7, <1>8, <1>9, <1>10, <1>11, <1>12, <1>13 DEF FLNext

\* No path of LockFile and UnlockFile leaves a lock behind but that of an
\* unlocking fcntl that fails, whose lock goes with the process and keeps the
\* others of the process out until then; and two threads of a process never both
\* have the database open, for every number of processes, threads and inodes
\* (env_posix.cc:492-517, 656-689).
THEOREM NoLockLeftHolds == FLSpec => []NoLockLeft
<1>1. FLInv => NoLockLeft
  <2> SUFFICES ASSUME FLInv PROVE NoLockLeft
    OBVIOUS
  <2>1. \A k \in kept : k[1] \in Processes /\ Keeps(k[1])
    BY DEF FLInv, FLType, Keeps
  <2> QED
    BY <2>1 DEF FLInv, FLOwners, NoLockLeft, Holders, Owning, Keeps
<1> QED
  BY <1>1, FLInitInv, FLNextInv, PTL DEF FLSpec

-----------------------------------------------------------------------------
(* Buffered files. *)

All == file.bytes \o buf

WFType ==
    /\ file \in [bytes : Seq(Nat), synced : Nat, dirSynced : BOOLEAN, is_manifest : BOOLEAN, open : BOOLEAN]
    /\ buf \in Seq(Nat) /\ handed \in Nat /\ failures \in Nat

\* Bytes that were handed over, in order and none twice.
Ordered(s, h) ==
    /\ \A i \in 1 .. Len(s) : s[i] \in 1 .. h
    /\ \A i, j \in 1 .. Len(s) : i < j => s[i] < s[j]

\* What is kept or reported is everything.
Complete(s, rep, h) == 1 .. h \subseteq ToSet(s) \cup rep

\* n bytes handed over after the first h.
Handed(d, h, n) == d \in Seq(Nat) /\ Len(d) = n /\ \A i \in 1 .. n : d[i] = h + i

\* p is the beginning of s.
Begins(p, s) == Len(p) <= Len(s) /\ \A i \in 1 .. Len(p) : p[i] = s[i]

WFInv == WFType /\ Ordered(All, handed) /\ BytesKept

\* write(2) writes a prefix, and all of it if it succeeds.
LEMMA WritesPrefix ==
    ASSUME NEW d \in Seq(Nat), NEW w \in WriteUnbuffered(d)
    PROVE  /\ w.bytes \in Seq(Nat) /\ Len(w.bytes) <= Len(d)
           /\ \A i \in 1 .. Len(w.bytes) : w.bytes[i] = d[i]
           /\ w.ok \in BOOLEAN
           /\ w.ok => w.bytes = d
<1>1. PICK n \in 0 .. Len(d) : w = [bytes |-> SubSeq(d, 1, n), ok |-> n = Len(d)]
  BY DEF WriteUnbuffered
<1>2. SubSeq(d, 1, n) \in Seq(Nat) /\ Len(SubSeq(d, 1, n)) = n
  OBVIOUS
<1>3. \A i \in 1 .. n : SubSeq(d, 1, n)[i] = d[i]
  OBVIOUS
<1>4. n = Len(d) => SubSeq(d, 1, n) = d
  OBVIOUS
<1>5. w.bytes = SubSeq(d, 1, n) /\ w.ok = (n = Len(d))
  BY <1>1
<1>6. w.ok \in BOOLEAN /\ (w.ok => n = Len(d))
  BY <1>5, Zenon
<1>7. w.bytes \in Seq(Nat) /\ Len(w.bytes) = n /\ \A i \in 1 .. Len(w.bytes) : w.bytes[i] = d[i]
  BY <1>2, <1>3, <1>5
<1> QED
  BY <1>4, <1>5, <1>6, <1>7

\* The bytes of one call of Append.
LEMMA BytesHanded ==
    ASSUME NEW h \in Nat, NEW n \in Nat
    PROVE  Handed(Bytes(h + 1, h + n), h, n)
  BY DEF Bytes, Handed

\* A prefix of what is kept and what is handed over is in order ...
LEMMA PrefixOrdered ==
    ASSUME NEW a \in Seq(Nat), NEW h \in Nat, NEW n \in Nat, Ordered(a, h),
           NEW d, Handed(d, h, n),
           NEW p \in Seq(Nat), Begins(p, a \o d)
    PROVE  Ordered(p, h + n)
<1> USE DEF Handed
<1>0. Len(p) <= Len(a) + n
  BY DEF Begins
<1>1. \A i \in 1 .. Len(p) : p[i] = IF i <= Len(a) THEN a[i] ELSE h + (i - Len(a))
  <2> SUFFICES ASSUME NEW i \in 1 .. Len(p)
               PROVE  p[i] = IF i <= Len(a) THEN a[i] ELSE h + (i - Len(a))
    OBVIOUS
  <2>1. i \in 1 .. Len(a) + Len(d)
    BY <1>0
  <2>2. p[i] = (a \o d)[i]
    BY Zenon DEF Begins
  <2>3. (a \o d)[i] = IF i <= Len(a) THEN a[i] ELSE d[i - Len(a)]
    BY <2>1, ConcatProperties
  <2> QED
    BY <2>1, <2>2, <2>3
<1>2. \A i \in 1 .. Len(p) : p[i] \in 1 .. h + n
  <2> SUFFICES ASSUME NEW i \in 1 .. Len(p) PROVE p[i] \in 1 .. h + n
    OBVIOUS
  <2>1. CASE i <= Len(a)
    <3>1. a[i] \in 1 .. h /\ p[i] = a[i]
      BY <1>1, <2>1 DEF Ordered
    <3> QED
      BY <3>1
  <2>2. CASE i > Len(a)
    BY <1>0, <1>1, <2>2
  <2> QED
    BY <2>1, <2>2
<1>3. \A i, j \in 1 .. Len(p) : i < j => p[i] < p[j]
  <2> SUFFICES ASSUME NEW i \in 1 .. Len(p), NEW j \in 1 .. Len(p), i < j
               PROVE  p[i] < p[j]
    OBVIOUS
  <2>1. CASE j <= Len(a)
    BY <1>1, <2>1 DEF Ordered
  <2>2. CASE i <= Len(a) /\ j > Len(a)
    <3>1. a[i] \in 1 .. h
      BY <2>2 DEF Ordered
    <3> QED
      BY <1>1, <2>2, <3>1
  <2>3. CASE i > Len(a)
    BY <1>1, <2>3
  <2> QED
    BY <2>1, <2>2, <2>3
<1> QED
  BY <1>2, <1>3 DEF Ordered

\* ... and what it lacks was in the buffer or in the argument of the call.
LEMMA PrefixComplete ==
    ASSUME NEW b \in Seq(Nat), NEW c \in Seq(Nat), NEW h \in Nat, NEW n \in Nat,
           NEW rep, Complete(b \o c, rep, h),
           NEW d, Handed(d, h, n),
           NEW p \in Seq(Nat), Begins(b, p),
           NEW new, p = (b \o c) \o d \/ ToSet(c \o d) \subseteq new
    PROVE  Complete(p, rep \cup new, h + n)
<1> USE DEF Handed
<1>1. ASSUME NEW x \in 1 .. h + n, x > h PROVE x \in ToSet(p) \cup (rep \cup new)
  <2>1. x - h \in 1 .. n /\ d[x - h] = x
    BY <1>1
  <2>2. CASE p = (b \o c) \o d
    <3>1. p[Len(b \o c) + (x - h)] = x /\ Len(b \o c) + (x - h) \in DOMAIN p
      BY <2>1, <2>2
    <3> QED
      BY <3>1 DEF ToSet
  <2>3. CASE ToSet(c \o d) \subseteq new
    <3>1. (c \o d)[Len(c) + (x - h)] = x /\ Len(c) + (x - h) \in DOMAIN (c \o d)
      BY <2>1
    <3> QED
      BY <2>3, <3>1 DEF ToSet
  <2> QED
    BY <2>2, <2>3
<1>2. ASSUME NEW x \in 1 .. h, x \in ToSet(b \o c) PROVE x \in ToSet(p) \cup (rep \cup new)
  <2>1. PICK i \in 1 .. Len(b) + Len(c) : x = (b \o c)[i]
    BY <1>2 DEF ToSet
  <2>2. CASE i <= Len(b)
    <3>1. p[i] = x /\ i \in DOMAIN p
      BY <2>1, <2>2 DEF Begins
    <3> QED
      BY <3>1 DEF ToSet
  <2>3. CASE i > Len(b) /\ p = (b \o c) \o d
    <3>1. p[i] = x /\ i \in DOMAIN p
      BY <2>1, <2>3
    <3> QED
      BY <3>1 DEF ToSet
  <2>4. CASE i > Len(b) /\ ToSet(c \o d) \subseteq new
    <3>1. (c \o d)[i - Len(b)] = x /\ i - Len(b) \in DOMAIN (c \o d)
      BY <2>1, <2>4
    <3> QED
      BY <2>4, <3>1 DEF ToSet
  <2>5. i <= Len(b) \/ i > Len(b)
    BY <2>1
  <2> QED
    BY <2>2, <2>3, <2>4, <2>5
<1> QED
  BY <1>1, <1>2 DEF Complete

LEMMA Associative == \A r, s, t \in Seq(Nat) : (r \o s) \o t = r \o (s \o t)
  BY ConcatAssociative

LEMMA JoinEmpty == \A s \in Seq(Nat) : s \o <<>> = s
  BY ConcatEmptySeq

LEMMA BeginsJoin ==
    ASSUME NEW s \in Seq(Nat), NEW p \in Seq(Nat), NEW t \in Seq(Nat), Begins(p, t)
    PROVE  Begins(s \o p, s \o t)
<1>1. Len(p) <= Len(t) /\ \A i \in 1 .. Len(p) : p[i] = t[i]
  BY DEF Begins
<1>2. Len(s \o p) = Len(s) + Len(p) /\ Len(s \o t) = Len(s) + Len(t)
  OBVIOUS
<1>3. ASSUME NEW i \in 1 .. Len(s \o p) PROVE (s \o p)[i] = (s \o t)[i]
  BY <1>1, <1>2
<1> QED
  BY <1>1, <1>2, <1>3 DEF Begins

\* A step adds to the file and the buffer, in place of the buffer, the first
\* bytes of the buffer and of what the caller hands over: all of them, or those
\* before a failure.
LEMMA KeepsBytes ==
    ASSUME NEW b \in Seq(Nat), NEW c \in Seq(Nat), NEW h \in Nat, NEW rep,
           Ordered(b \o c, h), Complete(b \o c, rep, h),
           NEW n \in Nat, NEW d, Handed(d, h, n),
           NEW q \in Seq(Nat), Begins(q, c \o d),
           NEW new, q = c \o d \/ ToSet(c \o d) \subseteq new
    PROVE  Ordered(b \o q, h + n) /\ Complete(b \o q, rep \cup new, h + n)
<1>0. d \in Seq(Nat)
  BY DEF Handed
<1>1. (b \o c) \o d = b \o (c \o d)
  BY ONLY <1>0, Associative
<1>2. PICK t \in Seq(Nat) : t = c \o d
  BY ONLY <1>0, ConcatProperties
<1>3. b \o q \in Seq(Nat) /\ b \o c \in Seq(Nat)
  OBVIOUS
<1>4. Begins(b \o q, b \o t)
  BY <1>2, BeginsJoin, Zenon
<1>5. Ordered(b \o q, h + n)
  <2>1. Begins(b \o q, (b \o c) \o d)
    BY <1>1, <1>2, <1>4, Zenon
  <2> QED
    BY <1>3, <2>1, PrefixOrdered, Zenon
<1>6. Begins(b, b \o q)
  BY <1>3 DEF Begins
<1>7. b \o q = (b \o c) \o d \/ ToSet(c \o d) \subseteq new
  BY <1>1, Zenon
<1>8. Complete(b \o q, rep \cup new, h + n)
  BY <1>3, <1>6, <1>7, PrefixComplete, Zenon
<1> QED
  BY <1>5, <1>8

\* The parts of BytesKept that a step has to keep beside that.
Beside ==
    /\ Len(buf) <= BufferSize
    /\ ~file.open => buf = <<>>
    /\ file.is_manifest /\ file.synced > 0 => file.dirSynced

LEMMA WFInvParts == WFInv <=> WFType /\ Ordered(All, handed) /\ Complete(All, reported, handed) /\ Beside
  BY DEF WFInv, BytesKept, Beside, Complete, Ordered, All

LEMMA WFStepInv ==
    ASSUME WFInv, NEW n \in Nat, handed' = handed + n, NEW d, Handed(d, handed, n),
           NEW q \in Seq(Nat), Begins(q, buf \o d), All' = file.bytes \o q,
           NEW new, reported' = reported \cup new, q = buf \o d \/ ToSet(buf \o d) \subseteq new,
           WFType', Beside'
    PROVE  WFInv'
<1>1. /\ file.bytes \in Seq(Nat) /\ buf \in Seq(Nat) /\ handed \in Nat
      /\ Ordered(file.bytes \o buf, handed) /\ Complete(file.bytes \o buf, reported, handed)
  BY WFInvParts DEF WFType, All
<1>2. Ordered(All', handed') /\ Complete(All', reported', handed')
  BY <1>1, KeepsBytes, Zenon
<1>3. Ordered(All, handed)' /\ Complete(All, reported, handed)'
  BY <1>2 DEF Ordered, Complete
<1> QED
  BY <1>3, WFInvParts, PTL

LEMMA WFInitInv == WFInit => WFInv
<1> SUFFICES ASSUME WFInit PROVE WFInv
  OBVIOUS
<1>1. WFType
  <2>1. <<>> \in Seq(Nat) /\ 0 \in Nat
    OBVIOUS
  <2> QED
    BY <2>1, Zenon DEF WFInit, WFType
<1>2. file.bytes = <<>> /\ buf = <<>> /\ handed = 0 /\ file.open /\ file.synced = 0
  BY DEF WFInit
<1>3. All = <<>>
  BY <1>2 DEF All
<1>4. Ordered(All, handed) /\ Complete(All, reported, handed)
  BY <1>2, <1>3 DEF Ordered, Complete
<1>5. Beside
  BY <1>2, WritableFileAssumption DEF Beside
<1> QED
  BY <1>1, <1>4, <1>5, WFInvParts

\* A call that writes the buffer out and hands over nothing.
LEMMA BufferWritten ==
    ASSUME WFInv, NEW w \in WriteUnbuffered(buf), NEW ok \in BOOLEAN, ok => w.ok,
           UNCHANGED handed, CallReturned(ok, buf), buf' = AfterFlush(w),
           file' \in [bytes : Seq(Nat), synced : Nat, dirSynced : BOOLEAN, is_manifest : BOOLEAN, open : BOOLEAN],
           file'.bytes = file.bytes \o w.bytes,
           file'.is_manifest /\ file'.synced > 0 => file'.dirSynced
    PROVE  WFInv'
<1> DEFINE new == IF ok THEN {} ELSE ToSet(buf)
<1>1. WFType /\ buf \in Seq(Nat) /\ file.bytes \in Seq(Nat) /\ handed \in Nat
  BY DEF WFInv, WFType
<1>2. w.bytes \in Seq(Nat) /\ Begins(w.bytes, buf) /\ (w.ok => w.bytes = buf)
  BY <1>1, WritesPrefix DEF Begins
<1>3. Handed(<<>>, handed, 0) /\ buf \o <<>> = buf
  BY <1>1 DEF Handed
<1>4. buf' = <<>> /\ All' = file.bytes \o w.bytes
  BY <1>1, <1>2 DEF AfterFlush, All
<1>5. reported' = reported \cup new /\ (w.bytes = buf \/ ToSet(buf) \subseteq new) /\ failures' \in Nat
  BY <1>1, <1>2 DEF CallReturned, WFType
<1>6. WFType'
  BY <1>1, <1>4, <1>5 DEF WFType
<1>7. Beside'
  BY <1>4, WritableFileAssumption DEF Beside
<1> HIDE DEF new
<1>8. handed' = handed + 0
  BY <1>1
<1> QED
  BY <1>2, <1>3, <1>4, <1>5, <1>6, <1>7, <1>8, WFStepInv, Zenon

\* A call of Append that hands over n bytes: what is copied to the buffer and
\* the rest are what is handed over, and of these and the buffer the file and
\* the new buffer have the beginning.
LEMMA AppendDataInv ==
    ASSUME WFInv, NEW n \in 0 .. MaxBytes, AppendData(n)
    PROVE  WFInv'
<1> USE WritableFileAssumption
<1> DEFINE data == Bytes(handed + 1, handed + n)
           copy_size == IF n < BufferSize - Len(buf) THEN n ELSE BufferSize - Len(buf)
           copied == SubSeq(data, 1, copy_size)
           full == buf \o copied
           rest == SubSeq(data, copy_size + 1, n)
<1>1. /\ WFType /\ Beside /\ buf \in Seq(Nat) /\ handed \in Nat /\ file.bytes \in Seq(Nat)
      /\ file \in [bytes : Seq(Nat), synced : Nat, dirSynced : BOOLEAN, is_manifest : BOOLEAN, open : BOOLEAN]
  BY WFInvParts DEF WFType
<1>2. n \in Nat /\ handed' = handed + n /\ handed' \in Nat /\ file.open
  BY <1>1 DEF AppendData
<1>3. Handed(data, handed, n)
  BY <1>1, <1>2, BytesHanded
<1>4. IF rest = <<>>
      THEN buf' = full /\ UNCHANGED <<file, failures, reported>>
      ELSE \E w \in WriteUnbuffered(full) :
              IF ~w.ok
              THEN /\ file' = [file EXCEPT !.bytes = @ \o w.bytes]
                   /\ buf' = AfterFlush(w)
                   /\ CallReturned(FALSE, buf \o data)
              ELSE \E v \in WriteUnbuffered(IF Len(rest) < BufferSize THEN <<>> ELSE rest) :
                      /\ file' = [file EXCEPT !.bytes = @ \o w.bytes \o v.bytes]
                      /\ buf' = RestBuffered(rest)
                      /\ CallReturned(v.ok, buf \o data)
  BY Zenon DEF AppendData
<1>5. data \in Seq(Nat) /\ Len(data) = n
  BY <1>3 DEF Handed
<1> HIDE DEF data
<1>6. copy_size \in 0 .. n /\ copy_size <= BufferSize - Len(buf)
  BY <1>1, <1>2 DEF Beside
<1> HIDE DEF copy_size
<1>7. /\ copied \in Seq(Nat) /\ Len(copied) = copy_size
      /\ rest \in Seq(Nat) /\ Len(rest) = n - copy_size
      /\ data = copied \o rest
  BY <1>5, <1>6, <1>2
<1> HIDE DEF copied, rest
<1>8. full \in Seq(Nat) /\ Len(full) = Len(buf) + copy_size /\ Len(full) <= BufferSize
  <2>1. full \in Seq(Nat) /\ Len(full) = Len(buf) + copy_size
    BY ONLY <1>1, <1>7, ConcatProperties
  <2> QED
    BY <1>1, <1>6, <2>1
<1>9. buf \o data = full \o rest
  BY ONLY <1>1, <1>7, Associative
<1> HIDE DEF full
<1>10. ASSUME NEW q \in Seq(Nat), Begins(q, full \o rest), All' = file.bytes \o q,
              NEW new, reported' = reported \cup new, q = full \o rest \/ ToSet(buf \o data) \subseteq new,
              file' \in [bytes : Seq(Nat), synced : Nat, dirSynced : BOOLEAN, is_manifest : BOOLEAN, open : BOOLEAN],
              file'.synced = file.synced, file'.dirSynced = file.dirSynced,
              file'.is_manifest = file.is_manifest, file'.open = file.open,
              buf' \in Seq(Nat), Len(buf') <= BufferSize, failures' \in Nat
       PROVE  WFInv'
  <2>1. WFType'
    BY <1>2, <1>10 DEF WFType
  <2>2. Beside'
    BY <1>1, <1>2, <1>10 DEF Beside
  <2> QED
    BY <1>2, <1>3, <1>9, <1>10, <2>1, <2>2, WFStepInv, Zenon
<1>11. CASE rest = <<>>
  <2>1. buf' = full /\ file' = file /\ failures' = failures /\ reported' = reported \cup {}
    BY <1>4, <1>11
  <2>2. full \o rest = full /\ Begins(full, full \o rest)
    BY <1>8, <1>11 DEF Begins
  <2>3. All' = file.bytes \o full
    BY <2>1 DEF All
  <2> QED
    BY <1>1, <1>8, <1>10, <2>1, <2>2, <2>3 DEF WFType
<1>12. CASE rest # <<>>
  <2>1. PICK w \in WriteUnbuffered(full) :
              IF ~w.ok
              THEN /\ file' = [file EXCEPT !.bytes = @ \o w.bytes]
                   /\ buf' = AfterFlush(w)
                   /\ CallReturned(FALSE, buf \o data)
              ELSE \E v \in WriteUnbuffered(IF Len(rest) < BufferSize THEN <<>> ELSE rest) :
                      /\ file' = [file EXCEPT !.bytes = @ \o w.bytes \o v.bytes]
                      /\ buf' = RestBuffered(rest)
                      /\ CallReturned(v.ok, buf \o data)
    BY <1>4, <1>12
  <2>2. w.bytes \in Seq(Nat) /\ Begins(w.bytes, full) /\ (w.ok => w.bytes = full)
    BY <1>8, WritesPrefix DEF Begins
  <2>3. CASE ~w.ok
    <3>1. file' = [file EXCEPT !.bytes = @ \o w.bytes] /\ buf' = <<>> /\ CallReturned(FALSE, buf \o data)
      BY <2>1, <2>3 DEF AfterFlush
    <3>2. reported' = reported \cup ToSet(buf \o data) /\ failures' \in Nat
      BY <1>1, <3>1 DEF CallReturned, WFType
    <3>3. Begins(w.bytes, full \o rest)
      BY <1>7, <1>8, <2>2 DEF Begins
    <3>4. file'.bytes = file.bytes \o w.bytes /\ file.bytes \o w.bytes \in Seq(Nat)
      <4>1. file.bytes \o w.bytes \in Seq(Nat)
        BY ONLY <1>1, <2>2, ConcatProperties
      <4> QED
        BY <1>1, <3>1, <4>1
    <3>5. All' = file.bytes \o w.bytes
      <4>1. All' = (file.bytes \o w.bytes) \o <<>>
        BY <3>1, <3>4, Zenon DEF All
      <4> QED
        BY <3>4, <4>1, JoinEmpty, Zenon
    <3>6. /\ file' \in [bytes : Seq(Nat), synced : Nat, dirSynced : BOOLEAN, is_manifest : BOOLEAN, open : BOOLEAN]
          /\ file'.synced = file.synced /\ file'.dirSynced = file.dirSynced
          /\ file'.is_manifest = file.is_manifest /\ file'.open = file.open
      BY <1>1, <3>1, <3>4
    <3>7. buf' \in Seq(Nat) /\ Len(buf') <= BufferSize
      BY <3>1
    <3> QED
      BY <1>10, <2>2, <3>2, <3>3, <3>5, <3>6, <3>7
  <2>4. CASE w.ok
    <3>1. PICK v \in WriteUnbuffered(IF Len(rest) < BufferSize THEN <<>> ELSE rest) :
                 /\ file' = [file EXCEPT !.bytes = @ \o w.bytes \o v.bytes]
                 /\ buf' = RestBuffered(rest)
                 /\ CallReturned(v.ok, buf \o data)
      BY <2>1, <2>4
    <3> DEFINE new == IF v.ok THEN {} ELSE ToSet(buf \o data)
    <3>2. reported' = reported \cup new /\ failures' \in Nat
      BY <1>1, <3>1 DEF CallReturned, WFType
    <3>3. /\ v.bytes \in Seq(Nat)
          /\ Len(rest) < BufferSize => v.bytes = <<>>
          /\ ~(Len(rest) < BufferSize) => Begins(v.bytes, rest) /\ (v.ok => v.bytes = rest)
      <4>1. CASE Len(rest) < BufferSize
        <5>1. v \in WriteUnbuffered(<<>>) /\ <<>> \in Seq(Nat)
          BY <4>1
        <5>2. v.bytes \in Seq(Nat) /\ Len(v.bytes) <= 0
          BY <5>1, WritesPrefix
        <5> QED
          BY <4>1, <5>2
      <4>2. CASE ~(Len(rest) < BufferSize)
        <5>1. v \in WriteUnbuffered(rest)
          BY <4>2
        <5> QED
          BY <1>7, <4>2, <5>1, WritesPrefix DEF Begins
      <4> QED
        BY <4>1, <4>2
    <3>4. /\ file'.bytes = (file.bytes \o full) \o v.bytes
          /\ (file.bytes \o full) \o v.bytes = file.bytes \o (full \o v.bytes)
          /\ full \o v.bytes \in Seq(Nat) /\ file.bytes \o (full \o v.bytes) \in Seq(Nat)
      <4>1. file'.bytes = (file.bytes \o full) \o v.bytes
        BY <1>1, <2>2, <2>4, <3>1
      <4>2. (file.bytes \o full) \o v.bytes = file.bytes \o (full \o v.bytes)
        BY ONLY <1>1, <1>8, <3>3, Associative
      <4>3. full \o v.bytes \in Seq(Nat) /\ file.bytes \o (full \o v.bytes) \in Seq(Nat)
        BY ONLY <1>1, <1>8, <3>3, ConcatProperties
      <4> QED
        BY <4>1, <4>2, <4>3
    <3>5. /\ file' \in [bytes : Seq(Nat), synced : Nat, dirSynced : BOOLEAN, is_manifest : BOOLEAN, open : BOOLEAN]
          /\ file'.synced = file.synced /\ file'.dirSynced = file.dirSynced
          /\ file'.is_manifest = file.is_manifest /\ file'.open = file.open
      BY <1>1, <3>1, <3>4
    <3> HIDE DEF new
    <3>6. CASE Len(rest) < BufferSize
      <4>1. buf' = rest
        BY <3>1, <3>6 DEF RestBuffered
      <4>2. file'.bytes = file.bytes \o full
        <5>1. file.bytes \o full \in Seq(Nat)
          BY ONLY <1>1, <1>8, ConcatProperties
        <5> QED
          BY <3>3, <3>4, <3>6, <5>1, JoinEmpty, Zenon
      <4>3. (file.bytes \o full) \o rest = file.bytes \o (full \o rest) /\ full \o rest \in Seq(Nat)
        BY ONLY <1>1, <1>7, <1>8, Associative, ConcatProperties
      <4>4. All' = file.bytes \o (full \o rest)
        BY <4>1, <4>2, <4>3 DEF All
      <4>5. Begins(full \o rest, full \o rest)
        BY <4>3 DEF Begins
      <4>6. buf' \in Seq(Nat) /\ Len(buf') <= BufferSize
        BY <1>7, <3>6, <4>1
      <4> QED
        BY <1>10, <3>2, <3>5, <4>3, <4>4, <4>5, <4>6
    <3>7. CASE ~(Len(rest) < BufferSize)
      <4>1. buf' = <<>>
        BY <3>1, <3>7 DEF RestBuffered
      <4>2. All' = file.bytes \o (full \o v.bytes)
        BY ONLY <3>4, <4>1 DEF All
      <4>3. Begins(full \o v.bytes, full \o rest)
        BY <1>7, <1>8, <3>3, <3>7, BeginsJoin, Zenon
      <4>4. full \o v.bytes = full \o rest \/ ToSet(buf \o data) \subseteq new
        BY <3>3, <3>7 DEF new
      <4>5. buf' \in Seq(Nat) /\ Len(buf') <= BufferSize
        BY <4>1
      <4> QED
        BY <1>10, <3>2, <3>4, <3>5, <4>2, <4>3, <4>4, <4>5
    <3> QED
      BY <3>6, <3>7
  <2> QED
    BY <2>3, <2>4
<1> QED
  BY <1>11, <1>12

LEMMA WFNextInv ==
    ASSUME WFInv, [WFNext]_wfVars
    PROVE  WFInv'
<1> USE WritableFileAssumption
<1>1. /\ WFType /\ Beside /\ buf \in Seq(Nat) /\ file.bytes \in Seq(Nat)
      /\ file \in [bytes : Seq(Nat), synced : Nat, dirSynced : BOOLEAN, is_manifest : BOOLEAN, open : BOOLEAN]
  BY WFInvParts DEF WFType
<1>2. ASSUME NEW w \in WriteUnbuffered(buf)
      PROVE  w.ok \in BOOLEAN /\ w.bytes \in Seq(Nat) /\ file.bytes \o w.bytes \in Seq(Nat)
  <2>1. w.ok \in BOOLEAN /\ w.bytes \in Seq(Nat)
    BY <1>1, WritesPrefix
  <2> QED
    BY ONLY <1>1, <2>1, ConcatProperties
<1>3. ASSUME NEW n \in 0 .. MaxBytes, AppendData(n) PROVE WFInv'
  BY <1>3, AppendDataInv
<1>4. CASE Flush
  <2>1. PICK w \in WriteUnbuffered(buf) :
            /\ file' = [file EXCEPT !.bytes = @ \o w.bytes]
            /\ buf' = AfterFlush(w)
            /\ CallReturned(w.ok, buf)
    BY <1>4 DEF Flush
  <2>2. /\ file' \in [bytes : Seq(Nat), synced : Nat, dirSynced : BOOLEAN, is_manifest : BOOLEAN, open : BOOLEAN]
        /\ file'.bytes = file.bytes \o w.bytes
        /\ file'.is_manifest /\ file'.synced > 0 => file'.dirSynced
    BY <1>1, <1>2, <2>1 DEF Beside
  <2>3. UNCHANGED handed
    BY <1>4 DEF Flush
  <2> QED
    BY <1>2, <2>1, <2>2, <2>3, BufferWritten, Zenon
<1>5. CASE Sync
  <2>1. UNCHANGED handed
    BY <1>5 DEF Sync
  <2>2. CASE CallReturned(FALSE, buf) /\ UNCHANGED <<file, buf>>
    <3>1. reported' = reported \cup ToSet(buf) /\ failures' \in Nat /\ WFType'
      BY <1>1, <2>1, <2>2 DEF CallReturned, WFType
    <3>2. Ordered(All, handed)' /\ Beside'
      BY <2>1, <2>2, WFInvParts DEF Beside, Ordered, All
    <3>3. Complete(All, reported, handed)'
      BY <2>1, <2>2, <3>1, WFInvParts DEF Complete, All
    <3> QED
      BY <3>1, <3>2, <3>3, WFInvParts, PTL
  <2>3. CASE \E w \in WriteUnbuffered(buf), synced \in BOOLEAN :
                /\ file' = SyncFd([SyncDirIfManifest EXCEPT !.bytes = @ \o w.bytes],
                                  Len(file.bytes) + Len(buf), w.ok /\ synced)
                /\ buf' = AfterFlush(w)
                /\ CallReturned(w.ok /\ synced, buf)
    <3>1. PICK w \in WriteUnbuffered(buf), synced \in BOOLEAN :
                /\ file' = SyncFd([SyncDirIfManifest EXCEPT !.bytes = @ \o w.bytes],
                                  Len(file.bytes) + Len(buf), w.ok /\ synced)
                /\ buf' = AfterFlush(w)
                /\ CallReturned(w.ok /\ synced, buf)
      BY <2>3
    <3>2. /\ file' \in [bytes : Seq(Nat), synced : Nat, dirSynced : BOOLEAN, is_manifest : BOOLEAN, open : BOOLEAN]
          /\ file'.bytes = file.bytes \o w.bytes
          /\ file'.is_manifest => file'.dirSynced
      <4> DEFINE n == Len(file.bytes) + Len(buf)
                 m == IF w.ok /\ synced THEN n ELSE file.synced
                 dir == file.dirSynced \/ file.is_manifest
      <4>1. n \in Nat /\ m \in Nat /\ dir \in BOOLEAN /\ (file.is_manifest => dir)
        BY <1>1
      <4>2. file' = [bytes |-> file.bytes \o w.bytes, synced |-> m, dirSynced |-> dir,
                     is_manifest |-> file.is_manifest, open |-> file.open]
        BY <1>1, <3>1 DEF SyncFd, SyncDirIfManifest
      <4> HIDE DEF n, m, dir
      <4> QED
        BY <1>1, <1>2, <4>1, <4>2
    <3>3. (w.ok /\ synced) \in BOOLEAN /\ (w.ok /\ synced => w.ok)
      BY <1>2, Zenon
    <3> QED
      BY <2>1, <3>1, <3>2, <3>3, BufferWritten, Zenon
  <2> QED
    BY <1>5, <2>2, <2>3 DEF Sync
<1>6. CASE CloseFile
  <2>1. PICK w \in WriteUnbuffered(buf), closed \in BOOLEAN :
            /\ file' = [file EXCEPT !.bytes = @ \o w.bytes, !.open = FALSE]
            /\ buf' = AfterFlush(w)
            /\ CallReturned(w.ok /\ closed, buf)
    BY <1>6 DEF CloseFile
  <2>2. /\ file' \in [bytes : Seq(Nat), synced : Nat, dirSynced : BOOLEAN, is_manifest : BOOLEAN, open : BOOLEAN]
        /\ file'.bytes = file.bytes \o w.bytes
        /\ file'.is_manifest /\ file'.synced > 0 => file'.dirSynced
    BY <1>1, <1>2, <2>1 DEF Beside
  <2>3. UNCHANGED handed
    BY <1>6 DEF CloseFile
  <2>4. (w.ok /\ closed) \in BOOLEAN /\ (w.ok /\ closed => w.ok)
    BY <1>2, Zenon
  <2> QED
    BY <2>1, <2>2, <2>3, <2>4, BufferWritten, Zenon
<1>7. CASE UNCHANGED wfVars
  BY <1>7 DEF wfVars, WFInv, WFType, Ordered, BytesKept, All
<1> QED
  BY <1>3, <1>4, <1>5, <1>6, <1>7 DEF WFNext

\* PosixWritableFile loses, repeats or reorders no byte that no call reported,
\* for every size of the buffer and every pattern of short and failed writes
\* (env_posix.cc:288-418).
THEOREM BytesKeptHolds == WFSpec => []BytesKept
<1>1. WFInv => BytesKept
  BY DEF WFInv
<1> QED
  BY <1>1, WFInitInv, WFNextInv, PTL DEF WFSpec

=============================================================================
