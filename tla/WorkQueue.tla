------------------------------ MODULE WorkQueue ------------------------------
(***************************************************************************)
(* The background work of the POSIX environment                            *)
(* (lib/leveldb/util/env_posix.cc): Schedule, called by any thread and by  *)
(* work that runs, and the thread that takes the work out.                 *)
(***************************************************************************)
EXTENDS Integers, Sequences, FiniteSets

CONSTANTS
    Callers,     \* threads that call Schedule
    NoOne,       \* no thread has background_work_mutex_
    MaxWork      \* bound: calls of Schedule

\* Background threads that can be started; the code means to start one.
Workers == {"worker1", "worker2"}

ASSUME WorkQueueAssumption ==
    /\ MaxWork \in Nat
    /\ Callers \cap Workers = {} /\ NoOne \notin Callers \cup Workers

NoWork == 0

VARIABLES
    work_mutex,  \* who has background_work_mutex_
    started,     \* started_background_thread_
    work_queue,  \* background_work_queue_
    schedule,    \* caller or worker -> where it is in Schedule
    worker,      \* worker -> [pc, work]
    calls,       \* calls of Schedule, for the bound
    emplaced,    \* the work in the order it entered the queue
    ran          \* the work in the order it was begun

wqVars == <<work_mutex, started, work_queue, schedule, worker, calls, emplaced, ran>>

WQInit ==
    /\ work_mutex = NoOne
    /\ started = FALSE
    /\ work_queue = <<>>
    /\ schedule = [t \in Callers \cup Workers |-> "out"]
    /\ worker = [w \in Workers |-> [pc |-> "none", work |-> NoWork]]
    /\ calls = 0 /\ emplaced = <<>> /\ ran = <<>>

-----------------------------------------------------------------------------
(* Schedule.                                                                *)

\* Work that runs may schedule more (DBImpl::BackgroundCall does).
MayCall(t) == t \in Callers \/ (t \in Workers /\ worker[t].pc = "run")

Schedule(t) ==
    /\ schedule[t] = "out" /\ MayCall(t) /\ calls < MaxWork
    /\ calls' = calls + 1
    /\ schedule' = [schedule EXCEPT ![t] = "lock"]
    /\ UNCHANGED <<work_mutex, started, work_queue, worker, emplaced, ran>>

ScheduleLock(t) ==
    /\ schedule[t] = "lock" /\ work_mutex = NoOne
    /\ work_mutex' = t /\ schedule' = [schedule EXCEPT ![t] = "start"]
    /\ UNCHANGED <<started, work_queue, worker, calls, emplaced, ran>>

\* Mutant of StartThread: the flag is not set.
StartThreadAgain(t) ==
    /\ schedule[t] = "start"
    /\ \E w \in Workers : worker[w].pc = "none" /\ worker' = [worker EXCEPT ![w].pc = "lock"]
    /\ schedule' = [schedule EXCEPT ![t] = "signal"]
    /\ UNCHANGED <<work_mutex, started, work_queue, calls, emplaced, ran>>

StartThread(t) ==
    /\ schedule[t] = "start"
    /\ started' = TRUE
    /\ IF started THEN worker' = worker
       ELSE \E w \in Workers : worker[w].pc = "none" /\ worker' = [worker EXCEPT ![w].pc = "lock"]
    /\ schedule' = [schedule EXCEPT ![t] = "signal"]
    /\ UNCHANGED <<work_mutex, work_queue, calls, emplaced, ran>>

\* Mutant of Signalled: the test is the wrong way round.
SignalledIfWork == work_queue # <<>>

\* "If the queue is empty, the background thread may be waiting for work."
Signalled == work_queue = <<>>

\* The condition variable wakes at most one thread, before the work is in the
\* queue.
Signal(t) ==
    /\ schedule[t] = "signal"
    /\ LET waiting == {w \in Workers : worker[w].pc = "wait"}
       IN  IF Signalled /\ waiting # {}
           THEN \E w \in waiting : worker' = [worker EXCEPT ![w].pc = "lock"]
           ELSE worker' = worker
    /\ schedule' = [schedule EXCEPT ![t] = "emplace"]
    /\ UNCHANGED <<work_mutex, started, work_queue, calls, emplaced, ran>>

\* The work enters the queue and the mutex is released.
Emplace(t) ==
    /\ schedule[t] = "emplace"
    /\ LET work == Len(emplaced) + 1
       IN  work_queue' = Append(work_queue, work) /\ emplaced' = Append(emplaced, work)
    /\ work_mutex' = NoOne /\ schedule' = [schedule EXCEPT ![t] = "out"]
    /\ UNCHANGED <<started, worker, calls, ran>>

-----------------------------------------------------------------------------
(* BackgroundThreadMain.                                                    *)

WorkerLock(w) ==
    /\ worker[w].pc = "lock" /\ work_mutex = NoOne
    /\ work_mutex' = w /\ worker' = [worker EXCEPT ![w].pc = "test"]
    /\ UNCHANGED <<started, work_queue, schedule, calls, emplaced, ran>>

\* Wait releases the mutex and sleeps in one step.
Wait(w) ==
    /\ worker[w].pc = "test" /\ work_queue = <<>>
    /\ work_mutex' = NoOne /\ worker' = [worker EXCEPT ![w].pc = "wait"]
    /\ UNCHANGED <<started, work_queue, schedule, calls, emplaced, ran>>

\* A wait may end without a signal.
WakeUp(w) ==
    /\ worker[w].pc = "wait" /\ worker' = [worker EXCEPT ![w].pc = "lock"]
    /\ UNCHANGED <<work_mutex, started, work_queue, schedule, calls, emplaced, ran>>

\* The front is popped, the mutex released and the function called.
Pop(w) ==
    /\ worker[w].pc = "test" /\ work_queue # <<>>
    /\ work_queue' = Tail(work_queue)
    /\ worker' = [worker EXCEPT ![w] = [pc |-> "run", work |-> Head(work_queue)]]
    /\ ran' = Append(ran, Head(work_queue))
    /\ work_mutex' = NoOne
    /\ UNCHANGED <<started, schedule, calls, emplaced>>

\* The function returns.
WorkDone(w) ==
    /\ worker[w].pc = "run" /\ schedule[w] = "out"
    /\ worker' = [worker EXCEPT ![w] = [pc |-> "lock", work |-> NoWork]]
    /\ UNCHANGED <<work_mutex, started, work_queue, schedule, calls, emplaced, ran>>

-----------------------------------------------------------------------------
WQNext ==
    \/ \E t \in Callers \cup Workers :
          Schedule(t) \/ ScheduleLock(t) \/ StartThread(t) \/ Signal(t) \/ Emplace(t)
    \/ \E w \in Workers : WorkerLock(w) \/ Wait(w) \/ WakeUp(w) \/ Pop(w) \/ WorkDone(w)

WQSpec == WQInit /\ [][WQNext]_wqVars

-----------------------------------------------------------------------------
\* Work is begun in the order it was scheduled, each once, and one at a time:
\* what DBImpl::BackgroundWork relies on (env_posix.cc:814-852).
InOrderOneAtATime ==
    /\ ran \o work_queue = emplaced
    /\ Cardinality({w \in Workers : worker[w].pc = "run"}) <= 1

\* No wakeup is lost, though Schedule signals before it enqueues and only if
\* the queue is empty: while there is work in the queue the background thread
\* is not asleep, and so it will find it (env_posix.cc:826-831, 839-843).
NoWorkForgotten == work_queue # <<>> => \E w \in Workers : worker[w].pc \notin {"none", "wait"}

=============================================================================
