------------------------------ MODULE FileLock ------------------------------
(***************************************************************************)
(* The LOCK file of a database: PosixEnv::LockFile and UnlockFile          *)
(* (lib/leveldb/util/env_posix.cc) called by users of several processes    *)
(* that open (DB::Open), close (~DBImpl) and destroy (DestroyDB) the same  *)
(* database. Each system call and each use of locks_ is a step.            *)
(*                                                                         *)
(* fcntl locks are the kernel's: they belong to a process and an inode,    *)
(* and a process loses its lock when it closes any descriptor of the file. *)
(***************************************************************************)
EXTENDS Integers, FiniteSets

CONSTANTS
    Users,       \* threads that open or destroy the database
    ProcessOf,   \* [Users -> processes]
    MaxInodes,   \* bound: how often the file is created
    MaxExits     \* bound: processes that exit with the lock held

Processes == {ProcessOf[u] : u \in Users}
NoProcess == "none"
NoInode == 0

ASSUME FileLockAssumption ==
    /\ IsFiniteSet(Users) /\ NoProcess \notin Processes
    /\ MaxInodes \in Nat /\ MaxExits \in Nat

VARIABLES
    lockFile,    \* inode the name LOCK leads to, or NoInode
    inodes,      \* inodes created
    fcntlLock,   \* inode -> process that has the kernel's lock
    locked,      \* processes whose locks_ has the name
    user,        \* user -> [pc, fd, destroy]
    kept,        \* <<process, inode>> of the locks UnlockFile failed to release
    exits

flVars == <<lockFile, inodes, fcntlLock, locked, user, kept, exits>>

Away == [pc |-> "away", fd |-> NoInode, destroy |-> FALSE]

FLInit ==
    /\ lockFile = NoInode /\ inodes = 0
    /\ fcntlLock = [i \in 1 .. MaxInodes |-> NoProcess]
    /\ locked = {}
    /\ user = [u \in Users |-> Away]
    /\ kept = {} /\ exits = 0

To(u, pc) == user' = [user EXCEPT ![u].pc = pc]

\* close(fd): the process loses its lock of the inode, whoever took it.
CloseDescriptor(u) ==
    fcntlLock' = [fcntlLock EXCEPT ![user[u].fd] = IF @ = ProcessOf[u] THEN NoProcess ELSE @]

-----------------------------------------------------------------------------
(* LockFile.                                                                *)

\* DB::Open or DestroyDB calls LockFile, which opens or creates the file.
OpenLockFile(u, destroy) ==
    /\ user[u].pc = "away"
    /\ LET i == IF lockFile = NoInode THEN inodes + 1 ELSE lockFile
       IN  /\ i <= MaxInodes
           /\ lockFile' = i /\ inodes' = IF lockFile = NoInode THEN i ELSE inodes
           /\ user' = [user EXCEPT ![u] = [pc |-> "insert", fd |-> i, destroy |-> destroy]]
    /\ UNCHANGED <<fcntlLock, locked, kept, exits>>

InsertLock(u) ==
    /\ user[u].pc = "insert"
    /\ IF ProcessOf[u] \in locked
       THEN To(u, "refused") /\ UNCHANGED locked
       ELSE To(u, "fcntl") /\ locked' = locked \cup {ProcessOf[u]}
    /\ UNCHANGED <<lockFile, inodes, fcntlLock, kept, exits>>

\* "already held by process": the descriptor is closed.
Refused(u) ==
    /\ user[u].pc = "refused"
    /\ CloseDescriptor(u) /\ user' = [user EXCEPT ![u] = Away]
    /\ UNCHANGED <<lockFile, inodes, locked, kept, exits>>

\* F_SETLK: fails if another process has the lock, and may for other reasons.
Fcntl(u) ==
    /\ user[u].pc = "fcntl"
    /\ \/ /\ fcntlLock[user[u].fd] \in {NoProcess, ProcessOf[u]}
          /\ fcntlLock' = [fcntlLock EXCEPT ![user[u].fd] = ProcessOf[u]] /\ To(u, "held")
       \/ UNCHANGED fcntlLock /\ To(u, "denied")
    /\ UNCHANGED <<lockFile, inodes, locked, kept, exits>>

\* Denied: the descriptor is closed, then the name taken out of locks_.
Denied(u) ==
    /\ user[u].pc = "denied"
    /\ CloseDescriptor(u) /\ To(u, "forget")
    /\ UNCHANGED <<lockFile, inodes, locked, kept, exits>>

\* Mutant of DeniedRemoves: the name stays in locks_.
DeniedKeeps(u) ==
    /\ user[u].pc = "forget"
    /\ user' = [user EXCEPT ![u] = Away]
    /\ UNCHANGED <<lockFile, inodes, fcntlLock, locked, kept, exits>>

DeniedRemoves(u) ==
    /\ user[u].pc = "forget"
    /\ locked' = locked \ {ProcessOf[u]} /\ user' = [user EXCEPT ![u] = Away]
    /\ UNCHANGED <<lockFile, inodes, fcntlLock, kept, exits>>

-----------------------------------------------------------------------------
(* UnlockFile, and what DestroyDB does after it.                            *)

\* Where the caller goes on: ~DBImpl is done, DestroyDB has a file to remove.
AfterUnlock(u) ==
    user' = [user EXCEPT ![u] = IF @.destroy THEN [@ EXCEPT !.pc = "unlink", !.fd = NoInode] ELSE Away]

Unlock(u) ==
    /\ user[u].pc = "held"
    /\ fcntlLock' = [fcntlLock EXCEPT ![user[u].fd] = IF @ = ProcessOf[u] THEN NoProcess ELSE @]
    /\ To(u, "remove")
    /\ UNCHANGED <<lockFile, inodes, locked, kept, exits>>

\* The unlocking fcntl fails: UnlockFile returns the error, which its callers
\* ignore. The name stays in locks_, the descriptor is never closed.
UnlockFails(u) ==
    /\ user[u].pc = "held"
    /\ kept' = kept \cup {<<ProcessOf[u], user[u].fd>>} /\ AfterUnlock(u)
    /\ UNCHANGED <<lockFile, inodes, fcntlLock, locked, exits>>

RemoveLock(u) ==
    /\ user[u].pc = "remove"
    /\ locked' = locked \ {ProcessOf[u]} /\ To(u, "close")
    /\ UNCHANGED <<lockFile, inodes, fcntlLock, kept, exits>>

CloseLock(u) ==
    /\ user[u].pc = "close"
    /\ CloseDescriptor(u) /\ AfterUnlock(u)
    /\ UNCHANGED <<lockFile, inodes, locked, kept, exits>>

\* DestroyDB removes the LOCK file after it has unlocked it.
UnlinkLock(u) ==
    /\ user[u].pc = "unlink"
    /\ lockFile' = NoInode /\ user' = [user EXCEPT ![u] = Away]
    /\ UNCHANGED <<inodes, fcntlLock, locked, kept, exits>>

\* "If the process exits, the lock will be automatically released."
ProcessExit(p) ==
    /\ exits < MaxExits /\ exits' = exits + 1
    /\ p \in locked \/ \E u \in Users : ProcessOf[u] = p /\ user[u].pc # "away"
    /\ user' = [u \in Users |-> IF ProcessOf[u] = p THEN Away ELSE user[u]]
    /\ fcntlLock' = [i \in 1 .. MaxInodes |-> IF fcntlLock[i] = p THEN NoProcess ELSE fcntlLock[i]]
    /\ locked' = locked \ {p}
    /\ kept' = {k \in kept : k[1] # p}
    /\ UNCHANGED <<lockFile, inodes>>

-----------------------------------------------------------------------------
FLNext ==
    \/ \E u \in Users : \/ \E destroy \in BOOLEAN : OpenLockFile(u, destroy)
                        \/ InsertLock(u) \/ Refused(u) \/ Fcntl(u) \/ Denied(u) \/ DeniedRemoves(u)
                        \/ Unlock(u) \/ UnlockFails(u) \/ RemoveLock(u) \/ CloseLock(u) \/ UnlinkLock(u)
    \/ \E p \in Processes : ProcessExit(p)

FLSpec == FLInit /\ [][FLNext]_flVars

-----------------------------------------------------------------------------
Holders == {u \in Users : user[u].pc = "held"}

\* A lock is not left behind: what a process has taken in locks_ or in the
\* kernel belongs to a user that is still in a call or has the database open,
\* on every path of LockFile and UnlockFile but one, and after an exit. The one
\* is an UnlockFile whose fcntl fails: its lock stays until the process exits,
\* and until then no user of the process gets another. And locks_ gives
\* what fcntl does not: two threads of one process never both have it open
\* (the comment of PosixLockTable, env_posix.cc:492-498).
NoLockLeft ==
    /\ \A u, v \in Holders : ProcessOf[u] = ProcessOf[v] => u = v
    /\ \A p \in locked : \/ \E u \in Users : ProcessOf[u] = p /\ user[u].pc \in {"fcntl", "denied", "forget", "held", "remove"}
                        \/ \E k \in kept : k[1] = p
    /\ \A i \in 1 .. MaxInodes : fcntlLock[i] # NoProcess =>
          \/ \E u \in Users : ProcessOf[u] = fcntlLock[i] /\ user[u].fd = i
          \/ <<fcntlLock[i], i>> \in kept
    /\ \A k \in kept : k[1] \in locked /\ \A u \in Holders : ProcessOf[u] # k[1]

\* LockFile is there "to prevent concurrent access to the same db by multiple
\* processes" (env.h:171).
OneHolder == Cardinality(Holders) <= 1

=============================================================================
