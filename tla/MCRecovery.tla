------------------------------ MODULE MCRecovery ------------------------------
(* What is left after a crash, part by part: the store that opens again, once *)
(* with the default options and two crashes and once with logs reused and one *)
(* I/O error of any kind, the records of a log, and the repair of a database  *)
(* that does not open, called once or again. A behaviour is one of one part;  *)
(* the others stay in their initial states.                                   *)
EXTENDS Durability, LogFormat, Repair, TLC

VARIABLE part

\* The store with reuse_logs and every kind of error.
Errors == INSTANCE Durability WITH
    ReuseLogs <- TRUE, MaxCrashes <- 1, MaxIterators <- 0,
    Faults <- {"log_sync", "log_append", "close", "table", "manifest", "manifest_tear", "open"}

\* RepairDB called up to three times, with no failing stat of a table and no copy
\* that cannot be finished or renamed.
Again == INSTANCE Repair WITH MaxRepairs <- 3, MaxRepairFaults <- 3,
    RepairFaults <- RepairFaults \ {"stat", "finish", "rename"}

recoveryVars == <<part, vars, lfVars, reVars>>

RecoveryInit ==
    /\ part \in {"store", "errors", "log", "once", "again"}
    /\ IF part = "errors" THEN Errors!Init ELSE Init
    /\ LFInit /\ RInit

RecoveryNext ==
    /\ UNCHANGED part
    /\ \/ part = "store" /\ Next /\ UNCHANGED <<lfVars, reVars>>
       \/ part = "errors" /\ Errors!Next /\ UNCHANGED <<lfVars, reVars>>
       \/ part = "log" /\ LFNext /\ UNCHANGED <<vars, reVars>>
       \/ part = "once" /\ RNext /\ UNCHANGED <<vars, lfVars>>
       \/ part = "again" /\ Again!RNext /\ UNCHANGED <<vars, lfVars>>

RecoverySpec == RecoveryInit /\ [][RecoveryNext]_recoveryVars

\* Two tables and two logs, of which one each may be damaged; or a table that is
\* newer than the log, as one that a compaction wrote.
DamagedDirs ==
    {1 :> [type |-> "table", data |-> {1, 2}, bad |-> t] @@ 2 :> [type |-> "table", data |-> {3}, bad |-> FALSE]
        @@ 4 :> [type |-> "log", data |-> {4}, bad |-> FALSE] @@ 5 :> [type |-> "log", data |-> {5}, bad |-> l] :
        t \in BOOLEAN, l \in BOOLEAN}
    \cup {1 :> [type |-> "log", data |-> {2}, bad |-> FALSE] @@ 2 :> [type |-> "table", data |-> {1}, bad |-> t] :
        t \in BOOLEAN}
=============================================================================
