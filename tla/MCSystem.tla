------------------------------ MODULE MCSystem ------------------------------
(* The parts below the store, one at a time: the table cache, the memtable,   *)
(* a group of persistent memory, the POSIX files, locks and background work,  *)
(* and the environment in memory. A behaviour is one of one part; the others  *)
(* stay in their initial states.                                              *)
EXTENDS TableCache, MemTable, PMGroup, MCFileLock, WritableFile, WorkQueue, MemEnv

CONSTANTS f1, f2

VARIABLE component

systemVars == <<component, tcVars, mtVars, pmVars, flVars, wfVars, wqVars, meVars>>

SystemInit ==
    /\ component \in {"cache", "memtable", "group", "lock", "file", "queue", "memory"}
    /\ TCInit /\ MTInit /\ PMInit /\ FLInit /\ WFInit /\ WQInit /\ MEInit
    /\ component # "file" => ~file.is_manifest

SystemNext ==
    /\ UNCHANGED component
    /\ \/ component = "cache" /\ TCNext /\ UNCHANGED <<mtVars, pmVars, flVars, wfVars, wqVars, meVars>>
       \/ component = "memtable" /\ MTNext /\ UNCHANGED <<tcVars, pmVars, flVars, wfVars, wqVars, meVars>>
       \/ component = "group" /\ PMNext /\ UNCHANGED <<tcVars, mtVars, flVars, wfVars, wqVars, meVars>>
       \/ component = "lock" /\ FLNext /\ UNCHANGED <<tcVars, mtVars, pmVars, wfVars, wqVars, meVars>>
       \/ component = "file" /\ WFNext /\ UNCHANGED <<tcVars, mtVars, pmVars, flVars, wqVars, meVars>>
       \/ component = "queue" /\ WQNext /\ UNCHANGED <<tcVars, mtVars, pmVars, flVars, wfVars, meVars>>
       \/ component = "memory" /\ MENext /\ UNCHANGED <<tcVars, mtVars, pmVars, flVars, wfVars, wqVars>>

SystemSpec == SystemInit /\ [][SystemNext]_systemVars

\* The two files meet in a bucket, the first and, when the table has grown, the
\* second.
FileHash == f1 :> 1 @@ f2 :> 3

\* Names and handles of the environment in memory are interchangeable.
Symmetry == Permutations(Names) \cup Permutations(MemHandles)

=============================================================================
