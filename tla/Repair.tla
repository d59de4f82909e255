------------------------------- MODULE Repair -------------------------------
(***************************************************************************)
(* RepairDB (lib/leveldb/db/repair.cc): logs are converted to tables,      *)
(* damaged tables are copied, a new descriptor lists what is there, and    *)
(* everything that is replaced is archived in lost/. A step may fail, the  *)
(* process may crash between any two steps, and repair may be run again,   *)
(* before DB::Open (db_impl.cc, RemoveObsoleteFiles) clears the directory. *)
(*                                                                         *)
(* A file is the set of updates, named by sequence number, that can be     *)
(* read from it, and whether something else of it cannot be.               *)
(***************************************************************************)
EXTENDS Integers, FiniteSets, FiniteSetsExt

CONSTANTS
    FoundFiles,   \* the directories repair may be called on
    MaxNumber,    \* bound: file numbers
    RepairFaults, \* operations that may fail
    MaxRepairFaults, \* bound: failures and crashes
    MaxRepairs    \* bound: calls of RepairDB

Numbers == 1 .. MaxNumber

ASSUME RepairAssumption ==
    /\ MaxNumber \in Nat /\ MaxRepairFaults \in Nat /\ MaxRepairs \in Nat
    /\ \A d \in FoundFiles : \A n \in DOMAIN d :
          /\ d[n] \in [type : {"log", "table"}, data : SUBSET Nat, bad : BOOLEAN]
          /\ IsFiniteSet(d[n].data)
Absent == [type |-> "none", data |-> {}, bad |-> FALSE]
\* one |-> CURRENT names MANIFEST-000001, the name of every repaired descriptor.
NoDescriptor == [tables |-> {}, next |-> 0, last |-> 0, valid |-> FALSE, ok |-> TRUE, one |-> FALSE]

VARIABLES
    dir,         \* number -> file of the database directory
    lost,        \* [type, number] -> updates readable from the archived file
    installed,   \* what CURRENT leads to
    repairer,    \* the Repairer: where it is and what it has collected
    rfaults, repairs,
    salvageable, \* updates readable when repair was first called
    found        \* updates readable in the directory when this call began

reVars == <<dir, lost, installed, repairer, rfaults, repairs, salvageable, found>>

NoRepairer == [pc |-> "off", logs |-> {}, numbers |-> {}, tables |-> {}, next |-> 1, at |-> 0, copy |-> 0, entries |-> {},
               ok |-> TRUE]

RInit ==
    /\ dir = [n \in Numbers |-> Absent]
    /\ lost = [f \in {"log", "table"} \X Numbers |-> {}]
    /\ installed = NoDescriptor
    /\ repairer = [NoRepairer EXCEPT !.pc = "unmade"]
    /\ rfaults = 0 /\ repairs = 0 /\ salvageable = {} /\ found = {}

ReadableIn(d) == UNION {d[n].data : n \in Numbers}

\* A database directory, as a crash or damage left it.
Damaged(d) ==
    /\ repairer.pc = "unmade"
    /\ dir' = [n \in Numbers |-> IF n \in DOMAIN d THEN d[n] ELSE Absent]
    /\ salvageable' = ReadableIn(dir')
    /\ repairer' = NoRepairer
    /\ UNCHANGED <<lost, installed, rfaults, repairs, found>>

MayFail(op) == op \in RepairFaults /\ rfaults < MaxRepairFaults

\* A step of the repairer works, or the operation named fails.
Works == UNCHANGED rfaults
Fails(op) == MayFail(op) /\ rfaults' = rfaults + 1

-----------------------------------------------------------------------------
(* FindFiles.                                                               *)

\* Mutant of NextAfter: the largest number itself.
NextIs(ns) == Max(ns \cup {1})

NextAfter(ns) == Max(ns \cup {0}) + 1

FindFiles ==
    /\ repairer.pc = "off" /\ repairs < MaxRepairs
    /\ LET Of(type) == {n \in Numbers : dir[n].type = type}
       IN  repairer' = [NoRepairer EXCEPT !.pc = "logs", !.logs = Of("log"), !.numbers = Of("table"),
                                          !.next = NextAfter(Of("log") \cup Of("table"))]
    /\ repairs' = repairs + 1 /\ found' = ReadableIn(dir)
    /\ UNCHANGED <<dir, lost, installed, rfaults, salvageable>>

-----------------------------------------------------------------------------
(* ArchiveFile: the file is renamed into lost/, over one that has its name  *)
(* there; an error is only logged.                                          *)

\* Mutant of Archived: the file is removed.
ArchivedNowhere(n) == lost

Archived(n) == [lost EXCEPT ![<<dir[n].type, n>>] = dir[n].data]

ArchiveFile(n) ==
    \/ Works /\ lost' = Archived(n) /\ dir' = [dir EXCEPT ![n] = Absent]
    \/ Fails("archive") /\ UNCHANGED <<lost, dir>>

-----------------------------------------------------------------------------
(* ConvertLogFilesToTables.                                                 *)

\* The log is read and its table built under a new number; a log that cannot
\* be opened or a table that cannot be built is ignored.
ConvertLogToTable(l) ==
    /\ repairer.pc = "logs" /\ l \in repairer.logs /\ repairer.next <= MaxNumber
    /\ \/ /\ Works
          /\ dir' = IF dir[l].data = {} THEN dir
                    ELSE [dir EXCEPT ![repairer.next] = [type |-> "table", data |-> dir[l].data, bad |-> FALSE]]
          /\ repairer' = [repairer EXCEPT !.pc = "archiveLog", !.at = l, !.next = @ + 1,
                                          !.numbers = IF dir[l].data = {} THEN @ ELSE @ \cup {repairer.next}]
       \/ /\ Fails("build") /\ UNCHANGED dir
          /\ repairer' = [repairer EXCEPT !.pc = "archiveLog", !.at = l, !.next = @ + 1, !.ok = FALSE]
       \/ /\ Fails("openLog") /\ UNCHANGED dir
          /\ repairer' = [repairer EXCEPT !.pc = "archiveLog", !.at = l, !.ok = FALSE]
    /\ UNCHANGED <<lost, installed, repairs, salvageable, found>>

ArchiveLog ==
    /\ repairer.pc = "archiveLog"
    /\ ArchiveFile(repairer.at)
    /\ repairer' = [repairer EXCEPT !.pc = "logs", !.logs = @ \ {repairer.at}]
    /\ UNCHANGED <<installed, repairs, salvageable, found>>

LogsConverted ==
    /\ repairer.pc = "logs" /\ repairer.logs = {}
    /\ repairer' = [repairer EXCEPT !.pc = "tables"]
    /\ UNCHANGED <<dir, lost, installed, rfaults, repairs, salvageable, found>>

-----------------------------------------------------------------------------
(* ExtractMetaData.                                                         *)

\* A table that can be scanned to its end is kept as it is; one that cannot be
\* found is archived.
ScanTable(n) ==
    /\ repairer.pc = "tables" /\ n \in repairer.numbers
    /\ \/ /\ ~dir[n].bad /\ Works /\ UNCHANGED <<dir, lost>>
          /\ repairer' = [repairer EXCEPT !.numbers = @ \ {n}, !.tables = @ \cup {n}]
       \/ /\ dir[n].bad /\ Works /\ UNCHANGED <<dir, lost>>
          /\ repairer' = [repairer EXCEPT !.pc = "copy", !.numbers = @ \ {n}, !.at = n]
       \/ /\ Fails("stat")
          /\ lost' = Archived(n) /\ dir' = [dir EXCEPT ![n] = Absent]
          /\ repairer' = [repairer EXCEPT !.numbers = @ \ {n}, !.ok = FALSE]
    /\ UNCHANGED <<installed, repairs, salvageable, found>>

\* RepairTable: the copy is created and gets the entries that can be read.
RepairTable ==
    /\ repairer.pc = "copy" /\ repairer.next <= MaxNumber
    /\ \/ /\ Works
          /\ dir' = [dir EXCEPT ![repairer.next] = [type |-> "table", data |-> {}, bad |-> TRUE]]
          /\ repairer' = [repairer EXCEPT !.pc = "archiveTable", !.copy = repairer.next, !.next = @ + 1]
       \/ /\ Fails("copy") /\ UNCHANGED dir
          /\ repairer' = [repairer EXCEPT !.pc = "tables", !.next = @ + 1, !.ok = FALSE]
    /\ UNCHANGED <<lost, installed, repairs, salvageable, found>>

\* The source is archived, then the copy is finished and closed. A copy with
\* no entries is abandoned and stays where it is.
ArchiveTable ==
    /\ repairer.pc = "archiveTable"
    /\ ArchiveFile(repairer.at)
    /\ repairer' = [repairer EXCEPT !.pc = IF dir[repairer.at].data = {} THEN "tables" ELSE "finish",
                                    !.entries = dir[repairer.at].data]
    /\ UNCHANGED <<installed, repairs, salvageable, found>>

FinishCopy ==
    /\ repairer.pc = "finish"
    /\ \/ /\ Works
          /\ dir' = [dir EXCEPT ![repairer.copy] = [type |-> "table", data |-> repairer.entries, bad |-> FALSE]]
          /\ repairer' = [repairer EXCEPT !.pc = "rename"]
       \/ /\ Fails("finish") /\ UNCHANGED dir
          /\ repairer' = [repairer EXCEPT !.pc = "removeCopy", !.ok = FALSE]
    /\ UNCHANGED <<lost, installed, repairs, salvageable, found>>

\* The copy is renamed over the source.
RenameCopy ==
    /\ repairer.pc = "rename"
    /\ \/ /\ Works
          /\ dir' = [dir EXCEPT ![repairer.at] = dir[repairer.copy], ![repairer.copy] = Absent]
          /\ repairer' = [repairer EXCEPT !.pc = "tables", !.tables = @ \cup {repairer.at}]
       \/ /\ Fails("rename") /\ UNCHANGED dir
          /\ repairer' = [repairer EXCEPT !.pc = "removeCopy", !.ok = FALSE]
    /\ UNCHANGED <<lost, installed, repairs, salvageable, found>>

RemoveCopy ==
    /\ repairer.pc = "removeCopy"
    /\ dir' = [dir EXCEPT ![repairer.copy] = Absent]
    /\ repairer' = [repairer EXCEPT !.pc = "tables"]
    /\ UNCHANGED <<lost, installed, rfaults, repairs, salvageable, found>>

-----------------------------------------------------------------------------
(* WriteDescriptor: the new one is written aside, the old ones archived, and *)
(* the new one renamed and made current.                                    *)

WriteDescriptor ==
    /\ repairer.pc = "tables" /\ repairer.numbers = {}
    /\ \/ Works /\ repairer' = [repairer EXCEPT !.pc = "manifests"]
       \/ Fails("descriptor") /\ repairer' = [repairer EXCEPT !.pc = "off", !.ok = FALSE]
    /\ UNCHANGED <<dir, lost, installed, repairs, salvageable, found>>

ArchiveManifests ==
    /\ repairer.pc = "manifests"
    /\ \/ Works /\ installed' = [NoDescriptor EXCEPT !.one = installed.one]
       \/ Fails("archive") /\ UNCHANGED installed
    /\ repairer' = [repairer EXCEPT !.pc = "install"]
    /\ UNCHANGED <<dir, lost, repairs, salvageable, found>>

Descriptor ==
    [tables |-> repairer.tables, next |-> repairer.next, valid |-> TRUE, ok |-> repairer.ok, one |-> TRUE,
     last |-> Max((UNION {dir[n].data : n \in repairer.tables}) \cup {0})]

\* The rename to MANIFEST-000001 is enough if CURRENT names that file already.
InstallDescriptor ==
    /\ repairer.pc = "install"
    /\ \/ /\ Works
          /\ installed' = IF installed.one THEN Descriptor ELSE installed
          /\ repairer' = [repairer EXCEPT !.pc = "setCurrent"]
       \/ /\ Fails("install") /\ UNCHANGED installed
          /\ repairer' = [repairer EXCEPT !.pc = "off", !.ok = FALSE]
    /\ UNCHANGED <<dir, lost, repairs, salvageable, found>>

MakeCurrent ==
    /\ repairer.pc = "setCurrent"
    /\ \/ Works /\ installed' = Descriptor /\ repairer' = [repairer EXCEPT !.pc = "done"]
       \/ Fails("install") /\ UNCHANGED installed /\ repairer' = [repairer EXCEPT !.pc = "off", !.ok = FALSE]
    /\ UNCHANGED <<dir, lost, repairs, salvageable, found>>

\* RepairDB returns.
RepairReturns ==
    /\ repairer.pc = "done" /\ repairer' = NoRepairer
    /\ UNCHANGED <<dir, lost, installed, rfaults, repairs, salvageable, found>>

\* A table that was being built stays behind, unfinished.
CrashInRepair ==
    /\ repairer.pc \notin {"off", "unmade", "opened"} /\ Fails("crash")
    /\ repairer' = NoRepairer
    /\ \/ UNCHANGED dir
       \/ /\ repairer.pc = "logs" /\ repairer.logs # {} /\ repairer.next <= MaxNumber
          /\ dir' = [dir EXCEPT ![repairer.next] = [type |-> "table", data |-> {}, bad |-> TRUE]]
    /\ UNCHANGED <<lost, installed, repairs, salvageable, found>>

\* DB::Open removes the tables its descriptor does not list. The logs that are
\* still there are not older than its log number, which is zero.
OpenRepaired ==
    /\ repairer.pc = "off" /\ installed.valid
    /\ dir' = [n \in Numbers |-> IF dir[n].type = "table" /\ n \notin installed.tables THEN Absent ELSE dir[n]]
    /\ repairer' = [NoRepairer EXCEPT !.pc = "opened"]
    /\ UNCHANGED <<lost, installed, rfaults, repairs, salvageable, found>>

RNext ==
    \/ \E d \in FoundFiles : Damaged(d)
    \/ FindFiles \/ ArchiveLog \/ LogsConverted \/ RepairTable \/ ArchiveTable \/ FinishCopy \/ RenameCopy
    \/ RemoveCopy \/ WriteDescriptor \/ ArchiveManifests \/ InstallDescriptor \/ MakeCurrent \/ RepairReturns
    \/ \E n \in Numbers : ConvertLogToTable(n) \/ ScanTable(n)
    \/ CrashInRepair \/ OpenRepaired

RSpec == RInit /\ [][RNext]_reVars

-----------------------------------------------------------------------------
\* No file is archived under the name of another one: either repair is called
\* once, or no table leaves the directory but one that is being replaced, so that
\* the number of an archived table is not given out again (repair.cc:98-129).
ArchiveNamesFresh == MaxRepairs <= 1 \/ RepairFaults \cap {"stat", "finish", "rename"} = {}

\* Wherever repair stops, what could be read before can be read from a table, a
\* log or an archived file; and still after the database has been opened, if the
\* repair before was one in which no file operation failed. (A table that
\* RepairTable gives up on before it is archived stays in the directory unlisted,
\* and DB::Open removes it.) It holds under ArchiveNamesFresh: for one call
\* whatever fails, for several unless a table was archived and not replaced.
\* Without, a later call may archive another table of its number over it
\* (repair.cc:408-426).
NothingReadableIsLost ==
    (repairer.pc = "opened" => installed.ok)
    => salvageable \subseteq ReadableIn(dir) \cup UNION {lost[f] : f \in DOMAIN lost}

\* A repair in which nothing failed lists every update it found readable, in
\* logs and in damaged tables too, and tables of an earlier repair that crashed.
\* One that returns has put its counters above every file it leaves and every
\* update it lists: nothing will be overwritten or hidden by new writes.
RepairIsComplete ==
    /\ repairer.pc = "done" /\ repairer.ok =>
          found \subseteq UNION {dir[n].data : n \in installed.tables}
    /\ repairer.pc = "done" => \A n \in Numbers : dir[n].type # "none" => n < installed.next
    /\ installed.valid => \A n \in installed.tables :
          n < installed.next /\ \A s \in dir[n].data : s <= installed.last

=============================================================================
