-------------------------- MODULE DurabilityProofs --------------------------
(***************************************************************************)
(* The proofs that a database opens again after any number of crashes,     *)
(* failures of the machine and I/O errors, with every update it owes, and  *)
(* that an open database never loses or reuses a file it needs.            *)
(***************************************************************************)
EXTENDS Durability, TLAPS, FiniteSetTheorems, NaturalsInduction, WellFoundedInduction

\* No record is ever appended behind a fragment: no recovered file is appended
\* to, and no append leaves a part of its record.
CleanAppends == ~ReuseLogs /\ "manifest_tear" \notin Faults /\ "log_append" \notin Faults

-----------------------------------------------------------------------------
(* What the files hold.  T stands for tables, L for logs, q for seq, o for  *)
(* owed and d for durable.                                                  *)

Holds(T, V) == UNION {T[t] : t \in V}

Records(f) == {f.recs[i] : i \in 1 .. Len(f.recs)}

SyncedRecords(f) == {f.recs[i] : i \in 1 .. f.synced}

\* The updates in the logs from number l on.
UpdatesIn(L, l) == UNION {Records(L[n]) : n \in {m \in DOMAIN L : m >= l}}

SyncedIn(L, l) == UNION {SyncedRecords(L[n]) : n \in {m \in DOMAIN L : m >= l}}

Ordered(q, U) == \A i, j \in U : i < j => q[i] < q[j]

\* A MANIFEST that ends with the tables V, log number l, next file number nx and
\* last sequence number s opens the database with all it owes.
Restart(T, L, q, o, d, V, l, nx, s) ==
    /\ l \in Nat /\ nx \in Nat /\ s \in Nat /\ l < nx
    /\ V \subseteq DOMAIN T /\ \A n \in V : n < nx
    /\ \A i \in Holds(T, V) : q[i] <= s
    /\ o \subseteq Holds(T, V) \cup UpdatesIn(L, l)
    /\ o \cap d \subseteq Holds(T, V) \cup SyncedIn(L, l)
    /\ Ordered(q, Holds(T, V) \cup UpdatesIn(L, l))

\* The tables after the first k edits of a MANIFEST.
VersionAt(f, k) == Replay(SubSeq(f.recs, 1, k))

FinalEdit(f) == f.recs[Len(f.recs)]

\* The tables after all of them.
FinalVersion(f) == Replay(f.recs)

\* The lengths at which a failure of the machine may cut off a MANIFEST.
Points(f) == f.synced .. Len(f.recs)

RestartAt(T, L, q, o, d, m, f, k) ==
    /\ m < f.recs[k].next /\ f.recs[k].next <= FinalEdit(f).next
    /\ Restart(T, L, q, o, d, VersionAt(f, k), f.recs[k].log, f.recs[k].next, f.recs[k].seq)

\* Whatever a failure of the machine leaves of MANIFEST m opens the database.
Restarts(T, L, q, o, d, m, f) ==
    f.synced >= 1 /\ \A k \in Points(f) : RestartAt(T, L, q, o, d, m, f, k)

-----------------------------------------------------------------------------
(* The inductive invariant: types.                                          *)

Updates == 1 .. Len(seq)

Edits == [add : SUBSET Nat, del : SUBSET Nat, log : Nat \cup {Unset}, next : Nat \cup {Unset},
          seq : Nat \cup {Unset}]

FileOf(S) == [recs : Seq(S), synced : Nat, torn : SUBSET Nat]

\* A file of which at most the end is a fragment.
WholeFile(f, S) == f \in FileOf(S) /\ f.synced <= Len(f.recs) /\ f.torn \subseteq {Len(f.recs)}

\* Numbered files of records.
Directory(F, S) == DOMAIN F \subseteq Nat \ {0} /\ \A n \in DOMAIN F : WholeFile(F[n], S)

TableFiles(T, S) == DOMAIN T \subseteq Nat \ {0} /\ \A n \in DOMAIN T : T[n] \subseteq S

DiskTypes ==
    /\ Directory(logs, Updates) /\ Directory(manifests, Edits) /\ TableFiles(tables, Updates)
    /\ current \in Nat

MemoryTypes ==
    /\ seq \in Seq(Nat)
    /\ log_number \in Nat /\ next_file_number \in Nat /\ manifest_file_number \in Nat /\ last_sequence \in Nat
    /\ logfile_number \in Nat /\ output \in Nat
    /\ compaction \in [inputs : SUBSET Nat, output : Nat]
    /\ live \subseteq Nat /\ pending_outputs \subseteq Nat /\ iterator \subseteq Nat /\ todo \subseteq Nat
    /\ descriptor \in BOOLEAN /\ has_imm \in BOOLEAN /\ bg_error \in BOOLEAN
    /\ mem \subseteq Updates /\ imm \subseteq Updates
    /\ owed \subseteq Updates /\ durable \subseteq Updates /\ covered \subseteq Updates
    /\ edit \in Edits
    /\ job \in {"none", "open", "flush", "compact", "move"}
    /\ files_to_delete \subseteq {"log", "table", "manifest"} \X Nat

-----------------------------------------------------------------------------
(* What is on the disk.                                                     *)

Manifest == manifests[current]

DiskInv ==
    IF current = 0 THEN DOMAIN logs = {} /\ owed = {}
    ELSE /\ current \in DOMAIN manifests
         /\ Restarts(tables, logs, seq, owed, durable, current, Manifest)

-----------------------------------------------------------------------------
(* The database is closed or being opened.                                  *)

NothingInMemory ==
    /\ mem = {} /\ imm = {} /\ has_imm = FALSE /\ bg_error = FALSE /\ pending_outputs = {} /\ iterator = {}
    /\ compaction = NoCompaction /\ files_to_delete = {} /\ output = 0

\* Between Recover and OpenLog: the logs not on the list are in tables.
RecoveringLogs ==
    /\ current # 0 /\ job = "none" /\ logfile_number = 0
    /\ live = FinalVersion(Manifest) /\ log_number = FinalEdit(Manifest).log
    /\ manifest_file_number = FinalEdit(Manifest).next
    /\ manifest_file_number < next_file_number /\ FinalEdit(Manifest).seq <= last_sequence
    /\ todo \subseteq {n \in DOMAIN logs : n >= log_number}
    /\ \A n \in DOMAIN logs \ todo : n < next_file_number
    /\ edit.del = {} /\ edit.add \subseteq DOMAIN tables
    /\ \A n \in edit.add : manifest_file_number < n /\ n < next_file_number
    /\ Holds(tables, edit.add) \subseteq UpdatesIn(logs, log_number)
    /\ \A n \in DOMAIN logs \ todo : n >= log_number => Records(logs[n]) \subseteq Holds(tables, edit.add)
    /\ \A i \in Holds(tables, edit.add) : seq[i] <= last_sequence

\* Between OpenLog and SetCurrentFile: a new MANIFEST is written.
WritingManifest ==
    /\ current # 0 /\ job = "open" /\ current < manifest_file_number /\ manifest_file_number < edit.next
    /\ edit.del = {} /\ edit.log = logfile_number /\ edit.next = next_file_number /\ edit.seq = last_sequence
    /\ Restart(tables, logs, seq, owed, durable, live \cup edit.add, edit.log, edit.next, edit.seq)
    /\ owed \subseteq Holds(tables, live \cup edit.add)
    /\ logfile_number \in DOMAIN logs /\ logs[logfile_number].torn = {}
    /\ UpdatesIn(logs, logfile_number) = {}
    /\ \A n \in DOMAIN logs : n < next_file_number
    /\ pc \in {"sync", "setcurrent"} =>
          /\ manifest_file_number \in DOMAIN manifests
          /\ manifests[manifest_file_number].recs = <<Snapshot, edit>>
          /\ manifests[manifest_file_number].torn = {}
    /\ pc = "setcurrent" => manifests[manifest_file_number].synced = 2

DownInv ==
    ~descriptor =>
       /\ NothingInMemory
       /\ pc \in {"down", "created", "logs", "append", "sync", "setcurrent"}
       /\ pc \in {"down", "created"} => edit = NoEdit /\ logfile_number = 0 /\ job = "none"
       /\ pc = "created" => /\ current = 0 /\ 1 \in DOMAIN manifests
                            /\ manifests[1] = [recs |-> <<NewDBEdit>>, synced |-> 1, torn |-> {}]
       /\ pc = "logs" => RecoveringLogs
       /\ pc \in {"append", "sync", "setcurrent"} => WritingManifest

-----------------------------------------------------------------------------
(* The database is open.                                                    *)

UpNumbers ==
    /\ current # 0 /\ manifest_file_number = current /\ Manifest.torn = {}
    /\ logfile_number \in DOMAIN logs /\ logs[logfile_number].torn = {} /\ log_number <= logfile_number
    /\ \A n \in DOMAIN logs : n < next_file_number
    /\ \A n \in live \cup iterator \cup pending_outputs : n < next_file_number
    /\ 0 \notin pending_outputs
    /\ live \cup iterator \subseteq DOMAIN tables
    /\ compaction.inputs \subseteq live
    /\ pc \in {"append", "sync", "delete", "idle", "building", "compacting"}
    /\ pc = "idle" => compaction = NoCompaction
    /\ pc = "compacting" => compaction # NoCompaction
    /\ pc \notin {"append", "sync"} => edit = NoEdit

UpSequences ==
    /\ \A i \in Holds(tables, live) \cup UpdatesIn(logs, log_number) : seq[i] <= last_sequence
    /\ Ordered(seq, Holds(tables, live) \cup Holds(tables, FinalVersion(Manifest)) \cup UpdatesIn(logs, log_number))
    /\ \A k \in Points(Manifest) :
          /\ Manifest.recs[k].seq <= last_sequence /\ Manifest.recs[k].next <= next_file_number
          /\ Manifest.recs[k].log <= logfile_number
          /\ \A i \in UpdatesIn(logs, Manifest.recs[k].log) : seq[i] <= last_sequence

UpData ==
    /\ mem \subseteq Records(logs[logfile_number])
    /\ mem \cap durable \subseteq SyncedRecords(logs[logfile_number])
    /\ imm \subseteq UpdatesIn(logs, log_number) /\ imm \cap durable \subseteq SyncedIn(logs, log_number)
    /\ owed \subseteq mem \cup imm \cup Holds(tables, live)
    /\ owed \subseteq mem \cup imm \cup Holds(tables, FinalVersion(Manifest))
    /\ mem \cap imm = {} /\ Holds(tables, live) \cap (mem \cup imm) = {}
    /\ ~has_imm => imm = {}

\* All of the MANIFEST is on the disk and installed.
Settled ==
    /\ Manifest.synced = Len(Manifest.recs) /\ FinalVersion(Manifest) = live
    /\ FinalEdit(Manifest).log = log_number

\* All but the last edit is.
OneMore(f, V) == f.synced = Len(f.recs) - 1 /\ VersionAt(f, Len(f.recs) - 1) = V

UpManifest ==
    /\ pc = "delete" => Settled
    /\ ~bg_error /\ pc # "sync" => Settled
    /\ ~bg_error /\ pc = "sync" => OneMore(Manifest, live)

\* No version, edit or iterator has table n.
Unrecorded(f, n) == \A k \in Points(f) : n \notin VersionAt(f, k)

Fresh(n) == n \notin live \cup iterator \cup edit.add /\ Unrecorded(Manifest, n)

UpOutputs ==
    /\ pc = "building" => /\ has_imm /\ Fresh(output) /\ output \in pending_outputs
                          /\ (compaction # NoCompaction => output # compaction.output)
    /\ compaction # NoCompaction /\ ~(job = "compact" /\ pc \in {"append", "sync"}) =>
          Fresh(compaction.output) /\ compaction.output \in pending_outputs

UpDeletes ==
    /\ pc # "delete" => files_to_delete = {}
    /\ \A f \in files_to_delete :
          /\ f[1] = "table" => f[2] \notin live \cup iterator \cup pending_outputs
          /\ f[1] = "log" => f[2] < log_number
          /\ f[1] = "manifest" => f[2] < current

\* The edit that LogAndApply is called with.
EditSound ==
    /\ job \in {"flush", "compact", "move"}
    /\ edit.add \cup edit.del \subseteq DOMAIN tables
    /\ Holds(tables, edit.del) \subseteq Holds(tables, edit.add)
    /\ edit.next \in Nat /\ edit.seq \in Nat /\ edit.log \in Nat
    /\ edit.next <= next_file_number /\ edit.seq <= last_sequence /\ current < edit.next /\ edit.log < edit.next
    /\ \A n \in edit.add : n < edit.next
    /\ \A i \in Holds(tables, edit.add) : seq[i] <= edit.seq
    /\ job = "flush" => /\ has_imm /\ edit.log = logfile_number
                        /\ imm \subseteq Holds(tables, edit.add)
                        /\ Holds(tables, edit.add) \subseteq Holds(tables, live) \cup imm
    /\ job # "flush" => edit.log = log_number /\ Holds(tables, edit.add) \subseteq Holds(tables, live)
    /\ job # "compact" => edit.del \cap compaction.inputs = {}
    /\ pc = "append" => FinalEdit(Manifest).next <= edit.next /\ FinalEdit(Manifest).seq <= edit.seq
    /\ pc = "sync" => FinalEdit(Manifest) = edit

UpEdit == pc \in {"append", "sync"} => EditSound

UpInv == descriptor => /\ UpNumbers /\ UpSequences /\ UpData /\ UpManifest
                       /\ UpOutputs /\ UpDeletes /\ UpEdit

Inv == DiskTypes /\ MemoryTypes /\ DiskInv /\ DownInv /\ UpInv

-----------------------------------------------------------------------------
(* Numbers.                                                                 *)

\* Every set of numbers that is not empty has a least one.
LEMMA LeastNumber ==
  ASSUME NEW T, T \subseteq Nat, T # {}
  PROVE  \E x \in T : \A y \in T : x <= y
<1>1. PICK x \in T : \A y \in T : ~(<<y, x>> \in OpToRel(<, Nat))
  BY WFMin, NatLessThanWellFounded
<1>2. ASSUME NEW y \in T PROVE x <= y
  <2>1. x \in Nat /\ y \in Nat
    OBVIOUS
  <2>2. y < x => <<y, x>> \in OpToRel(<, Nat)
    BY <2>1 DEF OpToRel
  <2>3. ~(<<y, x>> \in OpToRel(<, Nat))
    BY <1>1, Zenon
  <2>4. ~(y < x)
    BY <2>2, <2>3, Zenon
  <2> QED
    BY <2>1, <2>4
<1> QED
  BY <1>2

\* The smallest of a set of numbers is in it.
LEMMA MinOfNumbers ==
  ASSUME NEW S, S \subseteq Nat, S # {}
  PROVE  Min(S) \in S /\ \A y \in S : Min(S) <= y
BY LeastNumber DEF Min

\* A largest element is the one Max picks.
LEMMA MaxIsLargest ==
  ASSUME NEW S, S \subseteq Int, NEW m \in S, \A y \in S : y <= m
  PROVE  Max(S) = m
<1>1. m \in S /\ \A y \in S : m >= y
  BY SMT
<1>2. Max(S) \in S /\ \A y \in S : Max(S) >= y
  BY <1>1, Zenon DEF Max
<1>3. PICK x : x = Max(S)
  OBVIOUS
<1>4. x \in S /\ (\A y \in S : x >= y)
  BY <1>2, <1>3, Zenon
<1>5. x = m
  BY <1>1, <1>4, SMT
<1> QED
  BY <1>3, <1>5, Zenon

\* So does a set of numbers up to n have a largest one.
LEMMA LargestNumber ==
  ASSUME NEW n \in Nat, NEW S, S \subseteq 1 .. n, S # {}
  PROVE  \E x \in S : \A y \in S : y <= x
<1> DEFINE D == {n - y : y \in S}
<1>1. D \subseteq Nat /\ D # {}
  <2>1. ASSUME NEW y \in S PROVE n - y \in Nat
    OBVIOUS
  <2> QED
    BY <2>1, Zenon
<1>2. PICK x \in D : \A y \in D : x <= y
  <2> HIDE DEF D
  <2> QED
    BY <1>1, LeastNumber
<1>3. PICK z \in S : x = n - z
  BY <1>2
<1>4. ASSUME NEW y \in S PROVE y <= z
  <2>1. n - z <= n - y
    BY <1>2, <1>3
  <2> QED
    BY <2>1
<1> QED
  BY <1>4

\* Max of two numbers is above both.
LEMMA MaxOfTwo ==
  ASSUME NEW a \in Nat, NEW b \in Nat
  PROVE  Max({a, b}) \in Nat /\ a <= Max({a, b}) /\ b <= Max({a, b})
<1>1. CASE a <= b
  <2>1. Max({a, b}) = b
    BY <1>1, MaxIsLargest
  <2> QED
    BY <1>1, <2>1
<1>2. CASE b <= a
  <2>1. Max({a, b}) = a
    BY <1>2, MaxIsLargest
  <2> QED
    BY <1>2, <2>1
<1> QED
  BY <1>1, <1>2

-----------------------------------------------------------------------------
(* Replaying edits.                                                         *)

\* One more edit removes its deletions, then puts its additions.
LEMMA ReplayAppend ==
  ASSUME NEW E \in Seq(Edits), NEW e \in Edits
  PROVE  Replay(Append(E, e)) = (Replay(E) \ e.del) \cup e.add
<1> DEFINE F == Append(E, e)
           k == Len(E) + 1
<1>1. /\ DOMAIN E = 1 .. Len(E) /\ DOMAIN F = 1 .. k /\ Len(E) \in Nat
      /\ \A i \in 1 .. Len(E) : F[i] = E[i]
      /\ F[k] = e
  OBVIOUS
<1> HIDE DEF F
<1>2. ASSUME NEW t, t \in Replay(F) PROVE t \in (Replay(E) \ e.del) \cup e.add
  <2>1. PICK i \in DOMAIN F : t \in F[i].add /\ \A j \in DOMAIN F : j > i => t \notin F[j].del
    BY <1>2 DEF Replay
  <2>2. CASE i = k
    BY <1>1, <2>1, <2>2
  <2>3. CASE i # k
    <3>1. i \in 1 .. Len(E) /\ k > i /\ k \in DOMAIN F
      BY <1>1, <2>3
    <3>2. t \notin e.del
      BY <1>1, <2>1, <3>1
    <3>3. t \in E[i].add /\ \A j \in DOMAIN E : j > i => t \notin E[j].del
      BY <1>1, <2>1, <3>1
    <3>4. t \in Replay(E)
      BY <1>1, <3>1, <3>3 DEF Replay
    <3> QED
      BY <3>2, <3>4
  <2> QED
    BY <2>2, <2>3
<1>3. ASSUME NEW t, t \in e.add PROVE t \in Replay(F)
  <2>1. k \in DOMAIN F /\ t \in F[k].add /\ \A j \in DOMAIN F : ~(j > k)
    BY <1>1, <1>3
  <2> HIDE DEF k
  <2> QED
    BY <2>1 DEF Replay
<1>4. ASSUME NEW t, t \in Replay(E), t \notin e.del PROVE t \in Replay(F)
  <2>1. PICK i \in DOMAIN E : t \in E[i].add /\ \A j \in DOMAIN E : j > i => t \notin E[j].del
    BY <1>4 DEF Replay
  <2>2. i \in DOMAIN F /\ t \in F[i].add
    BY <1>1, <2>1
  <2>3. \A j \in DOMAIN F : j > i => t \notin F[j].del
    BY <1>1, <1>4, <2>1
  <2> QED
    BY <2>2, <2>3 DEF Replay
<1> QED
  BY <1>2, <1>3, <1>4 DEF F

\* The tables after the only edit of a MANIFEST.
LEMMA ReplayOne ==
  ASSUME NEW a
  PROVE  Replay(<<a>>) = a.add
<1> DEFINE E == <<a>>
<1>1. DOMAIN E = {1} /\ E[1] = a /\ ~(1 > 1)
  OBVIOUS
<1> HIDE DEF E
<1>2. Replay(E) = a.add
  BY <1>1, Zenon DEF Replay
<1> QED
  BY <1>2 DEF E

\* The tables after a snapshot and an edit that only adds.
LEMMA ReplayPair ==
  ASSUME NEW a, NEW b, b.del = {}
  PROVE  Replay(<<a, b>>) = a.add \cup b.add
<1> DEFINE E == <<a, b>>
<1>1. DOMAIN E = {1, 2} /\ E[1] = a /\ E[2] = b
  OBVIOUS
<1>2. ~(1 > 2) /\ ~(2 > 2) /\ ~(1 > 1)
  OBVIOUS
<1> HIDE DEF E
<1>3. ASSUME NEW t, t \in a.add \/ t \in b.add PROVE t \in Replay(E)
  BY <1>1, <1>2, <1>3 DEF Replay
<1>4. ASSUME NEW t, t \in Replay(E) PROVE t \in a.add \cup b.add
  BY <1>1, <1>4 DEF Replay
<1> QED
  BY <1>3, <1>4, Zenon DEF E

\* Reading all the edits gives the final version.
LEMMA FinalIsReplayed ==
  ASSUME NEW S, NEW f, WholeFile(f, S)
  PROVE  VersionAt(f, Len(f.recs)) = FinalVersion(f) /\ FinalEdit(f) = f.recs[Len(f.recs)]
<1>1. f.recs \in Seq(S)
  BY DEF WholeFile, FileOf
<1>2. PICK r : r = f.recs
  OBVIOUS
<1>3. SubSeq(r, 1, Len(r)) = r
  BY <1>1, <1>2
<1> QED
  BY <1>2, <1>3, Zenon DEF VersionAt, FinalVersion, FinalEdit

-----------------------------------------------------------------------------
(* Files.                                                                   *)

LEMMA WholeFileType ==
  ASSUME NEW S, NEW f, WholeFile(f, S)
  PROVE  /\ f.recs \in Seq(S) /\ Len(f.recs) \in Nat /\ f.synced \in 0 .. Len(f.recs)
         /\ f.torn \subseteq Nat /\ f.torn \subseteq {Len(f.recs)}
         /\ \A i \in 1 .. Len(f.recs) : f.recs[i] \in S
BY DEF WholeFile, FileOf

\* A new file is empty and has no fragment.
LEMMA NewFileIsWhole ==
  ASSUME NEW S
  PROVE  /\ WholeFile(NewWritableFile, S) /\ NewWritableFile.torn = {} /\ NewWritableFile.recs = <<>>
         /\ Records(NewWritableFile) = {} /\ SyncedRecords(NewWritableFile) = {}
<1>1. /\ NewWritableFile.recs = <<>> /\ NewWritableFile.synced = 0 /\ NewWritableFile.torn = {}
      /\ Len(<<>>) = 0 /\ <<>> \in Seq(S) /\ 1 .. 0 = {}
      /\ NewWritableFile \in FileOf(S)
  BY DEF NewWritableFile, FileOf
<1> QED
  BY <1>1 DEF WholeFile, Records, SyncedRecords

Within(S, R) == S \subseteq R

\* A file grows by one record.
LEMMA AddedRecord ==
  ASSUME NEW S, NEW R, Within(S, R), NEW f, WholeFile(f, S), f.torn = {}, NEW r \in R
  PROVE  /\ WholeFile(AddRecord(f, r), R) /\ AddRecord(f, r).torn = {}
         /\ AddRecord(f, r).recs = Append(f.recs, r) /\ AddRecord(f, r).synced = f.synced
         /\ Records(AddRecord(f, r)) = Records(f) \cup {r}
         /\ SyncedRecords(AddRecord(f, r)) = SyncedRecords(f)
<1> DEFINE g == AddRecord(f, r)
<1>1. f \in FileOf(S) /\ f.recs \in Seq(S) /\ Len(f.recs) \in Nat /\ f.synced \in 0 .. Len(f.recs)
  BY WholeFileType DEF WholeFile
<1>2. g.recs = Append(f.recs, r) /\ g.synced = f.synced /\ g.torn = {}
  BY <1>1 DEF AddRecord, FileOf
<1>3. PICK p : p = f.recs
  OBVIOUS
<1>4. p \in Seq(S) /\ p \in Seq(R) /\ Len(p) \in Nat
  <2>1. p \in Seq(S) /\ \A i \in 1 .. Len(p) : p[i] \in R
    BY <1>1, <1>3 DEF Within
  <2> QED
    BY <2>1
<1>5. /\ Append(p, r) \in Seq(R) /\ Len(Append(p, r)) = Len(p) + 1
      /\ \A i \in 1 .. Len(p) : Append(p, r)[i] = p[i]
      /\ Append(p, r)[Len(p) + 1] = r
  BY <1>4
<1>6. WholeFile(g, R)
  <2>1. g.recs \in Seq(R) /\ g.synced \in Nat /\ g.torn \in SUBSET Nat /\ g.synced <= Len(g.recs)
    BY <1>1, <1>2, <1>3, <1>5
  <2>2. g \in FileOf(R)
    BY <1>1, <1>3, <1>4, <1>5 DEF FileOf, AddRecord
  <2> QED
    BY <1>2, <2>1, <2>2 DEF WholeFile
<1>7. Records(g) = Records(f) \cup {r}
  <2>1. Records(g) = {Append(p, r)[i] : i \in 1 .. Len(p) + 1}
    BY <1>2, <1>3, <1>5 DEF Records
  <2>2. Records(f) = {p[i] : i \in 1 .. Len(p)}
    BY <1>3 DEF Records
  <2>3. 1 .. Len(p) + 1 = 1 .. Len(p) \cup {Len(p) + 1}
    BY <1>4
  <2> QED
    BY <1>5, <2>1, <2>2, <2>3
<1>8. SyncedRecords(g) = SyncedRecords(f)
  <2>1. \A i \in 1 .. f.synced : i \in 1 .. Len(p)
    BY <1>1, <1>3, <1>4
  <2>2. SyncedRecords(g) = {Append(p, r)[i] : i \in 1 .. f.synced}
    BY <1>2, <1>3 DEF SyncedRecords
  <2>3. SyncedRecords(f) = {p[i] : i \in 1 .. f.synced}
    BY <1>3 DEF SyncedRecords
  <2> QED
    BY <1>5, <2>1, <2>2, <2>3
<1> QED
  BY <1>2, <1>6, <1>7, <1>8

\* Sync changes nothing but what is known to be on the disk.
LEMMA SyncedFile ==
  ASSUME NEW S, NEW f, WholeFile(f, S)
  PROVE  /\ WholeFile(Sync(f), S) /\ Sync(f).recs = f.recs /\ Sync(f).torn = f.torn
         /\ Sync(f).synced = Len(f.recs)
         /\ Records(Sync(f)) = Records(f) /\ SyncedRecords(Sync(f)) = Records(f)
<1> DEFINE g == Sync(f)
<1>1. f \in FileOf(S) /\ f.recs \in Seq(S) /\ Len(f.recs) \in Nat /\ f.torn \subseteq {Len(f.recs)}
  BY WholeFileType DEF WholeFile
<1>2. /\ g.recs = f.recs /\ g.synced = Len(f.recs) /\ g.torn = f.torn
      /\ g \in FileOf(S)
  BY <1>1 DEF Sync, FileOf
<1>3. Records(g) = Records(f) /\ SyncedRecords(g) = Records(f)
  BY <1>2, Zenon DEF Records, SyncedRecords
<1> QED
  BY <1>1, <1>2, <1>3 DEF WholeFile

\* What is on the disk is among the records of the file.
LEMMA SyncedAreRecords ==
  ASSUME NEW S, NEW f, WholeFile(f, S)
  PROVE  SyncedRecords(f) \subseteq Records(f) /\ Records(f) \subseteq S
<1>1. Len(f.recs) \in Nat /\ f.synced \in 0 .. Len(f.recs) /\ \A i \in 1 .. Len(f.recs) : f.recs[i] \in S
  BY WholeFileType
<1>2. \A i \in 1 .. f.synced : i \in 1 .. Len(f.recs)
  BY <1>1
<1> QED
  BY <1>1, <1>2 DEF Records, SyncedRecords

\* What is read of a file is all its records, and nothing is reported.
LEMMA ReadWhole ==
  ASSUME NEW S, NEW f, WholeFile(f, S)
  PROVE  ReadRecords(f) = f.recs /\ ~MayReport(f)
<1>1. f.recs \in Seq(S) /\ Len(f.recs) \in Nat /\ f.torn \subseteq {Len(f.recs)}
  BY WholeFileType
<1>2. PICK n : n = Len(f.recs)
  OBVIOUS
<1>3. f.torn \cup {n} = {n} /\ n \in Nat
  BY <1>1, <1>2
<1>4. Min({n}) = n
  BY <1>3, MinOfNumbers
<1>5. PICK p : p = f.recs
  OBVIOUS
<1>6. SubSeq(p, 1, n) = p
  BY <1>1, <1>2, <1>5
<1>7. ReadRecords(f) = f.recs
  BY <1>2, <1>3, <1>4, <1>5, <1>6, Zenon DEF ReadRecords
<1>8. ~MayReport(f)
  BY <1>1, SMT DEF MayReport
<1> QED
  BY <1>7, <1>8

\* What a failure of the machine leaves of a file.
LEMMA RemainingFile ==
  ASSUME NEW S, NEW f, WholeFile(f, S), NEW g \in Remains(f)
  PROVE  \E k \in f.synced .. Len(f.recs) :
            /\ WholeFile(g, S) /\ g.recs = SubSeq(f.recs, 1, k) /\ g.synced = k /\ Len(g.recs) = k
            /\ \A i \in 1 .. k : g.recs[i] = f.recs[i]
<1>1. /\ f.recs \in Seq(S) /\ Len(f.recs) \in Nat /\ f.synced \in 0 .. Len(f.recs)
      /\ f.torn \subseteq {Len(f.recs)}
  BY WholeFileType
<1>2. PICK k \in f.synced .. Len(f.recs) :
         \E t \in SUBSET ({k} \cap (f.torn \cup 0 .. Len(f.recs) - 1)) :
            g = [recs |-> SubSeq(f.recs, 1, k), synced |-> k, torn |-> {p \in f.torn : p < k} \cup t]
  BY Zenon DEF Remains
<1>3. PICK t \in SUBSET ({k} \cap (f.torn \cup 0 .. Len(f.recs) - 1)) :
            g = [recs |-> SubSeq(f.recs, 1, k), synced |-> k, torn |-> {p \in f.torn : p < k} \cup t]
  BY <1>2
<1>4. PICK r : r = f.recs
  OBVIOUS
<1>5. k \in Nat /\ k <= Len(r) /\ r \in Seq(S)
  BY <1>1, <1>2, <1>4
<1>6. /\ SubSeq(r, 1, k) \in Seq(S) /\ Len(SubSeq(r, 1, k)) = k
      /\ \A i \in 1 .. k : SubSeq(r, 1, k)[i] = r[i]
  BY <1>5
<1>7. {p \in f.torn : p < k} = {}
  BY <1>1, <1>2
<1>8. t \subseteq {k}
  BY <1>3
<1>9. g = [recs |-> SubSeq(r, 1, k), synced |-> k, torn |-> t]
  BY <1>3, <1>4, <1>7
<1>10. g.recs = SubSeq(r, 1, k) /\ g.synced = k /\ g.torn = t /\ t \in SUBSET Nat
  BY <1>5, <1>8, <1>9
<1>11. g \in FileOf(S)
  BY <1>5, <1>6, <1>9, <1>10 DEF FileOf
<1>12. WholeFile(g, S)
  BY <1>5, <1>6, <1>8, <1>10, <1>11 DEF WholeFile
<1> QED
  BY <1>4, <1>6, <1>10, <1>12

-----------------------------------------------------------------------------
(* The updates in the logs.                                                 *)

LEMMA UpdatesInType ==
  ASSUME NEW L, NEW S, Directory(L, S), NEW l
  PROVE  SyncedIn(L, l) \subseteq UpdatesIn(L, l) /\ UpdatesIn(L, l) \subseteq S
<1>1. \A n \in DOMAIN L : SyncedRecords(L[n]) \subseteq Records(L[n]) /\ Records(L[n]) \subseteq S
  BY SyncedAreRecords DEF Directory
<1> QED
  BY <1>1, Zenon DEF UpdatesIn, SyncedIn

\* A log from number l on is counted by UpdatesIn and SyncedIn.
LEMMA InLog ==
  ASSUME NEW L, NEW l, NEW n \in DOMAIN L, n >= l
  PROVE  Records(L[n]) \subseteq UpdatesIn(L, l) /\ SyncedRecords(L[n]) \subseteq SyncedIn(L, l)
BY Zenon DEF UpdatesIn, SyncedIn

\* A higher log number leaves fewer logs to read.
LEMMA LaterLogs ==
  ASSUME NEW L, DOMAIN L \subseteq Nat, NEW l \in Nat, NEW m \in Nat, l <= m
  PROVE  UpdatesIn(L, m) \subseteq UpdatesIn(L, l) /\ SyncedIn(L, m) \subseteq SyncedIn(L, l)
<1>1. \A n \in DOMAIN L : n >= m => n >= l
  OBVIOUS
<1> QED
  BY <1>1, Zenon DEF UpdatesIn, SyncedIn

\* Creating or replacing a file leaves the others alone.
LEMMA PutFile ==
  ASSUME NEW F, NEW n, NEW f
  PROVE  /\ DOMAIN Put(F, n, f) = DOMAIN F \cup {n} /\ Put(F, n, f)[n] = f
         /\ \A x \in DOMAIN F : x # n => Put(F, n, f)[x] = F[x]
BY DEF Put

\* Deleting files leaves the others alone.
LEMMA WithoutFiles ==
  ASSUME NEW F, NEW N
  PROVE  DOMAIN Without(F, N) = DOMAIN F \ N /\ \A x \in DOMAIN F \ N : Without(F, N)[x] = F[x]
BY DEF Without

\* A new log is empty.
LEMMA NewLog ==
  ASSUME NEW L, NEW n, n \notin DOMAIN L, NEW l
  PROVE  /\ UpdatesIn(Put(L, n, NewWritableFile), l) = UpdatesIn(L, l)
         /\ SyncedIn(Put(L, n, NewWritableFile), l) = SyncedIn(L, l)
<1> DEFINE M == Put(L, n, NewWritableFile)
<1>1. /\ DOMAIN M = DOMAIN L \cup {n} /\ M[n] = NewWritableFile
      /\ \A x \in DOMAIN L : M[x] = L[x]
  BY PutFile
<1>2. Records(M[n]) = {} /\ SyncedRecords(M[n]) = {}
  BY <1>1, NewFileIsWhole
<1> HIDE DEF M
<1>3. UpdatesIn(M, l) = UpdatesIn(L, l)
  BY <1>1, <1>2, Zenon DEF UpdatesIn
<1>4. SyncedIn(M, l) = SyncedIn(L, l)
  BY <1>1, <1>2, Zenon DEF SyncedIn
<1> QED
  BY <1>3, <1>4 DEF M

\* One log gets a record more, which may be synced.
Longer(f, g, r) == Records(g) = Records(f) \cup {r} /\ SyncedRecords(f) \subseteq SyncedRecords(g)

LogGrows(L, M, n, g, r, l) ==
    /\ UpdatesIn(M, l) \subseteq UpdatesIn(L, l) \cup {r}
    /\ UpdatesIn(L, l) \subseteq UpdatesIn(M, l)
    /\ SyncedIn(L, l) \subseteq SyncedIn(M, l)
    /\ n >= l => r \in UpdatesIn(M, l)
    /\ n >= l /\ r \in SyncedRecords(g) => r \in SyncedIn(M, l)

\* A record appended to a log is the one update more that the logs hold.
LEMMA LongerLog ==
  ASSUME NEW L, NEW n \in DOMAIN L, NEW g, NEW r, NEW l, Longer(L[n], g, r)
  PROVE  LogGrows(L, Put(L, n, g), n, g, r, l)
<1> DEFINE M == Put(L, n, g)
<1>1. /\ DOMAIN M = DOMAIN L /\ M[n] = g
      /\ \A x \in DOMAIN L : x # n => M[x] = L[x]
  <2>1. /\ DOMAIN M = DOMAIN L \cup {n} /\ M[n] = g
        /\ \A x \in DOMAIN L : x # n => M[x] = L[x]
    BY DEF Put
  <2> HIDE DEF M
  <2> QED
    BY <2>1
<1> HIDE DEF M
<1>2. UpdatesIn(M, l) \subseteq UpdatesIn(L, l) \cup {r}
  BY <1>1, Zenon DEF UpdatesIn, Longer
<1>3. UpdatesIn(L, l) \subseteq UpdatesIn(M, l)
  BY <1>1, Zenon DEF UpdatesIn, Longer
<1>4. SyncedIn(L, l) \subseteq SyncedIn(M, l)
  BY <1>1, Zenon DEF SyncedIn, Longer
<1>5. n >= l => r \in UpdatesIn(M, l)
  BY <1>1, Zenon DEF UpdatesIn, Longer
<1>6. n >= l /\ r \in SyncedRecords(g) => r \in SyncedIn(M, l)
  BY <1>1, Zenon DEF SyncedIn
<1> QED
  BY <1>2, <1>3, <1>4, <1>5, <1>6, Zenon DEF M, LogGrows

\* Deleting logs below l loses nothing of the logs from l on.
LEMMA FewerLogs ==
  ASSUME NEW L, DOMAIN L \subseteq Nat, NEW N, NEW l \in Nat, \A n \in N : n \in Nat /\ n < l
  PROVE  /\ UpdatesIn(Without(L, N), l) = UpdatesIn(L, l)
         /\ SyncedIn(Without(L, N), l) = SyncedIn(L, l)
<1> DEFINE M == Without(L, N)
<1>1. DOMAIN M = DOMAIN L \ N /\ \A n \in DOMAIN M : M[n] = L[n]
  <2>1. DOMAIN M = DOMAIN L \ N /\ \A n \in DOMAIN L \ N : M[n] = L[n]
    BY WithoutFiles, Zenon
  <2> HIDE DEF M
  <2> QED
    BY <2>1
<1>2. {n \in DOMAIN M : n >= l} = {n \in DOMAIN L : n >= l}
  BY <1>1
<1> HIDE DEF M
<1>3. \A n \in {x \in DOMAIN L : x >= l} : M[n] = L[n]
  BY <1>1, <1>2
<1>4. UpdatesIn(M, l) = UpdatesIn(L, l)
  BY <1>2, <1>3, Zenon DEF UpdatesIn
<1>5. SyncedIn(M, l) = SyncedIn(L, l)
  BY <1>2, <1>3, Zenon DEF SyncedIn
<1> QED
  BY <1>4, <1>5 DEF M

\* What a failure of the machine leaves of the logs.
LEMMA RemainingLogs ==
  ASSUME NEW S, NEW L, Directory(L, S), NEW M, DOMAIN M = DOMAIN L,
         \A n \in DOMAIN L : M[n] \in Remains(L[n])
  PROVE  /\ Directory(M, S)
         /\ \A l : /\ UpdatesIn(M, l) \subseteq UpdatesIn(L, l)
                   /\ SyncedIn(L, l) \subseteq SyncedIn(M, l)
<1>1. ASSUME NEW n \in DOMAIN L
      PROVE  /\ WholeFile(M[n], S) /\ Records(M[n]) \subseteq Records(L[n])
             /\ SyncedRecords(L[n]) \subseteq SyncedRecords(M[n])
  <2>1. WholeFile(L[n], S)
    BY DEF Directory
  <2>2. PICK k \in L[n].synced .. Len(L[n].recs) :
            /\ WholeFile(M[n], S) /\ M[n].synced = k /\ Len(M[n].recs) = k
            /\ \A i \in 1 .. k : M[n].recs[i] = L[n].recs[i]
    BY <2>1, RemainingFile
  <2>3. L[n].synced \in Nat /\ Len(L[n].recs) \in Nat
    BY <2>1, WholeFileType
  <2>4. (\A i \in 1 .. k : i \in 1 .. Len(L[n].recs)) /\ (\A i \in 1 .. L[n].synced : i \in 1 .. k)
    BY <2>2, <2>3
  <2>5. Records(M[n]) \subseteq Records(L[n])
    BY <2>2, <2>4 DEF Records
  <2>6. SyncedRecords(L[n]) \subseteq SyncedRecords(M[n])
    BY <2>2, <2>4 DEF SyncedRecords
  <2> QED
    BY <2>2, <2>5, <2>6
<1>2. ASSUME NEW l PROVE UpdatesIn(M, l) \subseteq UpdatesIn(L, l) /\ SyncedIn(L, l) \subseteq SyncedIn(M, l)
  BY <1>1, Zenon DEF UpdatesIn, SyncedIn
<1> QED
  BY <1>1, <1>2 DEF Directory

-----------------------------------------------------------------------------
(* What a database can be opened from.                                      *)

LEMMA SameTables ==
  ASSUME NEW T, NEW U, NEW V, \A n \in V : U[n] = T[n]
  PROVE  Holds(U, V) = Holds(T, V)
BY Zenon DEF Holds

\* The updates of a version are those of its tables.
LEMMA HoldsUnion ==
  ASSUME NEW T, NEW V, NEW W
  PROVE  /\ Holds(T, V \cup W) = Holds(T, V) \cup Holds(T, W)
         /\ V \subseteq W => Holds(T, V) \subseteq Holds(T, W)
         /\ Holds(T, {}) = {}
BY Zenon DEF Holds

\* The updates of a single table.
LEMMA HoldsOne ==
  ASSUME NEW T, NEW n
  PROVE  Holds(T, {n}) = T[n]
BY Zenon DEF Holds

\* Tables hold updates that were written.
LEMMA HoldsType ==
  ASSUME NEW T, NEW S, TableFiles(T, S), NEW V, V \subseteq DOMAIN T
  PROVE  Holds(T, V) \subseteq S
BY Zenon DEF Holds, TableFiles

\* A part of an ordered set of updates is ordered.
LEMMA OrderedPart ==
  ASSUME NEW q, NEW U, NEW W, Ordered(q, U), W \subseteq U
  PROVE  Ordered(q, W)
BY Zenon DEF Ordered

\* A restart is not harmed by a change of tables it does not read.
LEMMA RestartTables ==
  ASSUME NEW T, NEW L, NEW q, NEW o, NEW d, NEW V, NEW l, NEW nx, NEW s, NEW U,
         Restart(T, L, q, o, d, V, l, nx, s), \A n \in V : n \in DOMAIN U /\ U[n] = T[n]
  PROVE  Restart(U, L, q, o, d, V, l, nx, s)
<1>1. Holds(U, V) = Holds(T, V)
  BY SameTables
<1>2. V \subseteq DOMAIN U
  OBVIOUS
<1> QED
  BY <1>1, <1>2, Zenon DEF Restart

\* A restart is not harmed by a change of logs it does not read.
LEMMA RestartLogs ==
  ASSUME NEW T, NEW L, NEW q, NEW o, NEW d, NEW V, NEW l, NEW nx, NEW s, NEW M,
         Restart(T, L, q, o, d, V, l, nx, s),
         UpdatesIn(M, l) = UpdatesIn(L, l), SyncedIn(M, l) = SyncedIn(L, l)
  PROVE  Restart(T, M, q, o, d, V, l, nx, s)
BY Zenon DEF Restart

\* Updates that were not synced are no longer owed.
LEMMA RestartCut ==
  ASSUME NEW T, NEW L, NEW q, NEW o, NEW d, NEW V, NEW l, NEW nx, NEW s, NEW M,
         Restart(T, L, q, o, d, V, l, nx, s), UpdatesIn(M, l) \subseteq UpdatesIn(L, l),
         SyncedIn(L, l) \subseteq SyncedIn(M, l), SyncedIn(M, l) \subseteq UpdatesIn(M, l)
  PROVE  Restart(T, M, q, o \cap d, d, V, l, nx, s)
<1>1. Ordered(q, Holds(T, V) \cup UpdatesIn(M, l))
  <2>1. Holds(T, V) \cup UpdatesIn(M, l) \subseteq Holds(T, V) \cup UpdatesIn(L, l)
    OBVIOUS
  <2> QED
    BY <2>1, OrderedPart DEF Restart
<1>2. /\ o \cap d \subseteq Holds(T, V) \cup UpdatesIn(M, l)
      /\ (o \cap d) \cap d \subseteq Holds(T, V) \cup SyncedIn(M, l)
  BY DEF Restart
<1> QED
  BY <1>1, <1>2, Zenon DEF Restart

\* More updates are durable.
LEMMA RestartDurable ==
  ASSUME NEW T, NEW L, NEW q, NEW o, NEW d, NEW V, NEW l, NEW nx, NEW s, NEW c,
         Restart(T, L, q, o, d, V, l, nx, s), c \subseteq Holds(T, V)
  PROVE  Restart(T, L, q, o, d \cup c, V, l, nx, s)
<1>1. o \cap (d \cup c) \subseteq Holds(T, V) \cup SyncedIn(L, l)
  BY DEF Restart
<1> QED
  BY <1>1, Zenon DEF Restart

\* Update Len(q) + 1 is appended to a log, with a sequence number x larger than
\* all before it.
Appended(q, U, W, Y, Z, o, p, d, c, s, x) ==
    /\ U \subseteq 1 .. Len(q) /\ o \subseteq 1 .. Len(q) /\ d \subseteq 1 .. Len(q)
    /\ s < x /\ \A i \in U : q[i] < x
    /\ W \subseteq U \cup {Len(q) + 1} /\ U \subseteq W /\ Y \subseteq Z /\ Len(q) + 1 \in W
    /\ p \subseteq o \cup {Len(q) + 1} /\ c \subseteq d \cup {Len(q) + 1}
    /\ Len(q) + 1 \in c => Len(q) + 1 \in Z

\* A restart is not harmed by a write: what it owes more is in a log it reads.
LEMMA RestartWrite ==
  ASSUME NEW T, NEW L, NEW q \in Seq(Nat), NEW o, NEW d, NEW V, NEW l, NEW nx, NEW s, NEW M, NEW x \in Nat,
         NEW p, NEW c, Restart(T, L, q, o, d, V, l, nx, s), Within(Holds(T, V), 1 .. Len(q)),
         Appended(q, UpdatesIn(L, l), UpdatesIn(M, l), SyncedIn(L, l), SyncedIn(M, l), o, p, d, c, s, x)
  PROVE  Restart(T, M, Append(q, x), p, c, V, l, nx, s)
<1>0. PICK r : r = Len(q) + 1
  OBVIOUS
<1>10. /\ Holds(T, V) \subseteq 1 .. Len(q) /\ UpdatesIn(L, l) \subseteq 1 .. Len(q)
      /\ o \subseteq 1 .. Len(q) /\ d \subseteq 1 .. Len(q)
      /\ s < x /\ (\A i \in UpdatesIn(L, l) : q[i] < x)
      /\ UpdatesIn(M, l) \subseteq UpdatesIn(L, l) \cup {r} /\ UpdatesIn(L, l) \subseteq UpdatesIn(M, l)
      /\ SyncedIn(L, l) \subseteq SyncedIn(M, l) /\ r \in UpdatesIn(M, l)
      /\ p \subseteq o \cup {r} /\ c \subseteq d \cup {r} /\ (r \in c => r \in SyncedIn(M, l))
  BY <1>0 DEF Appended, Within
<1> DEFINE t == Append(q, x)
<1>1. Len(q) \in Nat /\ t[r] = x /\ \A i \in 1 .. Len(q) : t[i] = q[i] /\ q[i] \in Nat
  BY <1>0
<1> HIDE DEF t
<1>2. /\ l \in Nat /\ nx \in Nat /\ s \in Nat /\ l < nx
      /\ V \subseteq DOMAIN T /\ \A n \in V : n < nx
      /\ \A i \in Holds(T, V) : q[i] <= s
      /\ o \subseteq Holds(T, V) \cup UpdatesIn(L, l)
      /\ o \cap d \subseteq Holds(T, V) \cup SyncedIn(L, l)
      /\ Ordered(q, Holds(T, V) \cup UpdatesIn(L, l))
  BY DEF Restart
<1>3. \A i \in Holds(T, V) : t[i] <= s
  BY <1>1, <1>2, <1>10
<1>4. p \subseteq Holds(T, V) \cup UpdatesIn(M, l)
  BY <1>2, <1>10
<1>5. p \cap c \subseteq Holds(T, V) \cup SyncedIn(M, l)
  BY <1>2, <1>10
<1>6. Ordered(t, Holds(T, V) \cup UpdatesIn(M, l))
  <2> DEFINE U == Holds(T, V) \cup UpdatesIn(L, l)
  <2>1. SUFFICES ASSUME NEW i \in U \cup {r}, NEW j \in U \cup {r}, i < j PROVE t[i] < t[j]
    BY <1>10 DEF Ordered
  <2>2. \A k \in U : k \in 1 .. Len(q) /\ q[k] < x
    BY <1>1, <1>2, <1>10
  <2>3. Ordered(q, U)
    BY <1>2
  <2> HIDE DEF U
  <2>4. i \in U
    BY <1>0, <1>1, <2>1, <2>2
  <2>5. CASE j = r
    BY <1>1, <2>2, <2>4, <2>5
  <2>6. CASE j \in U
    BY <1>1, <2>1, <2>2, <2>3, <2>4, <2>6 DEF Ordered
  <2> QED
    BY <2>5, <2>6
<1>7. Restart(T, M, t, p, c, V, l, nx, s)
  BY <1>2, <1>3, <1>4, <1>5, <1>6, Zenon DEF Restart
<1> QED
  BY <1>7 DEF t

\* The edits at which a MANIFEST may end.
LEMMA PointsType ==
  ASSUME NEW f, WholeFile(f, Edits), f.synced >= 1
  PROVE  /\ Len(f.recs) \in Points(f) /\ Len(f.recs) \in Nat
         /\ \A k \in Points(f) : k \in 1 .. Len(f.recs) /\ f.recs[k] \in Edits
<1>1. Len(f.recs) \in Nat /\ f.synced \in 0 .. Len(f.recs) /\ \A i \in 1 .. Len(f.recs) : f.recs[i] \in Edits
  BY WholeFileType
<1>2. \A k \in f.synced .. Len(f.recs) : k \in 1 .. Len(f.recs)
  BY <1>1
<1>3. Len(f.recs) \in f.synced .. Len(f.recs)
  BY <1>1
<1> QED
  BY <1>1, <1>2, <1>3 DEF Points

\* What keeps every restart of a MANIFEST keeps all of them.
LEMMA RestartsMap ==
  ASSUME NEW T, NEW L, NEW q, NEW o, NEW d, NEW U, NEW M, NEW r, NEW p, NEW c, NEW m, NEW f,
         Restarts(T, L, q, o, d, m, f),
         \A k \in Points(f) :
            Restart(T, L, q, o, d, VersionAt(f, k), f.recs[k].log, f.recs[k].next, f.recs[k].seq)
               => Restart(U, M, r, p, c, VersionAt(f, k), f.recs[k].log, f.recs[k].next, f.recs[k].seq)
  PROVE  Restarts(U, M, r, p, c, m, f)
BY Zenon DEF Restarts, RestartAt

\* What the last edit says.
LEMMA RestartsFinal ==
  ASSUME NEW T, NEW L, NEW q, NEW o, NEW d, NEW m, NEW f, WholeFile(f, Edits),
         Restarts(T, L, q, o, d, m, f)
  PROVE  /\ m < FinalEdit(f).next /\ FinalEdit(f) \in Edits /\ FinalEdit(f).next \in Nat
         /\ Restart(T, L, q, o, d, FinalVersion(f), FinalEdit(f).log, FinalEdit(f).next, FinalEdit(f).seq)
<1>1. Len(f.recs) \in Points(f) /\ f.recs[Len(f.recs)] \in Edits
  BY PointsType DEF Restarts
<1>2. RestartAt(T, L, q, o, d, m, f, Len(f.recs))
  BY <1>1, Zenon DEF Restarts
<1>3. VersionAt(f, Len(f.recs)) = FinalVersion(f) /\ FinalEdit(f) = f.recs[Len(f.recs)]
  BY FinalIsReplayed
<1>4. /\ m < FinalEdit(f).next /\ FinalEdit(f) \in Edits
      /\ Restart(T, L, q, o, d, FinalVersion(f), FinalEdit(f).log, FinalEdit(f).next, FinalEdit(f).seq)
  BY <1>1, <1>2, <1>3, Zenon DEF RestartAt
<1> QED
  BY <1>4, Zenon DEF Restart

\* An edit is appended.
LEMMA AppendedVersions ==
  ASSUME NEW f, WholeFile(f, Edits), NEW e \in Edits, NEW g, g.recs = Append(f.recs, e)
  PROVE  /\ Len(g.recs) = Len(f.recs) + 1 /\ FinalEdit(g) = e
         /\ \A k \in 1 .. Len(f.recs) : g.recs[k] = f.recs[k] /\ VersionAt(g, k) = VersionAt(f, k)
         /\ VersionAt(g, Len(f.recs)) = FinalVersion(f)
         /\ VersionAt(g, Len(f.recs) + 1) = (FinalVersion(f) \ e.del) \cup e.add
         /\ FinalVersion(g) = (FinalVersion(f) \ e.del) \cup e.add
<1>1. PICK r : r = f.recs
  OBVIOUS
<1>2. r \in Seq(Edits) /\ Len(r) \in Nat
  BY <1>1, WholeFileType
<1>3. PICK a : a = Append(r, e)
  OBVIOUS
<1>4. g.recs = a
  BY <1>1, <1>3
<1>5. a \in Seq(Edits) /\ Len(a) = Len(r) + 1 /\ a[Len(r) + 1] = e /\ \A k \in 1 .. Len(r) : a[k] = r[k]
  BY <1>2, <1>3
<1>6. ASSUME NEW k \in 1 .. Len(r) PROVE SubSeq(a, 1, k) = SubSeq(r, 1, k)
  BY <1>2, <1>5
<1>7. SubSeq(a, 1, Len(a)) = a
  BY <1>5
<1>8. SubSeq(a, 1, Len(r)) = r
  BY <1>2, <1>5
<1>9. Replay(a) = (Replay(r) \ e.del) \cup e.add
  BY <1>2, <1>3, ReplayAppend
<1>10. ASSUME NEW k \in 1 .. Len(f.recs) PROVE g.recs[k] = f.recs[k] /\ VersionAt(g, k) = VersionAt(f, k)
  BY <1>1, <1>4, <1>5, <1>6, Zenon DEF VersionAt
<1>11. VersionAt(g, Len(f.recs)) = FinalVersion(f)
  BY <1>1, <1>4, <1>8, Zenon DEF VersionAt, FinalVersion
<1>12. VersionAt(g, Len(f.recs) + 1) = Replay(a) /\ FinalVersion(g) = Replay(a) /\ FinalVersion(f) = Replay(r)
  <2>1. VersionAt(g, Len(f.recs) + 1) = Replay(SubSeq(a, 1, Len(a)))
    BY <1>1, <1>4, <1>5, Zenon DEF VersionAt
  <2> QED
    BY <1>1, <1>4, <1>7, <2>1, Zenon DEF FinalVersion
<1>13. FinalEdit(g) = e /\ Len(g.recs) = Len(f.recs) + 1
  BY <1>1, <1>4, <1>5 DEF FinalEdit
<1> QED
  BY <1>9, <1>10, <1>11, <1>12, <1>13, Zenon

\* An edit that itself leads to a restart can be added to a MANIFEST, synced or not.
LEMMA RestartsAppend ==
  ASSUME NEW T, NEW L, NEW q, NEW o, NEW d, NEW m, NEW f, WholeFile(f, Edits), f.torn = {},
         NEW e \in Edits, Restarts(T, L, q, o, d, m, f),
         e.next \in Nat, m < e.next, FinalEdit(f).next <= e.next,
         Restart(T, L, q, o, d, (FinalVersion(f) \ e.del) \cup e.add, e.log, e.next, e.seq)
  PROVE  Restarts(T, L, q, o, d, m, AddRecord(f, e))
<1>1. PICK g : g = AddRecord(f, e)
  OBVIOUS
<1>2. g.recs = Append(f.recs, e) /\ g.synced = f.synced
  <2>1. Within(Edits, Edits)
    BY DEF Within
  <2>2. /\ AddRecord(f, e).recs = Append(f.recs, e)
        /\ AddRecord(f, e).synced = f.synced
    BY <2>1, AddedRecord
  <2> QED
    BY <1>1, <2>2, Zenon
<1>3. PICK n : n = Len(f.recs)
  OBVIOUS
<1>4. f.synced >= 1 /\ n \in Nat /\ f.synced \in 0 .. n
  BY <1>3, WholeFileType DEF Restarts
<1>5. /\ Len(g.recs) = n + 1 /\ FinalEdit(g) = e
      /\ \A k \in 1 .. n : g.recs[k] = f.recs[k] /\ VersionAt(g, k) = VersionAt(f, k)
      /\ VersionAt(g, n + 1) = (FinalVersion(f) \ e.del) \cup e.add
  <2>1. /\ Len(g.recs) = Len(f.recs) + 1 /\ FinalEdit(g) = e
        /\ \A k \in 1 .. Len(f.recs) : g.recs[k] = f.recs[k] /\ VersionAt(g, k) = VersionAt(f, k)
        /\ VersionAt(g, Len(f.recs) + 1) = (FinalVersion(f) \ e.del) \cup e.add
    BY <1>2, AppendedVersions
  <2> QED
    BY <1>3, <2>1
<1>6. g.recs[n + 1] = e
  BY <1>5, Zenon DEF FinalEdit
<1>7. ASSUME NEW k \in Points(g) PROVE RestartAt(T, L, q, o, d, m, g, k)
  <2>1. k \in f.synced .. n \/ k = n + 1
    BY <1>2, <1>4, <1>5, <1>7 DEF Points
  <2>2. CASE k \in f.synced .. n
    <3>1. k \in Points(f) /\ k \in 1 .. n
      BY <1>3, <1>4, <2>2 DEF Points
    <3>2. RestartAt(T, L, q, o, d, m, f, k)
      BY <3>1, Zenon DEF Restarts
    <3>3. f.recs[k].next \in Nat /\ FinalEdit(f).next \in Nat
      <4>1. f.recs[k].next \in Nat
        BY <3>2, Zenon DEF RestartAt, Restart
      <4>2. FinalEdit(f).next \in Nat
        BY RestartsFinal
      <4> QED
        BY <4>1, <4>2
    <3>4. f.recs[k].next <= e.next
      <4>1. f.recs[k].next <= FinalEdit(f).next
        BY <3>2, Zenon DEF RestartAt
      <4> QED
        BY <3>3, <4>1
    <3> QED
      BY <1>5, <3>1, <3>2, <3>4, Zenon DEF RestartAt
  <2>3. CASE k = n + 1
    <3>1. e.next <= e.next
      OBVIOUS
    <3> QED
      BY <1>5, <1>6, <2>3, <3>1, Zenon DEF RestartAt
  <2> QED
    BY <2>1, <2>2, <2>3
<1> QED
  BY <1>1, <1>2, <1>4, <1>7, Zenon DEF Restarts

\* Once synced, a MANIFEST has its end as its only restart.
LEMMA RestartsSync ==
  ASSUME NEW T, NEW L, NEW q, NEW o, NEW d, NEW m, NEW f, WholeFile(f, Edits), Restarts(T, L, q, o, d, m, f)
  PROVE  /\ Restarts(T, L, q, o, d, m, Sync(f)) /\ Points(Sync(f)) = {Len(f.recs)}
         /\ Points(Sync(f)) \subseteq Points(f)
         /\ \A k : VersionAt(Sync(f), k) = VersionAt(f, k)
<1>1. PICK g : g = Sync(f)
  OBVIOUS
<1>2. g.recs = f.recs /\ g.synced = Len(f.recs)
  BY <1>1, SyncedFile
<1>3. Len(f.recs) \in Points(f) /\ Len(f.recs) \in Nat /\ f.synced >= 1 /\ Len(f.recs) >= 1
  <2>1. f.synced >= 1
    BY Zenon DEF Restarts
  <2>2. f.synced \in 0 .. Len(f.recs)
    BY WholeFileType
  <2>3. Len(f.recs) \in Points(f) /\ Len(f.recs) \in Nat
    BY <2>1, PointsType
  <2> QED
    BY <2>1, <2>2, <2>3
<1>4. Points(g) = {Len(f.recs)}
  BY <1>2, <1>3 DEF Points
<1>5. ASSUME NEW k \in Points(g) PROVE RestartAt(T, L, q, o, d, m, g, k)
  <2>1. RestartAt(T, L, q, o, d, m, f, k)
    BY <1>3, <1>4, <1>5, Zenon DEF Restarts
  <2> QED
    BY <1>2, <2>1, Zenon DEF RestartAt, FinalEdit, VersionAt
<1>6. \A k : VersionAt(g, k) = VersionAt(f, k)
  BY <1>2, Zenon DEF VersionAt
<1>7. g.synced >= 1 /\ Points(g) \subseteq Points(f)
  BY <1>2, <1>3, <1>4, Zenon
<1> QED
  BY <1>1, <1>4, <1>5, <1>6, <1>7, Zenon DEF Restarts

\* Whatever part of a MANIFEST a failure of the machine leaves still restarts.
LEMMA RestartsCut ==
  ASSUME NEW T, NEW L, NEW q, NEW o, NEW d, NEW m, NEW f, WholeFile(f, Edits), Restarts(T, L, q, o, d, m, f),
         NEW g \in Remains(f)
  PROVE  Restarts(T, L, q, o, d, m, g)
<1>1. PICK k \in f.synced .. Len(f.recs) :
         /\ g.recs = SubSeq(f.recs, 1, k) /\ g.synced = k /\ Len(g.recs) = k
         /\ \A i \in 1 .. k : g.recs[i] = f.recs[i]
  BY RemainingFile
<1>2. f.synced >= 1 /\ Len(f.recs) \in Nat /\ f.synced \in 0 .. Len(f.recs) /\ f.recs \in Seq(Edits)
  BY WholeFileType DEF Restarts
<1>3. k \in Nat /\ k >= 1 /\ k \in Points(f) /\ k <= Len(f.recs) /\ k \in 1 .. k
  BY <1>2 DEF Points
<1>4. Points(g) = {k}
  BY <1>1, <1>3 DEF Points
<1>5. RestartAt(T, L, q, o, d, m, f, k)
  BY <1>3, Zenon DEF Restarts
<1>6. VersionAt(g, k) = VersionAt(f, k) /\ g.recs[k] = f.recs[k] /\ FinalEdit(g) = f.recs[k]
  <2>1. PICK r : r = f.recs
    OBVIOUS
  <2>2. SubSeq(SubSeq(r, 1, k), 1, k) = SubSeq(r, 1, k)
    BY <1>2, <1>3, <2>1
  <2>3. VersionAt(g, k) = VersionAt(f, k)
    BY <1>1, <2>1, <2>2, Zenon DEF VersionAt
  <2> QED
    BY <1>1, <1>3, <2>3, Zenon DEF FinalEdit
<1>7. f.recs[k].next <= f.recs[k].next
  <2>1. f.recs[k].next \in Nat
    BY <1>5, Zenon DEF RestartAt, Restart
  <2> QED
    BY <2>1
<1>8. RestartAt(T, L, q, o, d, m, g, k)
  BY <1>5, <1>6, <1>7, Zenon DEF RestartAt
<1> QED
  BY <1>1, <1>3, <1>4, <1>8, Zenon DEF Restarts

-----------------------------------------------------------------------------
(* Types of the files and edits.                                            *)

LEMMA PutInDirectory ==
  ASSUME NEW S, NEW F, Directory(F, S), NEW n \in Nat, n # 0, NEW f, WholeFile(f, S)
  PROVE  Directory(Put(F, n, f), S)
<1>1. /\ DOMAIN Put(F, n, f) = DOMAIN F \cup {n} /\ Put(F, n, f)[n] = f
      /\ \A x \in DOMAIN F : x # n => Put(F, n, f)[x] = F[x]
  BY DEF Put
<1>2. PICK G : G = Put(F, n, f)
  OBVIOUS
<1>3. DOMAIN G = DOMAIN F \cup {n} /\ G[n] = f /\ \A x \in DOMAIN F : x # n => G[x] = F[x]
  BY <1>1, <1>2, Zenon
<1>4. Directory(G, S)
  BY <1>3 DEF Directory
<1> QED
  BY <1>2, <1>4

\* Deleting files keeps a directory of well-formed files.
LEMMA RemovedFromDirectory ==
  ASSUME NEW S, NEW F, Directory(F, S), NEW N
  PROVE  Directory(Without(F, N), S)
<1>1. PICK G : G = Without(F, N)
  OBVIOUS
<1>2. DOMAIN G = DOMAIN F \ N /\ \A x \in DOMAIN F \ N : G[x] = F[x]
  BY <1>1, WithoutFiles, Zenon
<1>3. Directory(G, S)
  BY <1>2 DEF Directory
<1> QED
  BY <1>1, <1>3

\* A file of records of S is a file of records of any larger set.
LEMMA WiderFile ==
  ASSUME NEW S, NEW R, Within(S, R), NEW f, WholeFile(f, S)
  PROVE  WholeFile(f, R)
<1>1. f \in FileOf(S) /\ f.recs \in Seq(S) /\ \A i \in 1 .. Len(f.recs) : f.recs[i] \in R
  BY WholeFileType DEF Within, WholeFile
<1>2. f.recs \in Seq(R)
  BY <1>1
<1>3. f \in FileOf(R)
  BY <1>1, <1>2 DEF FileOf
<1> QED
  BY <1>3 DEF WholeFile

\* The same for a directory.
LEMMA WiderDirectory ==
  ASSUME NEW S, NEW R, Within(S, R), NEW F, Directory(F, S)
  PROVE  Directory(F, R)
<1>1. ASSUME NEW n \in DOMAIN F PROVE WholeFile(F[n], R)
  <2>1. WholeFile(F[n], S)
    BY Zenon DEF Directory
  <2> QED
    BY <2>1, WiderFile
<1> QED
  BY <1>1, Zenon DEF Directory

\* The same for the tables.
LEMMA WiderTables ==
  ASSUME NEW S, NEW R, Within(S, R), NEW T, TableFiles(T, S)
  PROVE  TableFiles(T, R)
BY Zenon DEF TableFiles, Within

\* A new table of written updates is well-formed.
LEMMA PutTable ==
  ASSUME NEW S, NEW T, TableFiles(T, S), NEW n \in Nat, n # 0, NEW u, u \subseteq S
  PROVE  TableFiles(Put(T, n, u), S)
<1>1. /\ DOMAIN Put(T, n, u) = DOMAIN T \cup {n} /\ Put(T, n, u)[n] = u
      /\ \A x \in DOMAIN T : x # n => Put(T, n, u)[x] = T[x]
  BY DEF Put
<1>2. PICK G : G = Put(T, n, u)
  OBVIOUS
<1>3. DOMAIN G = DOMAIN T \cup {n} /\ G[n] = u /\ \A x \in DOMAIN T : x # n => G[x] = T[x]
  BY <1>1, <1>2, Zenon
<1>4. TableFiles(G, S)
  BY <1>3 DEF TableFiles
<1> QED
  BY <1>2, <1>4

\* Deleting tables keeps the others well-formed.
LEMMA RemovedTables ==
  ASSUME NEW S, NEW T, TableFiles(T, S), NEW N
  PROVE  TableFiles(Without(T, N), S)
<1>1. PICK G : G = Without(T, N)
  OBVIOUS
<1>2. DOMAIN G = DOMAIN T \ N /\ \A x \in DOMAIN T \ N : G[x] = T[x]
  BY <1>1, WithoutFiles, Zenon
<1>3. TableFiles(G, S)
  BY <1>2 DEF TableFiles
<1> QED
  BY <1>1, <1>3

\* The empty edit and the first edit of a new database.
LEMMA EditTypes ==
  /\ NoEdit \in Edits /\ NoEdit.add = {} /\ NoEdit.del = {}
  /\ NewDBEdit \in Edits /\ NewDBEdit.add = {} /\ NewDBEdit.log = 0 /\ NewDBEdit.next = 2 /\ NewDBEdit.seq = 0
BY DEF NoEdit, NewDBEdit, Edits, Unset

\* The snapshot that starts a new MANIFEST names the live tables.
LEMMA SnapshotType ==
  ASSUME live \subseteq Nat
  PROVE  Snapshot \in Edits /\ Snapshot.add = live
BY DEF Snapshot, NoEdit, Edits, Unset

\* The argument of LogAndApply gets the counters.
LEMMA CountersAdded ==
  ASSUME NEW e \in Edits, NEW j, LogAndApply(e, j), next_file_number' \in Nat, last_sequence \in Nat
  PROVE  /\ edit' \in Edits /\ edit'.add = e.add /\ edit'.del = e.del /\ edit'.log = e.log
         /\ edit'.next = next_file_number' /\ edit'.seq = last_sequence
         /\ job' = j /\ pc' = "append"
<1>1. PICK n : n = next_file_number'
  OBVIOUS
<1>2. edit' = [e EXCEPT !.next = n, !.seq = last_sequence] /\ job' = j /\ pc' = "append" /\ n \in Nat
  BY <1>1 DEF LogAndApply
<1>3. PICK s : s = last_sequence
  OBVIOUS
<1>4. PICK g : g = [e EXCEPT !.next = n, !.seq = s]
  OBVIOUS
<1>5. /\ g \in Edits /\ g.add = e.add /\ g.del = e.del /\ g.log = e.log /\ g.next = n /\ g.seq = s
  BY <1>2, <1>3, <1>4 DEF Edits, Unset
<1> QED
  BY <1>1, <1>2, <1>3, <1>4, <1>5, Zenon

-----------------------------------------------------------------------------
(* Consequences of the invariant.                                           *)

LEMMA CurrentManifest ==
  ASSUME Inv, current # 0
  PROVE  /\ current \in DOMAIN manifests /\ WholeFile(Manifest, Edits)
         /\ Restarts(tables, logs, seq, owed, durable, current, Manifest)
         /\ Manifest.synced >= 1
<1>1. current \in DOMAIN manifests /\ Restarts(tables, logs, seq, owed, durable, current, Manifest)
  BY Zenon DEF Inv, DiskInv
<1>2. WholeFile(Manifest, Edits)
  BY <1>1, Zenon DEF Inv, DiskTypes, Directory, Manifest
<1> QED
  BY <1>1, <1>2, Zenon DEF Restarts

\* The invariant at each length of the current MANIFEST.
LEMMA ManifestPoints ==
  ASSUME Inv, current # 0
  PROVE  /\ Len(Manifest.recs) \in Points(Manifest) /\ Len(Manifest.recs) \in Nat
         /\ \A k \in Points(Manifest) :
               /\ k \in 1 .. Len(Manifest.recs) /\ Manifest.recs[k] \in Edits
               /\ RestartAt(tables, logs, seq, owed, durable, current, Manifest, k)
               /\ Restart(tables, logs, seq, owed, durable, VersionAt(Manifest, k), Manifest.recs[k].log,
                          Manifest.recs[k].next, Manifest.recs[k].seq)
         /\ VersionAt(Manifest, Len(Manifest.recs)) = FinalVersion(Manifest)
         /\ FinalEdit(Manifest) = Manifest.recs[Len(Manifest.recs)]
<1>1. PICK f : f = Manifest
  OBVIOUS
<1>2. WholeFile(f, Edits) /\ f.synced >= 1 /\ Restarts(tables, logs, seq, owed, durable, current, f)
  BY <1>1, CurrentManifest
<1>3. Len(f.recs) \in Points(f) /\ Len(f.recs) \in Nat
  BY <1>2, PointsType
<1>4. \A k \in Points(f) : k \in 1 .. Len(f.recs) /\ f.recs[k] \in Edits
  BY <1>2, PointsType
<1>5. \A k \in Points(f) : /\ RestartAt(tables, logs, seq, owed, durable, current, f, k)
                           /\ Restart(tables, logs, seq, owed, durable, VersionAt(f, k), f.recs[k].log,
                                      f.recs[k].next, f.recs[k].seq)
  BY <1>2, Zenon DEF Restarts, RestartAt
<1>6. VersionAt(f, Len(f.recs)) = FinalVersion(f) /\ FinalEdit(f) = f.recs[Len(f.recs)]
  BY <1>2, FinalIsReplayed
<1> QED
  BY <1>1, <1>3, <1>4, <1>5, <1>6, Zenon

\* The parts of the invariant of an open database.
LEMMA UpFacts ==
  ASSUME Inv, descriptor
  PROVE  /\ UpNumbers /\ UpSequences /\ UpData /\ UpManifest /\ UpOutputs /\ UpDeletes /\ UpEdit
         /\ current # 0 /\ manifest_file_number = current
BY Zenon DEF Inv, UpInv, UpNumbers

\* A database that takes writes has an open MANIFEST.
LEMMA OpenIsUp ==
  ASSUME Inv, IsOpen
  PROVE  descriptor
<1>1. SUFFICES ASSUME ~descriptor PROVE FALSE
  OBVIOUS
<1>2. /\ pc \in {"down", "created", "logs", "append", "sync", "setcurrent"}
      /\ pc \in {"append", "sync", "setcurrent"} => WritingManifest
  BY <1>1, Zenon DEF Inv, DownInv
<1>3. pc \in {"append", "sync"} => job = "open"
  BY <1>2 DEF WritingManifest
<1> QED
  BY <1>2, <1>3 DEF IsOpen

\* Nothing but the phase of the thread decides whether the database is up.
LEMMA UpByPhase ==
  ASSUME Inv
  PROVE  /\ pc \in {"idle", "building", "compacting", "delete"} => descriptor
         /\ pc \in {"down", "created", "logs", "setcurrent"} => ~descriptor
         /\ pc \in {"append", "sync"} /\ job # "open" => descriptor
         /\ pc \in {"append", "sync"} /\ job = "open" => ~descriptor
         /\ iterator # {} => descriptor
         /\ pc # "corrupt"
<1>1. CASE descriptor
  <2>1. pc \in {"append", "sync", "delete", "idle", "building", "compacting"} /\ UpEdit
    BY <1>1, UpFacts DEF UpNumbers
  <2>2. pc \in {"append", "sync"} => job # "open"
    BY <2>1 DEF UpEdit, EditSound
  <2> QED
    BY <1>1, <2>1, <2>2
<1>2. CASE ~descriptor
  <2>1. /\ pc \in {"down", "created", "logs", "append", "sync", "setcurrent"} /\ iterator = {}
        /\ pc \in {"append", "sync", "setcurrent"} => WritingManifest
    BY <1>2, Zenon DEF Inv, DownInv, NothingInMemory
  <2>2. pc \in {"append", "sync"} => job = "open"
    BY <2>1 DEF WritingManifest
  <2> QED
    BY <1>2, <2>1, <2>2
<1> QED
  BY <1>1, <1>2

-----------------------------------------------------------------------------
(* Steps that neither write nor install anything.                           *)

\* The tables of every version the MANIFEST may end with.
Recorded == UNION {VersionAt(Manifest, k) : k \in Points(Manifest)}

TablesKept == \A t \in live \cup Recorded : t \in DOMAIN tables' /\ tables'[t] = tables[t]

\* The logs that may be read again hold what they did.
SameLog(l) == UpdatesIn(logs', l) = UpdatesIn(logs, l) /\ SyncedIn(logs', l) = SyncedIn(logs, l)

LogsKept == SameLog(log_number) /\ \A k \in Points(Manifest) : SameLog(Manifest.recs[k].log)

Quiet ==
    /\ UNCHANGED <<current, seq, owed, durable, last_sequence, live, log_number>>
    /\ current \in DOMAIN manifests' /\ manifests'[current] = Manifest
    /\ TablesKept /\ LogsKept

\* The tables of the final version are recorded, and recorded tables exist.
LEMMA FinalIsRecorded ==
  ASSUME Inv, current # 0
  PROVE  FinalVersion(Manifest) \subseteq Recorded /\ Recorded \subseteq DOMAIN tables
<1>1. /\ Len(Manifest.recs) \in Points(Manifest)
      /\ VersionAt(Manifest, Len(Manifest.recs)) = FinalVersion(Manifest)
      /\ \A k \in Points(Manifest) :
             Restart(tables, logs, seq, owed, durable, VersionAt(Manifest, k), Manifest.recs[k].log,
                          Manifest.recs[k].next, Manifest.recs[k].seq)
  BY ManifestPoints, Zenon
<1>2. \A k \in Points(Manifest) : VersionAt(Manifest, k) \subseteq DOMAIN tables
  BY <1>1, Zenon DEF Restart
<1> QED
  BY <1>1, <1>2, Zenon DEF Recorded

\* The same tables and logs are restarted from.
LEMMA QuietDisk ==
  ASSUME Inv, current # 0, Quiet
  PROVE  DiskInv' /\ Manifest' = Manifest
<1>1. PICK f : f = Manifest
  OBVIOUS
<1>2. Restarts(tables, logs, seq, owed, durable, current, f) /\ current \in DOMAIN manifests
  BY <1>1, CurrentManifest
<1>3. ASSUME NEW k \in Points(f),
             Restart(tables, logs, seq, owed, durable, VersionAt(f, k), f.recs[k].log, f.recs[k].next, f.recs[k].seq)
      PROVE  Restart(tables', logs', seq, owed, durable, VersionAt(f, k), f.recs[k].log, f.recs[k].next, f.recs[k].seq)
  <2>1. VersionAt(f, k) \subseteq Recorded
    BY <1>1, <1>3, Zenon DEF Recorded
  <2>2. \A t \in VersionAt(f, k) : t \in DOMAIN tables' /\ tables'[t] = tables[t]
    BY <2>1, Zenon DEF Quiet, TablesKept
  <2>3. Restart(tables', logs, seq, owed, durable, VersionAt(f, k), f.recs[k].log, f.recs[k].next, f.recs[k].seq)
    BY <1>3, <2>2, RestartTables
  <2>4. SameLog(f.recs[k].log)
    BY <1>1, <1>3, Zenon DEF Quiet, LogsKept
  <2> QED
    BY <2>3, <2>4, RestartLogs DEF SameLog
<1>4. Restarts(tables', logs', seq, owed, durable, current, f)
  BY <1>2, <1>3, RestartsMap
<1>5. Manifest' = f
  BY <1>1, Zenon DEF Quiet, Manifest
<1> QED
  BY <1>1, <1>4, <1>5, Zenon DEF DiskInv, Quiet

\* A quiet step keeps what the recorded tables hold.
LEMMA QuietHolds ==
  ASSUME Inv, descriptor, Quiet
  PROVE  /\ Holds(tables', live) = Holds(tables, live)
         /\ Holds(tables', FinalVersion(Manifest)) = Holds(tables, FinalVersion(Manifest))
<1>1. FinalVersion(Manifest) \subseteq Recorded
  BY FinalIsRecorded, UpFacts
<1>2. /\ \A t \in live : tables'[t] = tables[t]
      /\ \A t \in FinalVersion(Manifest) : tables'[t] = tables[t]
  BY <1>1, Zenon DEF Quiet, TablesKept
<1> QED
  BY <1>2, SameTables

\* A quiet step keeps the sequence numbers in order.
LEMMA QuietSequences ==
  ASSUME Inv, descriptor, Quiet, next_file_number' \in Nat, logfile_number' \in Nat,
         next_file_number <= next_file_number', logfile_number <= logfile_number'
  PROVE  UpSequences'
<1> USE UpFacts
<1>1. current # 0 /\ UpSequences
  OBVIOUS
<1>2. PICK f : f = Manifest
  OBVIOUS
<1>3. Manifest' = f
  BY <1>1, <1>2, QuietDisk
<1>4. /\ Holds(tables', live) = Holds(tables, live)
      /\ Holds(tables', FinalVersion(f)) = Holds(tables, FinalVersion(f))
  BY <1>2, QuietHolds
<1>5. UpdatesIn(logs', log_number) = UpdatesIn(logs, log_number)
  BY Zenon DEF Quiet, LogsKept, SameLog
<1>6. live' = live /\ log_number' = log_number /\ seq' = seq /\ last_sequence' = last_sequence
  BY DEF Quiet
<1>7. \A i \in Holds(tables', live') \cup UpdatesIn(logs', log_number') : seq'[i] <= last_sequence'
  BY <1>1, <1>4, <1>5, <1>6, Zenon DEF UpSequences
<1>8. Ordered(seq', Holds(tables', live') \cup Holds(tables', FinalVersion(Manifest')) \cup UpdatesIn(logs', log_number'))
  BY <1>1, <1>2, <1>3, <1>4, <1>5, <1>6, Zenon DEF UpSequences
<1>9. ASSUME NEW k \in Points(f)
      PROVE  /\ f.recs[k].seq <= last_sequence' /\ f.recs[k].next <= next_file_number'
             /\ f.recs[k].log <= logfile_number'
             /\ \A i \in UpdatesIn(logs', f.recs[k].log) : seq'[i] <= last_sequence'
  <2>1. /\ f.recs[k].seq <= last_sequence /\ f.recs[k].next <= next_file_number
        /\ f.recs[k].log <= logfile_number
        /\ \A i \in UpdatesIn(logs, f.recs[k].log) : seq[i] <= last_sequence
    BY <1>1, <1>2, Zenon DEF UpSequences
  <2>2. UpdatesIn(logs', f.recs[k].log) = UpdatesIn(logs, f.recs[k].log)
    BY <1>2, Zenon DEF Quiet, LogsKept, SameLog
  <2>3. f.recs[k].next \in Nat /\ f.recs[k].log \in Nat
    BY <1>1, <1>2, ManifestPoints, Zenon DEF Restart
  <2>4. next_file_number \in Nat /\ logfile_number \in Nat
    BY DEF Inv, MemoryTypes
  <2>5. f.recs[k].next <= next_file_number' /\ f.recs[k].log <= logfile_number'
    <3>1. PICK a, b : a = f.recs[k].next /\ b = f.recs[k].log
      OBVIOUS
    <3> QED
      BY <2>1, <2>3, <2>4, <3>1
  <2> QED
    BY <1>6, <2>1, <2>2, <2>5, Zenon
<1> QED
  BY <1>3, <1>7, <1>8, <1>9, Zenon DEF UpSequences

\* Nor does the memory change.
LEMMA QuietData ==
  ASSUME Inv, descriptor, Quiet, UNCHANGED <<mem, imm, has_imm, logfile_number>>,
         logs'[logfile_number] = logs[logfile_number]
  PROVE  UpData'
<1>1. current # 0 /\ UpData
  BY UpFacts
<1>2. PICK f : f = Manifest
  OBVIOUS
<1>3. Manifest' = f
  BY <1>1, <1>2, QuietDisk
<1>4. /\ Holds(tables', live) = Holds(tables, live)
      /\ Holds(tables', FinalVersion(f)) = Holds(tables, FinalVersion(f))
  BY <1>2, QuietHolds
<1>5. UpdatesIn(logs', log_number) = UpdatesIn(logs, log_number) /\ SyncedIn(logs', log_number) = SyncedIn(logs, log_number)
  BY Zenon DEF Quiet, LogsKept, SameLog
<1>6. /\ live' = live /\ log_number' = log_number /\ owed' = owed /\ durable' = durable
      /\ mem' = mem /\ imm' = imm /\ has_imm' = has_imm /\ logfile_number' = logfile_number
  BY DEF Quiet
<1>7. logs'[logfile_number'] = logs[logfile_number]
  BY <1>6
<1>8. mem' \subseteq Records(logs'[logfile_number']) /\ mem' \cap durable' \subseteq SyncedRecords(logs'[logfile_number'])
  BY <1>1, <1>6, <1>7, Zenon DEF UpData
<1>9. imm' \subseteq UpdatesIn(logs', log_number') /\ imm' \cap durable' \subseteq SyncedIn(logs', log_number')
  BY <1>1, <1>5, <1>6, Zenon DEF UpData
<1>10. /\ owed' \subseteq mem' \cup imm' \cup Holds(tables', live')
       /\ owed' \subseteq mem' \cup imm' \cup Holds(tables', FinalVersion(Manifest'))
       /\ mem' \cap imm' = {} /\ Holds(tables', live') \cap (mem' \cup imm') = {}
       /\ ~has_imm' => imm' = {}
  BY <1>1, <1>2, <1>3, <1>4, <1>6 DEF UpData
<1> QED
  BY <1>8, <1>9, <1>10, Zenon DEF UpData

\* A quiet step keeps the MANIFEST in step with memory.
LEMMA QuietSettled ==
  ASSUME Inv, descriptor, Quiet, Settled
  PROVE  Settled'
<1>1. Manifest' = Manifest
  BY QuietDisk, UpFacts
<1> QED
  BY <1>1, Zenon DEF Settled, Quiet

\* A step of an open database keeps the invariant if it keeps each part.
LEMMA UpStep ==
  ASSUME DiskTypes', MemoryTypes', DiskInv', descriptor', UpNumbers', UpSequences', UpData', UpManifest',
         UpOutputs', UpDeletes', UpEdit'
  PROVE  Inv'
<1>1. DownInv' /\ UpInv'
  BY Zenon DEF DownInv, UpInv
<1> QED
  BY <1>1, Zenon DEF Inv

\* A step that leaves the disk alone keeps its types.
LEMMA SameDiskTypes ==
  ASSUME Inv, UNCHANGED disk, UNCHANGED seq
  PROVE  DiskTypes'
BY Zenon DEF Inv, DiskTypes, disk, Updates

\* A step that leaves the disk alone is quiet.
LEMMA SameDiskIsQuiet ==
  ASSUME Inv, descriptor, UNCHANGED disk, UNCHANGED <<seq, owed, durable, last_sequence, live, log_number>>
  PROVE  Quiet
<1>1. logs' = logs /\ tables' = tables /\ manifests' = manifests /\ current' = current
  BY DEF disk
<1>2. live \subseteq DOMAIN tables /\ Recorded \subseteq DOMAIN tables /\ current \in DOMAIN manifests
  BY UpFacts, FinalIsRecorded, CurrentManifest DEF UpNumbers
<1>3. TablesKept
  BY <1>1, <1>2, Zenon DEF TablesKept
<1>4. LogsKept
  BY <1>1, Zenon DEF LogsKept, SameLog
<1>5. current \in DOMAIN manifests' /\ manifests'[current] = Manifest
  BY <1>1, <1>2, Zenon DEF Manifest
<1> QED
  BY <1>1, <1>3, <1>4, <1>5 DEF Quiet

\* The parts of the invariant that a step with these effects leaves alone.
LEMMA QuietParts ==
  ASSUME Inv, descriptor, Quiet, UNCHANGED <<mem, imm, has_imm, logfile_number>>,
         logs'[logfile_number] = logs[logfile_number], next_file_number' \in Nat,
         next_file_number <= next_file_number'
  PROVE  DiskInv' /\ UpSequences' /\ UpData' /\ Manifest' = Manifest /\ (Settled => Settled')
<1>1. logfile_number' \in Nat /\ logfile_number <= logfile_number'
  BY DEF Inv, MemoryTypes
<1>2. DiskInv' /\ Manifest' = Manifest
  BY QuietDisk, UpFacts
<1>3. UpSequences'
  BY <1>1, QuietSequences
<1>4. UpData'
  BY QuietData
<1>5. Settled => Settled'
  BY QuietSettled
<1> QED
  BY <1>2, <1>3, <1>4, <1>5

\* A step that leaves the pending edit alone keeps what is known of it.
LEMMA SameEdit ==
  ASSUME Inv, descriptor, Manifest' = Manifest,
         UNCHANGED <<job, edit, tables, next_file_number, last_sequence, current, seq, has_imm, logfile_number,
                     imm, live, log_number, compaction, pc>>
  PROVE  UpEdit'
<1>1. UpEdit
  BY UpFacts
<1>2. /\ job' = job /\ edit' = edit /\ tables' = tables /\ next_file_number' = next_file_number
      /\ last_sequence' = last_sequence /\ current' = current /\ seq' = seq /\ has_imm' = has_imm
      /\ logfile_number' = logfile_number /\ imm' = imm /\ live' = live /\ log_number' = log_number
      /\ compaction' = compaction /\ pc' = pc
  OBVIOUS
<1> QED
  BY <1>1, <1>2 DEF UpEdit, EditSound

-----------------------------------------------------------------------------
(* Readers.                                                                 *)

LEMMA IteratorStep ==
  ASSUME Inv, descriptor, iterator' \in {{}, live},
         UNCHANGED <<disk, version, next_file_number, last_sequence, memory, bg_error, pending_outputs, thread,
                     history>>
  PROVE  Inv'
<1>1. /\ UNCHANGED disk /\ seq' = seq /\ owed' = owed /\ durable' = durable /\ covered' = covered
      /\ last_sequence' = last_sequence /\ next_file_number' = next_file_number
      /\ live' = live /\ log_number' = log_number /\ manifest_file_number' = manifest_file_number
      /\ descriptor' = descriptor /\ mem' = mem /\ imm' = imm /\ has_imm' = has_imm
      /\ logfile_number' = logfile_number /\ bg_error' = bg_error /\ pending_outputs' = pending_outputs
      /\ pc' = pc /\ job' = job /\ edit' = edit /\ output' = output /\ compaction' = compaction
      /\ todo' = todo /\ files_to_delete' = files_to_delete
      /\ logs' = logs /\ tables' = tables /\ manifests' = manifests /\ current' = current
  BY DEF version, memory, thread, history, disk
<1>2. Quiet
  BY <1>1, SameDiskIsQuiet
<1>3. DiskTypes'
  BY <1>1, SameDiskTypes
<1>4. MemoryTypes'
  BY <1>1 DEF Inv, MemoryTypes, Updates
<1>5. DiskInv' /\ UpSequences' /\ UpData' /\ Manifest' = Manifest /\ (Settled => Settled')
  <2>1. next_file_number \in Nat
    BY DEF Inv, MemoryTypes
  <2> QED
    BY <1>1, <1>2, <2>1, QuietParts
<1>6. UpNumbers'
  BY <1>1, <1>5, UpFacts DEF UpNumbers
<1>7. UpManifest'
  <2>1. UpManifest
    BY UpFacts
  <2> QED
    BY <1>1, <1>5, <2>1 DEF UpManifest
<1>9. UpOutputs'
  <2>1. UpOutputs
    BY UpFacts
  <2>2. \A n : n \notin live \cup iterator => n \notin live \cup iterator'
    OBVIOUS
  <2> QED
    BY <1>1, <1>5, <2>1, <2>2 DEF UpOutputs, Fresh
<1>10. UpDeletes'
  BY <1>1, UpFacts DEF UpDeletes
<1>11. UpEdit'
  BY <1>1, <1>5, SameEdit
<1>12. descriptor'
  BY <1>1
<1> QED
  BY <1>3, <1>4, <1>5, <1>6, <1>7, <1>9, <1>10, <1>11, <1>12, UpStep

-----------------------------------------------------------------------------
(* The background thread.                                                   *)

LEMMA CountersBound ==
  ASSUME Inv, descriptor
  PROVE  /\ FinalEdit(Manifest).next \in Nat /\ FinalEdit(Manifest).seq \in Nat /\ FinalEdit(Manifest).log \in Nat
         /\ FinalEdit(Manifest).next <= next_file_number /\ FinalEdit(Manifest).seq <= last_sequence
         /\ FinalEdit(Manifest).log <= logfile_number
         /\ current \in Nat /\ current < next_file_number
         /\ log_number < next_file_number /\ logfile_number < next_file_number
         /\ next_file_number \in Nat /\ last_sequence \in Nat /\ log_number \in Nat /\ logfile_number \in Nat
<1>1. current # 0 /\ UpNumbers /\ UpSequences
  BY UpFacts
<1>2. /\ next_file_number \in Nat /\ last_sequence \in Nat /\ log_number \in Nat /\ logfile_number \in Nat
      /\ current \in Nat
  BY DEF Inv, MemoryTypes, DiskTypes
<1>3. PICK k : k = Len(Manifest.recs)
  OBVIOUS
<1>4. PICK e : e = FinalEdit(Manifest)
  OBVIOUS
<1>5. /\ k \in Points(Manifest) /\ Manifest.recs[k] = e
      /\ RestartAt(tables, logs, seq, owed, durable, current, Manifest, k)
      /\ Restart(tables, logs, seq, owed, durable, VersionAt(Manifest, k), Manifest.recs[k].log,
                          Manifest.recs[k].next, Manifest.recs[k].seq)
  BY <1>1, <1>3, <1>4, ManifestPoints, Zenon
<1>6. e.next \in Nat /\ e.seq \in Nat /\ e.log \in Nat /\ current < e.next
  BY <1>5, Zenon DEF Restart, RestartAt
<1>7. e.next <= next_file_number /\ e.seq <= last_sequence /\ e.log <= logfile_number
  BY <1>1, <1>5, Zenon DEF UpSequences
<1>8. logfile_number < next_file_number /\ log_number <= logfile_number
  BY <1>1 DEF UpNumbers
<1>9. current < next_file_number /\ log_number < next_file_number
  BY <1>2, <1>6, <1>7, <1>8
<1> QED
  BY <1>2, <1>4, <1>6, <1>7, <1>8, <1>9

\* A table with a number not given yet, or no table, is added to the directory.
LEMMA NewNumberIsFresh ==
  ASSUME Inv, descriptor, pc \notin {"append", "sync"}
  PROVE  Fresh(next_file_number)
<1>1. PICK n : n = next_file_number
  OBVIOUS
<1>2. n \in Nat /\ UpNumbers /\ UpSequences /\ current # 0
  BY <1>1, UpFacts DEF Inv, MemoryTypes
<1>3. n \notin live /\ n \notin iterator
  BY <1>1, <1>2 DEF UpNumbers
<1>4. edit.add = {}
  BY <1>2, EditTypes DEF UpNumbers
<1>5. ASSUME NEW k \in Points(Manifest) PROVE n \notin VersionAt(Manifest, k)
  <2>1. PICK x : x = Manifest.recs[k].next
    OBVIOUS
  <2>2. x \in Nat /\ \A t \in VersionAt(Manifest, k) : t < x
    BY <1>2, <2>1, ManifestPoints, Zenon DEF Restart
  <2>3. x <= n
    BY <1>1, <1>2, <2>1, Zenon DEF UpSequences
  <2> QED
    BY <1>2, <2>2, <2>3
<1> QED
  BY <1>1, <1>3, <1>4, <1>5 DEF Fresh, Unrecorded

\* The thread puts or removes a table that nothing refers to.
LEMMA FreshTableIsQuiet ==
  ASSUME Inv, descriptor, NEW n, Fresh(n), NEW u,
         tables' = Put(tables, n, u) \/ tables' = Without(tables, {n}) \/ tables' = tables,
         UNCHANGED <<logs, manifests, current, seq, owed, durable, last_sequence, live, log_number>>
  PROVE  /\ Quiet /\ \A t \in DOMAIN tables : t # n => t \in DOMAIN tables' /\ tables'[t] = tables[t]
         /\ \A t \in live \cup iterator : t \in DOMAIN tables' /\ tables'[t] = tables[t]
         /\ \A V : V \subseteq live => Holds(tables', V) = Holds(tables, V)
<1>1. \A t \in DOMAIN tables : t # n => t \in DOMAIN tables' /\ tables'[t] = tables[t]
  <2>1. CASE tables' = Put(tables, n, u)
    BY <2>1 DEF Put
  <2>2. CASE tables' = Without(tables, {n})
    BY <2>2 DEF Without
  <2>3. CASE tables' = tables
    BY <2>3
  <2> QED
    BY <2>1, <2>2, <2>3
<1>2. live \subseteq DOMAIN tables /\ iterator \subseteq DOMAIN tables /\ Recorded \subseteq DOMAIN tables
      /\ current \in DOMAIN manifests
  BY UpFacts, FinalIsRecorded, CurrentManifest DEF UpNumbers
<1>3. n \notin live /\ n \notin iterator /\ n \notin Recorded
  <2>1. n \notin Recorded
    BY Zenon DEF Recorded, Fresh, Unrecorded
  <2> QED
    BY <2>1 DEF Fresh
<1>4. TablesKept
  BY <1>1, <1>2, <1>3 DEF TablesKept
<1>5. LogsKept
  BY Zenon DEF LogsKept, SameLog
<1>6. Quiet
  BY <1>2, <1>4, <1>5 DEF Quiet, Manifest
<1>7. \A t \in live \cup iterator : t \in DOMAIN tables' /\ tables'[t] = tables[t]
  BY <1>1, <1>2, <1>3
<1>8. ASSUME NEW V, V \subseteq live PROVE Holds(tables', V) = Holds(tables, V)
  <2>1. \A t \in V : tables'[t] = tables[t]
    BY <1>7, <1>8
  <2> QED
    BY <2>1, SameTables
<1> QED
  BY <1>1, <1>6, <1>7, <1>8

\* A compaction that fails changes no file, and gives up the number of its output.
LEMMA CompactionFailsStep ==
  ASSUME Inv, CompactionFails
  PROVE  Inv'
<1>1. /\ UNCHANGED disk /\ seq' = seq /\ owed' = owed /\ durable' = durable /\ covered' = covered
      /\ last_sequence' = last_sequence /\ next_file_number' = next_file_number
      /\ live' = live /\ log_number' = log_number /\ manifest_file_number' = manifest_file_number
      /\ descriptor' = descriptor /\ mem' = mem /\ imm' = imm /\ has_imm' = has_imm
      /\ logfile_number' = logfile_number /\ bg_error' = TRUE
      /\ pending_outputs' = pending_outputs \ {compaction.output}
      /\ pc' = "idle" /\ job' = "none" /\ edit' = edit /\ output' = output /\ compaction' = NoCompaction
      /\ todo' = todo /\ files_to_delete' = {} /\ iterator' = iterator
      /\ logs' = logs /\ tables' = tables /\ manifests' = manifests /\ current' = current
      /\ pc = "compacting"
  BY DEF CompactionFails, version, memory, thread, history, disk, Continue
<1>2. descriptor
  BY <1>1, UpByPhase
<1>3. Quiet
  BY <1>1, <1>2, SameDiskIsQuiet
<1>4. DiskTypes'
  BY <1>1, SameDiskTypes
<1>5. MemoryTypes'
  BY <1>1 DEF Inv, MemoryTypes, Updates, NoCompaction
<1>6. DiskInv' /\ UpSequences' /\ UpData' /\ Manifest' = Manifest /\ (Settled => Settled')
  BY <1>1, <1>2, <1>3, CountersBound, QuietParts
<1>7. UpNumbers /\ UpDeletes
  BY <1>2, UpFacts
<1>8. UpNumbers'
  BY <1>1, <1>6, <1>7 DEF UpNumbers, NoCompaction
<1>9. UpManifest'
  BY <1>1 DEF UpManifest
<1>10. UpOutputs'
  BY <1>1 DEF UpOutputs
<1>11. UpDeletes'
  BY <1>1 DEF UpDeletes
<1>12. UpEdit'
  BY <1>1 DEF UpEdit
<1>13. descriptor'
  BY <1>1, <1>2
<1> QED
  BY <1>4, <1>5, <1>6, <1>8, <1>9, <1>10, <1>11, <1>12, <1>13, UpStep

\* An edit that could not be written leaves a MANIFEST that restarts with or without it.
LEMMA LogAndApplyFailsStep ==
  ASSUME Inv, LogAndApplyFails, CleanAppends
  PROVE  Inv'
<1>1. /\ UNCHANGED disk /\ seq' = seq /\ owed' = owed /\ durable' = durable /\ covered' = covered
      /\ last_sequence' = last_sequence /\ next_file_number' = next_file_number
      /\ live' = live /\ log_number' = log_number /\ manifest_file_number' = manifest_file_number
      /\ descriptor' = descriptor /\ mem' = mem /\ imm' = imm /\ has_imm' = has_imm
      /\ logfile_number' = logfile_number /\ bg_error' = TRUE
      /\ edit' = NoEdit /\ output' = output /\ todo' = todo /\ iterator' = iterator
      /\ logs' = logs /\ tables' = tables /\ manifests' = manifests /\ current' = current
      /\ pc \in {"append", "sync"} /\ job # "open"
  BY DEF LogAndApplyFails, version, memory, thread, history, disk, Fault, CleanAppends
<1>2. /\ compaction' = IF job = "compact" THEN NoCompaction ELSE compaction
      /\ pending_outputs' = pending_outputs \ (IF job = "compact" THEN {compaction.output} ELSE {})
      /\ files_to_delete' = {} /\ job' = "none"
      /\ pc' = IF compaction' = NoCompaction THEN "idle" ELSE "compacting"
  BY DEF LogAndApplyFails, Continue
<1>3. descriptor
  BY <1>1, UpByPhase
<1>4. Quiet
  BY <1>1, <1>3, SameDiskIsQuiet
<1>5. DiskTypes'
  BY <1>1, SameDiskTypes
<1>6. MemoryTypes'
  BY <1>1, <1>2, EditTypes DEF Inv, MemoryTypes, Updates, NoCompaction
<1>7. DiskInv' /\ UpSequences' /\ UpData' /\ Manifest' = Manifest /\ (Settled => Settled')
  BY <1>1, <1>3, <1>4, CountersBound, QuietParts
<1>8. UpNumbers /\ UpOutputs /\ NoEdit.add = {}
  BY <1>3, UpFacts, EditTypes
<1>9. UpNumbers'
  BY <1>1, <1>2, <1>7, <1>8 DEF UpNumbers, NoCompaction
<1>10. UpManifest'
  BY <1>1, <1>2 DEF UpManifest
<1>11. UpOutputs'
  BY <1>1, <1>2, <1>7, <1>8 DEF UpOutputs, Fresh
<1>12. UpDeletes'
  BY <1>2 DEF UpDeletes
<1>13. UpEdit'
  BY <1>2 DEF UpEdit
<1>14. descriptor'
  BY <1>1, <1>3
<1> QED
  BY <1>5, <1>6, <1>7, <1>9, <1>10, <1>11, <1>12, <1>13, <1>14, UpStep

\* LogAndApply is called.
LEMMA NewEdit ==
  ASSUME Inv, descriptor, Manifest' = Manifest, pc' = "append", job' \in {"flush", "compact", "move"},
         UNCHANGED <<next_file_number, last_sequence, current, seq>>,
         edit'.next = next_file_number, edit'.seq = last_sequence, edit'.log \in Nat, edit'.log < next_file_number,
         edit'.add \subseteq DOMAIN tables', edit'.del \subseteq DOMAIN tables',
         Holds(tables', edit'.del) \subseteq Holds(tables', edit'.add),
         \A n \in edit'.add : n < next_file_number,
         \A i \in Holds(tables', edit'.add) : seq[i] <= last_sequence,
         job' = "flush" => /\ has_imm' /\ edit'.log = logfile_number'
                           /\ imm' \subseteq Holds(tables', edit'.add)
                           /\ Holds(tables', edit'.add) \subseteq Holds(tables', live') \cup imm',
         job' # "flush" => edit'.log = log_number' /\ Holds(tables', edit'.add) \subseteq Holds(tables', live'),
         job' # "compact" => edit'.del \cap compaction'.inputs = {}
  PROVE  UpEdit'
<1>1. /\ FinalEdit(Manifest).next <= next_file_number /\ FinalEdit(Manifest).seq <= last_sequence
      /\ current < next_file_number /\ next_file_number \in Nat /\ last_sequence \in Nat
  BY CountersBound
<1>2. PICK e : e = edit'
  OBVIOUS
<1>3. /\ e.next \in Nat /\ e.seq \in Nat /\ e.log \in Nat
      /\ e.next <= next_file_number' /\ e.seq <= last_sequence' /\ current' < e.next /\ e.log < e.next
  BY <1>1, <1>2
<1>4. e.add \cup e.del \subseteq DOMAIN tables'
  BY <1>2
<1>5. (\A n \in e.add : n < e.next) /\ (\A i \in Holds(tables', e.add) : seq'[i] <= e.seq)
  BY <1>2, Zenon
<1>6. FinalEdit(Manifest').next <= e.next /\ FinalEdit(Manifest').seq <= e.seq
  BY <1>1, <1>2, Zenon
<1>7. pc' # "sync"
  OBVIOUS
<1>8. EditSound'
  BY <1>2, <1>3, <1>4, <1>5, <1>6, <1>7, Zenon DEF EditSound
<1> QED
  BY <1>8 DEF UpEdit

\* A table that moves to the next level is deleted and added by one edit.
LEMMA TrivialMoveStep ==
  ASSUME Inv, TrivialMove
  PROVE  Inv'
<1>1. /\ UNCHANGED disk /\ seq' = seq /\ owed' = owed /\ durable' = durable /\ covered' = covered
      /\ last_sequence' = last_sequence /\ next_file_number' = next_file_number
      /\ live' = live /\ log_number' = log_number /\ manifest_file_number' = manifest_file_number
      /\ descriptor' = descriptor /\ mem' = mem /\ imm' = imm /\ has_imm' = has_imm
      /\ logfile_number' = logfile_number /\ bg_error' = bg_error /\ pending_outputs' = pending_outputs
      /\ output' = output /\ compaction' = compaction
      /\ todo' = todo /\ files_to_delete' = files_to_delete /\ iterator' = iterator
      /\ logs' = logs /\ tables' = tables /\ manifests' = manifests /\ current' = current
      /\ pc = "idle" /\ ~bg_error
  BY DEF TrivialMove, MayCompact, version, memory, history, disk
<1>2. descriptor
  BY <1>1, UpByPhase
<1>3. UpNumbers /\ UpSequences /\ UpManifest /\ UpDeletes
  BY <1>2, UpFacts
<1>4. /\ FinalEdit(Manifest).next <= next_file_number /\ FinalEdit(Manifest).seq <= last_sequence
      /\ current < next_file_number /\ log_number < next_file_number
      /\ next_file_number \in Nat /\ last_sequence \in Nat /\ log_number \in Nat
  BY <1>2, CountersBound
<1>5. live \subseteq Nat
  BY DEF Inv, MemoryTypes
<1>6. PICK t \in live : LogAndApply([NoEdit EXCEPT !.add = {t}, !.del = {t}, !.log = log_number], "move")
  BY DEF TrivialMove, DefaultLogNumber
<1>7. PICK e : e = [NoEdit EXCEPT !.add = {t}, !.del = {t}, !.log = log_number]
  OBVIOUS
<1>8. e \in Edits /\ e.add = {t} /\ e.del = {t} /\ e.log = log_number
  BY <1>4, <1>5, <1>7 DEF Edits, NoEdit, Unset
<1>9. LogAndApply(e, "move")
  BY <1>6, <1>7
<1>10. /\ edit' \in Edits /\ edit'.add = {t} /\ edit'.del = {t} /\ edit'.log = log_number
       /\ edit'.next = next_file_number /\ edit'.seq = last_sequence
       /\ job' = "move" /\ pc' = "append"
  <2>1. next_file_number' \in Nat
    BY <1>1, <1>4
  <2>2. /\ edit' \in Edits /\ edit'.add = e.add /\ edit'.del = e.del /\ edit'.log = e.log
        /\ edit'.next = next_file_number' /\ edit'.seq = last_sequence
        /\ job' = "move" /\ pc' = "append"
    BY <1>4, <1>8, <1>9, <2>1, CountersAdded
  <2> QED
    BY <1>1, <1>8, <2>2
<1>11. Quiet
  BY <1>1, <1>2, SameDiskIsQuiet
<1>12. DiskTypes'
  BY <1>1, SameDiskTypes
<1>13. MemoryTypes'
  BY <1>1, <1>10 DEF Inv, MemoryTypes, Updates
<1>14. DiskInv' /\ UpSequences' /\ UpData' /\ Manifest' = Manifest /\ (Settled => Settled')
  BY <1>1, <1>2, <1>4, <1>11, QuietParts
<1>15. UpNumbers'
  BY <1>1, <1>3, <1>10, <1>14 DEF UpNumbers
<1>16. UpManifest'
  BY <1>1, <1>3, <1>10, <1>14 DEF UpManifest
<1>17. compaction = NoCompaction
  BY <1>1, <1>3 DEF UpNumbers
<1>18. UpOutputs'
  BY <1>1, <1>10, <1>17 DEF UpOutputs
<1>19. UpDeletes'
  BY <1>1, <1>3 DEF UpDeletes
<1>20. UpEdit'
  <2>1. Holds(tables, {t}) \subseteq Holds(tables, live)
    BY HoldsUnion
  <2>2. \A i \in Holds(tables, {t}) : seq[i] <= last_sequence
    BY <1>3, <2>1, Zenon DEF UpSequences
  <2>3. t \in DOMAIN tables /\ t < next_file_number
    BY <1>3 DEF UpNumbers
  <2>4. compaction'.inputs = {}
    BY <1>1, <1>17 DEF NoCompaction
  <2>5. /\ edit'.add \subseteq DOMAIN tables' /\ edit'.del \subseteq DOMAIN tables'
        /\ Holds(tables', edit'.del) \subseteq Holds(tables', edit'.add)
        /\ \A n \in edit'.add : n < next_file_number
    BY <1>1, <1>10, <2>3
  <2>6. /\ \A i \in Holds(tables', edit'.add) : seq[i] <= last_sequence
        /\ Holds(tables', edit'.add) \subseteq Holds(tables', live')
    BY <1>1, <1>10, <2>1, <2>2
  <2> QED
    BY <1>1, <1>2, <1>4, <1>10, <1>14, <2>4, <2>5, <2>6, NewEdit
<1>21. descriptor'
  BY <1>1, <1>2
<1> QED
  BY <1>12, <1>13, <1>14, <1>15, <1>16, <1>18, <1>19, <1>20, <1>21, UpStep

\* The number of the new table is protected before it is built.
LEMMA FlushStartStep ==
  ASSUME Inv, FlushStart
  PROVE  Inv'
<1>1. /\ seq' = seq /\ owed' = owed /\ durable' = durable /\ covered' = covered
      /\ last_sequence' = last_sequence /\ next_file_number' = next_file_number + 1
      /\ live' = live /\ log_number' = log_number /\ manifest_file_number' = manifest_file_number
      /\ descriptor' = descriptor /\ mem' = mem /\ imm' = imm /\ has_imm' = has_imm
      /\ logfile_number' = logfile_number /\ bg_error' = bg_error
      /\ pending_outputs' = pending_outputs \cup {next_file_number}
      /\ job' = job /\ edit' = edit /\ output' = next_file_number /\ compaction' = compaction
      /\ todo' = todo /\ files_to_delete' = files_to_delete /\ iterator' = iterator
      /\ logs' = logs /\ manifests' = manifests /\ current' = current
      /\ pc \in {"idle", "compacting"} /\ pc' = "building" /\ has_imm
      /\ tables' = IF imm = {} THEN tables ELSE Put(tables, next_file_number, {})
  BY DEF FlushStart, version, memory, history
<1>2. descriptor
  BY <1>1, UpByPhase
<1>3. UpNumbers /\ UpManifest /\ UpDeletes /\ UpOutputs
  BY <1>2, UpFacts
<1>4. next_file_number \in Nat /\ current < next_file_number /\ current \in Nat
  BY <1>2, CountersBound
<1>5. PICK n : n = next_file_number
  OBVIOUS
<1>6. Fresh(n)
  BY <1>1, <1>2, <1>5, NewNumberIsFresh
<1>7. /\ Quiet /\ \A t \in live \cup iterator : t \in DOMAIN tables' /\ tables'[t] = tables[t]
  <2>1. tables' = Put(tables, n, {}) \/ tables' = tables
    BY <1>1, <1>5
  <2> QED
    BY <1>1, <1>2, <1>6, <2>1, FreshTableIsQuiet
<1>8. DiskTypes'
  <2>1. TableFiles(tables, Updates)
    BY DEF Inv, DiskTypes
  <2>2. TableFiles(Put(tables, n, {}), Updates)
    BY <1>4, <1>5, <2>1, PutTable
  <2>3. TableFiles(tables', Updates)
    BY <1>1, <1>5, <2>1, <2>2
  <2>4. Updates' = Updates
    BY <1>1 DEF Updates
  <2> QED
    BY <1>1, <2>3, <2>4, Zenon DEF Inv, DiskTypes
<1>9. MemoryTypes'
  BY <1>1, <1>4 DEF Inv, MemoryTypes, Updates
<1>10. DiskInv' /\ UpSequences' /\ UpData' /\ Manifest' = Manifest /\ (Settled => Settled')
  <2>1. next_file_number' \in Nat /\ next_file_number <= next_file_number'
    BY <1>1, <1>4
  <2> QED
    BY <1>1, <1>2, <1>7, <2>1, QuietParts
<1>11. UpNumbers'
  <2>1. \A m \in live \cup iterator \cup pending_outputs : m \in Nat /\ m < next_file_number
    BY <1>3 DEF UpNumbers, Inv, MemoryTypes
  <2>2. \A m \in DOMAIN logs : m \in Nat /\ m < next_file_number
    BY <1>3 DEF UpNumbers, Inv, DiskTypes, Directory
  <2>3. \A m \in Nat : m < next_file_number => m < next_file_number'
    BY <1>1, <1>4
  <2>4. \A m \in live' \cup iterator' \cup pending_outputs' : m < next_file_number'
    BY <1>1, <1>4, <2>1, <2>3
  <2>5. \A m \in DOMAIN logs' : m < next_file_number'
    BY <1>1, <2>2, <2>3
  <2> QED
    BY <1>1, <1>3, <1>4, <1>7, <1>10, <2>4, <2>5 DEF UpNumbers
<1>12. UpManifest'
  BY <1>1, <1>3, <1>10 DEF UpManifest
<1>13. UpOutputs'
  <2>1. compaction # NoCompaction => /\ Fresh(compaction.output) /\ compaction.output \in pending_outputs
                                     /\ compaction.output # next_file_number
    <3>1. compaction # NoCompaction => Fresh(compaction.output) /\ compaction.output \in pending_outputs
      BY <1>1, <1>3 DEF UpOutputs
    <3>2. next_file_number \notin pending_outputs
      BY <1>3, <1>4 DEF UpNumbers
    <3> QED
      BY <3>1, <3>2
  <2>2. Fresh(next_file_number)
    BY <1>5, <1>6
  <2> QED
    BY <1>1, <1>10, <2>1, <2>2 DEF UpOutputs, Fresh
<1>14. UpDeletes'
  BY <1>1, <1>3 DEF UpDeletes
<1>15. UpEdit'
  BY <1>1 DEF UpEdit
<1>16. descriptor'
  BY <1>1, <1>2
<1> QED
  BY <1>8, <1>9, <1>10, <1>11, <1>12, <1>13, <1>14, <1>15, <1>16, UpStep

\* A flush that fails keeps imm, and the log that holds it.
LEMMA FlushFailsStep ==
  ASSUME Inv, FlushFails
  PROVE  Inv'
<1>1. /\ seq' = seq /\ owed' = owed /\ durable' = durable /\ covered' = covered
      /\ last_sequence' = last_sequence /\ next_file_number' = next_file_number
      /\ live' = live /\ log_number' = log_number /\ manifest_file_number' = manifest_file_number
      /\ descriptor' = descriptor /\ mem' = mem /\ imm' = imm /\ has_imm' = has_imm
      /\ logfile_number' = logfile_number /\ bg_error' = TRUE
      /\ pending_outputs' = pending_outputs \ {output}
      /\ job' = "none" /\ edit' = edit /\ output' = 0 /\ compaction' = compaction
      /\ todo' = todo /\ files_to_delete' = {} /\ iterator' = iterator
      /\ logs' = logs /\ manifests' = manifests /\ current' = current
      /\ pc = "building" /\ pc' = IF compaction = NoCompaction THEN "idle" ELSE "compacting"
      /\ tables' = Without(tables, {output})
  BY DEF FlushFails, version, memory, history, Continue
<1>2. descriptor
  BY <1>1, UpByPhase
<1>3. UpNumbers /\ UpOutputs
  BY <1>2, UpFacts
<1>4. PICK n : n = output
  OBVIOUS
<1>5. Fresh(n)
  BY <1>1, <1>3, <1>4 DEF UpOutputs
<1>6. /\ Quiet /\ \A t \in live \cup iterator : t \in DOMAIN tables' /\ tables'[t] = tables[t]
  <2>1. tables' = Without(tables, {n})
    BY <1>1, <1>4
  <2> QED
    BY <1>1, <1>2, <1>5, <2>1, FreshTableIsQuiet
<1>7. DiskTypes'
  <2>1. TableFiles(tables', Updates)
    BY <1>1, RemovedTables DEF Inv, DiskTypes
  <2>2. Updates' = Updates
    BY <1>1 DEF Updates
  <2> QED
    BY <1>1, <2>1, <2>2, Zenon DEF Inv, DiskTypes
<1>8. MemoryTypes'
  BY <1>1 DEF Inv, MemoryTypes, Updates
<1>9. DiskInv' /\ UpSequences' /\ UpData' /\ Manifest' = Manifest /\ (Settled => Settled')
  BY <1>1, <1>2, <1>6, CountersBound, QuietParts
<1>10. UpNumbers'
  BY <1>1, <1>3, <1>6, <1>9 DEF UpNumbers
<1>11. UpManifest'
  BY <1>1 DEF UpManifest
<1>12. UpOutputs'
  BY <1>1, <1>3, <1>9 DEF UpOutputs, Fresh
<1>13. UpDeletes'
  BY <1>1 DEF UpDeletes
<1>14. UpEdit'
  BY <1>1 DEF UpEdit
<1>15. descriptor'
  BY <1>1, <1>2
<1> QED
  BY <1>7, <1>8, <1>9, <1>10, <1>11, <1>12, <1>13, <1>14, <1>15, UpStep

\* The edit of a flush retires the logs only of what the new table holds.
LEMMA FlushBuiltStep ==
  ASSUME Inv, FlushBuilt
  PROVE  Inv'
<1>1. /\ seq' = seq /\ owed' = owed /\ durable' = durable /\ covered' = covered
      /\ last_sequence' = last_sequence /\ next_file_number' = next_file_number
      /\ live' = live /\ log_number' = log_number /\ manifest_file_number' = manifest_file_number
      /\ descriptor' = descriptor /\ mem' = mem /\ imm' = imm /\ has_imm' = has_imm
      /\ logfile_number' = logfile_number /\ bg_error' = bg_error
      /\ pending_outputs' = pending_outputs \ {output}
      /\ output' = 0 /\ compaction' = compaction
      /\ todo' = todo /\ files_to_delete' = files_to_delete /\ iterator' = iterator
      /\ logs' = logs /\ manifests' = manifests /\ current' = current
      /\ pc = "building"
      /\ tables' = IF imm = {} THEN tables ELSE Put(tables, output, imm)
  BY DEF FlushBuilt, version, memory, history
<1>2. descriptor
  BY <1>1, UpByPhase
<1>3. UpNumbers /\ UpOutputs /\ UpManifest /\ UpDeletes /\ UpSequences /\ UpData
  BY <1>2, UpFacts
<1>4. /\ next_file_number \in Nat /\ last_sequence \in Nat /\ logfile_number \in Nat
      /\ logfile_number < next_file_number
  BY <1>2, CountersBound
<1>5. PICK n : n = output
  OBVIOUS
<1>6. Fresh(n) /\ n \in Nat /\ n \in pending_outputs /\ n # 0 /\ n < next_file_number /\ has_imm
      /\ (compaction # NoCompaction => n # compaction.output)
  BY <1>1, <1>3, <1>5 DEF UpOutputs, UpNumbers, Inv, MemoryTypes
<1>7. PICK a : a = IF imm = {} THEN {} ELSE {n}
  OBVIOUS
<1>8. PICK e : e = [NoEdit EXCEPT !.add = a, !.log = logfile_number]
  OBVIOUS
<1>9. e \in Edits /\ e.add = a /\ e.del = {} /\ e.log = logfile_number
  BY <1>4, <1>6, <1>7, <1>8 DEF Edits, NoEdit, Unset
<1>10. LogAndApply(e, "flush")
  BY <1>5, <1>7, <1>8 DEF FlushBuilt
<1>11. /\ edit' \in Edits /\ edit'.add = a /\ edit'.del = {} /\ edit'.log = logfile_number
       /\ edit'.next = next_file_number /\ edit'.seq = last_sequence
       /\ job' = "flush" /\ pc' = "append"
  <2>1. next_file_number' \in Nat
    BY <1>1, <1>4
  <2>2. /\ edit' \in Edits /\ edit'.add = e.add /\ edit'.del = e.del /\ edit'.log = e.log
        /\ edit'.next = next_file_number' /\ edit'.seq = last_sequence
        /\ job' = "flush" /\ pc' = "append"
    BY <1>4, <1>9, <1>10, <2>1, CountersAdded
  <2> QED
    BY <1>1, <1>9, <2>2
<1>12. /\ Quiet /\ \A t \in live \cup iterator : t \in DOMAIN tables' /\ tables'[t] = tables[t]
       /\ \A V : V \subseteq live => Holds(tables', V) = Holds(tables, V)
  <2>1. tables' = Put(tables, n, imm) \/ tables' = tables
    BY <1>1, <1>5
  <2> QED
    BY <1>1, <1>2, <1>6, <2>1, FreshTableIsQuiet
<1>13. imm \subseteq Updates
  BY DEF Inv, MemoryTypes
<1>14. DiskTypes'
  <2>1. TableFiles(tables, Updates)
    BY DEF Inv, DiskTypes
  <2>2. TableFiles(Put(tables, n, imm), Updates)
    BY <1>6, <1>13, <2>1, PutTable
  <2>3. TableFiles(tables', Updates)
    BY <1>1, <1>5, <2>1, <2>2
  <2>4. Updates' = Updates
    BY <1>1 DEF Updates
  <2> QED
    BY <1>1, <2>3, <2>4, Zenon DEF Inv, DiskTypes
<1>15. MemoryTypes'
  BY <1>1, <1>11 DEF Inv, MemoryTypes, Updates
<1>16. DiskInv' /\ UpSequences' /\ UpData' /\ Manifest' = Manifest /\ (Settled => Settled')
  BY <1>1, <1>2, <1>4, <1>12, QuietParts
<1>17. UpNumbers'
  BY <1>1, <1>3, <1>11, <1>12, <1>16 DEF UpNumbers
<1>18. UpManifest'
  BY <1>1, <1>3, <1>11, <1>16 DEF UpManifest
<1>19. UpOutputs'
  <2>1. compaction # NoCompaction => Fresh(compaction.output) /\ compaction.output \in pending_outputs
    BY <1>1, <1>3 DEF UpOutputs
  <2>2. compaction # NoCompaction => compaction.output \notin a /\ compaction.output # output
    BY <1>5, <1>6, <1>7
  <2> QED
    BY <1>1, <1>11, <1>16, <2>1, <2>2 DEF UpOutputs, Fresh
<1>20. UpDeletes'
  BY <1>1, <1>3, <1>11 DEF UpDeletes
<1>21. Holds(tables', a) = imm
  <2>1. CASE imm = {}
    BY <1>7, <2>1, HoldsUnion
  <2>2. CASE imm # {}
    <3>1. tables'[n] = imm
      BY <1>1, <1>5, <2>2 DEF Put
    <3> QED
      BY <1>7, <2>2, <3>1, HoldsOne
  <2> QED
    BY <2>1, <2>2
<1>22. UpEdit'
  <2>1. \A i \in imm : seq[i] <= last_sequence
    BY <1>3, Zenon DEF UpData, UpSequences
  <2>2. a \subseteq DOMAIN tables' /\ \A t \in a : t < next_file_number
    BY <1>1, <1>5, <1>6, <1>7 DEF Put
  <2>3. /\ edit'.add \subseteq DOMAIN tables' /\ edit'.del \subseteq DOMAIN tables'
        /\ \A t \in edit'.add : t < next_file_number
        /\ edit'.del \cap compaction'.inputs = {}
    BY <1>11, <2>2
  <2>4. Holds(tables', edit'.del) = {}
    BY <1>11, HoldsUnion
  <2>5. /\ Holds(tables', edit'.del) \subseteq Holds(tables', edit'.add)
        /\ \A i \in Holds(tables', edit'.add) : seq[i] <= last_sequence
        /\ imm' \subseteq Holds(tables', edit'.add)
        /\ Holds(tables', edit'.add) \subseteq Holds(tables', live') \cup imm'
    BY <1>1, <1>11, <1>21, <2>1, <2>4
  <2>6. has_imm' /\ edit'.log = logfile_number' /\ edit'.log \in Nat /\ edit'.log < next_file_number
    BY <1>1, <1>4, <1>6, <1>11
  <2> QED
    BY <1>1, <1>2, <1>11, <1>16, <2>3, <2>5, <2>6, NewEdit
<1>23. descriptor'
  BY <1>1, <1>2
<1> QED
  BY <1>14, <1>15, <1>16, <1>17, <1>18, <1>19, <1>20, <1>22, <1>23, UpStep

\* A compaction starts with tables of the current version.
LEMMA CompactionStartStep ==
  ASSUME Inv, CompactionStart
  PROVE  Inv'
<1>1. /\ seq' = seq /\ owed' = owed /\ durable' = durable /\ covered' = covered
      /\ last_sequence' = last_sequence /\ next_file_number' = next_file_number + 1
      /\ live' = live /\ log_number' = log_number /\ manifest_file_number' = manifest_file_number
      /\ descriptor' = descriptor /\ mem' = mem /\ imm' = imm /\ has_imm' = has_imm
      /\ logfile_number' = logfile_number /\ bg_error' = bg_error
      /\ pending_outputs' = pending_outputs \cup {next_file_number}
      /\ job' = job /\ edit' = edit /\ output' = output
      /\ todo' = todo /\ files_to_delete' = files_to_delete /\ iterator' = iterator
      /\ logs' = logs /\ manifests' = manifests /\ current' = current
      /\ pc = "idle" /\ pc' = "compacting"
      /\ tables' = Put(tables, next_file_number, {})
  BY DEF CompactionStart, MayCompact, version, memory, history
<1>2. PICK inputs \in (SUBSET live) \ {{}} : compaction' = [inputs |-> inputs, output |-> next_file_number]
  BY DEF CompactionStart
<1>3. descriptor
  BY <1>1, UpByPhase
<1>4. UpNumbers /\ UpManifest /\ UpDeletes
  BY <1>3, UpFacts
<1>5. next_file_number \in Nat /\ current < next_file_number /\ current \in Nat
  BY <1>3, CountersBound
<1>6. PICK n : n = next_file_number
  OBVIOUS
<1>7. Fresh(n)
  BY <1>1, <1>3, <1>6, NewNumberIsFresh
<1>8. /\ Quiet /\ \A t \in live \cup iterator : t \in DOMAIN tables' /\ tables'[t] = tables[t]
  <2>1. tables' = Put(tables, n, {})
    BY <1>1, <1>6
  <2> QED
    BY <1>1, <1>3, <1>7, <2>1, FreshTableIsQuiet
<1>9. DiskTypes'
  <2>1. TableFiles(tables, Updates)
    BY DEF Inv, DiskTypes
  <2>2. TableFiles(Put(tables, n, {}), Updates)
    BY <1>5, <1>6, <2>1, PutTable
  <2>3. TableFiles(tables', Updates)
    BY <1>1, <1>6, <2>2
  <2>4. Updates' = Updates
    BY <1>1 DEF Updates
  <2> QED
    BY <1>1, <2>3, <2>4, Zenon DEF Inv, DiskTypes
<1>10. MemoryTypes'
  <2>1. live \subseteq Nat
    BY DEF Inv, MemoryTypes
  <2>2. inputs \subseteq Nat
    BY <1>2, <2>1
  <2>3. compaction' \in [inputs : SUBSET Nat, output : Nat]
    BY <1>2, <1>5, <2>2
  <2> QED
    BY <1>1, <1>5, <2>3 DEF Inv, MemoryTypes, Updates
<1>11. DiskInv' /\ UpSequences' /\ UpData' /\ Manifest' = Manifest /\ (Settled => Settled')
  <2>1. next_file_number' \in Nat /\ next_file_number <= next_file_number'
    BY <1>1, <1>5
  <2> QED
    BY <1>1, <1>3, <1>8, <2>1, QuietParts
<1>12. UpNumbers'
  <2>1. \A m \in live \cup iterator \cup pending_outputs : m \in Nat /\ m < next_file_number
    BY <1>4 DEF UpNumbers, Inv, MemoryTypes
  <2>2. \A m \in DOMAIN logs : m \in Nat /\ m < next_file_number
    BY <1>4 DEF UpNumbers, Inv, DiskTypes, Directory
  <2>3. \A m \in Nat : m < next_file_number => m < next_file_number'
    BY <1>1, <1>5
  <2>4. \A m \in live' \cup iterator' \cup pending_outputs' : m < next_file_number'
    BY <1>1, <1>5, <2>1, <2>3
  <2>5. \A m \in DOMAIN logs' : m < next_file_number'
    BY <1>1, <2>2, <2>3
  <2>6. compaction'.inputs \subseteq live /\ compaction' # NoCompaction
    BY <1>2 DEF NoCompaction
  <2> QED
    BY <1>1, <1>4, <1>5, <1>8, <1>11, <2>4, <2>5, <2>6 DEF UpNumbers
<1>13. UpManifest'
  BY <1>1, <1>4, <1>11 DEF UpManifest
<1>14. UpOutputs'
  <2>1. compaction'.output = next_file_number /\ Fresh(next_file_number)
    BY <1>2, <1>6, <1>7
  <2> QED
    BY <1>1, <1>11, <2>1 DEF UpOutputs, Fresh
<1>15. UpDeletes'
  BY <1>1, <1>4 DEF UpDeletes
<1>16. UpEdit'
  BY <1>1 DEF UpEdit
<1>17. descriptor'
  BY <1>1, <1>3
<1> QED
  BY <1>9, <1>10, <1>11, <1>12, <1>13, <1>14, <1>15, <1>16, <1>17, UpStep

\* The output of a compaction holds all that its inputs hold.
LEMMA CompactionBuiltStep ==
  ASSUME Inv, CompactionBuilt
  PROVE  Inv'
<1>1. /\ seq' = seq /\ owed' = owed /\ durable' = durable /\ covered' = covered
      /\ last_sequence' = last_sequence /\ next_file_number' = next_file_number
      /\ live' = live /\ log_number' = log_number /\ manifest_file_number' = manifest_file_number
      /\ descriptor' = descriptor /\ mem' = mem /\ imm' = imm /\ has_imm' = has_imm
      /\ logfile_number' = logfile_number /\ bg_error' = bg_error
      /\ pending_outputs' = pending_outputs
      /\ output' = output /\ compaction' = compaction
      /\ todo' = todo /\ files_to_delete' = files_to_delete /\ iterator' = iterator
      /\ logs' = logs /\ manifests' = manifests /\ current' = current
      /\ pc = "compacting"
      /\ tables' = Put(tables, compaction.output, Contents(compaction.inputs))
  BY DEF CompactionBuilt, version, memory, history
<1>2. descriptor
  BY <1>1, UpByPhase
<1>3. UpNumbers /\ UpOutputs /\ UpManifest /\ UpDeletes /\ UpSequences
  BY <1>2, UpFacts
<1>4. /\ next_file_number \in Nat /\ last_sequence \in Nat /\ log_number \in Nat
      /\ log_number < next_file_number
  BY <1>2, CountersBound
<1>5. PICK n : n = compaction.output
  OBVIOUS
<1>6. Fresh(n) /\ n \in Nat /\ n \in pending_outputs /\ n # 0 /\ n < next_file_number
  BY <1>1, <1>3, <1>5 DEF UpOutputs, UpNumbers, Inv, MemoryTypes
<1>7. PICK b : b = compaction.inputs
  OBVIOUS
<1>8. b \subseteq live /\ b \subseteq Nat /\ live \subseteq DOMAIN tables
  BY <1>3, <1>7 DEF UpNumbers, Inv, MemoryTypes
<1>9. PICK e : e = [NoEdit EXCEPT !.add = {n}, !.del = b, !.log = log_number]
  OBVIOUS
<1>10. e \in Edits /\ e.add = {n} /\ e.del = b /\ e.log = log_number
  BY <1>4, <1>6, <1>8, <1>9 DEF Edits, NoEdit, Unset
<1>11. LogAndApply(e, "compact")
  BY <1>5, <1>7, <1>9 DEF CompactionBuilt, DefaultLogNumber
<1>12. /\ edit' \in Edits /\ edit'.add = {n} /\ edit'.del = b /\ edit'.log = log_number
       /\ edit'.next = next_file_number /\ edit'.seq = last_sequence
       /\ job' = "compact" /\ pc' = "append"
  <2>1. next_file_number' \in Nat
    BY <1>1, <1>4
  <2>2. /\ edit' \in Edits /\ edit'.add = e.add /\ edit'.del = e.del /\ edit'.log = e.log
        /\ edit'.next = next_file_number' /\ edit'.seq = last_sequence
        /\ job' = "compact" /\ pc' = "append"
    BY <1>4, <1>10, <1>11, <2>1, CountersAdded
  <2> QED
    BY <1>1, <1>10, <2>2
<1>13. tables' = Put(tables, n, Holds(tables, b))
  BY <1>1, <1>5, <1>7, Zenon DEF Contents, Holds
<1>14. /\ Quiet /\ \A t \in live \cup iterator : t \in DOMAIN tables' /\ tables'[t] = tables[t]
       /\ \A V : V \subseteq live => Holds(tables', V) = Holds(tables, V)
  BY <1>1, <1>2, <1>6, <1>13, FreshTableIsQuiet
<1>15. DiskTypes'
  <2>1. TableFiles(tables, Updates)
    BY DEF Inv, DiskTypes
  <2>2. Holds(tables, b) \subseteq Updates
    BY <1>8, <2>1, HoldsType
  <2>3. TableFiles(tables', Updates)
    BY <1>6, <1>13, <2>1, <2>2, PutTable
  <2>4. Updates' = Updates
    BY <1>1 DEF Updates
  <2> QED
    BY <1>1, <2>3, <2>4, Zenon DEF Inv, DiskTypes
<1>16. MemoryTypes'
  BY <1>1, <1>12 DEF Inv, MemoryTypes, Updates
<1>17. DiskInv' /\ UpSequences' /\ UpData' /\ Manifest' = Manifest /\ (Settled => Settled')
  BY <1>1, <1>2, <1>4, <1>14, QuietParts
<1>18. UpNumbers'
  BY <1>1, <1>3, <1>12, <1>14, <1>17 DEF UpNumbers
<1>19. UpManifest'
  BY <1>1, <1>3, <1>12, <1>17 DEF UpManifest
<1>20. UpOutputs'
  BY <1>12 DEF UpOutputs
<1>21. UpDeletes'
  BY <1>1, <1>3, <1>12 DEF UpDeletes
<1>22. /\ Holds(tables', {n}) = Holds(tables, b) /\ Holds(tables', b) = Holds(tables, b)
       /\ Holds(tables', live) = Holds(tables, live) /\ Holds(tables, b) \subseteq Holds(tables, live)
       /\ n \in DOMAIN tables'
  <2>1. tables'[n] = Holds(tables, b) /\ n \in DOMAIN tables'
    BY <1>13 DEF Put
  <2>2. Holds(tables', {n}) = Holds(tables, b)
    BY <2>1, HoldsOne
  <2>3. Holds(tables', b) = Holds(tables, b) /\ Holds(tables', live) = Holds(tables, live)
    BY <1>8, <1>14
  <2>4. Holds(tables, b) \subseteq Holds(tables, live)
    BY <1>8, HoldsUnion
  <2> QED
    BY <2>1, <2>2, <2>3, <2>4
<1>23. UpEdit'
  <2>1. \A i \in Holds(tables, b) : seq[i] <= last_sequence
    BY <1>3, <1>22, Zenon DEF UpSequences
  <2>2. b \subseteq DOMAIN tables'
    BY <1>8, <1>14
  <2>3. /\ edit'.add \subseteq DOMAIN tables' /\ edit'.del \subseteq DOMAIN tables'
        /\ \A t \in edit'.add : t < next_file_number
    BY <1>6, <1>12, <1>22, <2>2
  <2>4. /\ Holds(tables', edit'.del) \subseteq Holds(tables', edit'.add)
        /\ \A i \in Holds(tables', edit'.add) : seq[i] <= last_sequence
        /\ Holds(tables', edit'.add) \subseteq Holds(tables', live')
    BY <1>1, <1>12, <1>22, <2>1
  <2>5. edit'.log = log_number' /\ edit'.log \in Nat /\ edit'.log < next_file_number
    BY <1>1, <1>4, <1>12
  <2> QED
    BY <1>1, <1>2, <1>12, <1>17, <2>3, <2>4, <2>5, NewEdit
<1>24. descriptor'
  BY <1>1, <1>2
<1> QED
  BY <1>15, <1>16, <1>17, <1>18, <1>19, <1>20, <1>21, <1>23, <1>24, UpStep

\* Only files that no restart reads are deleted.
LEMMA RemoveFileStep ==
  ASSUME Inv, RemoveFile
  PROVE  Inv'
<1>1. PICK f \in files_to_delete :
          /\ logs' = Without(logs, IF f[1] = "log" THEN {f[2]} ELSE {})
          /\ tables' = Without(tables, IF f[1] = "table" THEN {f[2]} ELSE {})
          /\ manifests' = Without(manifests, IF f[1] = "manifest" THEN {f[2]} ELSE {})
          /\ Continue(files_to_delete \ {f}, compaction)
  BY Zenon DEF RemoveFile
<1>2. /\ seq' = seq /\ owed' = owed /\ durable' = durable /\ covered' = covered
      /\ last_sequence' = last_sequence /\ next_file_number' = next_file_number
      /\ live' = live /\ log_number' = log_number /\ manifest_file_number' = manifest_file_number
      /\ descriptor' = descriptor /\ mem' = mem /\ imm' = imm /\ has_imm' = has_imm
      /\ logfile_number' = logfile_number /\ bg_error' = bg_error
      /\ pending_outputs' = pending_outputs /\ edit' = edit
      /\ output' = output /\ compaction' = compaction /\ todo' = todo /\ iterator' = iterator
      /\ current' = current /\ pc = "delete"
  BY DEF RemoveFile, version, memory, history
<1>3. /\ files_to_delete' = files_to_delete \ {f} /\ job' \in {job, "none"}
      /\ pc' = IF files_to_delete \ {f} # {} THEN "delete"
               ELSE IF compaction = NoCompaction THEN "idle" ELSE "compacting"
  BY <1>1 DEF Continue
<1>4. descriptor
  BY <1>2, UpByPhase
<1>5. UpNumbers /\ UpDeletes /\ UpManifest /\ UpOutputs
  BY <1>4, UpFacts
<1>6. Settled
  BY <1>2, <1>5 DEF UpManifest
<1>7. /\ f[1] = "table" => f[2] \notin live \cup iterator \cup pending_outputs
      /\ f[1] = "log" => f[2] < log_number
      /\ f[1] = "manifest" => f[2] < current
      /\ f[2] \in Nat
  BY <1>5 DEF UpDeletes, Inv, MemoryTypes
<1>8. PICK a, b, c : /\ a = (IF f[1] = "log" THEN {f[2]} ELSE {}) /\ b = (IF f[1] = "table" THEN {f[2]} ELSE {})
                     /\ c = (IF f[1] = "manifest" THEN {f[2]} ELSE {})
  OBVIOUS
<1>9. logs' = Without(logs, a) /\ tables' = Without(tables, b) /\ manifests' = Without(manifests, c)
  BY <1>1, <1>8
<1>10. /\ \A n \in a : n \in Nat /\ n < log_number
       /\ b \cap (live \cup iterator) = {} /\ \A n \in c : n \in Nat /\ n < current
  BY <1>7, <1>8
<1>11. /\ log_number \in Nat /\ logfile_number \in Nat /\ current \in Nat /\ next_file_number \in Nat
       /\ current # 0 /\ log_number <= logfile_number
  BY <1>4, <1>5, CountersBound DEF UpNumbers
<1>12. /\ DOMAIN logs' = DOMAIN logs \ a /\ \A x \in DOMAIN logs' : logs'[x] = logs[x]
  BY <1>9 DEF Without
<1>13. /\ DOMAIN tables' = DOMAIN tables \ b /\ \A x \in DOMAIN tables' : tables'[x] = tables[x]
  BY <1>9 DEF Without
<1>14. /\ DOMAIN manifests' = DOMAIN manifests \ c /\ \A x \in DOMAIN manifests' : manifests'[x] = manifests[x]
  BY <1>9 DEF Without
<1>15. logfile_number \in DOMAIN logs' /\ logs'[logfile_number] = logs[logfile_number]
  <2>1. logfile_number \notin a
    BY <1>10, <1>11
  <2> QED
    BY <1>5, <1>12, <2>1 DEF UpNumbers
<1>16. live \cup iterator \subseteq DOMAIN tables' /\ \A t \in live : tables'[t] = tables[t]
  BY <1>5, <1>10, <1>13 DEF UpNumbers
<1>17. current \in DOMAIN manifests' /\ manifests'[current] = Manifest
  <2>1. current \in DOMAIN manifests
    BY <1>11, CurrentManifest
  <2>2. current \notin c
    BY <1>10, <1>11
  <2> QED
    BY <1>14, <2>1, <2>2 DEF Manifest
<1>18. /\ Points(Manifest) = {Len(Manifest.recs)} /\ VersionAt(Manifest, Len(Manifest.recs)) = live
       /\ Manifest.recs[Len(Manifest.recs)].log = log_number
  <2>1. /\ VersionAt(Manifest, Len(Manifest.recs)) = FinalVersion(Manifest)
        /\ FinalEdit(Manifest) = Manifest.recs[Len(Manifest.recs)] /\ Len(Manifest.recs) \in Nat
    BY <1>11, ManifestPoints
  <2> QED
    BY <1>6, <2>1 DEF Settled, Points
<1>19. Quiet
  <2>1. Recorded = live
    BY <1>18, Zenon DEF Recorded
  <2>2. TablesKept
    BY <1>16, <2>1 DEF TablesKept
  <2>3. DOMAIN logs \subseteq Nat
    BY DEF Inv, DiskTypes, Directory
  <2>4. SameLog(log_number)
    BY <1>9, <1>10, <1>11, <2>3, FewerLogs DEF SameLog
  <2>5. LogsKept
    BY <1>18, <2>4 DEF LogsKept
  <2> QED
    BY <1>2, <1>17, <2>2, <2>5 DEF Quiet
<1>20. DiskTypes'
  <2>1. Directory(logs', Updates)
    BY <1>9, RemovedFromDirectory DEF Inv, DiskTypes
  <2>2. Directory(manifests', Edits)
    BY <1>9, RemovedFromDirectory DEF Inv, DiskTypes
  <2>3. TableFiles(tables', Updates)
    BY <1>9, RemovedTables DEF Inv, DiskTypes
  <2>4. Updates' = Updates
    BY <1>2 DEF Updates
  <2> QED
    BY <1>2, <2>1, <2>2, <2>3, <2>4, Zenon DEF Inv, DiskTypes
<1>21. MemoryTypes'
  BY <1>2, <1>3 DEF Inv, MemoryTypes, Updates
<1>22. DiskInv' /\ UpSequences' /\ UpData' /\ Manifest' = Manifest /\ (Settled => Settled')
  <2>1. next_file_number' \in Nat /\ next_file_number <= next_file_number'
    BY <1>2, <1>11
  <2> QED
    BY <1>2, <1>4, <1>15, <1>19, <2>1, QuietParts
<1>23. UpNumbers'
  BY <1>2, <1>3, <1>5, <1>12, <1>15, <1>16, <1>22 DEF UpNumbers
<1>24. UpManifest'
  BY <1>3, <1>6, <1>22 DEF UpManifest
<1>25. UpOutputs'
  BY <1>2, <1>3, <1>5, <1>22 DEF UpOutputs, Fresh
<1>26. UpDeletes'
  BY <1>2, <1>3, <1>5 DEF UpDeletes
<1>27. UpEdit'
  BY <1>3 DEF UpEdit
<1>28. descriptor'
  BY <1>2, <1>4
<1> QED
  BY <1>20, <1>21, <1>22, <1>23, <1>24, <1>25, <1>26, <1>27, <1>28, UpStep

-----------------------------------------------------------------------------
(* Writers.                                                                 *)

LEMMA SwitchMemTableStep ==
  ASSUME Inv, SwitchMemTable
  PROVE  Inv'
<1>1. /\ seq' = seq /\ owed' = owed /\ durable' = durable /\ covered' = covered
      /\ last_sequence' = last_sequence /\ next_file_number' = next_file_number + 1
      /\ live' = live /\ log_number' = log_number /\ manifest_file_number' = manifest_file_number
      /\ descriptor' = descriptor /\ mem' = {} /\ imm' = mem /\ has_imm' = TRUE
      /\ logfile_number' = next_file_number /\ bg_error' \in BOOLEAN
      /\ pending_outputs' = pending_outputs /\ edit' = edit /\ job' = job /\ files_to_delete' = files_to_delete
      /\ output' = output /\ compaction' = compaction /\ todo' = todo /\ iterator' = iterator
      /\ current' = current /\ pc' = pc /\ tables' = tables /\ manifests' = manifests
      /\ logs' = Put(logs, next_file_number, NewWritableFile)
      /\ IsOpen /\ ~bg_error /\ ~has_imm
  BY DEF SwitchMemTable, version, thread, history, Inv, MemoryTypes
<1>2. descriptor
  BY <1>1, OpenIsUp
<1>3. UpNumbers /\ UpDeletes /\ UpManifest /\ UpOutputs /\ UpData /\ UpEdit
  BY <1>2, UpFacts
<1>4. /\ next_file_number \in Nat /\ log_number \in Nat /\ logfile_number \in Nat /\ current \in Nat
      /\ logfile_number < next_file_number /\ log_number < next_file_number /\ current < next_file_number
  BY <1>2, CountersBound
<1>5. PICK n : n = next_file_number
  OBVIOUS
<1>6. n \notin DOMAIN logs /\ n \in Nat /\ n # 0 /\ DOMAIN logs \subseteq Nat
  BY <1>3, <1>4, <1>5 DEF UpNumbers, Inv, DiskTypes, Directory
<1>7. /\ DOMAIN logs' = DOMAIN logs \cup {n} /\ logs'[n] = NewWritableFile
      /\ \A x \in DOMAIN logs : logs'[x] = logs[x]
  BY <1>1, <1>5, <1>6 DEF Put
<1>8. \A l : SameLog(l)
  BY <1>1, <1>5, <1>6, NewLog DEF SameLog
<1>9. Quiet
  <2>1. live \subseteq DOMAIN tables /\ Recorded \subseteq DOMAIN tables /\ current \in DOMAIN manifests
    BY <1>2, <1>3, UpFacts, FinalIsRecorded, CurrentManifest DEF UpNumbers
  <2>2. TablesKept
    BY <1>1, <2>1 DEF TablesKept
  <2>3. LogsKept
    BY <1>8, Zenon DEF LogsKept
  <2> QED
    BY <1>1, <2>1, <2>2, <2>3 DEF Quiet, Manifest
<1>10. DiskTypes'
  <2>1. Directory(logs', Updates)
    BY <1>1, <1>5, <1>6, NewFileIsWhole, PutInDirectory DEF Inv, DiskTypes
  <2>2. Updates' = Updates
    BY <1>1 DEF Updates
  <2> QED
    BY <1>1, <2>1, <2>2, Zenon DEF Inv, DiskTypes
<1>11. MemoryTypes'
  BY <1>1, <1>4 DEF Inv, MemoryTypes, Updates
<1>12. DiskInv' /\ Manifest' = Manifest /\ (Settled => Settled')
  BY <1>2, <1>9, QuietDisk, QuietSettled, UpFacts
<1>13. UpSequences'
  <2>1. /\ next_file_number' \in Nat /\ logfile_number' \in Nat
        /\ next_file_number <= next_file_number' /\ logfile_number <= logfile_number'
    BY <1>1, <1>4
  <2> QED
    BY <1>2, <1>9, <2>1, QuietSequences
<1>14. UpNumbers'
  <2>1. \A m \in live \cup iterator \cup pending_outputs : m \in Nat /\ m < next_file_number
    BY <1>3 DEF UpNumbers, Inv, MemoryTypes
  <2>2. \A m \in DOMAIN logs : m \in Nat /\ m < next_file_number
    BY <1>3, <1>6 DEF UpNumbers
  <2>3. \A m \in Nat : m < next_file_number => m < next_file_number'
    BY <1>1, <1>4
  <2>4. \A m \in live' \cup iterator' \cup pending_outputs' : m < next_file_number'
    BY <1>1, <2>1, <2>3
  <2>5. \A m \in DOMAIN logs' : m < next_file_number'
    BY <1>1, <1>4, <1>5, <1>7, <2>2, <2>3
  <2>6. logfile_number' \in DOMAIN logs' /\ logs'[logfile_number'].torn = {} /\ log_number' <= logfile_number'
    BY <1>1, <1>4, <1>5, <1>7, NewFileIsWhole
  <2> QED
    BY <1>1, <1>3, <1>12, <2>4, <2>5, <2>6 DEF UpNumbers
<1>15. UpData'
  <2>1. imm' \subseteq UpdatesIn(logs', log_number') /\ imm' \cap durable' \subseteq SyncedIn(logs', log_number')
    <3>1. /\ Records(logs[logfile_number]) \subseteq UpdatesIn(logs, log_number)
          /\ SyncedRecords(logs[logfile_number]) \subseteq SyncedIn(logs, log_number)
      <4>1. logfile_number >= log_number /\ logfile_number \in DOMAIN logs
        BY <1>3, <1>4 DEF UpNumbers
      <4> QED
        BY <4>1, InLog
    <3>2. mem \subseteq Records(logs[logfile_number]) /\ mem \cap durable \subseteq SyncedRecords(logs[logfile_number])
      BY <1>3 DEF UpData
    <3>3. UpdatesIn(logs', log_number) = UpdatesIn(logs, log_number) /\ SyncedIn(logs', log_number) = SyncedIn(logs, log_number)
      BY <1>8 DEF SameLog
    <3> QED
      BY <1>1, <3>1, <3>2, <3>3
  <2>2. /\ Holds(tables', live') = Holds(tables, live)
        /\ Holds(tables', FinalVersion(Manifest')) = Holds(tables, FinalVersion(Manifest))
    BY <1>1, <1>12
  <2>3. imm = {}
    BY <1>1, <1>3 DEF UpData
  <2>4. /\ owed' \subseteq mem' \cup imm' \cup Holds(tables', live')
        /\ owed' \subseteq mem' \cup imm' \cup Holds(tables', FinalVersion(Manifest'))
        /\ mem' \cap imm' = {} /\ Holds(tables', live') \cap (mem' \cup imm') = {}
    BY <1>1, <1>3, <2>2, <2>3 DEF UpData
  <2>5. mem' \subseteq Records(logs'[logfile_number']) /\ mem' \cap durable' \subseteq SyncedRecords(logs'[logfile_number'])
    BY <1>1
  <2>6. ~has_imm' => imm' = {}
    BY <1>1
  <2> QED
    BY <2>1, <2>4, <2>5, <2>6, Zenon DEF UpData
<1>16. UpManifest'
  BY <1>1, <1>3, <1>12 DEF UpManifest
<1>17. UpOutputs'
  BY <1>1, <1>3, <1>12 DEF UpOutputs, Fresh
<1>18. UpDeletes'
  BY <1>1, <1>3 DEF UpDeletes
<1>19. UpEdit'
  <2>1. SUFFICES ASSUME pc \in {"append", "sync"} PROVE EditSound'
    BY <1>1 DEF UpEdit
  <2>2. EditSound
    BY <1>3, <2>1 DEF UpEdit
  <2>3. job # "flush"
    BY <1>1, <2>2 DEF EditSound
  <2>4. edit.next <= next_file_number'
    <3>1. PICK x : x = edit.next
      OBVIOUS
    <3>2. x \in Nat /\ x <= next_file_number
      BY <2>2, <3>1, Zenon DEF EditSound
    <3> QED
      BY <1>1, <1>4, <3>1, <3>2
  <2>5. /\ job' \in {"flush", "compact", "move"}
        /\ edit'.add \cup edit'.del \subseteq DOMAIN tables'
        /\ Holds(tables', edit'.del) \subseteq Holds(tables', edit'.add)
        /\ edit'.next \in Nat /\ edit'.seq \in Nat /\ edit'.log \in Nat
        /\ edit'.next <= next_file_number' /\ edit'.seq <= last_sequence' /\ current' < edit'.next
        /\ edit'.log < edit'.next
    BY <1>1, <2>2, <2>4, Zenon DEF EditSound
  <2>6. /\ \A m \in edit'.add : m < edit'.next
        /\ \A i \in Holds(tables', edit'.add) : seq'[i] <= edit'.seq
        /\ job' # "flush"
        /\ edit'.log = log_number' /\ Holds(tables', edit'.add) \subseteq Holds(tables', live')
        /\ job' # "compact" => edit'.del \cap compaction'.inputs = {}
    BY <1>1, <2>2, <2>3, Zenon DEF EditSound
  <2>7. /\ pc' = "append" => FinalEdit(Manifest').next <= edit'.next /\ FinalEdit(Manifest').seq <= edit'.seq
        /\ pc' = "sync" => FinalEdit(Manifest') = edit'
    BY <1>1, <1>12, <2>2, Zenon DEF EditSound
  <2> QED
    BY <2>5, <2>6, <2>7, Zenon DEF EditSound
<1>20. descriptor'
  BY <1>1, <1>2
<1> QED
  BY <1>10, <1>11, <1>12, <1>13, <1>14, <1>15, <1>16, <1>17, <1>18, <1>19, <1>20, UpStep

\* The next sequence number is larger than those of the updates in U.
LEMMA SequenceGrows ==
  ASSUME NEW q \in Seq(Nat), NEW U, U \subseteq 1 .. Len(q), NEW s \in Nat, \A i \in U : q[i] <= s,
         NEW W, W \subseteq U \cup {Len(q) + 1}
  PROVE  /\ \A i \in W : Append(q, s + 1)[i] <= s + 1
         /\ Ordered(q, U) => Ordered(Append(q, s + 1), W)
<1> DEFINE t == Append(q, s + 1)
           r == Len(q) + 1
<1>1. Len(q) \in Nat /\ t[r] = s + 1 /\ \A i \in 1 .. Len(q) : t[i] = q[i] /\ q[i] \in Nat
  OBVIOUS
<1> HIDE DEF t
<1>2. \A i \in U : i \in 1 .. Len(q) /\ t[i] = q[i] /\ q[i] \in Nat /\ q[i] < s + 1
  BY <1>1
<1>3. \A i \in W : t[i] <= s + 1
  BY <1>1, <1>2
<1>4. ASSUME Ordered(q, U), NEW i \in W, NEW j \in W, i < j PROVE t[i] < t[j]
  <2>1. i \in U
    BY <1>1, <1>2, <1>4
  <2>2. CASE j = r
    BY <1>1, <1>2, <2>1, <2>2
  <2>3. CASE j \in U
    BY <1>2, <1>4, <2>1, <2>3 DEF Ordered
  <2> QED
    BY <2>2, <2>3
<1> QED
  BY <1>3, <1>4 DEF Ordered, t

\* Update r is appended to the log, whether or not it is acknowledged.
LEMMA WriteEffect ==
  ASSUME Inv, descriptor, NEW r, r = Len(seq) + 1, NEW g, logs' = Put(logs, logfile_number, g),
         WholeFile(g, 1 .. r), g.torn = {}, Records(g) = Records(logs[logfile_number]) \cup {r},
         SyncedRecords(logs[logfile_number]) \subseteq SyncedRecords(g),
         last_sequence' = last_sequence + 1, seq' = Append(seq, last_sequence + 1),
         mem' \subseteq mem \cup {r}, mem \subseteq mem', owed' \subseteq owed \cup {r}, r \in owed' => r \in mem',
         durable' \subseteq durable \cup {r}, r \in durable' => r \in SyncedRecords(g),
         covered' \subseteq covered \cup owed, bg_error' \in BOOLEAN, bg_error => bg_error',
         UNCHANGED <<tables, manifests, current, version, next_file_number, imm, has_imm, logfile_number,
                     pending_outputs, iterator, thread>>
  PROVE  Inv'
<1>1. /\ next_file_number' = next_file_number
      /\ live' = live /\ log_number' = log_number /\ manifest_file_number' = manifest_file_number
      /\ descriptor' = descriptor /\ imm' = imm /\ has_imm' = has_imm
      /\ logfile_number' = logfile_number
      /\ pending_outputs' = pending_outputs /\ edit' = edit /\ job' = job /\ files_to_delete' = files_to_delete
      /\ output' = output /\ compaction' = compaction /\ todo' = todo /\ iterator' = iterator
      /\ current' = current /\ pc' = pc /\ tables' = tables /\ manifests' = manifests
  BY DEF version, thread
<1>2. UpNumbers /\ UpDeletes /\ UpManifest /\ UpOutputs /\ UpData /\ UpEdit /\ UpSequences /\ current # 0
  BY UpFacts
<1>3. /\ next_file_number \in Nat /\ log_number \in Nat /\ logfile_number \in Nat /\ current \in Nat
      /\ last_sequence \in Nat /\ seq \in Seq(Nat) /\ Len(seq) \in Nat
  BY CountersBound DEF Inv, MemoryTypes
<1>4. PICK n : n = logfile_number
  OBVIOUS
<1>5. n \in DOMAIN logs /\ log_number <= n /\ n \in Nat /\ Directory(logs, Updates) /\ n # 0
  BY <1>2, <1>3, <1>4 DEF UpNumbers, Inv, DiskTypes, Directory
<1>6. /\ DOMAIN logs' = DOMAIN logs /\ logs'[n] = g
  BY <1>4, <1>5 DEF Put
<1>7. PICK f : f = Manifest
  OBVIOUS
<1>8. Manifest' = f
  BY <1>1, <1>7 DEF Manifest
<1>9. Updates = 1 .. Len(seq) /\ Updates' = 1 .. r /\ r \in Nat /\ r \notin Updates /\ Within(Updates, 1 .. r)
  BY <1>3 DEF Updates, Within
<1>10. \A l : /\ UpdatesIn(logs', l) \subseteq UpdatesIn(logs, l) \cup {r}
              /\ UpdatesIn(logs, l) \subseteq UpdatesIn(logs', l)
              /\ SyncedIn(logs, l) \subseteq SyncedIn(logs', l)
              /\ n >= l => r \in UpdatesIn(logs', l)
              /\ n >= l /\ r \in SyncedRecords(g) => r \in SyncedIn(logs', l)
  <2>1. Longer(logs[n], g, r) /\ logs' = Put(logs, n, g)
    BY <1>4 DEF Longer
  <2>2. \A l : LogGrows(logs, Put(logs, n, g), n, g, r, l)
    BY <1>5, <2>1, LongerLog
  <2> QED
    BY <2>1, <2>2, Zenon DEF LogGrows
<1>11. \A l : UpdatesIn(logs, l) \subseteq 1 .. Len(seq)
  BY <1>5, <1>9, UpdatesInType
<1>12. owed \subseteq Updates /\ durable \subseteq Updates /\ covered \subseteq Updates /\ mem \subseteq Updates
       /\ imm \subseteq Updates
  BY DEF Inv, MemoryTypes
<1>13. \A V : V \subseteq DOMAIN tables => Holds(tables, V) \subseteq 1 .. Len(seq)
  BY <1>9, HoldsType DEF Inv, DiskTypes
<1>14. DiskTypes'
  <2>1. Directory(logs, 1 .. r) /\ TableFiles(tables, 1 .. r)
    BY <1>9, WiderDirectory, WiderTables DEF Inv, DiskTypes
  <2>2. Directory(logs', 1 .. r)
    BY <1>4, <1>5, <2>1, PutInDirectory
  <2> QED
    BY <1>1, <1>9, <2>1, <2>2, Zenon DEF Inv, DiskTypes
<1>15. MemoryTypes'
  <2>1. r \in 1 .. r /\ 1 .. Len(seq) \subseteq 1 .. r
    BY <1>3
  <2>2. mem' \subseteq Updates' /\ imm' \subseteq Updates' /\ owed' \subseteq Updates' /\ durable' \subseteq Updates'
        /\ covered' \subseteq Updates'
    BY <1>1, <1>9, <1>12, <2>1
  <2>3. seq' \in Seq(Nat) /\ last_sequence' \in Nat
    BY <1>3
  <2> QED
    BY <1>1, <2>2, <2>3 DEF Inv, MemoryTypes
<1>16. DiskInv'
  <2>1. Restarts(tables, logs, seq, owed, durable, current, f) /\ current \in DOMAIN manifests
    BY <1>2, <1>7, CurrentManifest
  <2>2. ASSUME NEW k \in Points(f),
               Restart(tables, logs, seq, owed, durable, VersionAt(f, k), f.recs[k].log, f.recs[k].next, f.recs[k].seq)
        PROVE  Restart(tables, logs', seq', owed', durable', VersionAt(f, k), f.recs[k].log, f.recs[k].next, f.recs[k].seq)
    <3>1. PICK V, l, nx, s : V = VersionAt(f, k) /\ l = f.recs[k].log /\ nx = f.recs[k].next /\ s = f.recs[k].seq
      OBVIOUS
    <3>2. Restart(tables, logs, seq, owed, durable, V, l, nx, s)
      BY <2>2, <3>1
    <3>3. s \in Nat /\ V \subseteq DOMAIN tables /\ l \in Nat
      BY <3>2, Zenon DEF Restart
    <3>4. s <= last_sequence /\ l <= n /\ \A i \in UpdatesIn(logs, l) : seq[i] <= last_sequence
      BY <1>2, <1>4, <1>7, <2>2, <3>1, Zenon DEF UpSequences
    <3>5. PICK x : x = last_sequence + 1
      OBVIOUS
    <3>6. x \in Nat /\ s < x /\ n >= l
      BY <1>3, <1>5, <3>3, <3>4, <3>5
    <3>7. UpdatesIn(logs, l) \subseteq 1 .. Len(seq) /\ Holds(tables, V) \subseteq 1 .. Len(seq)
      BY <1>11, <1>13, <3>3
    <3>8. \A i \in UpdatesIn(logs, l) : seq[i] < x
      BY <1>3, <3>4, <3>5, <3>7
    <3>9. /\ UpdatesIn(logs', l) \subseteq UpdatesIn(logs, l) \cup {r}
          /\ UpdatesIn(logs, l) \subseteq UpdatesIn(logs', l)
          /\ SyncedIn(logs, l) \subseteq SyncedIn(logs', l)
          /\ r \in UpdatesIn(logs', l)
          /\ r \in durable' => r \in SyncedIn(logs', l)
      BY <1>10, <3>6
    <3>10. owed \subseteq 1 .. Len(seq) /\ durable \subseteq 1 .. Len(seq)
      BY <1>9, <1>12
    <3>11. Restart(tables, logs', Append(seq, x), owed', durable', V, l, nx, s)
      <4>1. Appended(seq, UpdatesIn(logs, l), UpdatesIn(logs', l), SyncedIn(logs, l), SyncedIn(logs', l),
                     owed, owed', durable, durable', s, x)
        BY <3>6, <3>7, <3>8, <3>9, <3>10 DEF Appended
      <4>2. Within(Holds(tables, V), 1 .. Len(seq))
        BY <3>7 DEF Within
      <4> QED
        BY <1>3, <3>2, <3>6, <4>1, <4>2, RestartWrite
    <3> QED
      BY <3>1, <3>5, <3>11
  <2>3. Restarts(tables, logs', seq', owed', durable', current, f)
    BY <2>1, <2>2, RestartsMap
  <2> QED
    BY <1>1, <1>2, <1>8, <2>1, <2>3 DEF DiskInv
<1>17. UpNumbers'
  BY <1>1, <1>2, <1>4, <1>6, <1>7, <1>8 DEF UpNumbers
<1>18. UpSequences'
  <2>1. FinalVersion(f) \subseteq DOMAIN tables /\ live \subseteq DOMAIN tables
    BY <1>2, <1>7, FinalIsRecorded DEF UpNumbers
  <2> DEFINE A == Holds(tables, live)
             B == Holds(tables, FinalVersion(f))
             C == UpdatesIn(logs, log_number)
             D == UpdatesIn(logs', log_number)
  <2>2. A \subseteq 1 .. Len(seq) /\ B \subseteq 1 .. Len(seq) /\ C \subseteq 1 .. Len(seq) /\ D \subseteq C \cup {r}
    BY <1>10, <1>11, <1>13, <2>1
  <2>3. \A i \in A \cup C : seq[i] <= last_sequence
    BY <1>2, Zenon DEF UpSequences
  <2>4. \A i \in B : seq[i] <= last_sequence
    <3>1. PICK s : s = FinalEdit(f).seq
      OBVIOUS
    <3>2. s \in Nat /\ s <= last_sequence
      BY <1>7, <3>1, CountersBound
    <3>3. \A i \in B : seq[i] <= s
      <4>1. Restart(tables, logs, seq, owed, durable, FinalVersion(f), FinalEdit(f).log, FinalEdit(f).next, FinalEdit(f).seq)
        BY <1>2, <1>7, CurrentManifest, RestartsFinal
      <4> QED
        BY <3>1, <4>1, Zenon DEF Restart
    <3> QED
      BY <1>3, <2>2, <3>2, <3>3
  <2>5. Ordered(seq, A \cup B \cup C)
    BY <1>2, <1>7, Zenon DEF UpSequences
  <2> HIDE DEF A, B, C, D
  <2>6. PICK U : U = A \cup B \cup C
    OBVIOUS
  <2>7. PICK W : W = A \cup B \cup D
    OBVIOUS
  <2>8. U \subseteq 1 .. Len(seq) /\ W \subseteq U \cup {Len(seq) + 1} /\ Ordered(seq, U)
        /\ \A i \in U : seq[i] <= last_sequence
    BY <2>2, <2>3, <2>4, <2>5, <2>6, <2>7
  <2>9. (\A i \in W : seq'[i] <= last_sequence + 1) /\ Ordered(seq', W)
    BY <1>3, <2>8, SequenceGrows
  <2>10. /\ \A i \in Holds(tables', live') \cup UpdatesIn(logs', log_number') : seq'[i] <= last_sequence'
         /\ Ordered(seq', Holds(tables', live') \cup Holds(tables', FinalVersion(Manifest')) \cup UpdatesIn(logs', log_number'))
    BY <1>1, <1>8, <2>7, <2>9 DEF A, B, D
  <2>11. ASSUME NEW k \in Points(f)
         PROVE  /\ f.recs[k].seq <= last_sequence' /\ f.recs[k].next <= next_file_number'
                /\ f.recs[k].log <= logfile_number'
                /\ \A i \in UpdatesIn(logs', f.recs[k].log) : seq'[i] <= last_sequence'
    <3>1. PICK l, s, nx : l = f.recs[k].log /\ s = f.recs[k].seq /\ nx = f.recs[k].next
      OBVIOUS
    <3>2. s <= last_sequence /\ l <= n /\ nx <= next_file_number /\ \A i \in UpdatesIn(logs, l) : seq[i] <= last_sequence
      BY <1>2, <1>4, <1>7, <2>11, <3>1, Zenon DEF UpSequences
    <3>3. s \in Nat
      BY <1>2, <1>7, <2>11, <3>1, ManifestPoints, Zenon DEF Restart
    <3>4. s <= last_sequence'
      BY <1>3, <3>2, <3>3
    <3>5. UpdatesIn(logs, l) \subseteq 1 .. Len(seq) /\ UpdatesIn(logs', l) \subseteq UpdatesIn(logs, l) \cup {Len(seq) + 1}
      BY <1>10, <1>11
    <3>6. \A i \in UpdatesIn(logs', l) : seq'[i] <= last_sequence'
      BY <1>3, <3>2, <3>5, SequenceGrows
    <3> QED
      BY <1>1, <1>4, <3>1, <3>2, <3>4, <3>6, Zenon
  <2> QED
    BY <1>8, <2>10, <2>11, Zenon DEF UpSequences
<1>19. UpData'
  <2>1. mem' \subseteq Records(logs'[logfile_number']) /\ mem' \cap durable' \subseteq SyncedRecords(logs'[logfile_number'])
    <3>1. mem \subseteq Records(logs[logfile_number]) /\ mem \cap durable \subseteq SyncedRecords(logs[logfile_number])
      BY <1>2 DEF UpData
    <3>2. r \notin mem
      BY <1>9, <1>12
    <3>3. mem' \subseteq Records(g) /\ mem' \cap durable' \subseteq SyncedRecords(g)
      BY <3>1, <3>2
    <3> QED
      BY <1>1, <1>4, <1>6, <3>3
  <2>2. imm' \subseteq UpdatesIn(logs', log_number') /\ imm' \cap durable' \subseteq SyncedIn(logs', log_number')
    <3>1. r \notin imm
      BY <1>9, <1>12
    <3>2. imm \subseteq UpdatesIn(logs, log_number) /\ imm \cap durable \subseteq SyncedIn(logs, log_number)
      BY <1>2 DEF UpData
    <3> QED
      BY <1>1, <1>10, <3>1, <3>2
  <2>3. r \notin Holds(tables, live) /\ r \notin imm
    <3>1. live \subseteq DOMAIN tables
      BY <1>2 DEF UpNumbers
    <3> QED
      BY <1>9, <1>12, <1>13, <3>1
  <2>4. /\ owed' \subseteq mem' \cup imm' \cup Holds(tables', live')
        /\ owed' \subseteq mem' \cup imm' \cup Holds(tables', FinalVersion(Manifest'))
        /\ mem' \cap imm' = {} /\ Holds(tables', live') \cap (mem' \cup imm') = {}
        /\ ~has_imm' => imm' = {}
    BY <1>1, <1>2, <1>7, <1>8, <2>3 DEF UpData
  <2> QED
    BY <2>1, <2>2, <2>4, Zenon DEF UpData
<1>20. UpManifest'
  BY <1>1, <1>2, <1>7, <1>8 DEF UpManifest, Settled
<1>21. UpOutputs'
  BY <1>1, <1>2, <1>7, <1>8 DEF UpOutputs, Fresh
<1>22. UpDeletes'
  BY <1>1, <1>2 DEF UpDeletes
<1>23. UpEdit'
  <2>1. SUFFICES ASSUME pc \in {"append", "sync"} PROVE EditSound'
    BY <1>1 DEF UpEdit
  <2>2. EditSound
    BY <1>2, <2>1 DEF UpEdit
  <2>3. edit.seq <= last_sequence'
    <3>1. PICK x : x = edit.seq
      OBVIOUS
    <3>2. x \in Nat /\ x <= last_sequence
      BY <2>2, <3>1, Zenon DEF EditSound
    <3> QED
      BY <1>3, <3>1, <3>2
  <2>4. \A i \in Holds(tables, edit.add) : seq'[i] <= edit.seq
    <3>1. edit.add \subseteq DOMAIN tables /\ \A i \in Holds(tables, edit.add) : seq[i] <= edit.seq
      BY <2>2 DEF EditSound
    <3>2. Holds(tables, edit.add) \subseteq 1 .. Len(seq)
      BY <1>13, <3>1
    <3>3. \A i \in 1 .. Len(seq) : seq'[i] = seq[i]
      BY <1>3
    <3> QED
      BY <3>1, <3>2, <3>3
  <2>5. /\ job' \in {"flush", "compact", "move"}
        /\ edit'.add \cup edit'.del \subseteq DOMAIN tables'
        /\ Holds(tables', edit'.del) \subseteq Holds(tables', edit'.add)
        /\ edit'.next \in Nat /\ edit'.seq \in Nat /\ edit'.log \in Nat
        /\ edit'.next <= next_file_number' /\ edit'.seq <= last_sequence' /\ current' < edit'.next
        /\ edit'.log < edit'.next
    BY <1>1, <2>2, <2>3, Zenon DEF EditSound
  <2>6. /\ \A m \in edit'.add : m < edit'.next
        /\ \A i \in Holds(tables', edit'.add) : seq'[i] <= edit'.seq
        /\ job' # "flush" => edit'.log = log_number' /\ Holds(tables', edit'.add) \subseteq Holds(tables', live')
        /\ job' # "compact" => edit'.del \cap compaction'.inputs = {}
    BY <1>1, <2>2, <2>4, Zenon DEF EditSound
  <2>7. job' = "flush" => /\ has_imm' /\ edit'.log = logfile_number'
                          /\ imm' \subseteq Holds(tables', edit'.add)
                          /\ Holds(tables', edit'.add) \subseteq Holds(tables', live') \cup imm'
    BY <1>1, <2>2 DEF EditSound
  <2>8. /\ pc' = "append" => FinalEdit(Manifest').next <= edit'.next /\ FinalEdit(Manifest').seq <= edit'.seq
        /\ pc' = "sync" => FinalEdit(Manifest') = edit'
    BY <1>1, <1>7, <1>8, <2>2, Zenon DEF EditSound
  <2> QED
    BY <2>5, <2>6, <2>7, <2>8, Zenon DEF EditSound
<1>24. descriptor'
  BY <1>1
<1> QED
  BY <1>14, <1>15, <1>16, <1>17, <1>18, <1>19, <1>20, <1>21, <1>22, <1>23, <1>24, UpStep

\* The file after the record.
LEMMA WrittenFile ==
  ASSUME Inv, descriptor
  PROVE  LET r == Len(seq) + 1
             f == logs[logfile_number]
             g == AddRecord(f, r)
         IN  /\ WholeFile(g, 1 .. r) /\ WholeFile(Sync(g), 1 .. r) /\ g.torn = {} /\ Sync(g).torn = {}
             /\ Records(g) = Records(f) \cup {r} /\ Records(Sync(g)) = Records(f) \cup {r}
             /\ SyncedRecords(f) \subseteq SyncedRecords(g) /\ SyncedRecords(f) \subseteq SyncedRecords(Sync(g))
             /\ r \in SyncedRecords(Sync(g))
<1>1. PICK r : r = Len(seq) + 1
  OBVIOUS
<1>2. PICK f : f = logs[logfile_number]
  OBVIOUS
<1>3. Len(seq) \in Nat
  BY DEF Inv, MemoryTypes
<1>4. r \in 1 .. r /\ Within(Updates, 1 .. r)
  BY <1>1, <1>3 DEF Updates, Within
<1>5. WholeFile(f, Updates) /\ f.torn = {}
  BY <1>2, UpFacts DEF UpNumbers, Inv, DiskTypes, Directory
<1>6. PICK g : g = AddRecord(f, r)
  OBVIOUS
<1>7. WholeFile(g, 1 .. r) /\ g.torn = {} /\ Records(g) = Records(f) \cup {r} /\ SyncedRecords(g) = SyncedRecords(f)
  BY <1>4, <1>5, <1>6, AddedRecord
<1>8. WholeFile(Sync(g), 1 .. r) /\ Sync(g).torn = {} /\ Records(Sync(g)) = Records(g) /\ SyncedRecords(Sync(g)) = Records(g)
  BY <1>7, SyncedFile
<1>9. SyncedRecords(f) \subseteq Records(f)
  BY <1>5, SyncedAreRecords
<1> QED
  BY <1>1, <1>2, <1>6, <1>7, <1>8, <1>9, Zenon

\* A write has its record in the newest log before it is acknowledged.
LEMMA WriteStep ==
  ASSUME Inv, NEW sync \in BOOLEAN, Write(sync)
  PROVE  Inv'
<1>1. descriptor /\ bg_error \in BOOLEAN
  BY OpenIsUp DEF Write, MayWrite, Inv, MemoryTypes
<1>2. PICK r : r = Len(seq) + 1
  OBVIOUS
<1>3. PICK h : h = AddRecord(logs[logfile_number], r)
  OBVIOUS
<1>4. PICK g : g = IF sync THEN Sync(h) ELSE h
  OBVIOUS
<1>5. /\ logs' = Put(logs, logfile_number, g)
      /\ last_sequence' = last_sequence + 1 /\ seq' = Append(seq, last_sequence + 1)
      /\ mem' = mem \cup {r} /\ owed' = owed \cup {r} /\ durable' = durable \cup (IF sync THEN {r} ELSE {})
      /\ covered' = covered \cup (IF sync THEN owed ELSE {}) /\ bg_error' = bg_error
      /\ UNCHANGED <<tables, manifests, current, version, next_file_number, imm, has_imm, logfile_number,
                     pending_outputs, iterator, thread>>
  BY <1>2, <1>3, <1>4 DEF Write, Logged
<1>6. /\ WholeFile(h, 1 .. r) /\ WholeFile(Sync(h), 1 .. r) /\ h.torn = {} /\ Sync(h).torn = {}
      /\ Records(h) = Records(logs[logfile_number]) \cup {r} /\ Records(Sync(h)) = Records(logs[logfile_number]) \cup {r}
      /\ SyncedRecords(logs[logfile_number]) \subseteq SyncedRecords(h)
      /\ SyncedRecords(logs[logfile_number]) \subseteq SyncedRecords(Sync(h))
      /\ r \in SyncedRecords(Sync(h))
  BY <1>1, <1>2, <1>3, WrittenFile, Zenon
<1>7. /\ WholeFile(g, 1 .. r) /\ g.torn = {}
      /\ Records(g) = Records(logs[logfile_number]) \cup {r}
      /\ SyncedRecords(logs[logfile_number]) \subseteq SyncedRecords(g)
      /\ sync => r \in SyncedRecords(g)
  <2>1. CASE sync
    BY <1>4, <1>6, <2>1, Zenon
  <2>2. CASE ~sync
    BY <1>4, <1>6, <2>2, Zenon
  <2> QED
    BY <2>1, <2>2
<1>8. r \notin durable
  <2>1. durable \subseteq 1 .. Len(seq) /\ Len(seq) \in Nat
    BY DEF Inv, MemoryTypes, Updates
  <2> QED
    BY <1>2, <2>1
<1>9. /\ mem' \subseteq mem \cup {r} /\ mem \subseteq mem' /\ owed' \subseteq owed \cup {r}
      /\ (r \in owed' => r \in mem') /\ durable' \subseteq durable \cup {r}
      /\ (r \in durable' => r \in SyncedRecords(g))
      /\ covered' \subseteq covered \cup owed
  BY <1>5, <1>7, <1>8
<1>10. bg_error' \in BOOLEAN /\ (bg_error => bg_error')
  BY <1>1, <1>5
<1> QED
  BY <1>1, <1>2, <1>5, <1>7, <1>9, <1>10, WriteEffect

\* A write whose sync failed is in the log and not owed.
LEMMA WriteSyncFailsStep ==
  ASSUME Inv, WriteSyncFails
  PROVE  Inv'
<1>1. descriptor
  BY OpenIsUp DEF WriteSyncFails, MayWrite
<1>2. PICK r : r = Len(seq) + 1
  OBVIOUS
<1>3. PICK g : g = AddRecord(logs[logfile_number], r)
  OBVIOUS
<1>4. /\ logs' = Put(logs, logfile_number, g)
      /\ last_sequence' = last_sequence + 1 /\ seq' = Append(seq, last_sequence + 1)
      /\ mem' = mem /\ owed' = owed /\ durable' = durable /\ covered' = covered /\ bg_error' = TRUE
      /\ UNCHANGED <<tables, manifests, current, version, next_file_number, imm, has_imm, logfile_number,
                     pending_outputs, iterator, thread>>
  BY <1>2, <1>3 DEF WriteSyncFails, Logged, memory
<1>5. /\ WholeFile(g, 1 .. r) /\ g.torn = {}
      /\ Records(g) = Records(logs[logfile_number]) \cup {r}
      /\ SyncedRecords(logs[logfile_number]) \subseteq SyncedRecords(g)
  BY <1>1, <1>2, <1>3, WrittenFile, Zenon
<1>6. r \notin durable /\ r \notin owed
  <2>1. durable \subseteq 1 .. Len(seq) /\ owed \subseteq 1 .. Len(seq) /\ Len(seq) \in Nat
    BY DEF Inv, MemoryTypes, Updates
  <2> QED
    BY <1>2, <2>1
<1>7. /\ mem' \subseteq mem \cup {r} /\ mem \subseteq mem' /\ owed' \subseteq owed \cup {r}
      /\ (r \in owed' => r \in mem') /\ durable' \subseteq durable \cup {r}
      /\ (r \in durable' => r \in SyncedRecords(g))
      /\ covered' \subseteq covered \cup owed
  BY <1>4, <1>6
<1>8. bg_error' \in BOOLEAN /\ (bg_error => bg_error')
  BY <1>4
<1> QED
  BY <1>1, <1>2, <1>4, <1>5, <1>7, <1>8, WriteEffect

\* The tables after the edit.
LEMMA EditedVersion ==
  ASSUME Inv, descriptor, pc = "append",
         NEW W, W = (FinalVersion(Manifest) \ edit.del) \cup edit.add
  PROVE  /\ Holds(tables, FinalVersion(Manifest)) \subseteq Holds(tables, W)
         /\ Holds(tables, W) \subseteq Holds(tables, FinalVersion(Manifest)) \cup Holds(tables, live) \cup UpdatesIn(logs, log_number)
         /\ log_number <= edit.log /\ edit.log <= logfile_number /\ edit.log \in Nat
         /\ Restart(tables, logs, seq, owed, durable, W, edit.log, edit.next, edit.seq)
<1>1. UpNumbers /\ UpData /\ EditSound /\ UpSequences /\ current # 0
  BY UpFacts DEF UpEdit
<1>2. PICK V : V = FinalVersion(Manifest)
  OBVIOUS
<1>3. PICK a, d : a = edit.add /\ d = edit.del
  OBVIOUS
<1>4. PICK l, nx, s : l = edit.log /\ nx = edit.next /\ s = edit.seq
  OBVIOUS
<1>5. PICK b : b = FinalEdit(Manifest)
  OBVIOUS
<1>6. /\ a \subseteq DOMAIN tables /\ d \subseteq DOMAIN tables /\ Holds(tables, d) \subseteq Holds(tables, a)
      /\ nx \in Nat /\ s \in Nat /\ l \in Nat /\ l < nx
      /\ (\A n \in a : n < nx) /\ (\A i \in Holds(tables, a) : seq[i] <= s)
      /\ b.next <= nx /\ b.seq <= s
  BY <1>1, <1>3, <1>4, <1>5 DEF EditSound
<1>7. Restart(tables, logs, seq, owed, durable, V, b.log, b.next, b.seq)
  BY <1>1, <1>2, <1>5, CurrentManifest, RestartsFinal
<1>8. /\ V \subseteq DOMAIN tables /\ (\A n \in V : n < b.next) /\ (\A i \in Holds(tables, V) : seq[i] <= b.seq)
      /\ b.next \in Nat /\ b.seq \in Nat
  BY <1>7, Zenon DEF Restart
<1>9. /\ log_number \in Nat /\ logfile_number \in Nat /\ log_number <= logfile_number
      /\ logfile_number \in DOMAIN logs /\ DOMAIN logs \subseteq Nat /\ DOMAIN tables \subseteq Nat /\ seq \in Seq(Nat)
  BY <1>1 DEF UpNumbers, Inv, MemoryTypes, DiskTypes, Directory, TableFiles
<1>10. log_number <= l /\ l <= logfile_number
  <2>1. l = logfile_number \/ l = log_number
    BY <1>1, <1>4 DEF EditSound
  <2> QED
    BY <1>9, <2>1
<1>11. W = (V \ d) \cup a
  BY <1>2, <1>3
<1>12. Holds(tables, V) \subseteq Holds(tables, W)
  BY <1>6, <1>11, Zenon DEF Holds
<1>13. Holds(tables, W) \subseteq Holds(tables, V) \cup Holds(tables, a) /\ Holds(tables, a) \subseteq Holds(tables, W)
  BY <1>11, Zenon DEF Holds
<1>14. imm \subseteq UpdatesIn(logs, log_number) /\ imm \cap durable \subseteq SyncedIn(logs, log_number)
  BY <1>1 DEF UpData
<1>15. Holds(tables, a) \subseteq Holds(tables, live) \cup UpdatesIn(logs, log_number)
  <2>1. Holds(tables, a) \subseteq Holds(tables, live) \cup imm
    BY <1>1, <1>3 DEF EditSound
  <2> QED
    BY <1>14, <2>1
<1>16. W \subseteq DOMAIN tables /\ \A n \in W : n < nx
  <2>1. ASSUME NEW n \in V PROVE n < nx
    <3>1. PICK z : z = b.next
      OBVIOUS
    <3>2. z \in Nat /\ z <= nx /\ n < z /\ n \in Nat
      BY <1>6, <1>8, <1>9, <3>1
    <3> QED
      BY <1>6, <3>2
  <2> QED
    BY <1>6, <1>8, <1>11, <2>1
<1>17. \A i \in Holds(tables, W) : seq[i] <= s
  <2>1. ASSUME NEW i \in Holds(tables, V) PROVE seq[i] <= s
    <3>1. PICK z : z = b.seq
      OBVIOUS
    <3>2. z \in Nat /\ z <= s /\ seq[i] <= z
      BY <1>6, <1>8, <3>1
    <3>3. Holds(tables, V) \subseteq 1 .. Len(seq)
      BY <1>8, HoldsType DEF Inv, DiskTypes, Updates
    <3>4. seq[i] \in Nat
      BY <1>9, <3>3
    <3> QED
      BY <1>6, <3>2, <3>4
  <2> QED
    BY <1>6, <1>13, <2>1
<1>18. mem \subseteq UpdatesIn(logs, l) /\ mem \cap durable \subseteq SyncedIn(logs, l)
  <2>1. mem \subseteq Records(logs[logfile_number]) /\ mem \cap durable \subseteq SyncedRecords(logs[logfile_number])
    BY <1>1 DEF UpData
  <2>2. logfile_number >= l
    BY <1>6, <1>9, <1>10
  <2>3. Records(logs[logfile_number]) \subseteq UpdatesIn(logs, l) /\ SyncedRecords(logs[logfile_number]) \subseteq SyncedIn(logs, l)
    BY <1>9, <2>2, InLog
  <2> QED
    BY <2>1, <2>3
<1>19. imm \subseteq Holds(tables, W) \/ (imm \subseteq UpdatesIn(logs, l) /\ imm \cap durable \subseteq SyncedIn(logs, l))
  <2>1. CASE job = "flush"
    <3>1. imm \subseteq Holds(tables, a)
      BY <1>1, <1>3, <2>1 DEF EditSound
    <3> QED
      BY <1>13, <3>1
  <2>2. CASE job # "flush"
    <3>1. l = log_number
      BY <1>1, <1>4, <2>2 DEF EditSound
    <3> QED
      BY <1>14, <3>1
  <2> QED
    BY <2>1, <2>2
<1>20. owed \subseteq mem \cup imm \cup Holds(tables, V)
  BY <1>1, <1>2 DEF UpData
<1>21. owed \subseteq Holds(tables, W) \cup UpdatesIn(logs, l) /\ owed \cap durable \subseteq Holds(tables, W) \cup SyncedIn(logs, l)
  BY <1>12, <1>18, <1>19, <1>20
<1>22. Ordered(seq, Holds(tables, W) \cup UpdatesIn(logs, l))
  <2>1. UpdatesIn(logs, l) \subseteq UpdatesIn(logs, log_number)
    BY <1>6, <1>9, <1>10, LaterLogs
  <2>2. Ordered(seq, Holds(tables, live) \cup Holds(tables, V) \cup UpdatesIn(logs, log_number))
    BY <1>1, <1>2, Zenon DEF UpSequences
  <2>3. Holds(tables, W) \cup UpdatesIn(logs, l) \subseteq Holds(tables, live) \cup Holds(tables, V) \cup UpdatesIn(logs, log_number)
    BY <1>13, <1>15, <2>1
  <2> QED
    BY <2>2, <2>3, OrderedPart
<1>23. Restart(tables, logs, seq, owed, durable, W, l, nx, s)
  BY <1>6, <1>16, <1>17, <1>21, <1>22, Zenon DEF Restart
<1>24. Holds(tables, W) \subseteq Holds(tables, V) \cup Holds(tables, live) \cup UpdatesIn(logs, log_number)
  BY <1>13, <1>15
<1> QED
  BY <1>2, <1>4, <1>6, <1>10, <1>12, <1>23, <1>24, Zenon

\* The edit is in the MANIFEST, on the disk or not.
LEMMA AppendEditUp ==
  ASSUME Inv, AppendEdit, descriptor
  PROVE  Inv'
<1>1. /\ manifests' = Put(manifests, manifest_file_number, AddRecord(manifests[manifest_file_number], edit))
      /\ pc = "append" /\ pc' = "sync"
      /\ logs' = logs /\ tables' = tables /\ current' = current
      /\ next_file_number' = next_file_number /\ last_sequence' = last_sequence
      /\ live' = live /\ log_number' = log_number /\ manifest_file_number' = manifest_file_number
      /\ descriptor' = descriptor /\ mem' = mem /\ imm' = imm /\ has_imm' = has_imm
      /\ logfile_number' = logfile_number /\ bg_error' = bg_error
      /\ pending_outputs' = pending_outputs /\ edit' = edit /\ job' = job /\ files_to_delete' = files_to_delete
      /\ output' = output /\ compaction' = compaction /\ todo' = todo /\ iterator' = iterator
      /\ seq' = seq /\ owed' = owed /\ durable' = durable /\ covered' = covered
  BY DEF AppendEdit, version, memory
<1>2. UpNumbers /\ UpDeletes /\ UpManifest /\ UpOutputs /\ UpData /\ EditSound /\ UpSequences
      /\ current # 0 /\ manifest_file_number = current
  BY <1>1, UpFacts DEF UpEdit
<1>3. PICK f : f = Manifest
  OBVIOUS
<1>4. PICK e : e = edit
  OBVIOUS
<1>5. PICK g : g = AddRecord(f, e)
  OBVIOUS
<1>6. WholeFile(f, Edits) /\ f.torn = {} /\ e \in Edits /\ Within(Edits, Edits) /\ f.synced >= 1
      /\ Restarts(tables, logs, seq, owed, durable, current, f) /\ current \in DOMAIN manifests
  BY <1>2, <1>3, <1>4, CurrentManifest DEF UpNumbers, Within, Inv, MemoryTypes
<1>7. manifests' = Put(manifests, current, g)
  BY <1>1, <1>2, <1>3, <1>4, <1>5 DEF Manifest
<1>8. Manifest' = g /\ current \in DOMAIN manifests'
  <2>1. Put(manifests, current, g)[current] = g /\ DOMAIN Put(manifests, current, g) = DOMAIN manifests \cup {current}
    BY DEF Put
  <2> QED
    BY <1>1, <1>7, <2>1, Zenon DEF Manifest
<1>9. WholeFile(g, Edits) /\ g.torn = {} /\ g.recs = Append(f.recs, e) /\ g.synced = f.synced
  BY <1>5, <1>6, AddedRecord
<1>10. PICK k0 : k0 = Len(f.recs)
  OBVIOUS
<1>11. k0 \in Nat /\ f.synced \in 0 .. k0
  BY <1>6, <1>10, WholeFileType
<1>12. PICK V, W : V = FinalVersion(f) /\ W = (V \ e.del) \cup e.add
  OBVIOUS
<1>13. /\ Len(g.recs) = k0 + 1 /\ FinalEdit(g) = e
       /\ (\A k \in 1 .. k0 : g.recs[k] = f.recs[k] /\ VersionAt(g, k) = VersionAt(f, k))
       /\ VersionAt(g, k0) = V /\ VersionAt(g, k0 + 1) = W /\ FinalVersion(g) = W
  BY <1>6, <1>9, <1>10, <1>12, AppendedVersions
<1>14. /\ Holds(tables, V) \subseteq Holds(tables, W)
       /\ Holds(tables, W) \subseteq Holds(tables, V) \cup Holds(tables, live) \cup UpdatesIn(logs, log_number)
       /\ log_number <= e.log /\ e.log <= logfile_number /\ e.log \in Nat
       /\ Restart(tables, logs, seq, owed, durable, W, e.log, e.next, e.seq)
  BY <1>1, <1>3, <1>4, <1>12, EditedVersion
<1>15. /\ e.next \in Nat /\ e.seq \in Nat /\ current < e.next /\ FinalEdit(f).next <= e.next
       /\ e.next <= next_file_number /\ e.seq <= last_sequence
  BY <1>1, <1>2, <1>3, <1>4 DEF EditSound
<1>16. ASSUME NEW k \in Points(g)
       PROVE  \/ k \in Points(f) /\ g.recs[k] = f.recs[k] /\ VersionAt(g, k) = VersionAt(f, k)
              \/ k = k0 + 1 /\ g.recs[k] = e /\ VersionAt(g, k) = W
  <2>1. k \in f.synced .. k0 + 1
    BY <1>9, <1>13, <1>16 DEF Points
  <2>2. CASE k = k0 + 1
    BY <1>13, <2>2 DEF FinalEdit
  <2>3. CASE k # k0 + 1
    <3>1. k \in f.synced .. k0 /\ k \in 1 .. k0
      <4>1. PICK z : z = f.synced
        OBVIOUS
      <4>2. z >= 1 /\ z \in Nat /\ k \in z .. k0 + 1
        BY <1>6, <1>11, <2>1, <4>1
      <4> QED
        BY <1>11, <2>3, <4>1, <4>2
    <3> QED
      BY <1>10, <1>13, <3>1 DEF Points
  <2> QED
    BY <2>2, <2>3
<1>17. DiskTypes'
  <2>1. current \in Nat /\ Directory(manifests, Edits)
    BY DEF Inv, DiskTypes
  <2>2. Directory(manifests', Edits)
    BY <1>2, <1>7, <1>9, <2>1, PutInDirectory
  <2>3. Updates' = Updates
    BY <1>1 DEF Updates
  <2> QED
    BY <1>1, <2>2, <2>3 DEF Inv, DiskTypes
<1>18. MemoryTypes'
  BY <1>1 DEF Inv, MemoryTypes, Updates
<1>19. DiskInv'
  <2>1. Restarts(tables, logs, seq, owed, durable, current, g)
    BY <1>5, <1>6, <1>12, <1>14, <1>15, RestartsAppend
  <2> QED
    BY <1>1, <1>2, <1>8, <2>1 DEF DiskInv
<1>20. UpNumbers'
  BY <1>1, <1>2, <1>8, <1>9 DEF UpNumbers
<1>21. UpSequences'
  <2>1. UpdatesIn(logs, e.log) \subseteq UpdatesIn(logs, log_number)
    <3>1. DOMAIN logs \subseteq Nat /\ log_number \in Nat
      BY DEF Inv, MemoryTypes, DiskTypes, Directory
    <3> QED
      BY <1>14, <3>1, LaterLogs
  <2>2. \A i \in Holds(tables, live) \cup UpdatesIn(logs, log_number) : seq[i] <= last_sequence
    BY <1>2 DEF UpSequences
  <2>3. Ordered(seq, Holds(tables, live) \cup Holds(tables, W) \cup UpdatesIn(logs, log_number))
    <3>1. Ordered(seq, Holds(tables, live) \cup Holds(tables, V) \cup UpdatesIn(logs, log_number))
      BY <1>2, <1>3, <1>12 DEF UpSequences
    <3>2. Holds(tables, live) \cup Holds(tables, W) \cup UpdatesIn(logs, log_number)
             \subseteq Holds(tables, live) \cup Holds(tables, V) \cup UpdatesIn(logs, log_number)
      BY <1>14
    <3> QED
      BY <3>1, <3>2, OrderedPart
  <2>4. ASSUME NEW k \in Points(g)
        PROVE  /\ g.recs[k].seq <= last_sequence /\ g.recs[k].next <= next_file_number
               /\ g.recs[k].log <= logfile_number
               /\ \A i \in UpdatesIn(logs, g.recs[k].log) : seq[i] <= last_sequence
    <3>1. CASE k \in Points(f) /\ g.recs[k] = f.recs[k]
      BY <1>2, <1>3, <3>1, Zenon DEF UpSequences
    <3>2. CASE g.recs[k] = e
      BY <1>14, <1>15, <2>1, <2>2, <3>2
    <3> QED
      BY <1>16, <3>1, <3>2
  <2> QED
    BY <1>1, <1>8, <1>13, <2>2, <2>3, <2>4 DEF UpSequences
<1>22. UpData'
  <2>1. /\ mem' \subseteq Records(logs'[logfile_number'])
        /\ mem' \cap durable' \subseteq SyncedRecords(logs'[logfile_number'])
        /\ imm' \subseteq UpdatesIn(logs', log_number') /\ imm' \cap durable' \subseteq SyncedIn(logs', log_number')
        /\ owed' \subseteq mem' \cup imm' \cup Holds(tables', live')
        /\ mem' \cap imm' = {} /\ Holds(tables', live') \cap (mem' \cup imm') = {}
        /\ ~has_imm' => imm' = {}
    BY <1>1, <1>2 DEF UpData
  <2>2. owed \subseteq mem \cup imm \cup Holds(tables, V)
    BY <1>2, <1>3, <1>12 DEF UpData
  <2>3. owed' \subseteq mem' \cup imm' \cup Holds(tables', FinalVersion(Manifest'))
    BY <1>1, <1>8, <1>13, <1>14, <2>2
  <2> QED
    BY <2>1, <2>3, Zenon DEF UpData
<1>23. UpManifest'
  <2>1. SUFFICES ASSUME ~bg_error PROVE OneMore(g, live)
    BY <1>1, <1>8 DEF UpManifest
  <2>2. Settled
    BY <1>1, <1>2, <2>1 DEF UpManifest
  <2>3. f.synced = k0 /\ V = live
    BY <1>3, <1>10, <1>12, <2>2 DEF Settled
  <2> QED
    BY <1>9, <1>11, <1>13, <2>3 DEF OneMore
<1>24. UpOutputs'
  <2>1. SUFFICES ASSUME compaction # NoCompaction, job # "compact"
                 PROVE  Fresh(compaction.output)' /\ compaction.output \in pending_outputs
    BY <1>1 DEF UpOutputs
  <2>2. Fresh(compaction.output) /\ compaction.output \in pending_outputs
    BY <1>2, <2>1 DEF UpOutputs
  <2>3. PICK n : n = compaction.output
    OBVIOUS
  <2>4. n \notin live \cup iterator \cup e.add /\ \A k \in Points(f) : n \notin VersionAt(f, k)
    BY <1>3, <1>4, <2>2, <2>3 DEF Fresh, Unrecorded
  <2>5. n \notin V
    BY <1>2, <1>3, <1>12, <2>4, ManifestPoints
  <2>6. n \notin W
    BY <1>12, <2>4, <2>5
  <2>7. Unrecorded(g, n)
    BY <1>16, <2>4, <2>6 DEF Unrecorded
  <2> QED
    BY <1>1, <1>4, <1>8, <2>2, <2>3, <2>4, <2>7 DEF Fresh
<1>25. UpDeletes'
  BY <1>1, <1>2 DEF UpDeletes
<1>26. UpEdit'
  <2>1. /\ job' \in {"flush", "compact", "move"}
        /\ edit'.add \cup edit'.del \subseteq DOMAIN tables'
        /\ Holds(tables', edit'.del) \subseteq Holds(tables', edit'.add)
        /\ edit'.next \in Nat /\ edit'.seq \in Nat /\ edit'.log \in Nat
        /\ edit'.next <= next_file_number' /\ edit'.seq <= last_sequence' /\ current' < edit'.next
        /\ edit'.log < edit'.next
    BY <1>1, <1>2, Zenon DEF EditSound
  <2>2. /\ \A m \in edit'.add : m < edit'.next
        /\ \A i \in Holds(tables', edit'.add) : seq'[i] <= edit'.seq
        /\ job' # "flush" => edit'.log = log_number' /\ Holds(tables', edit'.add) \subseteq Holds(tables', live')
        /\ job' # "compact" => edit'.del \cap compaction'.inputs = {}
    BY <1>1, <1>2, Zenon DEF EditSound
  <2>3. job' = "flush" => /\ has_imm' /\ edit'.log = logfile_number'
                          /\ imm' \subseteq Holds(tables', edit'.add)
                          /\ Holds(tables', edit'.add) \subseteq Holds(tables', live') \cup imm'
    BY <1>1, <1>2 DEF EditSound
  <2>4. pc' # "append" /\ FinalEdit(Manifest') = edit'
    BY <1>1, <1>4, <1>8, <1>13
  <2> QED
    BY <2>1, <2>2, <2>3, <2>4, Zenon DEF EditSound, UpEdit
<1>27. descriptor'
  BY <1>1
<1> QED
  BY <1>17, <1>18, <1>19, <1>20, <1>21, <1>22, <1>23, <1>24, <1>25, <1>26, <1>27, UpStep

\* The last edit's tables are in the version.
LEMMA LastEditCounts ==
  ASSUME NEW f, WholeFile(f, Edits), f.synced >= 1
  PROVE  FinalEdit(f).add \subseteq FinalVersion(f)
<1>1. f.recs \in Seq(Edits) /\ Len(f.recs) \in Nat /\ f.synced \in 0 .. Len(f.recs)
  BY WholeFileType
<1>2. PICK E, k, z : E = f.recs /\ k = Len(f.recs) /\ z = f.synced
  OBVIOUS
<1>3. E \in Seq(Edits) /\ k = Len(E) /\ k \in Nat /\ z \in 0 .. k /\ z >= 1
  BY <1>1, <1>2
<1>4. DOMAIN E = 1 .. k /\ k \in DOMAIN E /\ \A j \in DOMAIN E : ~(j > k)
  BY <1>3
<1>5. E[k].add \subseteq Replay(E)
  BY <1>4, Zenon DEF Replay
<1> QED
  BY <1>2, <1>5 DEF FinalEdit, FinalVersion

\* One edit before the last, the version was that without it.
LEMMA OneMoreInstalled ==
  ASSUME NEW f, WholeFile(f, Edits), f.synced >= 1, NEW V, OneMore(f, V)
  PROVE  FinalVersion(f) = (V \ FinalEdit(f).del) \cup FinalEdit(f).add
<1>1. f.recs \in Seq(Edits) /\ Len(f.recs) \in Nat /\ f.synced \in 0 .. Len(f.recs)
  BY WholeFileType
<1>2. PICK E, k, z : E = f.recs /\ k = Len(f.recs) /\ z = f.synced
  OBVIOUS
<1>3. E \in Seq(Edits) /\ k = Len(E) /\ k \in Nat /\ z \in 0 .. k /\ z >= 1 /\ z = k - 1
  BY <1>1, <1>2 DEF OneMore
<1>4. PICK F : F = SubSeq(E, 1, k - 1)
  OBVIOUS
<1>5. F \in Seq(Edits) /\ E[k] \in Edits /\ Append(F, E[k]) = E
  BY <1>3, <1>4
<1>6. Replay(E) = (Replay(F) \ E[k].del) \cup E[k].add
  BY <1>5, ReplayAppend
<1>7. Replay(F) = V
  BY <1>2, <1>4 DEF OneMore, VersionAt
<1> QED
  BY <1>2, <1>6, <1>7 DEF FinalEdit, FinalVersion

\* The version is installed.
LEMMA InstallEffect ==
  ASSUME Inv, Install, edit.log \in Nat, edit.add \subseteq DOMAIN tables
  PROVE  /\ live' = (live \ edit.del) \cup edit.add /\ log_number' = edit.log /\ descriptor' = TRUE
         /\ imm' = (IF job = "flush" THEN {} ELSE imm) /\ has_imm' = (IF job = "flush" THEN FALSE ELSE has_imm)
         /\ compaction' = (IF job = "compact" THEN NoCompaction ELSE compaction)
         /\ pending_outputs' = pending_outputs \ (IF job = "compact" THEN {compaction.output} ELSE {})
         /\ edit' = NoEdit /\ durable' = durable \cup Holds(tables, edit.add)
         /\ logs' = logs /\ tables' = tables /\ manifest_file_number' = manifest_file_number
         /\ next_file_number' = next_file_number /\ last_sequence' = last_sequence /\ mem' = mem
         /\ logfile_number' = logfile_number /\ bg_error' = bg_error /\ iterator' = iterator /\ output' = output
         /\ todo' = todo /\ seq' = seq /\ owed' = owed /\ covered' = covered
         /\ pc' \in {"delete", "idle", "compacting"}
         /\ pc' = "idle" => compaction' = NoCompaction
         /\ pc' = "compacting" => compaction' # NoCompaction
         /\ pc' = "delete" => ~bg_error
         /\ pc' # "delete" => files_to_delete' = {}
         /\ \A x \in files_to_delete' :
               /\ x[1] = "table" => x[2] \notin live' \cup iterator' \cup pending_outputs'
               /\ x[1] = "log" => x[2] < log_number'
               /\ x[1] = "manifest" => x[2] < manifest_file_number
         /\ MemoryTypes'
<1>1. /\ live' = (live \ edit.del) \cup edit.add /\ log_number' = edit.log /\ descriptor' = TRUE
      /\ compaction' = (IF job = "compact" THEN NoCompaction ELSE compaction)
      /\ pending_outputs' = pending_outputs \ (IF job = "compact" THEN {compaction.output} ELSE {})
      /\ edit' = NoEdit /\ durable' = durable \cup Holds(tables, edit.add)
      /\ logs' = logs /\ tables' = tables /\ manifest_file_number' = manifest_file_number
      /\ next_file_number' = next_file_number /\ last_sequence' = last_sequence /\ mem' = mem
      /\ logfile_number' = logfile_number /\ bg_error' = bg_error /\ iterator' = iterator /\ output' = output
      /\ todo' = todo /\ seq' = seq /\ owed' = owed /\ covered' = covered
  BY DEF Install, Contents, Holds
<1>2. imm' = (IF job = "flush" THEN {} ELSE imm) /\ has_imm' = (IF job = "flush" THEN FALSE ELSE has_imm)
  BY DEF Install
<1>3. PICK O : O = Obsolete(live', compaction'.inputs, log_number', pending_outputs')
  OBVIOUS
<1>4. /\ files_to_delete' = (IF job = "move" \/ bg_error THEN {} ELSE O)
      /\ pc' = (IF files_to_delete' # {} THEN "delete" ELSE IF compaction' = NoCompaction THEN "idle" ELSE "compacting")
      /\ job' = (IF files_to_delete' # {} THEN job ELSE "none")
  BY <1>3 DEF Install, Continue, RemoveObsoleteFiles
<1>5. /\ pc' \in {"delete", "idle", "compacting"}
      /\ pc' = "idle" => compaction' = NoCompaction
      /\ pc' = "compacting" => compaction' # NoCompaction
      /\ pc' = "delete" => ~bg_error
      /\ pc' # "delete" => files_to_delete' = {}
  BY <1>4, Zenon
<1>6. ASSUME NEW x \in O
      PROVE  /\ x[1] = "table" => x[2] \notin live' \cup iterator' \cup pending_outputs'
             /\ x[1] = "log" => x[2] < log_number'
             /\ x[1] = "manifest" => x[2] < manifest_file_number
             /\ x \in {"log", "table", "manifest"} \X Nat
  <2>1. DOMAIN logs \subseteq Nat /\ DOMAIN manifests \subseteq Nat /\ DOMAIN tables \subseteq Nat
    BY DEF Inv, DiskTypes, Directory, TableFiles
  <2>2. CASE \E n \in DOMAIN logs : n < log_number' /\ x = <<"log", n>>
    BY <2>1, <2>2
  <2>3. CASE \E n \in DOMAIN manifests : n < manifest_file_number /\ x = <<"manifest", n>>
    BY <2>1, <2>3
  <2>4. CASE \E n \in DOMAIN tables \ (pending_outputs' \cup (live' \cup iterator \cup compaction'.inputs)) : x = <<"table", n>>
    BY <1>1, <2>1, <2>4
  <2> QED
    BY <1>3, <1>6, <2>2, <2>3, <2>4, Zenon DEF Obsolete, AddLiveFiles
<1>7. \A x \in files_to_delete' :
         /\ x[1] = "table" => x[2] \notin live' \cup iterator' \cup pending_outputs'
         /\ x[1] = "log" => x[2] < log_number'
         /\ x[1] = "manifest" => x[2] < manifest_file_number
         /\ x \in {"log", "table", "manifest"} \X Nat
  <2>1. files_to_delete' \subseteq O
    BY <1>4
  <2> QED
    BY <1>6, <2>1, Zenon
<1>8. MemoryTypes'
  <2>1. DOMAIN tables \subseteq Nat /\ Holds(tables, edit.add) \subseteq Updates
    BY HoldsType DEF Inv, DiskTypes, TableFiles
  <2>2. MemoryTypes /\ NoEdit \in Edits /\ NoCompaction \in [inputs : SUBSET Nat, output : Nat]
    BY EditTypes DEF Inv, NoCompaction
  <2>3. Updates' = Updates /\ durable' \subseteq Updates'
    BY <1>1, <2>1, <2>2 DEF Updates, MemoryTypes
  <2>4. live' \subseteq Nat
    BY <1>1, <2>1, <2>2 DEF MemoryTypes
  <2>5. files_to_delete' \subseteq {"log", "table", "manifest"} \X Nat
    BY <1>7, Zenon
  <2>6. job' \in {"none", "open", "flush", "compact", "move"}
    BY <1>4, <2>2 DEF MemoryTypes
  <2>7. imm' \subseteq Updates' /\ has_imm' \in BOOLEAN /\ compaction' \in [inputs : SUBSET Nat, output : Nat]
        /\ pending_outputs' \subseteq Nat
    BY <1>1, <1>2, <2>2, <2>3 DEF MemoryTypes
  <2> QED
    BY <1>1, <2>2, <2>3, <2>4, <2>5, <2>6, <2>7 DEF MemoryTypes
<1> QED
  BY <1>1, <1>2, <1>5, <1>7, <1>8, Zenon

\* What an edit does to the tables of an open database.
LEMMA InstalledTables ==
  ASSUME Inv, descriptor, pc = "sync", NEW W, W = (live \ edit.del) \cup edit.add
  PROVE  /\ Holds(tables, live) \subseteq Holds(tables, W)
         /\ Holds(tables, edit.add) \subseteq Holds(tables, W)
         /\ Holds(tables, W) \subseteq Holds(tables, live) \cup Holds(tables, edit.add)
         /\ W \subseteq DOMAIN tables /\ \A n \in W : n < next_file_number
<1>1. UpNumbers /\ EditSound
  BY UpFacts DEF UpEdit
<1>2. PICK a, d, nx : a = edit.add /\ d = edit.del /\ nx = edit.next
  OBVIOUS
<1>3. /\ a \subseteq DOMAIN tables /\ Holds(tables, d) \subseteq Holds(tables, a) /\ nx \in Nat
      /\ nx <= next_file_number /\ \A n \in a : n < nx
  BY <1>1, <1>2 DEF EditSound
<1>4. W = (live \ d) \cup a
  BY <1>2
<1>5. /\ Holds(tables, live) \subseteq Holds(tables, W)
      /\ Holds(tables, a) \subseteq Holds(tables, W)
      /\ Holds(tables, W) \subseteq Holds(tables, live) \cup Holds(tables, a)
  BY <1>3, <1>4, Zenon DEF Holds
<1>6. W \subseteq DOMAIN tables /\ \A n \in W : n < next_file_number
  <2>1. live \subseteq DOMAIN tables /\ \A n \in live : n < next_file_number
    BY <1>1 DEF UpNumbers
  <2>2. next_file_number \in Nat /\ DOMAIN tables \subseteq Nat
    BY DEF Inv, MemoryTypes, DiskTypes, TableFiles
  <2> QED
    BY <1>3, <1>4, <2>1, <2>2
<1> QED
  BY <1>2, <1>5, <1>6, Zenon

\* The version is installed once its edit is on the disk.
LEMMA SyncAndInstallStep ==
  ASSUME Inv, SyncAndInstall
  PROVE  Inv'
<1>1. pc = "sync" /\ descriptor /\ manifests' = SyncManifest /\ current' = current /\ Install
  BY DEF SyncAndInstall
<1>2. UpNumbers /\ UpDeletes /\ UpManifest /\ UpOutputs /\ UpData /\ EditSound /\ UpSequences
      /\ current # 0 /\ manifest_file_number = current
  BY <1>1, UpFacts DEF UpEdit
<1>3. /\ edit.log \in Nat /\ edit.add \subseteq DOMAIN tables /\ job \in {"flush", "compact", "move"}
      /\ \A i \in Holds(tables, edit.add) : seq[i] <= edit.seq
  BY <1>2 DEF EditSound
<1>4. /\ live' = (live \ edit.del) \cup edit.add /\ log_number' = edit.log /\ descriptor' = TRUE
      /\ imm' = (IF job = "flush" THEN {} ELSE imm) /\ has_imm' = (IF job = "flush" THEN FALSE ELSE has_imm)
      /\ compaction' = (IF job = "compact" THEN NoCompaction ELSE compaction)
      /\ pending_outputs' = pending_outputs \ (IF job = "compact" THEN {compaction.output} ELSE {})
      /\ edit' = NoEdit /\ durable' = durable \cup Holds(tables, edit.add)
      /\ logs' = logs /\ tables' = tables /\ manifest_file_number' = manifest_file_number
      /\ next_file_number' = next_file_number /\ last_sequence' = last_sequence /\ mem' = mem
      /\ logfile_number' = logfile_number /\ bg_error' = bg_error /\ iterator' = iterator /\ output' = output
      /\ todo' = todo /\ seq' = seq /\ owed' = owed /\ covered' = covered
  BY <1>1, <1>3, InstallEffect
<1>5. /\ pc' \in {"delete", "idle", "compacting"}
      /\ (pc' = "idle" => compaction' = NoCompaction)
      /\ (pc' = "compacting" => compaction' # NoCompaction)
      /\ (pc' = "delete" => ~bg_error)
      /\ (pc' # "delete" => files_to_delete' = {})
      /\ (\A x \in files_to_delete' :
            /\ x[1] = "table" => x[2] \notin live' \cup iterator' \cup pending_outputs'
            /\ x[1] = "log" => x[2] < log_number'
            /\ x[1] = "manifest" => x[2] < manifest_file_number)
      /\ MemoryTypes'
  BY <1>1, <1>3, InstallEffect
<1>6. PICK f : f = Manifest
  OBVIOUS
<1>7. PICK g : g = Sync(f)
  OBVIOUS
<1>8. WholeFile(f, Edits) /\ f.torn = {} /\ f.synced >= 1 /\ current \in DOMAIN manifests
      /\ Restarts(tables, logs, seq, owed, durable, current, f)
  BY <1>2, <1>6, CurrentManifest DEF UpNumbers
<1>9. WholeFile(g, Edits) /\ g.torn = {} /\ g.recs = f.recs /\ g.synced = Len(f.recs)
  BY <1>7, <1>8, SyncedFile
<1>10. /\ Restarts(tables, logs, seq, owed, durable, current, g) /\ Points(g) = {Len(f.recs)}
       /\ Points(g) \subseteq Points(f) /\ \A k : VersionAt(g, k) = VersionAt(f, k)
  BY <1>7, <1>8, RestartsSync
<1>11. manifests' = Put(manifests, current, g)
  BY <1>1, <1>2, <1>6, <1>7 DEF SyncManifest, Manifest
<1>12. Manifest' = g /\ current \in DOMAIN manifests'
  <2>1. Put(manifests, current, g)[current] = g /\ DOMAIN Put(manifests, current, g) = DOMAIN manifests \cup {current}
    BY DEF Put
  <2> QED
    BY <1>1, <1>11, <2>1, Zenon DEF Manifest
<1>13. FinalVersion(g) = FinalVersion(f) /\ FinalEdit(g) = edit /\ FinalEdit(f) = edit
  BY <1>1, <1>2, <1>6, <1>9 DEF FinalVersion, FinalEdit, EditSound
<1>14. PICK a, V : a = Holds(tables, edit.add) /\ V = Holds(tables, FinalVersion(f))
  OBVIOUS
<1>15. a \subseteq V
  BY <1>8, <1>13, <1>14, LastEditCounts, HoldsUnion
<1>16. PICK A, B : A = Holds(tables, live) /\ B = Holds(tables, live')
  OBVIOUS
<1>17. A \subseteq B /\ a \subseteq B /\ B \subseteq A \cup a /\ live' \subseteq DOMAIN tables /\ \A n \in live' : n < next_file_number
  BY <1>1, <1>4, <1>14, <1>16, InstalledTables
<1>18. /\ log_number \in Nat /\ logfile_number \in Nat /\ DOMAIN logs \subseteq Nat /\ last_sequence \in Nat
       /\ seq \in Seq(Nat) /\ current \in Nat /\ Directory(manifests, Edits)
  BY DEF Inv, MemoryTypes, DiskTypes, Directory
<1>19. log_number <= log_number' /\ log_number' <= logfile_number /\ log_number' \in Nat
  <2>1. log_number' = logfile_number \/ log_number' = log_number
    BY <1>2, <1>4 DEF EditSound
  <2>2. log_number <= logfile_number
    BY <1>2 DEF UpNumbers
  <2> QED
    BY <1>18, <2>1, <2>2
<1>20. UpdatesIn(logs, log_number') \subseteq UpdatesIn(logs, log_number)
  BY <1>18, <1>19, LaterLogs
<1>21. DiskTypes'
  <2>1. Directory(manifests', Edits)
    BY <1>2, <1>9, <1>11, <1>18, PutInDirectory
  <2>2. Updates' = Updates
    BY <1>4 DEF Updates
  <2> QED
    BY <1>1, <1>4, <2>1, <2>2 DEF Inv, DiskTypes
<1>22. DiskInv'
  <2>1. ASSUME NEW k \in Points(g),
               Restart(tables, logs, seq, owed, durable, VersionAt(g, k), g.recs[k].log, g.recs[k].next, g.recs[k].seq)
        PROVE  Restart(tables, logs, seq, owed, durable', VersionAt(g, k), g.recs[k].log, g.recs[k].next, g.recs[k].seq)
    <3>1. VersionAt(g, k) = FinalVersion(f)
      <4>1. k = Len(f.recs)
        BY <1>10, <2>1
      <4> QED
        BY <1>8, <1>10, <4>1, FinalIsReplayed
    <3>2. a \subseteq Holds(tables, VersionAt(g, k))
      BY <1>14, <1>15, <3>1
    <3>3. Restart(tables, logs, seq, owed, durable \cup a, VersionAt(g, k), g.recs[k].log, g.recs[k].next, g.recs[k].seq)
      BY <2>1, <3>2, RestartDurable
    <3> QED
      BY <1>4, <1>14, <3>3
  <2>2. Restarts(tables, logs, seq, owed, durable', current, g)
    BY <1>10, <2>1, RestartsMap
  <2> QED
    BY <1>1, <1>2, <1>4, <1>12, <2>2 DEF DiskInv
<1>23. compaction'.inputs \subseteq live'
  <2>1. compaction.inputs \subseteq live /\ (job # "compact" => edit.del \cap compaction.inputs = {})
    BY <1>2 DEF UpNumbers, EditSound
  <2>2. NoCompaction.inputs = {}
    BY DEF NoCompaction
  <2>3. CASE job = "compact"
    BY <1>4, <2>2, <2>3
  <2>4. CASE job # "compact"
    BY <1>4, <2>1, <2>4
  <2> QED
    BY <2>3, <2>4
<1>24. UpNumbers'
  <2>1. /\ \A n \in live' \cup iterator' \cup pending_outputs' : n < next_file_number'
        /\ 0 \notin pending_outputs'
        /\ live' \cup iterator' \subseteq DOMAIN tables'
    BY <1>2, <1>4, <1>17 DEF UpNumbers
  <2>2. /\ current' # 0 /\ manifest_file_number' = current' /\ Manifest'.torn = {}
        /\ logfile_number' \in DOMAIN logs' /\ logs'[logfile_number'].torn = {} /\ log_number' <= logfile_number'
        /\ \A n \in DOMAIN logs' : n < next_file_number'
    BY <1>1, <1>2, <1>4, <1>9, <1>12, <1>19 DEF UpNumbers
  <2> QED
    BY <1>4, <1>5, <1>23, <2>1, <2>2, Zenon DEF UpNumbers
<1>25. UpSequences'
  <2>1. /\ \A i \in A \cup UpdatesIn(logs, log_number) : seq[i] <= last_sequence
        /\ Ordered(seq, A \cup V \cup UpdatesIn(logs, log_number))
    BY <1>2, <1>6, <1>14, <1>16 DEF UpSequences
  <2>2. \A i \in a : seq[i] <= last_sequence
    <3>1. PICK s : s = edit.seq
      OBVIOUS
    <3>2. s \in Nat /\ s <= last_sequence /\ \A i \in a : seq[i] <= s
      BY <1>2, <1>3, <1>14, <3>1 DEF EditSound
    <3>3. a \subseteq 1 .. Len(seq)
      BY <1>3, <1>14, HoldsType DEF Inv, DiskTypes, Updates
    <3> QED
      BY <1>18, <3>2, <3>3
  <2>3. \A i \in B \cup UpdatesIn(logs, log_number') : seq[i] <= last_sequence
    BY <1>17, <1>20, <2>1, <2>2
  <2>4. Ordered(seq, B \cup V \cup UpdatesIn(logs, log_number'))
    <3>1. B \cup V \cup UpdatesIn(logs, log_number') \subseteq A \cup V \cup UpdatesIn(logs, log_number)
      BY <1>15, <1>17, <1>20
    <3> QED
      BY <2>1, <3>1, OrderedPart
  <2>5. \A k \in Points(g) :
          /\ g.recs[k].seq <= last_sequence /\ g.recs[k].next <= next_file_number
          /\ g.recs[k].log <= logfile_number
          /\ \A i \in UpdatesIn(logs, g.recs[k].log) : seq[i] <= last_sequence
    BY <1>2, <1>6, <1>9, <1>10, Zenon DEF UpSequences
  <2> QED
    BY <1>4, <1>12, <1>13, <1>14, <1>16, <2>3, <2>4, <2>5, Zenon DEF UpSequences
<1>26. UpData'
  <2>1. /\ mem \subseteq Records(logs[logfile_number]) /\ mem \cap durable \subseteq SyncedRecords(logs[logfile_number])
        /\ imm \subseteq UpdatesIn(logs, log_number) /\ imm \cap durable \subseteq SyncedIn(logs, log_number)
        /\ owed \subseteq mem \cup imm \cup A
        /\ owed \subseteq mem \cup imm \cup V
        /\ mem \cap imm = {} /\ A \cap (mem \cup imm) = {}
        /\ ~has_imm => imm = {}
    BY <1>2, <1>6, <1>14, <1>16 DEF UpData
  <2>2. CASE job = "flush"
    <3>1. imm \subseteq a /\ a \subseteq A \cup imm
      BY <1>2, <1>14, <1>16, <2>2 DEF EditSound
    <3>2. mem \cap durable' \subseteq SyncedRecords(logs[logfile_number])
      BY <1>4, <1>14, <2>1, <3>1
    <3>3. owed \subseteq mem \cup {} \cup B /\ owed \subseteq mem \cup {} \cup V /\ B \cap (mem \cup {}) = {} /\ mem \cap {} = {}
      BY <1>15, <1>17, <2>1, <3>1
    <3>4. imm' = {}
      BY <1>4, <2>2
    <3>5. imm' \subseteq UpdatesIn(logs', log_number') /\ imm' \cap durable' \subseteq SyncedIn(logs', log_number')
      BY <3>4
    <3>6. /\ mem' \subseteq Records(logs'[logfile_number']) /\ mem' \cap durable' \subseteq SyncedRecords(logs'[logfile_number'])
          /\ owed' \subseteq mem' \cup imm' \cup Holds(tables', live')
          /\ owed' \subseteq mem' \cup imm' \cup Holds(tables', FinalVersion(Manifest'))
          /\ mem' \cap imm' = {} /\ Holds(tables', live') \cap (mem' \cup imm') = {}
          /\ ~has_imm' => imm' = {}
      BY <1>4, <1>12, <1>13, <1>14, <1>16, <2>1, <3>2, <3>3, <3>4
    <3> QED
      BY <3>5, <3>6, Zenon DEF UpData
  <2>3. CASE job # "flush"
    <3>1. a \subseteq A /\ log_number' = log_number /\ imm' = imm /\ has_imm' = has_imm
      BY <1>2, <1>4, <1>14, <1>16, <2>3 DEF EditSound
    <3>2. mem \cap durable' \subseteq SyncedRecords(logs[logfile_number]) /\ imm \cap durable' \subseteq SyncedIn(logs, log_number)
      BY <1>4, <1>14, <2>1, <3>1
    <3>3. owed \subseteq mem \cup imm \cup B /\ B \cap (mem \cup imm) = {}
      BY <1>17, <2>1, <3>1
    <3>4. imm' \subseteq UpdatesIn(logs', log_number') /\ imm' \cap durable' \subseteq SyncedIn(logs', log_number')
      BY <1>4, <2>1, <3>1, <3>2, Zenon
    <3>5. /\ mem' \subseteq Records(logs'[logfile_number']) /\ mem' \cap durable' \subseteq SyncedRecords(logs'[logfile_number'])
          /\ owed' \subseteq mem' \cup imm' \cup Holds(tables', live')
          /\ owed' \subseteq mem' \cup imm' \cup Holds(tables', FinalVersion(Manifest'))
          /\ mem' \cap imm' = {} /\ Holds(tables', live') \cap (mem' \cup imm') = {}
          /\ ~has_imm' => imm' = {}
      BY <1>4, <1>12, <1>13, <1>14, <1>16, <2>1, <3>1, <3>2, <3>3
    <3> QED
      BY <3>4, <3>5, Zenon DEF UpData
  <2> QED
    BY <2>2, <2>3
<1>27. UpManifest'
  <2>1. SUFFICES ASSUME ~bg_error PROVE Settled'
    BY <1>4, <1>5 DEF UpManifest
  <2>2. OneMore(f, live)
    BY <1>1, <1>2, <1>6, <2>1 DEF UpManifest
  <2>3. FinalVersion(f) = live'
    BY <1>4, <1>8, <1>13, <2>2, OneMoreInstalled
  <2> QED
    BY <1>4, <1>9, <1>12, <1>13, <2>3 DEF Settled
<1>28. UpOutputs'
  <2>1. pc' # "building"
    BY <1>5
  <2>2. SUFFICES ASSUME compaction' # NoCompaction
                 PROVE  Fresh(compaction.output)' /\ compaction'.output \in pending_outputs'
    BY <2>1 DEF UpOutputs
  <2>3. job # "compact" /\ compaction' = compaction
    BY <1>4, <2>2
  <2>4. Fresh(compaction.output) /\ compaction.output \in pending_outputs
    BY <1>2, <2>2, <2>3 DEF UpOutputs
  <2>5. PICK n : n = compaction.output
    OBVIOUS
  <2>6. n \notin live \cup iterator \cup edit.add /\ \A k \in Points(f) : n \notin VersionAt(f, k)
    BY <1>6, <2>4, <2>5 DEF Fresh, Unrecorded
  <2>7. Unrecorded(g, n)
    BY <1>10, <2>6 DEF Unrecorded
  <2>8. n \notin live' \cup iterator' \cup edit'.add
    BY <1>4, <2>6, EditTypes
  <2>9. compaction'.output = n /\ n \in pending_outputs'
    BY <1>4, <2>3, <2>4, <2>5
  <2> QED
    BY <1>12, <2>7, <2>8, <2>9 DEF Fresh
<1>29. UpDeletes'
  BY <1>1, <1>2, <1>5 DEF UpDeletes
<1>30. UpEdit'
  BY <1>5 DEF UpEdit
<1>31. descriptor'
  BY <1>4
<1> QED
  BY <1>5, <1>21, <1>22, <1>24, <1>25, <1>26, <1>27, <1>28, <1>29, <1>30, <1>31, UpStep

-----------------------------------------------------------------------------
(* Steps of a database that is closed or being opened.                      *)

LEMMA DownStep ==
  ASSUME DiskTypes', MemoryTypes', DiskInv', DownInv', ~descriptor'
  PROVE  Inv'
BY Zenon DEF Inv, UpInv

\* What is known of it.
LEMMA DownFacts ==
  ASSUME Inv, ~descriptor
  PROVE  /\ NothingInMemory
         /\ pc \in {"down", "created"} => edit = NoEdit /\ logfile_number = 0 /\ job = "none"
         /\ pc = "created" => /\ current = 0 /\ 1 \in DOMAIN manifests
                              /\ manifests[1] = [recs |-> <<NewDBEdit>>, synced |-> 1, torn |-> {}]
         /\ pc = "logs" => RecoveringLogs
         /\ pc \in {"append", "sync", "setcurrent"} => WritingManifest
BY Zenon DEF Inv, DownInv

\* The process has lost its memory.
LEMMA ResetStep ==
  ASSUME Inv, VolatileReset, DiskTypes', DiskInv', owed' \subseteq owed, UNCHANGED <<seq, durable, covered>>
  PROVE  Inv'
<1>1. /\ live' = {} /\ log_number' = 0 /\ next_file_number' = 0 /\ manifest_file_number' = 0
      /\ last_sequence' = 0 /\ descriptor' = FALSE
      /\ mem' = {} /\ imm' = {} /\ has_imm' = FALSE /\ logfile_number' = 0
      /\ bg_error' = FALSE /\ pending_outputs' = {} /\ iterator' = {}
      /\ pc' = "down" /\ job' = "none" /\ edit' = NoEdit /\ output' = 0
      /\ compaction' = NoCompaction /\ todo' = {} /\ files_to_delete' = {}
  BY DEF VolatileReset
<1>2. Updates' = Updates /\ seq' = seq /\ durable' = durable /\ covered' = covered
  BY DEF Updates
<1>3. NoEdit \in Edits /\ NoCompaction \in [inputs : SUBSET Nat, output : Nat]
  BY EditTypes DEF NoCompaction
<1>4. MemoryTypes'
  BY <1>1, <1>2, <1>3 DEF Inv, MemoryTypes
<1>5. NothingInMemory'
  BY <1>1 DEF NothingInMemory
<1>6. DownInv'
  BY <1>1, <1>5 DEF DownInv
<1>7. ~descriptor'
  BY <1>1
<1> QED
  BY <1>4, <1>6, <1>7, DownStep

\* A crash of the process keeps every file as it is.
LEMMA ProcessCrashStep ==
  ASSUME Inv, ProcessCrash
  PROVE  Inv'
<1>1. /\ logs' = logs /\ tables' = tables /\ manifests' = manifests /\ current' = current
      /\ seq' = seq /\ owed' = owed /\ durable' = durable /\ covered' = covered
  BY DEF ProcessCrash, disk, history
<1>2. DiskTypes'
  BY <1>1, SameDiskTypes DEF disk
<1>3. DiskInv'
  BY <1>1 DEF Inv, DiskInv, Manifest
<1> QED
  BY <1>1, <1>2, <1>3, ResetStep DEF ProcessCrash

\* A failed open leaves the disk for the next one.
LEMMA OpenFailsStep ==
  ASSUME Inv, OpenFails
  PROVE  Inv'
<1>1. /\ logs' = logs /\ tables' = tables /\ current' = current
      /\ seq' = seq /\ owed' = owed /\ durable' = durable /\ covered' = covered /\ VolatileReset
  BY DEF OpenFails, history
<1>2. ~descriptor
  BY UpByPhase DEF OpenFails
<1>3. PICK N : manifests' = Without(manifests, N) /\ N \subseteq {manifest_file_number}
                  /\ (N # {} => pc \in {"sync", "setcurrent"})
  BY DEF OpenFails
<1>4. current # 0 => current \notin N
  <2>1. SUFFICES ASSUME current \in N PROVE FALSE
    OBVIOUS
  <2>2. current = manifest_file_number /\ pc \in {"sync", "setcurrent"}
    BY <1>3, <2>1
  <2>3. WritingManifest
    BY <1>2, <2>2, DownFacts
  <2>4. current < manifest_file_number /\ current \in Nat
    BY <2>3 DEF WritingManifest, Inv, DiskTypes
  <2> QED
    BY <2>2, <2>4
<1>5. DiskTypes'
  <2>1. Directory(manifests', Edits)
    BY <1>3, RemovedFromDirectory DEF Inv, DiskTypes
  <2>2. Updates' = Updates
    BY <1>1 DEF Updates
  <2> QED
    BY <1>1, <2>1, <2>2 DEF Inv, DiskTypes
<1>6. DiskInv'
  <2>1. CASE current = 0
    BY <1>1, <2>1 DEF Inv, DiskInv
  <2>2. CASE current # 0
    <3>1. current \in DOMAIN manifests /\ Restarts(tables, logs, seq, owed, durable, current, Manifest)
      BY <2>2, CurrentManifest
    <3>2. current \in DOMAIN manifests' /\ manifests'[current] = manifests[current]
      BY <1>3, <1>4, <2>2, <3>1 DEF Without
    <3>3. Manifest' = Manifest
      BY <1>1, <3>2 DEF Manifest
    <3> QED
      BY <1>1, <2>2, <3>1, <3>2, <3>3 DEF DiskInv
  <2> QED
    BY <2>1, <2>2
<1> QED
  BY <1>1, <1>5, <1>6, ResetStep

\* A failure of the machine cuts off files, and what is no longer owed.
LEMMA PowerFailureStep ==
  ASSUME Inv, PowerFailure
  PROVE  Inv'
<1>1. /\ tables' = tables /\ current' = current /\ seq' = seq /\ durable' = durable /\ covered' = covered
      /\ owed' = owed \cap durable /\ VolatileReset
  BY DEF PowerFailure
<1>2. DOMAIN logs' = DOMAIN logs /\ \A n \in DOMAIN logs : logs'[n] \in Remains(logs[n])
  BY Zenon DEF PowerFailure
<1>3. DOMAIN manifests' = DOMAIN manifests /\ \A n \in DOMAIN manifests : manifests'[n] \in Remains(manifests[n])
  BY Zenon DEF PowerFailure
<1>4. Updates' = Updates
  BY <1>1 DEF Updates
<1>5. PICK L, M : L = logs /\ M = logs'
  OBVIOUS
<1>6. /\ Directory(M, Updates)
      /\ \A l : /\ UpdatesIn(M, l) \subseteq UpdatesIn(L, l)
                /\ SyncedIn(L, l) \subseteq SyncedIn(M, l)
  <2>1. DOMAIN M = DOMAIN L /\ \A n \in DOMAIN L : M[n] \in Remains(L[n])
    BY <1>2, <1>5
  <2>2. Directory(L, Updates)
    BY <1>5 DEF Inv, DiskTypes
  <2> QED
    BY <2>1, <2>2, RemainingLogs
<1>7. DiskTypes'
  <2>1. Directory(manifests', Edits)
    <3>1. DOMAIN manifests \subseteq Nat \ {0} /\ \A n \in DOMAIN manifests : WholeFile(manifests[n], Edits)
      BY DEF Inv, DiskTypes, Directory
    <3>2. ASSUME NEW n \in DOMAIN manifests PROVE WholeFile(manifests'[n], Edits)
      <4>1. PICK f, g : f = manifests[n] /\ g = manifests'[n]
        OBVIOUS
      <4>2. WholeFile(f, Edits) /\ g \in Remains(f)
        BY <1>3, <3>1, <4>1
      <4>3. WholeFile(g, Edits)
        BY <4>2, RemainingFile
      <4> QED
        BY <4>1, <4>3
    <3> QED
      BY <1>3, <3>1, <3>2 DEF Directory
  <2> QED
    BY <1>1, <1>4, <1>5, <1>6, <2>1 DEF Inv, DiskTypes
<1>8. DiskInv'
  <2>1. CASE current = 0
    BY <1>1, <1>2, <2>1 DEF Inv, DiskInv
  <2>2. CASE current # 0
    <3>1. PICK f, g : f = Manifest /\ g = manifests'[current]
      OBVIOUS
    <3>2. current \in DOMAIN manifests /\ Restarts(tables, L, seq, owed, durable, current, f) /\ WholeFile(f, Edits)
      BY <1>5, <2>2, <3>1, CurrentManifest
    <3>3. g \in Remains(f) /\ current \in DOMAIN manifests'
      BY <1>3, <3>1, <3>2 DEF Manifest
    <3>4. Restarts(tables, L, seq, owed, durable, current, g)
      BY <3>2, <3>3, RestartsCut
    <3>5. ASSUME NEW k \in Points(g),
                 Restart(tables, L, seq, owed, durable, VersionAt(g, k), g.recs[k].log, g.recs[k].next, g.recs[k].seq)
          PROVE  Restart(tables, M, seq, owed \cap durable, durable, VersionAt(g, k), g.recs[k].log, g.recs[k].next, g.recs[k].seq)
      <4>1. PICK l : l = g.recs[k].log
        OBVIOUS
      <4>2. /\ UpdatesIn(M, l) \subseteq UpdatesIn(L, l) /\ SyncedIn(L, l) \subseteq SyncedIn(M, l)
            /\ SyncedIn(M, l) \subseteq UpdatesIn(M, l)
        BY <1>6, UpdatesInType
      <4> QED
        BY <3>5, <4>1, <4>2, RestartCut
    <3>6. Restarts(tables, M, seq, owed \cap durable, durable, current, g)
      BY <3>4, <3>5, RestartsMap
    <3>7. Manifest' = g
      BY <1>1, <3>1 DEF Manifest
    <3> QED
      BY <1>1, <1>5, <2>2, <3>3, <3>6, <3>7 DEF DiskInv
  <2> QED
    BY <2>1, <2>2
<1>9. owed' \subseteq owed
  BY <1>1
<1> QED
  BY <1>1, <1>7, <1>8, <1>9, ResetStep

\* The file a new database starts with.
LEMMA FirstManifest ==
  ASSUME NEW f, f = Sync(AddRecord(NewWritableFile, NewDBEdit))
  PROVE  f = [recs |-> <<NewDBEdit>>, synced |-> 1, torn |-> {}] /\ WholeFile(f, Edits)
<1>1. PICK e : e = NewDBEdit
  OBVIOUS
<1>2. e \in Edits
  BY <1>1, EditTypes
<1>3. PICK h : h = AddRecord(NewWritableFile, e)
  OBVIOUS
<1>4. h = [recs |-> <<e>>, synced |-> 0, torn |-> {}]
  BY <1>3 DEF AddRecord, NewWritableFile
<1>5. f = Sync(h)
  BY <1>1, <1>3
<1>6. f = [recs |-> <<e>>, synced |-> 1, torn |-> {}]
  BY <1>4, <1>5 DEF Sync
<1>7. WholeFile(f, Edits)
  BY <1>2, <1>6 DEF WholeFile, FileOf
<1> QED
  BY <1>1, <1>6, <1>7

\* The first MANIFEST, before CURRENT names it.
LEMMA NewDBStep ==
  ASSUME Inv, NewDB
  PROVE  Inv'
<1>1. PICK f : f = Sync(AddRecord(NewWritableFile, NewDBEdit))
  OBVIOUS
<1>2. /\ pc = "down" /\ current = 0 /\ pc' = "created" /\ manifests' = Put(manifests, 1, f)
      /\ logs' = logs /\ tables' = tables /\ current' = current
      /\ next_file_number' = next_file_number /\ last_sequence' = last_sequence
      /\ live' = live /\ log_number' = log_number /\ manifest_file_number' = manifest_file_number
      /\ descriptor' = descriptor /\ mem' = mem /\ imm' = imm /\ has_imm' = has_imm
      /\ logfile_number' = logfile_number /\ bg_error' = bg_error
      /\ pending_outputs' = pending_outputs /\ edit' = edit /\ job' = job /\ files_to_delete' = files_to_delete
      /\ output' = output /\ compaction' = compaction /\ todo' = todo /\ iterator' = iterator
      /\ seq' = seq /\ owed' = owed /\ durable' = durable /\ covered' = covered
  BY <1>1 DEF NewDB, version, memory, history
<1>3. ~descriptor
  BY <1>2, UpByPhase
<1>4. NothingInMemory /\ edit = NoEdit /\ logfile_number = 0 /\ job = "none"
  BY <1>2, <1>3, DownFacts
<1>5. f = [recs |-> <<NewDBEdit>>, synced |-> 1, torn |-> {}] /\ WholeFile(f, Edits)
  BY <1>1, FirstManifest
<1>6. DiskTypes'
  <2>1. Directory(manifests', Edits)
    BY <1>2, <1>5, PutInDirectory DEF Inv, DiskTypes
  <2>2. Updates' = Updates
    BY <1>2 DEF Updates
  <2> QED
    BY <1>2, <2>1, <2>2 DEF Inv, DiskTypes
<1>7. MemoryTypes'
  BY <1>2 DEF Inv, MemoryTypes, Updates
<1>8. DiskInv'
  BY <1>2 DEF Inv, DiskInv
<1>9. 1 \in DOMAIN manifests' /\ manifests'[1] = f
  BY <1>2 DEF Put
<1>10. NothingInMemory'
  BY <1>2, <1>4 DEF NothingInMemory
<1>11. DownInv'
  BY <1>2, <1>4, <1>5, <1>9, <1>10, Zenon DEF DownInv
<1> QED
  BY <1>2, <1>3, <1>6, <1>7, <1>8, <1>11, DownStep

\* An empty database opens from its first MANIFEST.
LEMMA FirstRestart ==
  ASSUME NEW T, NEW L, DOMAIN L = {}, NEW q, NEW d, NEW f, f = [recs |-> <<NewDBEdit>>, synced |-> 1, torn |-> {}]
  PROVE  Restarts(T, L, q, {}, d, 1, f)
<1>1. PICK e : e = NewDBEdit
  OBVIOUS
<1>2. e.add = {} /\ e.log = 0 /\ e.next = 2 /\ e.seq = 0
  BY <1>1, EditTypes
<1>3. f.recs = <<e>> /\ f.synced = 1 /\ Len(f.recs) = 1 /\ f.recs[1] = e
  BY <1>1
<1>4. Points(f) = {1} /\ FinalEdit(f) = e
  BY <1>3 DEF Points, FinalEdit
<1>5. VersionAt(f, 1) = {}
  <2>1. WholeFile(f, Edits)
    BY <1>1, EditTypes DEF WholeFile, FileOf
  <2>2. VersionAt(f, 1) = Replay(<<e>>)
    BY <1>3, <2>1, FinalIsReplayed DEF FinalVersion
  <2> QED
    BY <1>2, <2>2, ReplayOne
<1>6. UpdatesIn(L, 0) = {} /\ SyncedIn(L, 0) = {} /\ Holds(T, {}) = {}
  BY Zenon DEF UpdatesIn, SyncedIn, Holds
<1>7. Restart(T, L, q, {}, d, {}, 0, 2, 0)
  BY <1>6 DEF Restart, Ordered
<1>8. RestartAt(T, L, q, {}, d, 1, f, 1)
  <2>1. 1 < 2 /\ 2 <= 2
    OBVIOUS
  <2>2. /\ 1 < e.next /\ e.next <= e.next /\ Restart(T, L, q, {}, d, {}, e.log, e.next, e.seq)
    BY <1>2, <1>7, <2>1, Zenon
  <2> QED
    BY <1>3, <1>4, <1>5, <2>2, Zenon DEF RestartAt
<1>9. 1 >= 1
  OBVIOUS
<1>10. \A k \in Points(f) : RestartAt(T, L, q, {}, d, 1, f, k)
  BY <1>4, <1>8, Zenon
<1> QED
  BY <1>3, <1>9, <1>10, Zenon DEF Restarts

\* CURRENT names the first MANIFEST, which is on the disk.
LEMMA NewDBSetCurrentStep ==
  ASSUME Inv, NewDBSetCurrent
  PROVE  Inv'
<1>1. /\ pc = "created" /\ pc' = "down" /\ current' = 1
      /\ logs' = logs /\ tables' = tables /\ manifests' = manifests
      /\ next_file_number' = next_file_number /\ last_sequence' = last_sequence
      /\ live' = live /\ log_number' = log_number /\ manifest_file_number' = manifest_file_number
      /\ descriptor' = descriptor /\ mem' = mem /\ imm' = imm /\ has_imm' = has_imm
      /\ logfile_number' = logfile_number /\ bg_error' = bg_error
      /\ pending_outputs' = pending_outputs /\ edit' = edit /\ job' = job /\ files_to_delete' = files_to_delete
      /\ output' = output /\ compaction' = compaction /\ todo' = todo /\ iterator' = iterator
      /\ seq' = seq /\ owed' = owed /\ durable' = durable /\ covered' = covered
  BY DEF NewDBSetCurrent, version, memory, history
<1>2. ~descriptor
  BY <1>1, UpByPhase
<1>3. NothingInMemory /\ edit = NoEdit /\ logfile_number = 0 /\ job = "none"
  BY <1>1, <1>2, DownFacts
<1>4. current = 0 /\ 1 \in DOMAIN manifests /\ manifests[1] = [recs |-> <<NewDBEdit>>, synced |-> 1, torn |-> {}]
  BY <1>1, <1>2, DownFacts
<1>5. DOMAIN logs = {} /\ owed = {}
  BY <1>4 DEF Inv, DiskInv
<1>6. DiskTypes'
  BY <1>1 DEF Inv, DiskTypes, Updates
<1>7. MemoryTypes'
  BY <1>1 DEF Inv, MemoryTypes, Updates
<1>8. DiskInv'
  <2>1. PICK f : f = manifests[1]
    OBVIOUS
  <2>2. Restarts(tables, logs, seq, {}, durable, 1, f)
    BY <1>4, <1>5, <2>1, FirstRestart
  <2>3. Manifest' = f
    BY <1>1, <2>1 DEF Manifest
  <2> QED
    BY <1>1, <1>4, <1>5, <2>2, <2>3 DEF DiskInv
<1>9. NothingInMemory'
  BY <1>1, <1>3 DEF NothingInMemory
<1>10. DownInv'
  BY <1>1, <1>3, <1>9, Zenon DEF DownInv
<1> QED
  BY <1>1, <1>2, <1>6, <1>7, <1>8, <1>10, DownStep

\* What Recover finds in the MANIFEST.
LEMMA ManifestRead ==
  ASSUME Inv, current # 0
  PROVE  /\ current \in DOMAIN manifests /\ ~MayReport(manifests[current])
         /\ LET edits == ReadRecords(manifests[current])
            IN  /\ Usable(edits) /\ Replay(edits) = FinalVersion(Manifest)
                /\ edits[Max(Counted(edits))] = FinalEdit(Manifest)
<1>1. PICK f : f = Manifest
  OBVIOUS
<1>2. /\ current \in DOMAIN manifests /\ WholeFile(f, Edits) /\ f.synced >= 1
      /\ Restarts(tables, logs, seq, owed, durable, current, f)
  BY <1>1, CurrentManifest
<1>3. ReadRecords(f) = f.recs /\ ~MayReport(f)
  BY <1>2, ReadWhole
<1>4. PICK E, k : E = f.recs /\ k = Len(f.recs)
  OBVIOUS
<1>5. E \in Seq(Edits) /\ k \in Nat /\ k \in 1 .. k /\ DOMAIN E = 1 .. k
  <2>1. PICK z : z = f.synced
    OBVIOUS
  <2>2. E \in Seq(Edits) /\ k \in Nat /\ k = Len(E) /\ z \in 0 .. k /\ z >= 1
    BY <1>2, <1>4, <2>1, WholeFileType
  <2> QED
    BY <2>2
<1>6. E[k] = FinalEdit(f) /\ E[k].next \in Nat
  BY <1>2, <1>4, RestartsFinal DEF FinalEdit
<1>7. k \in Counted(E) /\ Counted(E) \subseteq Int /\ \A y \in Counted(E) : y <= k
  <2>1. E[k].next # Unset
    BY <1>6 DEF Unset
  <2>2. k \in Counted(E) /\ Counted(E) \subseteq 1 .. k
    BY <1>5, <2>1 DEF Counted
  <2> QED
    BY <1>5, <2>2
<1>8. Max(Counted(E)) = k
  BY <1>7, MaxIsLargest
<1>9. FinalVersion(f) \subseteq DOMAIN tables
  BY <1>1, FinalIsRecorded
<1>10. Usable(E) /\ Replay(E) = FinalVersion(f)
  BY <1>4, <1>7, <1>9 DEF Usable, FinalVersion
<1> QED
  BY <1>1, <1>2, <1>3, <1>4, <1>6, <1>8, <1>10 DEF Manifest

\* No reachable disk makes Recover report a corruption.
LEMMA NeverRecoverFails ==
  ASSUME Inv
  PROVE  ~RecoverFails
<1>1. current # 0 => current \in DOMAIN manifests /\ ~MayReport(manifests[current]) /\ Usable(ReadRecords(manifests[current]))
  BY ManifestRead
<1> QED
  BY <1>1, Zenon DEF RecoverFails

\* Recover reads the final version and lists every log that it needs.
LEMMA RecoverStep ==
  ASSUME Inv, Recover, CleanAppends
  PROVE  Inv'
<1>1. pc = "down" /\ current \in DOMAIN manifests /\ ~descriptor
  BY UpByPhase DEF Recover
<1>2. current # 0 /\ current \in Nat
  BY <1>1 DEF Inv, DiskTypes, Directory
<1>3. PICK f, e : f = Manifest /\ e = FinalEdit(Manifest)
  OBVIOUS
<1>4. /\ live' = FinalVersion(f) /\ log_number' = e.log /\ next_file_number' = e.next + 1
      /\ last_sequence' = e.seq /\ descriptor' = FALSE /\ manifest_file_number' = e.next
      /\ todo' = {n \in DOMAIN logs : n >= e.log} /\ pc' = "logs"
  <2>1. PICK E : E = ReadRecords(manifests[current])
    OBVIOUS
  <2>2. Replay(E) = FinalVersion(f) /\ E[Max(Counted(E))] = e
    BY <1>2, <1>3, <2>1, ManifestRead
  <2>3. ReuseManifest = {FALSE}
    BY BoundsAssumption DEF ReuseManifest, CleanAppends
  <2> QED
    BY <2>1, <2>2, <2>3 DEF Recover, ManifestNumber
<1>5. /\ logs' = logs /\ tables' = tables /\ current' = current /\ manifests' = manifests
      /\ mem' = mem /\ imm' = imm /\ has_imm' = has_imm
      /\ logfile_number' = logfile_number /\ bg_error' = bg_error
      /\ pending_outputs' = pending_outputs /\ edit' = edit /\ job' = job /\ files_to_delete' = files_to_delete
      /\ output' = output /\ compaction' = compaction /\ iterator' = iterator
      /\ seq' = seq /\ owed' = owed /\ durable' = durable /\ covered' = covered
  BY DEF Recover, disk, memory, history
<1>6. NothingInMemory /\ edit = NoEdit /\ logfile_number = 0 /\ job = "none"
  BY <1>1, DownFacts
<1>7. Restart(tables, logs, seq, owed, durable, FinalVersion(f), e.log, e.next, e.seq)
  BY <1>2, <1>3, CurrentManifest, RestartsFinal
<1>8. /\ e.log \in Nat /\ e.next \in Nat /\ e.seq \in Nat /\ e.log < e.next
      /\ FinalVersion(f) \subseteq DOMAIN tables /\ DOMAIN tables \subseteq Nat /\ DOMAIN logs \subseteq Nat
  BY <1>7, Zenon DEF Restart, Inv, DiskTypes, TableFiles, Directory
<1>9. DiskTypes'
  BY <1>5, SameDiskTypes DEF disk
<1>10. MemoryTypes'
  <2>1. /\ log_number' \in Nat /\ next_file_number' \in Nat /\ manifest_file_number' \in Nat /\ last_sequence' \in Nat
        /\ live' \subseteq Nat /\ todo' \subseteq Nat /\ descriptor' \in BOOLEAN
    <3>1. PICK l, nx, s : l = e.log /\ nx = e.next /\ s = e.seq
      OBVIOUS
    <3>2. l \in Nat /\ nx \in Nat /\ s \in Nat /\ nx + 1 \in Nat
      BY <1>8, <3>1
    <3>3. log_number' = l /\ next_file_number' = nx + 1 /\ manifest_file_number' = nx /\ last_sequence' = s
      BY <1>4, <3>1
    <3>4. live' \subseteq Nat /\ todo' \subseteq Nat
      BY <1>4, <1>8
    <3> QED
      BY <1>4, <3>2, <3>3, <3>4
  <2> QED
    BY <1>5, <2>1 DEF Inv, MemoryTypes, Updates
<1>11. DiskInv'
  BY <1>5 DEF Inv, DiskInv, Manifest
<1>12. Manifest' = f
  BY <1>3, <1>5 DEF Manifest
<1>13. RecoveringLogs'
  <2>1. PICK l, nx : l = e.log /\ nx = e.next
    OBVIOUS
  <2>2. manifest_file_number' < next_file_number' /\ \A n \in DOMAIN logs \ todo' : n < next_file_number'
    <3>1. l \in Nat /\ nx \in Nat /\ l < nx /\ manifest_file_number' = nx /\ next_file_number' = nx + 1
          /\ todo' = {n \in DOMAIN logs : n >= l}
      BY <1>4, <1>8, <2>1
    <3> QED
      BY <1>8, <3>1
  <2>3. Holds(tables, {}) = {} /\ NoEdit.add = {} /\ NoEdit.del = {}
    BY HoldsUnion, EditTypes
  <2>4. /\ current' # 0 /\ job' = "none" /\ logfile_number' = 0
        /\ live' = FinalVersion(Manifest') /\ log_number' = FinalEdit(Manifest').log
        /\ manifest_file_number' = FinalEdit(Manifest').next
        /\ todo' = {n \in DOMAIN logs' : n >= log_number'}
        /\ edit'.add = {} /\ edit'.del = {} /\ Holds(tables', edit'.add) = {}
    BY <1>2, <1>3, <1>4, <1>5, <1>6, <1>12, <2>3
  <2>5. FinalEdit(Manifest').seq <= last_sequence'
    BY <1>3, <1>4, <1>8, <1>12
  <2>6. \A n \in DOMAIN logs' \ todo' : ~(n >= log_number') /\ n < next_file_number'
    BY <1>5, <2>2, <2>4
  <2> QED
    BY <2>2, <2>4, <2>5, <2>6 DEF RecoveringLogs
<1>14. NothingInMemory'
  BY <1>5, <1>6 DEF NothingInMemory
<1>15. DownInv'
  BY <1>4, <1>13, <1>14 DEF DownInv
<1> QED
  BY <1>4, <1>9, <1>10, <1>11, <1>15, DownStep

\* The tables written for a log: none, one or two, with all its updates.
LEMMA TablesOfLog ==
  ASSUME NEW A, NEW B, NEW F, (F = A /\ A # {}) \/ (F = B /\ A = {}),
         NEW c, c = Cardinality({u \in {A, B} : u # {}})
  PROVE  /\ c \in {0, 1, 2} /\ F \cup B = A \cup B
         /\ c = 0 => A \cup B = {}
         /\ c = 1 => F = A \cup B
<1>1. CASE A = {} /\ B = {}
  <2>1. {u \in {A, B} : u # {}} = {}
    BY <1>1
  <2>2. c = 0
    BY <2>1, FS_EmptySet
  <2> QED
    BY <1>1, <2>2
<1>2. CASE A = {} /\ B # {}
  <2>1. {u \in {A, B} : u # {}} = {B}
    BY <1>2
  <2>2. c = 1
    BY <2>1, FS_Singleton
  <2> QED
    BY <1>2, <2>2
<1>3. CASE A # {} /\ (B = {} \/ B = A)
  <2>1. {u \in {A, B} : u # {}} = {A}
    BY <1>3
  <2>2. c = 1
    BY <2>1, FS_Singleton
  <2> QED
    BY <1>3, <2>2
<1>4. CASE A # {} /\ B # {} /\ B # A
  <2>1. {u \in {A, B} : u # {}} = {A} \cup {B} /\ B \notin {A}
    BY <1>4
  <2>2. IsFiniteSet({A}) /\ Cardinality({A}) = 1
    BY FS_Singleton
  <2>3. PICK P : P = {A}
    OBVIOUS
  <2>4. Cardinality(P \cup {B}) = IF B \in P THEN Cardinality(P) ELSE Cardinality(P) + 1
    BY <2>2, <2>3, FS_AddElement, Zenon
  <2>5. Cardinality(P \cup {B}) = 1 + 1
    BY <2>1, <2>2, <2>3, <2>4, Zenon
  <2>6. c = Cardinality(P \cup {B})
    BY <2>1, <2>3, Zenon
  <2>7. c = 2
    BY <2>5, <2>6
  <2> QED
    BY <1>4, <2>7
<1> QED
  BY <1>1, <1>2, <1>3, <1>4

\* The numbers from nf on, none, one or two.
Consecutive(nf, c, N) ==
    /\ c \in Nat /\ N \subseteq Nat /\ (\A n \in N : nf <= n /\ n < nf + c) /\ 0 \notin N
    /\ (c = 0 => N = {}) /\ (c = 1 => N = {nf}) /\ (c = 2 => N = {nf} \cup {nf + 1}) /\ nf + 1 # nf

\* The numbers of the tables written while a log is read.
LEMMA ConsecutiveNumbers ==
  ASSUME NEW nf \in Nat, nf # 0, NEW c \in {0, 1, 2}
  PROVE  Consecutive(nf, c, nf .. nf + c - 1)
BY DEF Consecutive

\* Tables U are T with those that hold A and B under the numbers from nf on.
LogWritten(S, T, nf, A, B, F, c, N, U) ==
    /\ TableFiles(T, S) /\ nf \in Nat /\ nf # 0 /\ A \subseteq S /\ B \subseteq S
    /\ (F = A /\ A # {}) \/ (F = B /\ A = {})
    /\ c = Cardinality({u \in {A, B} : u # {}}) /\ N = nf .. nf + c - 1
    /\ U = [t \in DOMAIN T \cup N |-> IF t \notin N THEN T[t] ELSE IF t = nf THEN F ELSE B]

\* The tables written while a log is read hold its updates, and no others.
LEMMA RecoveredTables ==
  ASSUME NEW S, NEW T, NEW nf, NEW A, NEW B, NEW F, NEW c, NEW N, NEW U, LogWritten(S, T, nf, A, B, F, c, N, U)
  PROVE  /\ c \in Nat /\ TableFiles(U, S) /\ N \subseteq DOMAIN U /\ N \subseteq Nat /\ Holds(U, N) = A \cup B
         /\ \A t \in DOMAIN T : t \notin N => t \in DOMAIN U /\ U[t] = T[t]
         /\ \A n \in N : nf <= n /\ n < nf + c
<1> USE DEF LogWritten
<1>1. /\ c \in {0, 1, 2} /\ F \cup B = A \cup B
      /\ (c = 0 => A \cup B = {})
      /\ (c = 1 => F = A \cup B)
  BY TablesOfLog
<1>2. /\ c \in Nat /\ N \subseteq Nat /\ (\A n \in N : nf <= n /\ n < nf + c) /\ 0 \notin N
      /\ (c = 0 => N = {}) /\ (c = 1 => N = {nf}) /\ (c = 2 => N = {nf} \cup {nf + 1}) /\ nf + 1 # nf
  <2>1. Consecutive(nf, c, nf .. nf + c - 1)
    BY <1>1, ConsecutiveNumbers
  <2> QED
    BY <2>1, Zenon DEF Consecutive
<1>3. DOMAIN U = DOMAIN T \cup N /\ (\A t \in DOMAIN T : t \notin N => U[t] = T[t])
      /\ (nf \in N => U[nf] = F) /\ (\A t \in N : t # nf => U[t] = B)
  OBVIOUS
<1>4. DOMAIN T \subseteq Nat \ {0} /\ \A n \in DOMAIN T : T[n] \subseteq S
  BY DEF TableFiles
<1>5. F \subseteq S
  OBVIOUS
<1>6. PICK Z : Z = U
  OBVIOUS
<1>7. DOMAIN Z = DOMAIN T \cup N /\ (\A t \in DOMAIN T : t \notin N => Z[t] = T[t])
      /\ (nf \in N => Z[nf] = F) /\ (\A t \in N : t # nf => Z[t] = B)
  BY <1>3, <1>6, Zenon
<1>8. \A n \in DOMAIN Z : Z[n] \subseteq S
  <2>1. ASSUME NEW n \in DOMAIN Z PROVE Z[n] \subseteq S
    <3>1. CASE n \notin N
      BY <1>4, <1>7, <2>1, <3>1
    <3>2. CASE n \in N /\ n = nf
      BY <1>5, <1>7, <3>2
    <3>3. CASE n \in N /\ n # nf
      BY <1>7, <3>3
    <3> QED
      BY <3>1, <3>2, <3>3
  <2> QED
    BY <2>1
<1>9. TableFiles(Z, S)
  BY <1>2, <1>4, <1>7, <1>8 DEF TableFiles
<1>10. Holds(Z, N) = A \cup B
  <2>1. CASE c = 0
    <3>1. N = {}
      BY <1>2, <2>1, Zenon
    <3> QED
      BY <1>1, <2>1, <3>1, HoldsUnion
  <2>2. CASE c = 1
    <3>1. N = {nf}
      BY <1>2, <2>2, Zenon
    <3> QED
      BY <1>1, <1>7, <2>2, <3>1, HoldsOne
  <2>3. CASE c = 2
    <3>0. PICK h : h = nf + 1
      OBVIOUS
    <3>1. N = {nf} \cup {h} /\ h # nf
      BY <1>2, <2>3, <3>0, Zenon
    <3>2. Holds(Z, {nf}) = F /\ Holds(Z, {h}) = B
      <4>1. Holds(Z, {nf}) = Z[nf] /\ Holds(Z, {h}) = Z[h]
        BY HoldsOne, Zenon
      <4> QED
        BY <1>7, <3>1, <4>1, Zenon
    <3>3. PICK X, Y : X = {nf} /\ Y = {h}
      OBVIOUS
    <3>4. Holds(Z, X \cup Y) = Holds(Z, X) \cup Holds(Z, Y)
      BY HoldsUnion
    <3>5. Holds(Z, N) = F \cup B
      BY <3>1, <3>2, <3>3, <3>4, Zenon
    <3> QED
      BY <1>1, <3>5
  <2> QED
    BY <1>1, <2>1, <2>2, <2>3
<1> QED
  BY <1>2, <1>6, <1>7, <1>9, <1>10, Zenon

\* The largest sequence number found.
LEMMA MaxSequenceBounds ==
  ASSUME NEW q \in Seq(Nat), NEW R, R \subseteq 1 .. Len(q), Ordered(q, R), NEW s \in Nat,
         NEW m, m = Max({s} \cup {q[i] : i \in R})
  PROVE  m \in Nat /\ s <= m /\ \A i \in R : q[i] <= m
<1>1. \A i \in R : i \in Nat /\ q[i] \in Nat
  OBVIOUS
<1>2. PICK Z : Z = {s} \cup {q[i] : i \in R}
  OBVIOUS
<1>3. Z \subseteq Int /\ s \in Z /\ \A i \in R : q[i] \in Z
  BY <1>1, <1>2
<1>4. ASSUME NEW y \in Z PROVE y = s \/ \E i \in R : y = q[i]
  BY <1>2
<1>5. CASE R = {}
  <2>1. m = s
    BY <1>2, <1>3, <1>4, <1>5, MaxIsLargest
  <2> QED
    BY <1>5, <2>1
<1>6. CASE R # {}
  <2>0. Len(q) \in Nat
    OBVIOUS
  <2>1. PICK x \in R : \A y \in R : y <= x
    BY <1>6, <2>0, LargestNumber
  <2>2. \A i \in R : q[i] <= q[x]
    BY <1>1, <2>1 DEF Ordered
  <2>3. PICK v : v = q[x]
    OBVIOUS
  <2>4. v \in Nat /\ v \in Z /\ \A i \in R : q[i] <= v
    BY <1>1, <1>3, <2>2, <2>3
  <2>5. CASE s <= v
    <3>1. \A y \in Z : y <= v
      BY <1>4, <2>4, <2>5
    <3>2. m = v
      BY <1>2, <1>3, <2>4, <3>1, MaxIsLargest
    <3> QED
      BY <2>4, <2>5, <3>2
  <2>6. CASE v < s
    <3>1. (\A y \in Z : y <= s) /\ \A i \in R : q[i] <= s
      BY <1>1, <1>4, <2>4, <2>6
    <3>2. m = s
      BY <1>2, <1>3, <3>1, MaxIsLargest
    <3>3. s <= s
      OBVIOUS
    <3> QED
      BY <3>1, <3>2, <3>3, Zenon
  <2>7. s <= v \/ v < s
    BY <2>4
  <2> QED
    BY <2>5, <2>6, <2>7, Zenon
<1> QED
  BY <1>5, <1>6, Zenon

\* What RecoverLogFile does with log n when logs are not reused: A are the updates
\* that filled a memtable, B the others.
LogRecovered(n, A, B, F, c, N) ==
    /\ \A m \in todo : n <= m
    /\ A \cup B = Records(logs[n]) /\ ((F = A /\ A # {}) \/ (F = B /\ A = {}))
    /\ c = Cardinality({u \in {A, B} : u # {}}) /\ N = next_file_number .. next_file_number + c - 1
    /\ tables' = [t \in DOMAIN tables \cup N |->
                     IF t \notin N THEN tables[t] ELSE IF t = next_file_number THEN F ELSE B]
    /\ edit' = [edit EXCEPT !.add = @ \cup N]
    /\ next_file_number' = MarkFileNumberUsed(next_file_number + c, n)
    /\ last_sequence' = MaxSequence(Records(logs[n]))
    /\ todo' = todo \ {n} /\ mem' = mem /\ logfile_number' = logfile_number

\* What one step of log recovery does, without reuse_logs: the oldest log is written to tables.
LEMMA RecoverLogEffect ==
  ASSUME Inv, RecoverLogFile, CleanAppends
  PROVE  \E n \in todo : \E A, B, F, c, N : LogRecovered(n, A, B, F, c, N)
<1>1. pc = "logs" /\ todo # {} /\ todo \subseteq Nat
  BY DEF RecoverLogFile, Inv, MemoryTypes
<1>2. ~descriptor /\ RecoveringLogs
  BY <1>1, UpByPhase, DownFacts
<1>3. PICK n : n = Min(todo)
  OBVIOUS
<1>4. n \in todo /\ \A m \in todo : n <= m
  BY <1>1, <1>3, MinOfNumbers
<1>5. WholeFile(logs[n], Updates)
  BY <1>2, <1>4 DEF RecoveringLogs, Inv, DiskTypes, Directory
<1> DEFINE R == ReadRecords(logs[Min(todo)])
<1>6. R = logs[n].recs
  BY <1>3, <1>5, ReadWhole
<1> HIDE DEF R
<1>7. Len(R) \in Nat
  BY <1>5, <1>6, WholeFileType
<1>8. PICK full \in 0 .. Len(R), reuse \in BOOLEAN :
         /\ reuse => ReuseLogs /\ todo = {Min(todo)} /\ full = 0
         /\ LET rest == {R[k] : k \in full + 1 .. Len(R)}
                written == {u \in {{R[k] : k \in 1 .. full}, IF reuse THEN {} ELSE rest} : u # {}}
                added == next_file_number .. next_file_number + Cardinality(written) - 1
                first == IF full > 0 THEN {R[k] : k \in 1 .. full} ELSE rest
            IN  /\ tables' = [t \in DOMAIN tables \cup added |->
                                 IF t \notin added THEN tables[t]
                                 ELSE IF t = next_file_number THEN first ELSE rest]
                /\ edit' = [edit EXCEPT !.add = @ \cup added]
                /\ next_file_number' =
                      MarkFileNumberUsed(next_file_number + Cardinality(written), Min(todo))
                /\ mem' = IF reuse THEN rest ELSE mem
                /\ logfile_number' = IF reuse THEN Min(todo) ELSE logfile_number
         /\ last_sequence' = MaxSequence({R[k] : k \in 1 .. Len(R)})
         /\ todo' = todo \ {Min(todo)}
  BY Zenon DEF RecoverLogFile, R
<1>9. ~reuse
  BY <1>8, Zenon DEF CleanAppends
<1> DEFINE A == {R[k] : k \in 1 .. full}
           B == {R[k] : k \in full + 1 .. Len(R)}
           F == IF full > 0 THEN A ELSE B
           c == Cardinality({u \in {A, B} : u # {}})
           N == next_file_number .. next_file_number + c - 1
<1>10. /\ tables' = [t \in DOMAIN tables \cup N |->
                        IF t \notin N THEN tables[t] ELSE IF t = next_file_number THEN F ELSE B]
       /\ edit' = [edit EXCEPT !.add = @ \cup N]
       /\ next_file_number' = MarkFileNumberUsed(next_file_number + c, n)
       /\ last_sequence' = MaxSequence({R[k] : k \in 1 .. Len(R)})
       /\ todo' = todo \ {n} /\ mem' = mem /\ logfile_number' = logfile_number
  BY <1>3, <1>8, <1>9
<1>11. Records(logs[n]) = {R[k] : k \in 1 .. Len(R)}
  BY <1>6 DEF Records
<1>12. A \cup B = {R[k] : k \in 1 .. Len(R)}
  BY <1>7, <1>8
<1>13. (F = A /\ A # {}) \/ (F = B /\ A = {})
  <2>1. CASE full > 0
    BY <1>7, <1>8, <2>1
  <2>2. CASE ~(full > 0)
    BY <1>7, <1>8, <2>2
  <2> QED
    BY <2>1, <2>2
<1>14. A \cup B = Records(logs[n]) /\ c = Cardinality({u \in {A, B} : u # {}})
       /\ N = next_file_number .. next_file_number + c - 1
  BY <1>11, <1>12
<1> HIDE DEF A, B, F, c, N
<1>15. LogRecovered(n, A, B, F, c, N)
  BY <1>4, <1>10, <1>11, <1>13, <1>14, Zenon DEF LogRecovered
<1> QED
  BY <1>4, <1>15, Zenon

\* A log that was read is in tables the edit adds.
LEMMA RecoverLogFileStep ==
  ASSUME Inv, RecoverLogFile, CleanAppends
  PROVE  Inv'
<1>1. pc = "logs" /\ ~descriptor
  BY UpByPhase DEF RecoverLogFile
<1>2. RecoveringLogs /\ NothingInMemory
  BY <1>1, DownFacts
<1>log. PICK n \in todo : \E A, B, F, c, N : LogRecovered(n, A, B, F, c, N)
  BY RecoverLogEffect
<1>3. PICK A, B, F, c, N : LogRecovered(n, A, B, F, c, N)
  BY <1>log
<1>4. /\ logs' = logs /\ manifests' = manifests /\ current' = current
      /\ live' = live /\ log_number' = log_number /\ manifest_file_number' = manifest_file_number
      /\ descriptor' = descriptor /\ imm' = imm /\ has_imm' = has_imm /\ bg_error' = bg_error
      /\ pending_outputs' = pending_outputs /\ job' = job /\ files_to_delete' = files_to_delete
      /\ output' = output /\ compaction' = compaction /\ iterator' = iterator /\ pc' = pc
      /\ seq' = seq /\ owed' = owed /\ durable' = durable /\ covered' = covered
  BY DEF RecoverLogFile, version, history
<1>5. PICK R, nf, m : R = Records(logs[n]) /\ nf = next_file_number /\ m = manifest_file_number
  OBVIOUS
<1>6. PICK U : U = tables'
  OBVIOUS
<1>7. /\ A \cup B = R /\ ((F = A /\ A # {}) \/ (F = B /\ A = {}))
      /\ c = Cardinality({u \in {A, B} : u # {}}) /\ N = nf .. nf + c - 1
      /\ U = [t \in DOMAIN tables \cup N |-> IF t \notin N THEN tables[t] ELSE IF t = nf THEN F ELSE B]
      /\ edit' = [edit EXCEPT !.add = @ \cup N]
      /\ next_file_number' = MarkFileNumberUsed(nf + c, n)
      /\ last_sequence' = MaxSequence(R)
      /\ todo' = todo \ {n} /\ mem' = mem /\ logfile_number' = logfile_number
  BY <1>3, <1>5, <1>6, Zenon DEF LogRecovered
<1>8. PICK f, e : f = Manifest /\ e = FinalEdit(Manifest)
  OBVIOUS
<1>9. /\ current # 0 /\ job = "none" /\ logfile_number = 0
      /\ live = FinalVersion(f) /\ log_number = e.log /\ m = e.next /\ m < nf /\ e.seq <= last_sequence
      /\ todo \subseteq {k \in DOMAIN logs : k >= log_number}
      /\ (\A k \in DOMAIN logs \ todo : k < nf)
      /\ edit.del = {} /\ edit.add \subseteq DOMAIN tables
      /\ (\A k \in edit.add : m < k /\ k < nf)
      /\ Holds(tables, edit.add) \subseteq UpdatesIn(logs, log_number)
      /\ (\A k \in DOMAIN logs \ todo : k >= log_number => Records(logs[k]) \subseteq Holds(tables, edit.add))
      /\ (\A i \in Holds(tables, edit.add) : seq[i] <= last_sequence)
  BY <1>2, <1>5, <1>8 DEF RecoveringLogs
<1>10. /\ nf \in Nat /\ m \in Nat /\ nf # 0 /\ last_sequence \in Nat /\ log_number \in Nat /\ seq \in Seq(Nat)
       /\ edit \in Edits /\ DOMAIN logs \subseteq Nat /\ DOMAIN tables \subseteq Nat /\ n \in Nat /\ n \in DOMAIN logs
       /\ n >= log_number
  <2>1. /\ nf \in Nat /\ m \in Nat /\ last_sequence \in Nat /\ log_number \in Nat /\ seq \in Seq(Nat) /\ edit \in Edits
        /\ DOMAIN logs \subseteq Nat /\ DOMAIN tables \subseteq Nat
    BY <1>5 DEF Inv, MemoryTypes, DiskTypes, Directory, TableFiles
  <2>2. n \in DOMAIN logs /\ n >= log_number
    BY <1>9
  <2> QED
    BY <1>9, <2>1, <2>2
<1>11. R \subseteq Updates /\ R \subseteq UpdatesIn(logs, log_number) /\ TableFiles(tables, Updates)
  <2>1. WholeFile(logs[n], Updates)
    BY <1>10 DEF Inv, DiskTypes, Directory
  <2> QED
    BY <1>5, <1>10, <2>1, SyncedAreRecords, InLog DEF Inv, DiskTypes
<1>12. /\ c \in Nat /\ TableFiles(U, Updates) /\ N \subseteq DOMAIN U /\ N \subseteq Nat /\ Holds(U, N) = R
       /\ (\A t \in DOMAIN tables : t \notin N => t \in DOMAIN U /\ U[t] = tables[t])
       /\ (\A k \in N : nf <= k /\ k < nf + c)
  <2>1. A \subseteq Updates /\ B \subseteq Updates
    BY <1>7, <1>11
  <2>2. TableFiles(tables, Updates) /\ nf \in Nat /\ nf # 0
    BY <1>10, <1>11
  <2>3. /\ (F = A /\ A # {}) \/ (F = B /\ A = {})
        /\ c = Cardinality({u \in {A, B} : u # {}}) /\ N = nf .. nf + c - 1
        /\ U = [t \in DOMAIN tables \cup N |-> IF t \notin N THEN tables[t] ELSE IF t = nf THEN F ELSE B]
    BY <1>7
  <2>4. /\ c \in Nat /\ TableFiles(U, Updates) /\ N \subseteq DOMAIN U /\ N \subseteq Nat /\ Holds(U, N) = A \cup B
        /\ \A t \in DOMAIN tables : t \notin N => t \in DOMAIN U /\ U[t] = tables[t]
        /\ \A k \in N : nf <= k /\ k < nf + c
    <3>1. LogWritten(Updates, tables, nf, A, B, F, c, N, U)
      BY <2>1, <2>2, <2>3, Zenon DEF LogWritten
    <3> QED
      BY <3>1, RecoveredTables
  <2> QED
    BY <1>7, <2>4
<1>13. next_file_number' \in Nat /\ nf + c <= next_file_number' /\ n + 1 <= next_file_number' /\ nf <= next_file_number'
  <2>1. nf + c \in Nat /\ n + 1 \in Nat /\ nf <= nf + c
    BY <1>10, <1>12
  <2>2. Max({nf + c, n + 1}) \in Nat /\ nf + c <= Max({nf + c, n + 1}) /\ n + 1 <= Max({nf + c, n + 1})
    BY <2>1, MaxOfTwo
  <2>3. next_file_number' = Max({nf + c, n + 1})
    BY <1>7 DEF MarkFileNumberUsed
  <2> QED
    BY <1>10, <2>1, <2>2, <2>3
<1>14. Restart(tables, logs, seq, owed, durable, FinalVersion(f), e.log, e.next, e.seq)
  BY <1>8, <1>9, CurrentManifest, RestartsFinal
<1>15. last_sequence' \in Nat /\ last_sequence <= last_sequence' /\ \A i \in R : seq[i] <= last_sequence'
  <2>1. Ordered(seq, R)
    <3>1. Ordered(seq, Holds(tables, FinalVersion(f)) \cup UpdatesIn(logs, e.log))
      BY <1>14, Zenon DEF Restart
    <3>2. R \subseteq Holds(tables, FinalVersion(f)) \cup UpdatesIn(logs, e.log)
      BY <1>9, <1>11
    <3> QED
      BY <3>1, <3>2, OrderedPart
  <2>2. R \subseteq 1 .. Len(seq)
    BY <1>11 DEF Updates
  <2>3. last_sequence' = Max({last_sequence} \cup {seq[i] : i \in R})
    BY <1>7 DEF MaxSequence
  <2> QED
    BY <1>10, <2>1, <2>2, <2>3, MaxSequenceBounds
<1>16. edit' \in Edits /\ edit'.add = edit.add \cup N /\ edit'.del = {}
  <2>1. PICK b : b = edit
    OBVIOUS
  <2>2. b \in Edits /\ edit' = [b EXCEPT !.add = @ \cup N] /\ b.del = {}
    BY <1>7, <1>9, <1>10, <2>1
  <2> QED
    BY <1>12, <2>1, <2>2 DEF Edits
<1>17. DiskTypes'
  <2>1. Updates' = Updates
    BY <1>4 DEF Updates
  <2> QED
    BY <1>4, <1>6, <1>12, <2>1 DEF Inv, DiskTypes
<1>18. MemoryTypes'
  <2>1. MemoryTypes /\ Updates' = Updates /\ todo' \subseteq Nat
    BY <1>4, <1>7 DEF Inv, MemoryTypes, Updates
  <2> QED
    BY <1>4, <1>7, <1>13, <1>15, <1>16, <2>1 DEF MemoryTypes
<1>19. DiskInv'
  <2>1. Restarts(tables, logs, seq, owed, durable, current, f) /\ current \in DOMAIN manifests
    BY <1>8, <1>9, CurrentManifest
  <2>2. ASSUME NEW k \in Points(f),
               Restart(tables, logs, seq, owed, durable, VersionAt(f, k), f.recs[k].log, f.recs[k].next, f.recs[k].seq)
        PROVE  Restart(U, logs, seq, owed, durable, VersionAt(f, k), f.recs[k].log, f.recs[k].next, f.recs[k].seq)
    <3>1. PICK V, nx : V = VersionAt(f, k) /\ nx = f.recs[k].next
      OBVIOUS
    <3>2. V \subseteq DOMAIN tables /\ nx \in Nat /\ \A t \in V : t < nx
      BY <2>2, <3>1, Zenon DEF Restart
    <3>3. nx <= m
      BY <1>8, <1>9, <2>2, <3>1, ManifestPoints DEF RestartAt
    <3>4. \A t \in V : t \notin N
      BY <1>9, <1>10, <1>12, <3>2, <3>3
    <3>5. \A t \in V : t \in DOMAIN U /\ U[t] = tables[t]
      BY <1>12, <3>2, <3>4
    <3> QED
      BY <2>2, <3>1, <3>5, RestartTables
  <2>3. Restarts(U, logs, seq, owed, durable, current, f)
    BY <2>1, <2>2, RestartsMap
  <2>4. Manifest' = f
    BY <1>4, <1>8 DEF Manifest
  <2> QED
    BY <1>4, <1>6, <1>9, <2>1, <2>3, <2>4 DEF DiskInv
<1>20. Holds(U, edit'.add) = Holds(tables, edit.add) \cup R
  <2>1. \A t \in edit.add : t \notin N
    <3>1. \A t \in edit.add : t \in Nat /\ t < nf
      BY <1>9, <1>10
    <3> QED
      BY <1>10, <1>12, <3>1
  <2>2. \A t \in edit.add : U[t] = tables[t]
    BY <1>9, <1>12, <2>1
  <2>3. Holds(U, edit.add) = Holds(tables, edit.add)
    BY <2>2, SameTables
  <2>4. Holds(U, edit.add \cup N) = Holds(U, edit.add) \cup Holds(U, N)
    BY HoldsUnion
  <2> QED
    BY <1>12, <1>16, <2>3, <2>4
<1>21. RecoveringLogs'
  <2>1. Manifest' = f /\ FinalEdit(f) = e
    BY <1>4, <1>8 DEF Manifest
  <2>2. /\ current' # 0 /\ job' = "none" /\ logfile_number' = 0
        /\ live' = FinalVersion(Manifest') /\ log_number' = FinalEdit(Manifest').log
        /\ manifest_file_number' = FinalEdit(Manifest').next
        /\ edit'.del = {}
    BY <1>4, <1>5, <1>7, <1>9, <1>16, <2>1
  <2>3. manifest_file_number' < next_file_number' /\ FinalEdit(Manifest').seq <= last_sequence'
    <3>1. PICK s : s = e.seq
      OBVIOUS
    <3>2. s \in Nat /\ s <= last_sequence
      BY <1>9, <1>14, <3>1 DEF Restart
    <3>3. s <= last_sequence' /\ m < next_file_number'
      BY <1>9, <1>10, <1>13, <1>15, <3>2
    <3> QED
      BY <1>4, <1>5, <2>1, <3>1, <3>3
  <2>4. todo' \subseteq {k \in DOMAIN logs' : k >= log_number'}
    BY <1>4, <1>7, <1>9
  <2>5. \A k \in DOMAIN logs' \ todo' : k < next_file_number'
    <3>1. SUFFICES ASSUME NEW k \in DOMAIN logs \ todo' PROVE k < next_file_number'
      BY <1>4
    <3>2. CASE k = n
      BY <1>10, <1>13, <3>2
    <3>3. CASE k # n
      <4>1. k < nf /\ k \in Nat
        BY <1>7, <1>9, <1>10, <3>1, <3>3
      <4> QED
        BY <1>10, <1>13, <4>1
    <3> QED
      BY <3>2, <3>3
  <2>6. edit'.add \subseteq DOMAIN tables'
    <3>1. edit.add \subseteq DOMAIN U
      BY <1>7, <1>9
    <3> QED
      BY <1>6, <1>12, <1>16, <3>1
  <2>7. \A k \in edit'.add : manifest_file_number' < k /\ k < next_file_number'
    <3>1. SUFFICES ASSUME NEW k \in edit.add \cup N PROVE m < k /\ k < next_file_number'
      BY <1>4, <1>5, <1>16
    <3>2. CASE k \in edit.add
      <4>1. m < k /\ k < nf /\ k \in Nat
        BY <1>9, <1>10, <3>2
      <4> QED
        BY <1>10, <1>13, <4>1
    <3>3. CASE k \in N
      <4>1. nf <= k /\ k < nf + c /\ k \in Nat
        BY <1>12, <3>3
      <4> QED
        BY <1>9, <1>10, <1>12, <1>13, <4>1
    <3> QED
      BY <3>1, <3>2, <3>3
  <2>8. Holds(tables', edit'.add) \subseteq UpdatesIn(logs', log_number')
    BY <1>4, <1>6, <1>9, <1>11, <1>20
  <2>9. \A k \in DOMAIN logs' \ todo' : k >= log_number' => Records(logs'[k]) \subseteq Holds(tables', edit'.add)
    <3>1. SUFFICES ASSUME NEW k \in DOMAIN logs \ todo', k >= log_number
                   PROVE  Records(logs[k]) \subseteq Holds(tables, edit.add) \cup R
      BY <1>4, <1>6, <1>20
    <3>2. CASE k = n
      BY <1>5, <3>2
    <3>3. CASE k # n
      BY <1>7, <1>9, <3>1, <3>3
    <3> QED
      BY <3>2, <3>3
  <2>10. \A i \in Holds(tables', edit'.add) : seq'[i] <= last_sequence'
    <3>1. Holds(tables, edit.add) \subseteq 1 .. Len(seq)
      BY <1>9, <1>11, HoldsType DEF Updates
    <3>2. \A i \in Holds(tables, edit.add) : seq[i] <= last_sequence'
      BY <1>9, <1>10, <1>15, <3>1
    <3> QED
      BY <1>4, <1>6, <1>15, <1>20, <3>2
  <2> QED
    BY <2>2, <2>3, <2>4, <2>5, <2>6, <2>7, <2>8, <2>9, <2>10, Zenon DEF RecoveringLogs
<1>22. NothingInMemory'
  BY <1>2, <1>4, <1>7 DEF NothingInMemory
<1>23. DownInv'
  BY <1>1, <1>4, <1>21, <1>22 DEF DownInv
<1> QED
  BY <1>1, <1>4, <1>17, <1>18, <1>19, <1>23, DownStep

\* The new log and the edit that retires the old ones.
LEMMA OpenLogStep ==
  ASSUME Inv, OpenLog
  PROVE  Inv'
<1>1. pc = "logs" /\ ~descriptor /\ todo = {}
  BY UpByPhase DEF OpenLog
<1>2. RecoveringLogs /\ NothingInMemory
  BY <1>1, DownFacts
<1>3. PICK nf, m, b : nf = next_file_number /\ m = manifest_file_number /\ b = edit
  OBVIOUS
<1>4. PICK f, e : f = Manifest /\ e = FinalEdit(Manifest)
  OBVIOUS
<1>5. /\ current # 0 /\ job = "none" /\ logfile_number = 0
      /\ live = FinalVersion(f) /\ log_number = e.log /\ m = e.next /\ m < nf /\ e.seq <= last_sequence
      /\ (\A k \in DOMAIN logs : k < nf)
      /\ b.del = {} /\ b.add \subseteq DOMAIN tables
      /\ (\A k \in b.add : m < k /\ k < nf)
      /\ Holds(tables, b.add) \subseteq UpdatesIn(logs, log_number)
      /\ (\A k \in DOMAIN logs : k >= log_number => Records(logs[k]) \subseteq Holds(tables, b.add))
      /\ (\A i \in Holds(tables, b.add) : seq[i] <= last_sequence)
  BY <1>1, <1>2, <1>3, <1>4 DEF RecoveringLogs
<1>6. /\ logs' = Put(logs, nf, NewWritableFile) /\ logfile_number' = nf /\ next_file_number' = nf + 1
      /\ LogAndApply([b EXCEPT !.log = nf], "open") /\ files_to_delete' = files_to_delete
      /\ tables' = tables /\ manifests' = manifests /\ current' = current
      /\ live' = live /\ log_number' = log_number /\ manifest_file_number' = manifest_file_number
      /\ descriptor' = descriptor /\ last_sequence' = last_sequence /\ mem' = mem /\ imm' = imm /\ has_imm' = has_imm
      /\ bg_error' = bg_error /\ pending_outputs' = pending_outputs
      /\ output' = output /\ compaction' = compaction /\ iterator' = iterator /\ todo' = todo
      /\ seq' = seq /\ owed' = owed /\ durable' = durable /\ covered' = covered
  BY <1>1, <1>3, <1>5 DEF OpenLog, version, history
<1>7. /\ nf \in Nat /\ m \in Nat /\ last_sequence \in Nat /\ log_number \in Nat /\ seq \in Seq(Nat) /\ b \in Edits
      /\ DOMAIN logs \subseteq Nat /\ DOMAIN tables \subseteq Nat /\ current \in Nat /\ nf # 0 /\ nf \notin DOMAIN logs
  <2>1. /\ nf \in Nat /\ m \in Nat /\ last_sequence \in Nat /\ log_number \in Nat /\ seq \in Seq(Nat) /\ b \in Edits
        /\ DOMAIN logs \subseteq Nat /\ DOMAIN tables \subseteq Nat /\ current \in Nat
    BY <1>3 DEF Inv, MemoryTypes, DiskTypes, Directory, TableFiles
  <2> QED
    BY <1>5, <2>1
<1>8. /\ edit' \in Edits /\ edit'.add = b.add /\ edit'.del = {} /\ edit'.log = nf
      /\ edit'.next = nf + 1 /\ edit'.seq = last_sequence /\ job' = "open" /\ pc' = "append"
  <2>1. PICK h : h = [b EXCEPT !.log = nf]
    OBVIOUS
  <2>2. h \in Edits /\ h.add = b.add /\ h.del = b.del /\ h.log = nf
    BY <1>7, <2>1 DEF Edits
  <2>3. LogAndApply(h, "open") /\ next_file_number' \in Nat
    BY <1>6, <1>7, <2>1
  <2>4. /\ edit' \in Edits /\ edit'.add = h.add /\ edit'.del = h.del /\ edit'.log = h.log
        /\ edit'.next = next_file_number' /\ edit'.seq = last_sequence /\ job' = "open" /\ pc' = "append"
    BY <1>7, <2>2, <2>3, CountersAdded
  <2> QED
    BY <1>5, <1>6, <2>2, <2>4
<1>9. \A l : UpdatesIn(logs', l) = UpdatesIn(logs, l) /\ SyncedIn(logs', l) = SyncedIn(logs, l)
  BY <1>6, <1>7, NewLog
<1>10. Restarts(tables, logs, seq, owed, durable, current, f) /\ WholeFile(f, Edits) /\ current \in DOMAIN manifests
  BY <1>4, <1>5, CurrentManifest
<1>11. /\ current < e.next
       /\ Restart(tables, logs, seq, owed, durable, FinalVersion(f), e.log, e.next, e.seq)
  BY <1>4, <1>10, RestartsFinal
<1>12. DiskTypes'
  <2>1. WholeFile(NewWritableFile, Updates)
    BY NewFileIsWhole
  <2>2. Directory(logs', Updates)
    BY <1>6, <1>7, <2>1, PutInDirectory DEF Inv, DiskTypes
  <2>3. Updates' = Updates
    BY <1>6 DEF Updates
  <2> QED
    BY <1>6, <2>2, <2>3 DEF Inv, DiskTypes
<1>13. MemoryTypes'
  <2>1. Updates' = Updates /\ next_file_number' \in Nat /\ logfile_number' \in Nat
    BY <1>6, <1>7 DEF Updates
  <2> QED
    BY <1>6, <1>8, <2>1 DEF Inv, MemoryTypes
<1>14. DiskInv'
  <2>1. ASSUME NEW k \in Points(f),
               Restart(tables, logs, seq, owed, durable, VersionAt(f, k), f.recs[k].log, f.recs[k].next, f.recs[k].seq)
        PROVE  Restart(tables, logs', seq, owed, durable, VersionAt(f, k), f.recs[k].log, f.recs[k].next, f.recs[k].seq)
    BY <1>9, <2>1, RestartLogs
  <2>2. Restarts(tables, logs', seq, owed, durable, current, f)
    BY <1>10, <2>1, RestartsMap
  <2>3. Manifest' = f
    BY <1>4, <1>6 DEF Manifest
  <2> QED
    BY <1>5, <1>6, <1>10, <2>2, <2>3 DEF DiskInv
<1>15. NothingInMemory'
  BY <1>2, <1>6 DEF NothingInMemory
<1>16. UpdatesIn(logs', nf) = {} /\ SyncedIn(logs', nf) = {}
  <2>1. {k \in DOMAIN logs : k >= nf} = {}
    BY <1>5, <1>7
  <2>2. UpdatesIn(logs, nf) = {} /\ SyncedIn(logs, nf) = {}
    BY <2>1, Zenon DEF UpdatesIn, SyncedIn
  <2> QED
    BY <1>9, <2>2
<1>17. PICK V, a : V = live \cup b.add /\ a = Holds(tables, b.add)
  OBVIOUS
<1>18. PICK A, U : A = Holds(tables, live) /\ U = UpdatesIn(logs, log_number)
  OBVIOUS
<1>19. Holds(tables, V) = A \cup a
  BY <1>17, <1>18, HoldsUnion
<1>20. a \subseteq U /\ U \subseteq a
  <2>1. U \subseteq a
    BY <1>5, <1>17, <1>18, Zenon DEF UpdatesIn
  <2> QED
    BY <1>5, <1>17, <1>18, <2>1
<1>21. /\ e.seq \in Nat /\ e.next \in Nat /\ live \subseteq DOMAIN tables /\ (\A n \in live : n < e.next)
       /\ (\A i \in A : seq[i] <= e.seq) /\ owed \subseteq A \cup U /\ Ordered(seq, A \cup U)
  BY <1>5, <1>11, <1>18, Zenon DEF Restart
<1>22. owed \subseteq Holds(tables, V)
  BY <1>19, <1>20, <1>21
<1>23. Restart(tables, logs', seq, owed, durable, V, nf, nf + 1, last_sequence)
  <2>1. V \subseteq DOMAIN tables /\ \A n \in V : n < nf + 1
    <3>1. ASSUME NEW n \in live PROVE n < nf + 1
      <4>1. n < m /\ n \in Nat
        BY <1>5, <1>7, <1>21
      <4> QED
        BY <1>5, <1>7, <4>1
    <3>2. ASSUME NEW n \in b.add PROVE n < nf + 1
      <4>1. n < nf /\ n \in Nat
        BY <1>5, <1>7
      <4> QED
        BY <1>7, <4>1
    <3> QED
      BY <1>5, <1>17, <1>21, <3>1, <3>2
  <2>2. \A i \in Holds(tables, V) : seq[i] <= last_sequence
    <3>1. A \subseteq 1 .. Len(seq)
      BY <1>18, <1>21, HoldsType DEF Inv, DiskTypes, Updates
    <3>2. PICK s : s = e.seq
      OBVIOUS
    <3>3. s \in Nat /\ s <= last_sequence /\ \A i \in A : seq[i] <= s
      BY <1>5, <1>21, <3>2
    <3>4. \A i \in A : seq[i] <= last_sequence
      BY <1>7, <3>1, <3>3
    <3> QED
      BY <1>5, <1>17, <1>19, <3>4
  <2>3. owed \subseteq Holds(tables, V) \cup UpdatesIn(logs', nf) /\ owed \cap durable \subseteq Holds(tables, V) \cup SyncedIn(logs', nf)
    BY <1>22
  <2>4. Ordered(seq, Holds(tables, V) \cup UpdatesIn(logs', nf))
    <3>1. Holds(tables, V) \cup UpdatesIn(logs', nf) \subseteq A \cup U
      BY <1>16, <1>19, <1>20
    <3> QED
      BY <1>21, <3>1, OrderedPart
  <2>5. nf + 1 \in Nat /\ nf < nf + 1
    BY <1>7
  <2> QED
    BY <1>7, <2>1, <2>2, <2>3, <2>4, <2>5, Zenon DEF Restart
<1>24. nf \in DOMAIN logs' /\ logs'[nf] = NewWritableFile /\ DOMAIN logs' = DOMAIN logs \cup {nf}
  BY <1>6 DEF Put
<1>25. WritingManifest'
  <2>1. /\ current' # 0 /\ job' = "open" /\ current' < manifest_file_number' /\ manifest_file_number' < edit'.next
        /\ edit'.del = {} /\ edit'.log = logfile_number' /\ edit'.next = next_file_number' /\ edit'.seq = last_sequence'
    <3>1. current < m /\ m < nf + 1
      BY <1>5, <1>7, <1>11
    <3> QED
      BY <1>3, <1>5, <1>6, <1>8, <3>1, Zenon
  <2>2. Restart(tables', logs', seq', owed', durable', live' \cup edit'.add, edit'.log, edit'.next, edit'.seq)
    BY <1>6, <1>8, <1>17, <1>23
  <2>3. owed' \subseteq Holds(tables', live' \cup edit'.add)
    BY <1>6, <1>8, <1>17, <1>22
  <2>4. logfile_number' \in DOMAIN logs' /\ logs'[logfile_number'].torn = {} /\ UpdatesIn(logs', logfile_number') = {}
    BY <1>6, <1>16, <1>24, NewFileIsWhole
  <2>5. \A n \in DOMAIN logs' : n < next_file_number'
    BY <1>5, <1>6, <1>7, <1>24
  <2>6. pc' \notin {"sync", "setcurrent"}
    BY <1>8
  <2> QED
    BY <2>1, <2>2, <2>3, <2>4, <2>5, <2>6, Zenon DEF WritingManifest
<1>26. DownInv'
  BY <1>8, <1>15, <1>25 DEF DownInv
<1> QED
  BY <1>1, <1>6, <1>12, <1>13, <1>14, <1>26, DownStep

\* The MANIFEST that CURRENT does not name yet is written.
LEMMA NewManifestStep ==
  ASSUME Inv, ~descriptor, pc \in {"append", "sync"}, NEW g, manifests' = Put(manifests, manifest_file_number, g),
         WholeFile(g, Edits), g.recs = <<Snapshot, edit>>, g.torn = {}, pc' \in {"sync", "setcurrent"},
         pc' = "setcurrent" => g.synced = 2,
         UNCHANGED <<logs, tables, current, version, next_file_number, last_sequence, memory, bg_error,
                     pending_outputs, iterator, job, edit, output, compaction, todo, files_to_delete,
                     seq, owed, durable, covered>>
  PROVE  Inv'
<1>1. WritingManifest /\ NothingInMemory
  BY DownFacts
<1>2. /\ logs' = logs /\ tables' = tables /\ current' = current
      /\ next_file_number' = next_file_number /\ last_sequence' = last_sequence
      /\ live' = live /\ log_number' = log_number /\ manifest_file_number' = manifest_file_number
      /\ descriptor' = descriptor /\ mem' = mem /\ imm' = imm /\ has_imm' = has_imm
      /\ logfile_number' = logfile_number /\ bg_error' = bg_error
      /\ pending_outputs' = pending_outputs /\ edit' = edit /\ job' = job /\ files_to_delete' = files_to_delete
      /\ output' = output /\ compaction' = compaction /\ todo' = todo /\ iterator' = iterator
      /\ seq' = seq /\ owed' = owed /\ durable' = durable /\ covered' = covered
  BY DEF version, memory
<1>3. /\ current # 0 /\ current \in Nat /\ manifest_file_number \in Nat /\ current # manifest_file_number
      /\ manifest_file_number # 0
  <2>1. current # 0 /\ current < manifest_file_number
    BY <1>1 DEF WritingManifest
  <2>2. current \in Nat /\ manifest_file_number \in Nat
    BY DEF Inv, MemoryTypes, DiskTypes
  <2> QED
    BY <2>1, <2>2
<1>4. /\ DOMAIN manifests' = DOMAIN manifests \cup {manifest_file_number}
      /\ manifests'[manifest_file_number] = g
  BY DEF Put
<1>5. current \in DOMAIN manifests /\ Restarts(tables, logs, seq, owed, durable, current, Manifest)
  BY <1>3, CurrentManifest
<1>6. manifests'[current] = manifests[current]
  BY <1>3, <1>5 DEF Put
<1>7. Manifest' = Manifest
  BY <1>2, <1>6 DEF Manifest
<1>8. DiskTypes'
  <2>1. Directory(manifests', Edits)
    BY <1>3, PutInDirectory DEF Inv, DiskTypes
  <2>2. Updates' = Updates
    BY <1>2 DEF Updates
  <2> QED
    BY <1>2, <2>1, <2>2 DEF Inv, DiskTypes
<1>9. MemoryTypes'
  BY <1>2 DEF Inv, MemoryTypes, Updates
<1>10. DiskInv'
  BY <1>2, <1>3, <1>4, <1>5, <1>7 DEF DiskInv
<1>11. Snapshot' = Snapshot
  BY <1>2 DEF Snapshot
<1>12. WritingManifest'
  <2>1. /\ current' # 0 /\ job' = "open" /\ current' < manifest_file_number' /\ manifest_file_number' < edit'.next
        /\ edit'.del = {} /\ edit'.log = logfile_number' /\ edit'.next = next_file_number' /\ edit'.seq = last_sequence'
        /\ Restart(tables', logs', seq', owed', durable', live' \cup edit'.add, edit'.log, edit'.next, edit'.seq)
        /\ owed' \subseteq Holds(tables', live' \cup edit'.add)
        /\ logfile_number' \in DOMAIN logs' /\ logs'[logfile_number'].torn = {} /\ UpdatesIn(logs', logfile_number') = {}
        /\ \A n \in DOMAIN logs' : n < next_file_number'
    BY <1>1, <1>2, Zenon DEF WritingManifest
  <2>2. /\ manifest_file_number' \in DOMAIN manifests' /\ manifests'[manifest_file_number'] = g
        /\ <<Snapshot', edit'>> = <<Snapshot, edit>>
    BY <1>2, <1>4, <1>11
  <2>3. /\ manifests'[manifest_file_number'].recs = <<Snapshot', edit'>>
        /\ manifests'[manifest_file_number'].torn = {}
        /\ pc' = "setcurrent" => manifests'[manifest_file_number'].synced = 2
    BY <2>2, Zenon
  <2> QED
    BY <2>1, <2>2, <2>3, Zenon DEF WritingManifest
<1>13. NothingInMemory'
  BY <1>1, <1>2 DEF NothingInMemory
<1>14. DownInv'
  BY <1>12, <1>13 DEF DownInv
<1> QED
  BY <1>2, <1>8, <1>9, <1>10, <1>14, DownStep

\* Append, for elements of a known set.
LEMMA AppendFacts ==
  ASSUME NEW S, NEW s \in Seq(S), NEW e \in S
  PROVE  /\ Append(s, e) \in Seq(S) /\ Len(Append(s, e)) = Len(s) + 1 /\ Append(s, e)[Len(s) + 1] = e
         /\ \A i \in 1 .. Len(s) : Append(s, e)[i] = s[i]
OBVIOUS

\* Two appends make a pair.
LEMMA AppendSecond ==
  ASSUME NEW S, NEW a \in S, NEW e \in S
  PROVE  Append(<<a>>, e) = <<a, e>>
<1>1. <<a>> \in Seq(S) /\ <<a, e>> \in Seq(S)
  OBVIOUS
<1>2. PICK s : s = <<a>>
  OBVIOUS
<1>3. s \in Seq(S) /\ Len(s) = 1 /\ s[1] = a /\ 1 \in 1 .. Len(s)
  BY <1>1, <1>2
<1>4. PICK t : t = Append(s, e)
  OBVIOUS
<1>5. t \in Seq(S) /\ Len(t) = 1 + 1 /\ t[1] = a /\ t[1 + 1] = e
  <2>1. s \in Seq(S)
    BY <1>3
  <2>2. /\ Append(s, e) \in Seq(S) /\ Len(Append(s, e)) = Len(s) + 1 /\ Append(s, e)[Len(s) + 1] = e
        /\ \A i \in 1 .. Len(s) : Append(s, e)[i] = s[i]
    BY <2>1, AppendFacts
  <2> QED
    BY <1>3, <1>4, <2>2, Zenon
<1>6. t = <<a, e>>
  BY <1>5
<1> QED
  BY <1>2, <1>4, <1>6

\* A new MANIFEST with a snapshot and an edit.
LEMMA TwoRecords ==
  ASSUME NEW S, NEW a \in S, NEW e \in S
  PROVE  AddRecord(AddRecord(NewWritableFile, a), e) = [recs |-> <<a, e>>, synced |-> 0, torn |-> {}]
<1>1. Append(<<>>, a) = <<a>>
  OBVIOUS
<1>2. PICK f : f = NewWritableFile
  OBVIOUS
<1>3. f.recs = <<>> /\ [f EXCEPT !.recs = <<a>>] = [recs |-> <<a>>, synced |-> 0, torn |-> {}]
  <2>1. PICK x, y : x = <<a>> /\ y = <<>>
    OBVIOUS
  <2>2. f = [recs |-> y, synced |-> 0, torn |-> {}]
    BY <1>2, <2>1, Zenon DEF NewWritableFile
  <2>3. f.recs = y /\ [f EXCEPT !.recs = x] = [recs |-> x, synced |-> 0, torn |-> {}]
    BY <2>2
  <2> QED
    BY <2>1, <2>3, Zenon
<1>4. AddRecord(f, a) = [recs |-> <<a>>, synced |-> 0, torn |-> {}]
  BY <1>1, <1>3, Zenon DEF AddRecord
<1>5. Append(<<a>>, e) = <<a, e>>
  BY AppendSecond
<1>6. PICK h : h = [recs |-> <<a>>, synced |-> 0, torn |-> {}]
  OBVIOUS
<1>7. [h EXCEPT !.recs = <<a, e>>] = [recs |-> <<a, e>>, synced |-> 0, torn |-> {}] /\ h.recs = <<a>>
  BY <1>6
<1>8. AddRecord(h, e) = [recs |-> <<a, e>>, synced |-> 0, torn |-> {}]
  BY <1>5, <1>7, Zenon DEF AddRecord
<1> QED
  BY <1>2, <1>4, <1>6, <1>8, Zenon

\* The pending edit may be on the disk or not: both restart.
LEMMA AppendEditStep ==
  ASSUME Inv, AppendEdit
  PROVE  Inv'
<1>1. CASE descriptor
  BY <1>1, AppendEditUp
<1>2. CASE ~descriptor
  <2>1. PICK a, e : a = Snapshot /\ e = edit
    OBVIOUS
  <2>2. a \in Edits /\ e \in Edits
    BY <2>1, SnapshotType DEF Inv, MemoryTypes
  <2>3. PICK g : g = AddRecord(AddRecord(NewWritableFile, a), e)
    OBVIOUS
  <2>4. g = [recs |-> <<a, e>>, synced |-> 0, torn |-> {}]
    BY <2>2, <2>3, TwoRecords
  <2>5. WholeFile(g, Edits) /\ g.recs = <<a, e>> /\ g.torn = {}
    BY <2>2, <2>4 DEF WholeFile, FileOf
  <2>6. manifests' = Put(manifests, manifest_file_number, g) /\ pc = "append" /\ pc' = "sync"
    BY <1>2, <2>1, <2>3 DEF AppendEdit
  <2>7. UNCHANGED <<logs, tables, current, version, next_file_number, last_sequence, memory, bg_error,
                    pending_outputs, iterator, job, edit, output, compaction, todo, files_to_delete,
                    seq, owed, durable, covered>>
    BY DEF AppendEdit
  <2>8. g.recs = <<Snapshot, edit>> /\ pc \in {"append", "sync"} /\ pc' \in {"sync", "setcurrent"} /\ pc' # "setcurrent"
    BY <2>1, <2>5, <2>6
  <2> QED
    BY <1>2, <2>5, <2>6, <2>7, <2>8, NewManifestStep
<1> QED
  BY <1>1, <1>2

\* The new MANIFEST is complete before CURRENT can name it.
LEMMA SyncNewManifestStep ==
  ASSUME Inv, SyncNewManifest
  PROVE  Inv'
<1>1. pc = "sync" /\ ~descriptor /\ pc' = "setcurrent"
  BY DEF SyncNewManifest
<1>2. PICK f, g : f = manifests[manifest_file_number] /\ g = Sync(f)
  OBVIOUS
<1>3. f.recs = <<Snapshot, edit>> /\ f.torn = {} /\ WholeFile(f, Edits)
  BY <1>1, <1>2, DownFacts DEF WritingManifest, Inv, DiskTypes, Directory
<1>4. WholeFile(g, Edits) /\ g.recs = f.recs /\ g.torn = f.torn /\ g.synced = Len(f.recs)
  BY <1>2, <1>3, SyncedFile
<1>5. g.synced = 2
  BY <1>3, <1>4
<1>6. manifests' = Put(manifests, manifest_file_number, g)
  BY <1>2 DEF SyncNewManifest, SyncManifest
<1>7. UNCHANGED <<logs, tables, current, version, next_file_number, last_sequence, memory, bg_error,
                  pending_outputs, iterator, job, edit, output, compaction, todo, files_to_delete,
                  seq, owed, durable, covered>>
  BY DEF SyncNewManifest, history
<1>8. g.recs = <<Snapshot, edit>> /\ g.torn = {} /\ pc \in {"append", "sync"} /\ pc' \in {"sync", "setcurrent"}
  BY <1>1, <1>3, <1>4
<1> QED
  BY <1>1, <1>4, <1>5, <1>6, <1>7, <1>8, NewManifestStep

\* The new MANIFEST takes the place of the old one.
LEMMA SetCurrentFileStep ==
  ASSUME Inv, SetCurrentFile
  PROVE  Inv'
<1>1. pc = "setcurrent" /\ current' = manifest_file_number /\ manifests' = manifests /\ Install
  BY DEF SetCurrentFile
<1>2. ~descriptor
  BY <1>1, UpByPhase
<1>3. NothingInMemory /\ WritingManifest
  BY <1>1, <1>2, DownFacts
<1>4. PICK m, e, a : m = manifest_file_number /\ e = edit /\ a = Snapshot
  OBVIOUS
<1>5. PICK g, W : g = manifests[m] /\ W = live \cup e.add
  OBVIOUS
<1>6. /\ current # 0 /\ job = "open" /\ current < m /\ m < e.next
      /\ e.del = {} /\ e.log = logfile_number /\ e.next = next_file_number /\ e.seq = last_sequence
      /\ Restart(tables, logs, seq, owed, durable, W, e.log, e.next, e.seq)
      /\ owed \subseteq Holds(tables, W)
      /\ logfile_number \in DOMAIN logs /\ logs[logfile_number].torn = {} /\ UpdatesIn(logs, logfile_number) = {}
      /\ (\A n \in DOMAIN logs : n < next_file_number)
      /\ m \in DOMAIN manifests /\ g.recs = <<a, e>> /\ g.torn = {} /\ g.synced = 2
  BY <1>1, <1>3, <1>4, <1>5 DEF WritingManifest
<1>7. /\ mem = {} /\ imm = {} /\ has_imm = FALSE /\ bg_error = FALSE /\ pending_outputs = {} /\ iterator = {}
      /\ compaction = NoCompaction
  BY <1>3 DEF NothingInMemory
<1>8. /\ e.log \in Nat /\ e.next \in Nat /\ e.seq \in Nat /\ W \subseteq DOMAIN tables /\ (\A n \in W : n < e.next)
      /\ (\A i \in Holds(tables, W) : seq[i] <= e.seq)
      /\ Ordered(seq, Holds(tables, W) \cup UpdatesIn(logs, e.log))
  BY <1>6, Zenon DEF Restart
<1>9. e \in Edits /\ a \in Edits /\ a.add = live /\ m \in Nat /\ current \in Nat /\ WholeFile(g, Edits)
  BY <1>4, <1>5, <1>6, SnapshotType DEF Inv, MemoryTypes, DiskTypes, Directory
<1>10. edit.log \in Nat /\ edit.add \subseteq DOMAIN tables
  BY <1>4, <1>5, <1>8
<1>11. /\ live' = (live \ edit.del) \cup edit.add /\ log_number' = edit.log /\ descriptor' = TRUE
      /\ imm' = (IF job = "flush" THEN {} ELSE imm) /\ has_imm' = (IF job = "flush" THEN FALSE ELSE has_imm)
      /\ compaction' = (IF job = "compact" THEN NoCompaction ELSE compaction)
      /\ pending_outputs' = pending_outputs \ (IF job = "compact" THEN {compaction.output} ELSE {})
      /\ edit' = NoEdit /\ durable' = durable \cup Holds(tables, edit.add)
      /\ logs' = logs /\ tables' = tables /\ manifest_file_number' = manifest_file_number
      /\ next_file_number' = next_file_number /\ last_sequence' = last_sequence /\ mem' = mem
      /\ logfile_number' = logfile_number /\ bg_error' = bg_error /\ iterator' = iterator /\ output' = output
      /\ todo' = todo /\ seq' = seq /\ owed' = owed /\ covered' = covered
  BY <1>1, <1>10, InstallEffect
<1>12. /\ pc' \in {"delete", "idle", "compacting"}
      /\ (pc' = "idle" => compaction' = NoCompaction)
      /\ (pc' = "compacting" => compaction' # NoCompaction)
      /\ (pc' # "delete" => files_to_delete' = {})
      /\ (\A x \in files_to_delete' :
            /\ x[1] = "table" => x[2] \notin live' \cup iterator' \cup pending_outputs'
            /\ x[1] = "log" => x[2] < log_number'
            /\ x[1] = "manifest" => x[2] < manifest_file_number)
      /\ MemoryTypes'
  BY <1>1, <1>10, InstallEffect
<1>13. /\ live' = W /\ imm' = {} /\ has_imm' = FALSE /\ mem' = {} /\ compaction' = NoCompaction
       /\ pending_outputs' = {} /\ iterator' = {} /\ log_number' = logfile_number
  BY <1>4, <1>5, <1>6, <1>7, <1>11
<1>14. Len(g.recs) = 2 /\ FinalEdit(g) = e /\ FinalVersion(g) = W /\ Points(g) = {2} /\ VersionAt(g, 2) = W /\ g.recs[2] = e
  <2>1. Len(g.recs) = 2 /\ g.recs[2] = e
    BY <1>6
  <2>2. FinalVersion(g) = W
    BY <1>5, <1>6, <1>9, ReplayPair DEF FinalVersion
  <2>3. VersionAt(g, 2) = W
    BY <1>9, <2>1, <2>2, FinalIsReplayed
  <2>4. 2 .. 2 = {2}
    OBVIOUS
  <2> QED
    BY <1>6, <2>1, <2>2, <2>3, <2>4 DEF FinalEdit, Points
<1>15. Manifest' = g
  BY <1>1, <1>4, <1>5 DEF Manifest
<1>16. DiskTypes'
  <2>1. Updates' = Updates
    BY <1>11 DEF Updates
  <2> QED
    BY <1>1, <1>4, <1>9, <1>11, <2>1 DEF Inv, DiskTypes
<1>17. DiskInv'
  <2>1. Holds(tables, edit.add) \subseteq Holds(tables, W)
    BY <1>4, <1>5, HoldsUnion
  <2>2. Restart(tables, logs, seq, owed, durable', W, e.log, e.next, e.seq)
    BY <1>6, <1>11, <2>1, RestartDurable
  <2>3. e.next <= e.next
    BY <1>8
  <2>4. RestartAt(tables, logs, seq, owed, durable', m, g, 2)
    BY <1>6, <1>14, <2>2, <2>3, Zenon DEF RestartAt
  <2>5. Restarts(tables, logs, seq, owed, durable', m, g)
    <3>1. 2 >= 1
      OBVIOUS
    <3>2. \A k \in Points(g) : RestartAt(tables, logs, seq, owed, durable', m, g, k)
      BY <1>14, <2>4, Zenon
    <3> QED
      BY <1>6, <3>1, <3>2, Zenon DEF Restarts
  <2>6. m # 0
    BY <1>6, <1>9
  <2> QED
    BY <1>1, <1>4, <1>6, <1>11, <1>15, <2>5, <2>6 DEF DiskInv
<1>18. UpNumbers'
  <2>1. current' # 0 /\ manifest_file_number' = current' /\ Manifest'.torn = {}
    BY <1>1, <1>4, <1>6, <1>9, <1>11, <1>15
  <2>2. /\ logfile_number' \in DOMAIN logs' /\ logs'[logfile_number'].torn = {}
        /\ \A n \in DOMAIN logs' : n < next_file_number'
    BY <1>6, <1>11
  <2>3. log_number' <= logfile_number'
    BY <1>6, <1>8, <1>11, <1>13
  <2>4. /\ \A n \in live' \cup iterator' \cup pending_outputs' : n < next_file_number'
        /\ 0 \notin pending_outputs' /\ live' \cup iterator' \subseteq DOMAIN tables'
    BY <1>6, <1>8, <1>11, <1>13
  <2>5. compaction'.inputs \subseteq live'
    BY <1>13 DEF NoCompaction
  <2> QED
    BY <1>11, <1>12, <2>1, <2>2, <2>3, <2>4, <2>5, Zenon DEF UpNumbers
<1>19. UpSequences'
  <2>1. \A i \in Holds(tables, W) \cup UpdatesIn(logs, logfile_number) : seq[i] <= last_sequence
    BY <1>6, <1>8
  <2>2. Ordered(seq, Holds(tables, W) \cup Holds(tables, W) \cup UpdatesIn(logs, logfile_number))
    <3>1. Holds(tables, W) \cup Holds(tables, W) \cup UpdatesIn(logs, logfile_number)
             = Holds(tables, W) \cup UpdatesIn(logs, e.log)
      BY <1>6
    <3> QED
      BY <1>8, <3>1
  <2>3. e.seq <= last_sequence /\ e.next <= next_file_number /\ e.log <= logfile_number
    <3>1. last_sequence <= last_sequence /\ next_file_number <= next_file_number /\ logfile_number <= logfile_number
      BY DEF Inv, MemoryTypes
    <3> QED
      BY <1>6, <3>1, Zenon
  <2>4. \A i \in UpdatesIn(logs, e.log) : seq[i] <= last_sequence
    BY <1>6
  <2>5. \A k \in Points(g) :
          /\ g.recs[k].seq <= last_sequence /\ g.recs[k].next <= next_file_number
          /\ g.recs[k].log <= logfile_number
          /\ \A i \in UpdatesIn(logs, g.recs[k].log) : seq[i] <= last_sequence
    BY <1>14, <2>3, <2>4, Zenon
  <2> QED
    BY <1>11, <1>13, <1>14, <1>15, <2>1, <2>2, <2>5, Zenon DEF UpSequences
<1>20. UpData'
  <2>1. /\ mem' \subseteq Records(logs'[logfile_number'])
        /\ mem' \cap durable' \subseteq SyncedRecords(logs'[logfile_number'])
        /\ imm' \subseteq UpdatesIn(logs', log_number') /\ imm' \cap durable' \subseteq SyncedIn(logs', log_number')
        /\ mem' \cap imm' = {} /\ Holds(tables', live') \cap (mem' \cup imm') = {}
        /\ ~has_imm' => imm' = {}
    BY <1>13
  <2>2. /\ owed' \subseteq mem' \cup imm' \cup Holds(tables', live')
        /\ owed' \subseteq mem' \cup imm' \cup Holds(tables', FinalVersion(Manifest'))
    BY <1>6, <1>11, <1>13, <1>14, <1>15
  <2> QED
    BY <2>1, <2>2, Zenon DEF UpData
<1>21. UpManifest'
  <2>1. Settled'
    BY <1>4, <1>6, <1>11, <1>13, <1>14, <1>15 DEF Settled
  <2> QED
    BY <1>12, <2>1 DEF UpManifest
<1>22. UpOutputs'
  BY <1>12, <1>13 DEF UpOutputs
<1>23. UpDeletes'
  BY <1>1, <1>12 DEF UpDeletes
<1>24. UpEdit'
  BY <1>12 DEF UpEdit
<1>25. descriptor'
  BY <1>11
<1> QED
  BY <1>12, <1>16, <1>17, <1>18, <1>19, <1>20, <1>21, <1>22, <1>23, <1>24, <1>25, UpStep

-----------------------------------------------------------------------------
(* The invariant is inductive.                                              *)

LEMMA InitInv == Init => Inv
<1> SUFFICES ASSUME Init PROVE Inv
  OBVIOUS
<1>1. /\ logs = <<>> /\ tables = <<>> /\ manifests = <<>> /\ current = 0
      /\ live = {} /\ log_number = 0 /\ next_file_number = 0 /\ manifest_file_number = 0
      /\ last_sequence = 0 /\ descriptor = FALSE
      /\ mem = {} /\ imm = {} /\ has_imm = FALSE /\ logfile_number = 0
      /\ bg_error = FALSE /\ pending_outputs = {} /\ iterator = {}
      /\ pc = "down" /\ job = "none" /\ edit = NoEdit /\ output = 0
      /\ compaction = NoCompaction /\ todo = {} /\ files_to_delete = {}
      /\ seq = <<>> /\ owed = {} /\ durable = {} /\ covered = {}
  BY DEF Init
<1>2. DOMAIN logs = {} /\ DOMAIN tables = {} /\ DOMAIN manifests = {}
  BY <1>1
<1>3. NoEdit \in Edits /\ NoCompaction \in [inputs : SUBSET Nat, output : Nat]
  BY EditTypes DEF NoCompaction
<1>4. DiskTypes
  BY <1>1, <1>2 DEF DiskTypes, Directory, TableFiles
<1>5. MemoryTypes
  <2>1. seq \in Seq(Nat)
    BY <1>1
  <2>2. /\ log_number \in Nat /\ next_file_number \in Nat /\ manifest_file_number \in Nat
        /\ last_sequence \in Nat /\ logfile_number \in Nat /\ output \in Nat
    BY <1>1
  <2>3. compaction \in [inputs : SUBSET Nat, output : Nat] /\ edit \in Edits
    BY <1>1, <1>3, Zenon
  <2>4. /\ live \subseteq Nat /\ pending_outputs \subseteq Nat /\ iterator \subseteq Nat
        /\ todo \subseteq Nat /\ files_to_delete \subseteq {"log", "table", "manifest"} \X Nat
    BY <1>1, Zenon
  <2>5. /\ mem \subseteq Updates /\ imm \subseteq Updates
        /\ owed \subseteq Updates /\ durable \subseteq Updates /\ covered \subseteq Updates
    BY <1>1, Zenon
  <2>6. /\ descriptor \in BOOLEAN /\ has_imm \in BOOLEAN /\ bg_error \in BOOLEAN
        /\ job \in {"none", "open", "flush", "compact", "move"}
    BY <1>1
  <2> QED
    BY <2>1, <2>2, <2>3, <2>4, <2>5, <2>6 DEF MemoryTypes
<1>6. DiskInv
  BY <1>1, <1>2 DEF DiskInv
<1>7. NothingInMemory
  BY <1>1 DEF NothingInMemory
<1>8. DownInv
  BY <1>1, <1>7 DEF DownInv
<1>9. UpInv
  BY <1>1 DEF UpInv
<1> QED
  BY <1>4, <1>5, <1>6, <1>8, <1>9 DEF Inv

\* Nothing changes.
LEMMA StutterStep ==
  ASSUME Inv, UNCHANGED vars
  PROVE  Inv'
<1>1. /\ logs' = logs /\ tables' = tables /\ manifests' = manifests /\ current' = current
      /\ next_file_number' = next_file_number /\ last_sequence' = last_sequence
      /\ live' = live /\ log_number' = log_number /\ manifest_file_number' = manifest_file_number
      /\ descriptor' = descriptor /\ mem' = mem /\ imm' = imm /\ has_imm' = has_imm
      /\ logfile_number' = logfile_number /\ bg_error' = bg_error
      /\ pending_outputs' = pending_outputs /\ edit' = edit /\ job' = job /\ files_to_delete' = files_to_delete
      /\ output' = output /\ compaction' = compaction /\ todo' = todo /\ iterator' = iterator /\ pc' = pc
      /\ seq' = seq /\ owed' = owed /\ durable' = durable /\ covered' = covered
  BY DEF vars, disk, version, memory, thread, history
<1>2. DiskTypes' /\ MemoryTypes'
  BY <1>1 DEF Inv, DiskTypes, MemoryTypes, Updates
<1>3. Manifest' = Manifest /\ Snapshot' = Snapshot
  BY <1>1 DEF Manifest, Snapshot
<1>4. DiskInv'
  BY <1>1, <1>3 DEF Inv, DiskInv
<1>5. NothingInMemory = NothingInMemory'
  BY <1>1 DEF NothingInMemory
<1>6. RecoveringLogs = RecoveringLogs'
  BY <1>1, <1>3 DEF RecoveringLogs
<1>7. WritingManifest = WritingManifest'
  BY <1>1, <1>3 DEF WritingManifest
<1>8. DownInv'
  BY <1>1, <1>5, <1>6, <1>7 DEF Inv, DownInv
<1>9. Settled = Settled' /\ EditSound = EditSound' /\ \A n : Fresh(n) = Fresh(n)'
  BY <1>1, <1>3 DEF Settled, EditSound, Fresh
<1>10. UpInv'
  <2>1. SUFFICES ASSUME descriptor PROVE UpInv'
    BY <1>1 DEF UpInv
  <2>2. UpNumbers /\ UpSequences /\ UpData /\ UpManifest /\ UpOutputs /\ UpDeletes /\ UpEdit
    BY <2>1, UpFacts
  <2>3. UpNumbers'
    BY <1>1, <1>3, <2>2 DEF UpNumbers
  <2>4. UpSequences'
    BY <1>1, <1>3, <2>2 DEF UpSequences
  <2>5. UpData'
    BY <1>1, <1>3, <2>2 DEF UpData
  <2>6. UpManifest'
    BY <1>1, <1>3, <1>9, <2>2 DEF UpManifest
  <2>7. UpOutputs'
    BY <1>1, <1>3, <2>2 DEF UpOutputs, Fresh
  <2>8. UpDeletes'
    BY <1>1, <2>2 DEF UpDeletes
  <2>9. UpEdit'
    BY <1>1, <1>9, <2>2 DEF UpEdit
  <2> QED
    BY <2>3, <2>4, <2>5, <2>6, <2>7, <2>8, <2>9 DEF UpInv
<1> QED
  BY <1>2, <1>4, <1>8, <1>10 DEF Inv

\* Every step keeps the invariant.
LEMMA NextInv ==
  ASSUME Inv, [Next]_vars, CleanAppends
  PROVE  Inv'
<1>1. CASE NewDB
  BY <1>1, NewDBStep
<1>2. CASE NewDBSetCurrent
  BY <1>2, NewDBSetCurrentStep
<1>3. CASE RecoverFails
  BY <1>3, NeverRecoverFails
<1>4. CASE Recover
  BY <1>4, RecoverStep
<1>5. CASE RecoverLogFile
  BY <1>5, RecoverLogFileStep
<1>6. CASE OpenLog
  BY <1>6, OpenLogStep
<1>7. CASE AppendEdit
  BY <1>7, AppendEditStep
<1>8. CASE SyncAndInstall
  BY <1>8, SyncAndInstallStep
<1>9. CASE SyncNewManifest
  BY <1>9, SyncNewManifestStep
<1>10. CASE SetCurrentFile
  BY <1>10, SetCurrentFileStep
<1>11. CASE RemoveFile
  BY <1>11, RemoveFileStep
<1>12. CASE OpenFails
  BY <1>12, OpenFailsStep
<1>13. CASE \E sync \in BOOLEAN : Write(sync)
  BY <1>13, WriteStep
<1>14. CASE WriteSyncFails
  BY <1>14, WriteSyncFailsStep
<1>15. CASE WriteAppendFails
  BY <1>15 DEF WriteAppendFails, Fault, CleanAppends
<1>16. CASE SwitchMemTable
  BY <1>16, SwitchMemTableStep
<1>17. CASE FlushStart
  BY <1>17, FlushStartStep
<1>18. CASE FlushBuilt
  BY <1>18, FlushBuiltStep
<1>19. CASE FlushFails
  BY <1>19, FlushFailsStep
<1>20. CASE CompactionStart
  BY <1>20, CompactionStartStep
<1>21. CASE CompactionBuilt
  BY <1>21, CompactionBuiltStep
<1>22. CASE CompactionFails
  BY <1>22, CompactionFailsStep
<1>23. CASE TrivialMove
  BY <1>23, TrivialMoveStep
<1>24. CASE LogAndApplyFails
  BY <1>24, LogAndApplyFailsStep
<1>25. CASE NewIterator
  <2>1. descriptor
    BY <1>25, OpenIsUp DEF NewIterator
  <2>2. /\ iterator' \in {{}, live}
        /\ UNCHANGED <<disk, version, next_file_number, last_sequence, memory, bg_error, pending_outputs, thread, history>>
    BY <1>25 DEF NewIterator
  <2> QED
    BY <2>1, <2>2, IteratorStep
<1>26. CASE CleanupIteratorState
  <2>1. descriptor
    BY <1>26, UpByPhase DEF CleanupIteratorState
  <2>2. /\ iterator' \in {{}, live}
        /\ UNCHANGED <<disk, version, next_file_number, last_sequence, memory, bg_error, pending_outputs, thread, history>>
    BY <1>26 DEF CleanupIteratorState
  <2> QED
    BY <2>1, <2>2, IteratorStep
<1>27. CASE ProcessCrash
  BY <1>27, ProcessCrashStep
<1>28. CASE PowerFailure
  BY <1>28, PowerFailureStep
<1>29. CASE UNCHANGED vars
  BY <1>29, StutterStep
<1> QED
  BY <1>1, <1>2, <1>3, <1>4, <1>5, <1>6, <1>7, <1>8, <1>9, <1>10, <1>11, <1>12, <1>13, <1>14, <1>15, <1>16,
     <1>17, <1>18, <1>19, <1>20, <1>21, <1>22, <1>23, <1>24, <1>25, <1>26, <1>27, <1>28, <1>29, Zenon DEF Next

\* The invariant holds in every reachable state.
LEMMA InvHolds ==
  ASSUME CleanAppends
  PROVE  Spec => []Inv
<1>1. Inv /\ [Next]_vars => Inv'
  BY NextInv
<1> QED
  BY <1>1, InitInv, PTL DEF Spec

-----------------------------------------------------------------------------
(* What the invariant says.                                                 *)

\* DB::Open never answers with a corruption after a crash, a failure of the
\* machine or an I/O error: the MANIFEST that CURRENT names is there, has all
\* counters, and every table of its version has a file.
THEOREM OpenSucceedsHolds ==
  ASSUME CleanAppends
  PROVE  Spec => []OpenSucceeds
<1>1. Inv => OpenSucceeds
  BY UpByPhase DEF OpenSucceeds
<1> QED
  BY <1>1, InvHolds, PTL

\* An open database reads its memtables and the tables of its version.
LEMMA OpenReads ==
  ASSUME Inv, IsOpen
  PROVE  descriptor /\ Readable = mem \cup imm \cup Holds(tables, live)
<1>1. descriptor /\ live \subseteq DOMAIN tables
  BY OpenIsUp, UpFacts DEF UpNumbers
<1>2. live \cap DOMAIN tables = live
  BY <1>1
<1> QED
  BY <1>1, <1>2 DEF Readable, Contents, Holds

\* An open database has every update it owes: those acknowledged, except those
\* written without sync that a failure of the machine cut off.
THEOREM OwedIsReadableHolds ==
  ASSUME CleanAppends
  PROVE  Spec => []OwedIsReadable
<1>1. ASSUME Inv, IsOpen PROVE owed \subseteq Readable
  BY <1>1, OpenReads, UpFacts DEF UpData
<1>2. Inv => OwedIsReadable
  BY <1>1 DEF OwedIsReadable
<1> QED
  BY <1>2, InvHolds, PTL

\* No file that an open database uses is missing, about to be deleted, or has a
\* number that will be given to a new file.
THEOREM UsedFilesExistHolds ==
  ASSUME CleanAppends
  PROVE  Spec => []UsedFilesExist
<1>1. ASSUME Inv, IsOpen
      PROVE  /\ live \cup iterator \subseteq DOMAIN tables
             /\ logfile_number \in DOMAIN logs /\ manifest_file_number = current
             /\ \A n \in live \cup iterator \cup pending_outputs \cup {n \in DOMAIN logs : n >= log_number} :
                   n < next_file_number
             /\ \A f \in files_to_delete :
                   /\ f[1] = "table" => f[2] \notin live \cup iterator \cup pending_outputs
                   /\ f[1] = "log" => f[2] < log_number
                   /\ f[1] = "manifest" => f[2] # current
  <2>1. UpNumbers /\ UpDeletes
    BY <1>1, OpenIsUp, UpFacts
  <2>2. /\ live \cup iterator \subseteq DOMAIN tables
        /\ logfile_number \in DOMAIN logs /\ manifest_file_number = current
        /\ \A n \in live \cup iterator \cup pending_outputs \cup {n \in DOMAIN logs : n >= log_number} :
              n < next_file_number
    BY <2>1 DEF UpNumbers
  <2>3. current \in Nat /\ files_to_delete \subseteq {"log", "table", "manifest"} \X Nat
    BY <1>1 DEF Inv, DiskTypes, MemoryTypes
  <2>4. ASSUME NEW f \in files_to_delete, f[1] = "manifest" PROVE f[2] # current
    BY <2>1, <2>3, <2>4 DEF UpDeletes
  <2>5. \A f \in files_to_delete : /\ f[1] = "table" => f[2] \notin live \cup iterator \cup pending_outputs
                                   /\ f[1] = "log" => f[2] < log_number
    BY <2>1 DEF UpDeletes
  <2> QED
    BY <2>2, <2>4, <2>5, Zenon
<1>2. Inv => UsedFilesExist
  BY <1>1, Zenon DEF UsedFilesExist
<1> QED
  BY <1>2, InvHolds, PTL

\* Sequence numbers of the updates a database reads grow in the order of the
\* writes, across crashes, and are within last_sequence.
THEOREM SequencesGrowHolds ==
  ASSUME CleanAppends
  PROVE  Spec => []SequencesGrow
<1>1. ASSUME Inv, IsOpen
      PROVE  \A i \in Readable : /\ seq[i] <= last_sequence
                                 /\ \A j \in Readable : i < j => seq[i] < seq[j]
  <2>1. descriptor /\ Readable = mem \cup imm \cup Holds(tables, live) /\ UpNumbers /\ UpSequences /\ UpData
    BY <1>1, OpenReads, UpFacts
  <2>2. mem \subseteq UpdatesIn(logs, log_number) /\ imm \subseteq UpdatesIn(logs, log_number)
    <3>1. log_number \in Nat /\ logfile_number \in Nat /\ log_number <= logfile_number /\ logfile_number \in DOMAIN logs
      BY <1>1, <2>1 DEF UpNumbers, Inv, MemoryTypes
    <3>2. logfile_number >= log_number
      BY <3>1
    <3>3. Records(logs[logfile_number]) \subseteq UpdatesIn(logs, log_number)
      BY <3>1, <3>2, InLog
    <3> QED
      BY <2>1, <3>3 DEF UpData
  <2>3. Readable \subseteq Holds(tables, live) \cup UpdatesIn(logs, log_number)
    BY <2>1, <2>2
  <2>4. /\ \A i \in Holds(tables, live) \cup UpdatesIn(logs, log_number) : seq[i] <= last_sequence
        /\ Ordered(seq, Holds(tables, live) \cup Holds(tables, FinalVersion(Manifest)) \cup UpdatesIn(logs, log_number))
    BY <2>1 DEF UpSequences
  <2>5. Ordered(seq, Readable)
    BY <2>3, <2>4, OrderedPart
  <2> QED
    BY <2>3, <2>4, <2>5, Zenon DEF Ordered
<1>2. Inv => SequencesGrow
  BY <1>1, Zenon DEF SequencesGrow
<1> QED
  BY <1>2, InvHolds, PTL

\* Every variable keeps its type: in particular no log or MANIFEST has more
\* records known to be on the disk than it has records.
THEOREM TypeCorrect ==
  ASSUME CleanAppends
  PROVE  Spec => []TypeOK
<1>1. ASSUME Inv PROVE TypeOK
  <2>1. pc \in {"down", "created", "logs", "append", "sync", "setcurrent", "delete", "idle", "building", "compacting"}
    <3>1. CASE descriptor
      BY <1>1, <3>1, UpFacts DEF UpNumbers
    <3>2. CASE ~descriptor
      BY <1>1, <3>2, Zenon DEF Inv, DownInv
    <3> QED
      BY <3>1, <3>2
  <2>2. DiskTypes /\ MemoryTypes
    BY <1>1 DEF Inv
  <2>3. ASSUME NEW S, NEW f, WholeFile(f, S)
        PROVE  f.synced \in 0 .. Len(f.recs) /\ f.torn \subseteq 0 .. Len(f.recs) /\ \A i \in DOMAIN f.recs : f.recs[i] \in S
    <3>1. /\ f.recs \in Seq(S) /\ Len(f.recs) \in Nat /\ f.synced \in 0 .. Len(f.recs)
          /\ f.torn \subseteq {Len(f.recs)} /\ \A i \in 1 .. Len(f.recs) : f.recs[i] \in S
      BY <2>3, WholeFileType
    <3>2. DOMAIN f.recs = 1 .. Len(f.recs) /\ Len(f.recs) \in 0 .. Len(f.recs)
      BY <3>1
    <3> QED
      BY <3>1, <3>2, Zenon
  <2>4. \A n \in DOMAIN logs :
           /\ logs[n].synced \in 0 .. Len(logs[n].recs) /\ logs[n].torn \subseteq 0 .. Len(logs[n].recs)
           /\ \A i \in DOMAIN logs[n].recs : logs[n].recs[i] \in 1 .. Len(seq)
    BY <2>2, <2>3, Zenon DEF DiskTypes, Directory, Updates
  <2>5. \A n \in DOMAIN manifests :
           /\ manifests[n].synced \in 0 .. Len(manifests[n].recs) /\ manifests[n].torn \subseteq 0 .. Len(manifests[n].recs)
           /\ \A i \in DOMAIN manifests[n].recs : manifests[n].recs[i] \in Edits
    BY <2>2, <2>3, Zenon DEF DiskTypes, Directory
  <2>6. /\ \A n \in DOMAIN tables : tables[n] \subseteq 1 .. Len(seq)
        /\ DOMAIN logs \cup DOMAIN tables \cup DOMAIN manifests \subseteq Nat \ {0}
    BY <2>2 DEF DiskTypes, Directory, TableFiles, Updates
  <2>7. compaction.output \in Nat /\ compaction.inputs \subseteq Nat
    BY <2>2 DEF MemoryTypes
  <2>8. /\ {current, log_number, next_file_number, manifest_file_number, last_sequence, logfile_number,
            output, compaction.output} \subseteq Nat
        /\ live \cup pending_outputs \cup iterator \cup compaction.inputs \cup todo \subseteq Nat
    BY <2>2, <2>7 DEF DiskTypes, MemoryTypes
  <2>9. /\ {descriptor, has_imm, bg_error} \subseteq BOOLEAN
        /\ mem \cup imm \cup owed \cup durable \cup covered \subseteq 1 .. Len(seq)
        /\ job \in {"none", "open", "flush", "compact", "move"}
        /\ edit \in Edits
        /\ files_to_delete \subseteq {"log", "table", "manifest"} \X Nat
    BY <2>2 DEF MemoryTypes, Updates
  <2> QED
    BY <2>1, <2>4, <2>5, <2>6, <2>8, <2>9 DEF TypeOK, Edits
<1>2. Inv => TypeOK
  BY <1>1
<1> QED
  BY <1>2, InvHolds, PTL

=============================================================================
