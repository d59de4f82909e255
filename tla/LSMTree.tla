------------------------------ MODULE LSMTree --------------------------------
(***************************************************************************)
(* The tables of a database and how they are read: the memtables, the      *)
(* levels of a Version, Get and Version::Get, the flush of a memtable      *)
(* (DBImpl::CompactMemTable) and the compaction of tables                  *)
(* (VersionSet::PickCompaction, CompactRange, DBImpl::DoCompactionWork).   *)
(*                                                                         *)
(* An update is named by its sequence number and hist says which user key  *)
(* it is for and whether it is a value or a deletion.  A memtable and a    *)
(* table file are sets of updates; smallest and largest follow from the    *)
(* set.  Every limit in bytes is a nondeterministic choice wherever the    *)
(* sum compared with it is not zero.  Only the background thread installs  *)
(* versions, so what it does between reading current_ and LogAndApply is   *)
(* one action; a compaction starts and finishes in two, because writes,    *)
(* snapshots and the flush it calls itself happen in between.              *)
(***************************************************************************)
EXTENDS Naturals, FiniteSets, Sequences, SequencesExt

CONSTANTS
  MaxKey,               \* user keys are 1..MaxKey, in comparator order
  kNumLevels,
  kMaxMemCompactLevel,
  ManualRanges,         \* the ranges <<begin, end>> of manual compactions;
                        \* 0 and MaxKey + 1 are the null pointers
  FlushDuring,          \* the kinds of compaction that find has_imm_ set
  MaxWrites,            \* bound on updates
  MaxDeletes,           \* bound on the deletions among them
  MaxSnapshots,         \* bound on live snapshots
  Faults                \* file-system operations may fail

Keys == 1..MaxKey
NoKey == MaxKey + 1
NotFound == 0

ASSUME LSMTreeAssumption ==
  /\ {MaxKey, kNumLevels, kMaxMemCompactLevel} \subseteq Nat \ {0}
  /\ kMaxMemCompactLevel < kNumLevels /\ kNumLevels >= 2
  /\ ManualRanges \subseteq (0..MaxKey) \X (1..NoKey)
  /\ FlushDuring \subseteq {"automatic", "manual"}
  /\ {MaxWrites, MaxDeletes, MaxSnapshots} \subseteq Nat
  /\ Faults \in BOOLEAN

VARIABLES
  hist,        \* the updates so far: hist[s] = [key, type]; last_sequence = Len
  mem,         \* mem_
  imm,         \* imm_, when has_imm
  has_imm,
  files,       \* current_->files_: in level 0 by file number, oldest first,
               \* in every other level by smallest key
  snapshots,   \* snapshots_: the sequence numbers in the list
  job,         \* the table compaction under way, a sequence of length <= 1
  bg_error     \* bg_error_ is set

vars == <<hist, mem, imm, has_imm, files, snapshots, job, bg_error>>

last_sequence == Len(hist)
Levels == 0..(kNumLevels - 1)
Files(level) == Range(files[level])

(***************************************************************************)
(* Internal keys, <<user key, sequence>>: user key ascending, then         *)
(* sequence number descending.                                             *)
(***************************************************************************)
InternalKey(s) == <<hist[s].key, s>>

Less(a, b) == a[1] < b[1] \/ (a[1] = b[1] /\ a[2] > b[2])

smallest(f) == InternalKey(CHOOSE s \in f : \A t \in f \ {s} :
                             Less(InternalKey(s), InternalKey(t)))
largest(f)  == InternalKey(CHOOSE s \in f : \A t \in f \ {s} :
                             Less(InternalKey(t), InternalKey(s)))

user_begin(f) == smallest(f)[1]
user_end(f) == largest(f)[1]

(* GetRange and GetRange2, as user keys                                    *)
GetRange(fs) ==
  LET entries == UNION fs IN <<user_begin(entries), user_end(entries)>>

(***************************************************************************)
(* Reading                                                                 *)
(***************************************************************************)

(* A seek for <<k, s>> in a memtable or a table, which is then checked to  *)
(* be at the same user key: the newest update of k that s may see, or none *)
Seek(entries, k, s) ==
  LET visible == {t \in entries : hist[t].key = k /\ t <= s}
  IN  {t \in visible : \A u \in visible : u <= t}

(* FindFile: the index, counted from 0, of the first file whose largest is *)
(* not below key, found by bisection between left = p[1] and right = p[2]. *)
FindFile(level, key) ==
  LET n == Len(files[level])
      search[p \in (0..n) \X (0..n)] ==
        IF p[1] >= p[2] THEN p[2]
        ELSE LET mid == (p[1] + p[2]) \div 2
             IN  IF Less(largest(files[level][mid + 1]), key)
                 THEN search[<<mid + 1, p[2]>>]
                 ELSE search[<<p[1], mid>>]
  IN  search[<<0, n>>]

(* Version::ForEachOverlapping: the files Get looks into for <<k, s>>:     *)
(* in level 0 every file around k, elsewhere at most the one FindFile      *)
(* names.  A file is named by its level and its place in the level.        *)
ForEachOverlapping(k, s) ==
  {p \in UNION {{level} \X DOMAIN files[level] : level \in Levels} :
     /\ user_begin(files[p[1]][p[2]]) <= k
     /\ IF p[1] = 0 THEN k <= user_end(files[0][p[2]])
                    ELSE p[2] = FindFile(p[1], <<k, s>>) + 1}

(* When a place is looked at: mem_ first, then imm_, then level 0 from the *)
(* newest file (NewestFirst), then the other levels downwards.             *)
Turn(level, i) == IF level = 0 THEN 2 + Len(files[0]) - i
                               ELSE 2 + Len(files[0]) + level

(* DBImpl::Get and Version::Get: what each place answers, with its turn;   *)
(* the first place that knows the key decides.                             *)
Hits(k, s) ==
  {<<0, t>> : t \in Seek(mem, k, s)} \cup
  {<<1, t>> : t \in IF has_imm THEN Seek(imm, k, s) ELSE {}} \cup
  UNION {{<<Turn(p[1], p[2]), t>> : t \in Seek(files[p[1]][p[2]], k, s)} :
           p \in ForEachOverlapping(k, s)}

Answer(hits) ==
  LET first == CHOOSE h \in hits : \A g \in hits : h[1] <= g[1]
  IN  IF hits = {} \/ hist[first[2]].type = "deletion" THEN NotFound ELSE first[2]

Get(k, s) == Answer(Hits(k, s))

(***************************************************************************)
(* Choosing files                                                          *)
(***************************************************************************)
Overlaps(f, begin, end) == ~(user_end(f) < begin \/ user_begin(f) > end)

(* Version::OverlapInLevel, SomeFileOverlapsRange: all files of level 0;   *)
(* elsewhere the one file the bisection finds.                             *)
OverlapInLevel(level, begin, end) ==
  IF level = 0
  THEN \E f \in Files(0) : Overlaps(f, begin, end)
  ELSE LET index == FindFile(level, <<begin, MaxWrites + 1>>)
       IN  /\ index < Len(files[level])
           /\ ~(end < user_begin(files[level][index + 1]))

(* Version::GetOverlappingInputs.  In level 0 a file that sticks out of    *)
(* the range widens it and the search restarts, so the range used in the   *)
(* end is the least one that contains every file it overlaps.              *)
GetOverlappingInputs(level, begin, end) ==
  LET closed == {r \in (0..begin) \X (end..NoKey) :
                   \A f \in Files(level) : Overlaps(f, r[1], r[2]) =>
                      r[1] <= user_begin(f) /\ user_end(f) <= r[2]}
      range == IF level > 0 THEN <<begin, end>>
               ELSE CHOOSE r \in closed :
                      \A q \in closed : q[1] <= r[1] /\ r[2] <= q[2]
  IN  {f \in Files(level) : Overlaps(f, range[1], range[2])}

(* FindSmallestBoundaryFile: the first file of the level that goes on with *)
(* the user key at which the chosen files end.                             *)
FindSmallestBoundaryFile(level, fs) ==
  LET end == largest(UNION fs)
      after == {f \in Files(level) :
                  Less(end, smallest(f)) /\ user_begin(f) = end[1]}
  IN  {f \in after : \A g \in after \ {f} : Less(smallest(f), smallest(g))}

(* Mutant of AddBoundaryInputs: the compaction takes what it was given.    *)
AddNoBoundaryInputs(level, fs) == fs

AddBoundaryInputs(level, fs) ==
  LET size == Cardinality(Files(level))
      add[n \in 0..size] ==
        IF n = 0 THEN fs
        ELSE add[n - 1] \cup FindSmallestBoundaryFile(level, add[n - 1])
  IN  IF fs = {} THEN {} ELSE add[size]

(* VersionSet::SetupOtherInputs: the pairs <<inputs_[0], inputs_[1]>> it   *)
(* may settle on; the second exists only if growing the first set of files *)
(* leaves the number of files of the next level as it was.                 *)
SetupOtherInputs(level, picked) ==
  LET inputs(l, r) == AddBoundaryInputs(l, GetOverlappingInputs(l, r[1], r[2]))
      inputs0 == AddBoundaryInputs(level, picked)
      inputs1 == inputs(level + 1, GetRange(inputs0))
      expanded0 == inputs(level, GetRange(inputs0 \cup inputs1))
      expanded1 == inputs(level + 1, GetRange(expanded0))
      grown == /\ inputs1 # {}
               /\ Cardinality(expanded0) > Cardinality(inputs0)
               /\ Cardinality(expanded1) = Cardinality(inputs1)
  IN  {<<inputs0, inputs1>>} \cup (IF grown THEN {<<expanded0, expanded1>>} ELSE {})

(* Mutant of PickLevelForMemTableOutput: only level 0 is asked.            *)
PickLevelUnchecked(begin, end) ==
  IF OverlapInLevel(0, begin, end) THEN {0} ELSE {kMaxMemCompactLevel}

(* Version::PickLevelForMemTableOutput: the levels it may answer.  Going   *)
(* on past level needs level + 1 free of overlap; it may stop there only   *)
(* if files of level + 2 overlap.                                          *)
PickLevelForMemTableOutput(begin, end) ==
  LET free(level) == ~OverlapInLevel(level, begin, end)
      reach(level) == \A l \in 0..level : free(l)
      grand(level) == /\ level + 2 < kNumLevels
                      /\ GetOverlappingInputs(level + 2, begin, end) # {}
      stop(level) == \/ level = kMaxMemCompactLevel
                     \/ ~free(level + 1)
                     \/ grand(level)
  IN  IF ~free(0) THEN {0}
      ELSE {level \in 0..kMaxMemCompactLevel : reach(level) /\ stop(level)}

(***************************************************************************)
(* Merging                                                                 *)
(***************************************************************************)

(* Mutant of IsBaseLevelForKey: the levels further down are forgotten.     *)
AlwaysBaseLevel(c, k) == TRUE

(* Compaction::IsBaseLevelForKey, on the version the compaction began with *)
IsBaseLevelForKey(c, k) ==
  \A level \in (c.level + 2)..(kNumLevels - 1) :
    \A f \in Range(c.input_version[level]) : ~Overlaps(f, k, k)

(* The inputs of a compaction, merged.                                     *)
MakeInputIterator(c) == UNION (c.inputs0 \cup c.inputs1)

(* The updates DoCompactionWork drops: hidden by a newer update of the     *)
(* same key that every snapshot can see, or a deletion with nothing left   *)
(* under it to hide.                                                       *)
Drop(c, s) ==
  \/ \E t \in MakeInputIterator(c) :
       hist[t].key = hist[s].key /\ s < t /\ t <= c.smallest_snapshot
  \/ /\ hist[s].type = "deletion"
     /\ s <= c.smallest_snapshot
     /\ IsBaseLevelForKey(c, hist[s].key)

(* Mutant of Outputs: the first output is opened before anything is kept.  *)
OutputsOpenedEarly(kept, cuts) ==
  LET upto(s) == {t \in kept : ~Less(InternalKey(s), InternalKey(t))}
  IN  IF kept = {} THEN {{}}
      ELSE {kept \ UNION {upto(s) : s \in cuts \ {largest(kept)[2]}}} \cup
           {upto(s) \ UNION {upto(t) : t \in {u \in cuts :
              Less(InternalKey(u), InternalKey(s))}} : s \in cuts}

(* The updates after which an output may be closed: ShouldStopBefore says  *)
(* so of the next one, or the output is big enough.                        *)
ShouldStopBefore(kept) == {s \in kept : InternalKey(s) # largest(kept)}

(* The output files: an output is closed after each update of cuts and at  *)
(* the end.                                                                *)
Outputs(kept, cuts) ==
  LET upto(s) == {t \in kept : ~Less(InternalKey(s), InternalKey(t))}
      ends == IF kept = {} THEN {} ELSE cuts \cup {largest(kept)[2]}
      before(s) == UNION {upto(t) : t \in {u \in ends :
                            Less(InternalKey(u), InternalKey(s))}}
  IN  {upto(s) \ before(s) : s \in ends}

(***************************************************************************)
(* Actions                                                                 *)
(***************************************************************************)
TypeOK ==
  /\ hist \in Seq([key : Keys, type : {"value", "deletion"}])
  /\ mem \subseteq 1..last_sequence /\ imm \subseteq 1..last_sequence
  /\ has_imm \in BOOLEAN /\ (~has_imm => imm = {})
  /\ files \in [Levels -> Seq((SUBSET (1..last_sequence)) \ {{}})]
  /\ snapshots \subseteq 0..last_sequence
  /\ Len(job) <= 1
  /\ bg_error \in BOOLEAN

Init ==
  /\ hist = << >>
  /\ mem = {} /\ imm = {} /\ has_imm = FALSE
  /\ files = [level \in Levels |-> << >>]
  /\ snapshots = {}
  /\ job = << >>
  /\ bg_error = FALSE

(* A Put or Delete that finds room: the write path is WritePath's subject. *)
Write(k, type) ==
  /\ ~bg_error
  /\ Len(hist) < MaxWrites
  /\ type = "deletion" =>
       Cardinality({s \in DOMAIN hist : hist[s].type = type}) < MaxDeletes
  /\ hist' = Append(hist, [key |-> k, type |-> type])
  /\ mem' = mem \cup {Len(hist) + 1}
  /\ UNCHANGED <<imm, has_imm, files, snapshots, job, bg_error>>

(* The memtable switch of MakeRoomForWrite.                                *)
SwitchMemTable ==
  /\ ~bg_error /\ ~has_imm
  /\ imm' = mem /\ has_imm' = TRUE /\ mem' = {}
  /\ UNCHANGED <<hist, files, snapshots, job, bg_error>>

(* The elements of a finite set as a sequence in the order of the pairs.   *)
InOrder(S, pairs) ==
  CHOOSE p \in [1..Cardinality(S) -> S] :
    \A i, j \in DOMAIN p : i < j => <<p[i], p[j]>> \in pairs

BySmallestKey(fs) == InOrder(fs, {p \in fs \X fs : Less(smallest(p[1]), smallest(p[2]))})

(* VersionSet::Builder::SaveTo for one level: without the files of gone,   *)
(* with those of new.  The files of level 0 stay in their order.           *)
SaveTo(level, gone, new) ==
  LET left == {i \in DOMAIN files[0] : files[0][i] \notin gone}
      place == InOrder(left, {p \in left \X left : p[1] < p[2]})
  IN  IF level = 0 THEN [i \in DOMAIN place |-> files[0][place[i]]] \o SetToSeq(new)
      ELSE BySmallestKey((Files(level) \ gone) \cup new)

(* CompactMemTable, from BackgroundCompaction, which a background error    *)
(* prevents, or from inside DoCompactionWork, which looks at has_imm_      *)
(* only; an empty memtable makes no file.                                  *)
CompactMemTable ==
  /\ has_imm
  /\ IF job = << >> THEN ~bg_error ELSE job[1].kind \in FlushDuring
  /\ \/ imm = {} /\ UNCHANGED files
     \/ /\ imm # {}
        /\ \E level \in PickLevelForMemTableOutput(user_begin(imm), user_end(imm)) :
             files' = [files EXCEPT ![level] = SaveTo(level, {}, {imm})]
  /\ imm' = {} /\ has_imm' = FALSE
  /\ UNCHANGED <<hist, mem, snapshots, job, bg_error>>

(* CompactMemTable when the table or the MANIFEST cannot be written.  The  *)
(* compaction it was called from goes on.                                  *)
CompactMemTableFails ==
  /\ Faults /\ has_imm
  /\ job = << >> => ~bg_error
  /\ bg_error' = TRUE
  /\ UNCHANGED <<hist, mem, imm, has_imm, files, snapshots, job>>

(* A trivial move or a compaction that fails leaves the version alone.     *)
CompactionFails ==
  /\ Faults
  /\ job # << >> \/ (~bg_error /\ ~has_imm /\ \E level \in Levels : Files(level) # {})
  /\ bg_error' = TRUE
  /\ job' = << >>
  /\ UNCHANGED <<hist, mem, imm, has_imm, files, snapshots>>

(* Mutant of InputsOf: snapshots_ is not consulted.                        *)
InputsIgnoringSnapshots(level, inputs, kind) ==
  [level |-> level, kind |-> kind,
   inputs0 |-> inputs[1], inputs1 |-> inputs[2],
   smallest_snapshot |-> last_sequence, input_version |-> files]

(* The Compaction and its CompactionState when the work begins.            *)
InputsOf(level, inputs, kind) ==
  [level |-> level, kind |-> kind,
   inputs0 |-> inputs[1], inputs1 |-> inputs[2],
   smallest_snapshot |-> IF snapshots = {} THEN last_sequence
                         ELSE CHOOSE s \in snapshots :
                                \A t \in snapshots : s <= t,
   input_version |-> files]

(* Replace the inputs of a compaction of level by the files in new.        *)
Install(level, inputs, new) ==
  files' = [files EXCEPT ![level] = SaveTo(level, inputs[1], {}),
                         ![level + 1] = SaveTo(level + 1, inputs[2], new)]

(* What IsTrivialMove may answer: one file with nothing under it is moved, *)
(* unless too much lies two levels down.                                   *)
IsTrivialMove(level, inputs) ==
  LET r == GetRange(inputs[1] \cup inputs[2])
      grandparents == IF level + 2 < kNumLevels
                      THEN GetOverlappingInputs(level + 2, r[1], r[2]) ELSE {}
  IN  IF Cardinality(inputs[1]) # 1 \/ inputs[2] # {} THEN {FALSE}
      ELSE {TRUE} \cup {grandparents = {}}

(* BackgroundCompaction with PickCompaction: one file of some level, all   *)
(* that overlap it in level 0, and what SetupOtherInputs adds.             *)
PickCompaction(level, f) ==
  LET picked == IF level > 0 THEN {f}
                ELSE GetOverlappingInputs(0, user_begin(f), user_end(f))
  IN  \E inputs \in SetupOtherInputs(level, picked) :
        \/ /\ TRUE \in IsTrivialMove(level, inputs)
           /\ Install(level, inputs, inputs[1])
           /\ UNCHANGED job
        \/ /\ FALSE \in IsTrivialMove(level, inputs)
           /\ job' = <<InputsOf(level, inputs, "automatic")>>
           /\ UNCHANGED <<files>>

AutomaticCompaction ==
  /\ ~bg_error /\ ~has_imm /\ job = << >>
  /\ \E level \in 0..(kNumLevels - 2) : \E f \in Files(level) :
       PickCompaction(level, f)
  /\ UNCHANGED <<hist, mem, imm, has_imm, snapshots, bg_error>>

(* VersionSet::CompactRange: below level 0 the overlapping files may be    *)
(* cut short after any of them.  A manual compaction never moves a file.   *)
CompactRange(level, begin, end) ==
  LET all == GetOverlappingInputs(level, begin, end)
      shorter == {fs \in (SUBSET all) \ {{}} :
                    \A f \in fs, g \in all \ fs : Less(smallest(f), smallest(g))}
  IN  \E picked \in IF level = 0 THEN {all} \ {{}} ELSE shorter :
        \E inputs \in SetupOtherInputs(level, picked) :
          job' = <<InputsOf(level, inputs, "manual")>>

ManualCompaction ==
  /\ ~bg_error /\ ~has_imm /\ job = << >>
  /\ \E level \in 0..(kNumLevels - 2), r \in ManualRanges :
       CompactRange(level, r[1], r[2])
  /\ UNCHANGED <<hist, mem, imm, has_imm, files, snapshots, bg_error>>

(* The end of DoCompactionWork and InstallCompactionResults.               *)
FinishCompaction ==
  /\ job # << >>
  /\ LET c == job[1]
         kept == {s \in MakeInputIterator(c) : ~Drop(c, s)}
     IN \E cuts \in SUBSET ShouldStopBefore(kept) :
          Install(c.level, <<c.inputs0, c.inputs1>>, Outputs(kept, cuts))
  /\ job' = << >>
  /\ UNCHANGED <<hist, mem, imm, has_imm, snapshots, bg_error>>

GetSnapshot ==
  /\ last_sequence \notin snapshots
  /\ Cardinality(snapshots) < MaxSnapshots
  /\ snapshots' = snapshots \cup {last_sequence}
  /\ UNCHANGED <<hist, mem, imm, has_imm, files, job, bg_error>>

ReleaseSnapshot(s) ==
  /\ snapshots' = snapshots \ {s}
  /\ UNCHANGED <<hist, mem, imm, has_imm, files, job, bg_error>>

Next ==
  \/ \E k \in Keys, type \in {"value", "deletion"} : Write(k, type)
  \/ SwitchMemTable
  \/ CompactMemTable
  \/ CompactMemTableFails
  \/ CompactionFails
  \/ AutomaticCompaction
  \/ ManualCompaction
  \/ FinishCompaction
  \/ GetSnapshot
  \/ \E s \in snapshots : ReleaseSnapshot(s)

Spec == Init /\ [][Next]_vars

(***************************************************************************)
(* Properties                                                              *)
(***************************************************************************)

(* No two files of a level below 0 overlap in internal keys: what FindFile *)
(* and every other bisection over files_[level] rests on, and what         *)
(* Builder::SaveTo checks in debug builds.  A flush and a running          *)
(* compaction both add files, to levels each of them chose at a different  *)
(* moment.                                                                 *)
LevelsDisjoint ==
  \A level \in 1..(kNumLevels - 1) : \A f, g \in Files(level) :
    f # g => \/ Less(largest(f), smallest(g))
             \/ Less(largest(g), smallest(f))

(* The order in which Get and Version::Get look: mem_, imm_, level 0 from  *)
(* the newest file, level 1, level 2, ...                                  *)
Places ==
  <<mem, imm>> \o Reverse(files[0])
    \o [level \in 1..(kNumLevels - 1) |-> UNION Files(level)]

(* An update of a key is never looked at before a newer update of the same *)
(* key: the first hit of a lookup may be returned.  Compactions of other   *)
(* levels, trivial moves, flushes past empty levels and the splitting of   *)
(* one key over two files of a level must all keep it.                     *)
NewerAbove ==
  \A i, j \in DOMAIN Places : i < j =>
    \A s \in Places[i], t \in Places[j] : hist[s].key = hist[t].key => s > t

(* Get answers with the newest update of the key that the reader may see,  *)
(* now and at every live snapshot: nothing a reader still needs is dropped *)
(* by a compaction, and nothing that was deleted comes back.               *)
ReadsCorrect ==
  \A k \in Keys, s \in snapshots \cup {last_sequence} :
     LET seen == {t \in DOMAIN hist : hist[t].key = k /\ t <= s}
         newest == CHOOSE t \in seen : \A u \in seen : u <= t
     IN  Get(k, s) = IF seen = {} \/ hist[newest].type = "deletion"
                     THEN NotFound ELSE newest

(* What a client asked for with an update: a value, or that there is none. *)
ValueOf(s) == IF hist[s].type = "deletion" THEN NotFound ELSE s

(* LSMTree implements the store of db.h: reads are answered by Get, at the *)
(* last sequence number or at a live snapshot, from the real places and    *)
(* files.  A flush or a compaction changes no answer, a write changes the  *)
(* current answer for its key to what was written, and no other.  It holds *)
(* as long as no memtable is flushed inside a manual compaction.           *)
Store == INSTANCE KVStore WITH
  Values <- 1..MaxWrites, Handles <- 0..MaxWrites,
  updates <- [s \in DOMAIN hist |-> [key |-> hist[s].key, value |-> ValueOf(s)]],
  now <- [k \in Keys |-> Get(k, last_sequence)],
  views <- [s \in snapshots |-> [k \in Keys |-> Get(k, s)]]

ImplementsStore == Store!Spec
==============================================================================
