------------------------------ MODULE LogFormat ------------------------------
(***************************************************************************)
(* The log format (lib/leveldb/db/log_writer.cc, log_reader.cc): records   *)
(* cut into fragments that fill blocks, what crashes, failed writes and    *)
(* damaged bytes leave of them, and the reader that gets the records back. *)
(*                                                                         *)
(* A file is a sequence of cells, one per byte: of a header, of data, of a *)
(* trailer of zeros, or damaged. The checksum is taken to be sound: a      *)
(* fragment passes it exactly if all its cells are there as written.       *)
(***************************************************************************)
EXTENDS Integers, Sequences, SequencesExt, FiniteSets

CONSTANTS
    kBlockSize,
    kHeaderSize,
    Lengths,         \* lengths of records
    InitialOffsets,  \* initial_offset of readers
    Damages,         \* kinds of damage: "cut", "reopen", "fail", "flip", "zero", "ioerror"
    MaxRecords,      \* bound: records added
    MaxDamage        \* bound: damages

ASSUME LogFormatAssumption ==
    /\ kHeaderSize \in Nat \ {0} /\ kBlockSize \in Nat /\ kBlockSize > kHeaderSize
    /\ Lengths \subseteq Nat /\ InitialOffsets \subseteq Nat
    /\ MaxRecords \in Nat /\ MaxDamage \in Nat

VARIABLES
    log,         \* the cells of the file
    lw,          \* the writer: [open, offset, rec, frag, left]; rec is 0 between records
    added,       \* record -> [start, end, frags]; frags is 0 until AddRecord has
                 \* returned OK, and again when a crash has cut the record
    damaged,     \* the damages so far: [kind, first, last] in bytes of the file
    lr           \* the reader, once it is there

lfVars == <<log, lw, added, damaged, lr>>

ZeroCell == [kind |-> "zero", rec |-> 0, frag |-> 0, at |-> 0, len |-> 0, type |-> "zero"]
BadCell == [ZeroCell EXCEPT !.kind = "bad"]

\* The bytes of a physical record.
PhysicalRecord(rec, frag, type, len) ==
    [i \in 1 .. kHeaderSize + len |->
        [kind |-> IF i <= kHeaderSize THEN "header" ELSE "data",
         rec |-> rec, frag |-> frag, at |-> i, len |-> len, type |-> type]]

NoReaderYet == [on |-> FALSE]

IdleWriter(offset) == [open |-> TRUE, offset |-> offset, rec |-> 0, frag |-> 0, left |-> 0]

LFInit ==
    /\ log = <<>>
    /\ lw = IdleWriter(0)
    /\ added = <<>>
    /\ damaged = {}
    /\ lr = NoReaderYet

-----------------------------------------------------------------------------
(* Writer.                                                                  *)

WriterAddRecord(n) ==
    /\ ~lr.on /\ lw.open /\ lw.rec = 0 /\ Len(added) < MaxRecords
    /\ added' = Append(added, [start |-> -1, end |-> -1, frags |-> 0])
    /\ lw' = [lw EXCEPT !.rec = Len(added) + 1, !.frag = 1, !.left = n]
    /\ UNCHANGED <<log, damaged, lr>>

\* Mutant of Trailer: a last byte is taken for room.
TrailerTooLate == kBlockSize - lw.offset < kHeaderSize - 1

\* The rest of the block cannot hold a header.
Trailer == kBlockSize - lw.offset < kHeaderSize

\* One turn of the loop: the trailer, if the block cannot hold a header, then
\* a fragment, appended and flushed. If the file cannot be written a part of
\* it is there, the record is given up, and block_offset_ is as if all was.
EmitPhysicalRecord ==
    /\ lw.rec # 0
    /\ LET leftover == kBlockSize - lw.offset
           trailer == IF Trailer THEN [i \in 1 .. leftover |-> ZeroCell] ELSE <<>>
           offset == IF Trailer THEN 0 ELSE lw.offset
           avail == kBlockSize - offset - kHeaderSize
           len == IF lw.left < avail THEN lw.left ELSE avail
           end == lw.left = len
           type == IF lw.frag = 1 THEN IF end THEN "full" ELSE "first"
                   ELSE IF end THEN "last" ELSE "middle"
           bytes == trailer \o PhysicalRecord(lw.rec, lw.frag, type, len)
           start == IF lw.frag = 1 THEN Len(log) + Len(trailer) ELSE added[lw.rec].start
           next == offset + kHeaderSize + len
       IN  \/ /\ log' = log \o bytes
              /\ added' = [added EXCEPT ![lw.rec] = [start |-> start, end |-> Len(log) + Len(bytes),
                                                          frags |-> IF end THEN lw.frag ELSE 0]]
              /\ lw' = IF end THEN IdleWriter(next)
                       ELSE [lw EXCEPT !.offset = next, !.frag = @ + 1, !.left = @ - len]
              /\ UNCHANGED damaged
           \/ /\ "fail" \in Damages /\ Cardinality(damaged) < MaxDamage
              /\ \E k \in 0 .. Len(bytes) - 1 :
                    /\ log' = log \o SubSeq(bytes, 1, k)
                    /\ damaged' = damaged \cup {[kind |-> "fail", first |-> Len(log), last |-> Len(log) + k]}
              /\ lw' = IdleWriter(next)
              /\ UNCHANGED added
    /\ UNCHANGED lr

-----------------------------------------------------------------------------
(* What happens to the file.                                                *)

\* Records that are among the first k bytes.
Kept(k) == [r \in 1 .. Len(added) |-> IF added[r].end <= k THEN added[r] ELSE [added[r] EXCEPT !.frags = 0]]

MayDamage(kind) == ~lr.on /\ kind \in Damages /\ Cardinality(damaged) < MaxDamage

\* A crash keeps a prefix of the file; nobody writes it any more, or a new
\* Writer(dest, dest_length) does (reuse_logs).
Cut(k) ==
    /\ MayDamage("cut") /\ k \in 0 .. Len(log) /\ (lw.rec # 0 \/ k < Len(log))
    /\ log' = SubSeq(log, 1, k)
    /\ added' = Kept(k)
    /\ lw' = [IdleWriter(k % kBlockSize) EXCEPT !.open = "reopen" \in Damages]
    /\ damaged' = damaged \cup {[kind |-> "cut", first |-> k, last |-> k]}
    /\ UNCHANGED lr

\* A byte changes.
Flip(p) ==
    /\ MayDamage("flip") /\ lw.rec = 0 /\ p \in 1 .. Len(log)
    /\ log' = [log EXCEPT ![p] = BadCell]
    /\ damaged' = damaged \cup {[kind |-> IF log[p].kind = "data" THEN "flip data" ELSE "flip",
                                first |-> p - 1, last |-> p - 1]}
    /\ lw' = [lw EXCEPT !.open = FALSE]
    /\ UNCHANGED <<added, lr>>

\* A region reads as zeros.
Zero(p, q) ==
    /\ MayDamage("zero") /\ lw.rec = 0 /\ p \in 1 .. Len(log) /\ q \in p .. Len(log)
    /\ log' = [i \in 1 .. Len(log) |-> IF i \in p .. q THEN ZeroCell ELSE log[i]]
    /\ damaged' = damaged \cup {[kind |-> "zero", first |-> p - 1, last |-> q - 1]}
    /\ lw' = [lw EXCEPT !.open = FALSE]
    /\ UNCHANGED <<added, lr>>

-----------------------------------------------------------------------------
(* Reader. buffer_ is the part of the file from lo to hi (offsets); hi is   *)
(* end_of_buffer_offset_.                                                   *)

\* The reader's first ReadRecord skips to the block of its initial offset.
SkipToInitialBlock(offset) ==
    LET block == offset - (offset % kBlockSize)
    IN  IF offset % kBlockSize > kBlockSize - (kHeaderSize - 1) THEN block + kBlockSize ELSE block

NewReader(offset) ==
    /\ ~lr.on /\ lw.rec = 0
    /\ lr' = [on |-> TRUE, initial |-> offset, lo |-> SkipToInitialBlock(offset), hi |-> SkipToInitialBlock(offset),
              eof |-> FALSE, resyncing |-> offset > 0, in_fragmented |-> FALSE, scratch |-> <<>>,
              out |-> <<>>, reports |-> 0, ioerror |-> FALSE, done |-> FALSE]
    /\ UNCHANGED <<log, lw, added, damaged>>

\* Another block is read when the buffer cannot hold a header.
Refilled(r) ==
    IF r.hi - r.lo >= kHeaderSize \/ r.eof THEN r
    ELSE LET n == IF Len(log) - r.hi < 0 THEN 0 ELSE IF Len(log) - r.hi < kBlockSize THEN Len(log) - r.hi ELSE kBlockSize
         IN  [r EXCEPT !.lo = r.hi, !.hi = r.hi + n, !.eof = n < kBlockSize]

Cell(r, i) == log[r.lo + i]

\* The cells from the start of the buffer are a physical record, as written.
Intact(r) ==
    LET h == Cell(r, 1)
    IN  /\ h.kind = "header" /\ h.at = 1 /\ kHeaderSize + h.len <= r.hi - r.lo
        /\ \A i \in 1 .. kHeaderSize + h.len :
              Cell(r, i) = [h EXCEPT !.at = i, !.kind = IF i <= kHeaderSize THEN "header" ELSE "data"]

\* The header is as written, whatever follows it.
HeaderIntact(r) ==
    /\ Cell(r, 1).kind = "header" /\ Cell(r, 1).at = 1
    /\ \A i \in 1 .. kHeaderSize : Cell(r, i) = [Cell(r, 1) EXCEPT !.at = i]

\* ReportDrop of n bytes that ended at lo: nothing is said of bytes before the
\* initial offset. The difference is unsigned, so a negative one is large.
ReportDrop(r, n) == [r EXCEPT !.reports = @ + IF r.lo - n \in 0 .. r.initial - 1 THEN 0 ELSE 1]

Cleared(r) == [r EXCEPT !.lo = r.hi]

\* Mutant of Dropped: the read ends.
DroppedToEnd(r, reported) ==
    [type |-> "eof", rec |-> 0, frag |-> 0, len |-> 0, r |-> ReportDrop(Cleared(r), r.hi - r.lo)]

\* "Drop the rest of the buffer since length itself may have been corrupted".
Dropped(r, reported) ==
    [type |-> "bad", rec |-> 0, frag |-> 0, len |-> 0,
     r |-> IF reported THEN ReportDrop(Cleared(r), r.hi - r.lo) ELSE Cleared(r)]

Eof(r) == [type |-> "eof", rec |-> 0, frag |-> 0, len |-> 0, r |-> Cleared(r)]

\* The outcomes of ReadPhysicalRecord. Bytes that are no header as written
\* may read as any length and type: a length beyond the buffer is a bad record,
\* or the end if this is the last block; type and length zero are skipped
\* without a report; everything else fails its checksum. A block may be
\* unreadable: the read ends, with a report.
ReadPhysicalRecord ==
    LET r == Refilled(lr)
        failed == [ReportDrop(Cleared(lr), kBlockSize) EXCEPT !.eof = TRUE, !.ioerror = TRUE]
    IN  (IF r # lr /\ "ioerror" \in Damages /\ Cardinality(damaged) < MaxDamage THEN {Eof(failed)} ELSE {})
        \cup
        IF r.hi - r.lo < kHeaderSize THEN {Eof(r)}
        ELSE IF Intact(r)
        THEN LET h == Cell(r, 1)
                 s == [r EXCEPT !.lo = @ + kHeaderSize + h.len]
             IN  IF r.lo < r.initial THEN {[type |-> "bad", rec |-> 0, frag |-> 0, len |-> 0, r |-> s]}
                 ELSE {[type |-> h.type, rec |-> h.rec, frag |-> h.frag, len |-> h.len, r |-> s]}
        ELSE IF HeaderIntact(r)
        THEN IF kHeaderSize + Cell(r, 1).len > r.hi - r.lo /\ r.eof THEN {Eof(r)} ELSE {Dropped(r, TRUE)}
        ELSE IF \A i \in 1 .. kHeaderSize : Cell(r, i).kind = "zero" THEN {Dropped(r, FALSE)}
        ELSE {Dropped(r, TRUE), Dropped(r, FALSE)} \cup (IF r.eof THEN {Eof(r)} ELSE {})

Size(scratch) == FoldLeft(LAMBDA n, f : n + f.len, 0, scratch)

\* What is said of the fragments in scratch.
ReportPartial(r) == IF lr.in_fragmented THEN ReportDrop(r, Size(lr.scratch)) ELSE r

\* Mutant of BadRecord: the fragments read so far stay.
BadRecordKeeps(r) == ReportPartial(r)

BadRecord(r) == [ReportPartial(r) EXCEPT !.scratch = <<>>, !.in_fragmented = FALSE]

\* One turn of the loop of ReadRecord, with the physical record p. A record
\* that is complete is returned (out); the caller calls again until the end.
Turn(p) ==
    LET r == [p.r EXCEPT !.resyncing = @ /\ p.type = "middle"]
        piece == [rec |-> p.rec, frag |-> p.frag, len |-> p.len]
        Started == IF Size(lr.scratch) > 0 THEN ReportPartial(r) ELSE r
        Return(s, pieces) == [s EXCEPT !.out = Append(@, pieces), !.scratch = <<>>, !.in_fragmented = FALSE]
    IN  IF lr.resyncing /\ p.type \in {"middle", "last"} THEN r
        ELSE CASE p.type = "full" -> Return(Started, <<piece>>)
               [] p.type = "first" -> [Started EXCEPT !.scratch = <<piece>>, !.in_fragmented = TRUE]
               [] p.type \in {"middle", "last"} /\ ~lr.in_fragmented -> ReportDrop(r, p.len)
               [] p.type = "middle" /\ lr.in_fragmented -> [r EXCEPT !.scratch = Append(@, piece)]
               [] p.type = "last" /\ lr.in_fragmented -> Return(r, Append(lr.scratch, piece))
               [] p.type = "eof" -> [r EXCEPT !.scratch = <<>>, !.in_fragmented = FALSE, !.done = TRUE]
               [] p.type = "bad" -> BadRecord(r)

ReadRecord ==
    /\ lr.on /\ ~lr.done
    /\ \E p \in ReadPhysicalRecord : lr' = Turn(p)
    /\ UNCHANGED <<log, lw, added, damaged>>

LFNext ==
    \/ \E n \in Lengths : WriterAddRecord(n)
    \/ EmitPhysicalRecord
    \/ \E k \in 0 .. Len(log) : Cut(k)
    \/ \E p \in 1 .. Len(log) : Flip(p) \/ \E q \in p .. Len(log) : Zero(p, q)
    \/ \E offset \in InitialOffsets : NewReader(offset)
    \/ ReadRecord

LFSpec == LFInit /\ [][LFNext]_lfVars

-----------------------------------------------------------------------------
(* Properties.                                                              *)

\* The records whose AddRecord returned OK.
Complete == {r \in 1 .. Len(added) : added[r].frags > 0}

Returned(r) == \E i \in 1 .. Len(lr.out) : lr.out[i][1].rec = r

\* What the reader returns is a record that was written, whole, each at most
\* once and in the order of writing: fragments of different records are never
\* put together, whatever was cut, changed, zeroed or half written
\* (log_reader.cc:56-174).
OnlyWholeRecords ==
    lr.on =>
        /\ \A i \in 1 .. Len(lr.out) :
              LET pieces == lr.out[i] IN
              /\ \A j \in 1 .. Len(pieces) : pieces[j].rec = pieces[1].rec /\ pieces[j].frag = j
              /\ added[pieces[1].rec].frags = Len(pieces)
        /\ \A i, j \in 1 .. Len(lr.out) : i < j => lr.out[i][1].rec < lr.out[j][1].rec

\* If nothing happened to the file but a crash that cut it, every record that
\* is there whole is returned and nothing is reported: a torn tail is no
\* corruption. Records that start before the initial offset are not returned.
TornTailIsQuiet ==
    lr.on /\ lr.done /\ ~lr.ioerror /\ (\A d \in damaged : d.kind = "cut" /\ d.first = Len(log)) =>
        /\ \A r \in Complete : Returned(r) <=> added[r].start >= lr.initial
        /\ lr.initial = 0 => lr.reports = 0

BlockOf(offset) == offset \div kBlockSize

\* Damage is local: a record with no byte in a block that was cut or damaged is
\* returned. (After a write that failed the writer's blocks are no longer the
\* reader's, and nothing is claimed.) And a reader of the whole file does not
\* lose a record to a changed byte of data, or to a block that cannot be read,
\* in silence. (With an initial offset it may: what ReportDrop is told to have
\* dropped can begin before that offset.)
LossIsLocal ==
    lr.on /\ lr.done =>
        /\ ~lr.ioerror /\ (\A d \in damaged : d.kind # "fail") =>
              \A r \in Complete :
                \/ Returned(r) \/ added[r].start < lr.initial
                \/ \E d \in damaged : /\ BlockOf(d.first) <= BlockOf(added[r].end - 1)
                                      /\ BlockOf(added[r].start) <= BlockOf(d.last)
        /\ /\ lr.initial = 0 /\ (lr.ioerror \/ damaged # {})
           /\ \A d \in damaged : d.kind = "flip data"
           /\ \E r \in Complete : ~Returned(r)
           => lr.reports > 0

=============================================================================
