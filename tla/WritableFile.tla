---------------------------- MODULE WritableFile ----------------------------
(***************************************************************************)
(* PosixWritableFile (lib/leveldb/util/env_posix.cc): the buffer in front  *)
(* of write(2). A write may end early or fail, a sync may fail, and the    *)
(* caller may go on after a call has failed (the log does: db_impl.cc:1220 *)
(* -1241 fails the write and keeps the file). The bytes handed over are    *)
(* numbered from 1.                                                        *)
(***************************************************************************)
EXTENDS Integers, Sequences, SequencesExt

CONSTANTS
    BufferSize,  \* kWritableFileBufferSize
    MaxBytes,    \* bound: bytes handed over
    MaxFailures  \* bound: failed calls

ASSUME WritableFileAssumption == BufferSize \in Nat \ {0} /\ MaxBytes \in Nat /\ MaxFailures \in Nat

VARIABLES
    file,        \* [bytes, synced, dirSynced, is_manifest, open]
    buf,         \* buf_[0 .. pos_ - 1]
    handed,      \* number of bytes handed over
    failures,    \* failed calls
    reported     \* bytes that were in the buffer or the argument of a failed call

wfVars == <<file, buf, handed, failures, reported>>

WFInit ==
    /\ file \in [bytes : {<<>>}, synced : {0}, dirSynced : {FALSE}, is_manifest : BOOLEAN, open : {TRUE}]
    /\ buf = <<>>
    /\ handed = 0 /\ failures = 0 /\ reported = {}

Bytes(from, to) == [i \in 1 .. to - from + 1 |-> from + i - 1]

\* WriteUnbuffered writes everything, or a part of it and fails.
WriteUnbuffered(data) ==
    {[bytes |-> SubSeq(data, 1, n), ok |-> n = Len(data)] : n \in 0 .. Len(data)}

\* What a call does to the caller's accounts: it may fail only so often, and
\* a failure is about the bytes in the buffer and the ones handed over.
CallReturned(ok, bytes) ==
    /\ failures' = IF ok THEN failures ELSE failures + 1
    /\ failures' <= MaxFailures
    /\ reported' = IF ok THEN reported ELSE reported \cup ToSet(bytes)

\* Mutant of AfterFlush: the buffer is kept when the write fails.
AfterFlushKeeps(w) == IF w.ok THEN <<>> ELSE buf

\* pos_ = 0, whatever the write returned.
AfterFlush(w) == <<>>

\* "Small writes go to buffer, large writes are written directly."
RestBuffered(data) == IF Len(data) < BufferSize THEN data ELSE <<>>

AppendData(n) ==
    /\ file.open /\ handed + n <= MaxBytes
    /\ handed' = handed + n
    /\ LET data == Bytes(handed + 1, handed + n)
           copy_size == IF n < BufferSize - Len(buf) THEN n ELSE BufferSize - Len(buf)
           full == buf \o SubSeq(data, 1, copy_size)
           rest == SubSeq(data, copy_size + 1, n)
       IN  IF rest = <<>>
           THEN buf' = full /\ UNCHANGED <<file, failures, reported>>
           ELSE \E w \in WriteUnbuffered(full) :
                   IF ~w.ok
                   THEN /\ file' = [file EXCEPT !.bytes = @ \o w.bytes]
                        /\ buf' = AfterFlush(w)
                        /\ CallReturned(FALSE, buf \o data)
                   ELSE \E v \in WriteUnbuffered(IF Len(rest) < BufferSize THEN <<>> ELSE rest) :
                           /\ file' = [file EXCEPT !.bytes = @ \o w.bytes \o v.bytes]
                           /\ buf' = RestBuffered(rest)
                           /\ CallReturned(v.ok, buf \o data)

\* Flush is FlushBuffer.
Flush ==
    /\ file.open
    /\ \E w \in WriteUnbuffered(buf) :
          /\ file' = [file EXCEPT !.bytes = @ \o w.bytes]
          /\ buf' = AfterFlush(w)
          /\ CallReturned(w.ok, buf)
    /\ UNCHANGED handed

SyncDirIfManifest == [file EXCEPT !.dirSynced = @ \/ file.is_manifest]

\* fsync or fdatasync of the file, of which the first n bytes are written.
SyncFd(f, n, ok) == [f EXCEPT !.synced = IF ok THEN n ELSE @]

\* The directory of a manifest, then the buffer, then the file.
Sync ==
    /\ file.open
    /\ \/ file.is_manifest /\ CallReturned(FALSE, buf) /\ UNCHANGED <<file, buf>>
       \/ \E w \in WriteUnbuffered(buf), synced \in BOOLEAN :
             /\ file' = SyncFd([SyncDirIfManifest EXCEPT !.bytes = @ \o w.bytes],
                               Len(file.bytes) + Len(buf), w.ok /\ synced)
             /\ buf' = AfterFlush(w)
             /\ CallReturned(w.ok /\ synced, buf)
    /\ UNCHANGED handed

\* close(2) is called even if the buffer cannot be written, and may fail.
CloseFile ==
    /\ file.open
    /\ \E w \in WriteUnbuffered(buf), closed \in BOOLEAN :
          /\ file' = [file EXCEPT !.bytes = @ \o w.bytes, !.open = FALSE]
          /\ buf' = AfterFlush(w)
          /\ CallReturned(w.ok /\ closed, buf)
    /\ UNCHANGED handed

WFNext == (\E n \in 0 .. MaxBytes : AppendData(n)) \/ Flush \/ Sync \/ CloseFile

WFSpec == WFInit /\ [][WFNext]_wfVars

-----------------------------------------------------------------------------
\* The file and the buffer are what was handed over, in order and without a
\* byte twice, also when calls failed half way and the caller went on; a byte is
\* missing only if a call that had it failed, at any boundary of the buffer; and
\* a manifest that is synced is in a directory that was (env_posix.cc:288-418).
BytesKept ==
    LET all == file.bytes \o buf
    IN  /\ \A i, j \in 1 .. Len(all) : i < j => all[i] < all[j]
        /\ 1 .. handed \subseteq ToSet(all) \cup reported
        /\ Len(buf) <= BufferSize /\ (~file.open => buf = <<>>)
        /\ file.is_manifest /\ file.synced > 0 => file.dirSynced

=============================================================================
