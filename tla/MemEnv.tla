------------------------------- MODULE MemEnv -------------------------------
(***************************************************************************)
(* The in-memory environment (lib/leveldb/helpers/memenv/memenv.cc): files *)
(* as counted FileState objects made of blocks, found by name through      *)
(* file_map_, and kept by the handles clients have of them. A call is a    *)
(* step, since it does all that others can see under one mutex; Skip asks  *)
(* for the size twice and is two.                                          *)
(***************************************************************************)
EXTENDS Integers, Sequences, SequencesExt, FiniteSets

CONSTANTS
    Names,       \* file names
    States,      \* places of the heap for FileState objects
    MemHandles,  \* handles clients may have
    MemBlock,    \* FileState::kBlockSize
    MaxSize,     \* bound: bytes in a file
    AppendNew    \* whether clients call NewAppendableFile for new names;
                 \* leveldb itself does so for files it has just read

NoState == 0
NullState == -1

ASSUME MemEnvAssumption ==
    /\ States \subseteq Nat \ {NoState} /\ IsFiniteSet(Names) /\ IsFiniteSet(MemHandles)
    /\ MemBlock \in Nat \ {0} /\ MaxSize \in Nat /\ AppendNew \in BOOLEAN

VARIABLES
    file_map,    \* name -> FileState, NullState, or NoState
    states,      \* FileState -> [refs, blocks, size, written]
    memHandle,   \* handle -> [kind, state, pos]
    skipping     \* handle -> bytes a Skip in progress is to pass, or 0

meVars == <<file_map, states, memHandle, skipping>>

\* written is what the calls put there since the file was made or truncated,
\* for the properties.
NewState == [refs |-> 0, blocks |-> <<>>, size |-> 0, written |-> <<>>]

NoHandle == [kind |-> "none", state |-> NoState, pos |-> 0]

MEInit ==
    /\ file_map = [n \in Names |-> NoState]
    /\ states = [s \in States |-> NewState]
    /\ memHandle = [h \in MemHandles |-> NoHandle]
    /\ skipping = [h \in MemHandles |-> 0]

-----------------------------------------------------------------------------
(* FileState.                                                               *)

RefState(ss, s) == [ss EXCEPT ![s].refs = @ + 1]

\* The last reference deletes the object.
UnrefState(ss, s) == IF ss[s].refs = 1 THEN [ss EXCEPT ![s] = NewState] ELSE [ss EXCEPT ![s].refs = @ - 1]

Truncate(f) == [f EXCEPT !.blocks = <<>>, !.size = 0, !.written = <<>>]

Min2(a, b) == IF a < b THEN a ELSE b

\* What new char[] holds, and a scratch buffer.
Unwritten == 0

\* memcpy(to + i, from + j, n).
memcpy(to, i, from, j, n) == [x \in DOMAIN to |-> IF x \in i + 1 .. i + n THEN from[x - i + j] ELSE to[x]]

\* One turn of the loop of Append, with src_len > 0: into what is left of the
\* last block, or into a new one.
AppendTurn(data, t) ==
    LET offset == t.size % MemBlock
        blocks == IF offset # 0 THEN t.blocks ELSE Append(t.blocks, [x \in 1 .. MemBlock |-> Unwritten])
        avail == Min2(IF offset # 0 THEN MemBlock - offset ELSE MemBlock, t.src_len)
    IN  [blocks |-> [blocks EXCEPT ![Len(blocks)] = memcpy(@, offset, data, t.src, avail)],
         size |-> t.size + avail, src |-> t.src + avail, src_len |-> t.src_len - avail]

\* The loop: each turn copies a byte or more.
AppendLoop(f, data) ==
    LET turns[i \in 0 .. Len(data)] ==
            IF i = 0 THEN [blocks |-> f.blocks, size |-> f.size, src |-> 0, src_len |-> Len(data)]
            ELSE IF turns[i - 1].src_len > 0 THEN AppendTurn(data, turns[i - 1])
            ELSE turns[i - 1]
    IN  turns[Len(data)]

AppendState(f, data) ==
    [f EXCEPT !.blocks = AppendLoop(f, data).blocks, !.size = AppendLoop(f, data).size, !.written = @ \o data]

\* Mutant of ReadTurn: block_offset is not set back for the next block.
ReadTurnKeepsOffset(f, t) ==
    LET avail == Min2(MemBlock - t.block_offset, t.bytes_to_copy)
    IN  [block |-> t.block + 1, block_offset |-> t.block_offset, bytes_to_copy |-> t.bytes_to_copy - avail,
         dst |-> t.dst + avail, scratch |-> memcpy(t.scratch, t.dst, f.blocks[t.block + 1], t.block_offset, avail)]

\* One turn of the loop of Read, with bytes_to_copy > 0.
ReadTurn(f, t) ==
    LET avail == Min2(MemBlock - t.block_offset, t.bytes_to_copy)
    IN  [block |-> t.block + 1, block_offset |-> 0, bytes_to_copy |-> t.bytes_to_copy - avail,
         dst |-> t.dst + avail, scratch |-> memcpy(t.scratch, t.dst, f.blocks[t.block + 1], t.block_offset, avail)]

ReadLoop(f, offset, n) ==
    LET turns[i \in 0 .. n] ==
            IF i = 0 THEN [block |-> offset \div MemBlock, block_offset |-> offset % MemBlock,
                           bytes_to_copy |-> n, dst |-> 0, scratch |-> [x \in 1 .. n |-> Unwritten]]
            ELSE IF turns[i - 1].bytes_to_copy > 0 THEN ReadTurn(f, turns[i - 1])
            ELSE turns[i - 1]
    IN  turns[n]

\* FileState::Read: what there is of n bytes; an offset past the end is an error.
ReadState(f, offset, n) ==
    IF offset > f.size THEN [ok |-> FALSE, bytes |-> <<>>]
    ELSE [ok |-> TRUE, bytes |-> ReadLoop(f, offset, Min2(n, f.size - offset)).scratch]

-----------------------------------------------------------------------------
(* The environment.                                                         *)

FreeHandles == {h \in MemHandles : memHandle[h].kind = "none"}

FreeStates == {s \in States : states[s].refs = 0}

\* What new FileState() returns.
Allocated(s) == s \in FreeStates /\ \A r \in FreeStates : s <= r

Give(ss, h, kind, s) ==
    /\ states' = RefState(ss, s)
    /\ memHandle' = [memHandle EXCEPT ![h] = [kind |-> kind, state |-> s, pos |-> 0]]
    /\ UNCHANGED skipping

\* NewSequentialFile and NewRandomAccessFile: an error unless the name is in
\* the map. A null entry would be used like any other.
OpenForRead(h, kind, n) ==
    /\ h \in FreeHandles /\ kind \in {"sequential", "random"} /\ file_map[n] \notin {NoState, NullState}
    /\ Give(states, h, kind, file_map[n])
    /\ UNCHANGED file_map

\* A new file is in the map with a reference of the map's; one that is there
\* is truncated, under the handles that are open too.
NewWritableFile(h, n) ==
    /\ h \in FreeHandles
    /\ IF file_map[n] = NoState
       THEN \E s \in States : /\ Allocated(s)
               /\ file_map' = [file_map EXCEPT ![n] = s]
               /\ Give(RefState(states, s), h, "writable", s)
       ELSE /\ file_map[n] # NullState
            /\ Give([states EXCEPT ![file_map[n]] = Truncate(@)], h, "writable", file_map[n])
            /\ UNCHANGED file_map

\* file_map_[fname] makes an entry for a new name, and nothing stores the new
\* FileState in it.
NewAppendableFile(h, n) ==
    /\ h \in FreeHandles
    /\ IF file_map[n] \in {NoState, NullState}
       THEN AppendNew /\ \E s \in States : /\ Allocated(s)
               /\ file_map' = [file_map EXCEPT ![n] = NullState]
               /\ Give(RefState(states, s), h, "writable", s)
       ELSE Give(states, h, "writable", file_map[n]) /\ UNCHANGED file_map

AppendHandle(h, data) ==
    /\ memHandle[h].kind = "writable"
    /\ LET s == memHandle[h].state
       IN  states[s].size + Len(data) <= MaxSize /\ states' = [states EXCEPT ![s] = AppendState(@, data)]
    /\ UNCHANGED <<file_map, memHandle, skipping>>

\* SequentialFileImpl::Read moves by what it got; an error moves nothing.
ReadHandle(h, n) ==
    /\ memHandle[h].kind = "sequential" /\ skipping[h] = 0
    /\ LET r == ReadState(states[memHandle[h].state], memHandle[h].pos, n)
       IN  memHandle' = [memHandle EXCEPT ![h].pos = @ + IF r.ok THEN Len(r.bytes) ELSE 0]
    /\ UNCHANGED <<file_map, states, skipping>>

\* Skip compares the position with the size, an error if it is beyond ...
SkipChecks(h, n) ==
    /\ memHandle[h].kind = "sequential" /\ skipping[h] = 0
    /\ memHandle[h].pos <= states[memHandle[h].state].size
    /\ skipping' = [skipping EXCEPT ![h] = n]
    /\ UNCHANGED <<file_map, states, memHandle>>

\* ... and asks for the size again. If the file was truncated in between, the
\* unsigned difference is huge and the position moves past the end.
SkipMoves(h) ==
    /\ skipping[h] > 0
    /\ LET available == states[memHandle[h].state].size - memHandle[h].pos
           n == IF available < 0 THEN skipping[h] ELSE Min2(skipping[h], available)
       IN  memHandle' = [memHandle EXCEPT ![h].pos = @ + n]
    /\ skipping' = [skipping EXCEPT ![h] = 0]
    /\ UNCHANGED <<file_map, states>>

DeleteHandle(h) ==
    /\ memHandle[h].kind # "none" /\ skipping[h] = 0
    /\ states' = UnrefState(states, memHandle[h].state)
    /\ memHandle' = [memHandle EXCEPT ![h] = NoHandle]
    /\ UNCHANGED <<file_map, skipping>>

RemoveFileInternal(ss, n) == IF file_map[n] = NoState THEN ss ELSE UnrefState(ss, file_map[n])

RemoveFile(n) ==
    /\ file_map[n] \notin {NoState, NullState}
    /\ states' = RemoveFileInternal(states, n)
    /\ file_map' = [file_map EXCEPT ![n] = NoState]
    /\ UNCHANGED <<memHandle, skipping>>

\* Mutant of RenameFile: the file that is replaced keeps the map's reference.
RenameFileKeeps(src, target) ==
    /\ file_map[src] # NoState
    /\ file_map' = [file_map EXCEPT ![target] = file_map[src], ![src] = NoState]
    /\ UNCHANGED <<states, memHandle, skipping>>

\* What the target was is removed, then the source's entry moved. A file that
\* is renamed to its own name is gone.
RenameFile(src, target) ==
    /\ file_map[src] # NoState /\ file_map[target] # NullState
    /\ states' = RemoveFileInternal(states, target)
    /\ file_map' = [file_map EXCEPT ![target] = file_map[src], ![src] = NoState]
    /\ UNCHANGED <<memHandle, skipping>>

MENext ==
    \/ \E h \in MemHandles :
          \/ \E n \in Names : \/ \E kind \in {"sequential", "random"} : OpenForRead(h, kind, n)
                              \/ NewWritableFile(h, n) \/ NewAppendableFile(h, n)
          \/ \E len \in 0 .. MaxSize : AppendHandle(h, [i \in 1 .. len |-> states[memHandle[h].state].size + i])
          \/ \E n \in 1 .. MemBlock + 1 : ReadHandle(h, n) \/ SkipChecks(h, n)
          \/ SkipMoves(h) \/ DeleteHandle(h)
    \/ \E n \in Names : RemoveFile(n) \/ \E m \in Names : RenameFile(n, m)

MESpec == MEInit /\ [][MENext]_meVars

-----------------------------------------------------------------------------
\* A FileState lives exactly as long as a name or a handle leads to it: what
\* is removed or renamed over stays readable through open handles and goes
\* with the last of them, and nothing leaks (memenv.cc:33-55, 311-356).
StatesCounted ==
    \A s \in States :
        states[s].refs = Cardinality({n \in Names : file_map[n] = s})
                         + Cardinality({h \in MemHandles : memHandle[h].state = s})

\* Read returns the bytes at its offset, over any number of blocks and at
\* their edges, an empty result at the end, and an error only past it.
ReadsAreWritten ==
    \A s \in States \ FreeStates : \A offset \in 0 .. MaxSize + 1, n \in 0 .. MaxSize :
        LET f == states[s]
            end == IF offset + n < Len(f.written) THEN offset + n ELSE Len(f.written)
        IN  ReadState(f, offset, n) =
                [ok |-> offset <= Len(f.written), bytes |-> SubSeq(f.written, offset + 1, end)]

\* NewAppendableFile "either appends to an existing file, or writes to a new
\* file" (env.h:98-99): a file that was written has its name.
NewFilesHaveNames == \A n \in Names : file_map[n] # NullState

=============================================================================
