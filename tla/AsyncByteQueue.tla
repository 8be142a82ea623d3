--------------------------- MODULE AsyncByteQueue ---------------------------
(***************************************************************************)
(* container/async-byte-queue.{h,cpp}: a single-producer single-consumer   *)
(* byte queue made of a linked list of chunks.  The writer thread appends  *)
(* to the last chunk and links new ones; the reader thread walks the list, *)
(* dropping the mutex around every callback, and frees what it has left    *)
(* behind.                                                                 *)
(*                                                                         *)
(* Every critical section of mutex_ is one action; so is every stretch of  *)
(* unlocked code between two of them.  The k-th chunk allocated has id k,  *)
(* Null is nullptr; ids are never reused, so a use after free shows.  The  *)
(* n-th byte appended has the value n, and memory never written holds 0.   *)
(***************************************************************************)
EXTENDS Integers, Sequences

CONSTANTS
    DefaultChunkSize,  \* default_chunk_size
    MaxAppend,         \* bound: largest byte_count given to append
    Alignments,        \* alignments given to append_aligned
    MaxBytes,          \* bound: bytes appended in a behaviour
    MaxChunks          \* bound: chunks allocated in a behaviour

ASSUME SizesAssumption ==
    /\ DefaultChunkSize \in Nat \ {0}
    /\ MaxAppend \in Nat
    /\ Alignments \subseteq Nat \ {0}
    /\ MaxBytes \in Nat
    /\ MaxChunks \in Nat \ {0}

Null == 0
Uninit == -1

Larger(a, b) == IF a >= b THEN a ELSE b

ChunkId == 1 .. MaxChunks
Capacity == Larger(DefaultChunkSize, MaxAppend)
Offset == 0 .. Capacity - 1

VARIABLES
    \* struct Chunk, one function per field
    begin_index, committed_index, data_size, next, capacity, data,
    alive,        \* chunks allocated and not deallocated
    nchunks,      \* chunks allocated so far
    \* the writer thread
    wpc, writer_last_chunk, writer_cursor, request,
    \* the reader thread
    rpc, reader_chunk, first_chunk, c, old_size,
    \* history variables: nothing in the code reads them
    start,        \* stream position at which a chunk begins
    appended,     \* bytes appended
    committed,    \* bytes appended when commit was last called
    taken         \* bytes handed to chunk_callback

chunkVars == <<begin_index, committed_index, data_size, next, capacity, data>>
heapVars == <<alive, nchunks, start>>
writerVars == <<wpc, writer_last_chunk, writer_cursor, request, appended, committed>>
readerVars == <<rpc, reader_chunk, first_chunk, c, old_size, taken>>
vars == <<chunkVars, heapVars, writerVars, readerVars>>

NoRequest == [min |-> 0, max |-> 0]

Init ==
    /\ begin_index = [k \in ChunkId |-> 0]
    /\ committed_index = [k \in ChunkId |-> 0]
    /\ data_size = [k \in ChunkId |-> Uninit]
    /\ next = [k \in ChunkId |-> Null]
    /\ capacity = [k \in ChunkId |-> DefaultChunkSize]
    /\ data = [k \in ChunkId |-> [i \in Offset |-> 0]]
    /\ alive = {1}
    /\ nchunks = 1
    /\ wpc = "idle"
    /\ writer_last_chunk = 1
    /\ writer_cursor = 0
    /\ request = NoRequest
    /\ rpc = "idle"
    /\ reader_chunk = 1
    /\ first_chunk = Null
    /\ c = Null
    /\ old_size = 0
    /\ start = [k \in ChunkId |-> 0]
    /\ appended = 0
    /\ committed = 0
    /\ taken = << >>

-----------------------------------------------------------------------------
(* The writer thread. *)

BytesRemaining == capacity[writer_last_chunk] - writer_cursor

\* reserve and reserve_aligned: min..max bytes will be written at the cursor.
Reserve(min, max, mustGrow) ==
    /\ wpc = "idle"
    /\ appended + max <= MaxBytes
    /\ wpc' = IF mustGrow THEN "grow" ELSE "write"
    /\ request' = [min |-> min, max |-> max]
    /\ UNCHANGED <<chunkVars, heapVars, readerVars,
                   writer_last_chunk, writer_cursor, appended, committed>>

AppendBytes(n) == Reserve(n, n, BytesRemaining < n)

\* The callback of append_aligned may write fewer bytes than it asked for.
AppendAligned(n, alignment) ==
    Reserve(0, n, writer_cursor % alignment # 0 \/ BytesRemaining < n)

\* grow: record the size of the chunk that is about to be left.
Grow ==
    /\ wpc = "grow"
    /\ data_size' = [data_size EXCEPT ![writer_last_chunk] = writer_cursor]
    /\ wpc' = "link"
    /\ UNCHANGED <<begin_index, committed_index, next, capacity, data, heapVars,
                   writer_last_chunk, writer_cursor, request, appended, committed,
                   readerVars>>

NewChunkSize_Sum(n) == DefaultChunkSize + n
NewChunkSize(n) == Larger(DefaultChunkSize, n)

\* add_new_chunk: allocate without the lock, then link under it.
AddNewChunk ==
    /\ wpc = "link"
    /\ nchunks < MaxChunks
    /\ LET new == nchunks + 1 IN
        /\ nchunks' = new
        /\ alive' = alive \union {new}
        /\ capacity' = [capacity EXCEPT ![new] = NewChunkSize(request.max)]
        /\ next' = [next EXCEPT ![writer_last_chunk] = new]
        /\ start' = [start EXCEPT ![new] = appended]
        /\ writer_last_chunk' = new
        /\ writer_cursor' = 0
    /\ wpc' = "write"
    /\ UNCHANGED <<begin_index, committed_index, data_size, data, request,
                   appended, committed, readerVars>>

\* The caller of append fills the bytes; append_aligned's callback does so
\* before the cursor moves.  Both are the writer's own memory.
Write ==
    /\ wpc = "write"
    /\ \E n \in request.min .. request.max :
        /\ data' = [data EXCEPT ![writer_last_chunk] =
                     [i \in Offset |->
                        IF i \in writer_cursor .. writer_cursor + n - 1
                        THEN appended + (i - writer_cursor) + 1
                        ELSE data[writer_last_chunk][i]]]
        /\ writer_cursor' = writer_cursor + n
        /\ appended' = appended + n
    /\ wpc' = "idle"
    /\ request' = NoRequest
    /\ UNCHANGED <<begin_index, committed_index, data_size, next, capacity, heapVars,
                   writer_last_chunk, committed, readerVars>>

Commit ==
    /\ wpc = "idle"
    /\ data_size' = [data_size EXCEPT ![writer_last_chunk] = writer_cursor]
    /\ committed_index' = [committed_index EXCEPT ![writer_last_chunk] = writer_cursor]
    /\ committed' = appended
    /\ UNCHANGED <<begin_index, next, capacity, data, heapVars,
                   wpc, writer_last_chunk, writer_cursor, request, appended,
                   readerVars>>

-----------------------------------------------------------------------------
(* The reader thread: take_committed. *)

BeginTake ==
    /\ rpc = "idle"
    /\ first_chunk' = reader_chunk
    /\ c' = reader_chunk
    /\ rpc' = "lock"
    /\ UNCHANGED <<chunkVars, heapVars, writerVars, reader_chunk, old_size, taken>>

IsMiddleChunk(k) == next[k] # Null

\* NOTE[committed_index-data_size]: the last chunk's size is committed_index,
\* every other's is data_size.
TakeableSize_Committed(k) == committed_index[k]
TakeableSize_Capacity(k) == capacity[k]
TakeableSize(k) == IF IsMiddleChunk(k) THEN data_size[k] ELSE committed_index[k]

\* With the lock held, choose the span of chunk k that the callback gets.
EnterChunk(k) ==
    /\ c' = k
    /\ old_size' = TakeableSize(k)
    /\ rpc' = IF IsMiddleChunk(k) THEN "middle" ELSE "last"

LockForTake ==
    /\ rpc = "lock"
    /\ EnterChunk(c)
    /\ UNCHANGED <<chunkVars, heapVars, writerVars, reader_chunk, first_chunk, taken>>

\* chunk_callback reads the span while mutex_ is not held.
Callback(from, to) ==
    /\ rpc = from
    /\ taken' = taken \o [i \in 1 .. old_size - begin_index[c] |->
                            data[c][begin_index[c] + i - 1]]
    /\ rpc' = to
    /\ UNCHANGED <<chunkVars, heapVars, writerVars, reader_chunk, first_chunk, c, old_size>>

CallbackMiddle == Callback("middle", "relock_middle")
CallbackLast == Callback("last", "relock_last")

NextChunk ==
    /\ rpc = "relock_middle"
    /\ EnterChunk(next[c])
    /\ UNCHANGED <<chunkVars, heapVars, writerVars, reader_chunk, first_chunk, taken>>

LastChunkChanged_NextOnly == next[c] # Null
LastChunkChanged_Never == FALSE
LastChunkChanged == next[c] # Null \/ committed_index[c] # old_size

\* goto take_from_chunks: the writer changed the last chunk during the callback.
TakeMore ==
    /\ rpc = "relock_last"
    /\ LastChunkChanged
    /\ begin_index' = [begin_index EXCEPT ![c] = old_size]
    /\ EnterChunk(c)
    /\ UNCHANGED <<committed_index, data_size, next, capacity, data, heapVars,
                   writerVars, reader_chunk, first_chunk, taken>>

StopTaking ==
    /\ rpc = "relock_last"
    /\ ~LastChunkChanged
    /\ begin_index' = [begin_index EXCEPT ![c] = old_size]
    /\ reader_chunk' = c
    /\ rpc' = "finalize"
    /\ UNCHANGED <<committed_index, data_size, next, capacity, data, heapVars,
                   writerVars, first_chunk, c, old_size, taken>>

\* finalize_callback may still use every span the chunk_callback was given.
FinalizeTake ==
    /\ rpc = "finalize"
    /\ c' = first_chunk
    /\ rpc' = "free"
    /\ UNCHANGED <<chunkVars, heapVars, writerVars, reader_chunk, first_chunk,
                   old_size, taken>>

DoneFreeing_UpToWriter == c = writer_last_chunk
DoneFreeing == c = reader_chunk

\* Free first_chunk up to last_chunk (now reader_chunk_); c->next is read
\* without mutex_.
FreeChunk ==
    /\ rpc = "free"
    /\ ~DoneFreeing
    /\ alive' = alive \ {c}
    /\ c' = next[c]
    /\ UNCHANGED <<chunkVars, nchunks, start, writerVars, rpc, reader_chunk,
                   first_chunk, old_size, taken>>

EndTake ==
    /\ rpc = "free"
    /\ DoneFreeing
    /\ rpc' = "idle"
    /\ c' = Null
    /\ first_chunk' = Null
    /\ old_size' = 0
    /\ UNCHANGED <<chunkVars, heapVars, writerVars, reader_chunk, taken>>

-----------------------------------------------------------------------------
(* ~Async_Byte_Queue: both threads have stopped using the queue. *)

Destroy ==
    /\ wpc = "idle" /\ rpc = "idle"
    /\ wpc' = "gone"
    /\ rpc' = "destroy"
    /\ c' = reader_chunk
    /\ UNCHANGED <<chunkVars, heapVars, writer_last_chunk, writer_cursor, request,
                   appended, committed, reader_chunk, first_chunk, old_size, taken>>

DestroyChunk ==
    /\ rpc = "destroy"
    /\ c # Null
    /\ alive' = alive \ {c}
    /\ c' = next[c]
    /\ rpc' = IF next[c] = Null THEN "gone" ELSE "destroy"
    /\ UNCHANGED <<chunkVars, nchunks, start, writerVars, reader_chunk,
                   first_chunk, old_size, taken>>

-----------------------------------------------------------------------------
WriterNext ==
    \/ \E n \in 0 .. MaxAppend : AppendBytes(n)
    \/ \E n \in 0 .. MaxAppend, alignment \in Alignments : AppendAligned(n, alignment)
    \/ Grow
    \/ AddNewChunk
    \/ Write
    \/ Commit

\* The steps of a take_committed call that has begun.
TakeStep ==
    \/ LockForTake
    \/ CallbackMiddle
    \/ CallbackLast
    \/ NextChunk
    \/ TakeMore
    \/ StopTaking
    \/ FinalizeTake
    \/ FreeChunk
    \/ EndTake

Next ==
    \/ WriterNext
    \/ BeginTake
    \/ TakeStep
    \/ Destroy
    \/ DestroyChunk

Spec == Init /\ [][Next]_vars

\* A thread inside take_committed keeps being scheduled and gets the mutex,
\* which the writer holds only for a few instructions.  Nothing obliges the
\* writer to write, or anyone to call take_committed.
FairSpec == Spec /\ WF_vars(TakeStep)

-----------------------------------------------------------------------------
(* Properties. *)

InTakeLoop == rpc \in {"lock", "middle", "last", "relock_middle", "relock_last"}
InCallback == rpc \in {"middle", "last"}

TypeOK ==
    /\ begin_index \in [ChunkId -> 0 .. Capacity]
    /\ committed_index \in [ChunkId -> 0 .. Capacity]
    /\ data_size \in [ChunkId -> {Uninit} \union 0 .. Capacity]
    /\ next \in [ChunkId -> {Null} \union ChunkId]
    /\ capacity \in [ChunkId -> 0 .. Capacity]
    /\ data \in [ChunkId -> [Offset -> Nat]]
    /\ alive \subseteq ChunkId
    /\ nchunks \in ChunkId
    /\ wpc \in {"idle", "grow", "link", "write", "gone"}
    /\ writer_last_chunk \in ChunkId
    /\ writer_cursor \in 0 .. Capacity
    /\ request \in [min : 0 .. MaxAppend, max : 0 .. MaxAppend]
    /\ rpc \in {"idle", "lock", "middle", "last", "relock_middle", "relock_last",
                "finalize", "free", "destroy", "gone"}
    /\ reader_chunk \in ChunkId
    /\ first_chunk \in {Null} \union ChunkId
    /\ c \in {Null} \union ChunkId
    /\ old_size \in {Uninit} \union 0 .. Capacity
    /\ start \in [ChunkId -> Nat]
    /\ appended \in Nat
    /\ committed \in Nat
    /\ taken \in Seq(Nat)

\* The reader receives the bytes the writer appended, each once, in order,
\* with no gap and no byte that was never written.
TakenInOrder ==
    /\ Len(taken) <= appended
    /\ \A i \in 1 .. Len(taken) : taken[i] = i

\* No thread holds a pointer to a freed chunk that it is going to follow, and
\* finalize_callback finds every chunk of this take alive.
NoUseAfterFree ==
    /\ wpc # "gone" => {writer_last_chunk, reader_chunk} \subseteq alive
    /\ InTakeLoop \/ (rpc = "free" /\ ~DoneFreeing) \/ (rpc = "destroy") => c \in alive
    /\ rpc = "finalize" => first_chunk .. reader_chunk \subseteq alive

\* async-byte-queue.h:194: the free loop runs without mutex_ because the writer
\* modifies no chunk but its last one, and that one is never being freed.
FreeLoopIsPrivate ==
    rpc = "free" /\ ~DoneFreeing => c # writer_last_chunk

\* The two assertions after the callback on a chunk that is not the last: the
\* callback and the writer left its data_size and its next alone.
MiddleChunkAssertions ==
    rpc = "relock_middle" => data_size[c] = old_size /\ next[c] # Null

\* While a callback reads its span without the lock, the writer does not touch
\* the bytes of the span (nor free or shrink the chunk under it).
SpanIsStable ==
    [][InCallback =>
        /\ c \in alive'
        /\ \A i \in begin_index[c] .. old_size - 1 : data'[c][i] = data[c][i]]_vars

\* Once both threads are done and the destructor has run, every chunk ever
\* allocated has been freed, committed or not.
NoLeak == rpc = "gone" => alive = {}

\* What is committed before a take re-checks the last chunk, that take delivers.
CommittedIsTaken ==
    \A n \in 1 .. MaxBytes :
        (InTakeLoop /\ committed >= n) ~> Len(taken) >= n

Stream == INSTANCE ByteStream WITH
    taken <- Len(taken),
    taking <- InTakeLoop

\* The queue implements the byte stream of ByteStream: in particular a take
\* ends only when everything committed by then has been handed out.
ImplementsByteStream == Stream!Spec

=============================================================================
