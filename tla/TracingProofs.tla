---------------------------- MODULE TracingProofs ----------------------------
(***************************************************************************)
(* Proofs about the two ends of tracing: the queue that a thread writes to *)
(* and the flusher reads (AsyncByteQueue), and the debug server that shows *)
(* what was flushed (DebugServer).  They share no state.                   *)
(*                                                                         *)
(* First, AsyncByteQueue, for every chunk size, append size, set of        *)
(* alignments and bound on bytes and chunks.                               *)
(*                                                                         *)
(* The inductive invariant says how the chunks tile the stream: chunk k    *)
(* starts where chunk k-1 ends, its bytes are the stream positions from    *)
(* there on, the chunks alive are a contiguous range that ends with the    *)
(* writer's, and the reader's position in its chunk is Len(taken).         *)
(***************************************************************************)
EXTENDS AsyncByteQueue, DebugServer, SequenceTheorems, TLAPS

\* The list: ids follow allocation order and end with the writer's chunk.
ListInv ==
    /\ writer_last_chunk = nchunks
    /\ \A k \in 1 .. nchunks - 1 : next[k] = k + 1
    /\ \A k \in nchunks .. MaxChunks : next[k] = Null

\* The chunks alive, from the oldest that is not yet freed.
Oldest ==
    IF rpc \in {"free", "destroy"} THEN c
    ELSE IF rpc = "finalize" THEN first_chunk
    ELSE IF rpc = "gone" THEN nchunks + 1
    ELSE reader_chunk

AliveInv ==
    /\ alive = Oldest .. nchunks
    /\ rpc = "free" => c <= reader_chunk
    /\ rpc \in {"free", "destroy"} => c \in 1 .. nchunks
    /\ rpc = "finalize" => first_chunk \in 1 .. reader_chunk
    /\ InTakeLoop => first_chunk = reader_chunk

\* How the chunks tile the stream.
TileInv ==
    /\ \A k \in 1 .. nchunks : start[k] <= appended
    /\ \A k \in 1 .. nchunks - 1 :
        /\ data_size[k] # Uninit
        /\ start[k + 1] = start[k] + data_size[k]
        /\ committed_index[k] <= data_size[k]
    /\ appended = start[nchunks] + writer_cursor
    /\ committed_index[nchunks] <= writer_cursor
    /\ committed <= start[nchunks] + committed_index[nchunks]
    /\ \A k \in nchunks + 1 .. MaxChunks : committed_index[k] = 0

WriterInv ==
    /\ wpc = "link" => data_size[nchunks] = writer_cursor
    /\ wpc = "write" => writer_cursor + request.max <= capacity[nchunks]
    /\ writer_cursor <= capacity[nchunks]

\* Byte i of chunk k, once appended, is stream position start[k] + i + 1.
DataInv ==
    /\ \A k \in 1 .. nchunks - 1 : \A i \in Offset :
        i < data_size[k] => data[k][i] = start[k] + i + 1
    /\ \A i \in Offset :
        i < writer_cursor => data[nchunks][i] = start[nchunks] + i + 1

ReaderInv ==
    LET current == IF InTakeLoop THEN c ELSE reader_chunk IN
    /\ current \in reader_chunk .. nchunks
    /\ \A k \in ChunkId : begin_index[k] <= committed_index[k]
    /\ \A k \in current + 1 .. MaxChunks : begin_index[k] = 0
    /\ rpc \in {"lock", "middle", "last"} => Len(taken) = start[c] + begin_index[c]
    /\ rpc \in {"middle", "last", "relock_middle", "relock_last"} =>
        begin_index[c] <= old_size
    /\ rpc \in {"relock_middle", "relock_last"} => Len(taken) = start[c] + old_size
    /\ rpc \in {"middle", "relock_middle"} => c < nchunks /\ old_size = data_size[c]
    /\ rpc \in {"last", "relock_last"} => old_size <= committed_index[c]
    /\ ~InTakeLoop => Len(taken) = start[reader_chunk] + begin_index[reader_chunk]

TakenInv == \A i \in 1 .. Len(taken) : taken[i] = i

GoneInv == (wpc = "gone") <=> (rpc \in {"destroy", "gone"})

IInv ==
    /\ TypeOK
    /\ ListInv
    /\ AliveInv
    /\ TileInv
    /\ WriterInv
    /\ DataInv
    /\ ReaderInv
    /\ TakenInv
    /\ GoneInv

-----------------------------------------------------------------------------
LEMMA CapacityFact ==
    /\ Capacity \in Nat \ {0}
    /\ DefaultChunkSize <= Capacity
    /\ \A n \in 0 .. MaxAppend :
        /\ Larger(DefaultChunkSize, n) \in 0 .. Capacity
        /\ n <= Larger(DefaultChunkSize, n)
BY SizesAssumption DEF Capacity, Larger

LEMMA InitIInv == Init => IInv
<1> SUFFICES ASSUME Init PROVE IInv
  OBVIOUS
<1> USE SizesAssumption, CapacityFact DEF Init, ChunkId, Null, Uninit, InTakeLoop
<1>1. TypeOK
  BY DEF TypeOK, Offset, NoRequest
<1>2. ListInv /\ AliveInv /\ TileInv /\ WriterInv /\ TakenInv /\ GoneInv
  BY DEF ListInv, AliveInv, Oldest, TileInv, WriterInv, TakenInv, GoneInv
<1>3. DataInv /\ ReaderInv
  BY DEF DataInv, ReaderInv, Offset
<1> QED
  BY <1>1, <1>2, <1>3 DEF IInv

LEMMA ChunksSoFar == TypeOK => /\ nchunks \in Nat \ {0}
                               /\ 1 .. nchunks \subseteq ChunkId
BY SizesAssumption DEF TypeOK, ChunkId

LEMMA ChunkFields ==
    ASSUME TypeOK, NEW k \in ChunkId
    PROVE  /\ start[k] \in Int /\ begin_index[k] \in Int /\ committed_index[k] \in Int
           /\ data_size[k] \in Int
<1>1. start[k] \in Int /\ begin_index[k] \in Int /\ committed_index[k] \in Int
  BY CapacityFact DEF TypeOK
<1>2. data_size[k] \in {-1} \union 0 .. Capacity
  BY DEF TypeOK, Uninit
<1> QED
  BY <1>1, <1>2, CapacityFact

LEMMA ReaderBehindWriter == IInv => reader_chunk \in 1 .. nchunks
<1> SUFFICES ASSUME IInv PROVE reader_chunk \in 1 .. nchunks
  OBVIOUS
<1>1. nchunks \in Nat /\ reader_chunk \in Nat /\ reader_chunk >= 1
  BY SizesAssumption DEF IInv, TypeOK, ChunkId
<1>2. CASE InTakeLoop
  BY <1>1, <1>2 DEF IInv, ReaderInv
<1>3. CASE ~InTakeLoop
  BY <1>1, <1>3 DEF IInv, ReaderInv
<1> QED
  BY <1>2, <1>3

-----------------------------------------------------------------------------
(* The writer's steps leave the reader's variables alone. *)

LEMMA ReserveStep ==
    ASSUME IInv, NEW min \in 0 .. MaxAppend, NEW max \in 0 .. MaxAppend,
           NEW mustGrow, ~mustGrow => BytesRemaining >= max,
           Reserve(min, max, mustGrow)
    PROVE  IInv'
<1> USE DEF Reserve, IInv, chunkVars, heapVars, readerVars
<1>1. TypeOK'
  BY DEF TypeOK
<1>2. ListInv' /\ TileInv' /\ DataInv' /\ TakenInv'
  BY DEF ListInv, TileInv, DataInv, TakenInv
<1>3. WriterInv'
  <2>1. CASE mustGrow
    BY <2>1 DEF WriterInv
  <2>2. CASE ~mustGrow
    <3>1. writer_cursor + max <= capacity[nchunks]
      <4>1. writer_cursor \in Int /\ max \in Int /\ capacity[nchunks] \in Int
        BY CapacityFact DEF TypeOK, ChunkId
      <4> QED
        BY <2>2, <4>1 DEF BytesRemaining, ListInv
    <3>2. request'.max = max /\ wpc' = "write"
      BY <2>2
    <3> QED
      BY <3>1, <3>2 DEF WriterInv
  <2> QED
    BY <2>1, <2>2
<1>4. AliveInv' /\ ReaderInv' /\ GoneInv'
  BY DEF AliveInv, Oldest, ReaderInv, GoneInv, InTakeLoop
<1> QED
  BY <1>1, <1>2, <1>3, <1>4

LEMMA GrowStep == IInv /\ Grow => IInv'
<1> SUFFICES ASSUME IInv, Grow PROVE IInv'
  OBVIOUS
<1> USE DEF Grow, IInv, chunkVars, heapVars, readerVars
<1>1. TypeOK'
  BY DEF TypeOK
<1>2. ListInv' /\ TakenInv'
  BY DEF ListInv, TakenInv
<1>3. data_size' = [data_size EXCEPT ![nchunks] = writer_cursor]
  BY DEF ListInv
<1>4. \A k \in 1 .. nchunks - 1 : data_size'[k] = data_size[k]
  BY <1>3 DEF TypeOK, ChunkId
<1>5. TileInv'
  BY <1>4 DEF TileInv
<1>6. DataInv'
  BY <1>4 DEF DataInv
<1>7. WriterInv'
  BY <1>3 DEF WriterInv, TypeOK
<1>8. AliveInv' /\ GoneInv'
  BY DEF AliveInv, Oldest, GoneInv, InTakeLoop
<1>9. ReaderInv'
  BY <1>4 DEF ReaderInv, InTakeLoop, TypeOK, ChunkId
<1> QED
  BY <1>1, <1>2, <1>5, <1>6, <1>7, <1>8, <1>9

LEMMA AddNewChunkStep == IInv /\ AddNewChunk => IInv'
<1> SUFFICES ASSUME IInv, AddNewChunk PROVE IInv'
  OBVIOUS
<1> DEFINE new == nchunks + 1
<1>1. nchunks \in Nat /\ nchunks >= 1 /\ new \in ChunkId /\ nchunks \in ChunkId
  BY SizesAssumption DEF IInv, TypeOK, AddNewChunk, ChunkId
<1>2. request.max \in 0 .. MaxAppend
  BY DEF IInv, TypeOK
<1>3. Larger(DefaultChunkSize, request.max) \in 0 .. Capacity
  BY <1>2, CapacityFact
<1>4. /\ nchunks' = new
      /\ alive' = alive \union {new}
      /\ capacity' = [capacity EXCEPT ![new] = Larger(DefaultChunkSize, request.max)]
      /\ next' = [next EXCEPT ![nchunks] = new]
      /\ start' = [start EXCEPT ![new] = appended]
      /\ writer_last_chunk' = new
      /\ writer_cursor' = 0
      /\ wpc = "link" /\ wpc' = "write"
      /\ UNCHANGED <<begin_index, committed_index, data_size, data, request,
                     appended, committed, readerVars>>
  BY DEF AddNewChunk, NewChunkSize, IInv, ListInv
<1> HIDE DEF new
<1>5. TypeOK'
  <2>1. /\ capacity' \in [ChunkId -> 0 .. Capacity]
        /\ next' \in [ChunkId -> {Null} \union ChunkId]
        /\ start' \in [ChunkId -> Nat]
        /\ alive' \subseteq ChunkId
    BY <1>1, <1>3, <1>4 DEF IInv, TypeOK
  <2>2. writer_cursor' \in 0 .. Capacity
    BY <1>4, CapacityFact
  <2> QED
    BY <1>1, <1>4, <2>1, <2>2 DEF IInv, TypeOK, readerVars
<1>6. \A k \in 1 .. nchunks : start'[k] = start[k]
  BY <1>1, <1>4 DEF IInv, TypeOK, ChunkId, new
<1>7. start'[new] = appended /\ capacity'[new] = Larger(DefaultChunkSize, request.max)
  BY <1>1, <1>4 DEF IInv, TypeOK
<1>8. ListInv'
  <2>1. next'[nchunks] = new /\ \A k \in ChunkId \ {nchunks} : next'[k] = next[k]
    BY <1>1, <1>4 DEF IInv, TypeOK
  <2>2. \A k \in 1 .. new - 1 : next'[k] = k + 1
    BY <1>1, <2>1, SizesAssumption DEF IInv, ListInv, ChunkId, new
  <2>3. \A k \in new .. MaxChunks : next'[k] = Null
    BY <1>1, <2>1, SizesAssumption DEF IInv, ListInv, ChunkId, new
  <2> QED
    BY <1>4, <2>2, <2>3 DEF ListInv
<1>9. TakenInv' /\ GoneInv'
  BY <1>4 DEF IInv, TakenInv, GoneInv, readerVars
<1>10. TileInv'
  <2>1. data_size[nchunks] = writer_cursor /\ writer_cursor \in Nat
    BY <1>4, CapacityFact DEF IInv, WriterInv, TypeOK
  <2>2. start'[new] = start[nchunks] + data_size[nchunks]
    BY <1>7, <2>1 DEF IInv, TileInv
  <2>3. committed_index[nchunks] <= data_size[nchunks]
    BY <2>1 DEF IInv, TileInv
  <2>4. committed_index[new] = 0
    BY <1>1 DEF IInv, TileInv, ChunkId, new
  <2>5. committed <= appended
    <3>1. /\ committed \in Int /\ appended \in Int
          /\ start[nchunks] \in Int /\ committed_index[nchunks] \in Int
      BY <1>1, CapacityFact DEF IInv, TypeOK
    <3> QED
      BY <2>1, <3>1 DEF IInv, TileInv
  <2>6. appended \in Nat /\ committed \in Nat
    BY DEF IInv, TypeOK
  <2>7. \A k \in 1 .. new : start'[k] <= appended
    BY <1>1, <1>6, <1>7, <2>6 DEF IInv, TileInv, new
  <2>8. \A k \in 1 .. new - 1 :
          /\ data_size[k] # Uninit
          /\ start'[k + 1] = start'[k] + data_size[k]
          /\ committed_index[k] <= data_size[k]
    <3> SUFFICES ASSUME NEW k \in 1 .. new - 1
                 PROVE  /\ data_size[k] # Uninit
                        /\ start'[k + 1] = start'[k] + data_size[k]
                        /\ committed_index[k] <= data_size[k]
      OBVIOUS
    <3>1. CASE k < nchunks
      BY <3>1, <1>1, <1>6 DEF IInv, TileInv, new
    <3>2. CASE k = nchunks
      BY <3>2, <1>1, <1>6, <2>1, <2>2, <2>3 DEF new, Uninit
    <3> QED
      BY <3>1, <3>2, <1>1 DEF new
  <2>9. \A k \in new + 1 .. MaxChunks : committed_index[k] = 0
    BY <1>1, SizesAssumption DEF IInv, TileInv, new
  <2> QED
    BY <1>4, <1>7, <2>4, <2>5, <2>6, <2>7, <2>8, <2>9 DEF TileInv
<1>11. DataInv'
  <2>1. data_size[nchunks] = writer_cursor
    BY <1>4 DEF IInv, WriterInv
  <2>2. ASSUME NEW k \in 1 .. new - 1, NEW i \in Offset, i < data_size[k]
        PROVE  data[k][i] = start'[k] + i + 1
    <3>1. CASE k < nchunks
      BY <3>1, <2>2, <1>1, <1>6 DEF IInv, DataInv, new
    <3>2. CASE k = nchunks
      BY <3>2, <2>1, <2>2, <1>1, <1>6 DEF IInv, DataInv
    <3> QED
      BY <3>1, <3>2, <1>1 DEF new
  <2>3. ASSUME NEW i \in Offset PROVE ~(i < 0)
    BY CapacityFact DEF Offset
  <2> QED
    BY <1>4, <2>2, <2>3 DEF DataInv
<1>12. WriterInv'
  <2>1. request.max <= Larger(DefaultChunkSize, request.max)
    BY <1>2, CapacityFact
  <2>2. 0 + request.max = request.max /\ 0 <= Larger(DefaultChunkSize, request.max)
    BY <1>2, <1>3, CapacityFact, SizesAssumption
  <2> QED
    BY <1>4, <1>7, <2>1, <2>2 DEF WriterInv
<1>13. AliveInv'
  <2>1. rpc # "gone" /\ rpc # "destroy"
    BY <1>4 DEF IInv, GoneInv
  <2>2. Oldest' = Oldest
    BY <1>4, <2>1 DEF Oldest, readerVars
  <2>3. reader_chunk \in 1 .. nchunks
    BY ReaderBehindWriter
  <2>4. Oldest \in Int /\ Oldest <= nchunks
    BY <1>1, <2>1, <2>3 DEF IInv, AliveInv, Oldest
  <2>5. alive' = Oldest .. new
    BY <1>1, <1>4, <2>4 DEF IInv, AliveInv, new
  <2> QED
    BY <1>1, <1>4, <2>1, <2>2, <2>5 DEF IInv, AliveInv, readerVars, InTakeLoop, new
<1>14. ReaderInv'
  <2>1. \A k \in 1 .. nchunks : start'[k] = start[k]
    BY <1>6
  <2>2. c \in {Null} \union ChunkId /\ reader_chunk \in ChunkId
    BY DEF IInv, TypeOK
  <2> QED
    BY <1>1, <1>4, <2>1, <2>2, SizesAssumption
    DEF IInv, ReaderInv, InTakeLoop, readerVars, ChunkId, Null, new
<1> QED
  BY <1>5, <1>8, <1>9, <1>10, <1>11, <1>12, <1>13, <1>14 DEF IInv

LEMMA WriteStep == IInv /\ Write => IInv'
<1> SUFFICES ASSUME IInv, Write PROVE IInv'
  OBVIOUS
<1> DEFINE bytes(n) == [i \in Offset |->
                          IF i \in writer_cursor .. writer_cursor + n - 1
                          THEN appended + (i - writer_cursor) + 1
                          ELSE data[nchunks][i]]
<1>1. PICK n \in request.min .. request.max :
        /\ data' = [data EXCEPT ![nchunks] = bytes(n)]
        /\ writer_cursor' = writer_cursor + n
        /\ appended' = appended + n
  BY DEF Write, IInv, ListInv
<1>2. /\ wpc = "write" /\ wpc' = "idle"
      /\ request' = NoRequest
      /\ UNCHANGED <<begin_index, committed_index, data_size, next, capacity, heapVars,
                     writer_last_chunk, committed, readerVars>>
  BY DEF Write
<1>3. /\ n \in Nat /\ writer_cursor \in Nat /\ appended \in Nat
      /\ nchunks \in ChunkId
      /\ start[nchunks] \in Nat
      /\ data[nchunks] \in [Offset -> Nat]
  BY <1>1, CapacityFact DEF IInv, TypeOK
<1>4. writer_cursor + n <= capacity[nchunks] /\ capacity[nchunks] \in 0 .. Capacity
  <2>1. request.max \in Nat /\ n <= request.max /\ capacity[nchunks] \in 0 .. Capacity
    BY <1>1, <1>3, SizesAssumption DEF IInv, TypeOK
  <2> QED
    BY <2>1, <1>2, <1>3, CapacityFact DEF IInv, WriterInv
<1>5. bytes(n) \in [Offset -> Nat]
  BY <1>3, CapacityFact DEF Offset
<1>6. data'[nchunks] = bytes(n) /\ \A k \in ChunkId \ {nchunks} : data'[k] = data[k]
  BY <1>1, <1>3 DEF IInv, TypeOK
<1>7. TypeOK'
  <2>1. data' \in [ChunkId -> [Offset -> Nat]]
    BY <1>1, <1>3, <1>5 DEF IInv, TypeOK
  <2>2. writer_cursor' \in 0 .. Capacity /\ appended' \in Nat
    BY <1>1, <1>3, <1>4, CapacityFact
  <2>3. request' \in [min : 0 .. MaxAppend, max : 0 .. MaxAppend]
    BY <1>2, SizesAssumption DEF NoRequest
  <2> QED
    BY <1>2, <2>1, <2>2, <2>3 DEF IInv, TypeOK, heapVars, readerVars
<1>8. ListInv' /\ TakenInv' /\ GoneInv' /\ AliveInv'
  BY <1>2 DEF IInv, ListInv, TakenInv, GoneInv, AliveInv, Oldest, InTakeLoop,
              heapVars, readerVars
<1>9. TileInv'
  <2>1. \A k \in 1 .. nchunks : start[k] \in Nat
    BY ChunksSoFar DEF IInv, TypeOK
  <2>2. committed_index[nchunks] \in Nat
    BY <1>3, CapacityFact DEF IInv, TypeOK
  <2>3. \A k \in 1 .. nchunks : start[k] <= appended'
    BY <2>1, <1>1, <1>3 DEF IInv, TileInv
  <2>4. appended' = start[nchunks] + writer_cursor' /\ committed_index[nchunks] <= writer_cursor'
    BY <1>1, <1>3, <2>2 DEF IInv, TileInv
  <2> QED
    BY <1>2, <2>3, <2>4 DEF IInv, TileInv, heapVars
<1>10. WriterInv'
  BY <1>1, <1>2, <1>4 DEF IInv, WriterInv, heapVars
<1>11. DataInv'
  <2>1. ASSUME NEW k \in 1 .. nchunks - 1, NEW i \in Offset, i < data_size[k]
        PROVE  data'[k][i] = start[k] + i + 1
    <3>1. k \in ChunkId \ {nchunks}
      BY <1>3, SizesAssumption DEF ChunkId
    <3> QED
      BY <2>1, <3>1, <1>6 DEF IInv, DataInv
  <2>2. ASSUME NEW i \in Offset, i < writer_cursor'
        PROVE  data'[nchunks][i] = start[nchunks] + i + 1
    <3>0. i \in Nat
      BY CapacityFact DEF Offset
    <3>1. CASE i < writer_cursor
      BY <3>0, <3>1, <1>3, <1>6 DEF IInv, DataInv
    <3>2. CASE i >= writer_cursor
      BY <3>0, <3>2, <2>2, <1>1, <1>3, <1>6 DEF IInv, TileInv
    <3> QED
      BY <3>0, <3>1, <3>2, <1>3
  <2> QED
    BY <1>2, <2>1, <2>2 DEF DataInv, heapVars
<1>12. ReaderInv'
  BY <1>2 DEF IInv, ReaderInv, InTakeLoop, heapVars, readerVars
<1> QED
  BY <1>7, <1>8, <1>9, <1>10, <1>11, <1>12 DEF IInv

LEMMA CommitStep == IInv /\ Commit => IInv'
<1> SUFFICES ASSUME IInv, Commit PROVE IInv'
  OBVIOUS
<1>1. /\ data_size' = [data_size EXCEPT ![nchunks] = writer_cursor]
      /\ committed_index' = [committed_index EXCEPT ![nchunks] = writer_cursor]
      /\ committed' = appended
      /\ UNCHANGED <<begin_index, next, capacity, data, heapVars, wpc,
                     writer_last_chunk, writer_cursor, request, appended, readerVars>>
  BY DEF Commit, IInv, ListInv
<1>2. /\ nchunks \in Nat \ {0}
      /\ 1 .. nchunks \subseteq ChunkId
      /\ writer_cursor \in Nat
  <2>1. writer_cursor \in Nat
    BY CapacityFact DEF IInv, TypeOK
  <2> QED
    BY <2>1, ChunksSoFar DEF IInv
<1>3. /\ data_size'[nchunks] = writer_cursor
      /\ committed_index'[nchunks] = writer_cursor
      /\ \A k \in ChunkId \ {nchunks} :
            data_size'[k] = data_size[k] /\ committed_index'[k] = committed_index[k]
  BY <1>1, <1>2 DEF IInv, TypeOK
<1>4. TypeOK'
  BY <1>1 DEF IInv, TypeOK, heapVars, readerVars
<1>5. ListInv' /\ TakenInv' /\ GoneInv' /\ AliveInv'
  BY <1>1 DEF IInv, ListInv, TakenInv, GoneInv, AliveInv, Oldest, InTakeLoop,
              heapVars, readerVars
<1>6. WriterInv'
  BY <1>1, <1>3 DEF Commit, IInv, WriterInv, heapVars
<1>7. \A k \in 1 .. nchunks - 1 : k \in ChunkId \ {nchunks}
  BY <1>2
<1>8. TileInv'
  <2>1. \A k \in nchunks + 1 .. MaxChunks : k \in ChunkId \ {nchunks}
    BY <1>2, SizesAssumption DEF ChunkId
  <2>2. writer_cursor <= writer_cursor /\ appended <= appended
    BY <1>2 DEF IInv, TypeOK
  <2> QED
    BY <1>1, <1>3, <1>7, <2>1, <2>2 DEF IInv, TileInv, heapVars
<1>9. DataInv'
  BY <1>1, <1>3, <1>7 DEF IInv, DataInv, heapVars
<1>10. ReaderInv'
  <2>1. \A k \in ChunkId : committed_index[k] <= committed_index'[k]
    <3>1. \A k \in ChunkId : committed_index[k] \in Int
      BY CapacityFact DEF IInv, TypeOK
    <3> QED
      BY <1>3, <3>1 DEF IInv, TileInv
  <2>2. \A k \in ChunkId : begin_index[k] <= committed_index'[k]
    <3>1. \A k \in ChunkId : /\ committed_index[k] \in Int
                             /\ committed_index'[k] \in Int
                             /\ begin_index[k] \in Int
      BY <1>4, CapacityFact DEF IInv, TypeOK
    <3> QED
      BY <2>1, <3>1 DEF IInv, ReaderInv
  <2>3. rpc \in {"last", "relock_last"} => old_size <= committed_index'[c]
    <3> SUFFICES ASSUME rpc \in {"last", "relock_last"}
                 PROVE  old_size <= committed_index'[c]
      OBVIOUS
    <3>1. c \in ChunkId
      BY ReaderBehindWriter, <1>2 DEF IInv, ReaderInv, InTakeLoop
    <3>2. old_size \in Int /\ committed_index[c] \in Int /\ committed_index'[c] \in Int
      BY <1>4, <3>1, CapacityFact DEF IInv, TypeOK, Uninit
    <3> QED
      BY <2>1, <3>1, <3>2 DEF IInv, ReaderInv
  <2>4. rpc \in {"middle", "relock_middle"} => data_size'[c] = data_size[c]
    BY <1>2, <1>3, ReaderBehindWriter DEF IInv, ReaderInv, InTakeLoop
  <2> QED
    BY <1>1, <2>2, <2>3, <2>4 DEF IInv, ReaderInv, InTakeLoop, heapVars, readerVars
<1> QED
  BY <1>4, <1>5, <1>6, <1>8, <1>9, <1>10 DEF IInv

-----------------------------------------------------------------------------
(* The reader's steps leave the writer's variables and most of the chunks'  *)
(* fields alone.                                                            *)

LEMMA ReaderFrame ==
    ASSUME IInv,
           UNCHANGED <<committed_index, data_size, next, capacity, data, nchunks, start,
                       writer_last_chunk, writer_cursor, request, appended, committed>>,
           wpc' \in {wpc, "gone"}
    PROVE  ListInv' /\ TileInv' /\ WriterInv' /\ DataInv'
BY DEF IInv, ListInv, TileInv, WriterInv, DataInv

\* next tells the last chunk from the others.
LEMMA MiddleIffNotLast ==
    ASSUME IInv, NEW k \in 1 .. nchunks
    PROVE  /\ IsMiddleChunk(k) <=> k < nchunks
           /\ k < nchunks => next[k] = k + 1
           /\ k = nchunks => next[k] = Null
<1>1. nchunks \in Nat /\ nchunks <= MaxChunks
  BY SizesAssumption DEF IInv, TypeOK, ChunkId
<1>2. k < nchunks => next[k] = k + 1
  BY <1>1 DEF IInv, ListInv
<1>3. k = nchunks => next[k] = Null
  BY <1>1, SizesAssumption DEF IInv, ListInv
<1> QED
  BY <1>1, <1>2, <1>3 DEF IsMiddleChunk, Null

\* The span chosen for chunk k covers at least what is committed in it.
LEMMA EnterChunkFact ==
    ASSUME IInv, NEW k \in 1 .. nchunks, EnterChunk(k)
    PROVE  /\ c' = k /\ k \in ChunkId
           /\ old_size' \in 0 .. Capacity
           /\ committed_index[k] <= old_size'
           /\ \/ rpc' = "middle" /\ k < nchunks /\ old_size' = data_size[k]
              \/ rpc' = "last" /\ k = nchunks /\ old_size' = committed_index[k]
<1>1. k \in ChunkId /\ nchunks \in Nat
  BY ChunksSoFar DEF IInv
<1>2. /\ committed_index[k] \in 0 .. Capacity
      /\ data_size[k] # Uninit => data_size[k] \in 0 .. Capacity
  BY <1>1 DEF IInv, TypeOK
<1>3. CASE k < nchunks
  <2>1. data_size[k] # Uninit /\ committed_index[k] <= data_size[k]
    BY <1>1, <1>3 DEF IInv, TileInv
  <2> QED
    BY <1>1, <1>2, <1>3, <2>1, MiddleIffNotLast DEF EnterChunk, TakeableSize
<1>4. CASE k = nchunks
  <2>1. committed_index[k] <= committed_index[k]
    BY <1>2, CapacityFact
  <2> QED
    BY <1>1, <1>2, <1>4, <2>1, MiddleIffNotLast DEF EnterChunk, TakeableSize
<1> QED
  BY <1>1, <1>3, <1>4

LEMMA BeginTakeStep == IInv /\ BeginTake => IInv'
<1> SUFFICES ASSUME IInv, BeginTake PROVE IInv'
  OBVIOUS
<1> USE DEF BeginTake, chunkVars, heapVars, writerVars
<1>1. TypeOK'
  BY DEF IInv, TypeOK
<1>2. ListInv' /\ TileInv' /\ WriterInv' /\ DataInv'
  BY ReaderFrame
<1>3. AliveInv' /\ TakenInv' /\ GoneInv'
  BY DEF IInv, AliveInv, Oldest, InTakeLoop, TakenInv, GoneInv
<1>4. ReaderInv'
  BY DEF IInv, ReaderInv, InTakeLoop
<1> QED
  BY <1>1, <1>2, <1>3, <1>4 DEF IInv

LEMMA LockForTakeStep == IInv /\ LockForTake => IInv'
<1> SUFFICES ASSUME IInv, LockForTake PROVE IInv'
  OBVIOUS
<1>1. rpc = "lock" /\ EnterChunk(c)
  BY DEF LockForTake
<1>2. UNCHANGED <<chunkVars, heapVars, writerVars, reader_chunk, first_chunk, taken>>
  BY DEF LockForTake
<1>3. c \in reader_chunk .. nchunks
  BY <1>1 DEF IInv, ReaderInv, InTakeLoop
<1>4. c \in 1 .. nchunks
  BY <1>3, ReaderBehindWriter, ChunksSoFar DEF IInv
<1>5. /\ c' = c /\ c \in ChunkId
      /\ old_size' \in 0 .. Capacity
      /\ committed_index[c] <= old_size'
      /\ \/ rpc' = "middle" /\ c < nchunks /\ old_size' = data_size[c]
         \/ rpc' = "last" /\ c = nchunks /\ old_size' = committed_index[c]
  BY <1>1, <1>4, EnterChunkFact
<1>6. TypeOK'
  BY <1>2, <1>5 DEF IInv, TypeOK, chunkVars, heapVars, writerVars
<1>7. ListInv' /\ TileInv' /\ WriterInv' /\ DataInv'
  BY <1>2, ReaderFrame DEF chunkVars, heapVars, writerVars
<1>8. AliveInv' /\ TakenInv' /\ GoneInv'
  BY <1>1, <1>2, <1>5
  DEF IInv, AliveInv, Oldest, InTakeLoop, TakenInv, GoneInv, heapVars, writerVars
<1>9. ReaderInv'
  <2>1. begin_index[c] <= old_size' /\ old_size' <= old_size'
    <3>1. begin_index[c] \in Int /\ committed_index[c] \in Int
      BY <1>5, CapacityFact DEF IInv, TypeOK
    <3> QED
      BY <1>5, <3>1, CapacityFact DEF IInv, ReaderInv
  <2> QED
    BY <1>1, <1>2, <1>3, <1>5, <2>1
    DEF IInv, ReaderInv, InTakeLoop, chunkVars, heapVars, writerVars
<1> QED
  BY <1>6, <1>7, <1>8, <1>9 DEF IInv

\* The bytes of the current span are the next positions of the stream.
LEMMA SpanFact ==
    ASSUME IInv, rpc \in {"middle", "last"}
    PROVE  /\ c \in ChunkId /\ c \in 1 .. nchunks
           /\ begin_index[c] \in Nat /\ old_size \in Nat /\ start[c] \in Nat
           /\ begin_index[c] <= old_size /\ old_size <= Capacity
           /\ Len(taken) = start[c] + begin_index[c]
           /\ start[c] + old_size <= appended
           /\ c = nchunks => old_size <= writer_cursor
           /\ \A i \in Offset : i < old_size => data[c][i] = start[c] + i + 1
<1>1. c \in reader_chunk .. nchunks /\ nchunks \in Nat /\ nchunks \in ChunkId
  BY ChunksSoFar DEF IInv, ReaderInv, InTakeLoop, TypeOK
<1>2. c \in 1 .. nchunks /\ c \in ChunkId
  BY <1>1, ReaderBehindWriter, ChunksSoFar DEF IInv
<1>3. begin_index[c] \in Nat /\ start[c] \in Nat /\ committed_index[c] \in Nat
  BY <1>2, CapacityFact DEF IInv, TypeOK
<1>4. begin_index[c] <= old_size /\ Len(taken) = start[c] + begin_index[c]
  BY DEF IInv, ReaderInv
<1>5. old_size \in Nat /\ old_size <= Capacity
  <2>1. old_size \in {-1} \union 0 .. Capacity
    BY DEF IInv, TypeOK, Uninit
  <2>2. begin_index[c] <= old_size
    BY <1>4
  <2> QED
    BY <2>1, <2>2, <1>3, CapacityFact
<1>6. CASE rpc = "middle"
  <2>1. c \in 1 .. nchunks - 1 /\ old_size = data_size[c]
    BY <1>1, <1>2, <1>6 DEF IInv, ReaderInv
  <2>2. start[c] + old_size <= appended
    <3>1. start[c + 1] = start[c] + old_size
      BY <2>1 DEF IInv, TileInv
    <3>2. start[c + 1] <= appended
      BY <2>1, <1>1 DEF IInv, TileInv
    <3> QED
      BY <3>1, <3>2
  <2> QED
    BY <1>2, <1>3, <1>4, <1>5, <2>1, <2>2 DEF IInv, DataInv
<1>7. CASE rpc = "last"
  <2>0. old_size <= committed_index[c]
    BY <1>7 DEF IInv, ReaderInv
  <2>1. CASE c < nchunks
    <3>1. c \in 1 .. nchunks - 1
      BY <1>1, <1>2, <2>1
    <3>2. /\ committed_index[c] <= data_size[c]
          /\ start[c + 1] = start[c] + data_size[c]
          /\ start[c + 1] <= appended
          /\ data_size[c] # Uninit
      BY <3>1, <1>1 DEF IInv, TileInv
    <3>3. data_size[c] \in Nat /\ appended \in Nat
      BY <1>2, <3>2, CapacityFact DEF IInv, TypeOK
    <3>4. old_size <= data_size[c] /\ start[c] + old_size <= appended
      BY <2>0, <3>2, <3>3, <1>3, <1>5
    <3>5. ASSUME NEW i \in Offset, i < old_size
          PROVE  data[c][i] = start[c] + i + 1
      <4>1. i < data_size[c]
        BY <3>3, <3>4, <3>5, <1>5, CapacityFact DEF Offset
      <4> QED
        BY <3>1, <4>1 DEF IInv, DataInv
    <3>6. c # nchunks
      BY <1>1, <3>1
    <3> QED
      BY <1>2, <1>3, <1>4, <1>5, <3>4, <3>5, <3>6
  <2>2. CASE c = nchunks
    <3>1. /\ writer_cursor \in Nat
          /\ committed_index[c] <= writer_cursor
          /\ appended = start[c] + writer_cursor
      BY <2>2, CapacityFact DEF IInv, TypeOK, TileInv
    <3>2. old_size <= writer_cursor /\ start[c] + old_size <= appended
      BY <2>0, <3>1, <1>3, <1>5
    <3>3. ASSUME NEW i \in Offset, i < old_size
          PROVE  data[c][i] = start[c] + i + 1
      <4>1. i < writer_cursor
        BY <3>1, <3>2, <3>3, <1>5, CapacityFact DEF Offset
      <4> QED
        BY <2>2, <4>1 DEF IInv, DataInv
    <3> QED
      BY <1>2, <1>3, <1>4, <1>5, <3>2, <3>3
  <2> QED
    BY <1>1, <1>2, <2>1, <2>2
<1> QED
  BY <1>6, <1>7

LEMMA CallbackStep ==
    ASSUME IInv, CallbackMiddle \/ CallbackLast
    PROVE  IInv' /\ Len(taken') \in Len(taken) .. appended
<1> DEFINE n == old_size - begin_index[c]
           span == [i \in 1 .. n |-> data[c][begin_index[c] + i - 1]]
<1>1. /\ rpc \in {"middle", "last"}
      /\ rpc = "middle" => rpc' = "relock_middle"
      /\ rpc = "last" => rpc' = "relock_last"
      /\ taken' = taken \o span
      /\ UNCHANGED <<chunkVars, heapVars, writerVars, reader_chunk, first_chunk, c, old_size>>
  BY DEF CallbackMiddle, CallbackLast, Callback
<1>2. /\ c \in ChunkId /\ c \in 1 .. nchunks
      /\ begin_index[c] \in Nat /\ old_size \in Nat /\ start[c] \in Nat
      /\ begin_index[c] <= old_size /\ old_size <= Capacity
      /\ Len(taken) = start[c] + begin_index[c]
      /\ start[c] + old_size <= appended
      /\ \A i \in Offset : i < old_size => data[c][i] = start[c] + i + 1
  BY <1>1, SpanFact
<1>3. n \in Nat
  BY <1>2
<1>4. ASSUME NEW i \in 1 .. n
      PROVE  data[c][begin_index[c] + i - 1] = Len(taken) + i
  <2>1. begin_index[c] + i - 1 \in Nat /\ begin_index[c] + i - 1 < old_size
    BY <1>2, <1>3
  <2>2. begin_index[c] + i - 1 \in Offset
    BY <2>1, <1>2, CapacityFact DEF Offset
  <2>3. data[c][begin_index[c] + i - 1] = start[c] + (begin_index[c] + i - 1) + 1
    BY <1>2, <2>1, <2>2
  <2> QED
    BY <1>2, <2>1, <2>3
<1>5. taken \in Seq(Nat) /\ Len(taken) \in Nat
  BY DEF IInv, TypeOK
<1>6. span \in Seq(Nat) /\ Len(span) = n
  <2>1. \A i \in 1 .. n : data[c][begin_index[c] + i - 1] \in Nat
    BY <1>3, <1>4, <1>5
  <2> HIDE DEF n
  <2> QED
    BY <1>3, <2>1
<1> HIDE DEF span
<1>7. /\ taken' \in Seq(Nat)
      /\ Len(taken') = Len(taken) + n
      /\ \A i \in 1 .. Len(taken) : taken'[i] = taken[i]
      /\ \A i \in Len(taken) + 1 .. Len(taken) + n : taken'[i] = span[i - Len(taken)]
  BY <1>1, <1>3, <1>5, <1>6
<1>8. TypeOK'
  BY <1>1, <1>7 DEF IInv, TypeOK, chunkVars, heapVars, writerVars
<1>9. ListInv' /\ TileInv' /\ WriterInv' /\ DataInv'
  BY <1>1, ReaderFrame DEF chunkVars, heapVars, writerVars
<1>10. AliveInv' /\ GoneInv'
  BY <1>1 DEF IInv, AliveInv, Oldest, InTakeLoop, GoneInv, heapVars, writerVars
<1>11. TakenInv'
  <2> SUFFICES ASSUME NEW i \in 1 .. Len(taken') PROVE taken'[i] = i
    BY DEF TakenInv
  <2>1. CASE i <= Len(taken)
    BY <2>1, <1>5, <1>7 DEF IInv, TakenInv
  <2>2. CASE i > Len(taken)
    <3>1. i - Len(taken) \in 1 .. n
      BY <2>2, <1>3, <1>5, <1>7
    <3>2. taken'[i] = span[i - Len(taken)]
      BY <3>1, <2>2, <1>3, <1>5, <1>7
    <3>3. span[i - Len(taken)] = Len(taken) + (i - Len(taken))
      BY <3>1, <1>4 DEF span
    <3> QED
      BY <3>2, <3>3, <1>5, <1>7
  <2> QED
    BY <2>1, <2>2, <1>5, <1>7
<1>12. Len(taken') = start[c] + old_size
  BY <1>2, <1>5, <1>7
<1>13. ReaderInv'
  BY <1>1, <1>12 DEF IInv, ReaderInv, InTakeLoop, chunkVars, heapVars, writerVars
<1>14. Len(taken') \in Len(taken) .. appended
  <2>1. appended \in Nat
    BY DEF IInv, TypeOK
  <2>2. Len(taken') \in Nat /\ Len(taken') >= Len(taken)
    BY <1>3, <1>5, <1>7
  <2> QED
    BY <1>2, <1>5, <1>12, <2>1, <2>2
<1> QED
  BY <1>8, <1>9, <1>10, <1>11, <1>13, <1>14 DEF IInv

LEMMA NextChunkStep == IInv /\ NextChunk => IInv'
<1> SUFFICES ASSUME IInv, NextChunk PROVE IInv'
  OBVIOUS
<1>1. rpc = "relock_middle" /\ EnterChunk(next[c])
  BY DEF NextChunk
<1>2. UNCHANGED <<chunkVars, heapVars, writerVars, reader_chunk, first_chunk, taken>>
  BY DEF NextChunk
<1>3. /\ c \in reader_chunk .. nchunks /\ c < nchunks
      /\ Len(taken) = start[c] + old_size /\ old_size = data_size[c]
  BY <1>1 DEF IInv, ReaderInv, InTakeLoop
<1>4. reader_chunk \in Nat /\ reader_chunk >= 1 /\ nchunks \in Nat
  BY ReaderBehindWriter, ChunksSoFar DEF IInv
<1>5. next[c] = c + 1 /\ c + 1 \in reader_chunk + 1 .. nchunks /\ c + 1 \in 1 .. nchunks
  BY <1>3, <1>4, MiddleIffNotLast
<1>6. /\ c' = c + 1 /\ c + 1 \in ChunkId
      /\ old_size' \in 0 .. Capacity
      /\ committed_index[c + 1] <= old_size'
      /\ \/ rpc' = "middle" /\ c + 1 < nchunks /\ old_size' = data_size[c + 1]
         \/ rpc' = "last" /\ c + 1 = nchunks /\ old_size' = committed_index[c + 1]
  BY <1>1, <1>5, EnterChunkFact
<1>7. TypeOK'
  BY <1>2, <1>6 DEF IInv, TypeOK, chunkVars, heapVars, writerVars
<1>8. ListInv' /\ TileInv' /\ WriterInv' /\ DataInv'
  BY <1>2, ReaderFrame DEF chunkVars, heapVars, writerVars
<1>9. AliveInv' /\ TakenInv' /\ GoneInv'
  BY <1>1, <1>2, <1>6
  DEF IInv, AliveInv, Oldest, InTakeLoop, TakenInv, GoneInv, heapVars, writerVars
<1>10. ReaderInv'
  <2>1. begin_index[c + 1] = 0
    BY <1>1, <1>3, <1>4, <1>6, SizesAssumption DEF IInv, ReaderInv, InTakeLoop, ChunkId
  <2>2. Len(taken) = start[c + 1] + begin_index[c + 1]
    <3>1. start[c + 1] = start[c] + data_size[c]
      BY <1>3, <1>4 DEF IInv, TileInv
    <3>2. start[c + 1] \in Nat
      BY <1>6 DEF IInv, TypeOK
    <3> QED
      BY <1>3, <2>1, <3>1, <3>2
  <2>3. 0 <= old_size' /\ old_size' <= old_size'
    BY <1>6, CapacityFact
  <2>4. \A k \in c + 2 .. MaxChunks : begin_index[k] = 0
    BY <1>1, <1>3, <1>4, SizesAssumption DEF IInv, ReaderInv, InTakeLoop
  <2>5. c + 1 \in reader_chunk .. nchunks /\ (c + 1) + 1 = c + 2
    BY <1>4, <1>5, <1>3
  <2> QED
    BY <1>2, <1>6, <2>1, <2>2, <2>3, <2>4, <2>5
    DEF IInv, ReaderInv, InTakeLoop, chunkVars, heapVars, writerVars
<1> QED
  BY <1>7, <1>8, <1>9, <1>10 DEF IInv

\* Both outcomes of the check after the last chunk's callback store old_size
\* in begin_index first.
LEMMA RelockLastFact ==
    ASSUME IInv, rpc = "relock_last",
           begin_index' = [begin_index EXCEPT ![c] = old_size]
    PROVE  /\ c \in reader_chunk .. nchunks /\ c \in 1 .. nchunks /\ c \in ChunkId
           /\ old_size \in 0 .. Capacity /\ old_size <= committed_index[c]
           /\ begin_index' \in [ChunkId -> 0 .. Capacity]
           /\ begin_index'[c] = old_size
           /\ \A k \in ChunkId : begin_index'[k] <= committed_index[k]
           /\ \A k \in c + 1 .. MaxChunks : begin_index'[k] = 0
           /\ Len(taken) = start[c] + old_size
<1>1. /\ c \in reader_chunk .. nchunks
      /\ begin_index[c] <= old_size /\ old_size <= committed_index[c]
      /\ Len(taken) = start[c] + old_size
  BY DEF IInv, ReaderInv, InTakeLoop
<1>2. reader_chunk \in Nat /\ nchunks \in Nat /\ c \in 1 .. nchunks /\ c \in ChunkId
  BY <1>1, ReaderBehindWriter, ChunksSoFar DEF IInv
<1>3. begin_index[c] \in Nat /\ begin_index \in [ChunkId -> 0 .. Capacity]
  BY <1>2, CapacityFact DEF IInv, TypeOK
<1>4. old_size \in 0 .. Capacity
  <2>1. old_size \in {-1} \union 0 .. Capacity
    BY DEF IInv, TypeOK, Uninit
  <2> QED
    BY <1>1, <1>3, <2>1, CapacityFact
<1>5. \A k \in ChunkId : begin_index'[k] <= committed_index[k]
  BY <1>1, <1>3 DEF IInv, ReaderInv
<1>6. \A k \in c + 1 .. MaxChunks : begin_index'[k] = 0
  <2>1. \A k \in c + 1 .. MaxChunks : begin_index[k] = 0 /\ k \in ChunkId /\ k # c
    BY <1>2, SizesAssumption DEF IInv, ReaderInv, InTakeLoop, ChunkId
  <2> QED
    BY <1>3, <2>1
<1> QED
  BY <1>1, <1>2, <1>3, <1>4, <1>5, <1>6

LEMMA TakeMoreStep == IInv /\ TakeMore => IInv'
<1> SUFFICES ASSUME IInv, TakeMore PROVE IInv'
  OBVIOUS
<1>1. /\ rpc = "relock_last" /\ EnterChunk(c)
      /\ begin_index' = [begin_index EXCEPT ![c] = old_size]
      /\ UNCHANGED <<committed_index, data_size, next, capacity, data, heapVars,
                     writerVars, reader_chunk, first_chunk, taken>>
  BY DEF TakeMore
<1>2. /\ c \in reader_chunk .. nchunks /\ c \in 1 .. nchunks /\ c \in ChunkId
      /\ old_size \in 0 .. Capacity /\ old_size <= committed_index[c]
      /\ begin_index' \in [ChunkId -> 0 .. Capacity]
      /\ begin_index'[c] = old_size
      /\ \A k \in ChunkId : begin_index'[k] <= committed_index[k]
      /\ \A k \in c + 1 .. MaxChunks : begin_index'[k] = 0
      /\ Len(taken) = start[c] + old_size
  BY <1>1, RelockLastFact
<1>3. /\ c' = c
      /\ old_size' \in 0 .. Capacity
      /\ committed_index[c] <= old_size'
      /\ \/ rpc' = "middle" /\ c < nchunks /\ old_size' = data_size[c]
         \/ rpc' = "last" /\ c = nchunks /\ old_size' = committed_index[c]
  BY <1>1, <1>2, EnterChunkFact
<1>4. TypeOK'
  BY <1>1, <1>2, <1>3 DEF IInv, TypeOK, heapVars, writerVars
<1>5. ListInv' /\ TileInv' /\ WriterInv' /\ DataInv'
  BY <1>1, ReaderFrame DEF heapVars, writerVars
<1>6. AliveInv' /\ TakenInv' /\ GoneInv'
  BY <1>1, <1>3
  DEF IInv, AliveInv, Oldest, InTakeLoop, TakenInv, GoneInv, heapVars, writerVars
<1>7. ReaderInv'
  <2>1. old_size <= old_size' /\ old_size' <= old_size'
    <3>1. committed_index[c] \in 0 .. Capacity
      BY <1>2 DEF IInv, TypeOK
    <3> QED
      BY <1>2, <1>3, <3>1, CapacityFact
  <2> QED
    BY <1>1, <1>2, <1>3, <2>1 DEF ReaderInv, InTakeLoop, heapVars, writerVars
<1> QED
  BY <1>4, <1>5, <1>6, <1>7 DEF IInv

\* A take that stops has delivered everything committed by then.
LEMMA StopTakingStep ==
    ASSUME IInv, StopTaking
    PROVE  IInv' /\ committed <= Len(taken)
<1>1. /\ rpc = "relock_last" /\ rpc' = "finalize" /\ ~LastChunkChanged
      /\ begin_index' = [begin_index EXCEPT ![c] = old_size]
      /\ reader_chunk' = c
      /\ UNCHANGED <<committed_index, data_size, next, capacity, data, heapVars,
                     writerVars, first_chunk, c, old_size, taken>>
  BY DEF StopTaking
<1>2. /\ c \in reader_chunk .. nchunks /\ c \in 1 .. nchunks /\ c \in ChunkId
      /\ old_size \in 0 .. Capacity /\ old_size <= committed_index[c]
      /\ begin_index' \in [ChunkId -> 0 .. Capacity]
      /\ begin_index'[c] = old_size
      /\ \A k \in ChunkId : begin_index'[k] <= committed_index[k]
      /\ \A k \in c + 1 .. MaxChunks : begin_index'[k] = 0
      /\ Len(taken) = start[c] + old_size
  BY <1>1, RelockLastFact
<1>3. c = nchunks /\ old_size = committed_index[c]
  BY <1>1, <1>2, MiddleIffNotLast, ChunksSoFar DEF IInv, LastChunkChanged, IsMiddleChunk
<1>4. committed <= Len(taken)
  BY <1>2, <1>3 DEF IInv, TileInv
<1>5. TypeOK'
  BY <1>1, <1>2 DEF IInv, TypeOK, heapVars, writerVars
<1>6. ListInv' /\ TileInv' /\ WriterInv' /\ DataInv'
  BY <1>1, ReaderFrame DEF heapVars, writerVars
<1>7. first_chunk \in 1 .. c
  BY <1>1, <1>2, ReaderBehindWriter DEF IInv, AliveInv, InTakeLoop
<1>8. AliveInv'
  BY <1>1, <1>7 DEF IInv, AliveInv, Oldest, InTakeLoop, heapVars
<1>9. TakenInv' /\ GoneInv'
  BY <1>1 DEF IInv, TakenInv, GoneInv, writerVars
<1>10. ReaderInv'
  <2>1. c \in c .. nchunks
    BY <1>2, ChunksSoFar DEF IInv
  <2> QED
    BY <1>1, <1>2, <2>1 DEF ReaderInv, InTakeLoop, heapVars, writerVars
<1> QED
  BY <1>4, <1>5, <1>6, <1>8, <1>9, <1>10 DEF IInv

LEMMA FinalizeTakeStep == IInv /\ FinalizeTake => IInv'
<1> SUFFICES ASSUME IInv, FinalizeTake PROVE IInv'
  OBVIOUS
<1> USE DEF FinalizeTake, chunkVars, heapVars, writerVars
<1>1. first_chunk \in 1 .. reader_chunk /\ reader_chunk \in 1 .. nchunks
  BY ReaderBehindWriter DEF IInv, AliveInv
<1>2. first_chunk <= reader_chunk /\ first_chunk \in 1 .. nchunks /\ first_chunk \in ChunkId
  BY <1>1, ChunksSoFar DEF IInv
<1>3. TypeOK'
  BY <1>2 DEF IInv, TypeOK
<1>4. ListInv' /\ TileInv' /\ WriterInv' /\ DataInv'
  BY ReaderFrame
<1>5. AliveInv'
  BY <1>2 DEF IInv, AliveInv, Oldest, InTakeLoop
<1>6. TakenInv' /\ GoneInv' /\ ReaderInv'
  BY DEF IInv, TakenInv, GoneInv, ReaderInv, InTakeLoop
<1> QED
  BY <1>3, <1>4, <1>5, <1>6 DEF IInv

LEMMA FreeChunkStep == IInv /\ FreeChunk => IInv'
<1> SUFFICES ASSUME IInv, FreeChunk PROVE IInv'
  OBVIOUS
<1>1. /\ rpc = "free" /\ rpc' = "free" /\ c # reader_chunk
      /\ alive' = alive \ {c} /\ c' = next[c]
      /\ UNCHANGED <<chunkVars, nchunks, start, writerVars, reader_chunk, first_chunk,
                     old_size, taken>>
  BY DEF FreeChunk, DoneFreeing
<1>2. c \in 1 .. nchunks /\ c <= reader_chunk /\ alive = c .. nchunks
  BY <1>1 DEF IInv, AliveInv, Oldest
<1>3. reader_chunk \in 1 .. nchunks /\ nchunks \in Nat
  BY ReaderBehindWriter, ChunksSoFar DEF IInv
<1>4. c < nchunks /\ c + 1 <= reader_chunk
  BY <1>1, <1>2, <1>3
<1>5. c' = c + 1
  BY <1>1, <1>2, <1>4, MiddleIffNotLast
<1>6. c + 1 \in 1 .. nchunks /\ alive' = c + 1 .. nchunks
  BY <1>1, <1>2, <1>3, <1>4
<1>7. TypeOK'
  <2>1. c' \in ChunkId /\ alive' \subseteq ChunkId
    BY <1>1, <1>5, <1>6, ChunksSoFar DEF IInv, TypeOK
  <2> QED
    BY <1>1, <2>1 DEF IInv, TypeOK, chunkVars, writerVars
<1>8. ListInv' /\ TileInv' /\ WriterInv' /\ DataInv'
  BY <1>1, ReaderFrame DEF chunkVars, writerVars
<1>9. AliveInv'
  BY <1>1, <1>4, <1>5, <1>6 DEF AliveInv, Oldest, InTakeLoop
<1>10. TakenInv' /\ GoneInv' /\ ReaderInv'
  BY <1>1 DEF IInv, TakenInv, GoneInv, ReaderInv, InTakeLoop, chunkVars, writerVars
<1> QED
  BY <1>7, <1>8, <1>9, <1>10 DEF IInv

LEMMA EndTakeStep == IInv /\ EndTake => IInv'
<1> SUFFICES ASSUME IInv, EndTake PROVE IInv'
  OBVIOUS
<1> USE DEF EndTake, DoneFreeing, chunkVars, heapVars, writerVars
<1>1. TypeOK'
  <2>1. 0 \in 0 .. Capacity
    BY CapacityFact
  <2> QED
    BY <2>1 DEF IInv, TypeOK
<1>2. ListInv' /\ TileInv' /\ WriterInv' /\ DataInv'
  BY ReaderFrame
<1>3. AliveInv'
  BY DEF IInv, AliveInv, Oldest, InTakeLoop
<1>4. TakenInv' /\ GoneInv' /\ ReaderInv'
  BY DEF IInv, TakenInv, GoneInv, ReaderInv, InTakeLoop
<1> QED
  BY <1>1, <1>2, <1>3, <1>4 DEF IInv

LEMMA DestroyStep == IInv /\ Destroy => IInv'
<1> SUFFICES ASSUME IInv, Destroy PROVE IInv'
  OBVIOUS
<1> USE DEF Destroy, chunkVars, heapVars
<1>1. TypeOK'
  BY DEF IInv, TypeOK
<1>2. ListInv' /\ TileInv' /\ WriterInv' /\ DataInv'
  BY ReaderFrame
<1>3. AliveInv'
  BY ReaderBehindWriter DEF IInv, AliveInv, Oldest, InTakeLoop
<1>4. TakenInv' /\ GoneInv' /\ ReaderInv'
  BY DEF IInv, TakenInv, GoneInv, ReaderInv, InTakeLoop
<1> QED
  BY <1>1, <1>2, <1>3, <1>4 DEF IInv

LEMMA DestroyChunkStep == IInv /\ DestroyChunk => IInv'
<1> SUFFICES ASSUME IInv, DestroyChunk PROVE IInv'
  OBVIOUS
<1>1. /\ rpc = "destroy" /\ alive' = alive \ {c} /\ c' = next[c]
      /\ rpc' = IF next[c] = Null THEN "gone" ELSE "destroy"
      /\ UNCHANGED <<chunkVars, nchunks, start, writerVars, reader_chunk, first_chunk,
                     old_size, taken>>
  BY DEF DestroyChunk
<1>2. c \in 1 .. nchunks /\ alive = c .. nchunks /\ nchunks \in Nat
  BY <1>1, ChunksSoFar DEF IInv, AliveInv, Oldest
<1>3. alive' = c + 1 .. nchunks
  BY <1>1, <1>2
<1>4. TypeOK'
  <2>1. c \in ChunkId /\ alive' \subseteq ChunkId
    BY <1>1, <1>2, ChunksSoFar DEF IInv, TypeOK
  <2>2. c' \in {Null} \union ChunkId
    BY <1>1, <2>1 DEF IInv, TypeOK
  <2> QED
    BY <1>1, <2>1, <2>2 DEF IInv, TypeOK, chunkVars, writerVars
<1>5. ListInv' /\ TileInv' /\ WriterInv' /\ DataInv'
  BY <1>1, ReaderFrame DEF chunkVars, writerVars
<1>6. AliveInv'
  <2>1. CASE c < nchunks
    <3>1. next[c] = c + 1 /\ c + 1 # Null /\ c + 1 \in 1 .. nchunks
      BY <1>2, <2>1, MiddleIffNotLast DEF Null
    <3> QED
      BY <1>1, <1>3, <3>1 DEF AliveInv, Oldest, InTakeLoop
  <2>2. CASE c = nchunks
    <3>1. rpc' = "gone"
      BY <1>1, <1>2, <2>2, MiddleIffNotLast
    <3> QED
      BY <1>1, <1>3, <2>2, <3>1 DEF AliveInv, Oldest, InTakeLoop
  <2> QED
    BY <1>2, <2>1, <2>2
<1>7. TakenInv' /\ GoneInv' /\ ReaderInv'
  BY <1>1 DEF IInv, TakenInv, GoneInv, ReaderInv, InTakeLoop, chunkVars, writerVars
<1> QED
  BY <1>4, <1>5, <1>6, <1>7 DEF IInv

-----------------------------------------------------------------------------
LEMMA ReserveSteps ==
    ASSUME IInv, NEW n \in 0 .. MaxAppend,
           AppendBytes(n) \/ \E alignment \in Alignments : AppendAligned(n, alignment)
    PROVE  IInv'
<1>1. BytesRemaining \in Int /\ n \in Int /\ 0 \in 0 .. MaxAppend
  <2>1. capacity[writer_last_chunk] \in Int /\ writer_cursor \in Int
    BY CapacityFact DEF IInv, TypeOK
  <2> QED
    BY <2>1, SizesAssumption DEF BytesRemaining
<1>2. ~(BytesRemaining < n) => BytesRemaining >= n
  BY <1>1
<1>3. CASE AppendBytes(n)
  BY <1>2, <1>3, ReserveStep DEF AppendBytes
<1>4. CASE \E alignment \in Alignments : AppendAligned(n, alignment)
  <2>1. PICK alignment \in Alignments : AppendAligned(n, alignment)
    BY <1>4
  <2> DEFINE mustGrow == writer_cursor % alignment # 0 \/ BytesRemaining < n
  <2>2. ~mustGrow => BytesRemaining >= n
    BY <1>2
  <2>3. Reserve(0, n, mustGrow)
    BY <2>1 DEF AppendAligned
  <2> HIDE DEF mustGrow
  <2> QED
    BY <1>1, <2>2, <2>3, ReserveStep
<1> QED
  BY <1>3, <1>4

LEMMA NextIInv == IInv /\ [Next]_vars => IInv'
<1> SUFFICES ASSUME IInv, [Next]_vars PROVE IInv'
  OBVIOUS
<1>1. CASE WriterNext
  BY <1>1, ReserveSteps, GrowStep, AddNewChunkStep, WriteStep, CommitStep DEF WriterNext
<1>2. CASE BeginTake
  BY <1>2, BeginTakeStep
<1>3. CASE TakeStep
  BY <1>3, LockForTakeStep, CallbackStep, NextChunkStep, TakeMoreStep, StopTakingStep,
     FinalizeTakeStep, FreeChunkStep, EndTakeStep DEF TakeStep
<1>4. CASE Destroy \/ DestroyChunk
  BY <1>4, DestroyStep, DestroyChunkStep
<1>5. CASE UNCHANGED vars
  <2> USE <1>5 DEF vars, chunkVars, heapVars, writerVars, readerVars, IInv
  <2>1. TypeOK'
    BY DEF TypeOK
  <2>2. ListInv' /\ TileInv' /\ WriterInv' /\ DataInv'
    BY ReaderFrame
  <2>3. AliveInv' /\ ReaderInv' /\ TakenInv' /\ GoneInv'
    BY DEF AliveInv, Oldest, InTakeLoop, ReaderInv, TakenInv, GoneInv
  <2> QED
    BY <2>1, <2>2, <2>3
<1> QED
  BY <1>1, <1>2, <1>3, <1>4, <1>5 DEF Next

THEOREM Invariance == Spec => []IInv
<1>1. Init => IInv
  BY InitIInv
<1>2. IInv /\ [Next]_vars => IInv'
  BY NextIInv
<1> QED
  BY <1>1, <1>2, PTL DEF Spec

\* Type correctness of the queue, for all sizes.
THEOREM TypeCorrect == Spec => []TypeOK
<1>1. IInv => TypeOK
  BY DEF IInv
<1> QED
  BY <1>1, Invariance, PTL

\* The reader gets the writer's bytes in order, without loss, repetition or
\* invention, for all chunk sizes, append sizes and alignments.
THEOREM Fifo == Spec => []TakenInOrder
<1>1. IInv => TakenInOrder
  <2> SUFFICES ASSUME IInv PROVE TakenInOrder
    OBVIOUS
  <2>1. /\ nchunks \in Nat \ {0} /\ appended \in Nat
        /\ 1 .. nchunks \subseteq ChunkId
    BY ChunksSoFar DEF IInv, TypeOK
  <2> DEFINE current == IF InTakeLoop THEN c ELSE reader_chunk
  <2>2. current \in 1 .. nchunks
    BY <2>1, ReaderBehindWriter DEF IInv, ReaderInv
  <2>3. start[current] + committed_index[current] <= appended
    <3>1. CASE current < nchunks
      <4>1. current \in 1 .. nchunks - 1 /\ current + 1 \in 1 .. nchunks
        BY <2>1, <2>2, <3>1
      <4>2. /\ committed_index[current] <= data_size[current]
            /\ start[current + 1] = start[current] + data_size[current]
            /\ start[current + 1] <= appended
            /\ data_size[current] # Uninit
        BY <4>1 DEF IInv, TileInv
      <4>3. /\ start[current] \in Int /\ committed_index[current] \in Int
            /\ data_size[current] \in Int
        BY <2>1, <2>2, ChunkFields DEF IInv
      <4> QED
        BY <2>1, <4>2, <4>3
    <3>2. CASE current = nchunks
      <4>1. committed_index[nchunks] <= writer_cursor /\ appended = start[nchunks] + writer_cursor
        BY DEF IInv, TileInv
      <4>2. start[nchunks] \in Int /\ committed_index[nchunks] \in Int /\ writer_cursor \in Int
        BY <2>1, CapacityFact DEF IInv, TypeOK
      <4> QED
        BY <3>2, <4>1, <4>2
    <3> QED
      BY <2>1, <2>2, <3>1, <3>2
  <2>4. begin_index[current] <= committed_index[current]
    BY <2>1, <2>2 DEF IInv, ReaderInv
  <2>5. /\ start[current] \in Int /\ begin_index[current] \in Int
        /\ committed_index[current] \in Int
    BY <2>1, <2>2, ChunkFields DEF IInv
  <2>6. CASE rpc \notin {"relock_middle", "relock_last"}
    <3>1. Len(taken) = start[current] + begin_index[current]
      BY <2>6 DEF IInv, ReaderInv, InTakeLoop
    <3> QED
      BY <2>1, <2>3, <2>4, <2>5, <3>1 DEF IInv, TakenInv, TakenInOrder
  <2>7. CASE rpc = "relock_last"
    <3>1. Len(taken) = start[c] + old_size /\ old_size <= committed_index[c] /\ current = c
      BY <2>7 DEF IInv, ReaderInv, InTakeLoop
    <3>2. old_size \in Int
      BY CapacityFact DEF IInv, TypeOK, Uninit
    <3> QED
      BY <2>1, <2>3, <2>5, <3>1, <3>2 DEF IInv, TakenInv, TakenInOrder
  <2>8. CASE rpc = "relock_middle"
    <3>1. Len(taken) = start[c] + data_size[c] /\ c < nchunks /\ current = c
      BY <2>8 DEF IInv, ReaderInv, InTakeLoop
    <3>2. c \in 1 .. nchunks - 1 /\ c + 1 \in 1 .. nchunks
      BY <2>1, <2>2, <3>1
    <3>3. Len(taken) <= appended
      BY <3>1, <3>2 DEF IInv, TileInv
    <3> QED
      BY <3>3 DEF IInv, TakenInv, TakenInOrder
  <2> QED
    BY <2>6, <2>7, <2>8
<1> QED
  BY <1>1, Invariance, PTL

\* No thread follows a pointer to a freed chunk, and the free loop, which runs
\* without the mutex, never reaches the writer's chunk.
THEOREM MemorySafety == Spec => [](NoUseAfterFree /\ FreeLoopIsPrivate /\ NoLeak)
<1>1. IInv => NoUseAfterFree /\ FreeLoopIsPrivate /\ NoLeak
  <2> SUFFICES ASSUME IInv PROVE NoUseAfterFree /\ FreeLoopIsPrivate /\ NoLeak
    OBVIOUS
  <2>1. reader_chunk \in 1 .. nchunks /\ nchunks \in Nat
    BY ReaderBehindWriter, ChunksSoFar DEF IInv
  <2>2. wpc # "gone" => {writer_last_chunk, reader_chunk} \subseteq alive
    <3> SUFFICES ASSUME wpc # "gone"
                 PROVE  nchunks \in alive /\ reader_chunk \in alive
      BY DEF IInv, ListInv
    <3>1. rpc # "destroy" /\ rpc # "gone"
      BY DEF IInv, GoneInv
    <3>2. Oldest \in Int /\ Oldest <= reader_chunk
      BY <2>1, <3>1 DEF IInv, AliveInv, Oldest
    <3> QED
      BY <2>1, <3>2 DEF IInv, AliveInv
  <2>3. InTakeLoop \/ (rpc = "free" /\ ~DoneFreeing) \/ rpc = "destroy" => c \in alive
    BY <2>1 DEF IInv, AliveInv, Oldest, ReaderInv, InTakeLoop
  <2>4. rpc = "finalize" => first_chunk .. reader_chunk \subseteq alive
    BY <2>1 DEF IInv, AliveInv, Oldest
  <2>5. FreeLoopIsPrivate
    BY <2>1 DEF IInv, AliveInv, ListInv, FreeLoopIsPrivate, DoneFreeing
  <2>6. NoLeak
    BY <2>1 DEF IInv, AliveInv, Oldest, NoLeak
  <2> QED
    BY <2>2, <2>3, <2>4, <2>5, <2>6 DEF NoUseAfterFree
<1> QED
  BY <1>1, Invariance, PTL

\* The two assertions of take_committed never fail.
THEOREM Assertions == Spec => []MiddleChunkAssertions
<1>1. ASSUME IInv, rpc = "relock_middle" PROVE data_size[c] = old_size /\ next[c] # Null
  <2>1. c < nchunks /\ old_size = data_size[c] /\ c \in reader_chunk .. nchunks
    BY <1>1 DEF IInv, ReaderInv, InTakeLoop
  <2>2. c \in 1 .. nchunks
    BY <1>1, <2>1, ReaderBehindWriter, ChunksSoFar DEF IInv
  <2> QED
    BY <1>1, <2>1, <2>2, MiddleIffNotLast DEF IsMiddleChunk
<1>2. IInv => MiddleChunkAssertions
  BY <1>1 DEF MiddleChunkAssertions
<1> QED
  BY <1>2, Invariance, PTL

\* The writer's stores never hit the bytes that a callback is reading.
THEOREM StableSpans == Spec => SpanIsStable
<1> DEFINE Stable == /\ c \in alive'
                     /\ \A i \in begin_index[c] .. old_size - 1 : data'[c][i] = data[c][i]
<1>1. ASSUME IInv, InCallback, [Next]_vars PROVE Stable
  <2> USE <1>1
  <2>1. /\ c \in ChunkId /\ c \in 1 .. nchunks
        /\ begin_index[c] \in Nat /\ old_size \in Nat /\ old_size <= Capacity
    BY SpanFact DEF InCallback
  <2>2. CASE Write
    <3>1. alive' = alive
      BY <2>2 DEF Write, heapVars
    <3>2. c \in alive
      BY <2>1, ReaderBehindWriter DEF IInv, AliveInv, Oldest, ReaderInv, InTakeLoop, InCallback
    <3>3. ASSUME NEW i \in begin_index[c] .. old_size - 1 PROVE data'[c][i] = data[c][i]
      <4>1. i \in Offset /\ i < old_size
        BY <2>1, CapacityFact DEF Offset
      <4>2. CASE c # nchunks
        BY <2>1, <2>2, <4>2 DEF Write, IInv, ListInv, TypeOK
      <4>3. CASE c = nchunks
        <5>0. writer_cursor \in Nat
          BY CapacityFact DEF IInv, TypeOK
        <5>1. old_size <= writer_cursor
          BY <4>3, SpanFact DEF InCallback
        <5>2. PICK n \in request.min .. request.max :
                data' = [data EXCEPT ![nchunks] =
                           [k \in Offset |->
                              IF k \in writer_cursor .. writer_cursor + n - 1
                              THEN appended + (k - writer_cursor) + 1
                              ELSE data[nchunks][k]]]
          BY <2>2 DEF Write, IInv, ListInv
        <5>3. i \notin writer_cursor .. writer_cursor + n - 1
          BY <2>1, <4>1, <5>0, <5>1
        <5> QED
          BY <2>1, <4>1, <4>3, <5>2, <5>3 DEF IInv, TypeOK
      <4> QED
        BY <4>2, <4>3
    <3> QED
      BY <3>1, <3>2, <3>3
  <2>3. CASE ~Write
    <3>1. data' = data
      BY <2>3 DEF Next, WriterNext, AppendBytes, AppendAligned, Reserve, Grow, AddNewChunk,
         Commit, BeginTake, TakeStep, LockForTake, CallbackMiddle, CallbackLast, Callback,
         NextChunk, TakeMore, StopTaking, FinalizeTake, FreeChunk, EndTake, Destroy,
         DestroyChunk, vars, chunkVars
    <3>2. c \in alive
      BY <2>1, ReaderBehindWriter DEF IInv, AliveInv, Oldest, ReaderInv, InTakeLoop, InCallback
    <3>3. alive \subseteq alive'
      BY <2>3 DEF Next, WriterNext, AppendBytes, AppendAligned, Reserve, Grow, AddNewChunk,
         Commit, BeginTake, TakeStep, LockForTake, CallbackMiddle, CallbackLast, Callback,
         NextChunk, TakeMore, StopTaking, FinalizeTake, FreeChunk, EndTake, Destroy,
         DestroyChunk, vars, heapVars, InCallback
    <3> QED
      BY <3>1, <3>2, <3>3
  <2> QED
    BY <2>2, <2>3
<1>2. IInv /\ [Next]_vars => [InCallback => Stable]_vars
  BY <1>1
<1> QED
  BY <1>2, Invariance, PTL DEF Spec, SpanIsStable

-----------------------------------------------------------------------------
(* Refinement of ByteStream. *)

LEMMA StreamStep == IInv /\ [Next]_vars => [Stream!Next]_(Stream!vars)
<1> SUFFICES ASSUME IInv, [Next]_vars PROVE [Stream!Next]_(Stream!vars)
  OBVIOUS
<1> USE DEF Stream!Next, Stream!vars
<1>1. ASSUME Write PROVE Stream!Append
  <2>1. PICK n \in request.min .. request.max : appended' = appended + n
    BY <1>1 DEF Write
  <2>2. n \in Nat /\ appended \in Nat
    BY SizesAssumption DEF IInv, TypeOK
  <2>3. UNCHANGED <<committed, taken, rpc>>
    BY <1>1 DEF Write, readerVars
  <2> QED
    BY <2>1, <2>2, <2>3 DEF Stream!Append, InTakeLoop
<1>2. ASSUME Commit PROVE Stream!Commit
  BY <1>2 DEF Commit, Stream!Commit, readerVars, InTakeLoop
<1>3. ASSUME WriterNext, ~Write, ~Commit PROVE UNCHANGED Stream!vars
  BY <1>3 DEF WriterNext, AppendBytes, AppendAligned, Reserve, Grow, AddNewChunk,
              readerVars, InTakeLoop
<1>4. ASSUME BeginTake PROVE Stream!BeginTake
  BY <1>4 DEF BeginTake, Stream!BeginTake, writerVars, InTakeLoop
<1>5. ASSUME CallbackMiddle \/ CallbackLast PROVE Stream!Take
  <2>1. Len(taken') \in Len(taken) .. appended
    BY <1>5, CallbackStep
  <2>2. InTakeLoop /\ InTakeLoop' /\ UNCHANGED <<appended, committed>>
    BY <1>5 DEF CallbackMiddle, CallbackLast, Callback, InTakeLoop, writerVars
  <2> QED
    BY <2>1, <2>2 DEF Stream!Take
<1>6. ASSUME StopTaking PROVE Stream!EndTake
  <2>1. committed <= Len(taken)
    BY <1>6, StopTakingStep
  <2>2. InTakeLoop /\ ~InTakeLoop' /\ UNCHANGED <<appended, committed, taken>>
    BY <1>6 DEF StopTaking, InTakeLoop, writerVars
  <2>3. committed \in Int /\ Len(taken) \in Int
    BY DEF IInv, TypeOK
  <2> QED
    BY <2>1, <2>2, <2>3 DEF Stream!EndTake
<1>7. ASSUME LockForTake \/ NextChunk \/ TakeMore \/ FinalizeTake \/ FreeChunk \/ EndTake
      PROVE  UNCHANGED Stream!vars
  BY <1>7 DEF LockForTake, NextChunk, TakeMore, FinalizeTake, FreeChunk, EndTake,
              EnterChunk, InTakeLoop, writerVars
<1>8. ASSUME Destroy \/ DestroyChunk PROVE UNCHANGED Stream!vars
  BY <1>8 DEF Destroy, DestroyChunk, InTakeLoop, writerVars
<1>9. ASSUME UNCHANGED vars PROVE UNCHANGED Stream!vars
  BY <1>9 DEF vars, writerVars, readerVars, InTakeLoop
<1> QED
  BY <1>1, <1>2, <1>3, <1>4, <1>5, <1>6, <1>7, <1>8, <1>9 DEF Next, TakeStep

\* Async_Byte_Queue implements the byte stream: a take hands out appended bytes
\* only, and ends only when everything committed by then has been handed out.
THEOREM Refinement == Spec => ImplementsByteStream
<1>1. Init => Stream!Init
  BY DEF Init, Stream!Init, InTakeLoop
<1>2. IInv /\ [Next]_vars => [Stream!Next]_(Stream!vars)
  BY StreamStep
<1> QED
  BY <1>1, <1>2, Invariance, PTL DEF Spec, ImplementsByteStream, Stream!Spec
-----------------------------------------------------------------------------
(***************************************************************************)
(* Second, DebugServer, for any number of browsers and messages and any    *)
(* pipe: the flusher calls no backend that was destroyed.                  *)
(***************************************************************************)

Calls == [to : Browsers, data : SUBSET Items]

Types ==
    /\ messages \in 0 .. MaxMessages /\ documents \in 0 .. messages
    /\ tracer_backends_ \in Seq(Browsers) /\ backends \in Seq(Browsers)
    /\ registered_threads \in Seq(Threads) /\ visiting \in Seq(Threads)
    /\ uncommitted \in [Threads -> SUBSET Items]
    /\ writes \in Seq(Calls)

\* Whoever lets the lock go has made all its calls; a call that has appended
\* is one of those.
LockInv ==
    /\ lock = "free" => writes = << >>
    /\ holds_queue => writes # << >>

\* The backends that are enabled are those of the open WebSockets, in the same
\* order; the newest one is missing until the server thread has the lock.
EnabledInv ==
    IF server = "opened" THEN tracer_backends_ = Append(backends, Last(tracer_backends_))
    ELSE backends = tracer_backends_

CallsInv == \A i \in DOMAIN writes : writes[i].to \in Range(tracer_backends_)

\* The server thread ends after its last WebSocket, and main after it.
EndInv ==
    /\ main = "starting" => server = "none"
    /\ server = "ended" => tracer_backends_ = << >>
    /\ main = "exited" => server = "ended"

DebugInv == Types /\ LockInv /\ EnabledInv /\ CallsInv /\ EndInv
-----------------------------------------------------------------------------
LEMMA WithoutIsSeq ==
    ASSUME NEW s \in Seq(Browsers), NEW k
    PROVE  Without(s, k) \in Seq(Browsers)
<1>1. CASE k \in Range(s)
  <2> DEFINE i == CHOOSE i \in DOMAIN s : s[i] = k
  <2>1. i \in 1 .. Len(s)
    BY <1>1 DEF Range
  <2>2. Without(s, k) = SubSeq(s, 1, i - 1) \o SubSeq(s, i + 1, Len(s))
    BY <1>1 DEF Without, RemoveAt
  <2> HIDE DEF i
  <2>3. SubSeq(s, 1, i - 1) \in Seq(Browsers) /\ SubSeq(s, i + 1, Len(s)) \in Seq(Browsers)
    BY ONLY <2>1, s \in Seq(Browsers), SubSeqProperties
  <2> QED
    BY <2>2, <2>3
<1>2. CASE k \notin Range(s)
  BY <1>2 DEF Without
<1> QED
  BY <1>1, <1>2

LEMMA RangeOfAppend ==
    ASSUME NEW s \in Seq(Browsers), NEW k \in Browsers
    PROVE  /\ Append(s, k) \in Seq(Browsers)
           /\ Last(Append(s, k)) = k
           /\ k \in Range(Append(s, k))
           /\ Range(s) \subseteq Range(Append(s, k))
<1>1. /\ Append(s, k) \in Seq(Browsers)
      /\ Len(Append(s, k)) = Len(s) + 1 /\ Append(s, k)[Len(s) + 1] = k
      /\ \A i \in 1 .. Len(s) : Append(s, k)[i] = s[i]
      /\ DOMAIN Append(s, k) = 1 .. Len(s) + 1
      /\ DOMAIN s = 1 .. Len(s) /\ Len(s) \in Nat
  OBVIOUS
<1>2. Last(Append(s, k)) = k
  BY <1>1 DEF Last
<1>3. Len(s) + 1 \in DOMAIN Append(s, k) /\ DOMAIN s \subseteq DOMAIN Append(s, k)
  BY <1>1
<1> QED
  BY <1>1, <1>2, <1>3 DEF Range

\* The enabled backends have their WebSockets.
LEMMA EnabledAreOpen ==
    ASSUME Types, EnabledInv
    PROVE  Range(backends) \subseteq Range(tracer_backends_)
<1>1. CASE server = "opened"
  <2>1. tracer_backends_ = Append(backends, Last(tracer_backends_))
    BY <1>1 DEF EnabledInv
  <2>2. tracer_backends_ # << >>
    BY <2>1 DEF Types
  <2>3. Last(tracer_backends_) \in Browsers
    BY <2>2 DEF Types, Last
  <2> QED
    BY <2>1, <2>3, RangeOfAppend DEF Types
<1>2. CASE server # "opened"
  BY <1>2 DEF EnabledInv
<1> QED
  BY <1>1, <1>2
-----------------------------------------------------------------------------
LEMMA Initial == DebugInit => DebugInv
<1> SUFFICES ASSUME DebugInit PROVE DebugInv
  OBVIOUS
<1>1. << >> \in Seq(Browsers) /\ << >> \in Seq(Threads) /\ << >> \in Seq(Calls)
  OBVIOUS
<1>2. <<"main">> \in Seq(Threads)
  BY "main" \in Threads DEF Threads
<1>3. /\ messages = 0 /\ documents = 0 /\ tracer_backends_ = << >> /\ backends = << >>
      /\ registered_threads = <<"main">> /\ visiting = << >>
      /\ uncommitted = [t \in Threads |-> {}] /\ writes = << >> /\ holds_queue = FALSE
  BY DEF DebugInit
<1>4. Types
  BY ONLY <1>1, <1>2, <1>3, DebuggerAssumption DEF Types
<1>5. \A i \in DOMAIN writes : FALSE
  BY ONLY <1>3
<1>6. main = "starting" /\ server = "none"
  BY DEF DebugInit
<1>7. LockInv /\ EnabledInv /\ CallsInv /\ EndInv
  BY ONLY <1>3, <1>5, <1>6 DEF LockInv, EnabledInv, CallsInv, EndInv
<1> QED
  BY <1>4, <1>7 DEF DebugInv

\* The steps that neither change what the flusher has to do nor which
\* WebSockets there are.
flushing == <<tracer_backends_, backends, registered_threads, visiting, uncommitted, writes,
              holds_queue>>

Quiet ==
    \/ Listen \/ Loop \/ PollReturns \/ WakeUpForNewBackend \/ ReadPipe \/ TestNeedPublish
    \/ SendToBrowsers \/ FreeManager
    \/ StartServerThread \/ WaitForServerStart \/ RequestPublish \/ WakeUpToPublish \/ FlushAsync
    \/ DestroyHandler \/ StopServerThread \/ WakeUpToStop \/ \E k \in Browsers : Browse(k)

LEMMA QuietStep ==
    ASSUME DebugInv, Quiet PROVE DebugInv'
<1>1. UNCHANGED <<client, lock, flushing>>
  BY DEF Quiet, Listen, Loop, PollReturns, WakeUpForNewBackend, ReadPipe, TestNeedPublish,
         SendToBrowsers, FreeManager, StartServerThread, WaitForServerStart, RequestPublish,
         WakeUpToPublish, FlushAsync, DestroyHandler, StopServerThread, WakeUpToStop, Browse, Goes,
         MainGoes, client, flusher, flushing
<1>2. (server' = "opened") = (server = "opened")
  BY DEF DebugInv, EndInv, Quiet, Listen, Loop, PollReturns, WakeUpForNewBackend, ReadPipe,
         TestNeedPublish, SendToBrowsers, FreeManager, StartServerThread, WaitForServerStart,
         RequestPublish, WakeUpToPublish, FlushAsync, DestroyHandler, StopServerThread,
         WakeUpToStop, Browse, Goes, MainGoes, threads, InPoll
<1>3. EndInv'
  BY DEF DebugInv, EndInv, Quiet, Listen, Loop, PollReturns, WakeUpForNewBackend, ReadPipe,
         TestNeedPublish, SendToBrowsers, FreeManager, StartServerThread, WaitForServerStart,
         RequestPublish, WakeUpToPublish, FlushAsync, DestroyHandler, StopServerThread,
         WakeUpToStop, Browse, Goes, MainGoes, threads, InPoll
<1> QED
  BY <1>1, <1>2, <1>3 DEF DebugInv, Types, LockInv, EnabledInv, CallsInv, client, flushing

\* A flush calls backends that are enabled.
LEMMA WritesOfEnabled ==
    ASSUME DebugInv, NEW given \in SUBSET Items
    PROVE  /\ WritesOf(given) \in Seq(Calls)
           /\ \A i \in DOMAIN WritesOf(given) : WritesOf(given)[i].to \in Range(tracer_backends_)
<1>1. backends \in Seq(Browsers) /\ Range(backends) \subseteq Range(tracer_backends_)
  BY EnabledAreOpen DEF DebugInv, Types
<1>2. DOMAIN backends = 1 .. Len(backends) /\ Len(backends) \in Nat
  BY <1>1
<1>3. ASSUME NEW i \in 1 .. Len(backends)
      PROVE  /\ [to |-> backends[i], data |-> given] \in Calls
             /\ backends[i] \in Range(tracer_backends_)
  <2>1. backends[i] \in Browsers /\ backends[i] \in Range(backends)
    BY <1>1, <1>2 DEF Range
  <2> QED
    BY <1>1, <2>1 DEF Calls
<1>4. WritesOf(given) = [i \in 1 .. Len(backends) |-> [to |-> backends[i], data |-> given]]
  BY <1>2 DEF WritesOf
<1>5. WritesOf(given) \in Seq(Calls)
  BY ONLY <1>2, <1>3, <1>4
<1> QED
  BY ONLY <1>3, <1>4, <1>5

\* What a flush leaves alone
LEMMA SameServer ==
    ASSUME DebugInv, UNCHANGED <<client, tracer_backends_, backends, server, main>>
    PROVE  EnabledInv' /\ EndInv'
BY DEF DebugInv, EnabledInv, EndInv

LEMMA FlushStep ==
    ASSUME DebugInv, NEW holder \in Holders, Flush(holder) PROVE DebugInv'
<1>1. UNCHANGED <<client, lock, tracer_backends_, backends, registered_threads, server, main>>
  BY DEF Flush, threads, client
<1>2. lock # "free"
  BY DEF Flush, Holders
<1>3. EnabledInv' /\ EndInv'
  BY <1>1, SameServer
<1>4. CASE FlushThread
  <2>1. visiting \in Seq(Threads) /\ visiting # << >>
    BY <1>4 DEF FlushThread, DebugInv, Types
  <2>2. Head(visiting) \in Threads /\ Tail(visiting) \in Seq(Threads)
    BY <2>1
  <2>3. uncommitted[Head(visiting)] \in SUBSET Items
    BY <2>2 DEF DebugInv, Types
  <2>4. writes' \in Seq(Calls) /\ CallsInv'
    BY <1>1, <1>4, <2>3, WritesOfEnabled DEF FlushThread, CallsInv
  <2>5. visiting' \in Seq(Threads)
    BY <1>4, <2>1, <2>2 DEF FlushThread
  <2>6. uncommitted' \in [Threads -> SUBSET Items]
    BY <1>4, <2>2 DEF FlushThread, DebugInv, Types
  <2>7. LockInv'
    BY <1>1, <1>2, <1>4 DEF FlushThread, DebugInv, LockInv
  <2> QED
    BY <1>1, <1>3, <2>4, <2>5, <2>6, <2>7 DEF DebugInv, Types, client
<1>5. CASE AppendToQueue
  BY <1>1, <1>2, <1>3, <1>5 DEF AppendToQueue, DebugInv, Types, LockInv, CallsInv, client
<1>6. CASE WakeUpForQueue
  <2>1. /\ writes' = Tail(writes) /\ holds_queue' = FALSE /\ UNCHANGED uncommitted
        /\ visiting' = visiting \/ (visiting # << >> /\ visiting' = Tail(visiting))
    BY <1>6 DEF WakeUpForQueue
  <2>2. writes \in Seq(Calls) /\ writes # << >>
    BY <1>6 DEF WakeUpForQueue, DebugInv, Types, LockInv
  <2>3. /\ Tail(writes) \in Seq(Calls)
        /\ \A i \in DOMAIN Tail(writes) : i + 1 \in DOMAIN writes /\ Tail(writes)[i] = writes[i + 1]
    BY ONLY <2>2
  <2>4. CallsInv'
    BY <1>1, <2>1, <2>3 DEF DebugInv, CallsInv
  <2>5. visiting' \in Seq(Threads)
    <3>1. visiting \in Seq(Threads)
      BY DEF DebugInv, Types
    <3> QED
      BY ONLY <2>1, <3>1
  <2>6. LockInv'
    BY <1>1, <1>2, <2>1 DEF LockInv
  <2> QED
    BY <1>1, <1>3, <2>1, <2>3, <2>4, <2>5, <2>6 DEF DebugInv, Types, client
<1> QED
  BY <1>4, <1>5, <1>6 DEF Flush

\* Steps that begin or end a critical section of the flusher
LEMMA LockStep ==
    ASSUME DebugInv, FlusherLocks \/ FlusherUnlocks \/ FlushSync \/ FlushSyncReturns \/ Unregister
    PROVE  DebugInv'
<1>1. UNCHANGED <<client, tracer_backends_, backends, main, uncommitted, writes, holds_queue>>
  BY DEF FlusherLocks, FlusherUnlocks, FlushSync, FlushSyncReturns, Unregister, threads, client
<1>2. UNCHANGED registered_threads
  BY DEF FlusherLocks, FlusherUnlocks, FlushSync, FlushSyncReturns, Unregister
<1>3. EnabledInv' /\ EndInv'
  BY <1>1 DEF FlusherLocks, FlusherUnlocks, FlushSync, FlushSyncReturns, Unregister, DebugInv,
              EnabledInv, EndInv, threads
<1>4. LockInv'
  BY <1>1 DEF FlusherLocks, FlusherUnlocks, FlushSync, FlushSyncReturns, Unregister, DebugInv,
              LockInv, Lock, Unlock
<1>5. visiting' \in Seq(Threads)
  <2>1. <<"server">> \in Seq(Threads) /\ << >> \in Seq(Threads)
    BY "server" \in Threads DEF Threads
  <2>2. visiting' \in {visiting, registered_threads, <<"server">>, << >>}
    BY DEF FlusherLocks, FlusherUnlocks, FlushSync, FlushSyncReturns, Unregister
  <2> QED
    BY <2>1, <2>2 DEF DebugInv, Types
<1> QED
  BY <1>1, <1>2, <1>3, <1>4, <1>5 DEF DebugInv, Types, CallsInv, client

\* The server thread, and what is written, come and go.
LEMMA ThreadStep ==
    ASSUME DebugInv, RegisterThread \/ Unregistered \/ WriteDocuments \/ Message
    PROVE  DebugInv'
<1>1. UNCHANGED <<tracer_backends_, backends, visiting, writes, holds_queue>>
  BY DEF RegisterThread, Unregistered, WriteDocuments, Message
<1>2. EnabledInv' /\ EndInv'
  BY <1>1 DEF RegisterThread, Unregistered, WriteDocuments, Message, DebugInv, EnabledInv, EndInv
<1>3. LockInv'
  BY <1>1 DEF RegisterThread, Unregistered, WriteDocuments, Message, DebugInv, LockInv, Unlock
<1>4. registered_threads' \in Seq(Threads)
  <2>1. "server" \in Threads /\ <<"main">> \in Seq(Threads)
    BY "main" \in Threads DEF Threads
  <2>2. registered_threads \in Seq(Threads)
    BY DEF DebugInv, Types
  <2>3. \/ registered_threads' = registered_threads
        \/ registered_threads' = Append(registered_threads, "server")
        \/ registered_threads' = <<"main">>
    BY DEF RegisterThread, Unregistered, WriteDocuments, Message
  <2>4. Append(registered_threads, "server") \in Seq(Threads)
    BY <2>1, <2>2, AppendProperties
  <2> QED
    BY ONLY <2>1, <2>2, <2>3, <2>4
<1>5. messages' \in 0 .. MaxMessages /\ documents' \in 0 .. messages'
  BY DebuggerAssumption
     DEF RegisterThread, Unregistered, WriteDocuments, Message, DebugInv, Types, client
<1>6. uncommitted' \in [Threads -> SUBSET Items]
  <2>1. documents \in Items /\ Other \in Items /\ "server" \in Threads /\ "main" \in Threads
    BY DebuggerAssumption DEF DebugInv, Types, Items, Threads
  <2>2. uncommitted \in [Threads -> SUBSET Items]
    BY DEF DebugInv, Types
  <2>3. \/ UNCHANGED uncommitted
        \/ uncommitted' = [uncommitted EXCEPT !["server"] = @ \cup {documents}]
        \/ uncommitted' = [uncommitted EXCEPT !["main"] = IF HasWriter THEN @ \cup {Other} ELSE @]
    BY DEF RegisterThread, Unregistered, WriteDocuments, Message
  <2> QED
    BY ONLY <2>1, <2>2, <2>3
<1> QED
  BY <1>1, <1>2, <1>3, <1>4, <1>5, <1>6 DEF DebugInv, Types, CallsInv

\* A WebSocket opens, and is enabled.
LEMMA OpenStep ==
    ASSUME DebugInv, NEW k \in Browsers, Opened(k)
    PROVE  DebugInv'
<1>1. /\ UNCHANGED <<client, backends, lock, registered_threads, visiting, uncommitted, writes,
                      holds_queue, main>>
      /\ tracer_backends_' = Append(tracer_backends_, k)
      /\ server' = "opened" /\ server \in {"polling", "polled"}
  BY DEF Opened, flusher, InPoll
<1>2. backends = tracer_backends_ /\ tracer_backends_ \in Seq(Browsers)
  BY <1>1 DEF DebugInv, EnabledInv, Types
<1>3. /\ tracer_backends_' \in Seq(Browsers) /\ Last(tracer_backends_') = k
      /\ Range(tracer_backends_) \subseteq Range(tracer_backends_')
  BY <1>1, <1>2, RangeOfAppend
<1>4. EnabledInv' /\ CallsInv' /\ EndInv'
  BY <1>1, <1>2, <1>3 DEF DebugInv, EnabledInv, CallsInv, EndInv
<1> QED
  BY <1>1, <1>3, <1>4 DEF DebugInv, Types, LockInv, client

LEMMA EnableStep ==
    ASSUME DebugInv, EnableBackend PROVE DebugInv'
<1> DEFINE k == Last(tracer_backends_)
<1>1. /\ UNCHANGED <<client, tracer_backends_, registered_threads, visiting, uncommitted, holds_queue,
                      main>>
      /\ lock = "free" /\ lock' = "server" /\ server = "opened" /\ server' = "enabling"
      /\ backends' = Append(backends, k)
      /\ writes' = [i \in DOMAIN registered_threads |-> [to |-> k, data |-> {Other}]]
  BY DEF EnableBackend, Lock
<1>2. tracer_backends_ = Append(backends, k) /\ backends \in Seq(Browsers)
  BY <1>1 DEF DebugInv, EnabledInv, Types
<1>3. k \in Browsers /\ k \in Range(tracer_backends_)
  <2>1. tracer_backends_ \in Seq(Browsers) /\ tracer_backends_ # << >>
    BY <1>2 DEF DebugInv, Types
  <2>2. Len(tracer_backends_) \in DOMAIN tracer_backends_
    BY <2>1
  <2> QED
    BY <2>1, <2>2 DEF Last, Range
<1> HIDE DEF k
<1>4. backends' = tracer_backends_' /\ EnabledInv' /\ EndInv'
  BY <1>1, <1>2 DEF DebugInv, EnabledInv, EndInv
<1>5. writes' \in Seq(Calls) /\ CallsInv'
  <2>1. [to |-> k, data |-> {Other}] \in Calls
    BY <1>3 DEF Calls, Items
  <2>2. /\ DOMAIN registered_threads = 1 .. Len(registered_threads)
        /\ Len(registered_threads) \in Nat
    BY DEF DebugInv, Types
  <2>3. writes' \in Seq(Calls) /\ \A i \in DOMAIN writes' : writes'[i].to = k
    BY ONLY <1>1, <2>1, <2>2
  <2> QED
    BY <1>1, <1>3, <2>3 DEF CallsInv
<1>6. LockInv'
  BY <1>1 DEF DebugInv, LockInv
<1> QED
  BY <1>1, <1>4, <1>5, <1>6 DEF DebugInv, Types, client

LEMMA EnabledStep ==
    ASSUME DebugInv, RequestForNewBackend PROVE DebugInv'
BY DEF RequestForNewBackend, Unlock, DebugInv, Types, LockInv, EnabledInv, CallsInv, EndInv, client

\* A backend is disabled and destroyed.
LEMMA CloseStep ==
    ASSUME DebugInv, NEW k, Closed(k) \/ FreeConnection PROVE DebugInv'
<1>1. PICK l : /\ lock = "free" /\ tracer_backends_' = Without(tracer_backends_, l)
               /\ backends' = Without(backends, l)
  BY DEF Closed, FreeConnection, CloseBackend
<1>2. /\ UNCHANGED <<client, lock, registered_threads, visiting, uncommitted, writes, holds_queue,
                      main>>
      /\ server \in {"polling", "polled", "freeing"} /\ server' \in {"polled", "freeing"}
  BY DEF Closed, FreeConnection, InPoll
<1>3. backends = tracer_backends_ /\ backends \in Seq(Browsers)
  BY <1>2 DEF DebugInv, EnabledInv, Types
<1>4. backends' = tracer_backends_' /\ backends' \in Seq(Browsers)
  BY <1>1, <1>3, WithoutIsSeq
<1>5. writes = << >>
  BY <1>1 DEF DebugInv, LockInv
<1>6. CallsInv'
  <2>1. \A i \in DOMAIN writes' : FALSE
    BY <1>2, <1>5
  <2> QED
    BY <2>1 DEF CallsInv
<1>7. EnabledInv' /\ EndInv'
  BY <1>2, <1>4 DEF DebugInv, EnabledInv, EndInv
<1> QED
  BY <1>2, <1>4, <1>6, <1>7 DEF DebugInv, Types, LockInv, client

\* There is nothing left to disable when the server thread has ended.
LEMMA JoinStep ==
    ASSUME DebugInv, JoinServerThread PROVE DebugInv'
<1>1. backends' = backends /\ server = "ended"
  BY DEF JoinServerThread, DebugInv, EndInv
<1> QED
  BY <1>1 DEF JoinServerThread, DebugInv, Types, LockInv, EnabledInv, CallsInv, EndInv, client

LEMMA NextStep == DebugInv /\ [DebugNext]_debugVars => DebugInv'
<1> SUFFICES ASSUME DebugInv, [DebugNext]_debugVars PROVE DebugInv'
  OBVIOUS
<1>1. CASE UNCHANGED debugVars
  BY <1>1 DEF debugVars, client, flusher, threads, DebugInv, Types, LockInv, EnabledInv, CallsInv, EndInv
<1>2. CASE Quiet
  BY <1>2, QuietStep
<1>3. ASSUME NEW holder \in Holders, Flush(holder) PROVE DebugInv'
  BY <1>3, FlushStep
<1>4. CASE FlusherLocks \/ FlusherUnlocks \/ FlushSync \/ FlushSyncReturns \/ Unregister
  BY <1>4, LockStep
<1>5. CASE RegisterThread \/ Unregistered \/ WriteDocuments \/ Message
  BY <1>5, ThreadStep
<1>6. ASSUME NEW k \in Browsers, Opened(k) \/ Closed(k) PROVE DebugInv'
  BY <1>6, OpenStep, CloseStep
<1>7. CASE FreeConnection
  BY <1>7, CloseStep
<1>8. CASE EnableBackend \/ RequestForNewBackend \/ JoinServerThread
  BY <1>8, EnableStep, EnabledStep, JoinStep
<1> QED
  BY <1>1, <1>2, <1>3, <1>4, <1>5, <1>6, <1>7, <1>8
     DEF DebugNext, ServerStep, HolderStep, MainCall, Environment, Quiet

LEMMA Alive == DebugInv => BackendsAreAlive
<1> SUFFICES ASSUME DebugInv PROVE BackendsAreAlive
  OBVIOUS
<1>1. Range(backends) \subseteq Range(tracer_backends_)
  BY EnabledAreOpen DEF DebugInv
<1>2. ASSUME main = "exited" PROVE backends = << >> /\ writes = << >>
  <2>1. tracer_backends_ = << >> /\ backends = << >>
    BY <1>2 DEF DebugInv, EndInv, EnabledInv
  <2>2. Range(tracer_backends_) = {}
    <3>1. DOMAIN << >> = {}
      OBVIOUS
    <3> QED
      BY <2>1, <3>1 DEF Range
  <2>3. writes = << >>
    <3>1. \A i \in DOMAIN writes : FALSE
      BY <2>2 DEF DebugInv, CallsInv
    <3>2. writes \in Seq(Calls)
      BY DEF DebugInv, Types
    <3>3. DOMAIN writes = 1 .. Len(writes) /\ Len(writes) \in Nat
      BY <3>2
    <3>4. Len(writes) = 0
      BY <3>1, <3>3
    <3> QED
      BY <3>2, <3>4, EmptySeq
  <2> QED
    BY <2>1, <2>3
<1> QED
  BY <1>1, <1>2 DEF DebugInv, CallsInv, BackendsAreAlive

\* The flusher calls no backend that was destroyed, nor any once the debug
\* server is gone, however many browsers come and go while others flush.
THEOREM DebuggerBackendsAreAlive == DebugSpec => []BackendsAreAlive
<1>1. DebugInit => DebugInv
  BY Initial
<1>2. DebugInv /\ [DebugNext]_debugVars => DebugInv'
  BY NextStep
<1>3. DebugInv => BackendsAreAlive
  BY Alive
<1> QED
  BY <1>1, <1>2, <1>3, PTL DEF DebugSpec
=============================================================================
