----------------------- MODULE WindowsEventLoopProofs -----------------------
(***************************************************************************)
(* Proofs about WindowsEventLoop, for any messages, any capacity of the    *)
(* pipe, and any number of chunks and changes: what the writer is given is *)
(* on its way once and in order, and the thread never sleeps on it.        *)
(***************************************************************************)
EXTENDS WindowsEventLoop, SequenceTheorems, TLAPS

\* Four parts of a stream, joined
Joined4(a, b, c, d) == a \o b \o c \o d

\* Concatenation, for steps that need to know nothing of it
Cat(s, t) == s \o t

LEMMA Associative ==
    ASSUME NEW x \in Seq(Byte), NEW y \in Seq(Byte), NEW z \in Seq(Byte)
    PROVE  Cat(Cat(x, y), z) = Cat(x, Cat(y, z))
BY DEF Cat

\* n bytes move from the front of the third part to the end of the second.
LEMMA MoveSome ==
    ASSUME NEW a \in Seq(Byte), NEW b \in Seq(Byte), NEW c \in Seq(Byte), NEW d \in Seq(Byte),
           NEW n \in 1 .. Len(c)
    PROVE  Joined4(a, b \o SubSeq(c, 1, n), SubSeq(c, n + 1, Len(c)), d) = Joined4(a, b, c, d)
<1> DEFINE front == SubSeq(c, 1, n)
           back == SubSeq(c, n + 1, Len(c))
<1>0. /\ Len(c) \in Nat
      /\ 1 \in 1 .. Len(c) + 1
      /\ n \in 1 - 1 .. Len(c)
      /\ Len(c) \in n .. Len(c)
  OBVIOUS
<1>1. front \in Seq(Byte) /\ back \in Seq(Byte)
  BY <1>0
<1>2. Cat(front, back) = c
  <2>1. front \o back = SubSeq(c, 1, Len(c))
    BY ONLY <1>0, c \in Seq(Byte), ConcatAdjacentSubSeq
  <2> QED
    BY <2>1, SubSeqFull DEF Cat
<1> HIDE DEF front, back
<1>3. Cat(b, front) \in Seq(Byte)
  BY <1>1 DEF Cat
<1>4. Cat(Cat(a, Cat(b, front)), back) = Cat(a, Cat(Cat(b, front), back))
  BY ONLY <1>1, <1>3, a \in Seq(Byte), Associative
<1>5. Cat(Cat(b, front), back) = Cat(b, Cat(front, back))
  BY ONLY <1>1, b \in Seq(Byte), Associative
<1>6. Cat(a, Cat(b, c)) = Cat(Cat(a, b), c)
  BY ONLY a \in Seq(Byte), b \in Seq(Byte), c \in Seq(Byte), Associative
<1>7. Cat(Cat(Cat(a, Cat(b, front)), back), d) = Cat(Cat(Cat(a, b), c), d)
  BY ONLY <1>2, <1>4, <1>5, <1>6
<1>8. /\ Joined4(a, b \o front, back, d) = Cat(Cat(Cat(a, Cat(b, front)), back), d)
      /\ Joined4(a, b, c, d) = Cat(Cat(Cat(a, b), c), d)
  BY ONLY DEF Joined4, Cat
<1> QED
  BY ONLY <1>7, <1>8 DEF front, back

\* A byte moves from the front of the second part to the end of the first.
LEMMA MoveOne ==
    ASSUME NEW a \in Seq(Byte), NEW b \in Seq(Byte), NEW c \in Seq(Byte), NEW d \in Seq(Byte),
           b # << >>
    PROVE  Joined4(Append(a, Head(b)), Tail(b), c, d) = Joined4(a, b, c, d)
BY DEF Joined4

\* The thread takes all that is pending.
LEMMA MoveAll ==
    ASSUME NEW a \in Seq(Byte), NEW b \in Seq(Byte), NEW d \in Seq(Byte)
    PROVE  Joined4(a, b, d, << >>) = Joined4(a, b, << >>, d)
BY DEF Joined4

\* More is given to write().
LEMMA AddLast ==
    ASSUME NEW a \in Seq(Byte), NEW b \in Seq(Byte), NEW c \in Seq(Byte), NEW d \in Seq(Byte),
           NEW e \in Seq(Byte)
    PROVE  Joined4(a, b, c, Cat(d, e)) = Cat(Joined4(a, b, c, d), e)
BY DEF Joined4, Cat
-----------------------------------------------------------------------------
\* What the thread sleeps on is nothing, and it has nothing of its own then.
PendingIsSeen ==
    thread \in {"waiting", "asleep"} => pending_ = << >>

Inv ==
    /\ TypeOK
    /\ OutputIsInOrder
    /\ PendingIsSeen

LEMMA InitInv == Init => Inv
<1> SUFFICES ASSUME Init PROVE Inv
  OBVIOUS
<1> USE DEF Init, WriterInit
<1>1. WriterTypeOK
  <2>1. << >> \in Seq(Byte) /\ Len(<< >>) <= PipeCapacity
    BY ONLY WriterAssumption
  <2>2. /\ pending_ \in Seq(Byte) /\ to_write \in Seq(Byte)
        /\ pipe \in Seq(Byte) /\ received \in Seq(Byte) /\ accepted \in Seq(Byte)
        /\ Len(pipe) <= PipeCapacity
    BY <2>1, Zenon
  <2>3. /\ locked = (thread = "waiting")
        /\ stop_ \in BOOLEAN
        /\ thread \in {"testing", "waiting", "asleep", "writing", "ended"}
        /\ to_write = << >>
    OBVIOUS
  <2> QED
    BY ONLY <2>2, <2>3 DEF WriterTypeOK
<1>2. TypeOK
  <2>1. << >> \in Seq(Packets)
    OBVIOUS
  <2>2. port \in Seq(Packets)
    BY <2>1, Zenon
  <2>3. 0 \in 0 .. MaxChunks /\ 0 \in 0 .. MaxFsEvents /\ 0 \in 0 .. 0
    BY ONLY LoopAssumption
  <2>4. /\ unread \in 0 .. chunks /\ chunks \in 0 .. MaxChunks /\ fs_events \in 0 .. MaxFsEvents
        /\ closed \in BOOLEAN /\ main = "polling" /\ reader = "reading"
    BY <2>3, Zenon
  <2> QED
    BY ONLY <1>1, <2>2, <2>4 DEF TypeOK
<1>3. OutputIsInOrder
  BY DEF OutputIsInOrder
<1>4. PendingIsSeen
  BY DEF PendingIsSeen
<1> QED
  BY <1>2, <1>3, <1>4 DEF Inv

\* A step of the writer's variables only, or none of them: the writer's part
\* of the invariant.
WriterInv ==
    /\ WriterTypeOK
    /\ OutputIsInOrder
    /\ PendingIsSeen

LEMMA WriteInv ==
    ASSUME WriterInv, NEW data \in Data, Write(data)
    PROVE  WriterInv'
<1> USE DEF WriterInv, Write, Notified
<1>0. data \in Seq(Byte)
  BY WriterAssumption
<1>1. WriterTypeOK'
  BY <1>0 DEF WriterTypeOK
<1>2. OutputIsInOrder'
  <2>1. accepted = Joined4(received, pipe, to_write, pending_)
    BY DEF OutputIsInOrder, Joined4
  <2>2. Joined4(received, pipe, to_write, Cat(pending_, data))
            = Cat(Joined4(received, pipe, to_write, pending_), data)
    <3>1. /\ received \in Seq(Byte) /\ pipe \in Seq(Byte)
          /\ to_write \in Seq(Byte) /\ pending_ \in Seq(Byte)
      BY ONLY WriterTypeOK DEF WriterTypeOK
    <3> QED
      BY ONLY <3>1, <1>0, AddLast
  <2>3. Joined4(received, pipe, to_write, pending_ \o data) = accepted \o data
    BY ONLY <2>1, <2>2 DEF Cat
  <2> QED
    BY <2>3 DEF OutputIsInOrder, Joined4
<1>3. PendingIsSeen'
  BY DEF PendingIsSeen, WriterTypeOK
<1> QED
  BY <1>1, <1>2, <1>3

LEMMA StopInv ==
    ASSUME WriterInv, SetStop \/ NotifyStop \/ Wait \/ WakeUp \/ Written
    PROVE  WriterInv'
BY DEF WriterInv, WriterTypeOK, OutputIsInOrder, PendingIsSeen, SetStop, NotifyStop, Notified,
       Wait, WakeUp, Written

LEMMA TestInv ==
    ASSUME WriterInv, Test
    PROVE  WriterInv'
<1> USE DEF WriterInv, Test
<1>1. WriterTypeOK'
  <2>1. /\ pending_' \in Seq(Byte) /\ to_write' \in Seq(Byte)
        /\ pipe' \in Seq(Byte) /\ received' \in Seq(Byte) /\ accepted' \in Seq(Byte)
        /\ Len(pipe') <= PipeCapacity
    BY DEF WriterTypeOK
  <2>2. /\ locked' = (thread' = "waiting")
        /\ stop_' \in BOOLEAN
        /\ thread' \in {"testing", "waiting", "asleep", "writing", "ended"}
        /\ thread' # "writing" => to_write' = << >>
    BY DEF WriterTypeOK
  <2> QED
    BY ONLY <2>1, <2>2 DEF WriterTypeOK
<1>2. OutputIsInOrder'
  <2>1. CASE thread' = "writing"
    <3>1. to_write = << >> /\ to_write' = pending_ /\ pending_' = << >>
      BY <2>1 DEF WriterTypeOK
    <3>2. Joined4(received, pipe, pending_, << >>) = Joined4(received, pipe, << >>, pending_)
      BY MoveAll DEF WriterTypeOK
    <3> QED
      BY <3>1, <3>2 DEF OutputIsInOrder, Joined4
  <2>2. CASE thread' # "writing"
    BY <2>2 DEF OutputIsInOrder, WriterTypeOK
  <2> QED
    BY <2>1, <2>2
<1>3. PendingIsSeen'
  BY DEF PendingIsSeen
<1> QED
  BY <1>1, <1>2, <1>3

LEMMA PipeWriteInv ==
    ASSUME WriterInv, PipeWrite
    PROVE  WriterInv'
<1> USE DEF WriterInv
<1>1. PICK n \in 1 .. Len(to_write) :
          /\ Len(pipe) + n <= PipeCapacity
          /\ pipe' = pipe \o SubSeq(to_write, 1, n)
          /\ to_write' = SubSeq(to_write, n + 1, Len(to_write))
  BY DEF PipeWrite
<1>2. WriterTypeOK'
  <2>1. SubSeq(to_write, 1, n) \in Seq(Byte) /\ Len(SubSeq(to_write, 1, n)) = n
    BY DEF WriterTypeOK
  <2>2. SubSeq(to_write, n + 1, Len(to_write)) \in Seq(Byte)
    BY DEF WriterTypeOK
  <2>3. pipe' \in Seq(Byte) /\ Len(pipe') <= PipeCapacity
    BY <1>1, <2>1 DEF WriterTypeOK
  <2> QED
    BY <1>1, <2>2, <2>3 DEF WriterTypeOK, PipeWrite
<1>3. OutputIsInOrder'
  <2>1. Joined4(received, pipe', to_write', pending_) = Joined4(received, pipe, to_write, pending_)
    BY <1>1, MoveSome DEF WriterTypeOK
  <2> QED
    BY <2>1 DEF OutputIsInOrder, Joined4, PipeWrite
<1>4. PendingIsSeen'
  BY DEF PendingIsSeen, PipeWrite
<1> QED
  BY <1>2, <1>3, <1>4

LEMMA ReceiveInv ==
    ASSUME WriterInv, Receive
    PROVE  WriterInv'
<1> USE DEF WriterInv, Receive
<1>1. WriterTypeOK'
  <2>1. pipe \in Seq(Byte) /\ received \in Seq(Byte) /\ Len(pipe) <= PipeCapacity /\ pipe # << >>
    BY DEF WriterTypeOK
  <2>2. PipeCapacity \in Nat
    BY WriterAssumption
  <2>3. Head(pipe) \in Byte /\ Tail(pipe) \in Seq(Byte) /\ Len(Tail(pipe)) <= PipeCapacity
    BY ONLY <2>1, <2>2
  <2>4. Append(received, Head(pipe)) \in Seq(Byte)
    BY ONLY <2>1, <2>3
  <2> QED
    BY <2>3, <2>4 DEF WriterTypeOK
<1>2. OutputIsInOrder'
  <2>1. Joined4(received', pipe', to_write, pending_) = Joined4(received, pipe, to_write, pending_)
    BY MoveOne DEF WriterTypeOK
  <2> QED
    BY <2>1 DEF OutputIsInOrder, Joined4
<1>3. PendingIsSeen'
  BY DEF PendingIsSeen
<1> QED
  BY <1>1, <1>2, <1>3

LEMMA StutterInv ==
    ASSUME WriterInv, UNCHANGED writerVars
    PROVE  WriterInv'
BY DEF WriterInv, WriterTypeOK, OutputIsInOrder, PendingIsSeen, writerVars

\* Every step of the server is one of these to the writer.
LEMMA WriterStep ==
    ASSUME [Next]_vars
    PROVE  \/ \E data \in Data : Write(data)
           \/ SetStop \/ NotifyStop \/ Wait \/ WakeUp \/ Written
           \/ Test
           \/ PipeWrite
           \/ Receive
           \/ UNCHANGED writerVars
<1>1. CASE HandlerWrite
  BY <1>1 DEF HandlerWrite
<1>2. CASE Writer
  BY <1>2 DEF Writer, Flush
<1>3. CASE SpuriousWakeUp \/ ClientReceive
  BY <1>3 DEF SpuriousWakeUp, ClientReceive
<1>4. CASE DestroyWriter
  BY <1>4 DEF DestroyWriter
<1>5. CASE ClientSend \/ ClientClose \/ OplockBreak
  BY <1>5 DEF ClientSend, ClientClose, OplockBreak
<1>6. CASE ReaderNext
  BY <1>6 DEF ReaderNext, Read, ReadEof, Appended
<1>7. CASE Poll \/ FsChangedHandled \/ JoinReader
  BY <1>7 DEF Poll, FsChangedHandled, JoinReader
<1>8. CASE UNCHANGED vars
  BY <1>8 DEF vars
<1> QED
  BY <1>1, <1>2, <1>3, <1>4, <1>5, <1>6, <1>7, <1>8 DEF Next, MainNext

LEMMA WriterInvStep ==
    ASSUME WriterInv, [Next]_vars
    PROVE  WriterInv'
<1>1. CASE \E data \in Data : Write(data)
  BY <1>1, WriteInv
<1>2. CASE SetStop \/ NotifyStop \/ Wait \/ WakeUp \/ Written
  BY <1>2, StopInv
<1>3. CASE Test
  BY <1>3, TestInv
<1>4. CASE PipeWrite
  BY <1>4, PipeWriteInv
<1>5. CASE Receive
  BY <1>5, ReceiveInv
<1>6. CASE UNCHANGED writerVars
  BY <1>6, StutterInv
<1> QED
  BY <1>1, <1>2, <1>3, <1>4, <1>5, <1>6, WriterStep

\* The variables of the loop keep their types.
LoopTypeOK ==
    /\ unread \in 0 .. chunks /\ chunks \in 0 .. MaxChunks
    /\ closed \in BOOLEAN
    /\ port \in Seq(Packets)
    /\ fs_events \in 0 .. MaxFsEvents
    /\ main \in {"polling", "fs changed", "joining reader", "stopping", "notifying",
                 "joining", "exited"}
    /\ reader \in {"reading", "append", "ended"}

LEMMA LoopTypeStep ==
    ASSUME LoopTypeOK, [Next]_vars
    PROVE  LoopTypeOK'
<1> USE DEF LoopTypeOK
<1>1. CASE HandlerWrite \/ Writer \/ SpuriousWakeUp \/ ClientReceive
  BY <1>1 DEF HandlerWrite, Writer, SpuriousWakeUp, ClientReceive, envVars
<1>2. CASE ClientSend
  <2>1. chunks < MaxChunks /\ chunks' = chunks + 1 /\ unread' = unread + 1
    BY ONLY <1>2 DEF ClientSend
  <2>2. unread \in 0 .. chunks /\ chunks \in 0 .. MaxChunks
    BY ONLY LoopTypeOK DEF LoopTypeOK
  <2>3. unread' \in 0 .. chunks' /\ chunks' \in 0 .. MaxChunks
    BY ONLY <2>1, <2>2, LoopAssumption
  <2> QED
    BY ONLY <1>2, <2>3, LoopTypeOK DEF ClientSend, LoopTypeOK
<1>3. CASE ClientClose
  BY <1>3 DEF ClientClose
<1>4. CASE OplockBreak
  <2>1. /\ fs_events < MaxFsEvents /\ fs_events' = fs_events + 1
        /\ port' = Append(port, FsChanged)
    BY ONLY <1>4 DEF OplockBreak
  <2>2. fs_events \in 0 .. MaxFsEvents /\ port \in Seq(Packets)
    BY ONLY LoopTypeOK DEF LoopTypeOK
  <2>3. fs_events' \in 0 .. MaxFsEvents
    BY ONLY <2>1, <2>2, LoopAssumption
  <2>4. FsChanged \in Packets
    BY DEF Packets
  <2>5. port' \in Seq(Packets)
    BY ONLY <2>1, <2>2, <2>4
  <2> QED
    BY ONLY <1>4, <2>3, <2>5, LoopTypeOK DEF OplockBreak, LoopTypeOK
<1>5. CASE Read
  <2>1. unread > 0 /\ unread' = unread - 1 /\ chunks' = chunks
    BY ONLY <1>5 DEF Read
  <2>2. unread \in 0 .. chunks /\ chunks \in 0 .. MaxChunks
    BY ONLY LoopTypeOK DEF LoopTypeOK
  <2>3. unread' \in 0 .. chunks'
    BY ONLY <2>1, <2>2, LoopAssumption
  <2> QED
    BY ONLY <1>5, <2>3, LoopTypeOK DEF Read, LoopTypeOK
<1>6. CASE ReadEof
  <2>1. port' = Append(port, Stop) /\ port \in Seq(Packets) /\ Stop \in Packets
    BY ONLY <1>6, LoopTypeOK DEF ReadEof, LoopTypeOK, Packets
  <2>2. port' \in Seq(Packets)
    BY ONLY <2>1
  <2> QED
    BY ONLY <1>6, <2>2, LoopTypeOK DEF ReadEof, LoopTypeOK, envVars
<1>7. CASE Poll
  <2>1. port' = Tail(port) /\ port \in Seq(Packets) /\ port # << >>
    BY ONLY <1>7, LoopTypeOK DEF Poll, LoopTypeOK
  <2>2. port' \in Seq(Packets)
    BY ONLY <2>1
  <2> QED
    BY ONLY <1>7, <2>2, LoopTypeOK DEF Poll, LoopTypeOK, envVars
<1>8. CASE Appended \/ FsChangedHandled \/ JoinReader \/ DestroyWriter
  BY <1>8 DEF Appended, FsChangedHandled, JoinReader, DestroyWriter, envVars
<1>9. CASE UNCHANGED vars
  BY <1>9 DEF vars, envVars
<1> QED
  BY <1>1, <1>2, <1>3, <1>4, <1>5, <1>6, <1>7, <1>8, <1>9 DEF Next, MainNext, ReaderNext

LEMMA InvStep == Inv /\ [Next]_vars => Inv'
<1> SUFFICES ASSUME Inv, [Next]_vars PROVE Inv'
  OBVIOUS
<1>1. WriterInv /\ LoopTypeOK
  BY DEF Inv, WriterInv, TypeOK, LoopTypeOK
<1>2. WriterInv'
  BY <1>1, WriterInvStep
<1>3. LoopTypeOK'
  BY <1>1, LoopTypeStep
<1> QED
  BY <1>2, <1>3 DEF Inv, WriterInv, TypeOK, LoopTypeOK
-----------------------------------------------------------------------------
LEMMA Invariance == Spec => []Inv
BY InitInv, InvStep, PTL DEF Spec

\* Every variable of the loop and of the writer keeps its type, the pipe its
\* capacity, and the thread holds mutex_ only between its test and its wait.
THEOREM WindowsTypeCorrect == Spec => []TypeOK
BY Invariance, PTL DEF Inv

\* Whatever two threads give to write() leaves in the order of the calls, each
\* byte once, wherever the pipe cuts it (io/pipe-writer.cpp:48-105).
THEOREM WindowsOutputIsInOrder == Spec => []OutputIsInOrder
BY Invariance, PTL DEF Inv

\* The thread never waits, nor is about to, while there is something to write:
\* no notification of write() is missed, unlike that of the destructor.
THEOREM WindowsPendingIsSeen == Spec => []PendingIsSeen
BY Invariance, PTL DEF Inv
=============================================================================
