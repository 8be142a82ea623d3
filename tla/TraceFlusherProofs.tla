------------------------- MODULE TraceFlusherProofs -------------------------
(***************************************************************************)
(* Proofs about TraceFlusher, for any threads and backends and any bounds  *)
(* on registrations and events.                                            *)
(*                                                                         *)
(* The inductive invariant says who holds state_ while what is going on,   *)
(* that a flush visits registered threads only, that numbers not given out *)
(* yet are unknown to all backends, and that a backend has been given      *)
(* exactly what was taken of an open stream since it joined.               *)
(***************************************************************************)
EXTENDS TraceFlusher, SequenceTheorems, TLAPS

\* Who holds state_, and what for.
LockInv ==
    /\ \A t \in Threads : lock = t <=> pc[t] \in {"flushing", "unregistering"}
    /\ lock = Flusher <=> flusher = "flushing"
    /\ \A a \in Actors : toFlush[a] # << >> => lock = a

\* Registrations have numbers of their own, below the next one.
RegisterInv ==
    /\ \A t \in Threads : index[t] < nextIndex
    /\ \A s, t \in Threads : index[s] = index[t] /\ index[s] # NoIndex => s = t
    /\ \A t \in Threads : pc[t] = "unregistering" => index[t] # NoIndex
    /\ \A a \in Actors : \A k \in DOMAIN toFlush[a] : toFlush[a][k] \in ToSet(registered)

\* A thread that unregisters still has to flush its queue, or has done so.
UnregisterInv ==
    \A t \in Threads :
        pc[t] = "unregistering" /\ backends # {} =>
            toFlush[t] = <<t>> \/ (toFlush[t] = << >> /\ Drained(index[t]))

\* Backends have not heard of numbers that were not given out.
FreshInv ==
    \A b \in Backends, i \in Indexes : i >= nextIndex => files[b][i] = Unopened

ClosedInv ==
    \A b \in Backends, i \in Indexes :
        files[b][i].phase # "open" => files[b][i].data = << >>

IInv ==
    /\ TypeOK
    /\ LockInv
    /\ WriterIsSetWhileEnabled
    /\ RegisterInv
    /\ UnregisterInv
    /\ OpenWhileRegistered
    /\ FreshInv
    /\ ClosedInv
    /\ FilesFollowStreams

USE DEF Indexes, NoIndex, EventSize, Actors, Free, Flusher
-----------------------------------------------------------------------------
LEMMA InitIInv == Init => IInv
<1> SUFFICES ASSUME Init PROVE IInv
  OBVIOUS
<1> USE TracingAssumption, ThreadsAssumption DEF Init
<1>1. ToSet(registered) = {}
  BY DEF ToSet
<1>2. TypeOK
  <2>1. registered \in Seq(Threads) /\ IsInjective(registered)
    BY DEF IsInjective
  <2>2. stream \in [Indexes -> [appended : Nat, committed : Nat, taken : Nat]]
    BY DEF EmptyStream
  <2>3. files \in [Backends -> [Indexes ->
            [phase : {"unopened", "open", "closed"}, data : Seq(Nat)]]]
    BY DEF Unopened
  <2>4. toFlush \in [Actors -> Seq(Threads)]
    OBVIOUS
  <2>5. \A i \in Indexes :
          stream[i].appended \in stream[i].committed .. stream[i].committed + EventSize
    BY DEF EmptyStream
  <2>6. index \in [Threads -> {NoIndex} \cup Indexes] /\ nextIndex \in 1 .. MaxIndex + 1
    OBVIOUS
  <2>7. hasWriter \in [Threads -> BOOLEAN] /\ stopFlushing \in BOOLEAN /\ backends \subseteq Backends
    OBVIOUS
  <2>8. pc \in [Threads -> {"idle", "writing", "written", "flushing", "unregistering"}]
    OBVIOUS
  <2> QED
    BY <2>1, <2>2, <2>3, <2>4, <2>5, <2>6, <2>7, <2>8 DEF TypeOK
<1>3. LockInv
  BY DEF LockInv
<1>4. WriterIsSetWhileEnabled
  BY <1>1 DEF WriterIsSetWhileEnabled
<1>5. RegisterInv /\ UnregisterInv
  BY DEF RegisterInv, UnregisterInv
<1>6. OpenWhileRegistered /\ FreshInv /\ ClosedInv
  BY DEF OpenWhileRegistered, FreshInv, ClosedInv, IsEnabled, Unopened
<1>7. FilesFollowStreams
  BY DEF FilesFollowStreams, Unopened
<1> QED
  BY <1>2, <1>3, <1>4, <1>5, <1>6, <1>7 DEF IInv

\* The threads registered are threads.
LEMMA RegisteredAreThreads == TypeOK => ToSet(registered) \subseteq Threads
BY DEF TypeOK, ToSet

\* The stream an actor reads is that of a registered thread.
LEMMA StreamOfFact ==
  ASSUME IInv, NEW a \in Actors, toFlush[a] # << >>
  PROVE  /\ Head(toFlush[a]) \in ToSet(registered)
         /\ Head(toFlush[a]) \in Threads
         /\ StreamOf(a) \in Indexes
         /\ StreamOf(a) \in Registrations
         /\ StreamOf(a) = index[Head(toFlush[a])]
         /\ lock = a
<1> USE DEF IInv
<1>1. toFlush[a] \in Seq(Threads) /\ Len(toFlush[a]) > 0
  BY DEF TypeOK
<1>2. Head(toFlush[a]) = toFlush[a][1] /\ 1 \in DOMAIN toFlush[a]
  BY <1>1
<1>3. Head(toFlush[a]) \in ToSet(registered)
  BY <1>2 DEF RegisterInv
<1>4. Head(toFlush[a]) \in Threads
  BY <1>3, RegisteredAreThreads
<1>5. index[Head(toFlush[a])] \in Indexes
  BY <1>3, <1>4 DEF TypeOK, WriterIsSetWhileEnabled
<1> QED
  BY <1>3, <1>4, <1>5 DEF StreamOf, Registrations, LockInv

\* Steps that touch no file, registration or backend leave what is said of them.
LEMMA FilesFrame ==
  ASSUME IInv, UNCHANGED <<registered, nextIndex, index, backends, files>>,
         \A i \in Indexes : stream'[i].taken = stream[i].taken
  PROVE  /\ OpenWhileRegistered'
         /\ FreshInv'
         /\ ClosedInv'
         /\ FilesFollowStreams'
BY DEF IInv, OpenWhileRegistered, FreshInv, ClosedInv, FilesFollowStreams, IsEnabled,
       Registrations
-----------------------------------------------------------------------------
(* The flushing thread.                                                    *)

LEMMA FlusherStep ==
  ASSUME IInv,
         \/ StartFlushingThread \/ FlusherLocks \/ FlusherWaits
         \/ SpuriousWakeUp \/ BeginStop \/ EndStop
  PROVE  IInv'
<1> USE ThreadsAssumption
    DEF IInv, StartFlushingThread, FlusherLocks, FlusherWaits, SpuriousWakeUp, BeginStop,
        EndStop, FlusherMayLock, WokenByStop, Notified
<1>1. UNCHANGED <<registered, nextIndex, index, backends, hasWriter, files, stream, pc>>
  BY DEF regVars, backendVars
<1>2. \/ UNCHANGED <<lock, toFlush>>
      \/ lock = Free /\ lock' = Flusher /\ toFlush' = [toFlush EXCEPT ![Flusher] = registered]
      \/ lock = Flusher /\ lock' = Free /\ toFlush[Flusher] = << >> /\ UNCHANGED toFlush
  BY DEF lockVars, LockInv
<1>3. TypeOK'
  <2>1. /\ flusher' \in {"none", "entering", "flushing", "waiting", "ended"}
        /\ stopFlushing' \in BOOLEAN
    BY DEF TypeOK, flusherVars
  <2>2. lock' \in {Free} \cup Actors /\ toFlush' \in [Actors -> Seq(Threads)]
    BY <1>2 DEF TypeOK
  <2> QED
    BY <1>1, <2>1, <2>2 DEF TypeOK
<1>4. LockInv'
  BY <1>1, <1>2 DEF LockInv, TypeOK, lockVars
<1>5. WriterIsSetWhileEnabled'
  BY <1>1 DEF WriterIsSetWhileEnabled
<1>6. RegisterInv'
  BY <1>1, <1>2 DEF RegisterInv, ToSet, TypeOK
<1>7. UnregisterInv'
  BY <1>1, <1>2 DEF UnregisterInv, Drained, TypeOK
<1> QED
  BY <1>1, <1>3, <1>4, <1>5, <1>6, <1>7, FilesFrame
-----------------------------------------------------------------------------
(* A thread writes, commits and asks for a flush.                          *)

LEMMA WriterStep ==
  ASSUME IInv, NEW t \in Threads,
         LoadWriter(t) \/ WriteByte(t) \/ CommitEvent(t) \/ FlushAsync(t)
  PROVE  IInv'
<1> USE ThreadsAssumption
    DEF IInv, LoadWriter, WriteByte, CommitEvent, FlushAsync, BetweenEvents, Notified,
        Complete
<1>1. UNCHANGED <<registered, nextIndex, index, backends, hasWriter, files, lock, toFlush>>
  BY DEF regVars, backendVars, lockVars
<1>2. /\ pc[t] \in {"idle", "writing", "written"}
      /\ \E s \in {"idle", "writing", "written"} : pc' = [pc EXCEPT ![t] = s]
  BY DEF TypeOK
<1>3. /\ flusher' \in {"none", "entering", "flushing", "waiting", "ended"}
      /\ flusher' = "flushing" <=> flusher = "flushing"
      /\ stopFlushing' = stopFlushing
  BY DEF TypeOK, flusherVars
<1>4. pc'[t] = "writing" => index[t] # NoIndex
  BY <1>2 DEF WriterIsSetWhileEnabled, TypeOK
<1>5. \/ stream' = stream
      \/ /\ pc[t] = "writing" /\ index[t] \in Indexes
         /\ \/ /\ stream[index[t]].appended # stream[index[t]].committed + EventSize
               /\ stream' = [stream EXCEPT ![index[t]].appended = @ + 1]
            \/ stream' = [stream EXCEPT ![index[t]].committed = stream[index[t]].appended]
  BY DEF WriterIsSetWhileEnabled, TypeOK
<1>5a. /\ stream' \in [Indexes -> [appended : Nat, committed : Nat, taken : Nat]]
       /\ \A i \in Indexes :
             /\ stream'[i].appended \in stream'[i].committed .. stream'[i].committed + EventSize
             /\ stream'[i].taken = stream[i].taken
             /\ pc[t] # "writing" \/ i # index[t] => stream'[i] = stream[i]
  <2> HIDE DEF LoadWriter, WriteByte, CommitEvent, FlushAsync
  <2>1. stream \in [Indexes -> [appended : Nat, committed : Nat, taken : Nat]]
    BY DEF TypeOK
  <2>2. \A i \in Indexes :
           stream[i].appended \in stream[i].committed .. stream[i].committed + EventSize
    BY DEF TypeOK
  <2> DEFINE i == index[t]
  <2>3. CASE stream' = stream
    BY <2>1, <2>2, <2>3
  <2>4. CASE stream' = [stream EXCEPT ![i] = [stream[i] EXCEPT !.appended = @ + 1]]
             /\ pc[t] = "writing" /\ i \in Indexes
             /\ stream[i].appended # stream[i].committed + EventSize
    <3> HIDE DEF i
    <3>1. \A j \in Indexes \ {i} : stream'[j] = stream[j]
      BY <2>1, <2>4
    <3>2. stream'[i] = [appended |-> stream[i].appended + 1, committed |-> stream[i].committed,
                        taken |-> stream[i].taken]
      BY <2>1, <2>4
    <3>3. stream'[i].appended \in stream'[i].committed .. stream'[i].committed + EventSize
      BY <2>1, <2>2, <2>4, <3>2
    <3> QED
      BY <2>1, <2>2, <2>4, <3>1, <3>2, <3>3 DEF i
  <2>5. CASE stream' = [stream EXCEPT ![i] = [stream[i] EXCEPT !.committed = stream[i].appended]]
             /\ pc[t] = "writing" /\ i \in Indexes
    <3> HIDE DEF i
    <3>1. \A j \in Indexes \ {i} : stream'[j] = stream[j]
      BY <2>1, <2>5
    <3>2. stream'[i] = [appended |-> stream[i].appended, committed |-> stream[i].appended,
                        taken |-> stream[i].taken]
      BY <2>1, <2>5
    <3>3. stream'[i].appended \in stream'[i].committed .. stream'[i].committed + EventSize
      BY <2>1, <2>5, <3>2
    <3> QED
      BY <2>1, <2>2, <2>5, <3>1, <3>2, <3>3 DEF i
  <2> QED
    BY <1>5, <2>3, <2>4, <2>5
<1>6. TypeOK'
  BY <1>1, <1>2, <1>3, <1>5a DEF TypeOK
<1>7. LockInv'
  BY <1>1, <1>2, <1>3 DEF LockInv, TypeOK
<1>8. WriterIsSetWhileEnabled'
  BY <1>1, <1>2, <1>4 DEF WriterIsSetWhileEnabled, TypeOK
<1>9. RegisterInv'
  BY <1>1, <1>2 DEF RegisterInv, TypeOK
<1>10. UnregisterInv'
  <2> SUFFICES ASSUME NEW u \in Threads, pc'[u] = "unregistering", backends' # {}
               PROVE  toFlush'[u] = <<u>> \/ (toFlush'[u] = << >> /\ Drained(index[u])')
    BY <1>1 DEF UnregisterInv
  <2>1. u # t /\ pc[u] = "unregistering"
    BY <1>2 DEF TypeOK
  <2>2. index[u] \in Indexes /\ stream'[index[u]] = stream[index[u]]
    BY <1>5a, <2>1 DEF TypeOK, RegisterInv
  <2> QED
    BY <1>1, <2>1, <2>2 DEF UnregisterInv, Drained
<1> QED
  BY <1>1, <1>5a, <1>6, <1>7, <1>8, <1>9, <1>10, FilesFrame
-----------------------------------------------------------------------------
(* Flushing.                                                               *)

LEMMA FlushSyncStep ==
  ASSUME IInv, NEW t \in Threads, BeginFlushSync(t) \/ EndFlushSync(t)
  PROVE  IInv'
<1> USE ThreadsAssumption DEF IInv, BeginFlushSync, EndFlushSync, BetweenEvents
<1>1. UNCHANGED <<registered, nextIndex, index, backends, hasWriter, files, stream,
                  flusher, stopFlushing>>
  BY DEF regVars, backendVars, flusherVars
<1>2. \/ /\ pc[t] \in {"idle", "written"} /\ pc' = [pc EXCEPT ![t] = "flushing"]
         /\ lock = Free /\ lock' = t /\ toFlush' = [toFlush EXCEPT ![t] = registered]
      \/ /\ pc[t] = "flushing" /\ pc' = [pc EXCEPT ![t] = "idle"]
         /\ lock = t /\ lock' = Free /\ toFlush[t] = << >> /\ toFlush' = toFlush
  OBVIOUS
<1>3. TypeOK'
  <2>0. registered \in Seq(Threads) /\ toFlush \in [Actors -> Seq(Threads)] /\ t \in Actors
    BY DEF TypeOK
  <2>1. lock' \in {Free} \cup Actors /\ toFlush' \in [Actors -> Seq(Threads)]
    <3>1. lock' \in {Free} \cup Actors
      BY <1>2
    <3>2. toFlush' \in [Actors -> Seq(Threads)]
      BY ONLY <1>2, <2>0
    <3> QED
      BY <3>1, <3>2
  <2>2. pc' \in [Threads ->
              {"idle", "writing", "written", "flushing", "unregistering"}]
    BY <1>2 DEF TypeOK
  <2> QED
    BY <1>1, <2>1, <2>2 DEF TypeOK
<1>4. LockInv'
  BY <1>1, <1>2 DEF LockInv, TypeOK
<1>5. WriterIsSetWhileEnabled'
  BY <1>1, <1>2 DEF WriterIsSetWhileEnabled, TypeOK
<1>6. RegisterInv'
  BY <1>1, <1>2 DEF RegisterInv, ToSet, TypeOK
<1>7. UnregisterInv'
  BY <1>1, <1>2 DEF UnregisterInv, Drained, TypeOK
<1> QED
  BY <1>1, <1>3, <1>4, <1>5, <1>6, <1>7, FilesFrame

\* Consecutive bytes up to and including byte n.
UpTo(s, n) ==
    /\ \A k \in 1 .. Len(s) - 1 : s[k + 1] = s[k] + 1
    /\ s # << >> => s[Len(s)] = n

\* The bytes after byte n0 up to byte n.
IsPiece(s, n0, n) ==
    /\ s \in Seq(Nat)
    /\ Len(s) = n - n0
    /\ \A k \in 1 .. n - n0 : s[k] = n0 + k

\* A piece that follows the last byte given continues what was given.
LEMMA Continued ==
  ASSUME NEW data \in Seq(Nat), NEW from \in Nat, NEW n \in Nat, n > from,
         UpTo(data, from), NEW bytes, IsPiece(bytes, from, n)
  PROVE  data \o bytes \in Seq(Nat) /\ UpTo(data \o bytes, n)
<1> USE DEF UpTo, IsPiece
<1> DEFINE more == data \o bytes
           m == Len(data)
           l == n - from
<1>1. /\ more \in Seq(Nat)
      /\ Len(more) = Len(data) + Len(bytes)
      /\ \A k \in 1 .. Len(data) + Len(bytes) :
            more[k] = IF k <= Len(data) THEN data[k] ELSE bytes[k - Len(data)]
  BY ConcatProperties
<1>2. m \in Nat /\ l \in Nat /\ l > 0 /\ Len(bytes) = l /\ from + l = n
  OBVIOUS
<1>3. Len(more) = m + l
  BY <1>1, <1>2
<1>4. m > 0 => data[m] = from
  OBVIOUS
<1> HIDE DEF more, m, l
<1>5. ASSUME NEW k \in 1 .. m
      PROVE  more[k] = data[k]
  <2>1. k \in 1 .. m + l /\ k <= m
    BY ONLY <1>2, k \in 1 .. m
  <2> QED
    BY ONLY <1>1, <1>2, <2>1 DEF m
<1>6. ASSUME NEW k \in 1 .. l
      PROVE  more[m + k] = from + k
  <2>1. m + k \in 1 .. m + l /\ ~(m + k <= m) /\ (m + k) - m = k
    BY ONLY <1>2, k \in 1 .. l
  <2>2. more[m + k] = bytes[k]
    BY ONLY <1>1, <1>2, <2>1 DEF m
  <2> QED
    BY <2>2 DEF l
<1>7. ASSUME NEW k \in 1 .. (m + l) - 1
      PROVE  more[k + 1] = more[k] + 1
  <2>1. CASE k < m
    <3>1. k \in 1 .. m /\ k + 1 \in 1 .. m /\ k \in 1 .. m - 1
      BY ONLY <1>2, <2>1, k \in 1 .. (m + l) - 1
    <3> QED
      BY <1>5, <3>1 DEF m
  <2>2. CASE k = m
    <3>1. m \in 1 .. m /\ 1 \in 1 .. l /\ m > 0
      BY ONLY <1>2, <2>2, k \in 1 .. (m + l) - 1
    <3>2. more[m] = from /\ more[m + 1] = from + 1
      BY ONLY <1>4, <1>5, <1>6, <3>1
    <3> QED
      BY <2>2, <3>2
  <2>3. CASE k > m
    <3> DEFINE j == k - m
    <3>1. j \in 1 .. l /\ j + 1 \in 1 .. l /\ k = m + j /\ k + 1 = m + (j + 1)
      BY ONLY <1>2, <2>3, k \in 1 .. (m + l) - 1
    <3> HIDE DEF j
    <3>2. more[k] = from + j /\ more[k + 1] = from + (j + 1)
      BY ONLY <1>6, <3>1
    <3> QED
      BY <3>1, <3>2
  <2> QED
    BY <1>2, <2>1, <2>2, <2>3
<1>8. more[Len(more)] = n
  BY <1>2, <1>3, <1>6
<1> QED
  BY <1>1, <1>3, <1>7, <1>8 DEF more

LEMMA TakeBytesStep ==
  ASSUME IInv, NEW a \in Actors, Take(a)
  PROVE  IInv'
<1> DEFINE i == StreamOf(a)
<1> USE ThreadsAssumption DEF IInv
<1>1. /\ i \in Indexes /\ i \in Registrations /\ lock = a
      /\ toFlush[a] # << >>
  BY StreamOfFact DEF Take
<1>2. PICK n \in {stream[i].committed, stream[i].appended} :
        /\ n > stream[i].taken
        /\ files' = Written(i, n)
        /\ stream' = [stream EXCEPT ![i].taken = n]
  BY DEF Take
<1>3. UNCHANGED <<registered, nextIndex, index, backends, hasWriter, lock, toFlush,
                  flusher, stopFlushing, pc>>
  BY DEF Take, regVars, lockVars, flusherVars
<1> HIDE DEF i
<1>4. stream \in [Indexes -> [appended : Nat, committed : Nat, taken : Nat]]
  BY DEF TypeOK
<1>5. n \in Nat /\ stream[i].taken \in Nat
  BY <1>1, <1>4
<1>6. /\ \A j \in Indexes \ {i} : stream'[j] = stream[j]
      /\ stream'[i] = [appended |-> stream[i].appended, committed |-> stream[i].committed,
                       taken |-> n]
      /\ stream' \in [Indexes -> [appended : Nat, committed : Nat, taken : Nat]]
  BY <1>1, <1>2, <1>4, <1>5
<1>7. files \in [Backends -> [Indexes ->
            [phase : {"unopened", "open", "closed"}, data : Seq(Nat)]]]
  BY DEF TypeOK
<1>8. ASSUME NEW b \in Backends
      PROVE  /\ b \notin backends => files'[b] = files[b]
             /\ b \in backends =>
                  /\ \A j \in Indexes \ {i} : files'[b][j] = files[b][j]
                  /\ files'[b][i].phase = files[b][i].phase
                  /\ files[b][i].phase = "open"
                  /\ files'[b][i].data \in Seq(Nat)
                  /\ UpTo(files'[b][i].data, n)
                  /\ files'[b] \in [Indexes ->
                        [phase : {"unopened", "open", "closed"}, data : Seq(Nat)]]
  <2>1. CASE b \notin backends
    BY <1>2, <2>1 DEF Written, Receivers
  <2>2. CASE b \in backends
    <3> DEFINE bytes == [k \in 1 .. n - stream[i].taken |-> stream[i].taken + k]
               more == files[b][i].data \o bytes
    <3>1. files'[b] = [files[b] EXCEPT ![i].data = more]
      BY <1>2, <2>2 DEF Written, Receivers
    <3>2. files[b][i].phase = "open"
      BY <1>1, <2>2 DEF OpenWhileRegistered, IsEnabled
    <3>3. more \in Seq(Nat) /\ UpTo(more, n)
      <4>1. files[b][i].data \in Seq(Nat)
        BY <1>1, <1>7
      <4>2. UpTo(files[b][i].data, stream[i].taken)
        BY <1>1, <3>2 DEF FilesFollowStreams, Last, UpTo
      <4>3. n > stream[i].taken
        BY <1>2
      <4>4. IsPiece(bytes, stream[i].taken, n)
        BY <1>5, <4>3, IsASeq DEF IsPiece
      <4> HIDE DEF bytes
      <4> QED
        BY ONLY <1>5, <4>1, <4>2, <4>3, <4>4, Continued
    <3> HIDE DEF more
    <3>4. /\ \A j \in Indexes \ {i} : files'[b][j] = files[b][j]
          /\ files'[b][i] = [phase |-> files[b][i].phase, data |-> more]
          /\ files'[b] \in [Indexes ->
                [phase : {"unopened", "open", "closed"}, data : Seq(Nat)]]
      <4>1. files[b] \in [Indexes ->
                [phase : {"unopened", "open", "closed"}, data : Seq(Nat)]]
        BY <1>7
      <4>2. files'[b] = [files[b] EXCEPT ![i] = [files[b][i] EXCEPT !.data = more]]
        BY <3>1
      <4>3. [files[b][i] EXCEPT !.data = more] = [phase |-> files[b][i].phase, data |-> more]
        <5>1. files[b][i] \in [phase : {"unopened", "open", "closed"}, data : Seq(Nat)]
          BY <1>1, <4>1
        <5> QED
          BY ONLY <5>1
      <4>4. [phase |-> files[b][i].phase, data |-> more]
                \in [phase : {"unopened", "open", "closed"}, data : Seq(Nat)]
        BY <1>1, <3>3, <4>1
      <4>5. files'[b] \in [Indexes ->
                [phase : {"unopened", "open", "closed"}, data : Seq(Nat)]]
        BY <4>1, <4>2, <4>3, <4>4
      <4>6. \A j \in Indexes \ {i} : files'[b][j] = files[b][j]
        BY <4>1, <4>2
      <4>7. files'[b][i] = [phase |-> files[b][i].phase, data |-> more]
        BY <1>1, <4>1, <4>2, <4>3
      <4> QED
        BY <4>5, <4>6, <4>7
    <3> QED
      BY <2>2, <3>2, <3>3, <3>4
  <2> QED
    BY <2>1, <2>2
<1>9. TypeOK'
  <2>1. files' \in [Backends -> [Indexes ->
            [phase : {"unopened", "open", "closed"}, data : Seq(Nat)]]]
    <3>1. \A b \in Backends : files'[b] \in [Indexes ->
            [phase : {"unopened", "open", "closed"}, data : Seq(Nat)]]
      BY <1>7, <1>8
    <3>2. files' = [b \in Backends |-> files'[b]]
      BY <1>2 DEF Written
    <3> QED
      BY <3>1, <3>2
  <2>2. \A j \in Indexes :
          stream'[j].appended \in stream'[j].committed .. stream'[j].committed + EventSize
    BY <1>1, <1>6 DEF TypeOK
  <2> QED
    BY <1>3, <1>6, <2>1, <2>2 DEF TypeOK
<1>10. LockInv' /\ WriterIsSetWhileEnabled' /\ RegisterInv'
  BY <1>3 DEF LockInv, WriterIsSetWhileEnabled, RegisterInv
<1>11. UnregisterInv'
  <2> SUFFICES ASSUME NEW u \in Threads, pc[u] = "unregistering", backends # {}
               PROVE  toFlush[u] = <<u>> \/ (toFlush[u] = << >> /\ Drained(index[u])')
    BY <1>3 DEF UnregisterInv
  <2>1. u = a
    BY <1>1 DEF LockInv
  <2>2. toFlush[u] = <<u>>
    BY <1>1, <2>1 DEF UnregisterInv
  <2> QED
    BY <2>2
<1>12. OpenWhileRegistered' /\ FreshInv' /\ ClosedInv'
  <2>1. Registrations' = Registrations
    BY <1>3 DEF Registrations
  <2>2. i < nextIndex
    BY <1>1, RegisteredAreThreads DEF Registrations, RegisterInv
  <2>3. \A b \in Backends, j \in Indexes : files'[b][j].phase = files[b][j].phase
    BY <1>8
  <2>4. OpenWhileRegistered'
    BY <1>3, <2>1, <2>3 DEF OpenWhileRegistered, IsEnabled
  <2>5. FreshInv'
    BY <1>1, <1>3, <1>8, <2>2 DEF FreshInv, TypeOK
  <2>6. ClosedInv'
    <3> SUFFICES ASSUME NEW b \in Backends, NEW j \in Indexes, files'[b][j].phase # "open"
                 PROVE  files'[b][j].data = << >>
      BY DEF ClosedInv
    <3>1. ~(b \in backends /\ j = i)
      BY <1>1, <1>8, <2>3
    <3>2. files'[b][j] = files[b][j]
      BY <1>8, <3>1
    <3> QED
      BY <3>2 DEF ClosedInv
  <2> QED
    BY <2>4, <2>5, <2>6
<1>13. FilesFollowStreams'
  <2> SUFFICES ASSUME NEW b \in Backends, NEW j \in Indexes
               PROVE  /\ \A k \in 1 .. Len(files'[b][j].data) - 1 :
                            files'[b][j].data[k + 1] = files'[b][j].data[k] + 1
                      /\ files'[b][j].data # << >> /\ files'[b][j].phase = "open" =>
                            Last(files'[b][j].data) = stream'[j].taken
    BY DEF FilesFollowStreams
  <2>1. CASE b \in backends /\ j = i
    BY <1>6, <1>8, <2>1 DEF UpTo, Last
  <2>2. CASE j # i
    BY <1>6, <1>8, <2>2 DEF FilesFollowStreams
  <2>3. CASE b \notin backends
    BY <1>6, <1>8, <2>3 DEF FilesFollowStreams, OpenWhileRegistered, IsEnabled
  <2> QED
    BY <2>1, <2>2, <2>3
<1> QED
  BY <1>9, <1>10, <1>11, <1>12, <1>13

LEMMA EndTakeStep ==
  ASSUME IInv, NEW a \in Actors, EndTake(a)
  PROVE  IInv'
<1> USE ThreadsAssumption DEF IInv
<1>1. UNCHANGED <<registered, nextIndex, index, backends, hasWriter, files, stream, lock,
                  flusher, stopFlushing, pc>>
  BY DEF EndTake, regVars, backendVars, flusherVars
<1>2. /\ toFlush[a] # << >> /\ Drained(StreamOf(a))
      /\ toFlush' = [toFlush EXCEPT ![a] = Tail(@)]
      /\ toFlush[a] \in Seq(Threads) /\ lock = a
  BY StreamOfFact DEF EndTake, TypeOK
<1>3. /\ Tail(toFlush[a]) \in Seq(Threads)
      /\ \A k \in DOMAIN Tail(toFlush[a]) :
            k + 1 \in DOMAIN toFlush[a] /\ Tail(toFlush[a])[k] = toFlush[a][k + 1]
  BY <1>2, HeadTailProperties
<1>4. TypeOK'
  BY <1>1, <1>2, <1>3 DEF TypeOK
<1>5. LockInv'
  BY <1>1, <1>2 DEF LockInv, TypeOK
<1>6. WriterIsSetWhileEnabled'
  BY <1>1 DEF WriterIsSetWhileEnabled
<1>7. RegisterInv'
  BY <1>1, <1>2, <1>3 DEF RegisterInv, TypeOK
<1>8. UnregisterInv'
  <2> SUFFICES ASSUME NEW u \in Threads, pc[u] = "unregistering", backends # {}
               PROVE  toFlush'[u] = <<u>> \/ (toFlush'[u] = << >> /\ Drained(index[u])')
    BY <1>1 DEF UnregisterInv
  <2>1. u = a /\ toFlush[u] = <<u>>
    BY <1>2 DEF LockInv, UnregisterInv
  <2>2. toFlush'[u] = Tail(<<u>>)
    BY <1>2, <2>1 DEF TypeOK
  <2>3. Drained(index[u])'
    BY <1>1, <1>2, <2>1 DEF StreamOf, Drained
  <2> QED
    BY <2>2, <2>3
<1> QED
  BY <1>1, <1>4, <1>5, <1>6, <1>7, <1>8, FilesFrame
-----------------------------------------------------------------------------
(* Backends and threads come and go.                                       *)

\* Files of backends bs for streams is begin or end: Begin and End in one.
Emptied(bs, is, p) ==
    [b \in Backends |-> [i \in Indexes |->
        IF b \in bs /\ i \in is THEN [phase |-> p, data |-> << >>] ELSE files[b][i]]]

\* What it takes of a step that begins or ends files to keep what is said of files.
LEMMA FilesBeginOrEnd ==
  ASSUME IInv, NEW bs, NEW is, NEW p \in {"open", "closed"},
         files' = Emptied(bs, is, p),
         \A i \in Indexes : i >= nextIndex \/ stream'[i].taken = stream[i].taken,
         nextIndex' >= nextIndex /\ nextIndex' \in Nat,
         \A i \in Indexes : i \in is => i < nextIndex'
  PROVE  /\ files' \in [Backends -> [Indexes ->
                [phase : {"unopened", "open", "closed"}, data : Seq(Nat)]]]
         /\ \A b \in Backends, i \in Indexes :
               files'[b][i].phase = IF b \in bs /\ i \in is THEN p ELSE files[b][i].phase
         /\ FreshInv' /\ ClosedInv' /\ FilesFollowStreams'
<1> USE DEF IInv
<1>1. files \in [Backends -> [Indexes ->
          [phase : {"unopened", "open", "closed"}, data : Seq(Nat)]]]
  BY DEF TypeOK
<1>2. \A b \in Backends, i \in Indexes :
         files'[b][i] = IF b \in bs /\ i \in is THEN [phase |-> p, data |-> << >>]
                                                ELSE files[b][i]
  BY DEF Emptied
<1>3. files' \in [Backends -> [Indexes ->
          [phase : {"unopened", "open", "closed"}, data : Seq(Nat)]]]
  <2>1. [phase |-> p, data |-> << >>]
            \in [phase : {"unopened", "open", "closed"}, data : Seq(Nat)]
    OBVIOUS
  <2> QED
    BY <1>1, <2>1 DEF Emptied
<1>4. \A b \in Backends, i \in Indexes :
         files'[b][i].phase = IF b \in bs /\ i \in is THEN p ELSE files[b][i].phase
  BY <1>2
<1>5. ClosedInv'
  BY <1>2 DEF ClosedInv
<1>6. nextIndex \in Nat
  BY TracingAssumption DEF TypeOK
<1>7. FreshInv'
  BY <1>2, <1>6 DEF FreshInv
<1>8. FilesFollowStreams'
  <2> SUFFICES ASSUME NEW b \in Backends, NEW i \in Indexes
               PROVE  /\ \A k \in 1 .. Len(files'[b][i].data) - 1 :
                            files'[b][i].data[k + 1] = files'[b][i].data[k] + 1
                      /\ files'[b][i].data # << >> /\ files'[b][i].phase = "open" =>
                            Last(files'[b][i].data) = stream'[i].taken
    BY DEF FilesFollowStreams
  <2>1. CASE files'[b][i].data = << >>
    BY <2>1
  <2>2. CASE files'[b][i].data # << >>
    <3>1. files'[b][i] = files[b][i] /\ ~(b \in bs /\ i \in is)
      BY <1>2, <2>2
    <3>2. stream'[i].taken = stream[i].taken
      BY <2>2, <3>1 DEF FreshInv, Unopened
    <3> QED
      BY <3>1, <3>2 DEF FilesFollowStreams
  <2> QED
    BY <2>1, <2>2
<1> QED
  BY <1>3, <1>4, <1>5, <1>7, <1>8

\* With state_ free, nobody flushes and nobody unregisters.
LEMMA FreeFacts ==
  ASSUME IInv, lock = Free
  PROVE  /\ \A t \in Threads : pc[t] \notin {"flushing", "unregistering"}
         /\ \A a \in Actors : toFlush[a] = << >>
BY ThreadsAssumption DEF IInv, LockInv

LEMMA RegistrationsFact ==
  ASSUME IInv
  PROVE  \A i \in Registrations : i \in Indexes /\ i < nextIndex
<1> SUFFICES ASSUME NEW t \in ToSet(registered)
             PROVE  index[t] \in Indexes /\ index[t] < nextIndex
  BY DEF Registrations
<1>1. t \in Threads
  BY RegisteredAreThreads DEF IInv
<1> QED
  BY <1>1 DEF IInv, TypeOK, WriterIsSetWhileEnabled, RegisterInv

LEMMA EnableBackendStep ==
  ASSUME IInv, NEW b \in Backends, EnableBackend(b)
  PROVE  IInv'
<1> USE ThreadsAssumption DEF IInv
<1>1. UNCHANGED <<registered, nextIndex, index, lock, toFlush, flusher, stopFlushing,
                  stream, pc>>
  BY DEF EnableBackend, regVars, lockVars, flusherVars
<1>2. /\ lock = Free
      /\ backends' = backends \cup {b}
      /\ files' = Begin({b}, Registrations)
      /\ hasWriter' = [t \in Threads |-> hasWriter[t] \/ t \in ToSet(registered)]
  BY DEF EnableBackend
<1>3. files' = Emptied({b}, Registrations, "open")
  BY <1>2 DEF Begin, Emptied
<1>4. nextIndex \in Nat
  BY TracingAssumption DEF TypeOK
<1>5. /\ files' \in [Backends -> [Indexes ->
                [phase : {"unopened", "open", "closed"}, data : Seq(Nat)]]]
      /\ \A c \in Backends, i \in Indexes :
               files'[c][i].phase = IF c \in {b} /\ i \in Registrations
                                    THEN "open" ELSE files[c][i].phase
      /\ FreshInv' /\ ClosedInv' /\ FilesFollowStreams'
  <2>1. \A i \in Indexes : i >= nextIndex \/ stream'[i].taken = stream[i].taken
    BY <1>1
  <2>2. nextIndex' >= nextIndex /\ nextIndex' \in Nat
    BY <1>1, <1>4
  <2>3. \A i \in Indexes : i \in Registrations => i < nextIndex'
    BY <1>1, RegistrationsFact
  <2> HIDE DEF IInv
  <2> QED
    BY <1>3, <2>1, <2>2, <2>3, FilesBeginOrEnd
<1>6. TypeOK'
  <2>1. hasWriter' \in [Threads -> BOOLEAN]
    BY <1>2 DEF TypeOK
  <2>2. backends' \subseteq Backends
    BY <1>2 DEF TypeOK
  <2> QED
    BY <1>1, <1>5, <2>1, <2>2 DEF TypeOK
<1>7. LockInv' /\ RegisterInv'
  BY <1>1 DEF LockInv, RegisterInv
<1>8. WriterIsSetWhileEnabled'
  BY <1>1, <1>2 DEF WriterIsSetWhileEnabled
<1>9. UnregisterInv'
  BY <1>1, <1>2, FreeFacts DEF UnregisterInv
<1>10. OpenWhileRegistered'
  <2>1. Registrations' = Registrations
    BY <1>1 DEF Registrations
  <2>2. \A i \in Indexes : files[b][i].phase = "unopened"
    BY DEF EnableBackend, Unopened
  <2> SUFFICES ASSUME NEW c \in Backends, NEW i \in Indexes
               PROVE  files'[c][i].phase = "open" <=> c \in backends' /\ i \in Registrations
    BY <2>1 DEF OpenWhileRegistered, IsEnabled
  <2>3. files[c][i].phase = "open" <=> c \in backends /\ i \in Registrations
    BY DEF OpenWhileRegistered, IsEnabled
  <2> QED
    BY <1>2, <1>5, <2>2, <2>3
<1> QED
  BY <1>5, <1>6, <1>7, <1>8, <1>9, <1>10

LEMMA DisableBackendStep ==
  ASSUME IInv, NEW b \in Backends, DisableBackend(b)
  PROVE  IInv'
<1> USE ThreadsAssumption DEF IInv
<1>1. UNCHANGED <<registered, nextIndex, index, lock, toFlush, flusher, stopFlushing,
                  stream, pc>>
  BY DEF DisableBackend, regVars, lockVars, flusherVars
<1>2. /\ lock = Free
      /\ b \in backends
      /\ backends' = backends \ {b}
      /\ files' = End({b}, Registrations)
      /\ hasWriter' = WritersWith(backends')
  BY DEF DisableBackend, IsEnabled
<1>3. files' = Emptied({b}, Registrations, "closed")
  BY <1>2 DEF End, Emptied, Closed
<1>4. nextIndex \in Nat
  BY TracingAssumption DEF TypeOK
<1>5. /\ files' \in [Backends -> [Indexes ->
                [phase : {"unopened", "open", "closed"}, data : Seq(Nat)]]]
      /\ \A c \in Backends, i \in Indexes :
               files'[c][i].phase = IF c \in {b} /\ i \in Registrations
                                    THEN "closed" ELSE files[c][i].phase
      /\ FreshInv' /\ ClosedInv' /\ FilesFollowStreams'
  <2>1. \A i \in Indexes : i >= nextIndex \/ stream'[i].taken = stream[i].taken
    BY <1>1
  <2>2. nextIndex' >= nextIndex /\ nextIndex' \in Nat
    BY <1>1, <1>4
  <2>3. \A i \in Indexes : i \in Registrations => i < nextIndex'
    BY <1>1, RegistrationsFact
  <2> HIDE DEF IInv
  <2> QED
    BY <1>3, <2>1, <2>2, <2>3, FilesBeginOrEnd
<1>6. TypeOK'
  <2>1. hasWriter' \in [Threads -> BOOLEAN]
    BY <1>2 DEF TypeOK, WritersWith
  <2>2. backends' \subseteq Backends
    BY <1>2 DEF TypeOK
  <2> QED
    BY <1>1, <1>5, <2>1, <2>2 DEF TypeOK
<1>7. LockInv' /\ RegisterInv'
  BY <1>1 DEF LockInv, RegisterInv
<1>8. WriterIsSetWhileEnabled'
  BY <1>1, <1>2 DEF WriterIsSetWhileEnabled, WritersWith
<1>9. UnregisterInv'
  BY <1>1, <1>2, FreeFacts DEF UnregisterInv
<1>10. OpenWhileRegistered'
  <2>1. Registrations' = Registrations
    BY <1>1 DEF Registrations
  <2> SUFFICES ASSUME NEW c \in Backends, NEW i \in Indexes
               PROVE  files'[c][i].phase = "open" <=> c \in backends' /\ i \in Registrations
    BY <2>1 DEF OpenWhileRegistered, IsEnabled
  <2>2. files[c][i].phase = "open" <=> c \in backends /\ i \in Registrations
    BY DEF OpenWhileRegistered, IsEnabled
  <2> QED
    BY <1>2, <1>5, <2>2
<1> QED
  BY <1>5, <1>6, <1>7, <1>8, <1>9, <1>10

LEMMA RegisterStep ==
  ASSUME IInv, NEW t \in Threads, RegisterCurrentThread(t)
  PROVE  IInv'
<1> USE ThreadsAssumption DEF IInv
<1> DEFINE n == nextIndex
<1>1. UNCHANGED <<backends, lock, toFlush, flusher, stopFlushing, pc>>
  BY DEF RegisterCurrentThread, lockVars, flusherVars
<1>2. /\ lock = Free /\ pc[t] = "idle" /\ index[t] = NoIndex /\ n \in Indexes
      /\ registered' = Append(registered, t)
      /\ index' = [index EXCEPT ![t] = n]
      /\ nextIndex' = n + 1
      /\ stream' = [stream EXCEPT ![n] = EmptyStream]
      /\ files' = Begin(backends, {n})
      /\ hasWriter' = [hasWriter EXCEPT ![t] = backends # {}]
  BY DEF RegisterCurrentThread, NewIndex
<1>3. files' = Emptied(backends, {n}, "open")
  BY <1>2 DEF Begin, Emptied
<1>4. n \in Nat /\ n \in 1 .. MaxIndex /\ MaxIndex \in Nat
  BY <1>2, TracingAssumption
<1> HIDE DEF n
<1>5. /\ t \notin ToSet(registered)
      /\ registered' \in Seq(Threads)
      /\ IsInjective(registered')
      /\ ToSet(registered') = ToSet(registered) \cup {t}
  <2> DEFINE l == Len(registered)
  <2>0. t \notin ToSet(registered)
    BY <1>2 DEF WriterIsSetWhileEnabled
  <2>1. registered \in Seq(Threads) /\ IsInjective(registered)
    BY DEF TypeOK
  <2>2. /\ registered' \in Seq(Threads)
        /\ Len(registered') = l + 1
        /\ \A k \in 1 .. l : registered'[k] = registered[k]
        /\ registered'[l + 1] = t
    BY ONLY <1>2, <2>1, t \in Threads, AppendProperties
  <2>3. /\ l \in Nat /\ DOMAIN registered = 1 .. l
        /\ DOMAIN registered' = 1 .. l + 1
    BY <2>1, <2>2
  <2> HIDE DEF l
  <2>4. \A k \in 1 .. l : registered[k] # t
    BY <2>0, <2>3 DEF ToSet
  <2>5. 1 .. l + 1 = 1 .. l \cup {l + 1}
    BY <2>3
  <2>6. IsInjective(registered')
    BY ONLY <2>1, <2>2, <2>3, <2>4, <2>5 DEF IsInjective
  <2>7. ToSet(registered') = ToSet(registered) \cup {t}
    BY ONLY <2>2, <2>3, <2>5 DEF ToSet
  <2> QED
    BY <2>0, <2>2, <2>6, <2>7
<1>6. /\ index' \in [Threads -> {NoIndex} \cup Indexes]
      /\ index'[t] = n /\ \A u \in Threads \ {t} : index'[u] = index[u]
      /\ \A u \in Threads : index[u] # n
  <2>1. index \in [Threads -> {NoIndex} \cup Indexes]
    BY DEF TypeOK
  <2>2. \A u \in Threads : index[u] < n
    BY DEF RegisterInv, n
  <2>3. \A u \in Threads : index[u] # n
    BY ONLY <1>4, <2>1, <2>2
  <2> QED
    BY <1>2, <2>1, <2>3
<1>7. Registrations' = Registrations \cup {n}
  <2>1. ToSet(registered) \subseteq Threads \ {t}
    BY <1>5, RegisteredAreThreads
  <2> QED
    BY <1>5, <1>6, <2>1 DEF Registrations
<1>8. n \notin Registrations
  BY <1>6, RegisteredAreThreads DEF Registrations
<1>9. stream' \in [Indexes -> [appended : Nat, committed : Nat, taken : Nat]]
      /\ \A i \in Indexes :
            /\ i # n => stream'[i] = stream[i]
            /\ stream'[i].appended \in stream'[i].committed .. stream'[i].committed + EventSize
  <2>1. stream \in [Indexes -> [appended : Nat, committed : Nat, taken : Nat]]
    BY DEF TypeOK
  <2>2. EmptyStream \in [appended : Nat, committed : Nat, taken : Nat]
        /\ EmptyStream.appended = 0 /\ EmptyStream.committed = 0
    BY DEF EmptyStream
  <2>3. \A i \in Indexes : stream'[i] = IF i = n THEN EmptyStream ELSE stream[i]
    BY <1>2, <2>1
  <2>4. stream' \in [Indexes -> [appended : Nat, committed : Nat, taken : Nat]]
    BY ONLY <1>2, <2>1, <2>2
  <2>5. \A i \in Indexes :
          stream[i].appended \in stream[i].committed .. stream[i].committed + EventSize
    BY DEF TypeOK
  <2> QED
    BY ONLY <2>2, <2>3, <2>4, <2>5 DEF EventSize
<1>10. /\ files' \in [Backends -> [Indexes ->
                [phase : {"unopened", "open", "closed"}, data : Seq(Nat)]]]
       /\ \A c \in Backends, i \in Indexes :
               files'[c][i].phase = IF c \in backends /\ i \in {n}
                                    THEN "open" ELSE files[c][i].phase
       /\ FreshInv' /\ ClosedInv' /\ FilesFollowStreams'
  <2>1. \A i \in Indexes : i >= nextIndex \/ stream'[i].taken = stream[i].taken
    <3>1. n >= nextIndex
      BY <1>4 DEF n
    <3>2. \A i \in Indexes \ {n} : stream'[i] = stream[i]
      BY ONLY <1>9
    <3> QED
      BY ONLY <3>1, <3>2
  <2>2. nextIndex' >= nextIndex /\ nextIndex' \in Nat
    BY <1>2, <1>4 DEF n
  <2>3. \A i \in Indexes : i \in {n} => i < nextIndex'
    BY <1>2, <1>4
  <2> HIDE DEF IInv
  <2> QED
    BY <1>3, <2>1, <2>2, <2>3, FilesBeginOrEnd
<1>11. TypeOK'
  <2>1. hasWriter' \in [Threads -> BOOLEAN]
    BY <1>2 DEF TypeOK
  <2>2. nextIndex' \in 1 .. MaxIndex + 1
    BY <1>2, <1>4
  <2> QED
    BY <1>1, <1>5, <1>6, <1>9, <1>10, <2>1, <2>2 DEF TypeOK
<1>12. LockInv'
  BY <1>1 DEF LockInv
<1>13. WriterIsSetWhileEnabled'
  BY <1>1, <1>2, <1>4, <1>5, <1>6 DEF WriterIsSetWhileEnabled, TypeOK
<1>14. RegisterInv'
  <2>1. \A u \in Threads : index'[u] < nextIndex'
    <3>1. \A u \in Threads : index[u] < n
      BY DEF RegisterInv, n
    <3>2. index \in [Threads -> {NoIndex} \cup Indexes]
      BY DEF TypeOK
    <3> QED
      BY ONLY <1>2, <1>4, <1>6, <3>1, <3>2
  <2>2. \A s, u \in Threads : index'[s] = index'[u] /\ index'[s] # NoIndex => s = u
    BY <1>6 DEF RegisterInv
  <2>3. \A u \in Threads : pc'[u] # "unregistering"
    BY <1>1, <1>2, FreeFacts
  <2>4. \A a \in Actors : toFlush'[a] = << >>
    BY <1>1, <1>2, FreeFacts
  <2> QED
    BY <2>1, <2>2, <2>3, <2>4 DEF RegisterInv
<1>15. UnregisterInv'
  BY <1>1, <1>2, FreeFacts DEF UnregisterInv
<1>16. OpenWhileRegistered'
  <2> SUFFICES ASSUME NEW c \in Backends, NEW i \in Indexes
               PROVE  files'[c][i].phase = "open" <=>
                         c \in backends /\ i \in Registrations \cup {n}
    BY <1>1, <1>7 DEF OpenWhileRegistered, IsEnabled
  <2>1. files[c][i].phase = "open" <=> c \in backends /\ i \in Registrations
    BY DEF OpenWhileRegistered, IsEnabled
  <2> QED
    BY <1>8, <1>10, <2>1
<1> QED
  BY <1>10, <1>11, <1>12, <1>13, <1>14, <1>15, <1>16

LEMMA BeginUnregisterStep ==
  ASSUME IInv, NEW t \in Threads, BeginUnregister(t)
  PROVE  IInv'
<1> USE ThreadsAssumption DEF IInv
<1>1. UNCHANGED <<registered, nextIndex, index, backends, hasWriter, files, stream,
                  flusher, stopFlushing>>
  BY DEF BeginUnregister, regVars, backendVars, flusherVars
<1>2. /\ lock = Free /\ lock' = t
      /\ pc[t] = "idle" /\ pc' = [pc EXCEPT ![t] = "unregistering"]
      /\ index[t] # NoIndex
      /\ toFlush' = [toFlush EXCEPT ![t] = FlushedFirst(t)]
  BY DEF BeginUnregister
<1>3. /\ FlushedFirst(t) \in Seq(Threads)
      /\ backends # {} => FlushedFirst(t) = <<t>>
      /\ \A k \in DOMAIN FlushedFirst(t) : FlushedFirst(t)[k] = t
  BY DEF FlushedFirst
<1>4. t \in ToSet(registered)
  BY <1>2 DEF WriterIsSetWhileEnabled
<1>5. /\ toFlush' \in [Actors -> Seq(Threads)]
      /\ toFlush'[t] = FlushedFirst(t)
      /\ \A a \in Actors \ {t} : toFlush'[a] = << >>
  BY <1>2, <1>3, FreeFacts DEF TypeOK
<1>6. TypeOK'
  <2>1. pc' \in [Threads ->
              {"idle", "writing", "written", "flushing", "unregistering"}]
    BY <1>2 DEF TypeOK
  <2>2. lock' \in {Free} \cup Actors
    BY <1>2
  <2> QED
    BY <1>1, <1>5, <2>1, <2>2 DEF TypeOK
<1>7. LockInv'
  BY <1>1, <1>2, <1>5 DEF LockInv, TypeOK
<1>8. WriterIsSetWhileEnabled'
  BY <1>1, <1>2 DEF WriterIsSetWhileEnabled, TypeOK
<1>9. RegisterInv'
  BY <1>1, <1>2, <1>3, <1>4, <1>5 DEF RegisterInv, TypeOK
<1>10. UnregisterInv'
  <2>1. \A u \in Threads \ {t} : pc'[u] # "unregistering"
    BY <1>2, FreeFacts DEF TypeOK
  <2> QED
    BY <1>1, <1>3, <1>5, <2>1 DEF UnregisterInv
<1> QED
  BY <1>1, <1>6, <1>7, <1>8, <1>9, <1>10, FilesFrame

\* Removing an element of a sequence without repetitions removes it from its set.
LEMMA RemoveAtProperties ==
  ASSUME NEW S, NEW s \in Seq(S), IsInjective(s), NEW k \in DOMAIN s
  PROVE  /\ RemoveAt(s, k) \in Seq(S)
         /\ IsInjective(RemoveAt(s, k))
         /\ ToSet(RemoveAt(s, k)) = ToSet(s) \ {s[k]}
<1> DEFINE l == Len(s)
           left == SubSeq(s, 1, k - 1)
           right == SubSeq(s, k + 1, l)
           r == left \o right
<1>1. l \in Nat /\ k \in 1 .. l /\ DOMAIN s = 1 .. l /\ \A j \in 1 .. l : s[j] \in S
  OBVIOUS
<1>2. /\ left \in Seq(S)
      /\ Len(left) = k - 1
      /\ \A j \in 1 .. k - 1 : left[j] = s[j]
  OBVIOUS
<1>3. /\ right \in Seq(S)
      /\ Len(right) = l - k
      /\ \A j \in 1 .. l - k : right[j] = s[j + k]
  OBVIOUS
<1> HIDE DEF left, right, l
<1>4. /\ r \in Seq(S)
      /\ Len(r) = l - 1
      /\ \A j \in 1 .. l - 1 : r[j] = IF j < k THEN s[j] ELSE s[j + 1]
  <2>1. /\ r \in Seq(S)
        /\ Len(r) = Len(left) + Len(right)
        /\ \A j \in 1 .. Len(left) + Len(right) :
              r[j] = IF j <= Len(left) THEN left[j] ELSE right[j - Len(left)]
    BY <1>2, <1>3, ConcatProperties
  <2> HIDE DEF r
  <2>2. Len(left) + Len(right) = l - 1
    BY <1>1, <1>2, <1>3
  <2>3. ASSUME NEW j \in 1 .. l - 1 PROVE r[j] = IF j < k THEN s[j] ELSE s[j + 1]
    <3>1. CASE j < k
      <4>1. j \in 1 .. k - 1 /\ j <= k - 1
        BY <1>1, <3>1
      <4> QED
        BY <1>2, <2>1, <2>2, <3>1, <4>1
    <3>2. CASE ~(j < k)
      <4>1. j - (k - 1) \in 1 .. l - k /\ (j - (k - 1)) + k = j + 1 /\ ~(j <= k - 1)
        BY <1>1, <3>2
      <4>2. r[j] = right[j - (k - 1)]
        BY <1>2, <2>1, <2>2, <4>1
      <4>3. right[j - (k - 1)] = s[(j - (k - 1)) + k]
        BY <1>3, <4>1
      <4> QED
        BY <3>2, <4>1, <4>2, <4>3
    <3> QED
      BY <3>1, <3>2
  <2> QED
    BY <2>1, <2>2, <2>3
<1> HIDE DEF r
<1>5. DOMAIN r = 1 .. l - 1
  BY <1>1, <1>4
<1>6. \A i, j \in 1 .. l : s[i] = s[j] => i = j
  BY <1>1 DEF IsInjective
<1>7. IsInjective(r)
  <2> SUFFICES ASSUME NEW i \in 1 .. l - 1, NEW j \in 1 .. l - 1, r[i] = r[j] PROVE i = j
    BY <1>5 DEF IsInjective
  <2>1. i \in 1 .. l /\ j \in 1 .. l /\ i + 1 \in 1 .. l /\ j + 1 \in 1 .. l
    BY <1>1
  <2> QED
    BY <1>1, <1>4, <1>6, <2>1
<1>8. ASSUME NEW x \in ToSet(r) PROVE x \in ToSet(s) /\ x # s[k]
  <2>1. PICK j \in 1 .. l - 1 : x = r[j]
    BY <1>5 DEF ToSet
  <2>2. PICK i \in 1 .. l : i # k /\ x = s[i]
    <3>1. j \in 1 .. l /\ j + 1 \in 1 .. l
      BY <1>1
    <3> QED
      BY <1>1, <1>4, <2>1, <3>1
  <2> QED
    BY <1>1, <1>6, <2>2 DEF ToSet
<1>9. ASSUME NEW x \in ToSet(s), x # s[k] PROVE x \in ToSet(r)
  <2>1. PICK j \in 1 .. l : x = s[j]
    BY <1>1 DEF ToSet
  <2>2. CASE j < k
    <3>1. j \in 1 .. l - 1 /\ r[j] = s[j]
      BY <1>1, <1>4, <2>2
    <3> QED
      BY <1>5, <2>1, <3>1 DEF ToSet
  <2>3. CASE j > k
    <3>1. j - 1 \in 1 .. l - 1 /\ ~(j - 1 < k) /\ (j - 1) + 1 = j
      BY <1>1, <2>3
    <3>2. r[j - 1] = s[j]
      BY <1>4, <3>1
    <3> QED
      BY <1>5, <2>1, <3>1, <3>2 DEF ToSet
  <2> QED
    BY <1>1, <1>9, <2>1, <2>2, <2>3
<1>10. RemoveAt(s, k) = r
  BY DEF RemoveAt, r, left, right, l
<1> QED
  BY <1>4, <1>7, <1>8, <1>9, <1>10

LEMMA EndUnregisterStep ==
  ASSUME IInv, NEW t \in Threads, EndUnregister(t)
  PROVE  IInv'
<1> USE ThreadsAssumption DEF IInv
<1> DEFINE n == index[t]
<1>1. UNCHANGED <<nextIndex, backends, toFlush, flusher, stopFlushing, stream>>
  BY DEF EndUnregister, flusherVars
<1>2. /\ lock = t /\ pc[t] = "unregistering" /\ toFlush[t] = << >>
      /\ lock' = Free
      /\ pc' = [pc EXCEPT ![t] = "idle"]
      /\ files' = End(backends, {n})
      /\ index' = [index EXCEPT ![t] = NoIndex]
      /\ hasWriter' = [hasWriter EXCEPT ![t] = FALSE]
  BY DEF EndUnregister
<1>3. files' = Emptied(backends, {n}, "closed")
  BY <1>2 DEF End, Emptied, Closed
<1>4. nextIndex \in Nat
  BY TracingAssumption DEF TypeOK
<1>5. /\ registered' \in Seq(Threads)
      /\ IsInjective(registered')
      /\ ToSet(registered') = ToSet(registered) \ {t}
  <2>1. registered \in Seq(Threads) /\ IsInjective(registered)
    BY DEF TypeOK
  <2>2. PICK k \in DOMAIN registered : registered[k] = t /\ registered' = RemoveAt(registered, k)
    BY DEF EndUnregister
  <2> QED
    BY ONLY <2>1, <2>2, RemoveAtProperties
<1>6. n \in Indexes /\ n < nextIndex /\ t \in ToSet(registered)
  BY <1>2 DEF RegisterInv, WriterIsSetWhileEnabled, TypeOK
<1> HIDE DEF n
<1>7. /\ index' \in [Threads -> {NoIndex} \cup Indexes]
      /\ index'[t] = NoIndex /\ \A u \in Threads \ {t} : index'[u] = index[u]
      /\ \A u \in Threads \ {t} : index[u] # n
  <2>1. n # NoIndex
    BY <1>6
  <2>2. index \in [Threads -> {NoIndex} \cup Indexes]
    BY DEF TypeOK
  <2>3. \A u \in Threads \ {t} : index[u] # n
    BY <2>1 DEF RegisterInv, n
  <2> QED
    BY <1>2, <2>2, <2>3
<1>8. Registrations' = Registrations \ {n}
  <2>1. ToSet(registered) \subseteq Threads
    BY RegisteredAreThreads
  <2>2. Registrations' = {index[u] : u \in ToSet(registered) \ {t}}
    BY <1>5, <1>7, <2>1 DEF Registrations
  <2> QED
    BY <1>7, <2>1, <2>2 DEF Registrations, n
<1>9. /\ files' \in [Backends -> [Indexes ->
                [phase : {"unopened", "open", "closed"}, data : Seq(Nat)]]]
      /\ \A c \in Backends, i \in Indexes :
               files'[c][i].phase = IF c \in backends /\ i \in {n}
                                    THEN "closed" ELSE files[c][i].phase
      /\ FreshInv' /\ ClosedInv' /\ FilesFollowStreams'
  <2>1. \A i \in Indexes : i >= nextIndex \/ stream'[i].taken = stream[i].taken
    BY <1>1
  <2>2. nextIndex' >= nextIndex /\ nextIndex' \in Nat
    BY <1>1, <1>4
  <2>3. \A i \in Indexes : i \in {n} => i < nextIndex'
    BY <1>1, <1>6
  <2> HIDE DEF IInv
  <2> QED
    BY <1>3, <2>1, <2>2, <2>3, FilesBeginOrEnd
<1>10. /\ \A u \in Threads : pc'[u] \notin {"flushing", "unregistering"}
       /\ \A a \in Actors : toFlush'[a] = << >>
       /\ flusher' # "flushing"
  BY <1>1, <1>2 DEF LockInv, TypeOK
<1>11. TypeOK'
  <2>1. hasWriter' \in [Threads -> BOOLEAN]
    BY <1>2 DEF TypeOK
  <2>2. pc' \in [Threads ->
              {"idle", "writing", "written", "flushing", "unregistering"}]
    BY <1>2 DEF TypeOK
  <2>3. lock' \in {Free} \cup Actors
    BY <1>2
  <2> QED
    BY <1>1, <1>5, <1>7, <1>9, <2>1, <2>2, <2>3 DEF TypeOK
<1>12. LockInv'
  BY <1>2, <1>10 DEF LockInv
<1>13. WriterIsSetWhileEnabled'
  BY <1>1, <1>2, <1>5, <1>7 DEF WriterIsSetWhileEnabled, TypeOK
<1>14. RegisterInv'
  <2>1. \A u \in Threads : index'[u] < nextIndex'
    BY <1>1, <1>4, <1>6, <1>7 DEF RegisterInv
  <2>2. \A s, u \in Threads : index'[s] = index'[u] /\ index'[s] # NoIndex => s = u
    BY <1>7 DEF RegisterInv
  <2> QED
    BY <1>10, <2>1, <2>2 DEF RegisterInv
<1>15. UnregisterInv'
  BY <1>10 DEF UnregisterInv
<1>16. OpenWhileRegistered'
  <2> SUFFICES ASSUME NEW c \in Backends, NEW i \in Indexes
               PROVE  files'[c][i].phase = "open" <=>
                         c \in backends /\ i \in Registrations \ {n}
    BY <1>1, <1>8 DEF OpenWhileRegistered, IsEnabled
  <2>1. files[c][i].phase = "open" <=> c \in backends /\ i \in Registrations
    BY DEF OpenWhileRegistered, IsEnabled
  <2> QED
    BY <1>9, <2>1
<1> QED
  BY <1>9, <1>11, <1>12, <1>13, <1>14, <1>15, <1>16
-----------------------------------------------------------------------------
(* Theorems                                                                *)

LEMMA ThreadStep ==
  ASSUME IInv, NEW t \in Threads, ThreadNext(t)
  PROVE  IInv'
<1>1. CASE RegisterCurrentThread(t)
  BY <1>1, RegisterStep
<1>2. CASE BeginUnregister(t)
  BY <1>2, BeginUnregisterStep
<1>3. CASE EndUnregister(t)
  BY <1>3, EndUnregisterStep
<1>4. CASE LoadWriter(t) \/ WriteByte(t) \/ CommitEvent(t) \/ FlushAsync(t)
  BY <1>4, WriterStep
<1>5. CASE BeginFlushSync(t) \/ EndFlushSync(t)
  BY <1>5, FlushSyncStep
<1> QED
  BY <1>1, <1>2, <1>3, <1>4, <1>5 DEF ThreadNext

LEMMA NextIInv == IInv /\ [Next]_vars => IInv'
<1> SUFFICES ASSUME IInv, [Next]_vars PROVE IInv'
  OBVIOUS
<1>1. ASSUME NEW t \in Threads, ThreadNext(t) PROVE IInv'
  BY <1>1, ThreadStep
<1>2. ASSUME NEW b \in Backends, EnableBackend(b) \/ DisableBackend(b) PROVE IInv'
  BY <1>2, EnableBackendStep, DisableBackendStep
<1>3. ASSUME NEW a \in Actors, TakeStep(a) PROVE IInv'
  BY <1>3, TakeBytesStep, EndTakeStep DEF TakeStep
<1>4. CASE \/ StartFlushingThread \/ FlusherLocks \/ FlusherWaits
           \/ SpuriousWakeUp \/ BeginStop \/ EndStop
  BY <1>4, FlusherStep
<1>5. CASE UNCHANGED vars
  <2>1. UNCHANGED <<registered, nextIndex, index, backends, hasWriter, files, lock, toFlush,
                    flusher, stopFlushing, stream, pc>>
    BY <1>5 DEF vars, regVars, backendVars, lockVars, flusherVars
  <2>2. TypeOK'
    BY <2>1 DEF IInv, TypeOK
  <2>3. LockInv' /\ WriterIsSetWhileEnabled' /\ RegisterInv' /\ UnregisterInv'
    BY <2>1 DEF IInv, LockInv, WriterIsSetWhileEnabled, RegisterInv, UnregisterInv, Drained
  <2> QED
    BY <2>1, <2>2, <2>3, FilesFrame DEF IInv
<1> QED
  BY <1>1, <1>2, <1>3, <1>4, <1>5 DEF Next

\* Every reachable state of the flusher, whatever its threads and backends do in
\* whatever order, satisfies the inductive invariant.
THEOREM TraceInvariance == Spec => []IInv
<1>1. Init => IInv
  BY InitIInv
<1>2. IInv /\ [Next]_vars => IInv'
  BY NextIInv
<1> QED
  BY <1>1, <1>2, PTL DEF Spec

\* The state of Trace_Flusher, its threads and backends has the types declared,
\* and no stream ever holds more than one event that is not committed.
THEOREM TraceTypeCorrect == Spec => []TypeOK
<1>1. IInv => TypeOK
  BY DEF IInv
<1> QED
  BY <1>1, TraceInvariance, PTL

\* No two actors of flush_one_thread_sync are ever in the queue of one thread.
THEOREM TraceOneReader == Spec => []OneReader
<1>1. IInv => OneReader
  BY DEF IInv, LockInv, OneReader, Reads
<1> QED
  BY <1>1, TraceInvariance, PTL

\* A backend has a stream open just while it is enabled and its thread registered.
THEOREM TraceOpenWhileRegistered == Spec => []OpenWhileRegistered
<1>1. IInv => OpenWhileRegistered
  BY DEF IInv
<1> QED
  BY <1>1, TraceInvariance, PTL

\* The thread-local writer pointer is set just while it may be used.
THEOREM TraceWriterIsSet == Spec => []WriterIsSetWhileEnabled
<1>1. IInv => WriterIsSetWhileEnabled
  BY DEF IInv
<1> QED
  BY <1>1, TraceInvariance, PTL

\* A backend gets the bytes of a thread in the order they were written, without
\* gaps or repetitions, from the byte at which it joined.
THEOREM TraceFilesFollowStreams == Spec => []FilesFollowStreams
<1>1. IInv => FilesFollowStreams
  BY DEF IInv
<1> QED
  BY <1>1, TraceInvariance, PTL

\* What any step does to one file: the contract of Trace_Flusher_Backend.
LEMMA StepObeysContract ==
  ASSUME IInv, [Next]_vars, NEW b \in Backends, NEW i \in Indexes
  PROVE  LET before == files[b][i]
             after  == files'[b][i]
         IN /\ after.phase # before.phase =>
                  <<before.phase, after.phase>> \in
                     {<<"unopened", "open">>, <<"open", "closed">>}
            /\ after.data # before.data => before.phase = "open"
<1> DEFINE before == files[b][i]
           after == files'[b][i]
           Good == /\ after.phase # before.phase =>
                        <<before.phase, after.phase>> \in
                           {<<"unopened", "open">>, <<"open", "closed">>}
                   /\ after.data # before.data => before.phase = "open"
<1>0. ClosedInv /\ OpenWhileRegistered /\ FreshInv /\ TypeOK
  BY DEF IInv
<1>1. CASE UNCHANGED files
  BY <1>1
<1>2. ASSUME NEW c \in Backends, EnableBackend(c) PROVE Good
  BY <1>2 DEF EnableBackend, Begin, Unopened
<1>3. ASSUME NEW c \in Backends, DisableBackend(c) PROVE Good
  <2>1. c \in backends /\ files' = End({c}, Registrations)
    BY <1>3 DEF DisableBackend, IsEnabled
  <2>2. b = c /\ i \in Registrations => before.phase = "open"
    BY <1>0, <2>1 DEF OpenWhileRegistered, IsEnabled
  <2> QED
    BY <2>1, <2>2 DEF End, Closed
<1>4. ASSUME NEW t \in Threads, RegisterCurrentThread(t) PROVE Good
  <2>1. files' = Begin(backends, {nextIndex})
    BY <1>4 DEF RegisterCurrentThread, NewIndex
  <2>2. i = nextIndex => before = Unopened
    BY <1>0, TracingAssumption DEF FreshInv
  <2> QED
    BY <2>1, <2>2 DEF Begin, Unopened
<1>5. ASSUME NEW t \in Threads, EndUnregister(t) PROVE Good
  <2>1. files' = End(backends, {index[t]})
    BY <1>5 DEF EndUnregister
  <2>2. t \in ToSet(registered)
    BY <1>5 DEF EndUnregister, IInv, WriterIsSetWhileEnabled, RegisterInv
  <2>3. b \in backends /\ i = index[t] => before.phase = "open"
    BY <1>0, <2>2 DEF OpenWhileRegistered, IsEnabled, Registrations
  <2> QED
    BY <2>1, <2>3 DEF End, Closed
<1>6. ASSUME NEW a \in Actors, Take(a) PROVE Good
  <2> DEFINE j == StreamOf(a)
  <2>1. j \in Registrations /\ j \in Indexes
    BY <1>6, StreamOfFact DEF Take
  <2>2. PICK n : files' = Written(j, n)
    BY <1>6 DEF Take
  <2> HIDE DEF j
  <2>3. files \in [Backends -> [Indexes ->
            [phase : {"unopened", "open", "closed"}, data : Seq(Nat)]]]
    BY <1>0 DEF TypeOK
  <2>4. CASE b \in backends /\ i = j
    <3>1. before.phase = "open"
      BY <1>0, <2>1, <2>4 DEF OpenWhileRegistered, IsEnabled
    <3>2. after.phase = before.phase
      BY <2>1, <2>2, <2>3, <2>4 DEF Written, Receivers
    <3> QED
      BY <3>1, <3>2
  <2>5. CASE ~(b \in backends /\ i = j)
    <3>1. after = before
      BY <2>1, <2>2, <2>3, <2>5 DEF Written, Receivers
    <3> QED
      BY <3>1
  <2> QED
    BY <2>4, <2>5
<1>7. \/ UNCHANGED files
      \/ \E c \in Backends : EnableBackend(c) \/ DisableBackend(c)
      \/ \E t \in Threads : RegisterCurrentThread(t) \/ EndUnregister(t)
      \/ \E a \in Actors : Take(a)
  BY DEF Next, vars, backendVars, ThreadNext, TakeStep, BeginUnregister, LoadWriter,
         WriteByte, CommitEvent, FlushAsync, BeginFlushSync, EndFlushSync, EndTake,
         StartFlushingThread, FlusherLocks, FlusherWaits, SpuriousWakeUp, BeginStop, EndStop
<1> QED
  BY <1>1, <1>2, <1>3, <1>4, <1>5, <1>6, <1>7

\* Backends are called as trace-flusher.h demands: a thread_index begins once,
\* ends once and after it began, and data comes in between only.
THEOREM TraceBackendContract == Spec => BackendContract
<1> DEFINE Step == \A b \in Backends, i \in Indexes :
          LET before == files[b][i]
              after  == files'[b][i]
          IN /\ after.phase # before.phase =>
                   <<before.phase, after.phase>> \in
                      {<<"unopened", "open">>, <<"open", "closed">>}
             /\ after.data # before.data => before.phase = "open"
<1>1. IInv /\ [Next]_vars => [Step]_vars
  BY StepObeysContract
<1>2. BackendContract <=> [][Step]_vars
  BY DEF BackendContract
<1> HIDE DEF Step
<1> QED
  BY <1>1, <1>2, TraceInvariance, PTL DEF Spec

\* The step in which a thread loses its registration.
LEMMA StepLeavesNothing ==
  ASSUME IInv, [Next]_vars, NEW t \in Threads,
         index[t] # NoIndex, index'[t] = NoIndex, backends # {}
  PROVE  stream[index[t]].taken >= stream[index[t]].committed
<1>1. CASE UNCHANGED index
  BY <1>1
<1>2. ASSUME NEW u \in Threads, RegisterCurrentThread(u) PROVE FALSE
  BY <1>2, TracingAssumption DEF RegisterCurrentThread, NewIndex, IInv, TypeOK
<1>3. ASSUME NEW u \in Threads, EndUnregister(u)
      PROVE  stream[index[t]].taken >= stream[index[t]].committed
  <2>1. u = t
    BY <1>3 DEF EndUnregister, IInv, TypeOK
  <2> QED
    BY <1>3, <2>1 DEF EndUnregister, IInv, UnregisterInv, Drained
<1>4. \/ UNCHANGED index
      \/ \E u \in Threads : RegisterCurrentThread(u) \/ EndUnregister(u)
  BY DEF Next, vars, regVars, ThreadNext, TakeStep, BeginUnregister, LoadWriter,
         WriteByte, CommitEvent, FlushAsync, BeginFlushSync, EndFlushSync, EndTake, Take,
         EnableBackend, DisableBackend,
         StartFlushingThread, FlusherLocks, FlusherWaits, SpuriousWakeUp, BeginStop, EndStop
<1> QED
  BY <1>1, <1>2, <1>3, <1>4

\* A thread that unregisters while a backend listens has handed over all that it
\* committed: nothing is left in a queue nobody will ever flush again.
THEOREM TraceUnregisterLeavesNothing == Spec => UnregisterLeavesNothing
<1> DEFINE Step == \A t \in Threads :
          index[t] # NoIndex /\ index'[t] = NoIndex /\ backends # {} =>
             stream[index[t]].taken >= stream[index[t]].committed
<1>1. IInv /\ [Next]_vars => [Step]_vars
  BY StepLeavesNothing
<1>2. UnregisterLeavesNothing <=> [][Step]_vars
  BY DEF UnregisterLeavesNothing
<1> HIDE DEF Step
<1> QED
  BY <1>1, <1>2, TraceInvariance, PTL DEF Spec
-----------------------------------------------------------------------------
(* Every queue is used as ByteStream says.                                 *)

\* Streams with numbers not given out yet hold nothing.
FreshStreams == \A i \in Indexes : i >= nextIndex => stream[i] = EmptyStream

\* What a step does to the streams.
LEMMA StreamChanges ==
  ASSUME IInv, [Next]_vars
  PROVE  \/ UNCHANGED <<stream, nextIndex>>
         \/ /\ nextIndex \in Indexes /\ nextIndex' = nextIndex + 1
            /\ stream' = [stream EXCEPT ![nextIndex] = EmptyStream]
         \/ /\ nextIndex' = nextIndex
            /\ \E i \in Indexes :
                  /\ i < nextIndex
                  /\ \A j \in Indexes \ {i} : stream'[j] = stream[j]
<1>0. TypeOK
  BY DEF IInv
<1>1. ASSUME NEW t \in Threads, RegisterCurrentThread(t)
      PROVE  /\ nextIndex \in Indexes /\ nextIndex' = nextIndex + 1
             /\ stream' = [stream EXCEPT ![nextIndex] = EmptyStream]
  BY <1>1 DEF RegisterCurrentThread, NewIndex
<1>2. ASSUME NEW t \in Threads, WriteByte(t) \/ CommitEvent(t)
      PROVE  /\ nextIndex' = nextIndex
             /\ index[t] \in Indexes /\ index[t] < nextIndex
             /\ \A j \in Indexes \ {index[t]} : stream'[j] = stream[j]
  BY <1>0, <1>2 DEF WriteByte, CommitEvent, regVars, IInv, RegisterInv,
                    WriterIsSetWhileEnabled, TypeOK
<1>3. ASSUME NEW a \in Actors, Take(a)
      PROVE  /\ nextIndex' = nextIndex
             /\ StreamOf(a) \in Indexes /\ StreamOf(a) < nextIndex
             /\ \A j \in Indexes \ {StreamOf(a)} : stream'[j] = stream[j]
  <2>1. /\ StreamOf(a) \in Indexes
        /\ StreamOf(a) = index[Head(toFlush[a])] /\ Head(toFlush[a]) \in Threads
    BY <1>3, StreamOfFact DEF Take
  <2>2. StreamOf(a) < nextIndex
    BY <2>1 DEF IInv, RegisterInv
  <2>3. nextIndex' = nextIndex
    BY <1>3 DEF Take, regVars
  <2>4. PICK n : stream' = [stream EXCEPT ![StreamOf(a)].taken = n]
    BY <1>3 DEF Take
  <2> QED
    BY <1>0, <2>1, <2>2, <2>3, <2>4 DEF TypeOK
<1>4. \/ UNCHANGED <<stream, nextIndex>>
      \/ \E t \in Threads : RegisterCurrentThread(t) \/ WriteByte(t) \/ CommitEvent(t)
      \/ \E a \in Actors : Take(a)
  BY DEF Next, vars, regVars, ThreadNext, TakeStep, EnableBackend, DisableBackend,
         BeginUnregister, EndUnregister, LoadWriter, FlushAsync, BeginFlushSync, EndFlushSync,
         EndTake, StartFlushingThread, FlusherLocks, FlusherWaits, SpuriousWakeUp, BeginStop,
         EndStop
<1> QED
  BY <1>1, <1>2, <1>3, <1>4

LEMMA FreshStreamsStep ==
  ASSUME IInv, FreshStreams, [Next]_vars
  PROVE  FreshStreams'
<1>0. nextIndex \in Nat /\ stream \in [Indexes -> [appended : Nat, committed : Nat, taken : Nat]]
  BY TracingAssumption DEF IInv, TypeOK
<1> SUFFICES ASSUME NEW i \in Indexes, i >= nextIndex'
             PROVE  stream'[i] = EmptyStream
  BY DEF FreshStreams
<1>1. CASE UNCHANGED <<stream, nextIndex>>
  BY <1>1 DEF FreshStreams
<1>2. CASE /\ nextIndex \in Indexes /\ nextIndex' = nextIndex + 1
           /\ stream' = [stream EXCEPT ![nextIndex] = EmptyStream]
  <2>1. i >= nextIndex /\ i # nextIndex
    BY <1>0, <1>2
  <2> QED
    BY <1>2, <2>1 DEF FreshStreams
<1>3. CASE /\ nextIndex' = nextIndex
           /\ \E j \in Indexes :
                 /\ j < nextIndex
                 /\ \A k \in Indexes \ {j} : stream'[k] = stream[k]
  <2>1. stream'[i] = stream[i]
    BY <1>0, <1>3
  <2> QED
    BY <1>3, <2>1 DEF FreshStreams
<1> QED
  BY <1>1, <1>2, <1>3, StreamChanges

\* Which actor reads which stream changes only while the lock changes hands,
\* or with the last byte of a take.
LEMMA ReadsStep ==
  ASSUME IInv, [Next]_vars, NEW i \in Indexes
  PROVE  \/ (\E a \in Actors : Reads(a, i))' = (\E a \in Actors : Reads(a, i))
         \/ UNCHANGED stream /\ ~ \E a \in Actors : Reads(a, i)
         \/ UNCHANGED stream /\ \E a \in Actors : Reads(a, i) /\ Drained(i)
<1>0. TypeOK /\ LockInv
  BY DEF IInv
<1>1. ASSUME UNCHANGED <<toFlush, index>>
      PROVE  (\E a \in Actors : Reads(a, i))' = (\E a \in Actors : Reads(a, i))
  BY <1>1 DEF Reads, StreamOf
<1>2. ASSUME lock = Free
      PROVE  ~ \E a \in Actors : Reads(a, i)
  BY <1>0, <1>2, ThreadsAssumption DEF Reads, LockInv
<1>3. ASSUME NEW t \in Threads, RegisterCurrentThread(t)
      PROVE  (\E a \in Actors : Reads(a, i))' = (\E a \in Actors : Reads(a, i))
  <2>1. lock = Free /\ toFlush' = toFlush
    BY <1>3 DEF RegisterCurrentThread, lockVars
  <2>2. \A a \in Actors : toFlush[a] = << >>
    BY <1>0, <2>1, ThreadsAssumption DEF LockInv
  <2> QED
    BY <2>1, <2>2 DEF Reads
<1>4. ASSUME NEW t \in Threads, EndUnregister(t)
      PROVE  (\E a \in Actors : Reads(a, i))' = (\E a \in Actors : Reads(a, i))
  <2>1. lock = t /\ toFlush[t] = << >> /\ toFlush' = toFlush
    BY <1>4 DEF EndUnregister
  <2>2. \A a \in Actors : toFlush[a] = << >>
    BY <1>0, <2>1 DEF LockInv
  <2> QED
    BY <2>1, <2>2 DEF Reads
<1>5. ASSUME NEW t \in Threads, BeginUnregister(t) \/ BeginFlushSync(t)
      PROVE  lock = Free /\ UNCHANGED stream
  BY <1>5 DEF BeginUnregister, BeginFlushSync
<1>6. ASSUME FlusherLocks
      PROVE  UNCHANGED stream /\ lock = Free
  BY <1>6 DEF FlusherLocks, FlusherMayLock
<1>7. ASSUME NEW a \in Actors, EndTake(a),
             ~ (\E c \in Actors : Reads(c, i))' = (\E c \in Actors : Reads(c, i))
      PROVE  \/ UNCHANGED stream /\ ~ \E c \in Actors : Reads(c, i)
             \/ UNCHANGED stream /\ \E c \in Actors : Reads(c, i) /\ Drained(i)
  <2>1. /\ toFlush[a] # << >> /\ Drained(StreamOf(a)) /\ UNCHANGED <<index, stream>>
        /\ toFlush' = [toFlush EXCEPT ![a] = Tail(@)]
    BY <1>7 DEF EndTake, regVars
  <2>2. CASE Reads(a, i)
    BY <2>1, <2>2 DEF Reads
  <2>3. CASE ~Reads(a, i)
    <3>1. \A c \in Actors \ {a} : toFlush[c] = << >>
      BY <1>0, <2>1, StreamOfFact DEF LockInv
    <3> QED
      BY <2>1, <2>3, <3>1 DEF Reads
  <2> QED
    BY <2>2, <2>3
<1>8. \/ UNCHANGED <<toFlush, index>>
      \/ \E t \in Threads : \/ RegisterCurrentThread(t) \/ EndUnregister(t)
                           \/ BeginUnregister(t) \/ BeginFlushSync(t)
      \/ FlusherLocks
      \/ \E a \in Actors : EndTake(a)
  BY DEF Next, vars, regVars, lockVars, ThreadNext, TakeStep, EnableBackend, DisableBackend,
         LoadWriter, WriteByte, CommitEvent, FlushAsync, EndFlushSync, Take,
         StartFlushingThread, FlusherWaits, SpuriousWakeUp, BeginStop, EndStop
<1> QED
  BY <1>1, <1>2, <1>3, <1>4, <1>5, <1>6, <1>7, <1>8

\* What one step does to one stream: nothing, or a step of ByteStream.
LEMMA StreamStep ==
  ASSUME IInv, FreshStreams, [Next]_vars, NEW i \in Indexes
  PROVE  [Stream(i)!Next]_(Stream(i)!vars)
<1> DEFINE taking == \E a \in Actors : Reads(a, i)
<1> USE DEF Stream!Next, Stream!vars
<1>0. /\ stream \in [Indexes -> [appended : Nat, committed : Nat, taken : Nat]]
      /\ \A j \in Indexes :
            stream[j].appended \in stream[j].committed .. stream[j].committed + EventSize
  BY DEF IInv, TypeOK
<1>1. CASE UNCHANGED stream
  <2>1. CASE taking' = taking
    BY <1>1, <2>1
  <2>2. CASE taking' # taking /\ ~taking
    BY <1>1, <2>2 DEF Stream!BeginTake
  <2>3. CASE taking' # taking /\ taking
    <3>1. Drained(i)
      BY <2>3, ReadsStep
    <3> QED
      BY <1>1, <2>3, <3>1 DEF Stream!EndTake, Drained
  <2> QED
    BY <2>1, <2>2, <2>3
<1>2. ASSUME ~ UNCHANGED stream PROVE taking' = taking
  BY <1>2, ReadsStep
<1>3. ASSUME NEW t \in Threads, RegisterCurrentThread(t), ~ UNCHANGED stream
      PROVE  UNCHANGED Stream(i)!vars
  <2>1. stream' = [stream EXCEPT ![nextIndex] = EmptyStream] /\ nextIndex \in Indexes
    BY <1>3 DEF RegisterCurrentThread, NewIndex
  <2>2. stream[nextIndex] = EmptyStream
    BY <2>1, TracingAssumption DEF FreshStreams
  <2>3. stream'[i] = stream[i]
    BY <1>0, <2>1, <2>2
  <2> QED
    BY <1>2, <1>3, <2>3
<1>4. ASSUME NEW t \in Threads, WriteByte(t), ~ UNCHANGED stream
      PROVE  [Stream(i)!Append]_(Stream(i)!vars)
  <2>1. stream' = [stream EXCEPT ![index[t]].appended = @ + 1]
    BY <1>4 DEF WriteByte
  <2>2. CASE i = index[t]
    BY <1>0, <1>2, <1>4, <2>1, <2>2 DEF Stream!Append
  <2>3. CASE i # index[t]
    BY <1>0, <1>2, <1>4, <2>1, <2>3
  <2> QED
    BY <2>2, <2>3
<1>5. ASSUME NEW t \in Threads, CommitEvent(t), ~ UNCHANGED stream
      PROVE  [Stream(i)!Commit]_(Stream(i)!vars)
  <2>1. stream' = [stream EXCEPT ![index[t]].committed = stream[index[t]].appended]
    BY <1>5 DEF CommitEvent
  <2>2. CASE i = index[t]
    BY <1>0, <1>2, <1>5, <2>1, <2>2 DEF Stream!Commit
  <2>3. CASE i # index[t]
    BY <1>0, <1>2, <1>5, <2>1, <2>3
  <2> QED
    BY <2>2, <2>3
<1>6. ASSUME NEW a \in Actors, Take(a), ~ UNCHANGED stream
      PROVE  [Stream(i)!Take]_(Stream(i)!vars)
  <2> DEFINE j == StreamOf(a)
  <2>1. PICK n \in {stream[j].committed, stream[j].appended} :
           n > stream[j].taken /\ stream' = [stream EXCEPT ![j].taken = n]
    BY <1>6 DEF Take
  <2>2. CASE i = j
    <3>1. taking
      BY <1>6, <2>2 DEF Take, Reads
    <3>2. n \in stream[i].taken .. stream[i].appended
      BY <1>0, <2>1, <2>2
    <3>3. /\ stream'[i].taken = n
          /\ stream'[i].appended = stream[i].appended
          /\ stream'[i].committed = stream[i].committed
      BY <1>0, <2>1, <2>2
    <3> QED
      BY <1>2, <1>6, <3>1, <3>2, <3>3 DEF Stream!Take
  <2>3. CASE i # j
    BY <1>0, <1>2, <1>6, <2>1, <2>3
  <2> QED
    BY <2>2, <2>3
<1>7. \/ UNCHANGED stream
      \/ \E t \in Threads : RegisterCurrentThread(t) \/ WriteByte(t) \/ CommitEvent(t)
      \/ \E a \in Actors : Take(a)
  BY DEF Next, vars, regVars, ThreadNext, TakeStep, EnableBackend, DisableBackend,
         BeginUnregister, EndUnregister, LoadWriter, FlushAsync, BeginFlushSync, EndFlushSync,
         EndTake, StartFlushingThread, FlusherLocks, FlusherWaits, SpuriousWakeUp, BeginStop,
         EndStop
<1> QED
  BY <1>1, <1>3, <1>4, <1>5, <1>6, <1>7

LEMMA StreamsInit == Init => \A i \in Indexes : Stream(i)!Init
<1> SUFFICES ASSUME Init, NEW i \in Indexes PROVE Stream(i)!Init
  OBVIOUS
<1>1. stream[i] = EmptyStream
  BY DEF Init
<1>2. ~ \E a \in Actors : Reads(a, i)
  BY DEF Init, Reads
<1> QED
  BY <1>1, <1>2 DEF Stream!Init, EmptyStream

\* Every queue is used as Async_Byte_Queue demands, and gives its reader what
\* ByteStream promises, whichever thread flushes it: one writer, one reader at a
\* time, no byte handed out twice or before it was appended, and a take that ends
\* has handed out all that was committed.
THEOREM TraceStreamsAreByteStreams == Spec => StreamsAreByteStreams
<1> DEFINE Step == \A i \in Indexes : [Stream(i)!Next]_(Stream(i)!vars)
           Start == \A i \in Indexes : Stream(i)!Init
<1>1. Init => Start /\ FreshStreams
  BY StreamsInit DEF Init, FreshStreams
<1>2. IInv /\ FreshStreams /\ [Next]_vars => FreshStreams'
  BY FreshStreamsStep
<1>3. IInv /\ FreshStreams /\ [Next]_vars => [Step]_vars
  BY StreamStep
<1>4. StreamsAreByteStreams <=> Start /\ [][Step]_vars
  BY DEF StreamsAreByteStreams
<1> HIDE DEF Step, Start
<1> QED
  BY <1>1, <1>2, <1>3, <1>4, TraceInvariance, PTL DEF Spec
=============================================================================
