---------------------------- MODULE TraceFlusher ----------------------------
(***************************************************************************)
(* logging/trace-flusher.{h,cpp}: every registered thread writes events    *)
(* into a queue of its own without a lock; threads and the flushing thread *)
(* hand what the queues hold to the enabled backends under state_.         *)
(*                                                                         *)
(* A registration has a number, thread_index, and a stream; the streams    *)
(* are ByteStream, the promise of Async_Byte_Queue.  Only what may happen  *)
(* between two steps of a writer is a step of its own: what runs under     *)
(* state_ and touches no queue is one action.  An event has two bytes, the *)
(* odd one and the even one after it.                                      *)
(***************************************************************************)
EXTENDS Naturals, Sequences, FiniteSets, SequencesExt, Folds, Functions

CONSTANTS
    Threads,   \* threads that write
    Backends,  \* backends, each enabled and disabled once
    MaxIndex,  \* bound: registrations of threads
    MaxEvents  \* bound: events of all threads

ASSUME TracingAssumption ==
    /\ MaxIndex \in Nat
    /\ MaxEvents \in Nat

Free == "free"          \* nobody holds state_
Flusher == "flusher"    \* flushing_thread_
NoIndex == 0
EventSize == 2
Indexes == 1 .. MaxIndex

ASSUME ThreadsAssumption == {Free, Flusher} \cap Threads = {}

VARIABLES
    \* Trace_Flusher::state_
    lock,        \* who holds it
    backends,    \* backends
    registered,  \* registered_threads, as their threads
    nextIndex,   \* next_thread_index
    stopFlushing,\* stop_flushing_thread
    \* threads
    index,       \* thread_index of the registration of each thread
    hasWriter,   \* is thread_stream_writer_ of each thread set?
    pc,          \* what each thread is in the middle of
    flusher,     \* what flushing_thread_ is in the middle of
    toFlush,     \* threads every actor has yet to flush: it is in
                 \* take_committed of the queue of the first of them
    stream,      \* stream_queue of every registration
    \* what every backend was given
    files

regVars == <<registered, nextIndex, index>>
backendVars == <<backends, hasWriter, files>>
lockVars == <<lock, toFlush>>
flusherVars == <<flusher, stopFlushing>>
vars == <<regVars, backendVars, lockVars, flusherVars, stream, pc>>

Actors == Threads \cup {Flusher}

\* The stream that a take of actor a reads
StreamOf(a) == index[Head(toFlush[a])]
Reads(a, i) == toFlush[a] # << >> /\ StreamOf(a) = i

Stream(i) == INSTANCE ByteStream
    WITH appended <- stream[i].appended, committed <- stream[i].committed,
         taken <- stream[i].taken, taking <- \E a \in Actors : Reads(a, i)

\* What a notification does to the flushing thread
Notified == IF flusher = "waiting" THEN "entering" ELSE flusher

IsEnabled(b) == b \in backends
Complete_Longer(i) == stream[i].appended = stream[i].committed + EventSize + 1
Complete(i) == stream[i].appended = stream[i].committed + EventSize

\* A closed stream does not change any more; what it held is forgotten.
EmptyStream == [appended |-> 0, committed |-> 0, taken |-> 0]
Unopened == [phase |-> "unopened", data |-> << >>]
Closed == [phase |-> "closed", data |-> << >>]

TypeOK ==
    /\ lock \in {Free} \cup Actors
    /\ backends \subseteq Backends
    /\ registered \in Seq(Threads)
    /\ IsInjective(registered)
    /\ nextIndex \in 1 .. MaxIndex + 1
    /\ stopFlushing \in BOOLEAN
    /\ index \in [Threads -> {NoIndex} \cup Indexes]
    /\ hasWriter \in [Threads -> BOOLEAN]
    /\ pc \in [Threads ->
              {"idle", "writing", "written", "flushing", "unregistering"}]
    /\ flusher \in {"none", "entering", "flushing", "waiting", "ended"}
    /\ toFlush \in [Actors -> Seq(Threads)]
    /\ stream \in [Indexes -> [appended : Nat, committed : Nat, taken : Nat]]
    /\ \A i \in Indexes :
          stream[i].appended \in stream[i].committed .. stream[i].committed + EventSize
    /\ files \in [Backends -> [Indexes ->
            [phase : {"unopened", "open", "closed"}, data : Seq(Nat)]]]

Init ==
    /\ lock = Free
    /\ backends = {}
    /\ registered = << >>
    /\ nextIndex = 1
    /\ stopFlushing = FALSE
    /\ index = [t \in Threads |-> NoIndex]
    /\ hasWriter = [t \in Threads |-> FALSE]
    /\ pc = [t \in Threads |-> "idle"]
    /\ flusher = "none"
    /\ toFlush = [a \in Actors |-> << >>]
    /\ stream = [i \in Indexes |-> EmptyStream]
    /\ files = [b \in Backends |-> [i \in Indexes |-> Unopened]]
-----------------------------------------------------------------------------
(* Calls of backends; all of them are made with state_ locked.             *)

Registrations == {index[t] : t \in ToSet(registered)}

\* trace_thread_begin, and the header.  The header is not among the data.
Begin(bs, is) ==
    [b \in Backends |-> [i \in Indexes |->
        IF b \in bs /\ i \in is THEN [phase |-> "open", data |-> << >>]
                                ELSE files[b][i]]]

End(bs, is) ==
    [b \in Backends |-> [i \in Indexes |->
        IF b \in bs /\ i \in is THEN Closed ELSE files[b][i]]]

Receivers_One == IF backends = {} THEN {} ELSE {CHOOSE b \in backends : TRUE}
Receivers == backends

\* trace_thread_write_data of the bytes of stream i up to byte n
Written(i, n) ==
    LET bytes == [k \in 1 .. n - stream[i].taken |-> stream[i].taken + k]
    IN [b \in Backends |->
          IF b \in Receivers THEN [files[b] EXCEPT ![i].data = @ \o bytes] ELSE files[b]]
-----------------------------------------------------------------------------
(* Backends come and go, from any thread.                                  *)

EnableBackend(b) ==
    /\ lock = Free
    /\ ~IsEnabled(b)
    /\ \A i \in Indexes : files[b][i] = Unopened
    /\ backends' = backends \cup {b}
    /\ files' = Begin({b}, Registrations)
    /\ hasWriter' = [t \in Threads |-> hasWriter[t] \/ t \in ToSet(registered)]
    /\ UNCHANGED <<regVars, lockVars, flusherVars, stream, pc>>

\* thread_stream_writer_ of all threads once the backends are bs
WritersWith(bs) == IF bs = {} THEN [t \in Threads |-> FALSE] ELSE hasWriter

DisableBackend(b) ==
    /\ lock = Free
    /\ IsEnabled(b)
    /\ files' = End({b}, Registrations)
    /\ backends' = backends \ {b}
    /\ hasWriter' = WritersWith(backends \ {b})
    /\ UNCHANGED <<regVars, lockVars, flusherVars, stream, pc>>

NewIndex_Count == Len(registered) + 1
NewIndex == nextIndex

RegisterCurrentThread(t) ==
    /\ lock = Free
    /\ pc[t] = "idle"
    /\ index[t] = NoIndex
    /\ nextIndex \in Indexes
    /\ registered' = Append(registered, t)
    /\ index' = [index EXCEPT ![t] = NewIndex]
    /\ nextIndex' = nextIndex + 1
    /\ stream' = [stream EXCEPT ![NewIndex] = EmptyStream]
    /\ files' = Begin(backends, {NewIndex})
    /\ hasWriter' = [hasWriter EXCEPT ![t] = backends # {}]
    /\ UNCHANGED <<backends, lockVars, flusherVars, pc>>

\* unregister_current_thread flushes what it has written, if anyone listens.
FlushedFirst(t) == IF backends # {} THEN <<t>> ELSE << >>

BeginUnregister(t) ==
    /\ lock = Free
    /\ pc[t] = "idle"
    /\ index[t] # NoIndex
    /\ lock' = t
    /\ pc' = [pc EXCEPT ![t] = "unregistering"]
    /\ toFlush' = [toFlush EXCEPT ![t] = FlushedFirst(t)]
    /\ UNCHANGED <<regVars, backendVars, flusherVars, stream>>

EndUnregister(t) ==
    /\ lock = t
    /\ pc[t] = "unregistering"
    /\ toFlush[t] = << >>
    /\ lock' = Free
    /\ pc' = [pc EXCEPT ![t] = "idle"]
    /\ files' = End(backends, {index[t]})
    /\ \E k \in DOMAIN registered :
          registered[k] = t /\ registered' = RemoveAt(registered, k)
    /\ index' = [index EXCEPT ![t] = NoIndex]
    /\ hasWriter' = [hasWriter EXCEPT ![t] = FALSE]
    /\ UNCHANGED <<nextIndex, backends, toFlush, flusherVars, stream>>
-----------------------------------------------------------------------------
(* A thread writes an event without any lock.  It tests the pointer to its *)
(* writer once: tracing may be disabled before the event is complete.      *)

\* Callers flush after one or more events; they also flush with nothing to say.
BetweenEvents(t) == pc[t] \in {"idle", "written"}

EventsBegun ==
    FoldFunctionOnSet(+, 0, [i \in Indexes |-> stream[i].committed], Indexes)
        \div EventSize
        + Cardinality({t \in Threads : pc[t] = "writing"})

LoadWriter(t) ==
    /\ BetweenEvents(t)
    /\ hasWriter[t]
    /\ EventsBegun < MaxEvents
    /\ pc' = [pc EXCEPT ![t] = "writing"]
    /\ UNCHANGED <<regVars, backendVars, lockVars, flusherVars, stream>>

WriteByte(t) ==
    /\ pc[t] = "writing"
    /\ ~Complete(index[t])
    /\ stream' = [stream EXCEPT ![index[t]].appended = @ + 1]
    /\ UNCHANGED <<regVars, backendVars, lockVars, flusherVars, pc>>

CommitEvent(t) ==
    /\ pc[t] = "writing"
    /\ Complete(index[t])
    /\ stream' = [stream EXCEPT ![index[t]].committed = stream[index[t]].appended]
    /\ pc' = [pc EXCEPT ![t] = "written"]
    /\ UNCHANGED <<regVars, backendVars, lockVars, flusherVars>>

\* flush_async: notify_one, without the lock
FlushAsync(t) ==
    /\ BetweenEvents(t)
    /\ flusher' = Notified
    /\ pc' = [pc EXCEPT ![t] = "idle"]
    /\ UNCHANGED <<regVars, backendVars, lockVars, stopFlushing, stream>>

BeginFlushSync(t) ==
    /\ BetweenEvents(t)
    /\ lock = Free
    /\ lock' = t
    /\ pc' = [pc EXCEPT ![t] = "flushing"]
    /\ toFlush' = [toFlush EXCEPT ![t] = registered]
    /\ UNCHANGED <<regVars, backendVars, flusherVars, stream>>

EndFlushSync(t) ==
    /\ lock = t
    /\ pc[t] = "flushing"
    /\ toFlush[t] = << >>
    /\ lock' = Free
    /\ pc' = [pc EXCEPT ![t] = "idle"]
    /\ UNCHANGED <<regVars, backendVars, toFlush, flusherVars, stream>>
-----------------------------------------------------------------------------
(* flush_one_thread_sync: what the queue hands out goes to the backends.   *)

Take(a) ==
    /\ toFlush[a] # << >>
    /\ LET i == StreamOf(a)
       IN \E n \in {stream[i].committed, stream[i].appended} :
             /\ n > stream[i].taken
             /\ files' = Written(i, n)
             /\ stream' = [stream EXCEPT ![i].taken = n]
    /\ UNCHANGED <<regVars, backends, hasWriter, lockVars, flusherVars, pc>>

Drained_AtOnce(i) == TRUE
Drained(i) == stream[i].taken >= stream[i].committed

EndTake(a) ==
    /\ toFlush[a] # << >>
    /\ Drained(StreamOf(a))
    /\ toFlush' = [toFlush EXCEPT ![a] = Tail(@)]
    /\ UNCHANGED <<regVars, backendVars, lock, flusherVars, stream, pc>>

TakeStep(a) == Take(a) \/ EndTake(a)
-----------------------------------------------------------------------------
(* The flushing thread.  wait() may also return without a notification.    *)

StartFlushingThread ==
    /\ flusher = "none"
    /\ flusher' = "entering"
    /\ UNCHANGED <<regVars, backendVars, lockVars, stopFlushing, stream, pc>>

FlusherMayLock == lock = Free

FlusherLocks ==
    /\ flusher = "entering"
    /\ FlusherMayLock
    /\ IF stopFlushing
       THEN /\ flusher' = "ended"
            /\ UNCHANGED <<lockVars>>
       ELSE /\ flusher' = "flushing"
            /\ lock' = Flusher
            /\ toFlush' = [toFlush EXCEPT ![Flusher] = registered]
    /\ UNCHANGED <<regVars, backendVars, stopFlushing, stream, pc>>

FlusherWaits ==
    /\ flusher = "flushing"
    /\ toFlush[Flusher] = << >>
    /\ flusher' = "waiting"
    /\ lock' = Free
    /\ UNCHANGED <<regVars, backendVars, toFlush, stopFlushing, stream, pc>>

SpuriousWakeUp ==
    /\ flusher = "waiting"
    /\ flusher' = Notified
    /\ UNCHANGED <<regVars, backendVars, lockVars, stopFlushing, stream, pc>>

WokenByStop_Nobody == flusher
WokenByStop == Notified

\* stop_flushing_thread up to join, and after it
BeginStop ==
    /\ flusher # "none"
    /\ ~stopFlushing
    /\ lock = Free
    /\ stopFlushing' = TRUE
    /\ flusher' = WokenByStop
    /\ UNCHANGED <<regVars, backendVars, lockVars, stream, pc>>

EndStop ==
    /\ flusher = "ended"
    /\ lock = Free
    /\ stopFlushing' = FALSE
    /\ flusher' = "none"
    /\ UNCHANGED <<regVars, backendVars, lockVars, stream, pc>>
-----------------------------------------------------------------------------
ThreadNext(t) ==
    \/ RegisterCurrentThread(t)
    \/ BeginUnregister(t)
    \/ EndUnregister(t)
    \/ LoadWriter(t)
    \/ WriteByte(t)
    \/ CommitEvent(t)
    \/ FlushAsync(t)
    \/ BeginFlushSync(t)
    \/ EndFlushSync(t)

Next ==
    \/ \E t \in Threads : ThreadNext(t)
    \/ \E b \in Backends : EnableBackend(b) \/ DisableBackend(b)
    \/ \E a \in Actors : TakeStep(a)
    \/ StartFlushingThread
    \/ FlusherLocks
    \/ FlusherWaits
    \/ SpuriousWakeUp
    \/ BeginStop
    \/ EndStop

Spec == Init /\ [][Next]_vars

\* The holder of state_ goes on until it releases it, since nothing it does
\* blocks, and the flushing thread gets the lock in the end.
HolderStep ==
    \/ \E a \in Actors : TakeStep(a)
    \/ \E t \in Threads : EndUnregister(t) \/ EndFlushSync(t)
    \/ FlusherWaits

FairSpec ==
    /\ Spec
    /\ WF_vars(HolderStep)
    /\ SF_vars(FlusherLocks)
    /\ SF_vars(EndStop)
-----------------------------------------------------------------------------
(* Properties                                                              *)

\* The contract of Trace_Flusher_Backend (trace-flusher.h, lines 39 to 62): a
\* thread_index begins at most once, ends at most once and after it began, and
\* data comes in between only.
BackendContract ==
    [][\A b \in Backends, i \in Indexes :
          LET before == files[b][i]
              after  == files'[b][i]
          IN /\ after.phase # before.phase =>
                   <<before.phase, after.phase>> \in
                      {<<"unopened", "open">>, <<"open", "closed">>}
             /\ after.data # before.data => before.phase = "open"]_vars

\* A backend has a stream open just while it is enabled and the thread is
\* registered: after disable_backend or unregister nothing is left to be called.
OpenWhileRegistered ==
    \A b \in Backends, i \in Indexes :
        files[b][i].phase = "open" <=> IsEnabled(b) /\ i \in Registrations

\* What a backend is given of a thread is one piece of what the thread wrote:
\* no byte is lost, repeated or moved, whichever threads flushed it.
FilesFollowStreams ==
    \A b \in Backends, i \in Indexes :
        LET data == files[b][i].data
        IN /\ \A k \in 1 .. Len(data) - 1 : data[k + 1] = data[k] + 1
           /\ data # << >> /\ files[b][i].phase = "open" => Last(data) = stream[i].taken

\* The queue of a thread has one reader at a time, as Async_Byte_Queue demands.
OneReader ==
    \A a, c \in Actors, i \in Indexes : Reads(a, i) /\ Reads(c, i) => a = c

\* trace-flusher.h, lines 202 to 205: the thread-local pointer is set just while
\* tracing is enabled and the thread is registered, so it never dangles and
\* register_current_thread finds it null; a thread that still uses a writer it
\* loaded before is registered.
WriterIsSetWhileEnabled ==
    \A t \in Threads :
        /\ hasWriter[t] <=> t \in ToSet(registered) /\ backends # {}
        /\ index[t] # NoIndex <=> t \in ToSet(registered)
        /\ pc[t] = "writing" => index[t] # NoIndex

\* A thread that unregisters while tracing is enabled leaves no committed event
\* behind, though nobody will flush its queue afterwards.
UnregisterLeavesNothing ==
    [][\A t \in Threads :
          index[t] # NoIndex /\ index'[t] = NoIndex /\ backends # {} =>
             stream[index[t]].taken >= stream[index[t]].committed]_vars

\* The queues are used as, and promise no more than, ByteStream says.
StreamsAreByteStreams ==
    /\ \A i \in Indexes : Stream(i)!Init
    /\ [][\A i \in Indexes : [Stream(i)!Next]_(Stream(i)!vars)]_vars

\* stop_flushing_thread returns, whatever the flushing thread was doing.
StopReturns == stopFlushing ~> ~stopFlushing

=============================================================================
