------------------------ MODULE BackgroundPipeWriter ------------------------
(***************************************************************************)
(* io/pipe-writer.cpp, Background_Thread_Pipe_Writer: on Windows a write   *)
(* appends to pending_, and a thread of its own writes what is pending to  *)
(* a pipe that blocks.  flush() is for tests and is left out.              *)
(*                                                                         *)
(* A critical section of a caller is one step.  The thread's may be cut in *)
(* two: the destructor changes stop_ and notifies without mutex_, and may  *)
(* do so after the thread has tested stop_ and before it waits.            *)
(***************************************************************************)
EXTENDS Naturals, Sequences

CONSTANTS
    Data,         \* what callers write: byte sequences
    Byte,
    PipeCapacity  \* bytes the pipe holds

ASSUME WriterAssumption ==
    /\ Data \subseteq Seq(Byte) \ {<< >>}
    /\ PipeCapacity \in Nat \ {0}

VARIABLES
    locked,    \* the thread holds mutex_ between two steps
    pending_,
    stop_,
    thread,    \* what run_flushing_thread is doing
    to_write,  \* its local variable: what is left of it
    pipe,      \* bytes in the pipe
    received,  \* bytes the other end has read
    accepted   \* history variable: bytes given to write(), in order

writerVars == <<locked, pending_, stop_, thread, to_write, pipe, received, accepted>>

WriterTypeOK ==
    /\ locked = (thread = "waiting")
    /\ stop_ \in BOOLEAN
    /\ thread \in {"testing", "waiting", "asleep", "writing", "ended"}
    /\ pending_ \in Seq(Byte) /\ to_write \in Seq(Byte)
    /\ pipe \in Seq(Byte) /\ received \in Seq(Byte) /\ accepted \in Seq(Byte)
    /\ Len(pipe) <= PipeCapacity
    /\ thread # "writing" => to_write = << >>

WriterInit ==
    /\ locked = FALSE
    /\ pending_ = << >>
    /\ stop_ = FALSE
    /\ thread = "testing"
    /\ to_write = << >>
    /\ pipe = << >>
    /\ received = << >>
    /\ accepted = << >>

\* notify_one of data_is_pending_: a thread that does not wait yet misses it.
Notified == IF thread = "asleep" THEN "testing" ELSE thread
-----------------------------------------------------------------------------
(* The callers.                                                            *)

Write_Silent(data) ==
    /\ ~locked
    /\ accepted' = accepted \o data
    /\ pending_' = pending_ \o data
    /\ UNCHANGED <<locked, stop_, thread, to_write, pipe, received>>  \* mutated

Write(data) ==
    /\ ~locked
    /\ accepted' = accepted \o data
    /\ pending_' = pending_ \o data
    /\ thread' = Notified
    /\ UNCHANGED <<locked, stop_, to_write, pipe, received>>

\* The destructor, without mutex_: it sets stop_, notifies, and joins.
SetStop ==
    /\ stop_' = TRUE
    /\ UNCHANGED <<locked, pending_, thread, to_write, pipe, received, accepted>>

NotifyStop ==
    /\ thread' = Notified
    /\ UNCHANGED <<locked, pending_, stop_, to_write, pipe, received, accepted>>

Joined == thread = "ended"
-----------------------------------------------------------------------------
(* The thread.                                                             *)

Test_Locked ==
    /\ thread = "testing"
    /\ thread' = IF stop_ THEN "ended" ELSE IF pending_ # << >> THEN "writing" ELSE "waiting"
    /\ locked' = (thread' # "ended")  \* mutated
    /\ to_write' = IF thread' = "writing" THEN pending_ ELSE << >>
    /\ pending_' = IF thread' = "writing" THEN << >> ELSE pending_
    /\ UNCHANGED <<stop_, pipe, received, accepted>>

Test_Copy ==
    /\ thread = "testing"
    /\ thread' = IF stop_ THEN "ended" ELSE IF pending_ # << >> THEN "writing" ELSE "waiting"
    /\ locked' = (thread' = "waiting")
    /\ to_write' = IF thread' = "writing" THEN pending_ ELSE << >>
    /\ pending_' = pending_  \* mutated
    /\ UNCHANGED <<stop_, pipe, received, accepted>>

\* The predicate of the wait, with mutex_ locked.
Test ==
    /\ thread = "testing"
    /\ thread' = IF stop_ THEN "ended" ELSE IF pending_ # << >> THEN "writing" ELSE "waiting"
    /\ locked' = (thread' = "waiting")
    /\ to_write' = IF thread' = "writing" THEN pending_ ELSE << >>
    /\ pending_' = IF thread' = "writing" THEN << >> ELSE pending_
    /\ UNCHANGED <<stop_, pipe, received, accepted>>

Wait ==
    /\ thread = "waiting"
    /\ thread' = "asleep"
    /\ locked' = FALSE
    /\ UNCHANGED <<pending_, stop_, to_write, pipe, received, accepted>>

\* A condition variable may wake up by itself.
WakeUp ==
    /\ thread = "asleep"
    /\ thread' = "testing"
    /\ UNCHANGED <<locked, pending_, stop_, to_write, pipe, received, accepted>>

\* write_all_now_blocking: the pipe takes what it has room for.
PipeWrite ==
    /\ thread = "writing"
    /\ \E n \in 1 .. Len(to_write) :
          /\ Len(pipe) + n <= PipeCapacity
          /\ pipe' = pipe \o SubSeq(to_write, 1, n)
          /\ to_write' = SubSeq(to_write, n + 1, Len(to_write))
    /\ UNCHANGED <<locked, pending_, stop_, thread, received, accepted>>

\* All is written: the thread locks mutex_ again and goes on to test.
Written ==
    /\ thread = "writing"
    /\ to_write = << >>
    /\ thread' = "testing"
    /\ UNCHANGED <<locked, pending_, stop_, to_write, pipe, received, accepted>>

Flush == Test \/ Wait \/ PipeWrite \/ Written

\* The process at the other end of the pipe.
Receive ==
    /\ pipe # << >>
    /\ received' = Append(received, Head(pipe))
    /\ pipe' = Tail(pipe)
    /\ UNCHANGED <<locked, pending_, stop_, thread, to_write, accepted>>
-----------------------------------------------------------------------------
\* What was given to write() is on its way exactly once and in order, however
\* the callers, the thread and the other end interleave.
OutputIsInOrder == accepted = received \o pipe \o to_write \o pending_
=============================================================================
