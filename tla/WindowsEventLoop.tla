-------------------------- MODULE WindowsEventLoop --------------------------
(***************************************************************************)
(* The language server on Windows: Windows_Event_Loop::run waits for       *)
(* packets of its completion port and reports changes of the file system;  *)
(* read_pipe_thread_ reads what the client sends; both call the handler,   *)
(* and both write to the client through Background_Thread_Pipe_Writer.     *)
(* What the handler does with a call is LspSession's and LspServer's       *)
(* matter: here it writes any messages.                                    *)
(***************************************************************************)
EXTENDS BackgroundPipeWriter

CONSTANTS
    MaxChunks,    \* bound: chunks the client sends
    MaxFsEvents,  \* bound: changes of the file system
    MaxBytes      \* bound: bytes the handler writes

ASSUME LoopAssumption == MaxChunks \in Nat /\ MaxFsEvents \in Nat /\ MaxBytes \in Nat

Stop == "stop"            \* completion_key_stop
FsChanged == "fs changed" \* completion_key_fs_changed
Packets == {Stop, FsChanged}

VARIABLES
    unread,     \* chunks in the pipe from the client
    chunks,     \* chunks the client has sent
    closed,     \* the client has closed its end
    port,       \* packets in io_completion_port_
    fs_events,  \* changes of the file system there were
    main,       \* what the thread of run() does
    reader      \* what read_pipe_thread_ does

envVars == <<unread, chunks, closed, fs_events>>
vars == <<writerVars, envVars, port, main, reader>>

TypeOK ==
    /\ WriterTypeOK
    /\ unread \in 0 .. chunks /\ chunks \in 0 .. MaxChunks
    /\ closed \in BOOLEAN
    /\ port \in Seq(Packets)
    /\ fs_events \in 0 .. MaxFsEvents
    /\ main \in {"polling", "fs changed", "joining reader", "stopping", "notifying",
                 "joining", "exited"}
    /\ reader \in {"reading", "append", "ended"}

Init ==
    /\ WriterInit
    /\ unread = 0 /\ chunks = 0 /\ closed = FALSE
    /\ port = << >>
    /\ fs_events = 0
    /\ main = "polling"
    /\ reader = "reading"
-----------------------------------------------------------------------------
(* The client and the file system.                                         *)

ClientSend ==
    /\ ~closed
    /\ chunks < MaxChunks
    /\ chunks' = chunks + 1
    /\ unread' = unread + 1
    /\ UNCHANGED <<writerVars, closed, fs_events, port, main, reader>>

ClientClose ==
    /\ ~closed
    /\ closed' = TRUE
    /\ UNCHANGED <<writerVars, unread, chunks, fs_events, port, main, reader>>

\* The kernel breaks an oplock and posts a packet.
OplockBreak ==
    /\ fs_events < MaxFsEvents
    /\ fs_events' = fs_events + 1
    /\ port' = Append(port, FsChanged)
    /\ UNCHANGED <<writerVars, unread, chunks, closed, main, reader>>

ClientReceive == Receive /\ UNCHANGED <<envVars, port, main, reader>>
-----------------------------------------------------------------------------
(* read_pipe_thread_                                                       *)

\* read_from_pipe up to the lock of user_code_mutex_, which nobody else takes
Read ==
    /\ reader = "reading"
    /\ unread > 0
    /\ unread' = unread - 1
    /\ reader' = "append"
    /\ UNCHANGED <<writerVars, chunks, closed, fs_events, port, main>>

ReadEof_Silent ==
    /\ reader = "reading"
    /\ unread = 0 /\ closed
    /\ reader' = "ended"  \* mutated
    /\ UNCHANGED <<writerVars, envVars, port, main>>

ReadEof ==
    /\ reader = "reading"
    /\ unread = 0 /\ closed
    /\ port' = Append(port, Stop)
    /\ reader' = "ended"
    /\ UNCHANGED <<writerVars, envVars, main>>

\* append() returns; its writes wait for mutex_.
Appended ==
    /\ reader = "append"
    /\ ~locked
    /\ reader' = "reading"
    /\ UNCHANGED <<writerVars, envVars, port, main>>
-----------------------------------------------------------------------------
(* The thread of run()                                                     *)

\* GetQueuedCompletionStatus, and the call of on_fs_changed_event
Poll ==
    /\ main = "polling"
    /\ port # << >>
    /\ port' = Tail(port)
    /\ main' = IF Head(port) = Stop THEN "joining reader" ELSE "fs changed"
    /\ UNCHANGED <<writerVars, envVars, reader>>

\* on_fs_changed_event() returns
FsChangedHandled ==
    /\ main = "fs changed"
    /\ ~locked
    /\ main' = "polling"
    /\ UNCHANGED <<writerVars, envVars, port, reader>>

JoinReader ==
    /\ main = "joining reader"
    /\ reader = "ended"
    /\ main' = "stopping"
    /\ UNCHANGED <<writerVars, envVars, port, reader>>

\* run() has returned: the destructor of the writer.
DestroyWriter ==
    /\ \/ main = "stopping" /\ SetStop /\ main' = "notifying"
       \/ main = "notifying" /\ NotifyStop /\ main' = "joining"
       \/ main = "joining" /\ Joined /\ main' = "exited" /\ UNCHANGED writerVars
    /\ UNCHANGED <<envVars, port, reader>>
-----------------------------------------------------------------------------
InUserCode == reader = "append" \/ main = "fs changed"

\* The handler writes a message, in a call of either thread.
HandlerWrite ==
    /\ InUserCode
    /\ \E data \in Data : Len(accepted) + Len(data) <= MaxBytes /\ Write(data)
    /\ UNCHANGED <<envVars, port, main, reader>>

Writer == Flush /\ UNCHANGED <<envVars, port, main, reader>>
SpuriousWakeUp == WakeUp /\ UNCHANGED <<envVars, port, main, reader>>

\* The server has exited: what happens outside does not matter any more.
Running == main # "exited"

ReaderNext == Read \/ ReadEof \/ Appended
MainNext == Poll \/ FsChangedHandled \/ JoinReader \/ DestroyWriter

Next ==
    /\ Running
    /\ \/ ClientSend \/ ClientClose \/ OplockBreak \/ ClientReceive
       \/ ReaderNext \/ MainNext \/ HandlerWrite
       \/ Writer \/ SpuriousWakeUp

(***************************************************************************)
(* The threads are scheduled, and mutex_ starves nobody who waits for it,  *)
(* even if the condition variable wakes its holder again and again.  The   *)
(* client owes nothing: it may neither send, nor close, nor read.          *)
(***************************************************************************)
Spec ==
    /\ Init /\ [][Next]_vars
    /\ WF_vars(Running /\ ReaderNext)
    /\ WF_vars(Running /\ MainNext)
    /\ SF_vars(Appended) /\ SF_vars(FsChangedHandled)
    /\ WF_vars(Running /\ Writer)
-----------------------------------------------------------------------------
ClientReads == []<>(pipe = << >>)

\* A call of the handler returns although it writes to a client that may never
\* read: the thread that blocks on the pipe does not hold mutex_ meanwhile.
CallsReturn ==
    /\ reader = "append" ~> reader # "append"
    /\ main = "fs changed" ~> main # "fs changed"

\* While the server runs, a client that reads is given all that was written:
\* the thread is woken up, or sees the new bytes before it sleeps.
OutputIsWritten ==
    ClientReads => \A n \in 1 .. MaxBytes :
        Len(accepted) = n ~> (Len(received) >= n \/ stop_)

\* When the client has closed its end and still reads, both threads and run()
\* end and the server exits, or it waits for ever in the destructor of the
\* writer, whose thread went to sleep without the notification.
ServerExits ==
    ClientReads => (closed ~> (main = "exited" \/ (main = "joining" /\ thread = "asleep")))

\* event-loop-base.h:78 and :135: "event_loop will never call non-const member
\* functions in parallel", "Acquire user_code_mutex_ when calling non-const
\* member functions of Derived"; run() calls on_fs_changed_event without it.
UserCodeIsExclusive == ~(reader = "append" /\ main = "fs changed")
=============================================================================
