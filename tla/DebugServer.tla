----------------------------- MODULE DebugServer -----------------------------
(***************************************************************************)
(* The debug server (debug/debug-server.cpp): a thread of its own that     *)
(* shows traces and the open documents to browsers.  Each browser has a    *)
(* WebSocket, which is a backend of the trace flusher.  What a backend is  *)
(* given by whoever flushes it queues, and wakes the server thread up      *)
(* through a pipe; only that thread talks to the browsers.                 *)
(*                                                                         *)
(* Around it, as far as it is used: the thread of the language server,     *)
(* which edits documents, asks for them to be shown, and at the end of its *)
(* input destroys the handler first and the debug server next; the         *)
(* flushing thread; and of Mongoose the poll of its connections.           *)
(*                                                                         *)
(* A call that waits for a mutex, or for room in the pipe, is a step.  The *)
(* profile of vectors, which is off by default, is left out.               *)
(***************************************************************************)
EXTENDS Integers, Sequences, SequencesExt, FiniteSetsExt

CONSTANTS
    MaxBrowsers,  \* bound: browsers, in the order they connect
    MaxMessages,  \* bound: messages of the client of the language server
    PipeCapacity, \* wake-ups that are counted
    PipeFills     \* the pipe holds no more than these

ASSUME DebuggerAssumption ==
    /\ MaxBrowsers \in Nat /\ MaxMessages \in Nat
    /\ PipeCapacity \in Nat \ {0} /\ PipeFills \in BOOLEAN

VARIABLES
    messages,           \* how many of the client were handled
    documents,          \* LSP_Documents: the number of edits
    need_publish_lsp_documents_,
    stop_server_thread_,
    start_result,       \* initialized, or init_error
    tracer_backends_,   \* browsers whose WebSocket is open, in order
    queues,             \* thread_queues_ of each backend
    \* the trace flusher
    lock,               \* who holds its state_
    backends,           \* enabled ones
    registered_threads,
    uncommitted,        \* what threads have written and nobody flushed
    visiting,           \* threads the holder has still to flush
    writes,             \* calls of trace_thread_write_data it has still to make
    holds_queue,           \* the first of them holds thread_queues_
    flush_requested,
    \* Mongoose
    pipe,               \* the end the server thread reads
    wakeups,            \* bytes in it
    connection,         \* of each browser
    shown,              \* the documents each browser shows
    \* threads
    main,
    server,
    crashed

communication == <<need_publish_lsp_documents_, stop_server_thread_, start_result>>
flusher == <<lock, backends, registered_threads, uncommitted, visiting, writes, holds_queue,
             flush_requested>>
mongoose == <<pipe, wakeups, connection, shown>>
threads == <<main, server>>
client == <<messages, documents>>
debugVars == <<client, communication, tracer_backends_, queues, flusher, mongoose, threads, crashed>>

\* What is written to a queue: headers and messages (Other), or documents.  A
\* queue is the set of what it holds: that it keeps the order is the promise of
\* AsyncByteQueue, and of documents the latest are the greatest number.
Other == -1
NotShown == -1
Browsers == 1 .. MaxBrowsers
Items == {Other} \cup 0 .. MaxMessages
Threads == {"main", "server"}
Holders == {"server", "flushing"}

DebugTypeOK ==
    /\ messages \in 0 .. MaxMessages /\ documents \in 0 .. messages
    /\ need_publish_lsp_documents_ \in BOOLEAN /\ stop_server_thread_ \in BOOLEAN
    /\ start_result \in {"none", "initialized", "error"}
    /\ tracer_backends_ \in Seq(Browsers) /\ backends \in Seq(Browsers)
    /\ queues \in [Browsers -> SUBSET Items]
    /\ lock \in Holders \cup {"free"}
    /\ registered_threads \in Seq(Threads) /\ visiting \in Seq(Threads)
    /\ uncommitted \in [Threads -> SUBSET Items]
    /\ writes \in Seq([to : Browsers, data : SUBSET Items])
    /\ holds_queue \in BOOLEAN /\ flush_requested \in BOOLEAN
    /\ pipe \in {"none", "open", "closing", "closed"} /\ wakeups \in 0 .. PipeCapacity
    /\ connection \in [Browsers -> {"none", "connecting", "open", "leaving", "closed"}]
    /\ shown \in [Browsers -> {NotShown} \cup 0 .. MaxMessages]
    /\ main \in {"starting", "waiting", "running", "edited", "probing", "handled", "destroying",
                 "stopping", "joining", "exited"}
    /\ server \in {"none", "starting", "listening", "looping", "polling", "polled", "opened",
                   "enabling", "enabled", "waking", "read", "publishing", "written", "flushing",
                   "sending", "leaving", "unregistering", "freeing", "ended"}
    /\ crashed \in {"", "assertion", "dangling"}

DebugInit ==
    /\ messages = 0 /\ documents = 0
    /\ need_publish_lsp_documents_ = FALSE /\ stop_server_thread_ = FALSE
    /\ start_result = "none"
    /\ tracer_backends_ = << >> /\ backends = << >>
    /\ queues = [k \in Browsers |-> {}]
    /\ lock = "free"
    /\ registered_threads = <<"main">> /\ visiting = << >>
    /\ uncommitted = [t \in Threads |-> {}]
    /\ writes = << >> /\ holds_queue = FALSE /\ flush_requested = FALSE
    /\ pipe = "none" /\ wakeups = 0
    /\ connection = [k \in Browsers |-> "none"]
    /\ shown = [k \in Browsers |-> NotShown]
    /\ main = "starting" /\ server = "none"
    /\ crashed = ""
-----------------------------------------------------------------------------
(***************************************************************************)
(* wake_up_server_thread.  The socket blocks when its buffer is full; the  *)
(* caller then keeps its mutexes, as it does here by not getting on.  A    *)
(* socket whose other end is closed may take one more byte; after that, or *)
(* if bytes were left unread, send() fails and the assertion with it.      *)
(***************************************************************************)
wake_up_server_thread ==
    IF start_result # "initialized" THEN UNCHANGED <<wakeups, crashed>>
    ELSE IF pipe # "closed"
         THEN /\ PipeFills => wakeups < PipeCapacity
              /\ wakeups' = IF wakeups < PipeCapacity THEN wakeups + 1 ELSE wakeups
              /\ UNCHANGED crashed
         ELSE crashed' \in {"", "assertion"} /\ UNCHANGED wakeups

\* stop_server_thread holds state_ of the debug server from before it sets the
\* flag until it has woken the thread up; the others lock it to wake it up.
StateIsLocked == main = "stopping"

\* trace_writer_for_current_thread(), which is null without a backend
HasWriter == backends # << >>

\* erase(find(k))
Without(s, k) ==
    IF k \in Range(s) THEN RemoveAt(s, CHOOSE i \in DOMAIN s : s[i] = k) ELSE s
-----------------------------------------------------------------------------
(* Flushing: the calls of a thread that holds state_ of the flusher.       *)

WritesOf(data) == [i \in DOMAIN backends |-> [to |-> backends[i], data |-> data]]

\* take_committed calls every backend, even when there is nothing to take.
FlushThread ==
    /\ writes = << >> /\ visiting # << >>
    /\ writes' = WritesOf(uncommitted[Head(visiting)])
    /\ uncommitted' = [uncommitted EXCEPT ![Head(visiting)] = {}]
    /\ visiting' = IF backends = << >> THEN Tail(visiting) ELSE visiting
    /\ UNCHANGED <<queues, holds_queue, wakeups, crashed>>

\* trace_thread_write_data: locks thread_queues_, appends and commits, ...
AppendToQueue ==
    /\ writes # << >> /\ ~holds_queue
    /\ queues' = [queues EXCEPT ![Head(writes).to] = @ \cup Head(writes).data]
    /\ holds_queue' = TRUE
    /\ UNCHANGED <<writes, visiting, uncommitted, wakeups, crashed>>

\* ... and wakes up, before it unlocks.  A thread that wrote more meanwhile is
\* flushed again.
WakeUpForQueue ==
    LET IsFlushed == Len(writes) = 1 /\ visiting # << >> /\ uncommitted[Head(visiting)] = {}
    IN  /\ holds_queue
        /\ ~StateIsLocked
        /\ wake_up_server_thread
        /\ writes' = Tail(writes)
        /\ visiting' = IF IsFlushed THEN Tail(visiting) ELSE visiting
        /\ holds_queue' = FALSE
        /\ UNCHANGED <<uncommitted, queues>>

Flush(holder) ==
    /\ lock = holder
    /\ FlushThread \/ AppendToQueue \/ WakeUpForQueue
    /\ UNCHANGED <<client, communication, tracer_backends_, lock, backends, registered_threads,
                   flush_requested, pipe, connection, shown, threads>>

Lock(holder) == lock = "free" /\ lock' = holder
Unlock(holder) == lock = holder /\ writes = << >> /\ visiting = << >> /\ lock' = "free"

\* The flushing thread was notified, or woke up without.
FlusherLocks ==
    /\ flush_requested
    /\ Lock("flushing")
    /\ flush_requested' = FALSE
    /\ visiting' = registered_threads
    /\ UNCHANGED <<client, communication, tracer_backends_, queues, backends,
                   registered_threads, uncommitted, writes, holds_queue, mongoose, threads, crashed>>
FlusherUnlocks ==
    /\ Unlock("flushing")
    /\ UNCHANGED <<client, communication, tracer_backends_, queues, backends,
                   registered_threads, uncommitted, visiting, writes, holds_queue, flush_requested,
                   mongoose, threads, crashed>>
-----------------------------------------------------------------------------
(* The server thread: run_on_current_thread                                *)

RegisterThread ==
    /\ server = "starting"
    /\ lock = "free"
    /\ registered_threads' = Append(registered_threads, "server")
    /\ server' = "listening"
    /\ UNCHANGED <<client, communication, tracer_backends_, queues, lock, backends, uncommitted,
                   visiting, writes, holds_queue, flush_requested, mongoose, main, crashed>>

Listen ==
    /\ server = "listening"
    /\ \/ start_result' = "initialized" /\ pipe' = "open" /\ server' = "looping"
       \/ start_result' = "error" /\ server' = "unregistering" /\ UNCHANGED pipe
    /\ UNCHANGED <<client, need_publish_lsp_documents_, stop_server_thread_, tracer_backends_,
                   queues, flusher, wakeups, connection, shown, main, crashed>>

\* The server thread goes on to where, and does nothing else.
Goes(from, where) ==
    /\ server = from
    /\ server' = where
    /\ UNCHANGED <<client, communication, tracer_backends_, queues, flusher, mongoose, main,
                   crashed>>

Loop == Goes("looping", IF stop_server_thread_ THEN "unregistering" ELSE "polling")

\* mg_mgr_poll: waits for an event, calls back for every connection that has
\* one - the pipe comes after the WebSockets, which are newer - and returns.
InPoll == server \in {"polling", "polled"}
PollReturns == Goes("polled", "looping")

\* MG_EV_WS_OPEN, up to the lock of the flusher
Opened(k) ==
    /\ InPoll
    /\ connection[k] = "connecting"
    /\ connection' = [connection EXCEPT ![k] = "open"]
    /\ tracer_backends_' = Append(tracer_backends_, k)
    /\ server' = "opened"
    /\ UNCHANGED <<client, communication, queues, flusher, pipe, wakeups, shown, main, crashed>>

\* enable_backend tells the backend of all threads there are.
EnableBackend ==
    /\ server = "opened"
    /\ Lock("server")
    /\ backends' = Append(backends, Last(tracer_backends_))
    /\ writes' = [i \in DOMAIN registered_threads |->
                     [to |-> Last(tracer_backends_), data |-> {Other}]]
    /\ server' = "enabling"
    /\ UNCHANGED <<client, communication, tracer_backends_, queues, registered_threads,
                   uncommitted, visiting, holds_queue, flush_requested, mongoose, main, crashed>>

\* enable_backend returns; the browser is to see the documents there are.
RequestForNewBackend ==
    /\ server = "enabling"
    /\ Unlock("server")
    /\ need_publish_lsp_documents_' = TRUE
    /\ server' = "waking"
    /\ UNCHANGED <<client, stop_server_thread_, start_result, tracer_backends_, queues, backends,
                   registered_threads, uncommitted, visiting, writes, holds_queue, flush_requested,
                   mongoose, main, crashed>>

WakeUpForNewBackend ==
    /\ server = "waking"
    /\ ~StateIsLocked
    /\ wake_up_server_thread
    /\ server' = "polled"
    /\ UNCHANGED <<client, communication, tracer_backends_, queues, flusher, pipe, connection,
                   shown, main>>

CloseBackend_KeepEnabled(k) ==
    /\ lock = "free"
    /\ connection' = [connection EXCEPT ![k] = "closed"]
    /\ backends' = backends  \* mutated
    /\ tracer_backends_' = Without(tracer_backends_, k)
    /\ queues' = [queues EXCEPT ![k] = {}]

\* MG_EV_CLOSE: disable_backend, and the backend is destroyed.
CloseBackend(k) ==
    /\ lock = "free"
    /\ connection' = [connection EXCEPT ![k] = "closed"]
    /\ backends' = Without(backends, k)
    /\ tracer_backends_' = Without(tracer_backends_, k)
    /\ queues' = [queues EXCEPT ![k] = {}]

Closed(k) ==
    /\ InPoll
    /\ connection[k] = "leaving"
    /\ CloseBackend(k)
    /\ server' = "polled"
    /\ UNCHANGED <<client, communication, lock, registered_threads, uncommitted, visiting, writes,
                   holds_queue, flush_requested, pipe, wakeups, shown, main, crashed>>

\* wakeup_pipe_callback: all wake-ups there are become one callback.
ReadPipe ==
    /\ InPoll
    /\ wakeups > 0
    /\ wakeups' = 0
    /\ pipe' = IF stop_server_thread_ THEN "closing" ELSE "open"
    /\ server' = "read"
    /\ UNCHANGED <<client, communication, tracer_backends_, queues, flusher, connection, shown,
                   main, crashed>>

TestNeedPublish_OrReturn ==
    /\ server = "read"
    /\ need_publish_lsp_documents_' = FALSE
    /\ server' = IF need_publish_lsp_documents_ THEN "publishing" ELSE "looping"  \* mutated
    /\ UNCHANGED <<client, stop_server_thread_, start_result, tracer_backends_, queues, flusher,
                   mongoose, main, crashed>>

\* publish_lsp_documents_if_needed: the flag is cleared before the documents
\* are looked at, ...
TestNeedPublish ==
    /\ server = "read"
    /\ need_publish_lsp_documents_' = FALSE
    /\ server' = IF need_publish_lsp_documents_ THEN "publishing" ELSE "sending"
    /\ UNCHANGED <<client, stop_server_thread_, start_result, tracer_backends_, queues, flusher,
                   mongoose, main, crashed>>

\* ... which the handler of the language server owns.
HandlerIsDestroyed == main \in {"destroying", "stopping", "joining", "exited"}

WriteDocuments ==
    /\ server = "publishing"
    /\ \/ ~HasWriter /\ server' = "sending" /\ UNCHANGED <<uncommitted, crashed>>
       \/ /\ HasWriter /\ HandlerIsDestroyed
          /\ crashed' = "dangling" /\ UNCHANGED <<server, uncommitted>>
       \/ /\ HasWriter /\ ~HandlerIsDestroyed
          /\ uncommitted' = [uncommitted EXCEPT !["server"] = @ \cup {documents}]
          /\ server' = "written"
          /\ UNCHANGED crashed
    /\ UNCHANGED <<client, communication, tracer_backends_, queues, lock, backends,
                   registered_threads, visiting, writes, holds_queue, flush_requested, mongoose,
                   main>>

FlushSync_ThenClear ==
    /\ server = "written"
    /\ Lock("server")
    /\ visiting' = registered_threads
    /\ need_publish_lsp_documents_' = FALSE  \* mutated
    /\ server' = "flushing"
    /\ UNCHANGED <<client, stop_server_thread_, start_result, tracer_backends_, queues, backends,
                   registered_threads, uncommitted, writes, holds_queue, flush_requested, mongoose, main,
                   crashed>>

\* flush_sync
FlushSync ==
    /\ server = "written"
    /\ Lock("server")
    /\ visiting' = registered_threads
    /\ server' = "flushing"
    /\ UNCHANGED <<client, communication, tracer_backends_, queues, backends, registered_threads,
                   uncommitted, writes, holds_queue, flush_requested, mongoose, main, crashed>>
FlushSyncReturns ==
    /\ server = "flushing"
    /\ Unlock("server")
    /\ server' = "sending"
    /\ UNCHANGED <<client, communication, tracer_backends_, queues, backends, registered_threads,
                   uncommitted, visiting, writes, holds_queue, flush_requested, mongoose, main, crashed>>

\* The last documents among what is sent, or those shown before
ShownAfter(k) ==
    LET published == queues[k] \ {Other}
    IN  IF published = {} THEN shown[k] ELSE Max(published)

\* flush_if_needed of every backend, for which nobody may hold thread_queues_;
\* then the callback of the pipe returns, and closes it if it was to.
SendToBrowsers ==
    /\ server = "sending"
    /\ ~holds_queue
    /\ shown' = [k \in Browsers |->
                    IF k \in Range(tracer_backends_) THEN ShownAfter(k) ELSE shown[k]]
    /\ queues' = [k \in Browsers |-> IF k \in Range(tracer_backends_) THEN {} ELSE queues[k]]
    /\ pipe' = IF pipe = "closing" THEN "closed" ELSE pipe
    /\ server' = "looping"
    /\ UNCHANGED <<client, communication, tracer_backends_, flusher, wakeups, connection, main,
                   crashed>>

\* unregister_current_thread flushes the thread if there is a backend.
Unregister ==
    /\ server = "unregistering"
    /\ Lock("server")
    /\ visiting' = IF HasWriter THEN <<"server">> ELSE << >>
    /\ server' = "leaving"
    /\ UNCHANGED <<client, communication, tracer_backends_, queues, backends, registered_threads,
                   uncommitted, writes, holds_queue, flush_requested, mongoose, main, crashed>>
Unregistered ==
    /\ server = "leaving"
    /\ Unlock("server")
    /\ registered_threads' = <<"main">>
    /\ server' = "freeing"
    /\ UNCHANGED <<client, communication, tracer_backends_, queues, backends, uncommitted,
                   visiting, writes, holds_queue, flush_requested, mongoose, main, crashed>>

\* mg_mgr_free closes the connections, the newest first and the pipe last.
FreeConnection ==
    /\ server = "freeing"
    /\ tracer_backends_ # << >>
    /\ CloseBackend(Last(tracer_backends_))
    /\ UNCHANGED <<client, communication, lock, registered_threads, uncommitted, visiting, writes,
                   holds_queue, flush_requested, pipe, wakeups, shown, main, server, crashed>>
FreeManager ==
    /\ server = "freeing"
    /\ tracer_backends_ = << >>
    /\ pipe' = IF pipe = "none" THEN pipe ELSE "closed"
    /\ connection' = [k \in Browsers |-> "closed"]
    /\ server' = "ended"
    /\ UNCHANGED <<client, communication, tracer_backends_, queues, flusher, wakeups, shown, main,
                   crashed>>
-----------------------------------------------------------------------------
(* The thread of the language server, and the browsers                     *)

StartServerThread ==
    /\ main = "starting"
    /\ server' = "starting"
    /\ main' = "waiting"
    /\ UNCHANGED <<client, communication, tracer_backends_, queues, flusher, mongoose, crashed>>

\* The main thread goes on to where, and does nothing else.
MainGoes(from, where) ==
    /\ main = from
    /\ main' = where
    /\ UNCHANGED <<client, communication, tracer_backends_, queues, flusher, mongoose, server,
                   crashed>>

WaitForServerStart == start_result # "none" /\ MainGoes("waiting", "running")

\* A message is traced.  It edits a document, or something else is done.
Message ==
    /\ main = "running"
    /\ messages < MaxMessages
    /\ messages' = messages + 1
    /\ uncommitted' = [uncommitted EXCEPT !["main"] = IF HasWriter THEN @ \cup {Other} ELSE @]
    /\ \/ documents' = documents + 1 /\ main' = "edited"
       \/ main' = "handled" /\ UNCHANGED documents
    /\ UNCHANGED <<communication, tracer_backends_, queues, lock, backends, registered_threads,
                   visiting, writes, holds_queue, flush_requested, mongoose, server, crashed>>

\* debug_probe_publish_lsp_documents
RequestPublish ==
    /\ main = "edited"
    /\ need_publish_lsp_documents_' = TRUE
    /\ main' = "probing"
    /\ UNCHANGED <<client, stop_server_thread_, start_result, tracer_backends_, queues, flusher,
                   mongoose, server, crashed>>

WakeUpToPublish ==
    /\ main = "probing"
    /\ wake_up_server_thread
    /\ main' = "handled"
    /\ UNCHANGED <<client, communication, tracer_backends_, queues, flusher, pipe, connection,
                   shown, server>>

\* append() ends with flush_async().
FlushAsync ==
    /\ main = "handled"
    /\ flush_requested' = TRUE
    /\ main' = "running"
    /\ UNCHANGED <<client, communication, tracer_backends_, queues, lock, backends,
                   registered_threads, uncommitted, visiting, writes, holds_queue, mongoose, server,
                   crashed>>

\* run() returned at the end of the input: members are destroyed in the
\* reverse order of their declaration, the handler before the debug server.
DestroyHandler == MainGoes("running", "destroying")

\* stop_server_thread, in the destructor: the flag, which the thread reads
\* without a lock, so that it may have ended before the wake-up is sent
StopServerThread ==
    /\ main = "destroying"
    /\ stop_server_thread_' = TRUE
    /\ main' = "stopping"
    /\ UNCHANGED <<client, need_publish_lsp_documents_, start_result, tracer_backends_, queues,
                   flusher, mongoose, server, crashed>>

WakeUpToStop_Silent == MainGoes("stopping", "joining")  \* mutated

WakeUpToStop ==
    /\ main = "stopping"
    /\ wake_up_server_thread
    /\ main' = "joining"
    /\ UNCHANGED <<client, communication, tracer_backends_, queues, flusher, pipe, connection,
                   shown, server>>

\* ~Debug_Server joins the thread and disables the backends that are left.
JoinServerThread ==
    /\ main = "joining"
    /\ server = "ended"
    /\ tracer_backends_ # << >> => lock = "free"
    /\ backends' = IF tracer_backends_ = << >> THEN backends
                   ELSE SelectSeq(backends, LAMBDA k : k \notin Range(tracer_backends_))
    /\ main' = "exited"
    /\ UNCHANGED <<client, communication, tracer_backends_, queues, lock, registered_threads,
                   uncommitted, visiting, writes, holds_queue, flush_requested, mongoose, server,
                   crashed>>

Browse(k) ==
    /\ \/ /\ connection[k] = "none" /\ pipe = "open"
          /\ k > 1 => connection[k - 1] # "none"
          /\ connection' = [connection EXCEPT ![k] = "connecting"]
       \/ /\ connection[k] = "open"
          /\ connection' = [connection EXCEPT ![k] = "leaving"]
    /\ UNCHANGED <<client, communication, tracer_backends_, queues, flusher, pipe, wakeups, shown,
                   threads, crashed>>
-----------------------------------------------------------------------------
ServerStep ==
    \/ RegisterThread \/ Listen \/ Loop \/ PollReturns
    \/ \E k \in Browsers : Opened(k) \/ Closed(k)
    \/ EnableBackend \/ RequestForNewBackend \/ WakeUpForNewBackend
    \/ ReadPipe \/ TestNeedPublish \/ WriteDocuments \/ FlushSync \/ FlushSyncReturns
    \/ SendToBrowsers \/ Unregister \/ Unregistered \/ FreeConnection \/ FreeManager
HolderStep == (\E holder \in Holders : Flush(holder)) \/ FlusherUnlocks
MainCall ==
    \/ StartServerThread \/ WaitForServerStart \/ RequestPublish \/ WakeUpToPublish
    \/ FlushAsync \/ StopServerThread \/ WakeUpToStop \/ JoinServerThread
Environment == Message \/ DestroyHandler \/ FlusherLocks \/ \E k \in Browsers : Browse(k)

Running == crashed = ""
DebugNext == Running /\ (ServerStep \/ HolderStep \/ MainCall \/ Environment)

(***************************************************************************)
(* The threads are scheduled, and the flushing thread does not keep the    *)
(* others from the lock for ever.  Nobody has to edit, browse, end the     *)
(* input, or flush.                                                        *)
(***************************************************************************)
DebugSpec ==
    /\ DebugInit /\ [][DebugNext]_debugVars
    /\ WF_debugVars(Running /\ ServerStep) /\ WF_debugVars(Running /\ HolderStep)
    /\ WF_debugVars(Running /\ MainCall)
-----------------------------------------------------------------------------
IsServed(k) == connection[k] = "open" /\ Running /\ ~HandlerIsDestroyed

\* debug-probe.h:15: after an edit "this function will push document data to
\* opened browsers" - to those that were open, and to those that open while
\* the documents are edited or another publication is under way.  And what a
\* backend was given does not stay behind, whoever flushed it and whatever the
\* server thread was doing.
BrowsersAreUpToDate ==
    \A k \in Browsers : []<>(IsServed(k) => shown[k] = documents /\ queues[k] = {})

\* Starting, publishing, flushing and stopping come to an end: the threads,
\* three mutexes and the pipe between them never wait in a circle, as long as
\* the pipe has room: with PipeFills they may, the server thread waiting for
\* room in the pipe that only it empties.
CallsReturn ==
    /\ main \in {"waiting", "edited", "probing"} /\ Running ~> main = "running" \/ ~Running
    /\ main = "destroying" ~> main = "exited" \/ ~Running
    /\ lock # "free" ~> lock = "free" \/ ~Running

\* The flusher never calls a backend that was destroyed, nor one of a server
\* that was; ~Trace_Flusher finds no backend (trace-flusher.cpp:58).
BackendsAreAlive ==
    /\ Range(backends) \subseteq Range(tracer_backends_)
    /\ \A i \in DOMAIN writes : writes[i].to \in Range(tracer_backends_)
    /\ main = "exited" => backends = << >> /\ writes = << >>
=============================================================================
