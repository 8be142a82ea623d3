----------------------------- MODULE LspSession -----------------------------
(***************************************************************************)
(* A session of the language server from pipe to pipe: the event loop on   *)
(* poll() (Poll_Event_Loop), the framing and the JSON-RPC dispatch of what *)
(* it reads, the messages of the handler that belong to no document, the   *)
(* queues of messages to send, and the pipe writer that never blocks       *)
(* (Non_Blocking_Pipe_Writer).  Documents and configuration files are the  *)
(* matter of LspServer: here a notification about a document makes the     *)
(* handler queue a notification of its own and may make the file system    *)
(* report a watch that failed.                                             *)
(*                                                                         *)
(* The client writes a stream of frames, in any pieces, and reads what the *)
(* server wrote when it likes; both pipes hold a bounded number of bytes.  *)
(* append() handles one message in a step, and writes in one.              *)
(*                                                                         *)
(***************************************************************************)
EXTENDS LspMessageParser, FiniteSetsExt

CONSTANTS Streams,     \* what a client may send in a session: sequences of frames
          Message,     \* the JSON of a content: see Kinds
          Content,     \* contents the client puts into frames
          InCapacity,  \* bytes the pipe to the server holds
          OutCapacity, \* bytes the pipe to the client holds
          MaxFsEvents, \* bound on changes of the file system in a session
          NoBackend,   \* no tracing backend
          NotCreated   \* directories in which no tracing directory can be created

(***************************************************************************)
(* A frame has header lines and a content.  The JSON of a content has: the *)
(* kind of the value; of "id" none, what request 1 of the server has,      *)
(* another number, a string, an object, or broken JSON; of "method" a      *)
(* name, none or no string; of "error" and "result" whether they are there *)
(* and well formed; and the settings it carries.                           *)
(***************************************************************************)
Frame == [headers : Seq(Seq(STRING)), content : Seq(STRING)]
Kinds == [json : {"object", "array", "broken"},
          id : {"none", "1", "number", "string", "object", "broken"},
          method : {"none", "no_string", "initialize", "shutdown", "unknown", "initialized",
                    "exit", "didChangeConfiguration", "document"},
          error : {"none", "good", "malformed"},
          result : BOOLEAN,
          settings : Seq(STRING)]

ASSUME SessionAssumption ==
    /\ \A s \in Streams : s \in Seq(Frame)
    /\ Message \in [Content -> Kinds]
    /\ \A s \in Streams : \A i \in 1 .. Len(s) : s[i].content = <<>> \/ s[i].content[1] \in Content
    /\ InCapacity \in Nat \ {0} /\ OutCapacity \in Nat \ {0} /\ MaxFsEvents \in Nat

(* A client keeps to the framing: a header line is not empty and has neither CR nor LF, and the *)
(* content is as long as the first Content-Length that is a number says, empty if there is none. *)
WellFramed(f) ==
    LET lines == 1 .. Len(f.headers)
    IN  /\ f.headers # <<>>
        /\ \A i \in lines : f.headers[i] # <<>> /\ Range(f.headers[i]) \cap {"CR", "LF"} = {}
        /\ \A i \in lines :
              IsGoodLength(f.headers[i]) /\ (\A j \in 1 .. i - 1 : ~IsGoodLength(f.headers[j]))
              => ContentLength[f.headers[i][1]] = Len(f.content)
        /\ (\A i \in lines : ~IsGoodLength(f.headers[i])) => f.content = <<>>

ASSUME FramesAssumption == \A s \in Streams : \A i \in 1 .. Len(s) : WellFramed(s[i])

FrameBytes(f) ==
    FlattenSeq([i \in 1 .. Len(f.headers) |-> f.headers[i] \o CrLf]) \o CrLf \o f.content
StreamBytes(s) == FlattenSeq([i \in 1 .. Len(s) |-> FrameBytes(s[i])])
BytesOf == [s \in Streams |-> StreamBytes(s)]

VARIABLES
    stream,     \* the frames of this session's client
    written,    \* bytes of the stream the client has written
    closed,     \* the client has closed its end
    consumed,   \* bytes of the stream the server has read
    handler,    \* the handler, the two queues, the errors of watches that wait, see Init
    sent,       \* every message given to the writer, oldest first
    pending_,   \* of Non_Blocking_Pipe_Writer: bytes not written yet
    out_pipe,   \* bytes in the pipe to the client
    received,   \* bytes the client has read
    fs_events,  \* changes not read from the inotify descriptor
    changes,    \* how many there were
    pc          \* the loop: "read", "parse", "poll", "exited"

client == <<stream, written, closed>>
input == <<consumed, parser>>
output == <<sent, pending_, out_pipe>>
fs == <<fs_events, changes>>
vars == <<client, input, handler, output, received, fs, pc>>

Init ==
    /\ stream \in Streams
    /\ written = 0 /\ closed = FALSE
    /\ consumed = 0
    /\ InitParser
    /\ handler = [error_responses |-> <<>>, outgoing_messages |-> <<>>,
                  shutdown_requested |-> FALSE, tracing_directory |-> "",
                  tracer_backend |-> NoBackend, enabled |-> {}, backends |-> 0,
                  did_report_watch_io_error |-> FALSE, watch_errors |-> FALSE,
                  handled |-> <<>>, exit |-> "no"]
    /\ sent = <<>> /\ pending_ = <<>> /\ out_pipe = <<>>
    /\ received = <<>>
    /\ fs_events = 0 /\ changes = 0
    /\ pc = "read"

-----------------------------------------------------------------------------
(* Settings (LSP_Workspace_Configuration).  One is known: the directory for traces. *)

(* The callback: a new directory replaces the backend; the old one is disabled before it dies. *)
WithoutBackend(h) ==
    [h EXCEPT !.tracer_backend = NoBackend, !.enabled = @ \ {h.tracer_backend}]
WithBackend(h, directory) ==
    IF directory = "" \/ directory \in NotCreated THEN h
    ELSE [h EXCEPT !.backends = @ + 1, !.tracer_backend = h.backends + 1,
                   !.enabled = @ \cup {h.backends + 1}]
SetTracingDirectory(h, directory) ==
    IF directory = h.tracing_directory THEN h
    ELSE WithBackend(WithoutBackend([h EXCEPT !.tracing_directory = directory]), directory)

(* process_notification: one setting after the other; a value of a wrong type ends it, what *)
(* came before it stays.  Unknown settings are skipped. *)
GoodSettings(settings) == \A i \in 1 .. Len(settings) : settings[i] # "bad"
ProcessSetting(h, settings, i) ==
    IF settings[i] = "other" \/ \E j \in 1 .. i : settings[j] = "bad" THEN h
    ELSE SetTracingDirectory(h, settings[i])
ProcessNotification(h, settings) ==
    LET after[i \in 0 .. Len(settings)] ==
            IF i = 0 THEN h ELSE ProcessSetting(after[i - 1], settings, i)
    IN  after[Len(settings)]

(* process_response: the results belong to the settings asked for, one after the other. *)
ProcessResponse(h, results) ==
    IF results = <<>> \/ results[1] = "bad" THEN h ELSE SetTracingDirectory(h, results[1])

-----------------------------------------------------------------------------
(* JSON-RPC (LSP_JSON_RPC_Message_Parser) and the handler. *)

(* A message to the client; "to" is the number of the message it answers, 0 for none. *)
Outgoing(kind, to) == [kind |-> kind, to |-> to]
Bytes(m) == <<[m |-> m, part |-> "header"], [m |-> m, part |-> "json"]>>

Error(h, kind) ==
    [h EXCEPT !.error_responses = Append(@, Outgoing(kind, Len(h.handled)))]
Say(h, kind, to) == [h EXCEPT !.outgoing_messages = Append(@, Outgoing(kind, to))]
Answer(h, kind) == Say(h, kind, Len(h.handled))

Initialize(h, m) ==
    LET processed == ProcessNotification(h, m.settings)
    IN  IF GoodSettings(m.settings) THEN Answer(processed, "result") ELSE processed
Shutdown(h) == [Answer(h, "result") EXCEPT !.shutdown_requested = TRUE]

HandleRequest_Known(h, m) ==  \* mutated: an unknown method is not answered
    IF m.method = "initialize" THEN Initialize(h, m)
    ELSE IF m.method = "shutdown" THEN Shutdown(h) ELSE h
HandleRequest(h, m) ==
    IF m.method = "initialize" THEN Initialize(h, m)
    ELSE IF m.method = "shutdown" THEN Shutdown(h)
    ELSE Answer(h, "method_not_found")

HandleResponse(h, m) == IF m.id = "1" THEN ProcessResponse(h, m.settings) ELSE h

Exit(h) == [h EXCEPT !.exit = IF h.shutdown_requested THEN "0" ELSE "1"]

HandleNotification(h, m) ==
    CASE m.method = "initialized" -> Say(h, "configuration_request", 0)
      [] m.method = "exit" -> Exit(h)
      [] m.method = "didChangeConfiguration" -> ProcessNotification(h, m.settings)
      [] m.method = "document" -> [Say(h, "diagnostics", 0) EXCEPT !.watch_errors = TRUE]
      [] OTHER -> h

(* handle_message and its callers, from the first test that fails to the four shapes. *)
ParseError(m) == m.json = "broken" \/ (m.json = "object" /\ m.id = "broken")
Malformed(m) == m.id = "object" \/ m.method = "no_string" \/ m.error = "malformed"
Has(m) == [id |-> m.id # "none", method |-> m.method # "none",
           error |-> m.error # "none", result |-> m.result]
Shape(id, method, error, result) ==
    [id |-> id, method |-> method, error |-> error, result |-> result]

Dispatch(h, m) ==
    CASE ParseError(m) -> Error(h, "parse_error")
      [] ~ParseError(m) /\ m.json = "array" -> Error(h, "no_batches")
      [] m.json = "object" /\ m.id # "broken" /\ Malformed(m) -> Error(h, "invalid_request")
      [] OTHER ->
           CASE Has(m) = Shape(TRUE, TRUE, FALSE, FALSE) -> HandleRequest(h, m)
             [] Has(m) = Shape(TRUE, FALSE, TRUE, FALSE) /\ m.id # "string" -> h
             [] Has(m) = Shape(TRUE, FALSE, FALSE, TRUE) /\ m.id # "string" -> HandleResponse(h, m)
             [] Has(m) = Shape(FALSE, TRUE, FALSE, FALSE) -> HandleNotification(h, m)
             [] OTHER -> Error(h, "invalid_request")

NotJson == [json |-> "broken", id |-> "none", method |-> "none", error |-> "none",
            result |-> FALSE, settings |-> <<>>]
Json(content) == IF content = <<>> \/ content[1] \notin Content THEN NotJson ELSE Message[content[1]]

(* message_parsed *)
MessageParsed(h, content) == Dispatch([h EXCEPT !.handled = Append(@, content)], Json(content))

-----------------------------------------------------------------------------
(* The queues and the writer. *)

(* write_as_much_as_possible_now_non_blocking: until the pipe is full.  pending is all that *)
(* waits, older bytes first. *)
WriteAsMuchAsPossible(pending) ==
    LET room == OutCapacity - Len(out_pipe)
        n == IF room < Len(pending) THEN room ELSE Len(pending)
    IN  /\ out_pipe' = out_pipe \o SubSeq(pending, 1, n)
        /\ pending_' = SubSeq(pending, n + 1, Len(pending))

(* Non_Blocking_Pipe_Writer::write of one message after the other. *)
Queued_InFront(messages) ==  \* mutated: a message overtakes what is pending
    FlattenSeq([i \in 1 .. Len(messages) |-> Bytes(messages[i])]) \o pending_
Queued(messages) == pending_ \o FlattenSeq([i \in 1 .. Len(messages) |-> Bytes(messages[i])])
Write(messages) ==
    /\ sent' = sent \o messages
    /\ WriteAsMuchAsPossible(Queued(messages))

(* add_watch_io_errors: the first errors of a session are shown, later ones are not. *)
AddWatchIoErrors(h) ==
    LET taken == [h EXCEPT !.watch_errors = FALSE]
    IN  IF h.watch_errors /\ ~h.did_report_watch_io_error
        THEN [Say(taken, "show_message", 0) EXCEPT !.did_report_watch_io_error = TRUE]
        ELSE taken

-----------------------------------------------------------------------------
(* The loop (Poll_Event_Loop::run). *)

InPipe == SubSeq(BytesOf[stream], consumed + 1, written)

(* read_from_pipe: all there is, nothing (EAGAIN), or the end of the file. *)
ReadChunk_Flushed ==  \* mutated: output is flushed before more input is read
    /\ pc = "read" /\ InPipe # <<>> /\ pending_ = <<>>
    /\ consumed' = written
    /\ AppendData(InPipe)
    /\ pc' = "parse"
    /\ UNCHANGED <<client, handler, output, received, fs>>
ReadChunk ==
    /\ pc = "read" /\ InPipe # <<>>
    /\ consumed' = written
    /\ AppendData(InPipe)
    /\ pc' = "parse"
    /\ UNCHANGED <<client, handler, output, received, fs>>

ReadNothing ==
    /\ pc = "read" /\ InPipe = <<>> /\ ~closed
    /\ pc' = "poll"
    /\ UNCHANGED <<client, input, handler, output, received, fs>>

ReadEof ==
    /\ pc = "read" /\ InPipe = <<>> /\ closed
    /\ pc' = "exited"
    /\ UNCHANGED <<client, input, handler, output, received, fs>>

(* append of the delegate: all messages that are complete ... *)
HandleMessage ==
    /\ pc = "parse"
    /\ ParseContent
    /\ handler' = MessageParsed(handler, ParsedContent)
    /\ pc' = IF handler'.exit = "no" THEN "parse" ELSE "exited"
    /\ UNCHANGED <<client, consumed, output, received, fs>>

PassHeaders ==
    /\ pc = "parse"
    /\ ParseHeaders
    /\ UNCHANGED <<client, consumed, handler, output, received, fs, pc>>

(* ... then error responses, what the handler queued, and errors of watches. *)
FlushMessages ==
    /\ pc = "parse" /\ ~CanParse
    /\ Write(handler.error_responses \o AddWatchIoErrors(handler).outgoing_messages)
    /\ handler' = [AddWatchIoErrors(handler) EXCEPT !.error_responses = <<>>,
                                                   !.outgoing_messages = <<>>]
    /\ pc' = "poll"
    /\ UNCHANGED <<client, input, received, fs>>

CanWrite == pending_ # <<>> /\ Len(out_pipe) < OutCapacity

(* on_pipe_write_event *)
PipeWriteEvent ==
    IF CanWrite THEN WriteAsMuchAsPossible(pending_) /\ UNCHANGED sent ELSE UNCHANGED output

(* on_fs_changed_event: the handler refreshes the configuration files, which may show new *)
(* diagnostics and set watches that fail; such errors wait for the next append(). *)
FsReady_Flushed == fs_events > 0 /\ pending_ = <<>>  \* mutated
FsReady == fs_events > 0
FilesystemChanged ==
    \E diagnostics \in {<<>>, <<Outgoing("diagnostics", 0)>>}, failed \in BOOLEAN :
        /\ fs_events' = 0
        /\ handler' = [handler EXCEPT !.watch_errors = @ \/ failed]
        /\ Write(diagnostics)

(* poll: something to read is read before anything else is looked at. *)
PollReadable ==
    /\ pc = "poll" /\ InPipe # <<>>
    /\ pc' = "read"
    /\ UNCHANGED <<client, input, handler, output, received, fs>>

PollOthers ==
    /\ pc = "poll" /\ InPipe = <<>>
    /\ CanWrite \/ FsReady \/ closed
    /\ \/ FsReady /\ FilesystemChanged
       \/ ~FsReady /\ PipeWriteEvent /\ UNCHANGED <<handler, fs_events>>
    /\ pc' = "read"
    /\ UNCHANGED <<client, input, received, changes>>

Loop ==
    \/ ReadChunk \/ ReadNothing \/ ReadEof
    \/ HandleMessage \/ PassHeaders \/ FlushMessages
    \/ PollReadable \/ PollOthers

-----------------------------------------------------------------------------
(* The client and the file system. *)

ClientWrite ==
    /\ written < Len(BytesOf[stream]) /\ Len(InPipe) < InCapacity
    /\ written' = written + 1
    /\ UNCHANGED <<stream, closed, input, handler, output, received, fs, pc>>

ClientClose ==
    /\ written = Len(BytesOf[stream]) /\ ~closed
    /\ closed' = TRUE
    /\ UNCHANGED <<stream, written, input, handler, output, received, fs, pc>>

ClientRead ==
    /\ out_pipe # <<>>
    /\ received' = received \o out_pipe
    /\ out_pipe' = <<>>
    /\ UNCHANGED <<client, input, handler, sent, pending_, fs, pc>>

FsChange ==
    /\ changes < MaxFsEvents /\ pc # "exited"
    /\ changes' = changes + 1
    /\ fs_events' = fs_events + 1
    /\ UNCHANGED <<client, input, handler, output, received, pc>>

Next == Loop \/ ClientWrite \/ ClientClose \/ ClientRead \/ FsChange

(* The loop runs and the client writes what it has to say; nobody makes it read or close. *)
Spec ==
    /\ Init /\ [][Next]_vars
    /\ WF_vars(ReadChunk) /\ WF_vars(ReadNothing \/ ReadEof)
    /\ WF_vars(HandleMessage) /\ WF_vars(PassHeaders) /\ WF_vars(FlushMessages)
    /\ WF_vars(PollReadable) /\ WF_vars(PollOthers)
    /\ WF_vars(ClientWrite)

-----------------------------------------------------------------------------
Running == pc # "exited"
Settled == pc \in {"read", "poll"}  \* no append() is going on

(* What is handled is, frame by frame, what the client sent and the server has read in full, *)
(* however it came in pieces, whatever other headers a frame has and whatever bytes its content *)
(* has (LSP_Message_Parser::parse).  A frame without a length is skipped; one whose length is *)
(* no number counts as an empty message. *)
HasLength(f) == \E i \in 1 .. Len(f.headers) : f.headers[i][1] \in LengthHeaders \cup BadLengthHeaders
Complete(n) == Len(StreamBytes(SubSeq(stream, 1, n))) <= consumed
Contents(n) ==
    LET contents[k \in 0 .. n] ==
            IF k = 0 THEN <<>>
            ELSE IF HasLength(stream[k]) THEN Append(contents[k - 1], stream[k].content)
            ELSE contents[k - 1]
    IN  contents[n]
FramesAreHandledOnce ==
    LET read == Contents(Max({n \in 0 .. Len(stream) : Complete(n)}))
    IN  IF Settled THEN handler.handled = read ELSE IsPrefix(handler.handled, read)

(* The client reads whole messages, one after the other, in the order they were sent, though *)
(* the pipe may take only part of one at a time (Non_Blocking_Pipe_Writer). *)
OutputIsInOrder ==
    received \o out_pipe \o pending_ = FlattenSeq([i \in 1 .. Len(sent) |-> Bytes(sent[i])])

(* Every request and everything that is not JSON-RPC gets exactly one answer, notifications and *)
(* responses get none, in whatever pieces they came.  The exception is the code's: initialize *)
(* with settings that cannot be used is not answered (handle_initialize_request). *)
WellFormed(m) == m.json = "object" /\ m.id \notin {"broken", "object"} /\ m.method # "no_string"
                 /\ m.error # "malformed"
IsRequest(m) == m.id # "none" /\ m.method # "none" /\ m.error = "none" /\ ~m.result
IsNotification(m) == m.id = "none" /\ m.method # "none" /\ m.error = "none" /\ ~m.result
IsResponse(m) == m.id \in {"1", "number"} /\ m.method = "none" /\ ((m.error = "good") # m.result)
AnswersTo(m) ==
    IF WellFormed(m) /\ IsRequest(m) /\ m.method = "initialize" /\ ~GoodSettings(m.settings) THEN 0
    ELSE IF WellFormed(m) /\ (IsNotification(m) \/ IsResponse(m)) THEN 0 ELSE 1
AnsweredOnce ==
    \A n \in 1 .. Len(handler.handled) :
        LET answers == Cardinality({k \in DOMAIN sent : sent[k].to = n})
            due == AnswersTo(Json(handler.handled[n]))
        IN  IF Settled THEN answers = due ELSE answers <= due

(* Everything the client writes is read, even if it reads nothing itself before it is done: the *)
(* writer never waits for the client (Poll_Event_Loop, Non_Blocking_Pipe_Writer). *)
EverythingIsRead == <>(~Running \/ consumed = Len(BytesOf[stream]))

(* A change of the file system is looked at, also while the client does not read. *)
FsChangesAreNoticed == fs_events > 0 ~> (~Running \/ fs_events = 0)
=============================================================================
