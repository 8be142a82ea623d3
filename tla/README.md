# quick-lint-js: specifications, model checking and proofs

TLA+ models of the parts of quick-lint-js that keep state: what its threads
share, what its language server remembers between messages, how it notices
changes of files, the parser with its error recovery, and the one-pass algorithm
that decides which variables a program uses wrongly. Every definition is
translated from the code under `src/quick-lint-js/` (paths below are relative to
it); `PROJECT.json` maps each of them to its lines.

1. Inventory
2. Plan
3. Modules and how they correspond to the code
4. Runs: what they check, their bounds, what they show
5. Fairness
6. Proofs
7. Disagreements found
8. What is not modelled

## 1. Inventory

The program is a linter for JavaScript and TypeScript with three front ends: a
command line, a language server (LSP) and libraries for editors. Text flows
through lexer, parser and variable analyzer to diagnostics. In the language
server this pipeline is called from handlers of client messages and of file
system events; a trace of what happens is written by any thread and flushed
to files or to a debugging web page.

    stdin -> event loop -> message framing -> JSON-RPC dispatch
                |                                    |
     change-detecting fs                      LSP handlers <-> workspace config
                |   filesystem_changed()        |    |   |
                +-----> refresh() ---- configuration |   |
                                          loader     |   +-> outgoing queue
                                   (through overlay) |        -> pipe writer -> stdout
                                                     v
                                       lexer -> parser -> variable analyzer
    any thread -> trace writer -> async byte queue -> trace flusher -> backends
                                                      (directory, debug server)

| Component | State | Operations | Why it is hard | What makes it correct |
|---|---|---|---|---|
| Async byte queue, `container/async-byte-queue` | linked chunks, writer cursor, reader position | append, append_aligned, commit, take_committed, destructor | one writer and one reader; callbacks and the freeing of chunks run without the mutex | bytes arrive in order, once; nothing is used after it is freed or freed twice; a callback's bytes do not change |
| Trace flusher, `logging/trace-flusher` | backends, registered threads, flushing thread, thread-local pointers to writers | enable, disable, register, unregister, flush_sync, flush_async, start, stop | writers take no lock while backends come and go; a condition variable without a predicate | the contract of backends; each stream in one piece; one reader per queue; stop returns |
| Configuration loader, `configuration/configuration-loader` | cache of parsed files, two lists of watches | load, watch and load (two kinds), unwatch, refresh | the file system changes at any time, also within a refresh that looks at each file twice; the cache is changed in place under pointers of watchers | a refresh tells each watcher exactly what changed |
| Language server handlers, `lsp/lsp-server` | open documents, overlay of their texts, pointers to configurations | didOpen, didChange, didClose, filesystem_changed, initialize, settings | steps of one handler see different disks; the order of overlay, watch, refresh and publication | the client has the diagnostics of the present text under the present configuration |
| Variable analyzer, `fe/variable-analyzer` | stack of scopes, each with declarations and uses that wait | one visit per declaration, use, begin and end of a scope | one pass stands for two; hoisting, closures, eval, two namespaces | the diagnostics of the textbook two-pass lookup |
| Change-detecting file system, `configuration/change-detecting-filesystem-*` | watch descriptors, errors | read_file, canonicalize_path, handle_poll_event | a watch must precede the read; watches vanish with their directories | a change of a file that was read is followed by a refresh |
| Event loop, `io/event-loop-*` | none of its own | run | fairness between input, output and file events | none of the three starves, output keeps its order |
| Pipe writers, `io/pipe-writer` | pending bytes, a thread | write, flush, destructor | partial writes; a condition variable and a stop flag | bytes in order, flush returns when all are written |
| LSP message framing, `lsp/lsp-message-parser` | buffer, pending length | append | messages split at any byte | the messages do not depend on the chunks |
| JSON-RPC dispatch, `lsp/lsp-json-rpc-message-parser` | queue of error responses | message_parsed | malformed and ambiguous messages | one answer for each request |
| Workspace configuration, `lsp/lsp-workspace-configuration` | items with callbacks | build_request, process_response, process_notification | partly bad answers; callbacks that enable tracing | settings end up as the client sent them last |
| Outgoing messages, document text, locations, URIs, `lsp/` | vectors, texts | send, replace, conversions | UTF-16 positions in UTF-8 text | edits do what they say |
| Debug server, `debug/` | a backend for each browser, flags, a pipe to its thread | start, stop, publish, one callback per event of a connection | a server thread, three locks and the pipe between them; backends come and go while others flush | start and stop return, browsers end up with the present documents, no backend is called after its end |
| Trace streams, logger, `logging/` | none | write, read | – | reader inverts writer |
| Parser, `fe/parse*` | position in the tokens, guards (in a function, a loop, a switch, ...), the visitor, diagnostics | one function per construct | recursion with guards to restore; error recovery and automatic semicolons; transactions that parse again; arrow functions known only after their parameters | a valid program is clean; the visits stand for the program; scopes nest for any text |
| Lexer, buffering visitors, globals, `fe/` | position, token | skip, transactions | rollback | one token after the other |
| Containers, `container/` | memory | – | rewind of an allocator under live objects | no object outlives its memory |
| Command line, C API, plugins, diagnostics, i18n, util, port | little | – | – | – |

Hazards, each at the line where it bites and with the properties that would
catch it, are in `PROJECT.json`.

## 2. Plan

Order: what threads share first, since tests reach it least; then the
configuration of the language server, where the file system is the other
actor; then the analyzer; then the input and output of the server; then the
parser that feeds the analyzer.

| Step | Modules | State |
|---|---|---|
| 1 | `ByteStream` (abstract), `AsyncByteQueue`; the first part of `TracingProofs` | done; all safety proved, refinement proved |
| 2 | `ConfigurationLoader`, `ConfigurationLoaderProofs`; `LspServer` composed with it; `LspServerProofs` | done; all safety proved, the use of the loader by the server too |
| 3 | `VariableAnalyzer`, with `TwoPassLookup` as what it should compute; `VariableAnalyzerProofs` | done; that duplicates are reported is proved, the rest model-checked |
| 4 | `TraceFlusher`, `TraceFlusherProofs`, over one `ByteStream` per thread | done; safety and the use of the queues proved, liveness model-checked |
| 5 | `LspMessageParser`; `LspSession`: the loop on poll(), framing, dispatch, settings, queues and the writer that does not block; `LspProtocolProofs` | done; framing, output and answers proved, liveness model-checked |
| 6 | `LspDocumentText`; the second part of `LspProtocolProofs` | done; what holds until an edit joins a CR and an LF proved, what is left after it model-checked |
| 7 | `BackgroundPipeWriter`; `WindowsEventLoop` that extends it; `WindowsEventLoopProofs` | done; safety proved, liveness model-checked |
| 8 | `WatchedDisk`; `ChangeDetectingFilesystem`: three kernels; `ChangeDetectingFilesystemProofs` | done; all proved |
| 9 | `ParserState`, `ExpressionVisits`, `Parser`; `ParserLanguage` as what it should accept and tell; `LintedProgram` | done for the language of section 8; model-checked |
| 10 | `DebugServer`, on top of the flusher; the second part of `TracingProofs` | done; safety proved, liveness model-checked |

What could follow: classes and TypeScript in the parser; the analyzer on the visits that the parser
really makes, instead of on all sequences the grammar allows.

## 3. Modules

**`ByteStream`** promises what a user of the queue may rely on: three counters,
`taken`, `committed`, `appended`; a take passes on a next piece, and ends only
when it has passed on everything that was committed when it began or, more
precisely, when it looked last.

**`AsyncByteQueue`**. Chunks are numbers in order of allocation; `next`,
`begin_index`, `committed_index`, `data_size`, `data`, `capacity` are the fields
of `Chunk`, `writer_last_chunk`, `writer_cursor` and `reader_chunk` the members
of the queue. `wpc` and `rpc` are the places where a thread is between two
critical sections: the writer in `grow` (data_size recorded, chunk not yet
linked) and between a reservation and the write; the reader before and after
each callback, and in the loop that frees. A byte is its position in the
stream, so that order, loss and repetition are visible. `data_size` starts
uninitialized as in the code. `start` and `alive` are ghosts: where a chunk
begins in the stream, and which chunks are allocated.

**`TraceFlusher`**. `lock` is who holds `state_`; `registered`, `nextIndex`,
`backends`, `stopFlushing` are `Shared_State`; `index[t]` is the
`thread_index` of the registration of thread `t`, `hasWriter[t]` says whether its
thread-local pointer is set. A registration has a stream, a `ByteStream`. What
runs entirely under `state_` and reads no queue is one action. A flush holds
the lock over several actions, since writers append meanwhile: `toFlush` are the
threads it has still to visit. Events are of two bytes: an odd and an even one.
`flusher` is the place of the flushing thread: about to lock, flushing,
waiting, ended. `files` is what each backend was told.

**`ConfigurationLoader`**. A configuration file is named by its canonical
directory; `content` is the file there, or why there is none. `loaded`,
`configWatches`, `inputWatches` are the members of the class. Loads and watches
are one action: they walk a path upwards once. `refresh()` is split at every
look at the file system: `RefreshConfigWatch`, `RefreshInputWatch`, `Reload`, and
`TellWatch` for the inner loop; `rpc`, `at`, `unread`, `telling` are its place and
`changes` its result. `told` is a history variable: what each watcher was told
last, with the content it saw through the pointer. A file may be written with
what was in it.

**`LspServer`** is composed with the loader by `INSTANCE`: the loader's `content` is
the disk seen through the overlay of open documents, so that to open, edit or close a
configuration document is a change of a file (`OverlayChange`). Each handler is one action
up to a point where the loader looks at files: didOpen of a configuration
document is `DidOpenConfig`, `LoadOpenedConfig`, the steps of `refresh()`,
`FinishRefresh`. `published` is what the client was sent last.

**`VariableAnalyzer`** has one action for each visit that changes the
analyzer. `scopes` is the stack, each with its declared variables, the uses that
wait and the flags for eval; `reports` is what was diagnosed; `program` is the history
of visits and gives every declaration and use its position. The parser is the
environment: the external definitions say which visits may follow each other.
**`TwoPassLookup`** extends it with the definition of what it is to compute, on
the whole program: nesting, hoisting, binding to the innermost scope that
settles a use.

**`LspMessageParser`** is the buffer machine of the framing as operators on a
state: what is kept in `buffer_`, whether headers or content are read, and how
many bytes of content are awaited. A byte is CR, LF or a symbol; one symbol
stands for a whole header line up to its end, so that a split may fall between
any two of them, and within `\r\n\r\n`.

**`LspSession`** is the language server from pipe to pipe on a system with
`poll()`. Both pipes hold a bounded number of bytes: of the input pipe the model
keeps how far its ends are (`written`, `consumed`), of the other the bytes
(`out_pipe`). The loop (`pc`) reads a chunk, handles the messages in it one per step
(`HandleMessage`, the dispatch of `handle_message` with its tests in their order),
sends the two queues (`FlushMessages`) and polls. The writer keeps in `pending_`
what the pipe does not take. The
settings come from three kinds of messages and switch tracing. Documents are
left to `LspServer`.

**`LspDocumentText`**. `text` is a sequence of bytes, `offset_of_lines` and
`line_is_ascii` the table of `LSP_Locator`. `SetText` computes it, `ReplaceText`
keeps the part before the edit, scans the replacement and shifts the part after
it. `edited` is what the editor has: it splits the text into lines and UTF-16
units by the words of the protocol and edits those. `joined` counts the edits since one
made a CR meet an LF, which `ReplaceText` patches wrongly, as the code does; `overran`
is a scan that left its buffer.

**`BackgroundPipeWriter`** has the writer of Windows with its thread, cut where
the thread tests, waits, and writes to the pipe; **`WindowsEventLoop`** extends it
with the two threads that call the handler: the one that reads the pipe, and the
one of `run()` that reports changes of files.

**`WatchedDisk`** is the disk around one input file as other processes change it.
**`ChangeDetectingFilesystem`** has three implementations in one module;
`backend`, chosen at the start, says which one runs. The kernel's state is
modelled for each: inotify's watches and queue, kqueue's descriptors and fired
events, oplocks with the packets of a completion port. A look of the loader
(canonicalize the path, search upwards, read again) is cut into system calls
(`pc`, `phase`, `at`), the disk changing between any two. `blind` are the levels
at which a watch failed, with the error reported.

**`ParserState`**, **`ExpressionVisits`** and **`Parser`** are the functions of the
parser under their own names. Each takes the parser - a record of the position,
guards, visits and diagnostics - and returns it. What recurses through the
grammar goes through one operator, `Descend`; a fatal error is a flag that all
functions pass through. **`ParserLanguage`** defines grammars of JavaScript, whose
rules carry the visits that they mean; **`LintedProgram`** is the state machine
over them: a program is derived, linted, changed in one place (a token inserted
or dropped, a line broken) and linted again.

**`DebugServer`**. `server` is the place of the server thread in
`run_on_current_thread` and its callbacks, `main` that of the thread of the
language server. `lock` is the flusher's `state_`; the lock of a backend's queues is held where
`holds_queue` says so; the `state_` of the server itself is held between two steps
only in `stop_server_thread` (`StateIsLocked`), where the thread may see the flag and
end before the wake-up is sent. `writes` are the calls of
backends that a flush has still to make. A queue of a backend is the set of
what it holds: the documents as of some edit, or anything else.

The `MC...` modules give the small instances and the symmetries.

## 4. Runs

| Run | Question | Bounds |
|---|---|---|
| `queue` | Is the queue a byte stream, memory-safe in every interleaving, and does a take that began pass on everything committed? | chunks of 2 bytes, appends of 0 to 3 bytes with alignment 1 or 2, 4 bytes, 4 chunks |
| `tracing` | Do backends, flushes, registrations and the flushing thread keep their contracts? | 2 threads, 2 backends, 2 registrations, 2 events |
| `loader` | Does a refresh tell each watcher what changed? | 2 directories, one input and one configuration path, 2 contents, 2 watches, one change during each refresh |
| `server` | Does the client have the diagnostics of its texts and of the files? | 2 directories, one document of each kind, one change during each refresh |
| `lookup` | Does one pass report what two would? | nine families of programs of up to six visits and four scopes |
| `session` | Is every frame handled once, answered once and in order, and does the loop starve nobody? | nine sessions of two or three frames, pipes of 12 and 3 bytes, one change of the file system |
| `document` | Is the patched table the table of the text, and the text the editor's, until an edit makes a CR meet an LF, and how wrong is the table then? | 4 bytes after an edit, characters of 1, 2 and 4 bytes, positions up to one beyond the end of a line, 3 edits from the one that joins on |
| `windows` | Do calls return, does output arrive in order, does the server exit? | 2 chunks of input, pipe of 2 bytes, 4 bytes of output, one change of the file system |
| `windows_parallel` | Is the handler called by one thread at a time? No | the same |
| `changes` | Does the loader end up with what is on the disk, and is no watch lost track of? | a directory below the root, 2 directories that may take its place, 2 contents, 3 changes, one watch that fails, 3 objects of Windows |
| `debugger` | Do browsers end up with the present documents, do calls return, is no backend called after its end? | 2 browsers, 1 message |
| `parser` | Is a valid program clean, do its visits tell it, do the visits of any text nest? | programs of 9 to 20 tokens of eight grammars; one change to those of 6 to 9 |

*Queue.* `TakenInOrder`, `NoUseAfterFree`, `SpanIsStable` (what a callback reads
does not change while it reads), `ImplementsByteStream`, and the liveness
property `CommittedIsTaken`. Two bytes per chunk make every relation of an
append to a chunk possible (fits, fills, leaves a gap, is larger than any chunk);
four chunks make a first, a middle and a last one at once, one of them allocated
while the reader is in its callback.

*Tracing.* `BackendContract` is the comment of `Trace_Flusher_Backend`;
`FilesFollowStreams` says that what a backend gets is a piece of what the thread
wrote, without a gap; `StreamsAreByteStreams` shows that the flusher relies on
nothing but the promise that `queue` checks of `AsyncByteQueue`; `StopReturns`
is liveness. With two registrations one thread may register again, or both may;
one of two backends joins in the middle. More events only repeat what two do, as
a flush treats a stream as a whole.

*Loader.* `RefreshTellsEveryWatch` compares with a search without any cache;
`InPlaceUpdatesAreTold` says that no watcher holds a pointer to a configuration
that was changed under it without having been told. Two directories are the
least with a choice of file; two contents and two kinds of failure the least
with a change to something else. The model watches a path once, as the language
server does. Contents and inputs are interchangeable and declared symmetric; no
liveness is checked under symmetry. 5.1 million states.

*Server.* `DiagnosticsMatchConfig` (text and configuration of the last
publication are the present ones, at every moment between two messages) and
`DiagnosticsMatchFiles` (when the disk has been quiet since the last refresh,
the configuration is the one a fresh search through the overlay finds).
`crashed` is where the two assertions fail that an unlucky disk makes fail (see
below); nothing is claimed after that.

*Lookup.* `DiagnosticsMatchTwoPass` compares all diagnostics about bindings
at the end of each program; `DuplicatesAreReported` and
`UnusedShadowingIsReported` do the same for the other two kinds. All programs of
a family up to its length are explored. The families are chosen for what
interacts: hoisting, functions in blocks, scopes that hide, a function's own
names, duplicates, shadowing, globals and kinds of use, types, signatures. The
reference is not consulted where a scope has two unlike declarations of a used
name: the program is in error, and reported, already.

*Session.* `FramesAreHandledOnce` says that the messages handled do not depend
on how the bytes were split; `AnsweredOnce` relates requests and answers, in the
order they are due; `OutputIsInOrder` that the client gets what was queued, as
far as it has come, whatever the pipe took at a time. `EverythingIsRead` and
`FsChangesAreNoticed` are liveness: a full output pipe does not keep the loop from
input or file events. The nine sessions between them have every message of the
dispatch: before and after initialization, with settings that are usable, partly
usable or not, answers that fail, ids of wrong types, batches, junk, and headers
that are bad or absent.

*Document.* `TableMatchesText` compares the table after edits with the one
computed from the text; `TextIsEdited` compares the text with the editor's;
`PositionsAgree` says that a position survives the way to an offset and back. All
three speak of documents in which no edit has made a CR meet an LF since the whole
document was sent (`joined` is 0). Such edits are in the run too: after one the table
has a line too many and the text goes astray, or the scan runs out of its buffer and
the server stops there (`overran`; section 7). `OnlyTerminatorsAreSplit` says what is
left of the table then: it has all lines of the text, and those too many lie between
a CR and its LF, whatever wrong ranges are cut out next. Edits leave four
bytes at most, which hold a CR LF with text on both sides, or a character of four
bytes; the texts sent whole are longer. `MaxJoined` bounds the edits of a document
with a broken table, the one that broke it included; with five bytes, and two such
edits, the properties held as well.

*Windows.* `OutputIsInOrder` and `OutputIsWritten` speak of what two threads give
to `write()`; `CallsReturn` says that a call of the handler ends even if the
client never reads; `ServerExits` that a session ends after its input did, if the
client reads what is sent, or that the thread of the writer sleeps while the
destructor waits for it: it missed the notification (io/pipe-writer.cpp:36),
which can happen. A pipe of two bytes is full with one message.

*Changes.* `NoChangeIsMissed`: when nothing is pending in the kernel and no look
is under way, the loader has seen what is on the disk, unless it was told that
a watch failed. `WatchesAreOwned`: each watch of inotify and
each oplock is known to the maps of the class, and a packet in the completion
port names one object that exists, and that no other packet names.
Three changes are the least for a directory that goes, comes back and is
changed; three objects of Windows for two directories and one that is being
cancelled. `Missed` names changes that are left out, and is empty in the run:
with "file moved away" or "directory appears" in it `NoChangeIsMissed` is
violated, for inotify without IN_MOVED_FROM and for Windows, where
`canonicalize_path` watches nothing. No document promises these to be noticed.
1.8 million states.

*Debugger.* `BrowsersAreUpToDate` says of a browser that stays that it comes to
show the documents as they are, and that nothing it was given lies in its queue
for ever. `CallsReturn` says that starting, publishing and stopping return and
that the lock of the flusher becomes free; `BackendsAreAlive` that the flusher
calls no backend that was destroyed. One message, which edits a document or does
not, and two browsers that connect and leave at any time are enough for a
publication under way when another is asked for; with two messages the
invariant was checked on 1.6 million states. In the run the pipe always has
room (`PipeFills` is FALSE), as its buffer holds many thousands of wake-ups; with
a pipe that fills, TLC finds the threads waiting in a circle (section 7).

*Parser.* `ValidProgramsAreClean`: no program of the grammars has a diagnostic.
`VisitsTellTheProgram`: the visits of a program are the ones its derivation means,
in their order. `VisitsNest`: of any text, valid or not, the visits open and close
scopes in pairs, as the analyzer demands. The eight grammars are about control
flow, switch and try, loops, declarations and patterns, expressions, functions,
automatic semicolons, and async functions with `await` used as a name. Their
programs are of up to 13, 19, 14, 18, 9, 18, 13 and 20 tokens; changed are those
of up to 7, 8, 8, 9, 6, 8, 6 and 8, by inserting one of `( { } => in of await`
or a name, dropping a token, or moving a line break. With every token inserted
and lengths of 8 to 12 the properties held as well. Names are told apart by their
place, so that diagnostics about two equal names do not occur.

The queue's `Destroy`, the flushing thread, the client, the documents and a scan that
overran all bring a model to rest, so that deadlock is not checked; the liveness
properties say where rest is not allowed.

`TypeOK` of `LspServer` and of `WindowsEventLoop` (both proved), `VariableAnalyzer` and
`ChangeDetectingFilesystem`, and `DebugTypeOK` of `DebugServer`, say what the variables
are; they hold in those runs and are not listed there.

## 5. Fairness

* Queue: weak fairness of `TakeStep`, the steps of a take that has begun. Its
  thread is runnable, and the mutex is held for a few instructions only. No
  fairness of the writer, nor of anyone calling a take.
* Tracing: weak fairness of `HolderStep`, the steps of the holder of `state_`,
  none of which blocks; strong fairness of `FlusherLocks` and of `EndStop`, both
  of which wait for a mutex that is free again and again: a mutex that let a
  thread wait for ever would make every program with threads wrong. No
  fairness of writers, flush requests or of spurious wake-ups.
* Session: weak fairness of the steps of the loop, which is one thread, and of
  the client's writing of what it has begun. The client need not read and need
  not close.
* Windows: weak fairness of the two threads of the loop and of the writer's;
  strong fairness of `Appended` and `FsChangedHandled`, which wait for a mutex
  that is free again and again. That the client reads is a premise of the properties
  that need it.
* Debug server: weak fairness of the steps of the server thread, of the steps of
  whoever holds the lock, and of the calls the main thread has begun. Nobody has
  to send, browse, flush or end the input. Flushes are asked for by messages, so
  that their number is bounded, and the flushing thread does not take the lock
  from the others for ever.
* All other modules state safety only.

## 6. Proofs

The first part of `TracingProofs` proves, for all chunk sizes, append sizes, alignments and
bounds that satisfy `SizesAssumption`: `TypeCorrect`, `Fifo`, `MemorySafety`,
`Assertions` (the two assertions of the code), `StableSpans` and `Refinement`
(every behaviour of `AsyncByteQueue` is one of `ByteStream`). The bounds
`MaxBytes` and `MaxChunks` are constants too, so nothing depends on their size.

None of these is inductive. What is, `IInv`, says how the chunks tile the
stream: chunk k+1 starts where chunk k ends (`TileInv`), which holds only
because a chunk is linked after its size is recorded; the bytes of a chunk are
the stream positions from its start on (`DataInv`); the live chunks are the
range from the oldest the reader has not freed to the writer's (`AliveInv`); the
reader's position in its chunk is the number of bytes taken (`ReaderInv`). From
it, `Fifo` follows since a callback passes on the bytes from there; memory
safety follows since both threads' chunks are in the range and the reader frees
below its own. There is one lemma for each action, and lemmas on the operators
they share.

`TraceFlusherProofs` proves, for any sets of threads and backends (provided that
no thread is named like a free lock or the flushing thread,
`ThreadsAssumption`) and any bounds: `TraceTypeCorrect`, `TraceOneReader`,
`TraceWriterIsSet`, `TraceOpenWhileRegistered`, `TraceFilesFollowStreams`,
`TraceBackendContract`, `TraceUnregisterLeavesNothing` and
`TraceStreamsAreByteStreams`. Its `IInv` adds to the
invariants checked what they rest on. `LockInv` says who holds `state_` for what
purpose, so that with the lock free nobody flushes or unregisters; `RegisterInv`
that numbers of registrations are distinct and below `next_thread_index`, and that
a flush visits registered threads only; `FreshInv` that backends have never
heard of a number not given out, so that a begin is always the first;
`UnregisterInv` that a thread in `unregister_current_thread` is about to flush its
queue or has emptied it, which is what `TraceUnregisterLeavesNothing` needs at
the moment of the erasure; `ClosedInv` that a stream that is not open holds no
data. `FilesFollowStreams` is kept by a take because of `Continued`, a lemma on
sequences of consecutive numbers; by `enable_backend` because a new file is
empty. `TraceStreamsAreByteStreams` is the other half of the composition: each
queue is used as `ByteStream` allows, so that what is proved of `AsyncByteQueue`
holds of it. It is shown step by step, each step of the flusher being one of
`ByteStream` or a stutter for the queue of every thread (`StreamStep`); a thread
that registers gets a queue that nobody has used (`FreshStreams`).

`ConfigurationLoaderProofs` proves, for any finite directories with any order of
ancestors, any paths, contents and bounds: `LoaderTypeCorrect`,
`LoaderInPlaceUpdatesAreTold` and `LoaderRefreshTellsEveryWatch`. A refresh is
three loops over what may change under it, so the invariant says what each of
them has settled. `HeldInv`: a watcher with no change recorded was told what its
watch says, with the content that is in the cache, unless the file was just
parsed again and the watch is still to come. `ChangesInv` and `NewsInv`: a change
that is recorded is the news of its watch, and once only. `FreshInv`: while the
disk did not change during the refresh, the watches visited so far say what a
fresh search finds; `LoadedInv`: and the files read again are as on the disk;
`SyncedInv`: between two refreshes both hold of everything. `PhaseInv` is the
place in the loops. `UniqueInv`, that a path is watched once, is needed in
`TellWatch`, which compares paths where it asks whether a change is recorded
already; the language server keeps to it. There is one lemma for each step.
`LoaderTellsOnce` says that a refresh tells a watcher of one change at most: three
loops record changes, and two of them look whether there is one already.

`LspServerProofs` proves, for any files, documents, texts and number of
documents: `ServerUsesLoader`, `ServerTypeCorrect`,
`ServerDiagnosticsMatchConfig` and `ServerDiagnosticsMatchFiles`. The first is the
composition: every step of the server is, to its loader, one that
`ConfigurationLoader` allows, or a stutter. The files of that loader are what is
seen through the overlay, so the mapping is not the identity: a document that
is closed gives back the file of the disk as it is by then, which is a write
to the loader. By it the invariant of the loader holds in the server
(`LP!IInv`, with `LP` the proofs of the loader for these files), and the
invariant of the server, `ServerInv`, adds what relates the two. `ServedInv`: a
document with diagnostics is watched under its own path, points at the
configuration that was told last, and what the client has is what its text and
the content that was told give. Between the end of a refresh and the
publications no message is handled, so that only the changes of the refresh
that ends are to be considered; each document finds at most one there, which is
why `LP!OnceInv` is a part: with two, the publication could be that of the older.
That what was told last is still what the pointer shows, though files are read
again in place, is the loader's `HeldInv`. `FilesInv` carries the second property between
refreshes: with the disk unchanged since, documents opened before it were told
what a fresh search finds, by the loader's `SyncedInv`.

`LspProtocolProofs` proves, for any frames and messages, in any pieces, and any
capacities: `SessionFramesAreHandledOnce`, `SessionOutputIsInOrder` and
`SessionAnswersOnce`. `OutputInOrder` is
inductive once the types of the four sequences are known. `AnsweredOnce` is
not, since it is silent about messages that wait: `AllAnswered` says that what was
sent and what waits in the two queues of the handler are together the answers
due, for every message handled, and none to any number not given out yet;
`NothingQueued` that between two `append()` nothing waits. What the dispatch answers
is one lemma for each of its branches; settings, of which there may be
any number in a message, answer nothing (`SetTracingDirectoryIsQuiet`,
`ProcessNotificationIsQuiet`). The functions that walk over a sequence have a
value by `Recursion`, from a least counterexample.

`FramesAreHandledOnce` assumes `FramesAssumption`, that clients keep to the
framing: no header line is empty or has a CR or LF in it, and a content is as long
as the first `Content-Length` with a number says, empty without one. Nothing is
assumed of the bytes of a content, which may look like headers, nor of the other
header lines. The invariant is `FramesInv`: for some n the contents of the first n
frames were handled, and the buffer with what is not read yet (`Unread`) is the rest
of the stream, from the headers of the next frame or from its content on, and in that
case the length that is pending is that content's; and no `append()` returns with
something left to parse. That the parser passes the headers of one frame and never
more is `ContentBegins`: `HeaderEnds` finds the first empty line of a frame at the end
of its headers, wherever the buffer ends, by the places of the lines
(`HeaderPlaces`); `HeadersGiveLength` that the loop over the lines finds the length
that counts. `CutLonger` and `RearMeets` say what is left when a buffer loses its
front. At last, `FramesAreRead`: when nothing can be parsed, frame n + 1 is not
complete.

It proves of `LspDocumentText`, for texts and edits of any length over the bytes of
the model: `DocumentTableMatchesText`, `DocumentTextIsEdited` and
`DocumentPositionsAgree`, all for documents in which no edit has made a CR meet an LF
since they were sent as a whole (`joined = 0`), since the code is wrong after one. The
invariant, `DocumentInv`, is that the text of such a document is the
editor's and `TableIsRight`: the offsets of the table increase and are those of the
text's lines, and a line that is called ASCII is. `TableMatchesText` says the same by
the scan of a new locator, and is of no use for the next edit: what is needed of the
table there is what it says of the text, in parts. Hence `HasLines(t, b, e, starts,
flags)`, the table of the bytes from b to e, with what replace_text does to it:

* cut at an offset, `LinesUpTo` and `LinesFrom`;
* moved with its bytes to another place, `LinesMoved`;
* joined with another, `LinesAreJoined`, the line across the seam being ASCII if
  both of its parts are;
* computed by the scan, `ScanIsRight`, from the last terminator to the first.

`LinesOfEdit` puts these together; that no terminator is cut or joined at the
ends of the edit is used in `SpliceTerminators`. `FlagsOfEdit` compares the flags that
the code keeps with those of the joined lines: they may say less, where an edit
within a line takes its last character that was not ASCII, and never more.

Which lines the code searches is `FoundLine`, by counting. A position is a number of
UTF-16 units; the two loops over characters count what the editor counts,
`UnitsIn`: `CountIsRight` from an offset to its units, `AdvanceIsRight` back. The
loops are recursive functions; each has a value since a step looks ahead only
(`DownRecursion`), and what it computes is shown from the last byte down
(`DownTo`). Bytes that are not a character, which may only stand alone, count as
one unit in both. `PositionIsRight` and `FromPositionIsRight` are the result, the
second also for the positions beyond a line and beyond the document which
an editor may send as the ends of an edit: this is why the text stays the
editor's.

`WindowsEventLoopProofs` proves, for any messages and any capacity of the pipe:
`WindowsTypeCorrect`, `WindowsOutputIsInOrder` (what two threads give to
`write()` is on its way once and in order) and `WindowsPendingIsSeen` (the
writer's thread never sleeps, nor is about to, while bytes are pending).

`ChangeDetectingFilesystemProofs` proves, for any disk with a path of `Depth`
directories, any finite set of objects and any bounds: `FilesystemWatchesAreOwned`
and `FilesystemNoChangeIsMissed`.

The first: for inotify, a watch descriptor is forgotten when IN_IGNORED is read, which must
not be one that is watched again: `InotifyInv` says that only removed directories
are ignored, `ForestInv` that removed directories are not on the disk, since each
directory has one parent, and the lemma `PathExists` that what `watch_directory`
opens is on the disk. That the path of the disk, a recursive function, has a value
is `ChainIs`, by a least counterexample (`LeastNatural`) in place of induction.
For Windows, an object is in one of three states (`ObjectsInv`): that of one
watch, cancelled, or free; and it has a pending request or one packet in the port,
never both (`OplockInv`, `PortInv`). `HandleInv` says that this still holds of the
object between `CreateFileW` and the request of its oplock.

The second, `FilesystemNoChangeIsMissed`, is for disks where the two changes do
not happen of which inotify and Windows do not tell (`Noticed`, a condition on the
constants `Missed` and `Backends`; for kqueue it asks nothing). `NoChangeIsMissed`
speaks of the end of a look, when no event waits; the invariant `MissInv` says what
holds in the middle of one, when some do. `Calm(k)` is that no event waits that
concerns the directories above level k; `Covered(l)` that this look has set the
watch of level l; `Passed(l)` that it has found no file there. `WatchInv`: what is
covered and calm is watched; `ReadInv`, `SeenInv`: what was found, or not found,
with nothing waiting from above or from there is on the disk; `FileInv`: kqueue has
that very file open; `RegisterInv`: between the two calls that watch a directory,
what was opened is still the directory of the path, or an event waits. Each change
of the disk either makes a level that something is claimed of uncalm (`FileTold`,
`PathTold`), or is at one of which nothing is claimed, as the look is still to come
there. `DeafInv` is needed on Windows, where a watch that is found unchanged is left
alone: its request is pending, or was answered by a packet that will have the loader
look again, or was refused and is in `blind`. kqueue drops the event of a directory
when it is watched anew, which is right only since the event of another, further
up, waits then: `KqueueWatchIsNoticed`.

The second part of `TracingProofs` proves, for any number of browsers and messages and
any pipe: `DebuggerBackendsAreAlive`. A call is to a backend that was enabled when the
flush began, so the invariant relates the calls left, the backends enabled and
the backends the server owns. `CallsInv`: a call left is to an enabled backend;
`LockInv`: with the lock of the flusher free no calls are left, so `CloseBackend`,
which needs the lock, disables a backend that nobody is about to call.
`EnabledInv`: the backends enabled are those of the open WebSockets, in the same
order, except that the newest is not enabled before the server thread has the
lock. `EndInv`: the server thread ends after its last WebSocket, and main after
it, so none is left when the server is destroyed.

`VariableAnalyzerProofs` proves, for any families of programs, any global variables and
any number and depth of visits: `AnalyzerReportsDuplicates`, that is
`DuplicatesAreReported` of `TwoPassLookup`. The property speaks of the whole program,
the analyzer has a list of variables for each open scope, and a scope hands some of its
list to the one around it when it ends. The invariant `InvBut` relates the two:
`Chained`, the stack is the chain of scopes the next visit will be made in;
`ToldInv`, a variable in the list of a scope is a declaration which `BoundIn` gives to
that scope, and it is marked as coming from inside exactly when it does; `KnownBut`, the
list has all of them, except those that are inside a scope which is still open and will
be handed over at its end; `ComparedInv`, of two variables of a list with one name, the
later was compared with the first of that name, so that a conflict was reported;
`EndedInv`, scopes that ended have their duplicates reported. The analyzer compares with
the first declaration only. This suffices because the property asks for a report about
either of two declarations, and because the kinds it is about never merge with one
another (`LexicalConflicts`): with a class, const or let among them, each was compared
with the first, or is the first. At the end of a scope `BoundOutside` says what the
scope around binds of what is inside: what the inner one binds and hands over, if it is
one that `var` leaks from; and `HandingIs` that the loop hands over just that.
`Nesting` of `TwoPassLookup` and the loop of `DeclarationsToParent` are recursive
functions; that they have a value at all is proved first (`NestingExists`,
`HandingExists`), by the least number for which it would fail, since the induction
theorems cannot be used. `CorporaAssumption` says what the families are made of.

Only model-checked, and why:

* liveness, since fairness and ENABLED are outside the prover's reach; of the debug
  server that browsers are up to date and that calls return;
* `OnlyTerminatorsAreSplit`, which is about documents whose table is wrong already:
  that the editor's lines are still in the table needs an invariant that counts the lines
  of two texts which have gone apart;
* the parser, its grammars and `LintedProgram`, which are recursive operators;
* `DiagnosticsMatchTwoPass` and `UnusedShadowingIsReported` of `TwoPassLookup`: they are
  about the families that are checked, not about all one could write down. A use of a
  type that waits is settled by the next declaration of its name in the scope, of a
  value too (fe/variable-analyzer.cpp:297-300), which the reference does not do, and
  `typeof x` marks `x` as used, which the second property does not count as a use.

## 7. Disagreements found

One has a run, whose property quotes the comments and whose counterexample the
code follows; quotes are in `PROJECT.json`:

* `Windows_Event_Loop::run` calls the handler without the mutex that the thread
  holds that reads messages (`windows_parallel`, io/event-loop-win32.h:84):
  event-loop-base.h:78 promises that it never calls "non-const member functions
  in parallel".

The following were found in the same way, by runs that have since made room for
others. Each can be had again by stating the sentence that is quoted as a
property of the module.

* `ConfigurationLoader`: a deleted configuration is still used for files opened
  after the refresh that saw it gone, as nothing is ever dropped from the cache
  (configuration/configuration-loader.cpp:192, 434-436);
  configuration-loader.h:87 says "Returns nullptr if there is no config file."
* `AsyncByteQueue`: a take returns uncommitted bytes once the writer has moved
  on to a new chunk (container/async-byte-queue.h:166 against the comment at 75 and
  test/test-async-byte-queue.cpp:62).
* `TraceFlusher`: hence a backend that is enabled while a thread is in the
  middle of an event gets the rest of it first (logging/trace-flusher.cpp:82 against
  trace-flusher.h:104).
* `TraceFlusher`: `flush_async` may be lost, since it notifies without the mutex
  and the flushing thread waits without a predicate (trace-flusher.cpp:186
  against test/test-trace-flusher.cpp:715).
* `LspServer`: a configuration document that is opened with unsaved text shows
  the diagnostics of the cached file until it is edited (lsp/lsp-server.cpp:570,
  581 against test/test-lsp-server.cpp:2041).
* `TwoPassLookup`: a variable used only from a function within a function is
  reported as unused when it shadows another (fe/variable-analyzer.cpp:676 against
  docs/errors/E0196.md:45 and variable-analyzer.h:101-102):
  `let x = 1; { let x = 2; function f() { function g() { x; } } }`.
* `TwoPassLookup`: redeclarations go unreported behind a function hoisted from
  a block (variable-analyzer.cpp:883 against docs/errors/E0034.md:13):
  `{ function x() {} } const x = 1; const x = 2;`.

* `LspDocumentText`: an edit that makes a CR meet an LF is patched wrongly
  (`JoinsTerminator`), though lsp/lsp-location.cpp:189-193 asserts that the table is
  always the one of a new locator. If the replacement is empty, or begins with the LF,
  the old line that begins after the CR is kept (150-160): the table has two lines
  where there is one, and ranges of later edits are cut out of the wrong place, until the
  whole document is sent again. If the replacement ends in the CR, the scan takes both
  bytes at once, which is one beyond its end (242-243); `c != end` never stops it, and it
  reads out of the buffer. The model has both, the first as a table that is wrong, the
  second as `overran`; without `joined = 0` TLC finds `TableMatchesText` and
  `TextIsEdited` violated.

Seen while modelling, without a run of their own.

Language server:

* `didOpen` of a configuration document whose path cannot be resolved fails the
  assertion at lsp-server.cpp:559; an open one whose path stops resolving fails
  that at 625. The model has both as `crashed`.
* The overlay is keyed by the path as the client spells it (lsp-server.cpp:132):
  behind a symbolic link an open document does not hide the file. The model
  does the same (`Spelled`).
* A watch in error keeps the file of its last success and may be told of it
  (configuration-loader.cpp:466); a second watch of a path hides a new file from
  the first (153).
* A header Content-Length with a bad value counts as an empty message, which is
  answered with a parse error; lsp/lsp-message-parser.cpp:50 says "Ignore this
  header.", lsp-message-parser.h:96-98 the same.
* `initialize` with settings that are not usable is never answered. `exit` and
  the end of the input lose output that is pending. Watches that fail in
  `filesystem_changed` are reported with the next message only.
* A start line beyond the last is read out of bounds.
* `~Background_Thread_Pipe_Writer` sets its flag without the mutex that
  pipe-writer.h:66 says protects it, so that the thread may miss it and the
  destructor waits for ever (io/pipe-writer.cpp:36).
* A missing directory directly under "/" is watched at the wrong place by
  inotify and kqueue and gives a watch error. On Windows, directories cannot be
  renamed while the server holds their handles. kqueue drops the events that
  wait on a descriptor that is closed; the third loop of `refresh()` makes up
  for it.

Debug server:

* The pipe is full after many wake-ups that the server thread did not see. If it
  is then about to flush, it waits in its own `flush_sync` for room in the pipe
  that nobody else empties, with the lock of the flusher held: with `PipeFills`
  TRUE and a capacity of 4, TLC finds `CallsReturn` violated.
* When stopping, Mongoose closes the pipe before the WebSockets; a flush that
  comes before the latter are closed, the server thread's own
  `unregister_current_thread` among them, wakes up through the closed pipe, and
  the assertion at debug-server.cpp:218 may fail (`crashed = "assertion"`). This
  needs no data: a backend is called for an empty piece too. The wake-up of
  `stop_server_thread` itself may come after the thread saw the flag and ended.
* At the end of the input the handler is destroyed before the debug server
  (cli/main.cpp, in the reverse order of the members), whose thread may be about
  to read its documents (debug-server.cpp:390; `crashed = "dangling"`).
  lsp-server.h:286-291 says the pointer to them does not change.
* Not in the model: the callback of the pipe never empties the receive buffer of
  its connection, and Mongoose closes the pipe when that has grown to 3 MiB
  (vendor/mongoose/src/sock.c:257); `exit` ends the process with the thread
  running (lsp-server.cpp:257), so that `~Trace_Flusher` may find a backend
  (trace-flusher.cpp:58).

Analyzer and flusher:

* An assignment to the name of a function expression is blamed on a variable
  outside (variable-analyzer.cpp:646); a declaration settles earlier uses of the
  other namespace (297), up to `QLJS_UNREACHABLE`; one `typeof` silences all
  undeclared uses of its name.
* `disable_backend` does not flush: events committed before it do not reach the
  backend.

Parser:

* `await (function(){ x })` outside of a function visits the function twice: it
  is parsed in a transaction that is rolled back (parse-expression.cpp:838), but
  the visits stay, while lex.h:161-172 promises to restore the lexer "as if you
  never called begin_transaction". The same happens to what follows `in` after an initializer in the head of a `for`.
  `VisitsTellTheProgram` does not speak of them (`ReadsTwice`).
* `++i in xs` is parsed as `++(i in xs)` (parse-expression.cpp:500-507);
  `(x)` followed by a block on the next line is diagnosed
  (parse-expression.cpp:2048); `async` followed by a line break and `if` or `{`
  ends the parse.
* A function in the default value of a parameter of an arrow function is
  visited before the scope of the arrow function begins; computed keys in
  patterns that declare are never visited.
* A fatal error inside of `catch_fatal_parse_errors` leaves the guards as they
  are in the middle of the construct. `let x = (a) {} (b)` makes a Call where
  the parser casts to an Assignment.

Properties that hold and were dropped, or are proved and no longer run, since
others say more: that the loop which frees chunks stays away from the
writer's, that no chunk leaks, that a refresh has one change per watch, that a
load after a refresh is fresh, that uses which wait are unexplained.

## 8. What is not modelled

* Of the parser: classes, modules, templates, regular expressions, the unary
  keywords (`typeof`, `delete`, `new`, ...), `with`, labels that do not exist,
  JSX and TypeScript, with the statements and recoveries that only they reach;
  and warnings about the values of literals.
* Of JavaScript, what the grammars leave out because the parser warns about it
  or because of the items of section 7: assignments of literals and commas in
  conditions, a line break after `return`, functions within `await (...)` and in
  heads `var x = ... in`, `let` before `}`, computed keys in patterns that
  declare, functions in defaults of arrow functions, `async` before a line break
  and a keyword, `{` or a number, `await await`, `await = await`.
* Of the lexer: how characters make tokens. Buffering visitors record and play
  visits in order.
* Of the debug server: files over HTTP, URLs, the profile of vectors.
* Of the change detection: symbolic links, a failing `inotify_init`,
  `clear_watches`. The loop on kqueue calls the same delegate as the one on
  `poll()`.
* Containers: sequential. A pointer kept across a rewind of an allocator is a
  matter of its users in C++, not of a state that can be modelled apart from
  them.
* Formatting, translation, option parsing, URIs, the binary form of traces,
  configuration files as JSON, generated tables, wrappers of the platform: no
  state that lasts, or conversions whose control says nothing.
* Contents of messages, configurations and events: they are model values; two
  are different or the same.
* The test-only functions of the trace flusher and of the pipe writers.

The mapped definitions cover the control of the components above. They do not come
near a third of all lines of the implementation: most of those are generated
tables and translations, types of diagnostics, the lexing of characters, option
parsing, and the TypeScript and JSX halves of the parser.
