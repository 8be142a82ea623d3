---------------------- MODULE ChangeDetectingFilesystem ----------------------
(***************************************************************************)
(* configuration/change-detecting-filesystem-{inotify,kqueue,win32}.cpp:   *)
(* the directories (and files) that are looked at are watched, and when    *)
(* the kernel tells of a change the event loop has the configuration       *)
(* loader look again.  One system call per step, the disk changing between *)
(* any two of them.                                                        *)
(*                                                                         *)
(* The user of the file system is the loader with one input file: it makes *)
(* the path canonical, which watches every directory of it (not on         *)
(* Windows), reads the configuration file of each directory upwards until  *)
(* there is one, and reads that one again.                                 *)
(***************************************************************************)
EXTENDS WatchedDisk, SequencesExt

CONSTANTS
    Backends,    \* of "inotify", "kqueue", "win32"
    Objects,     \* addresses of Watched_Directory objects
    Missed,      \* changes that are not noticed, and made all the same
    MaxFailures  \* bound: calls that fail although the directory exists

Changed == "changed"  \* an event of inotify, but IN_IGNORED
Dead == "dead"        \* a file that is no longer at its path

ASSUME BackendAssumption ==
    /\ Backends \subseteq {"inotify", "kqueue", "win32"}
    /\ None \notin Objects /\ IsFiniteSet(Objects)
    /\ {Changed, Dead} \cap AllNodes = {}
    /\ Missed \subseteq {"file moved away", "directory appears"}
    /\ MaxFailures \in Nat

VARIABLES
    backend,
    \* inotify
    inotifyWatches,      \* the kernel's
    inotifyQueue,        \* Changed, or a directory whose watch is IN_IGNORED
    watch_descriptors,
    \* kqueue
    watched_files,       \* what the descriptor of each path is open on
    fired,               \* paths whose filter has fired
    opened,              \* what was in the file when it was opened
    \* Windows
    directory_id,        \* of each Watched_Directory that exists
    oplocks,             \* those whose request is pending
    watched_directories,
    cancelling,          \* cancelling_watched_directories_
    port,                \* packets in the completion port
    \* the loader
    pc, phase, at, handle, found,
    seen,                \* the configuration file it has loaded
    \* history
    blind,               \* levels that could not be watched, as was reported
    failures

inotifyVars == <<inotifyWatches, inotifyQueue, watch_descriptors>>
kqueueVars == <<watched_files, fired, opened>>
win32Vars == <<directory_id, oplocks, watched_directories, cancelling, port>>
kernelVars == <<backend, inotifyVars, kqueueVars, win32Vars>>
lookVars == <<pc, phase, at, handle, found, seen>>
vars == <<diskVars, kernelVars, lookVars, blind, failures>>

Keys == {"directory", "file"} \X Levels
Packets == [object : Objects, aborted : BOOLEAN]
Outcomes == [level : Levels \cup {-1}, content : Contents \cup {None}]

TypeOK ==
    /\ DiskTypeOK
    /\ backend \in Backends
    /\ inotifyWatches \subseteq AllNodes
    /\ inotifyQueue \subseteq AllNodes \cup {Changed}
    /\ watch_descriptors \subseteq AllNodes
    /\ watched_files \in [Keys -> AllNodes \cup {None, Dead}]
    /\ fired \subseteq Keys
    /\ opened \in Contents \cup {None}
    /\ directory_id \in [Objects -> AllNodes \cup {None}]
    /\ oplocks \subseteq Objects
    /\ watched_directories \in [Levels -> Objects \cup {None}]
    /\ cancelling \subseteq Objects
    /\ port \in Seq(Packets)
    /\ pc \in {"idle", "watch", "register", "stat", "read", "contents"}
    /\ phase \in {"canonicalize", "search", "reload"}
    /\ at \in Levels
    /\ handle \in AllNodes \cup Objects \cup {None}
    /\ found \in Outcomes /\ seen \in Outcomes
    /\ blind \subseteq Levels
    /\ failures \in 0 .. MaxFailures

\* Windows has no observer of canonicalize_path.
FirstStep(p, b) == IF p = "canonicalize" /\ b = "win32" THEN "stat" ELSE "watch"

Init ==
    /\ DiskInit
    /\ backend \in Backends
    /\ inotifyWatches = {} /\ inotifyQueue = {} /\ watch_descriptors = {}
    /\ watched_files = [k \in Keys |-> None] /\ fired = {} /\ opened = None
    /\ directory_id = [o \in Objects |-> None]
    /\ oplocks = {}
    /\ watched_directories = [l \in Levels |-> None]
    /\ cancelling = {}
    /\ port = << >>
    /\ phase = "canonicalize" /\ at = 0 /\ pc = FirstStep(phase, backend)
    /\ handle = None
    /\ found = NotFound /\ seen = NotFound
    /\ blind = {} /\ failures = 0
-----------------------------------------------------------------------------
(* The kernels.  `events' are pairs of a directory and what happened in it, *)
(* by the names of inotify.                                                 *)

InotifyMask_NoClose == {"create", "delete", "moved to", "move self"}  \* mutated
InotifyMask == {"create", "delete", "close", "moved to", "move self"}

NoteWriteOrRename == {"create", "delete", "moved to", "moved from", "move self"}
OplockBreaks == {"create", "delete", "moved to", "moved from", "write", "delete self"}

Happens(events, n, kinds) == \E k \in kinds : <<n, k>> \in events

\* The oplocks of these objects break, or are cancelled, in any order.
Packet(o, aborted) == [object |-> o, aborted |-> aborted]
Post(objects, aborted) ==
    /\ oplocks' = oplocks \ objects
    /\ port' = port \o [k \in 1 .. Cardinality(objects) |->
                          Packet(SetToSeq(objects)[k], aborted)]

\* `cut' is the directory whose file is no longer the one at its path,
\* `removed' the directories that are no more.
Tell(events, cut, removed) ==
    /\ \E ignored \in SUBSET (removed \cap inotifyWatches) :
         inotifyQueue' = inotifyQueue \cup ignored \cup
             {x \in {Changed} : \E n \in inotifyWatches : Happens(events, n, InotifyMask)}
    /\ inotifyWatches' = inotifyWatches \ removed
    /\ fired' = fired \cup
         {k \in Keys : Happens(events, watched_files[k],
                               IF k[1] = "file" THEN {"write"} ELSE NoteWriteOrRename)}
    /\ watched_files' = [k \in Keys |->
         IF k[1] = "file" /\ watched_files[k] = cut /\ cut # None
         THEN Dead ELSE watched_files[k]]
    /\ Post({o \in oplocks : Happens(events, directory_id[o], OplockBreaks)}, FALSE)
    /\ UNCHANGED <<backend, watch_descriptors, opened, directory_id, watched_directories,
                   cancelling, lookVars, blind, failures>>

\* Windows moves a directory when nobody has it, or one in it, open; it may
\* remove one before, with or without breaking its oplock.
Unopened(n) == \A o \in Objects : directory_id[o] \notin Subtree(n)

\* Two changes that the code does not notice are made only if they are in
\* `Missed': a file is moved away, since inotify is not asked for
\* IN_MOVED_FROM; on Windows, a directory of the path appears between the look
\* at it and the watch of its parent.
MayMoveAway == backend = "inotify" => "file moved away" \in Missed
MayAppear == backend = "win32" /\ pc # "idle" => "directory appears" \in Missed

DiskNext ==
    \/ \E n \in AllNodes, c \in Contents :
        /\ OnPath(n)
        /\ \/ WriteFile(n, c) /\ Tell({<<n, "write">>}, None, {})
           \/ CreateFile(n, c) /\ Tell({<<n, "create">>}, None, {})
           \/ MoveFileIn(n, c) /\ Tell({<<n, "moved to">>}, n, {})
    \/ CloseFile /\ Tell({<<writing, "close">>}, None, {})
    \/ \E n \in AllNodes :
        /\ OnPath(n)
        /\ \/ LoseFile(n) /\ Tell({<<n, "delete">>}, n, {})
           \/ LoseFile(n) /\ MayMoveAway /\ Tell({<<n, "moved from">>}, n, {})
           \/ \E i \in Nodes :
                /\ MayAppear
                /\ AddDirectory(n, i)
                /\ Tell({<<n, IF file[i] = None /\ child[i] = None THEN "create"
                              ELSE "moved to">>}, None, {})
           \/ /\ RemoveDirectory(n)
              /\ \E self \in SUBSET {<<child[n], "delete self">>} :
                   Tell({<<n, "delete">>} \cup self, None, {child[n]})
           \/ /\ MoveDirectoryOut(n)
              /\ Unopened(child[n])
              /\ Tell({<<n, "moved from">>, <<child[n], "move self">>}, None, {})

\* To move a directory, Windows first breaks the oplocks in it.
AskForDirectory(n) ==
    /\ Counted
    /\ OnPath(n)
    /\ \E o \in oplocks : directory_id[o] \in Subtree(n)
    /\ Post({o \in oplocks : directory_id[o] \in Subtree(n)}, FALSE)
    /\ UNCHANGED <<child, file, gone, writing, backend, inotifyVars, kqueueVars, directory_id,
                   watched_directories, cancelling, lookVars, blind, failures>>
-----------------------------------------------------------------------------
(* Watching the directory `at'.  A call fails if there is no such          *)
(* directory; every failure is reported as a Watch_IO_Error.               *)

Watching(b) == pc = "watch" /\ backend = b

\* What the caller does next, watched or not.
AfterWatch == pc' = IF phase = "canonicalize" THEN "stat" ELSE "read"

Fails == failures < MaxFailures /\ failures' = failures + 1
FailedWatch ==
    /\ \/ DirAt(at) = None /\ UNCHANGED <<blind, failures>>
       \/ DirAt(at) # None /\ Fails /\ blind' = blind \cup {at}
    /\ AfterWatch
    /\ UNCHANGED <<phase, at, handle, found, seen, diskVars>>

Watched ==
    /\ AfterWatch
    /\ UNCHANGED <<phase, at, found, seen, blind, failures, diskVars>>

CannotWatch == pc = "watch" /\ FailedWatch /\ UNCHANGED kernelVars

InotifyWatch ==
    /\ Watching("inotify")
    /\ DirAt(at) # None
    /\ inotifyWatches' = inotifyWatches \cup {DirAt(at)}
    /\ watch_descriptors' = watch_descriptors \cup {DirAt(at)}
    /\ Watched
    /\ UNCHANGED <<backend, inotifyQueue, kqueueVars, win32Vars, handle>>

KqueueOpen ==
    /\ Watching("kqueue")
    /\ DirAt(at) # None
    /\ handle' = DirAt(at)
    /\ pc' = "register"
    /\ UNCHANGED <<diskVars, kernelVars, phase, at, found, seen, blind, failures>>

\* A descriptor is registered; closing the one it replaces drops its event.
Register(key, node) ==
    /\ watched_files' = [watched_files EXCEPT ![key] = node]
    /\ fired' = fired \ {key}

\* The first descriptor of the same directory is kept.
KqueueRegister(key) ==
    IF watched_files[key] = handle THEN UNCHANGED <<watched_files, fired>>
    ELSE Register(key, handle)

KqueueWatch ==
    /\ pc = "register" /\ backend = "kqueue"
    /\ KqueueRegister(<<"directory", at>>)
    /\ handle' = None
    /\ Watched
    /\ UNCHANGED <<backend, inotifyVars, opened, win32Vars>>

Free(o) == directory_id' = [directory_id EXCEPT ![o] = None]
Entry(o) == \E l \in Levels : watched_directories[l] = o

CancelWatch_Drop(o) == cancelling' = cancelling /\ Post({o} \cap oplocks, TRUE)  \* mutated

\* cancel_watch: an oplock that has broken already cannot be cancelled.
CancelWatch(o) == cancelling' = cancelling \cup {o} /\ Post({o} \cap oplocks, TRUE)

\* CreateFileW and the identity of the directory: nothing changes if it is the
\* one that is watched.
Win32Open ==
    /\ Watching("win32")
    /\ DirAt(at) # None
    /\ LET old == watched_directories[at] IN
       IF old # None /\ directory_id[old] = DirAt(at)
       THEN /\ AfterWatch
            /\ UNCHANGED <<win32Vars, handle>>
       ELSE \E o \in Objects :
            /\ directory_id[o] = None
            /\ directory_id' = [directory_id EXCEPT ![o] = DirAt(at)]
            /\ watched_directories' = [watched_directories EXCEPT ![at] = o]
            /\ IF old = None THEN UNCHANGED <<cancelling, oplocks, port>>
               ELSE CancelWatch(old)
            /\ handle' = o
            /\ pc' = "register"
    /\ UNCHANGED <<diskVars, backend, inotifyVars, kqueueVars, phase, at, found, seen, blind,
                   failures>>

Win32RequestOplock ==
    /\ pc = "register" /\ backend = "win32"
    /\ oplocks' = oplocks \cup {handle}
    /\ handle' = None
    /\ Watched
    /\ UNCHANGED <<backend, inotifyVars, kqueueVars, directory_id, watched_directories, cancelling,
                   port>>

\* The entry stays, without an oplock.
Win32RequestFails ==
    /\ pc = "register" /\ backend = "win32"
    /\ Fails
    /\ blind' = blind \cup {at}
    /\ handle' = None
    /\ AfterWatch
    /\ UNCHANGED <<diskVars, kernelVars, phase, at, found, seen>>
-----------------------------------------------------------------------------
(* What the loader does with the file system.                              *)

GoTo(p, level) ==
    /\ phase' = p /\ at' = level /\ pc' = FirstStep(p, backend)

LookUnchanged == UNCHANGED <<diskVars, kernelVars, handle, blind, failures>>

\* get_file_type of the next component
Stat ==
    /\ pc = "stat"
    /\ IF at < Depth /\ DirAt(at + 1) # None THEN GoTo("canonicalize", at + 1)
       ELSE GoTo("search", at)
    /\ UNCHANGED <<found, seen>>
    /\ LookUnchanged

\* read_file has returned the content of a file, or that there is none.
HasRead(content) ==
    IF phase = "search" /\ content # None
    THEN GoTo("reload", at) /\ found' = Found(at, content) /\ UNCHANGED seen
    ELSE IF phase = "search" /\ at > 0
    THEN GoTo("search", at - 1) /\ UNCHANGED <<found, seen>>
    ELSE /\ pc' = "idle"
         /\ seen' = IF phase = "search" THEN NotFound
                    ELSE IF content = None THEN found ELSE Found(at, content)
         /\ found' = NotFound
         /\ UNCHANGED <<phase, at>>

ReadFile ==
    /\ pc = "read"
    /\ backend = "kqueue" => ConfigAt(at) = None
    /\ HasRead(ConfigAt(at))
    /\ LookUnchanged

\* watch_file: the descriptor of the same file is replaced, too.
KqueueOpenFile ==
    /\ pc = "read" /\ backend = "kqueue"
    /\ ConfigAt(at) # None
    /\ opened' = ConfigAt(at)
    /\ Register(<<"file", at>>, DirAt(at))
    /\ pc' = "contents"
    /\ UNCHANGED <<diskVars, backend, inotifyVars, win32Vars, phase, at, handle, found, seen, blind,
                   failures>>

KqueueReadFile ==
    /\ pc = "contents"
    /\ LET node == watched_files[<<"file", at>>] IN
       HasRead(IF node = Dead THEN opened ELSE file[node])
    /\ opened' = None
    /\ UNCHANGED <<diskVars, backend, inotifyVars, watched_files, fired, win32Vars, handle, blind,
                   failures>>
-----------------------------------------------------------------------------
(* The event loop gets the events, and has the loader refresh.             *)

\* Every directory is watched again, but those whose oplock was refused.
Deaf(o) == o # None /\ o \notin oplocks /\ \A k \in DOMAIN port : port[k].object # o
Refresh ==
    /\ GoTo("canonicalize", 0)
    /\ blind' = {l \in Levels : Deaf(watched_directories[l])}

ReadInotify ==
    /\ pc = "idle"
    /\ inotifyQueue # {}
    /\ watch_descriptors' = watch_descriptors \ inotifyQueue
    /\ inotifyQueue' = {}
    /\ Refresh
    /\ UNCHANGED <<diskVars, backend, inotifyWatches, kqueueVars, win32Vars, handle, found, seen,
                   failures>>

HandleKqueueEvents ==
    /\ pc = "idle"
    /\ fired # {}
    /\ fired' = {}
    /\ Refresh
    /\ UNCHANGED <<diskVars, backend, inotifyVars, watched_files, opened, win32Vars, handle, found,
                   seen, failures>>

\* handle_event: the object of the packet is that of a watch, or was.
HandleOplockEvent ==
    /\ pc = "idle"
    /\ port # << >>
    /\ LET o == Head(port).object IN
       /\ Free(o)
       /\ cancelling' = cancelling \ {o}
       /\ watched_directories' = [l \in Levels |->
            IF watched_directories[l] = o THEN None ELSE watched_directories[l]]
    /\ port' = Tail(port)
    /\ IF Head(port).aborted THEN UNCHANGED <<pc, phase, at, blind>> ELSE Refresh
    /\ UNCHANGED <<diskVars, backend, inotifyVars, kqueueVars, oplocks, handle, found, seen,
                   failures>>
-----------------------------------------------------------------------------
WatchNext ==
    \/ CannotWatch
    \/ InotifyWatch
    \/ KqueueOpen \/ KqueueWatch
    \/ Win32Open \/ Win32RequestOplock \/ Win32RequestFails
ReadNext == Stat \/ ReadFile \/ KqueueOpenFile \/ KqueueReadFile
EventNext == ReadInotify \/ HandleKqueueEvents \/ HandleOplockEvent
ServerNext == WatchNext \/ ReadNext \/ EventNext

Next == DiskNext \/ (\E n \in Nodes : AskForDirectory(n)) \/ ServerNext

Spec == Init /\ [][Next]_vars
-----------------------------------------------------------------------------
(* Properties.                                                             *)

NoEvents == inotifyQueue = {} /\ fired = {} /\ port = << >>

\* When the loader is done and no event waits, the configuration file it has
\* loaded is the one that a look at the disk finds now, with the content that
\* it has now: no change of the disk, at whatever moment of a look, is missed,
\* unless a directory could not be watched.  Two changes the code does miss and
\* are not made unless `Missed' has them: a file that is moved away, with
\* inotify, and a directory that appears in the middle of a look, on Windows.
NoChangeIsMissed ==
    pc = "idle" /\ NoEvents /\ writing = None /\ blind = {} => seen = Fresh

\* Every watch of the kernel is known to the program until it ends: the
\* destructor removes those of inotify, and a packet of the completion port
\* names an object that still exists, and that awaits it.
WatchesAreOwned ==
    /\ inotifyWatches \subseteq watch_descriptors
    /\ \A o \in oplocks : Entry(o)
    /\ \A k \in DOMAIN port :
         LET o == port[k].object IN
         /\ directory_id[o] # None
         /\ o \in cancelling \/ (~port[k].aborted /\ Entry(o))
         /\ \A j \in DOMAIN port : port[j].object = o => j = k
=============================================================================
