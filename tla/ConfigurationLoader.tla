------------------------ MODULE ConfigurationLoader ------------------------
(***************************************************************************)
(* configuration/configuration-loader.{h,cpp}: finds, caches and watches   *)
(* quick-lint-js.config files over a file system that other processes      *)
(* change at any time, between two reads of one refresh() too.             *)
(*                                                                         *)
(* A configuration file is named by the canonical directory it is in.      *)
(* refresh() is split at every look at the file system; a load is one      *)
(* action, since it reads one file of a path that it walks upwards once.   *)
(***************************************************************************)
EXTENDS Integers, Sequences, FiniteSets

CONSTANTS
    Dirs,         \* canonical directories
    Ancestors,    \* Ancestors[d]: d, its parent, ... up to the root
    InputPaths,   \* paths of .js files, as callers spell them
    ConfigPaths,  \* paths of configuration files, as callers spell them
    Tokens,       \* tokens of callers
    Contents,     \* contents of configuration files
    MaxWatches,   \* bound: watches of both kinds
    MaxRaces      \* bound: changes of the file system during one refresh()

None == "none"
NotFound == "not found"
Unreadable == "unreadable"
NotLoaded == "not loaded"

FileState == Contents \cup {NotFound, Unreadable}

ASSUME LoaderAssumption ==
    /\ Ancestors \in [Dirs -> Seq(Dirs)]
    /\ InputPaths \cap ConfigPaths = {}
    /\ None \notin Dirs
    /\ {NotFound, Unreadable, NotLoaded} \cap Contents = {}
    /\ MaxWatches \in Nat
    /\ MaxRaces \in Nat

VARIABLES
    \* the file system
    content,        \* the file quick-lint-js.config of every directory
    canonical,      \* the directory a configuration path leads to, or None
    directory,      \* the nearest existing directory of an input, or None
    \* the loader
    loaded,         \* loaded_config_files_: the content parsed last
    configWatches,  \* watched_config_paths_
    inputWatches,   \* watched_input_paths_
    \* a call of refresh()
    rpc, at, unread, telling, changes,
    \* history variables: nothing in the code reads them
    told,           \* what every watcher was told last
    races,          \* changes of the file system during this refresh()
    synced          \* has a refresh() seen the file system as it is now?

fsVars == <<content, canonical, directory>>
watchVars == <<configWatches, inputWatches>>
refreshVars == <<rpc, at, unread, telling, changes>>
vars == <<fsVars, loaded, watchVars, refreshVars, told, races, synced>>

Paths == InputPaths \cup ConfigPaths
Watchers == Paths \X Tokens

NoError == << >>
CanonicalizeError == <<"canonicalize">>
ReadError(d) == <<content[d], d>>
Errors == {CanonicalizeError} \cup ({NotFound, Unreadable} \X Dirs)

\* The outcome of looking for a configuration: at most one of the two is set.
Outcome(config, error) == [config |-> config, error |-> error]

Cached == {d \in Dirs : loaded[d] # NotLoaded}

\* What a caller sees of an outcome: it follows the pointer to the content.
View(r, contents) ==
    [config |-> r.config, error |-> r.error,
     content |-> IF r.config = None THEN NotLoaded ELSE contents[r.config]]

Untold == [config |-> None, error |-> NoError, content |-> None]

Init ==
    /\ content \in [Dirs -> FileState]
    /\ canonical \in [ConfigPaths -> Dirs \cup {None}]
    /\ directory \in [InputPaths -> Dirs \cup {None}]
    /\ loaded = [d \in Dirs |-> NotLoaded]
    /\ configWatches = << >>
    /\ inputWatches = << >>
    /\ rpc = "idle"
    /\ at = 1
    /\ unread = {}
    /\ telling = None
    /\ changes = << >>
    /\ told = [w \in Watchers |-> Untold]
    /\ races = 0
    /\ synced = FALSE

-----------------------------------------------------------------------------
(* Looking for a configuration file.  Files in `known' are not read again. *)

Readable_Exists(d, known) == d \in known \/ content[d] # NotFound
Readable(d, known) == d \in known \/ content[d] \in Contents

\* load_config_file: a file that was asked for by name must exist.
FindNamed(path, known) ==
    LET d == canonical[path] IN
    IF d = None THEN Outcome(None, CanonicalizeError)
    ELSE IF Readable(d, known) THEN Outcome(d, NoError)
    ELSE Outcome(None, ReadError(d))

Stops(dirs, known) ==
    {k \in DOMAIN dirs : dirs[k] \in known \/ content[dirs[k]] # NotFound}

\* find_config_file_in_directory_and_ancestors: the nearest one wins, even if
\* it cannot be read.
FindForInput(path, known) ==
    IF directory[path] = None THEN Outcome(None, CanonicalizeError)
    ELSE LET dirs == Ancestors[directory[path]]
             stops == Stops(dirs, known)
             d == dirs[CHOOSE k \in stops : \A j \in stops : k <= j]
         IN IF stops = {} THEN Outcome(None, NoError)
            ELSE IF Readable(d, known) THEN Outcome(d, NoError)
            ELSE Outcome(None, ReadError(d))

Find(path, known) ==
    IF path \in ConfigPaths THEN FindNamed(path, known) ELSE FindForInput(path, known)

\* The outcome for a reader with no cache.
Fresh(path) == Find(path, {})

\* The cache, with the file of an outcome added if it was not there.
WithLoaded(r) ==
    IF r.config = None \/ r.config \in Cached THEN loaded
    ELSE [loaded EXCEPT ![r.config] = content[r.config]]

-----------------------------------------------------------------------------
(* Loading and watching. *)

AllWatches == configWatches \o inputWatches

Watched(path) == \E i \in DOMAIN AllWatches : AllWatches[i].path = path

\* Callers watch a path once, and do not load it otherwise while it is watched.
MayUse(path) == rpc = "idle" /\ ~Watched(path)

Watch(path, token, config, error) ==
    [path |-> path, config |-> config, error |-> error, token |-> token]

WatchAndLoadConfigFile(path, token) ==
    /\ MayUse(path)
    /\ Len(AllWatches) < MaxWatches
    /\ LET r == FindNamed(path, Cached) IN
       /\ configWatches' = Append(configWatches, Watch(path, token, r.config, r.error))
       /\ loaded' = WithLoaded(r)
       /\ told' = [told EXCEPT ![<<path, token>>] = View(r, loaded')]
    /\ synced' = FALSE
    /\ UNCHANGED <<fsVars, inputWatches, refreshVars, races>>

\* find_and_load_config_file_in_directory_and_ancestors points every watch of
\* the input at the file it found, and no watch anywhere if it found none.
PointAt(watches, path, r) ==
    [i \in DOMAIN watches |->
        IF watches[i].path = path /\ r.config # None
        THEN [watches[i] EXCEPT !.config = r.config] ELSE watches[i]]

WatchAndLoadForFile(path, token) ==
    /\ MayUse(path)
    /\ Len(AllWatches) < MaxWatches
    /\ LET r == FindForInput(path, Cached)
           w == Watch(path, token, None, r.error)
       IN /\ inputWatches' = PointAt(Append(inputWatches, w), path, r)
          /\ loaded' = WithLoaded(r)
          /\ told' = [told EXCEPT ![<<path, token>>] = View(r, loaded')]
    /\ synced' = FALSE
    /\ UNCHANGED <<fsVars, configWatches, refreshVars, races>>

\* load_for_file, with and without File_To_Lint::config_file.
LoadForFile(path) ==
    /\ MayUse(path)
    /\ LET r == Find(path, Cached) IN
       /\ loaded' = WithLoaded(r)
       /\ inputWatches' = PointAt(inputWatches, path, r)
    /\ synced' = FALSE
    /\ UNCHANGED <<fsVars, configWatches, refreshVars, told, races>>

\* Every watch of the path is erased; as callers watch a path once, there is
\* one at most.
Without(watches, path) ==
    LET i == CHOOSE k \in DOMAIN watches : watches[k].path = path
    IN IF \E k \in DOMAIN watches : watches[k].path = path
       THEN [k \in 1 .. Len(watches) - 1 |-> watches[IF k < i THEN k ELSE k + 1]]
       ELSE watches

Forget(paths) ==
    [w \in Watchers |-> IF w[1] \in paths THEN Untold ELSE told[w]]

UnwatchFile(path) ==
    /\ rpc = "idle"
    /\ configWatches' = Without(configWatches, path)
    /\ inputWatches' = Without(inputWatches, path)
    /\ told' = Forget({path})
    /\ UNCHANGED <<fsVars, loaded, refreshVars, races, synced>>

UnwatchAllFiles ==
    /\ rpc = "idle"
    /\ configWatches' = << >>
    /\ inputWatches' = << >>
    /\ told' = Forget(Paths)
    /\ UNCHANGED <<fsVars, loaded, refreshVars, races, synced>>

-----------------------------------------------------------------------------
(* refresh(). *)

Change(w, r) ==
    [path |-> w.path, token |-> w.token, config |-> r.config, error |-> r.error]

\* Is the latest outcome of a watch news?
Differs(w, r) ==
    IF r.error # NoError THEN w.error # r.error
    ELSE r.config # w.config \/ w.error # NoError

Updated_KeepConfig(w, r) == [w EXCEPT !.error = r.error]
Updated(w, r) ==
    IF r.error # NoError THEN [w EXCEPT !.error = r.error]
    ELSE [w EXCEPT !.config = r.config, !.error = NoError]

BeginRefresh ==
    /\ rpc = "idle"
    /\ rpc' = "watches"
    /\ at' = 1
    /\ changes' = << >>
    /\ UNCHANGED <<fsVars, loaded, watchVars, unread, telling, told, races, synced>>

\* loaded_config_files_ is moved away for these two loops: no file is known.
RefreshWatch(w, r) ==
    /\ changes' = IF Differs(w, r) THEN Append(changes, Change(w, r)) ELSE changes
    /\ loaded' = IF Differs(w, r) THEN WithLoaded(r) ELSE loaded
    /\ at' = at + 1
    /\ UNCHANGED <<fsVars, rpc, unread, telling, told, races, synced>>

RefreshConfigWatch ==
    /\ rpc = "watches"
    /\ at \in DOMAIN configWatches
    /\ LET w == configWatches[at]
           r == FindNamed(w.path, {})
       IN /\ configWatches' = [configWatches EXCEPT ![at] = Updated(w, r)]
          /\ RefreshWatch(w, r)
    /\ UNCHANGED inputWatches

RefreshInputWatch ==
    /\ rpc = "watches"
    /\ LET i == at - Len(configWatches) IN
       /\ i \in DOMAIN inputWatches
       /\ LET w == inputWatches[i]
              r == FindForInput(w.path, {})
          IN /\ inputWatches' = [inputWatches EXCEPT ![i] = Updated(w, r)]
             /\ RefreshWatch(w, r)
    /\ UNCHANGED configWatches

BeginReload ==
    /\ rpc = "watches"
    /\ at > Len(AllWatches)
    /\ rpc' = "reload"
    /\ unread' = Cached
    /\ UNCHANGED <<fsVars, loaded, watchVars, at, telling, changes, told, races, synced>>

\* A file that cannot be read any more keeps its entry.
Modified(d) == content[d] \in Contents /\ content[d] # loaded[d]

\* The last loop of refresh visits the cache in the order of a hash map.
Reload(d) ==
    /\ rpc = "reload"
    /\ d \in unread
    /\ unread' = unread \ {d}
    /\ IF Modified(d)
       THEN /\ loaded' = [loaded EXCEPT ![d] = content[d]]
            /\ rpc' = "tell"
            /\ telling' = d
            /\ at' = 1
       ELSE UNCHANGED <<loaded, rpc, telling, at>>
    /\ UNCHANGED <<fsVars, watchVars, changes, told, races, synced>>

AlreadyChanged_ByToken(w) == \E k \in DOMAIN changes : changes[k].token = w.token

\* A second change for a configuration watch is told by its path and token, one
\* for an input watch by its path alone.
AlreadyChanged(w) ==
    \E k \in DOMAIN changes :
        /\ changes[k].path = w.path
        /\ w.path \in ConfigPaths => changes[k].token = w.token

TellWatch ==
    /\ rpc = "tell"
    /\ at \in DOMAIN AllWatches
    /\ LET w == AllWatches[at] IN
       changes' = IF w.config = telling /\ ~AlreadyChanged(w)
                  THEN Append(changes, Change(w, Outcome(telling, NoError)))
                  ELSE changes
    /\ at' = at + 1
    /\ UNCHANGED <<fsVars, loaded, watchVars, rpc, unread, telling, told, races, synced>>

EndTell ==
    /\ rpc = "tell"
    /\ at > Len(AllWatches)
    /\ rpc' = "reload"
    /\ telling' = None
    /\ UNCHANGED <<fsVars, loaded, watchVars, at, unread, changes, told, races, synced>>

\* The caller gets the changes and follows their pointers.
EndRefresh ==
    /\ rpc = "reload"
    /\ unread = {}
    /\ rpc' = "idle"
    /\ at' = 1
    /\ changes' = << >>
    /\ told' = [w \in Watchers |->
                 LET mine == {k \in DOMAIN changes :
                                changes[k].path = w[1] /\ changes[k].token = w[2]}
                     last == CHOOSE k \in mine : \A j \in mine : k >= j
                 IN IF mine = {} THEN told[w] ELSE View(changes[last], loaded)]
    /\ races' = 0
    /\ synced' = (races = 0)
    /\ UNCHANGED <<fsVars, loaded, watchVars, unread, telling>>

-----------------------------------------------------------------------------
(* Other processes change the file system.  Telling the watches reads no    *)
(* file: a change meanwhile is seen no sooner than one after it.            *)

FsChange ==
    /\ rpc # "tell"
    /\ IF rpc = "idle" THEN races' = races
       ELSE races < MaxRaces /\ races' = races + 1
    /\ synced' = FALSE
    /\ UNCHANGED <<loaded, watchVars, refreshVars, told>>

\* The content may be what it was.
WriteConfig(d, c) ==
    /\ FsChange
    /\ content' = [content EXCEPT ![d] = c]
    /\ UNCHANGED <<canonical, directory>>

\* A directory or a symbolic link is made, removed or moved.
MoveConfigPath(path, d) ==
    /\ FsChange
    /\ canonical[path] # d
    /\ canonical' = [canonical EXCEPT ![path] = d]
    /\ UNCHANGED <<content, directory>>

MoveInputPath(path, d) ==
    /\ FsChange
    /\ directory[path] # d
    /\ directory' = [directory EXCEPT ![path] = d]
    /\ UNCHANGED <<content, canonical>>

FsNext ==
    \/ \E d \in Dirs, c \in FileState : WriteConfig(d, c)
    \/ \E path \in ConfigPaths, d \in Dirs \cup {None} : MoveConfigPath(path, d)
    \/ \E path \in InputPaths, d \in Dirs \cup {None} : MoveInputPath(path, d)

RefreshNext ==
    \/ BeginRefresh
    \/ RefreshConfigWatch
    \/ RefreshInputWatch
    \/ BeginReload
    \/ \E d \in Dirs : Reload(d)
    \/ TellWatch
    \/ EndTell
    \/ EndRefresh

CallNext ==
    \/ \E path \in ConfigPaths, token \in Tokens : WatchAndLoadConfigFile(path, token)
    \/ \E path \in InputPaths, token \in Tokens : WatchAndLoadForFile(path, token)
    \/ \E path \in Paths : LoadForFile(path)
    \/ \E path \in Paths : UnwatchFile(path)
    \/ UnwatchAllFiles

Next == CallNext \/ RefreshNext \/ FsNext

Spec == Init /\ [][Next]_vars

-----------------------------------------------------------------------------
(* Properties. *)

WatchType(paths) ==
    [path : paths, config : Dirs \cup {None}, error : Errors \cup {NoError},
     token : Tokens]

\* Type correctness of all variables.
TypeOK ==
    /\ content \in [Dirs -> FileState]
    /\ canonical \in [ConfigPaths -> Dirs \cup {None}]
    /\ directory \in [InputPaths -> Dirs \cup {None}]
    /\ loaded \in [Dirs -> Contents \cup {NotLoaded}]
    /\ configWatches \in Seq(WatchType(ConfigPaths))
    /\ inputWatches \in Seq(WatchType(InputPaths))
    /\ rpc \in {"idle", "watches", "reload", "tell"}
    /\ at \in Nat
    /\ unread \subseteq Dirs
    /\ telling \in Dirs \cup {None}
    /\ changes \in Seq(WatchType(Paths))
    /\ told \in [Watchers -> [config : Dirs \cup {None}, error : Errors \cup {NoError},
                              content : Contents \cup {None, NotLoaded}]]
    /\ races \in 0 .. MaxRaces
    /\ synced \in BOOLEAN

\* When no file changed during a refresh(), every watcher whose configuration
\* can be determined has been told the very file, and the content of it, that
\* a lookup without any cache finds: whatever was cached, deleted, moved or
\* unreadable before, and whatever earlier refreshes missed.
RefreshTellsEveryWatch ==
    synced =>
        \A i \in DOMAIN AllWatches :
            LET path == AllWatches[i].path IN
            Fresh(path).error = NoError =>
                told[<<path, AllWatches[i].token>>] = View(Fresh(path), content)

\* A loaded file is parsed again in place, under the pointers that were handed
\* out.  No watcher holds such a pointer without having been told that what it
\* points at changed.
InPlaceUpdatesAreTold ==
    rpc = "idle" =>
        \A w \in Watchers :
            told[w].config # None => told[w].content = loaded[told[w].config]
=============================================================================
