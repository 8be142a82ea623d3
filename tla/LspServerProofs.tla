---------------------------- MODULE LspServerProofs ----------------------------
(***************************************************************************)
(* Proofs about LspServer, for any files, documents and texts, any changes *)
(* of the disk, and any number of documents that are open.                 *)
(*                                                                         *)
(* First, the server's loader is a ConfigurationLoader whose files are the *)
(* disk seen through the overlay, so that what is proved of the loader     *)
(* holds of it.  Then an invariant relates each document to what the       *)
(* loader told the server of it last: to the diagnostics that the client   *)
(* has, and to what is on disk.                                            *)
(***************************************************************************)
EXTENDS LspServer, TLAPS

\* What is proved of the loader, for the loader of the server.
LP == INSTANCE ConfigurationLoaderProofs
        WITH content <- Content, Tokens <- Paths, MaxWatches <- MaxDocuments

-----------------------------------------------------------------------------
(* The two instances of the loader are one. *)

LEMMA SameConstants ==
    /\ LP!None = None /\ Loader!None = None
    /\ LP!NotFound = Loader!NotFound /\ LP!Unreadable = Loader!Unreadable
    /\ LP!NotLoaded = Loader!NotLoaded /\ LP!NoError = Loader!NoError
    /\ LP!CanonicalizeError = Loader!CanonicalizeError
    /\ LP!FileState = Loader!FileState /\ LP!Paths = Paths /\ Loader!Paths = Paths
    /\ LP!Watchers = Loader!Watchers /\ LP!Untold = Loader!Untold
BY DEF None, Paths, LP!None, Loader!None, LP!NotFound, Loader!NotFound, LP!Unreadable, Loader!Unreadable,
   LP!NotLoaded, Loader!NotLoaded, LP!NoError, Loader!NoError, LP!CanonicalizeError,
   Loader!CanonicalizeError, LP!FileState, Loader!FileState, LP!Paths, Loader!Paths,
   LP!Watchers, Loader!Watchers, LP!Untold, Loader!Untold

LEMMA LoaderAssumed == LP!LoaderAssumption
BY ServerAssumption, SameConstants DEF LP!LoaderAssumption, Loader!LoaderAssumption

LEMMA SameOutcomes ==
    /\ \A c, e : LP!Outcome(c, e) = Loader!Outcome(c, e)
    /\ \A d : LP!ReadError(d) = Loader!ReadError(d)
    /\ \A r, contents : LP!View(r, contents) = Loader!View(r, contents)
    /\ \A w, r : LP!Change(w, r) = Loader!Change(w, r)
    /\ \A w, r : LP!Updated(w, r) = Loader!Updated(w, r)
    /\ \A w, r : LP!Differs(w, r) = Loader!Differs(w, r)
BY SameConstants DEF LP!Outcome, Loader!Outcome, LP!ReadError, Loader!ReadError, LP!View, Loader!View,
   LP!Change, Loader!Change, LP!Updated, Loader!Updated, LP!Differs, Loader!Differs

LEMMA SameSearch ==
    /\ LP!Cached = Loader!Cached
    /\ \A path, known : LP!FindNamed(path, known) = Loader!FindNamed(path, known)
    /\ \A path, known : LP!FindForInput(path, known) = Loader!FindForInput(path, known)
    /\ \A path : LP!Fresh(path) = Loader!Fresh(path)
    /\ \A r : LP!WithLoaded(r) = Loader!WithLoaded(r)
<1>1. LP!Cached = Loader!Cached
  BY SameConstants DEF LP!Cached, Loader!Cached
<1>2. \A d, known : LP!Readable(d, known) = Loader!Readable(d, known)
  BY DEF LP!Readable, Loader!Readable
<1>3. \A path, known : LP!FindNamed(path, known) = Loader!FindNamed(path, known)
  BY <1>2, SameConstants, SameOutcomes DEF LP!FindNamed, Loader!FindNamed
<1>4. \A dirs, known : LP!Stops(dirs, known) = Loader!Stops(dirs, known)
  BY SameConstants DEF LP!Stops, Loader!Stops
<1>5. ASSUME NEW path, NEW known
      PROVE  LP!FindForInput(path, known) = Loader!FindForInput(path, known)
  <2> DEFINE dirs == Ancestors[directory[path]]
             Nearest(stops) == dirs[CHOOSE k \in stops : \A j \in stops : k <= j]
             Found(stops) ==
                IF directory[path] = None THEN LP!Outcome(None, LP!CanonicalizeError)
                ELSE IF stops = {} THEN LP!Outcome(None, LP!NoError)
                ELSE IF LP!Readable(Nearest(stops), known) THEN LP!Outcome(Nearest(stops), LP!NoError)
                ELSE LP!Outcome(None, LP!ReadError(Nearest(stops)))
  <2>1. LP!FindForInput(path, known) = Found(LP!Stops(dirs, known))
    BY SameConstants DEF LP!FindForInput
  <2>2. Loader!FindForInput(path, known) = Found(Loader!Stops(dirs, known))
    BY <1>2, SameConstants, SameOutcomes DEF Loader!FindForInput
  <2> HIDE DEF Found
  <2> QED
    BY <1>4, <2>1, <2>2
<1>6. \A path : LP!Fresh(path) = Loader!Fresh(path)
  BY <1>3, <1>5 DEF LP!Fresh, Loader!Fresh, LP!Find, Loader!Find
<1>7. \A r : LP!WithLoaded(r) = Loader!WithLoaded(r)
  BY <1>1, SameConstants DEF LP!WithLoaded, Loader!WithLoaded
<1> QED
  BY <1>1, <1>3, <1>5, <1>6, <1>7

LEMMA SameWatches ==
    /\ LP!AllWatches = Loader!AllWatches
    /\ \A path : LP!MayUse(path) = Loader!MayUse(path)
    /\ \A p, t, c, e : LP!Watch(p, t, c, e) = Loader!Watch(p, t, c, e)
    /\ \A s, path, r : LP!PointAt(s, path, r) = Loader!PointAt(s, path, r)
    /\ \A s, path : LP!Without(s, path) = Loader!Without(s, path)
    /\ \A paths : LP!Forget(paths) = Loader!Forget(paths)
    /\ \A w : LP!AlreadyChanged(w) = Loader!AlreadyChanged(w)
    /\ \A d : LP!Modified(d) = Loader!Modified(d)
<1>1. LP!AllWatches = Loader!AllWatches
  BY DEF LP!AllWatches, Loader!AllWatches
<1>2. \A path : LP!MayUse(path) = Loader!MayUse(path)
  BY <1>1 DEF LP!MayUse, Loader!MayUse, LP!Watched, Loader!Watched
<1>3. \A p, t, c, e : LP!Watch(p, t, c, e) = Loader!Watch(p, t, c, e)
  BY DEF LP!Watch, Loader!Watch
<1>4. \A s, path, r : LP!PointAt(s, path, r) = Loader!PointAt(s, path, r)
  BY SameConstants DEF LP!PointAt, Loader!PointAt
<1>5. \A s, path : LP!Without(s, path) = Loader!Without(s, path)
  BY DEF LP!Without, Loader!Without
<1>6. \A paths : LP!Forget(paths) = Loader!Forget(paths)
  BY SameConstants DEF LP!Forget, Loader!Forget
<1>7. \A w : LP!AlreadyChanged(w) = Loader!AlreadyChanged(w)
  BY DEF LP!AlreadyChanged, Loader!AlreadyChanged
<1>8. \A d : LP!Modified(d) = Loader!Modified(d)
  BY DEF LP!Modified, Loader!Modified
<1> QED
  BY <1>1, <1>2, <1>3, <1>4, <1>5, <1>6, <1>7, <1>8

LEMMA SameFsChange == Loader!FsChange <=> LP!FsChange
BY DEF LP!FsChange, Loader!FsChange, LP!watchVars, Loader!watchVars, LP!refreshVars, Loader!refreshVars

LEMMA SameFiles == Loader!FsNext <=> LP!FsNext
BY SameConstants, SameFsChange
   DEF Loader!FsNext, LP!FsNext, Loader!WriteConfig, LP!WriteConfig, Loader!MoveConfigPath,
       LP!MoveConfigPath, Loader!MoveInputPath, LP!MoveInputPath

LEMMA SameCalls ==
    /\ \A path, token : Loader!WatchAndLoadConfigFile(path, token) <=>
                          LP!WatchAndLoadConfigFile(path, token)
    /\ \A path, token : Loader!WatchAndLoadForFile(path, token) <=>
                          LP!WatchAndLoadForFile(path, token)
    /\ \A path : Loader!LoadForFile(path) <=> LP!LoadForFile(path)
    /\ \A path : Loader!UnwatchFile(path) <=> LP!UnwatchFile(path)
    /\ Loader!UnwatchAllFiles <=> LP!UnwatchAllFiles
<1> USE DEF LP!fsVars, Loader!fsVars, LP!watchVars, Loader!watchVars, LP!refreshVars, Loader!refreshVars
<1>1. ASSUME NEW path, NEW token
      PROVE  Loader!WatchAndLoadConfigFile(path, token) <=> LP!WatchAndLoadConfigFile(path, token)
  BY SameConstants, SameOutcomes, SameSearch, SameWatches
     DEF Loader!WatchAndLoadConfigFile, LP!WatchAndLoadConfigFile
<1>2. ASSUME NEW path, NEW token
      PROVE  Loader!WatchAndLoadForFile(path, token) <=> LP!WatchAndLoadForFile(path, token)
  BY SameConstants, SameOutcomes, SameSearch, SameWatches
     DEF Loader!WatchAndLoadForFile, LP!WatchAndLoadForFile
<1>3. ASSUME NEW path PROVE Loader!LoadForFile(path) <=> LP!LoadForFile(path)
  <2>1. LP!Find(path, LP!Cached) = Loader!Find(path, Loader!Cached)
    BY SameSearch DEF LP!Find, Loader!Find
  <2> QED
    BY <2>1, SameConstants, SameSearch, SameWatches DEF Loader!LoadForFile, LP!LoadForFile
<1>4. ASSUME NEW path PROVE Loader!UnwatchFile(path) <=> LP!UnwatchFile(path)
  BY SameConstants, SameWatches DEF Loader!UnwatchFile, LP!UnwatchFile
<1>5. Loader!UnwatchAllFiles <=> LP!UnwatchAllFiles
  BY SameConstants, SameWatches DEF Loader!UnwatchAllFiles, LP!UnwatchAllFiles
<1> QED
  BY <1>1, <1>2, <1>3, <1>4, <1>5

LEMMA SameRefresh ==
    /\ Loader!BeginRefresh <=> LP!BeginRefresh
    /\ Loader!RefreshConfigWatch <=> LP!RefreshConfigWatch
    /\ Loader!RefreshInputWatch <=> LP!RefreshInputWatch
    /\ Loader!BeginReload <=> LP!BeginReload
    /\ \A d : Loader!Reload(d) <=> LP!Reload(d)
    /\ Loader!TellWatch <=> LP!TellWatch
    /\ Loader!EndTell <=> LP!EndTell
    /\ Loader!EndRefresh <=> LP!EndRefresh
<1> USE DEF LP!fsVars, Loader!fsVars, LP!watchVars, Loader!watchVars, LP!refreshVars, Loader!refreshVars
<1>1. Loader!BeginRefresh <=> LP!BeginRefresh
  BY DEF Loader!BeginRefresh, LP!BeginRefresh
<1>2. \A w, r : Loader!RefreshWatch(w, r) <=> LP!RefreshWatch(w, r)
  BY SameOutcomes, SameSearch DEF Loader!RefreshWatch, LP!RefreshWatch
<1>3. Loader!RefreshConfigWatch <=> LP!RefreshConfigWatch
  BY <1>2, SameOutcomes, SameSearch DEF Loader!RefreshConfigWatch, LP!RefreshConfigWatch
<1>4. Loader!RefreshInputWatch <=> LP!RefreshInputWatch
  BY <1>2, SameOutcomes, SameSearch DEF Loader!RefreshInputWatch, LP!RefreshInputWatch
<1>5. Loader!BeginReload <=> LP!BeginReload
  BY SameSearch, SameWatches DEF Loader!BeginReload, LP!BeginReload
<1>6. \A d : Loader!Reload(d) <=> LP!Reload(d)
  BY SameWatches DEF Loader!Reload, LP!Reload
<1>7. Loader!TellWatch <=> LP!TellWatch
  BY SameConstants, SameOutcomes, SameWatches DEF Loader!TellWatch, LP!TellWatch
<1>8. Loader!EndTell <=> LP!EndTell
  BY SameConstants, SameWatches DEF Loader!EndTell, LP!EndTell
<1>9. Loader!EndRefresh <=> LP!EndRefresh
  BY SameConstants, SameOutcomes DEF Loader!EndRefresh, LP!EndRefresh
<1> QED
  BY <1>1, <1>3, <1>4, <1>5, <1>6, <1>7, <1>8, <1>9

LEMMA SameSteps ==
    /\ LP!Init => Loader!Init
    /\ [LP!Next]_(LP!vars) => [Loader!Next]_(Loader!vars)
<1>1. LP!Init => Loader!Init
  BY SameConstants DEF LP!Init, Loader!Init
<1>2. LP!CallNext => Loader!CallNext
  BY SameCalls, SameConstants DEF LP!CallNext, Loader!CallNext
<1>3. LP!RefreshNext => Loader!RefreshNext
  BY SameRefresh DEF LP!RefreshNext, Loader!RefreshNext
<1>4. LP!Next => Loader!Next
  BY <1>2, <1>3, SameFiles DEF LP!Next, Loader!Next
<1>5. UNCHANGED LP!vars => UNCHANGED Loader!vars
  BY DEF LP!vars, Loader!vars, LP!fsVars, Loader!fsVars, LP!watchVars, Loader!watchVars,
         LP!refreshVars, Loader!refreshVars
<1> QED
  BY <1>1, <1>4, <1>5

-----------------------------------------------------------------------------
(* What the loader sees through the overlay. *)

\* An open configuration document hides the file that it is the path of.
LEMMA HiddenContent ==
    ASSUME NEW path \in overlaid \cap ConfigPaths, Spelled[path] # None
    PROVE  /\ Spelled[path] \in Dirs
           /\ Content[Spelled[path]] = text[path]
<1>1. Spelled[path] \in Dirs
  BY ServerAssumption
<1>2. Hides(Spelled[path]) = {path}
  BY ServerAssumption DEF Hides
<1> QED
  BY <1>1, <1>2 DEF Content

LEMMA BareContent ==
    ASSUME NEW d \in Dirs, Hides(d) = {}
    PROVE  Content[d] = disk[d]
BY DEF Content

LEMMA ContentStays ==
    ASSUME NEW d \in Dirs, disk'[d] = disk[d], Hides(d)' = Hides(d),
           \A p \in Hides(d) : text'[p] = text[p]
    PROVE  Content'[d] = Content[d]
<1>1. CASE Hides(d) = {}
  BY <1>1 DEF Content
<1>2. CASE Hides(d) # {}
  <2> DEFINE p == CHOOSE q \in Hides(d) : TRUE
  <2>1. p \in Hides(d)
    BY <1>2
  <2>2. Content[d] = text[p]
    BY <1>2 DEF Content
  <2>3. Content'[d] = text'[p]
    BY <1>2 DEF Content
  <2> QED
    BY <2>1, <2>2, <2>3
<1> QED
  BY <1>1, <1>2

LEMMA SameContent ==
    ASSUME disk' = disk, overlaid' \cap ConfigPaths = overlaid \cap ConfigPaths,
           \A p \in ConfigPaths : Spelled[p] # None => text'[p] = text[p]
    PROVE  Content' = Content
<1>1. ASSUME NEW d \in Dirs PROVE Content'[d] = Content[d]
  <2>1. Hides(d)' = Hides(d)
    BY DEF Hides
  <2>2. \A p \in Hides(d) : text'[p] = text[p]
    BY SameConstants, LoaderAssumed DEF Hides, LP!LoaderAssumption
  <2> QED
    BY <2>1, <2>2, ContentStays
<1> QED
  BY <1>1 DEF Content

\* What an open document hides is the only file that changes with it.
LEMMA ContentIsWritten ==
    ASSUME NEW path \in ConfigPaths, Spelled[path] # None, disk' = disk,
           overlaid' \ {path} = overlaid \ {path},
           \A p \in ConfigPaths : p # path => text'[p] = text[p]
    PROVE  /\ Spelled[path] \in Dirs
           /\ path \in overlaid' =>
                Content' = [Content EXCEPT ![Spelled[path]] = text'[path]]
           /\ path \notin overlaid' =>
                Content' = [Content EXCEPT ![Spelled[path]] = disk[Spelled[path]]]
<1> DEFINE here == Spelled[path]
<1>1. here \in Dirs
  BY ServerAssumption
<1>2. ASSUME NEW d \in Dirs, d # here PROVE Content'[d] = Content[d]
  <2>1. Hides(d)' = Hides(d) /\ path \notin Hides(d)
    BY <1>2 DEF Hides
  <2>2. \A p \in Hides(d) : text'[p] = text[p]
    BY <2>1 DEF Hides
  <2> QED
    BY <2>1, <2>2, ContentStays
<1>3. ASSUME path \in overlaid' PROVE Content'[here] = text'[path]
  <2>1. Hides(here)' = {path}
    BY <1>3, ServerAssumption DEF Hides
  <2> QED
    BY <1>1, <2>1 DEF Content
<1>4. ASSUME path \notin overlaid' PROVE Content'[here] = disk[here]
  <2>1. Hides(here)' = {}
    BY <1>4, ServerAssumption DEF Hides
  <2> QED
    BY <1>1, <2>1 DEF Content
<1>5. Content = [d \in Dirs |-> Content[d]] /\ Content' = [d \in Dirs |-> Content'[d]]
  BY DEF Content
<1> HIDE DEF here
<1>6. \A x : Content'[here] = x /\ (\A d \in Dirs : d # here => Content'[d] = Content[d]) =>
               Content' = [Content EXCEPT ![here] = x]
  BY <1>1, <1>5
<1> QED
  BY <1>1, <1>2, <1>3, <1>4, <1>6 DEF here
-----------------------------------------------------------------------------
(* The server's loader implements ConfigurationLoader: to it, a document   *)
(* that is opened, edited or closed is a file that changes.                *)

DocumentsInv ==
    /\ disk \in [Dirs -> LP!FileState]
    /\ overlaid \subseteq Paths
    /\ documents \subseteq overlaid
    /\ settled \subseteq documents
    /\ text \in [Paths -> Texts \cup Contents \cup {NoText}]
    /\ \A p \in overlaid \cap ConfigPaths : text[p] \in Contents
    /\ config \in [InputPaths -> Dirs \cup {None}]

\* The loader works in refresh() only, and the handler that runs has a
\* document that is open.
PhaseInv ==
    /\ spc # "refresh" => rpc = "idle"
    /\ spc = "idle" => doc = None
    /\ spc = "load" => doc \in overlaid \cap ConfigPaths
    /\ spc = "refresh" => doc \in (overlaid \cap ConfigPaths) \cup {None}
    /\ spc = "close" => doc \in documents

LEMMA Disjoint ==
    /\ InputPaths \cap ConfigPaths = {} /\ None \notin ConfigPaths /\ None \notin Dirs
    /\ InputPaths \subseteq Paths /\ ConfigPaths \subseteq Paths
    /\ \A p \in Paths : p \in InputPaths \/ p \in ConfigPaths
BY SameConstants, LoaderAssumed, ServerAssumption DEF LP!LoaderAssumption, Paths

LEMMA InitRefines == Init => LP!Init
<1> SUFFICES ASSUME Init PROVE LP!Init
  OBVIOUS
<1>1. \A d \in Dirs : Content[d] = disk[d]
  BY BareContent DEF Init, Hides
<1>2. Content \in [Dirs -> LP!FileState]
  BY <1>1, SameConstants DEF Init, Content
<1>3. directory \in [InputPaths -> Dirs \cup {None}]
  BY DEF Init
<1> QED
  BY <1>2, <1>3, SameConstants DEF Init, LP!Init

\* What is on disk where a document does not hide it.
LEMMA FileWritten ==
    ASSUME NEW d \in Dirs, NEW c \in LP!FileState, LP!FsChange,
           Content' = [Content EXCEPT ![d] = c], UNCHANGED <<canonical, directory>>
    PROVE  LP!Next
BY DEF LP!Next, LP!FsNext, LP!WriteConfig

LEMMA ContentType ==
    ASSUME DocumentsInv
    PROVE  Content \in [Dirs -> LP!FileState]
<1>1. ASSUME NEW d \in Dirs PROVE Content[d] \in LP!FileState
  <2>1. CASE Hides(d) = {}
    BY <2>1, BareContent DEF DocumentsInv
  <2>2. ASSUME NEW p \in Hides(d) PROVE Content[d] \in LP!FileState
    <3>1. p \in overlaid \cap ConfigPaths /\ Spelled[p] = d /\ Spelled[p] # None
      BY Disjoint DEF Hides
    <3> QED
      BY <3>1, HiddenContent DEF DocumentsInv, LP!FileState
  <2> QED
    BY <2>1, <2>2
<1> QED
  BY <1>1 DEF Content

\* A document hides a file, shows another text in its place, or shows the file.
LEMMA OverlayRefines ==
    ASSUME DocumentsInv, NEW path \in Paths, OverlayChange(path),
           UNCHANGED diskVars,
           overlaid' \ {path} = overlaid \ {path},
           \A p \in Paths : p # path => text'[p] = text[p],
           path \in overlaid' \cap ConfigPaths => text'[path] \in Contents
    PROVE  [LP!Next]_(LP!vars)
<1>1. /\ disk' = disk /\ UNCHANGED <<canonical, directory>>
      /\ \A p \in ConfigPaths : p # path => text'[p] = text[p]
  BY Disjoint DEF diskVars
<1>2. CASE path \in ConfigPaths /\ Spelled[path] # None
  <2>1. LP!FsChange
    BY <1>2, SameFsChange DEF OverlayChange
  <2>2. CASE path \in overlaid'
    <3>1. /\ Spelled[path] \in Dirs
          /\ Content' = [Content EXCEPT ![Spelled[path]] = text'[path]]
      BY <1>1, <1>2, <2>2, ContentIsWritten
    <3>2. text'[path] \in LP!FileState
      BY <1>2, <2>2 DEF LP!FileState
    <3> QED
      BY <1>1, <2>1, <3>1, <3>2, FileWritten
  <2>3. CASE path \notin overlaid'
    <3>1. /\ Spelled[path] \in Dirs
          /\ Content' = [Content EXCEPT ![Spelled[path]] = disk[Spelled[path]]]
      BY <1>1, <1>2, <2>3, ContentIsWritten
    <3>2. disk[Spelled[path]] \in LP!FileState
      BY <3>1 DEF DocumentsInv
    <3> QED
      BY <1>1, <2>1, <3>1, <3>2, FileWritten
  <2> QED
    BY <2>2, <2>3
<1>3. CASE ~(path \in ConfigPaths /\ Spelled[path] # None)
  <2>1. UNCHANGED loaderVars
    BY <1>3 DEF OverlayChange
  <2>2. Content' = Content
    <3>1. overlaid' \cap ConfigPaths = overlaid \cap ConfigPaths \/ path \in ConfigPaths
      OBVIOUS
    <3>2. ASSUME NEW d \in Dirs PROVE Hides(d)' = Hides(d) /\ \A p \in Hides(d) : text'[p] = text[p]
      <4>1. d # None
        BY Disjoint
      <4> QED
        BY <1>1, <1>3, <4>1, Disjoint DEF Hides
    <3>3. \A d \in Dirs : Content'[d] = Content[d]
      BY <1>1, <3>2, ContentStays
    <3> QED
      BY <3>3 DEF Content
  <2> QED
    BY <1>1, <2>1, <2>2 DEF loaderVars, LP!vars, LP!fsVars, LP!watchVars, LP!refreshVars
<1> QED
  BY <1>2, <1>3

\* A change of the disk that open documents hide is a step too: the file is
\* written with what it has.
LEMMA DiskRefines ==
    ASSUME DocumentsInv, DiskChange,
           \/ \E d \in Dirs : \E c \in DiskStates[d] : WriteConfig(d, c)
           \/ \E p \in ConfigPaths, d \in Dirs \cup {None} : MoveConfigPath(p, d)
           \/ \E p \in InputPaths, d \in Dirs : MoveInputPath(p, d)
    PROVE  LP!Next
<1>1. LP!FsChange /\ text' = text /\ overlaid' = overlaid
  BY SameFsChange DEF DiskChange, documentVars
<1>2. ASSUME NEW d \in Dirs, NEW c \in DiskStates[d], WriteConfig(d, c)
      PROVE  LP!Next
  <2>1. /\ disk' = [disk EXCEPT ![d] = c] /\ UNCHANGED <<canonical, directory>>
    BY <1>2 DEF WriteConfig
  <2>2. \A e \in Dirs : Hides(e)' = Hides(e)
    BY <1>1 DEF Hides
  <2>3. \A e \in Dirs : e # d => Content'[e] = Content[e]
    BY <1>1, <2>1, <2>2, ContentStays DEF DocumentsInv
  <2>4. CASE Hides(d) = {}
    <3>1. c \in LP!FileState
      BY <1>2, ServerAssumption, SameConstants
    <3>2. Content'[d] = c
      <4>1. Content'[d] = disk'[d]
        BY <2>2, <2>4 DEF Content
      <4> QED
        BY <2>1, <4>1 DEF DocumentsInv
    <3>3. Content' = [Content EXCEPT ![d] = c]
      <4>1. Content = [e \in Dirs |-> Content[e]] /\ Content' = [e \in Dirs |-> Content'[e]]
        BY DEF Content
      <4> QED
        BY <2>3, <3>2, <4>1
    <3> QED
      BY <1>1, <2>1, <3>1, <3>3, FileWritten
  <2>5. CASE Hides(d) # {}
    <3> DEFINE p == CHOOSE q \in Hides(d) : TRUE
    <3>1. Content'[d] = Content[d]
      <4>1. Content[d] = text[p]
        BY <2>5 DEF Content
      <4>2. Content'[d] = text'[p]
        BY <2>2, <2>5 DEF Content
      <4> QED
        BY <1>1, <4>1, <4>2
    <3>2. Content' = Content
      BY <2>3, <3>1 DEF Content
    <3>3. Content' = [Content EXCEPT ![d] = Content[d]] /\ Content[d] \in LP!FileState
      BY <3>2, ContentType
    <3> QED
      BY <1>1, <2>1, <3>3, FileWritten
  <2> QED
    BY <2>4, <2>5
<1>3. ASSUME disk' = disk PROVE Content' = Content
  BY <1>1, <1>3, SameContent
<1>4. ASSUME NEW p \in ConfigPaths, NEW d \in Dirs \cup {None}, MoveConfigPath(p, d)
      PROVE  LP!Next
  BY <1>1, <1>3, <1>4, SameConstants DEF MoveConfigPath, LP!Next, LP!FsNext, LP!MoveConfigPath
<1>5. ASSUME NEW p \in InputPaths, NEW d \in Dirs, MoveInputPath(p, d)
      PROVE  LP!Next
  BY <1>1, <1>3, <1>5, SameConstants DEF MoveInputPath, LP!Next, LP!FsNext, LP!MoveInputPath
<1> QED
  BY <1>2, <1>4, <1>5

LEMMA Stutters ==
    ASSUME Content' = Content, UNCHANGED <<canonical, directory, loaderVars>>
    PROVE  UNCHANGED LP!vars
BY DEF loaderVars, LP!vars, LP!fsVars, LP!watchVars, LP!refreshVars

LEMMA RefinesNext ==
    ASSUME DocumentsInv, PhaseInv, [Next]_vars
    PROVE  [LP!Next]_(LP!vars)
<1>1. ASSUME NEW p \in InputPaths, NEW t \in Texts, DidOpenLintable(p, t)
      PROVE  LP!Next
  <2>1. LP!WatchAndLoadForFile(p, p)
    BY <1>1, SameCalls DEF DidOpenLintable
  <2> QED
    BY <2>1, Disjoint DEF LP!Next, LP!CallNext
<1>2. ASSUME NEW p \in ConfigPaths, NEW t \in Contents, DidOpenConfig(p, t)
      PROVE  [LP!Next]_(LP!vars)
  <2>1. /\ OverlayChange(p) /\ UNCHANGED diskVars
        /\ overlaid' = overlaid \cup {p} /\ text' = [text EXCEPT ![p] = t]
    BY <1>2 DEF DidOpenConfig
  <2>2. p \in Paths /\ overlaid' \ {p} = overlaid \ {p}
        /\ (\A q \in Paths : q # p => text'[q] = text[q]) /\ text'[p] \in Contents
    BY <2>1, Disjoint DEF DocumentsInv
  <2> QED
    BY <2>1, <2>2, OverlayRefines
<1>3. ASSUME LoadOpenedConfig PROVE LP!Next
  <2>1. LP!WatchAndLoadConfigFile(doc, doc) /\ doc \in ConfigPaths
    BY <1>3, SameCalls DEF LoadOpenedConfig, PhaseInv
  <2> QED
    BY <2>1, Disjoint DEF LP!Next, LP!CallNext
<1>4. ASSUME NEW p \in InputPaths, NEW t \in Texts, DidChangeLintable(p, t)
      PROVE  UNCHANGED LP!vars
  <2>1. disk' = disk /\ overlaid' = overlaid /\ text' = [text EXCEPT ![p] = t]
        /\ UNCHANGED <<canonical, directory, loaderVars>>
    BY <1>4 DEF DidChangeLintable, diskVars
  <2>2. Content' = Content
    <3>1. \A q \in ConfigPaths : text'[q] = text[q]
      BY <2>1, Disjoint DEF DocumentsInv
    <3> QED
      BY <2>1, <3>1, SameContent
  <2> QED
    BY <2>1, <2>2, Stutters
<1>5. ASSUME NEW p \in ConfigPaths, NEW t \in Contents, DidChangeConfig(p, t)
      PROVE  [LP!Next]_(LP!vars)
  <2>1. /\ OverlayChange(p) /\ UNCHANGED diskVars
        /\ overlaid' = overlaid /\ text' = [text EXCEPT ![p] = t]
    BY <1>5 DEF DidChangeConfig
  <2>2. p \in Paths /\ overlaid' \ {p} = overlaid \ {p}
        /\ (\A q \in Paths : q # p => text'[q] = text[q]) /\ text'[p] \in Contents
    BY <2>1, Disjoint DEF DocumentsInv
  <2> QED
    BY <2>1, <2>2, OverlayRefines
<1>6. ASSUME NEW p \in Paths, DidClose(p) PROVE LP!Next
  <2>1. LP!UnwatchFile(p)
    BY <1>6, SameCalls DEF DidClose
  <2> QED
    BY <2>1, SameConstants DEF LP!Next, LP!CallNext
<1>7. ASSUME CloseDocument PROVE [LP!Next]_(LP!vars)
  <2>1. /\ OverlayChange(doc) /\ UNCHANGED diskVars /\ doc \in Paths
        /\ overlaid' = overlaid \ {doc} /\ text' = [text EXCEPT ![doc] = NoText]
    BY <1>7 DEF CloseDocument, PhaseInv, DocumentsInv
  <2>2. overlaid' \ {doc} = overlaid \ {doc} /\ doc \notin overlaid'
        /\ (\A q \in Paths : q # doc => text'[q] = text[q])
    BY <2>1 DEF DocumentsInv
  <2> QED
    BY <2>1, <2>2, OverlayRefines
<1>8. ASSUME FilesystemChanged \/ UNCHANGED vars PROVE UNCHANGED LP!vars
  <2>1. UNCHANGED <<disk, overlaid, text, canonical, directory, loaderVars>>
    BY <1>8 DEF FilesystemChanged, vars, diskVars, documentVars
  <2>2. Content' = Content
    BY <2>1, SameContent
  <2> QED
    BY <2>1, <2>2, Stutters
<1>9. ASSUME Refreshing PROVE LP!Next
  BY <1>9, SameRefresh DEF Refreshing, LP!Next, LP!RefreshNext
<1>10. ASSUME FinishRefresh PROVE LP!Next
  BY <1>10, SameRefresh DEF FinishRefresh, LP!Next, LP!RefreshNext
<1>11. ASSUME \/ \E d \in Dirs : \E c \in DiskStates[d] : WriteConfig(d, c)
              \/ \E p \in ConfigPaths, d \in Dirs \cup {None} : MoveConfigPath(p, d)
              \/ \E p \in InputPaths, d \in Dirs : MoveInputPath(p, d)
       PROVE  LP!Next
  BY <1>11, DiskRefines DEF WriteConfig, MoveConfigPath, MoveInputPath
<1> QED
  BY <1>1, <1>2, <1>3, <1>4, <1>5, <1>6, <1>7, <1>8, <1>9, <1>10, <1>11 DEF Next

\* The invariant of the loader holds of the server's loader.
LEMMA LoaderStep ==
    ASSUME DocumentsInv, PhaseInv, LP!IInv, LP!OnceInv, [Next]_vars
    PROVE  LP!IInv' /\ LP!OnceInv'
BY RefinesNext, LoaderAssumed, LP!InvariantNext, LP!OnceNext

-----------------------------------------------------------------------------
(* What the server reads of the loader. *)

\* What is told is typed, and what a document is told of is loaded.
ToldInv ==
    /\ loaded \in [Dirs -> Contents \cup {LP!NotLoaded}]
    /\ told \in [LP!Watchers -> LP!Views]
    /\ rpc = "idle" =>
         \A w \in LP!Watchers : told[w].config # None =>
            /\ loaded[told[w].config] # LP!NotLoaded
            /\ told[w].content = loaded[told[w].config]
    /\ \A k \in DOMAIN changes :
         /\ changes[k].config \in Dirs \cup {None}
         /\ changes[k].config # None => loaded[changes[k].config] # LP!NotLoaded

LEMMA LoaderTells == LP!IInv => ToldInv
<1> SUFFICES ASSUME LP!IInv PROVE ToldInv
  OBVIOUS
<1>1. LP!TypeOK /\ LP!PhaseInv /\ LP!HeldInv /\ LP!ChangesInv
  BY DEF LP!IInv
<1>2. /\ loaded \in [Dirs -> Contents \cup {LP!NotLoaded}]
      /\ told \in [LP!Watchers -> LP!Views]
      /\ changes \in Seq(LP!WatchType(LP!Paths))
  BY <1>1 DEF LP!TypeOK, LP!Views
<1>3. \A k \in DOMAIN changes : changes[k].config \in Dirs \cup {None}
  <2>1. \A k \in DOMAIN changes : changes[k] \in LP!WatchType(LP!Paths)
    BY <1>2
  <2> QED
    BY <2>1, SameConstants DEF LP!WatchType
<1>4. \A k \in DOMAIN changes :
        changes[k].config # None => loaded[changes[k].config] # LP!NotLoaded
  BY <1>1, SameConstants DEF LP!ChangesInv
<1>5. ASSUME rpc = "idle", NEW w \in LP!Watchers, told[w].config # None
      PROVE  /\ loaded[told[w].config] # LP!NotLoaded
             /\ told[w].content = loaded[told[w].config]
  <2>1. w \notin LP!News
    BY <1>1, <1>5 DEF LP!PhaseInv, LP!News
  <2> QED
    BY <1>1, <1>5, <2>1, SameConstants DEF LP!HeldInv
<1> QED
  BY <1>2, <1>3, <1>4, <1>5 DEF ToldInv

LEMMA OwnWatcher == \A p \in Paths : <<p, p>> \in LP!Watchers
BY SameConstants DEF LP!Watchers

LEMMA ViewsAre ==
    \A v \in LP!Views : v.config \in Dirs \cup {None} /\ v.content \in Contents \cup {None, LP!NotLoaded}
BY SameConstants DEF LP!Views

\* A call changes what one watcher was told.
LEMMA CallKeeps ==
    ASSUME NEW path, NEW token,
           LP!WatchAndLoadConfigFile(path, token) \/ LP!WatchAndLoadForFile(path, token),
           told \in [LP!Watchers -> LP!Views]
    PROVE  /\ rpc = "idle" /\ rpc' = "idle" /\ changes' = changes /\ races' = races
           /\ Content' = Content /\ UNCHANGED <<canonical, directory>>
           /\ \A w \in LP!Watchers : w # <<path, token>> => told'[w] = told[w]
BY DEF LP!WatchAndLoadConfigFile, LP!WatchAndLoadForFile, LP!MayUse, LP!refreshVars, LP!fsVars

LEMMA UnwatchKeeps ==
    ASSUME NEW path, LP!UnwatchFile(path)
    PROVE  /\ rpc = "idle" /\ rpc' = "idle" /\ changes' = changes /\ races' = races
           /\ loaded' = loaded /\ Content' = Content /\ UNCHANGED <<canonical, directory>>
           /\ \A w \in LP!Watchers : w[1] # path => told'[w] = told[w]
BY DEF LP!UnwatchFile, LP!refreshVars, LP!fsVars, LP!Forget

LEMMA OverlayKeeps ==
    ASSUME NEW path, OverlayChange(path)
    PROVE  /\ UNCHANGED <<loaded, configWatches, inputWatches, rpc, changes, told>>
           /\ rpc = "idle" => races' = races
BY DEF OverlayChange, Loader!FsChange, Loader!watchVars, Loader!refreshVars, loaderVars

LEMMA FsChangeKeeps ==
    ASSUME LP!FsChange
    PROVE  UNCHANGED <<loaded, configWatches, inputWatches, rpc, changes, told>>
BY DEF LP!FsChange, LP!watchVars, LP!refreshVars

\* Inside refresh(), nobody is told, and the documents stay as they are.
LEMMA RefreshKeeps ==
    ASSUME Refreshing
    PROVE  /\ UNCHANGED <<told, races, documentVars, diskVars, spc, doc, current>>
           /\ Content' = Content
<1>1. UNCHANGED <<documentVars, diskVars, spc, doc, current>>
  BY DEF Refreshing
<1>2. told' = told /\ races' = races /\ Content' = Content
  BY SameRefresh DEF Refreshing, LP!BeginRefresh, LP!RefreshConfigWatch, LP!RefreshInputWatch,
     LP!RefreshWatch, LP!BeginReload, LP!Reload, LP!TellWatch, LP!EndTell, LP!fsVars
<1> QED
  BY <1>1, <1>2
-----------------------------------------------------------------------------
(* Type correctness. *)

HandlerTypes ==
    /\ spc \in {"idle", "load", "refresh", "close", "crashed"}
    /\ doc \in Paths \cup {None}
    /\ published \in [Paths -> Diagnostics]
    /\ current \in BOOLEAN

ServerTypes == DocumentsInv /\ PhaseInv /\ HandlerTypes

Codes == Texts \cup Contents \cup {NoText}

LEMMA LintType ==
    ASSUME NEW contents, contents \in [Dirs -> Contents \cup {LP!NotLoaded}],
           NEW c \in Dirs \cup {None}
    PROVE  /\ \A code \in Codes : Lint(code, c, contents) \in Diagnostics
           /\ c # None /\ contents[c] # LP!NotLoaded => LintConfig(c, contents) \in Diagnostics
BY SameConstants DEF Lint, LintConfig, Diagnostics, Codes

LEMMA TypesOpenLintable ==
    ASSUME ServerTypes, ToldInv, ToldInv', NEW p \in InputPaths, NEW t \in Texts,
           DidOpenLintable(p, t)
    PROVE  ServerTypes'
<1>1. /\ spc = "idle" /\ spc' = spc /\ doc' = doc /\ current' = current
      /\ settled' = settled /\ disk' = disk
      /\ overlaid' = overlaid \cup {p} /\ documents' = documents \cup {p}
      /\ text' = [text EXCEPT ![p] = t]
      /\ config' = [config EXCEPT ![p] = told'[<<p, p>>].config]
      /\ published' = [published EXCEPT ![p] = Lint(t, config'[p], loaded')]
      /\ LP!WatchAndLoadForFile(p, p)
  BY SameCalls DEF DidOpenLintable, MayOpen, diskVars
<1>2. rpc' = "idle"
  BY <1>1, CallKeeps DEF ToldInv
<1>3. told'[<<p, p>>].config \in Dirs \cup {None}
  BY OwnWatcher, ViewsAre, Disjoint DEF ToldInv
<1>4. p \notin ConfigPaths /\ p \in Paths
  BY Disjoint
<1>5. config'[p] = told'[<<p, p>>].config
  BY <1>1 DEF ServerTypes, DocumentsInv
<1>6. Lint(t, config'[p], loaded') \in Diagnostics
  BY <1>3, <1>5, LintType DEF ToldInv, Codes
<1>7. DocumentsInv'
  <2>1. \A q \in overlaid' \cap ConfigPaths : text'[q] \in Contents
    BY <1>1, <1>4 DEF ServerTypes, DocumentsInv
  <2>2. text' \in [Paths -> Texts \cup Contents \cup {NoText}]
    BY <1>1, <1>4 DEF ServerTypes, DocumentsInv
  <2>3. config' \in [InputPaths -> Dirs \cup {None}]
    BY <1>1, <1>3 DEF ServerTypes, DocumentsInv
  <2> QED
    BY <1>1, <1>4, <2>1, <2>2, <2>3 DEF ServerTypes, DocumentsInv, LP!FileState
<1>8. PhaseInv'
  BY <1>1, <1>2 DEF ServerTypes, PhaseInv
<1>9. HandlerTypes'
  BY <1>1, <1>4, <1>6 DEF ServerTypes, HandlerTypes
<1> QED
  BY <1>7, <1>8, <1>9 DEF ServerTypes

\* The text of a configuration document changes before the loader looks at it.
LEMMA TypesWriteConfig ==
    ASSUME ServerTypes, NEW p \in ConfigPaths, NEW t \in Contents,
           DidOpenConfig(p, t) \/ DidChangeConfig(p, t)
    PROVE  ServerTypes'
<1>1. /\ spc = "idle" /\ disk' = disk /\ documents' = documents /\ config' = config
      /\ text' = [text EXCEPT ![p] = t] /\ settled' = settled
      /\ published' = published /\ current' = current
      /\ OverlayChange(p)
      /\ \/ spc' = "load" /\ doc' = p /\ overlaid' = overlaid \cup {p}
         \/ spc' = "refresh" /\ doc' = doc /\ overlaid' = overlaid
  BY DEF DidOpenConfig, DidChangeConfig, MayOpen, diskVars
<1>2. rpc' = rpc /\ p \in Paths
  BY <1>1, OverlayKeeps, Disjoint
<1>3. DocumentsInv'
  <2>1. \A q \in overlaid' \cap ConfigPaths : text'[q] \in Contents
    BY <1>1, <1>2 DEF ServerTypes, DocumentsInv
  <2>2. text' \in [Paths -> Texts \cup Contents \cup {NoText}]
    BY <1>1, <1>2 DEF ServerTypes, DocumentsInv
  <2> QED
    BY <1>1, <1>2, <2>1, <2>2 DEF ServerTypes, DocumentsInv, LP!FileState
<1>4. PhaseInv'
  BY <1>1, <1>2 DEF ServerTypes, PhaseInv
<1>5. HandlerTypes'
  BY <1>1, <1>2 DEF ServerTypes, HandlerTypes
<1> QED
  BY <1>3, <1>4, <1>5 DEF ServerTypes

LEMMA TypesLoad ==
    ASSUME ServerTypes, ToldInv, ToldInv', LoadOpenedConfig
    PROVE  ServerTypes'
<1> DEFINE d == told'[<<doc, doc>>].config
<1>1. /\ spc = "load" /\ doc' = doc /\ disk' = disk /\ overlaid' = overlaid
      /\ documents' = documents /\ text' = text /\ config' = config
      /\ settled' = settled /\ current' = current
      /\ LP!WatchAndLoadConfigFile(doc, doc)
      /\ \/ d = None /\ spc' = "crashed" /\ published' = published
         \/ d # None /\ spc' = "refresh"
            /\ published' = [published EXCEPT ![doc] = LintConfig(d, loaded')]
  BY SameCalls DEF LoadOpenedConfig, diskVars
<1>2. doc \in overlaid \cap ConfigPaths /\ doc \in Paths
  BY <1>1, Disjoint DEF ServerTypes, PhaseInv
<1>3. rpc' = "idle"
  BY <1>1, CallKeeps DEF ToldInv
<1>4. d \in Dirs \cup {None} /\ (d # None => loaded'[d] # LP!NotLoaded)
  BY <1>2, <1>3, OwnWatcher, ViewsAre DEF ToldInv
<1>5. d # None => LintConfig(d, loaded') \in Diagnostics
  BY <1>4, LintType DEF ToldInv
<1> HIDE DEF d
<1>6. DocumentsInv'
  BY <1>1 DEF ServerTypes, DocumentsInv, LP!FileState
<1>7. PhaseInv'
  BY <1>1, <1>2, <1>3 DEF ServerTypes, PhaseInv
<1>8. HandlerTypes'
  BY <1>1, <1>2, <1>5 DEF ServerTypes, HandlerTypes
<1> QED
  BY <1>6, <1>7, <1>8 DEF ServerTypes

LEMMA TypesChangeLintable ==
    ASSUME ServerTypes, ToldInv, NEW p \in InputPaths, NEW t \in Texts, DidChangeLintable(p, t)
    PROVE  ServerTypes'
<1>1. /\ spc = "idle" /\ spc' = spc /\ doc' = doc /\ current' = current
      /\ settled' = settled /\ disk' = disk /\ overlaid' = overlaid /\ documents' = documents
      /\ text' = [text EXCEPT ![p] = t] /\ config' = config /\ rpc' = rpc
      /\ published' = [published EXCEPT ![p] = Lint(t, config[p], loaded)]
  BY DEF DidChangeLintable, diskVars, loaderVars
<1>2. p \notin ConfigPaths /\ p \in Paths
  BY Disjoint
<1>3. Lint(t, config[p], loaded) \in Diagnostics
  BY LintType DEF ToldInv, Codes, ServerTypes, DocumentsInv
<1>4. DocumentsInv'
  <2>1. \A q \in overlaid' \cap ConfigPaths : text'[q] \in Contents
    BY <1>1, <1>2 DEF ServerTypes, DocumentsInv
  <2>2. text' \in [Paths -> Texts \cup Contents \cup {NoText}]
    BY <1>1, <1>2 DEF ServerTypes, DocumentsInv
  <2> QED
    BY <1>1, <1>2, <2>1, <2>2 DEF ServerTypes, DocumentsInv, LP!FileState
<1>5. PhaseInv'
  BY <1>1 DEF ServerTypes, PhaseInv
<1>6. HandlerTypes'
  BY <1>1, <1>2, <1>3 DEF ServerTypes, HandlerTypes
<1> QED
  BY <1>4, <1>5, <1>6 DEF ServerTypes

LEMMA TypesClose ==
    ASSUME ServerTypes, NEW p \in Paths, DidClose(p)
    PROVE  ServerTypes'
<1>1. /\ p \in documents /\ spc' = "close" /\ doc' = p /\ current' = current
      /\ disk' = disk /\ UNCHANGED documentVars /\ LP!UnwatchFile(p)
  BY SameCalls DEF DidClose, diskVars
<1>2. rpc' = "idle"
  BY <1>1, UnwatchKeeps
<1>3. DocumentsInv' /\ HandlerTypes'
  BY <1>1 DEF ServerTypes, DocumentsInv, HandlerTypes, LP!FileState, documentVars
<1>4. PhaseInv'
  BY <1>1, <1>2 DEF PhaseInv, documentVars
<1> QED
  BY <1>3, <1>4 DEF ServerTypes

LEMMA TypesCloseDocument ==
    ASSUME ServerTypes, CloseDocument
    PROVE  ServerTypes'
<1>1. /\ spc = "close" /\ spc' = "refresh" /\ doc' = None /\ current' = current
      /\ disk' = disk /\ overlaid' = overlaid \ {doc} /\ documents' = documents \ {doc}
      /\ text' = [text EXCEPT ![doc] = NoText] /\ settled' = settled \ {doc}
      /\ config' = [q \in InputPaths |-> IF q = doc THEN None ELSE config[q]]
      /\ published' = [published EXCEPT ![doc] = Unpublished]
      /\ OverlayChange(doc)
  BY DEF CloseDocument, StillOpen, diskVars
<1>2. DocumentsInv'
  <2>1. \A q \in overlaid' \cap ConfigPaths : text'[q] \in Contents
    BY <1>1 DEF ServerTypes, DocumentsInv
  <2>2. text' \in [Paths -> Texts \cup Contents \cup {NoText}]
    BY <1>1 DEF ServerTypes, DocumentsInv
  <2> QED
    BY <1>1, <2>1, <2>2 DEF ServerTypes, DocumentsInv, LP!FileState
<1>3. PhaseInv'
  BY <1>1 DEF PhaseInv
<1>4. HandlerTypes'
  <2>1. Unpublished \in Diagnostics
    BY DEF Unpublished, Diagnostics
  <2> QED
    BY <1>1, <2>1 DEF ServerTypes, HandlerTypes
<1> QED
  BY <1>2, <1>3, <1>4 DEF ServerTypes

LEMMA TypesFinish ==
    ASSUME ServerTypes, ToldInv, FinishRefresh
    PROVE  ServerTypes'
<1>1. /\ spc = "refresh" /\ doc' = None /\ disk' = disk /\ overlaid' = overlaid /\ text' = text
      /\ documents' = documents \cup (IF doc = None THEN {} ELSE {doc})
      /\ settled' = documents' /\ current' \in BOOLEAN
      /\ config' = [p \in InputPaths |->
                     IF p \in Affected THEN changes[ChangeFor(p)].config ELSE config[p]]
      /\ published' = [p \in Paths |->
                        IF p \notin Affected THEN published[p]
                        ELSE IF p \in InputPaths THEN Lint(text[p], config'[p], loaded)
                        ELSE IF LosesConfig(p) THEN published[p]
                        ELSE LintConfig(changes[ChangeFor(p)].config, loaded)]
      /\ spc' \in {"idle", "crashed"} /\ rpc' = "idle"
  BY SameRefresh DEF FinishRefresh, diskVars, LP!EndRefresh
<1>2. ASSUME NEW p \in Affected
      PROVE  /\ changes[ChangeFor(p)].config \in Dirs \cup {None}
             /\ changes[ChangeFor(p)].config # None =>
                  loaded[changes[ChangeFor(p)].config] # LP!NotLoaded
  <2>1. ChangeFor(p) \in DOMAIN changes
    BY <1>2 DEF Affected, ChangeFor
  <2> QED
    BY <2>1 DEF ToldInv
<1>3. DocumentsInv'
  <2>1. documents' \subseteq overlaid
    BY <1>1 DEF ServerTypes, DocumentsInv, PhaseInv
  <2>2. config' \in [InputPaths -> Dirs \cup {None}]
    BY <1>1, <1>2 DEF ServerTypes, DocumentsInv
  <2> QED
    BY <1>1, <2>1, <2>2 DEF ServerTypes, DocumentsInv, LP!FileState
<1>4. PhaseInv'
  BY <1>1 DEF PhaseInv
<1>5. ASSUME NEW p \in Paths PROVE published'[p] \in Diagnostics
  <2>1. published[p] \in Diagnostics
    BY DEF ServerTypes, HandlerTypes
  <2>2. CASE p \in Affected /\ p \in InputPaths
    <3>1. published'[p] = Lint(text[p], config'[p], loaded)
      BY <1>1, <2>2
    <3>2. config'[p] \in Dirs \cup {None} /\ text[p] \in Codes
      BY <1>3, <2>2 DEF ServerTypes, DocumentsInv, Codes
    <3> QED
      BY <3>1, <3>2, LintType DEF ToldInv
  <2>3. CASE p \in Affected /\ p \notin InputPaths /\ ~LosesConfig(p)
    <3>1. published'[p] = LintConfig(changes[ChangeFor(p)].config, loaded)
      BY <1>1, <2>3
    <3>2. changes[ChangeFor(p)].config # None
      BY <2>3, Disjoint DEF LosesConfig
    <3> QED
      BY <1>2, <2>3, <3>1, <3>2, LintType DEF ToldInv
  <2> QED
    BY <1>1, <2>1, <2>2, <2>3
<1>6. HandlerTypes'
  <2>1. published' = [p \in Paths |-> published'[p]]
    BY <1>1
  <2>2. published' \in [Paths -> Diagnostics]
    BY <1>5, <2>1
  <2> QED
    BY <1>1, <2>2 DEF HandlerTypes
<1> QED
  BY <1>3, <1>4, <1>6 DEF ServerTypes

LEMMA TypesRest ==
    ASSUME ServerTypes, FilesystemChanged \/ Refreshing \/ UNCHANGED vars
    PROVE  ServerTypes'
<1>1. /\ UNCHANGED <<documentVars, diskVars, doc, current>>
      /\ \/ spc' = "refresh" /\ spc \in {"idle", "refresh"}
         \/ spc' = spc /\ rpc' = rpc
  BY DEF FilesystemChanged, Refreshing, vars, loaderVars
<1>2. DocumentsInv' /\ HandlerTypes'
  BY <1>1 DEF ServerTypes, DocumentsInv, HandlerTypes, LP!FileState, documentVars, diskVars
<1>3. PhaseInv'
  BY <1>1 DEF ServerTypes, PhaseInv, documentVars
<1> QED
  BY <1>2, <1>3 DEF ServerTypes

LEMMA TypesDisk ==
    ASSUME ServerTypes, DiskChange,
           \/ disk' = disk
           \/ \E d \in Dirs : \E c \in DiskStates[d] : disk' = [disk EXCEPT ![d] = c]
    PROVE  ServerTypes'
<1>1. UNCHANGED <<documentVars, spc, doc>> /\ current' = FALSE /\ rpc' = rpc
  BY SameFsChange, FsChangeKeeps DEF DiskChange
<1>2. disk' \in [Dirs -> LP!FileState]
  BY ServerAssumption, SameConstants DEF ServerTypes, DocumentsInv
<1>3. DocumentsInv' /\ HandlerTypes' /\ PhaseInv'
  BY <1>1, <1>2 DEF ServerTypes, DocumentsInv, HandlerTypes, PhaseInv, LP!FileState, documentVars
<1> QED
  BY <1>3 DEF ServerTypes

LEMMA TypesNext ==
    ASSUME ServerTypes, ToldInv, ToldInv', [Next]_vars
    PROVE  ServerTypes'
<1>1. ASSUME NEW p \in InputPaths, NEW t \in Texts, DidOpenLintable(p, t) \/ DidChangeLintable(p, t)
      PROVE  ServerTypes'
  BY <1>1, TypesOpenLintable, TypesChangeLintable
<1>2. ASSUME NEW p \in ConfigPaths, NEW t \in Contents, DidOpenConfig(p, t) \/ DidChangeConfig(p, t)
      PROVE  ServerTypes'
  BY <1>2, TypesWriteConfig
<1>3. ASSUME NEW d \in Dirs, NEW c \in DiskStates[d], WriteConfig(d, c) PROVE ServerTypes'
  BY <1>3, TypesDisk DEF WriteConfig
<1>4. ASSUME NEW p, NEW d, MoveConfigPath(p, d) \/ MoveInputPath(p, d) PROVE ServerTypes'
  BY <1>4, TypesDisk DEF MoveConfigPath, MoveInputPath
<1> QED
  BY <1>1, <1>2, <1>3, <1>4, TypesLoad, TypesClose, TypesCloseDocument, TypesFinish, TypesRest
     DEF Next

LEMMA TypesInit == Init => ServerTypes
<1> SUFFICES ASSUME Init PROVE ServerTypes
  OBVIOUS
<1>1. DocumentsInv
  BY SameConstants DEF Init, DocumentsInv
<1>2. PhaseInv
  BY DEF Init, PhaseInv
<1>3. HandlerTypes
  <2>1. Unpublished \in Diagnostics
    BY DEF Unpublished, Diagnostics
  <2> QED
    BY <2>1 DEF Init, HandlerTypes
<1> QED
  BY <1>1, <1>2, <1>3 DEF ServerTypes

-----------------------------------------------------------------------------
(* The watches of the server: a document is watched under its own path, by *)
(* a token of its own.                                                     *)

OwnTokens ==
    \A i \in DOMAIN LP!AllWatches : LP!AllWatches[i].token = LP!AllWatches[i].path

LEMMA WatchesStay ==
    ASSUME UNCHANGED <<configWatches, inputWatches>>
    PROVE  /\ OwnTokens => OwnTokens'
           /\ \A q : LP!Watched(q) => LP!Watched(q)'
BY DEF OwnTokens, LP!Watched, LP!AllWatches

LEMMA WatchesAdded ==
    ASSUME LP!IInv, OwnTokens, NEW p \in Paths,
           \/ p \in ConfigPaths /\ LP!WatchAndLoadConfigFile(p, p)
           \/ p \in InputPaths /\ LP!WatchAndLoadForFile(p, p)
    PROVE  /\ OwnTokens' /\ LP!Watched(p)'
           /\ \A q : LP!Watched(q) => LP!Watched(q)'
<1>1. PICK r : LP!Added(p, p, r)
  BY LoaderAssumed, LP!ConfigWatchIsAdded, LP!InputWatchIsAdded DEF LP!IInv
<1> DEFINE new == LP!Watch(p, p, r.config, r.error)
<1>2. new.path = p /\ new.token = p
  BY DEF LP!Watch
<1>3. /\ \A i \in DOMAIN LP!AllWatches' :
           LP!AllWatches'[i] = new
           \/ \E j \in DOMAIN LP!AllWatches : LP!AllWatches'[i] = LP!AllWatches[j]
      /\ \A j \in DOMAIN LP!AllWatches :
           \E i \in DOMAIN LP!AllWatches' : LP!AllWatches'[i] = LP!AllWatches[j]
      /\ \E i \in DOMAIN LP!AllWatches' : LP!AllWatches'[i] = new
  BY <1>1 DEF LP!Added
<1> HIDE DEF new
<1>4. OwnTokens'
  BY <1>2, <1>3 DEF OwnTokens
<1>5. LP!Watched(p)' /\ \A q : LP!Watched(q) => LP!Watched(q)'
  BY <1>2, <1>3 DEF LP!Watched
<1> QED
  BY <1>4, <1>5

LEMMA WatchesRemoved ==
    ASSUME LP!IInv, LP!IInv', OwnTokens, NEW p \in Paths, LP!UnwatchFile(p)
    PROVE  /\ OwnTokens'
           /\ \A q : q # p /\ LP!Watched(q) => LP!Watched(q)'
<1>1. LP!Removed({p})
  BY LoaderAssumed, LP!WatchIsRemoved, SameConstants DEF LP!IInv
<1>2. /\ \A i \in DOMAIN LP!AllWatches' :
           \E j \in DOMAIN LP!AllWatches : LP!AllWatches'[i] = LP!AllWatches[j]
      /\ \A j \in DOMAIN LP!AllWatches : LP!AllWatches[j].path # p =>
           \E i \in DOMAIN LP!AllWatches' : LP!AllWatches'[i] = LP!AllWatches[j]
  BY <1>1 DEF LP!Removed, LP!Leaves
<1> QED
  BY <1>2 DEF OwnTokens, LP!Watched

LEMMA WatchesRefreshed ==
    ASSUME LP!IInv, OwnTokens, Refreshing
    PROVE  /\ OwnTokens'
           /\ \A q : LP!Watched(q) => LP!Watched(q)'
<1>1. CASE UNCHANGED <<configWatches, inputWatches>>
  BY <1>1, WatchesStay
<1>2. ASSUME LP!RefreshConfigWatch \/ LP!RefreshInputWatch
      PROVE  /\ OwnTokens'
             /\ \A q : LP!Watched(q) => LP!Watched(q)'
  <2> DEFINE w == LP!AllWatches[at]
             r == LP!FreshOf[w.path]
             u == LP!Updated(w, r)
  <2>1. LP!Visited /\ LP!TypeOK
    BY <1>2, LoaderAssumed, LP!ConfigWatchIsVisited, LP!InputWatchIsVisited DEF LP!IInv
  <2>2. /\ at \in DOMAIN LP!AllWatches /\ DOMAIN LP!AllWatches' = DOMAIN LP!AllWatches
        /\ \A i \in DOMAIN LP!AllWatches :
             LP!AllWatches'[i] = IF i = at THEN u ELSE LP!AllWatches[i]
    BY <2>1 DEF LP!Visited
  <2>3. u.path = w.path /\ u.token = w.token
    <3>1. w \in LP!WatchType(LP!Paths)
      BY <2>1, <2>2, LoaderAssumed, LP!WatchesAreTyped
    <3> HIDE DEF w, r
    <3> QED
      BY <3>1 DEF LP!Updated, LP!WatchType
  <2> HIDE DEF u
  <2> QED
    BY <2>2, <2>3 DEF OwnTokens, LP!Watched
<1>3. \/ UNCHANGED <<configWatches, inputWatches>>
      \/ LP!RefreshConfigWatch \/ LP!RefreshInputWatch
  BY SameRefresh DEF Refreshing, LP!BeginRefresh, LP!BeginReload, LP!Reload, LP!TellWatch,
     LP!EndTell, LP!watchVars
<1> QED
  BY <1>1, <1>2, <1>3

-----------------------------------------------------------------------------
(* The documents that are served: open, linted and watched.  A document    *)
(* that is being closed is watched no more.                                *)

Served == {p \in documents \cap InputPaths : ~(spc = "close" /\ doc = p)}

\* The diagnostics of a text for someone who was told of a configuration.
DiagnosticsOf(code, view) ==
    [code |-> code, config |-> IF view.config = None THEN LP!NotLoaded ELSE view.content]

\* The document points at what the server was told for it, and the client has
\* what follows from that.
IsServed(p) ==
    /\ LP!Watched(p)
    /\ config[p] = told[<<p, p>>].config
    /\ published[p] = DiagnosticsOf(text[p], told[<<p, p>>])

ServedInv == OwnTokens /\ \A p \in Served : IsServed(p)

LEMMA LintOf ==
    ASSUME NEW code, NEW view, NEW contents,
           view.config # None => view.content = contents[view.config]
    PROVE  Lint(code, view.config, contents) = DiagnosticsOf(code, view)
BY SameConstants DEF Lint, DiagnosticsOf

LEMMA StaysServed ==
    ASSUME NEW p, IsServed(p), config'[p] = config[p], published'[p] = published[p],
           text'[p] = text[p], told'[<<p, p>>] = told[<<p, p>>],
           LP!Watched(p) => LP!Watched(p)'
    PROVE  IsServed(p)'
BY DEF IsServed, DiagnosticsOf

LEMMA ServedOpenLintable ==
    ASSUME ServerTypes, LP!IInv, ToldInv, ToldInv', ServedInv,
           NEW p \in InputPaths, NEW t \in Texts, DidOpenLintable(p, t)
    PROVE  ServedInv'
<1>1. /\ spc = "idle" /\ spc' = spc
      /\ documents' = documents \cup {p}
      /\ text' = [text EXCEPT ![p] = t]
      /\ config' = [config EXCEPT ![p] = told'[<<p, p>>].config]
      /\ published' = [published EXCEPT ![p] = Lint(t, config'[p], loaded')]
      /\ LP!WatchAndLoadForFile(p, p)
  BY SameCalls DEF DidOpenLintable, MayOpen
<1>2. p \in Paths /\ <<p, p>> \in LP!Watchers
  BY Disjoint, OwnWatcher
<1>3. /\ OwnTokens' /\ LP!Watched(p)'
      /\ \A q : LP!Watched(q) => LP!Watched(q)'
  BY <1>1, <1>2, WatchesAdded DEF ServedInv
<1>4. rpc' = "idle" /\ \A w \in LP!Watchers : w # <<p, p>> => told'[w] = told[w]
  <2>1. told \in [LP!Watchers -> LP!Views]
    BY DEF ToldInv
  <2> QED
    BY <1>1, <2>1, CallKeeps
<1>5. IsServed(p)'
  <2>1. config'[p] = told'[<<p, p>>].config /\ text'[p] = t
        /\ published'[p] = Lint(t, config'[p], loaded')
    BY <1>1, <1>2 DEF ServerTypes, DocumentsInv, HandlerTypes
  <2>2. told'[<<p, p>>].config # None =>
           told'[<<p, p>>].content = loaded'[told'[<<p, p>>].config]
    BY <1>2, <1>4 DEF ToldInv
  <2>3. published'[p] = DiagnosticsOf(text'[p], told'[<<p, p>>])
    BY <2>1, <2>2, LintOf
  <2> QED
    BY <1>3, <2>1, <2>3 DEF IsServed, DiagnosticsOf
<1>6. ASSUME NEW q \in Served, q # p PROVE IsServed(q)'
  <2>1. q \in Paths /\ <<q, q>> \in LP!Watchers /\ <<q, q>> # <<p, p>> /\ IsServed(q)
    BY <1>6, Disjoint, OwnWatcher DEF Served, ServedInv
  <2>2. config'[q] = config[q] /\ published'[q] = published[q] /\ text'[q] = text[q]
    BY <1>1, <1>6, <2>1 DEF ServerTypes, DocumentsInv, HandlerTypes, Served
  <2> QED
    BY <1>3, <1>4, <2>1, <2>2, StaysServed
<1>7. \A q \in Served' : q = p \/ q \in Served
  BY <1>1 DEF Served
<1> QED
  BY <1>3, <1>5, <1>6, <1>7 DEF ServedInv

\* Configuration documents: no document is served anew or otherwise.
LEMMA ServedWriteConfig ==
    ASSUME ServerTypes, ServedInv, NEW p \in ConfigPaths, NEW t \in Contents,
           DidOpenConfig(p, t) \/ DidChangeConfig(p, t)
    PROVE  ServedInv'
<1>1. /\ spc = "idle" /\ spc' # "close" /\ documents' = documents /\ config' = config
      /\ text' = [text EXCEPT ![p] = t] /\ published' = published /\ OverlayChange(p)
  BY DEF DidOpenConfig, DidChangeConfig, MayOpen
<1>2. UNCHANGED <<configWatches, inputWatches>> /\ told' = told
  BY <1>1, OverlayKeeps
<1>3. OwnTokens' /\ \A q : LP!Watched(q) => LP!Watched(q)'
  BY <1>2, WatchesStay DEF ServedInv
<1>4. ASSUME NEW q \in Served PROVE IsServed(q)'
  <2>1. text'[q] = text[q] /\ IsServed(q)
    BY <1>1, Disjoint DEF Served, ServedInv, ServerTypes, DocumentsInv
  <2> QED
    BY <1>1, <1>2, <1>3, <2>1, StaysServed
<1>5. Served' \subseteq Served
  BY <1>1 DEF Served
<1> QED
  BY <1>3, <1>4, <1>5 DEF ServedInv

LEMMA ServedLoad ==
    ASSUME ServerTypes, LP!IInv, ToldInv, ServedInv, LoadOpenedConfig
    PROVE  ServedInv'
<1>1. /\ spc = "load" /\ spc' # "close" /\ documents' = documents /\ text' = text
      /\ config' = config /\ LP!WatchAndLoadConfigFile(doc, doc)
      /\ \A q \in Paths : q # doc => published'[q] = published[q]
  BY SameCalls DEF LoadOpenedConfig, ServerTypes, HandlerTypes
<1>2. doc \in ConfigPaths /\ doc \in Paths
  BY <1>1, Disjoint DEF ServerTypes, PhaseInv
<1>3. /\ OwnTokens'
      /\ \A q : LP!Watched(q) => LP!Watched(q)'
  BY <1>1, <1>2, WatchesAdded DEF ServedInv
<1>4. \A w \in LP!Watchers : w # <<doc, doc>> => told'[w] = told[w]
  BY <1>1, CallKeeps DEF ToldInv
<1>5. ASSUME NEW q \in Served PROVE IsServed(q)'
  <2>1. q \in Paths /\ q # doc /\ <<q, q>> \in LP!Watchers /\ <<q, q>> # <<doc, doc>> /\ IsServed(q)
    BY <1>2, Disjoint, OwnWatcher DEF Served, ServedInv
  <2> QED
    BY <1>1, <1>3, <1>4, <2>1, StaysServed
<1>6. Served' \subseteq Served
  BY <1>1 DEF Served
<1> QED
  BY <1>3, <1>5, <1>6 DEF ServedInv

LEMMA ServedChangeLintable ==
    ASSUME ServerTypes, ToldInv, ServedInv, NEW p \in InputPaths, NEW t \in Texts,
           DidChangeLintable(p, t)
    PROVE  ServedInv'
<1>1. /\ spc = "idle" /\ spc' = spc /\ documents' = documents /\ config' = config
      /\ p \in documents /\ text' = [text EXCEPT ![p] = t] /\ told' = told
      /\ UNCHANGED <<configWatches, inputWatches>>
      /\ published' = [published EXCEPT ![p] = Lint(t, config[p], loaded)]
  BY DEF DidChangeLintable, loaderVars
<1>2. p \in Paths /\ <<p, p>> \in LP!Watchers
  BY Disjoint, OwnWatcher
<1>3. OwnTokens' /\ \A q : LP!Watched(q) => LP!Watched(q)'
  BY <1>1, WatchesStay DEF ServedInv
<1>4. IsServed(p)'
  <2>1. IsServed(p) /\ rpc = "idle"
    BY <1>1 DEF Served, ServedInv, ServerTypes, PhaseInv
  <2>2. text'[p] = t /\ published'[p] = Lint(t, config[p], loaded)
    BY <1>1, <1>2 DEF ServerTypes, DocumentsInv, HandlerTypes
  <2>3. told[<<p, p>>].config # None => told[<<p, p>>].content = loaded[told[<<p, p>>].config]
    BY <1>2, <2>1 DEF ToldInv
  <2>4. published'[p] = DiagnosticsOf(text'[p], told'[<<p, p>>])
    BY <1>1, <2>1, <2>2, <2>3, LintOf DEF IsServed
  <2> QED
    BY <1>1, <1>3, <2>1, <2>4 DEF IsServed, DiagnosticsOf
<1>5. ASSUME NEW q \in Served, q # p PROVE IsServed(q)'
  <2>1. q \in Paths /\ IsServed(q)
    BY Disjoint DEF Served, ServedInv
  <2>2. published'[q] = published[q] /\ text'[q] = text[q]
    BY <1>1, <1>5, <2>1 DEF ServerTypes, DocumentsInv, HandlerTypes
  <2> QED
    BY <1>1, <1>3, <2>1, <2>2, StaysServed
<1>6. Served' \subseteq Served
  BY <1>1 DEF Served
<1> QED
  BY <1>3, <1>4, <1>5, <1>6 DEF ServedInv

LEMMA ServedClose ==
    ASSUME ServerTypes, LP!IInv, LP!IInv', ServedInv, NEW p \in Paths, DidClose(p)
    PROVE  ServedInv'
<1>1. /\ spc = "idle" /\ spc' = "close" /\ doc' = p /\ documents' = documents
      /\ text' = text /\ config' = config /\ published' = published /\ LP!UnwatchFile(p)
  BY SameCalls DEF DidClose, documentVars
<1>2. /\ OwnTokens'
      /\ \A q : q # p /\ LP!Watched(q) => LP!Watched(q)'
  BY <1>1, WatchesRemoved DEF ServedInv
<1>3. \A w \in LP!Watchers : w[1] # p => told'[w] = told[w]
  BY <1>1, UnwatchKeeps
<1>4. ASSUME NEW q \in Served, q # p PROVE IsServed(q)'
  <2>1. q \in Paths /\ <<q, q>> \in LP!Watchers /\ <<q, q>>[1] # p /\ IsServed(q)
    BY <1>4, Disjoint, OwnWatcher DEF Served, ServedInv
  <2> QED
    BY <1>1, <1>2, <1>3, <1>4, <2>1, StaysServed
<1>5. \A q \in Served' : q \in Served /\ q # p
  BY <1>1 DEF Served
<1> QED
  BY <1>2, <1>4, <1>5 DEF ServedInv

LEMMA ServedCloseDocument ==
    ASSUME ServerTypes, ServedInv, CloseDocument
    PROVE  ServedInv'
<1>1. /\ spc = "close" /\ spc' = "refresh" /\ documents' = documents \ {doc}
      /\ \A q \in Paths : q # doc => text'[q] = text[q] /\ published'[q] = published[q]
      /\ \A q \in InputPaths : q # doc => config'[q] = config[q]
      /\ OverlayChange(doc)
  BY DEF CloseDocument, StillOpen, ServerTypes, DocumentsInv, HandlerTypes
<1>2. UNCHANGED <<configWatches, inputWatches>> /\ told' = told
  BY <1>1, OverlayKeeps
<1>3. OwnTokens' /\ \A q : LP!Watched(q) => LP!Watched(q)'
  BY <1>2, WatchesStay DEF ServedInv
<1>4. ASSUME NEW q \in Served PROVE IsServed(q)'
  <2>1. q \in Paths /\ q \in InputPaths /\ q # doc /\ IsServed(q)
    BY <1>1, Disjoint DEF Served, ServedInv
  <2> QED
    BY <1>1, <1>2, <1>3, <2>1, StaysServed
<1>5. Served' \subseteq Served
  BY <1>1 DEF Served
<1> QED
  BY <1>3, <1>4, <1>5 DEF ServedInv

LEMMA ServedRest ==
    ASSUME LP!IInv, ServedInv, FilesystemChanged \/ Refreshing \/ DiskChange \/ UNCHANGED vars
    PROVE  ServedInv'
<1>1. /\ told' = told /\ UNCHANGED documentVars
      /\ \/ spc' = "refresh" /\ spc # "close"
         \/ spc' = spc /\ doc' = doc
  BY RefreshKeeps, SameFsChange, FsChangeKeeps
     DEF FilesystemChanged, Refreshing, DiskChange, vars, loaderVars
<1>2. /\ OwnTokens'
      /\ \A q : LP!Watched(q) => LP!Watched(q)'
  <2>1. CASE Refreshing
    BY <2>1, WatchesRefreshed DEF ServedInv
  <2>2. CASE UNCHANGED <<configWatches, inputWatches>>
    BY <2>2, WatchesStay DEF ServedInv
  <2> QED
    BY <2>1, <2>2, SameFsChange, FsChangeKeeps DEF FilesystemChanged, DiskChange, vars, loaderVars
<1>3. ASSUME NEW q \in Served PROVE IsServed(q)'
  BY <1>1, <1>2, StaysServed DEF documentVars, ServedInv
<1>4. Served' \subseteq Served
  BY <1>1 DEF Served, documentVars
<1> QED
  BY <1>2, <1>3, <1>4 DEF ServedInv

-----------------------------------------------------------------------------
(* The end of refresh(): the change that the server finds for a document   *)
(* is the one the loader told it of, since there is one at most.           *)

LEMMA FinishTells ==
    ASSUME LP!IInv, LP!OnceInv, OwnTokens, LP!EndRefresh, NEW p \in Paths
    PROVE  /\ (\E k \in DOMAIN changes : changes[k].token = p) =>
                told'[<<p, p>>] = LP!View(changes[ChangeFor(p)], loaded)
           /\ ~(\E k \in DOMAIN changes : changes[k].token = p) =>
                told'[<<p, p>>] = told[<<p, p>>]
<1> DEFINE me == <<p, p>>
<1>1. me \in LP!Watchers
  BY OwnWatcher
<1>2. told'[me] = IF LP!Mine(me) = {} THEN told[me] ELSE LP!View(changes[LP!LastOf(me)], loaded)
  <2>1. told' = [w \in LP!Watchers |->
                   IF LP!Mine(w) = {} THEN told[w] ELSE LP!View(changes[LP!LastOf(w)], loaded)]
    BY LoaderAssumed, LP!ToldAtEnd
  <2> QED
    BY <1>1, <2>1
<1>3. ASSUME NEW k \in DOMAIN changes, changes[k].token = p PROVE LP!Watcher(changes[k]) = me
  <2>1. PICK i \in DOMAIN LP!AllWatches :
          LP!Watcher(changes[k]) = LP!Watcher(LP!AllWatches[i])
    BY DEF LP!IInv, LP!ChangesInv, LP!Says
  <2>2. LP!AllWatches[i].token = p
    BY <1>3, <2>1 DEF LP!Watcher
  <2>3. LP!AllWatches[i].path = p
    BY <2>2 DEF OwnTokens
  <2> QED
    BY <2>1, <2>2, <2>3 DEF LP!Watcher
<1>4. LP!Mine(me) = {k \in DOMAIN changes : changes[k].token = p}
  BY <1>3 DEF LP!Mine, LP!Watcher
<1>5. ASSUME LP!Mine(me) # {} PROVE LP!LastOf(me) = ChangeFor(p)
  <2>1. LP!LastOf(me) \in LP!Mine(me)
    BY <1>5, LoaderAssumed, LP!LastIsMine DEF LP!IInv
  <2>2. ChangeFor(p) \in DOMAIN changes /\ changes[ChangeFor(p)].token = p
    BY <1>4, <1>5 DEF ChangeFor
  <2> QED
    BY <1>3, <1>4, <2>1, <2>2 DEF LP!OnceInv
<1> QED
  BY <1>2, <1>4, <1>5

LEMMA ServedFinish ==
    ASSUME ServerTypes, LP!IInv, LP!OnceInv, ToldInv, ServedInv, FinishRefresh
    PROVE  ServedInv'
<1>1. /\ spc = "refresh" /\ spc' # "close" /\ text' = text
      /\ documents' = documents \cup (IF doc = None THEN {} ELSE {doc})
      /\ config' = [p \in InputPaths |->
                     IF p \in Affected THEN changes[ChangeFor(p)].config ELSE config[p]]
      /\ \A p \in InputPaths :
           published'[p] = IF p \notin Affected THEN published[p]
                           ELSE Lint(text[p], config'[p], loaded)
      /\ LP!EndRefresh
  BY SameRefresh, Disjoint DEF FinishRefresh
<1>2. UNCHANGED <<configWatches, inputWatches>>
  BY <1>1 DEF LP!EndRefresh, LP!watchVars
<1>3. OwnTokens' /\ \A q : LP!Watched(q) => LP!Watched(q)'
  BY <1>2, WatchesStay DEF ServedInv
<1>4. ASSUME NEW q \in Served PROVE IsServed(q)'
  <2>1. q \in Paths /\ q \in InputPaths /\ q \in documents /\ IsServed(q)
    BY Disjoint DEF Served, ServedInv
  <2> DEFINE c == changes[ChangeFor(q)]
  <2>2. CASE q \in Affected
    <3>1. \E k \in DOMAIN changes : changes[k].token = q
      BY <2>2 DEF Affected
    <3>2. told'[<<q, q>>] = LP!View(c, loaded)
      BY <1>1, <2>1, <3>1, FinishTells DEF ServedInv
    <3>3. config'[q] = c.config /\ published'[q] = Lint(text[q], c.config, loaded)
      BY <1>1, <2>1, <2>2
    <3> HIDE DEF c
    <3>4. /\ told'[<<q, q>>].config = c.config
          /\ c.config # None => told'[<<q, q>>].content = loaded[c.config]
      BY <3>2, SameConstants DEF LP!View
    <3>5. published'[q] = DiagnosticsOf(text'[q], told'[<<q, q>>])
      <4> DEFINE view == told'[<<q, q>>]
      <4>1. view.config = c.config /\ (view.config # None => view.content = loaded[view.config])
        BY <3>4
      <4> HIDE DEF view
      <4>2. Lint(text[q], view.config, loaded) = DiagnosticsOf(text[q], view)
        BY <4>1, LintOf
      <4> QED
        BY <1>1, <3>3, <4>1, <4>2 DEF view
    <3> QED
      BY <1>3, <2>1, <3>3, <3>4, <3>5 DEF IsServed, DiagnosticsOf
  <2>3. CASE q \notin Affected
    <3>1. told'[<<q, q>>] = told[<<q, q>>]
      BY <1>1, <2>1, <2>3, FinishTells DEF ServedInv, Affected
    <3>2. config'[q] = config[q] /\ published'[q] = published[q]
      BY <1>1, <2>1, <2>3
    <3> QED
      BY <1>1, <1>3, <2>1, <3>1, <3>2, StaysServed
  <2> QED
    BY <2>2, <2>3
<1>5. Served' \subseteq Served
  BY <1>1, Disjoint DEF Served, ServerTypes, PhaseInv
<1> QED
  BY <1>3, <1>4, <1>5 DEF ServedInv

LEMMA ServedNext ==
    ASSUME ServerTypes, LP!IInv, LP!IInv', LP!OnceInv, ToldInv, ToldInv', ServedInv, [Next]_vars
    PROVE  ServedInv'
<1>1. ASSUME NEW p \in InputPaths, NEW t \in Texts, DidOpenLintable(p, t) \/ DidChangeLintable(p, t)
      PROVE  ServedInv'
  BY <1>1, ServedOpenLintable, ServedChangeLintable
<1>2. ASSUME NEW p \in ConfigPaths, NEW t \in Contents, DidOpenConfig(p, t) \/ DidChangeConfig(p, t)
      PROVE  ServedInv'
  BY <1>2, ServedWriteConfig
<1>3. ASSUME NEW p, NEW d, WriteConfig(p, d) \/ MoveConfigPath(p, d) \/ MoveInputPath(p, d)
      PROVE ServedInv'
  BY <1>3, ServedRest DEF WriteConfig, MoveConfigPath, MoveInputPath
<1> QED
  BY <1>1, <1>2, <1>3, ServedLoad, ServedClose, ServedCloseDocument, ServedFinish, ServedRest
     DEF Next

-----------------------------------------------------------------------------
(* The files: while nothing changes on disk, every document that was open  *)
(* at the end of a refresh() was told what a search would find.            *)

FilesInv ==
    /\ current => races = 0
    /\ spc = "idle" /\ current =>
         \A p \in settled \cap InputPaths :
            LP!FreshOf[p].error = LP!NoError =>
                told[<<p, p>>] = LP!View(LP!FreshOf[p], Content)

LEMMA FilesStay ==
    ASSUME FilesInv, spc = "idle", current' = current, races' = races, settled' = settled,
           Content' = Content, UNCHANGED <<canonical, directory>>,
           \A p \in settled \cap InputPaths : told'[<<p, p>>] = told[<<p, p>>]
    PROVE  FilesInv'
<1>1. LP!FreshOf' = LP!FreshOf
  BY LoaderAssumed, LP!FreshUnchanged DEF LP!fsVars
<1> QED
  BY <1>1 DEF FilesInv, LP!View

LEMMA FilesFinish ==
    ASSUME FilesInv, ServerTypes', LP!IInv', ServedInv', FinishRefresh
    PROVE  FilesInv'
<1>1. /\ spc' \in {"idle", "crashed"} /\ current' = (current \/ races = 0)
      /\ settled' = documents' /\ races' = 0 /\ synced' = (races = 0)
  BY SameRefresh DEF FinishRefresh, LP!EndRefresh
<1>2. ASSUME current', NEW p \in settled' \cap InputPaths,
             LP!FreshOf'[p].error = LP!NoError
      PROVE  told'[<<p, p>>] = LP!View(LP!FreshOf[p], Content)'
  <2>1. synced'
    BY <1>1, <1>2 DEF FilesInv
  <2>2. LP!Watched(p)'
    BY <1>1, <1>2 DEF ServedInv, Served, IsServed
  <2>3. PICK i \in DOMAIN LP!AllWatches' : LP!AllWatches'[i].path = p
    BY <2>2 DEF LP!Watched
  <2>4. LP!Watcher(LP!AllWatches[i])' = <<p, p>>
    BY <2>3 DEF ServedInv, OwnTokens, LP!Watcher
  <2> QED
    BY <1>2, <2>1, <2>3, <2>4 DEF LP!IInv, LP!SyncedInv
<1> QED
  BY <1>1, <1>2 DEF FilesInv

LEMMA FilesNext ==
    ASSUME ServerTypes, ServerTypes', LP!IInv, LP!IInv', ToldInv, ServedInv', FilesInv, [Next]_vars
    PROVE  FilesInv'
<1>1. ASSUME NEW p \in InputPaths, NEW t \in Texts, DidOpenLintable(p, t)
      PROVE  FilesInv'
  <2>1. /\ spc = "idle" /\ p \notin overlaid /\ settled' = settled /\ current' = current
        /\ LP!WatchAndLoadForFile(p, p)
    BY <1>1, SameCalls DEF DidOpenLintable, MayOpen
  <2>2. told \in [LP!Watchers -> LP!Views]
    BY DEF ToldInv
  <2>3. /\ races' = races /\ Content' = Content /\ UNCHANGED <<canonical, directory>>
        /\ \A w \in LP!Watchers : w # <<p, p>> => told'[w] = told[w]
    BY <2>1, <2>2, CallKeeps
  <2>4. ASSUME NEW q \in settled \cap InputPaths PROVE told'[<<q, q>>] = told[<<q, q>>]
    <3>1. q # p /\ q \in Paths
      BY <2>1, Disjoint DEF ServerTypes, DocumentsInv
    <3> QED
      BY <2>3, <3>1, OwnWatcher
  <2> QED
    BY <2>1, <2>3, <2>4, FilesStay
<1>2. ASSUME NEW p \in InputPaths, NEW t \in Texts, DidChangeLintable(p, t)
      PROVE  FilesInv'
  <2>1. /\ spc = "idle" /\ settled' = settled /\ current' = current /\ races' = races
        /\ disk' = disk /\ overlaid' = overlaid /\ told' = told
        /\ text' = [text EXCEPT ![p] = t] /\ UNCHANGED <<canonical, directory>>
    BY <1>2 DEF DidChangeLintable, diskVars, loaderVars
  <2>2. Content' = Content
    <3>1. \A q \in ConfigPaths : text'[q] = text[q]
      BY <2>1, Disjoint DEF ServerTypes, DocumentsInv
    <3> QED
      BY <2>1, <3>1, SameContent
  <2> QED
    BY <2>1, <2>2, FilesStay
<1>3. ASSUME UNCHANGED vars PROVE FilesInv'
  <2>1. /\ UNCHANGED <<disk, overlaid, text, canonical, directory, told, races, settled, current, spc>>
    BY <1>3 DEF vars, diskVars, documentVars, loaderVars
  <2>2. Content' = Content
    BY <2>1, SameContent
  <2> QED
    BY <2>1, <2>2, FilesStay DEF FilesInv
<1>4. ASSUME spc' # "idle", current' = current, races' = races PROVE FilesInv'
  BY <1>4 DEF FilesInv
<1>5. ASSUME DiskChange PROVE FilesInv'
  BY <1>5 DEF DiskChange, FilesInv
<1>6. ASSUME NEW p, NEW t, DidOpenConfig(p, t) \/ DidChangeConfig(p, t) PROVE FilesInv'
  <2>1. spc = "idle" /\ spc' # "idle" /\ current' = current /\ OverlayChange(p)
    BY <1>6 DEF DidOpenConfig, DidChangeConfig, MayOpen
  <2>2. rpc = "idle"
    BY <2>1 DEF ServerTypes, PhaseInv
  <2> QED
    BY <1>4, <2>1, <2>2, OverlayKeeps
<1>7. ASSUME LoadOpenedConfig PROVE FilesInv'
  <2>1. spc' # "idle" /\ current' = current /\ LP!WatchAndLoadConfigFile(doc, doc)
    BY <1>7, SameCalls DEF LoadOpenedConfig
  <2> QED
    BY <1>4, <2>1 DEF LP!WatchAndLoadConfigFile
<1>8. ASSUME NEW p, DidClose(p) PROVE FilesInv'
  <2>1. spc' # "idle" /\ current' = current /\ LP!UnwatchFile(p)
    BY <1>8, SameCalls DEF DidClose
  <2> QED
    BY <1>4, <2>1, UnwatchKeeps
<1>9. ASSUME CloseDocument PROVE FilesInv'
  <2>1. spc = "close" /\ spc' # "idle" /\ current' = current /\ OverlayChange(doc)
    BY <1>9 DEF CloseDocument
  <2>2. rpc = "idle"
    BY <2>1 DEF ServerTypes, PhaseInv
  <2> QED
    BY <1>4, <2>1, <2>2, OverlayKeeps
<1>10. ASSUME FilesystemChanged \/ Refreshing PROVE FilesInv'
  BY <1>4, <1>10, RefreshKeeps DEF FilesystemChanged, Refreshing, loaderVars
<1>11. ASSUME NEW p, NEW d, WriteConfig(p, d) \/ MoveConfigPath(p, d) \/ MoveInputPath(p, d)
       PROVE FilesInv'
  BY <1>5, <1>11 DEF WriteConfig, MoveConfigPath, MoveInputPath
<1> QED
  BY <1>1, <1>2, <1>3, <1>6, <1>7, <1>8, <1>9, <1>10, <1>11, FilesFinish DEF Next

-----------------------------------------------------------------------------
(* The invariant of the server, and what it shows. *)

ServerInv == ServerTypes /\ LP!IInv /\ LP!OnceInv /\ ServedInv /\ FilesInv

LEMMA ServerInit == Init => ServerInv
<1> SUFFICES ASSUME Init PROVE ServerInv
  OBVIOUS
<1>1. LP!IInv /\ LP!OnceInv
  BY InitRefines, LoaderAssumed, LP!InvariantInit, LP!OnceInit
<1>2. ServedInv
  <2>1. LP!AllWatches = << >>
    BY DEF Init, LP!AllWatches
  <2> QED
    BY <2>1 DEF Init, ServedInv, OwnTokens, Served
<1>3. FilesInv
  BY DEF Init, FilesInv
<1> QED
  BY <1>1, <1>2, <1>3, TypesInit DEF ServerInv

LEMMA ServerNext == ServerInv /\ [Next]_vars => ServerInv'
<1> SUFFICES ASSUME ServerInv, [Next]_vars PROVE ServerInv'
  OBVIOUS
<1>1. LP!IInv' /\ LP!OnceInv'
  BY LoaderStep DEF ServerInv, ServerTypes
<1>2. ToldInv
  BY LoaderTells DEF ServerInv
<1>3. ToldInv'
  BY <1>1, LoaderTells, PTL
<1>4. ServerTypes'
  BY <1>2, <1>3, TypesNext DEF ServerInv
<1>5. ServedInv'
  BY <1>1, <1>2, <1>3, ServedNext DEF ServerInv
<1>6. FilesInv'
  BY <1>1, <1>2, <1>4, <1>5, FilesNext DEF ServerInv
<1> QED
  BY <1>1, <1>4, <1>5, <1>6 DEF ServerInv

LEMMA ServerInvariant == Spec => []ServerInv
BY ServerInit, ServerNext, PTL DEF Spec

LEMMA TypesHold == ServerInv => TypeOK
<1> SUFFICES ASSUME ServerInv PROVE TypeOK
  OBVIOUS
<1>1. LP!TypeOK /\ DocumentsInv /\ HandlerTypes
  BY DEF ServerInv, ServerTypes, LP!IInv
<1>2. Loader!TypeOK
  <2>1. LP!Errors = Loader!Errors
    BY SameConstants DEF LP!Errors, Loader!Errors
  <2>2. \A paths : LP!WatchType(paths) = Loader!WatchType(paths)
    BY <2>1, SameConstants DEF LP!WatchType, Loader!WatchType
  <2> QED
    BY <1>1, <2>1, <2>2, SameConstants DEF LP!TypeOK, Loader!TypeOK
<1> QED
  BY <1>1, <1>2, SameConstants DEF TypeOK, DocumentsInv, HandlerTypes

LEMMA ServedMatchesConfig == ServerInv => DiagnosticsMatchConfig
<1> SUFFICES ASSUME ServerInv, spc = "idle", NEW p \in documents \cap InputPaths
             PROVE  published[p] = Lint(text[p], config[p], loaded)
  BY DEF DiagnosticsMatchConfig
<1>1. IsServed(p) /\ rpc = "idle"
  BY DEF ServerInv, ServedInv, Served, ServerTypes, PhaseInv
<1>2. told[<<p, p>>].config # None => told[<<p, p>>].content = loaded[told[<<p, p>>].config]
  BY <1>1, LoaderTells, OwnWatcher, Disjoint DEF ServerInv, ToldInv
<1> QED
  BY <1>1, <1>2, LintOf DEF IsServed

LEMMA ServedMatchesFiles == ServerInv => DiagnosticsMatchFiles
<1> SUFFICES ASSUME ServerInv, spc = "idle", current, NEW p \in settled \cap InputPaths,
                    Loader!Fresh(p).error = Loader!NoError
             PROVE  published[p] = Lint(text[p], Loader!Fresh(p).config, Content)
  BY DEF DiagnosticsMatchFiles
<1> DEFINE r == LP!Fresh(p)
           view == told[<<p, p>>]
<1>1. IsServed(p) /\ p \in Paths
  BY Disjoint DEF ServerInv, ServedInv, Served, ServerTypes, DocumentsInv
<1>2. LP!FreshOf[p] = r
  BY <1>1, SameConstants DEF LP!FreshOf
<1>3. view = LP!View(r, Content)
  BY <1>2, SameSearch, SameConstants DEF ServerInv, FilesInv
<1> HIDE DEF r
<1>4. view.config = r.config /\ (view.config # None => view.content = Content[view.config])
  BY <1>3, SameConstants DEF LP!View
<1> HIDE DEF view
<1>5. Lint(text[p], view.config, Content) = DiagnosticsOf(text[p], view)
  BY <1>4, LintOf
<1> QED
  BY <1>1, <1>4, <1>5, SameSearch DEF IsServed, view, r

\* The server calls its loader as ConfigurationLoader lets callers call it,
\* and the documents of the editor are to the loader files that change: what
\* is proved of the loader holds in the server, overlays included.
THEOREM ServerUsesLoader == Spec => Loader!Spec
<1>1. Init => Loader!Init
  BY InitRefines, SameSteps
<1>2. ServerInv /\ [Next]_vars => [Loader!Next]_(Loader!vars)
  BY RefinesNext, SameSteps DEF ServerInv, ServerTypes
<1> QED
  BY <1>1, <1>2, ServerInvariant, PTL DEF Spec, Loader!Spec

\* Type correctness: the documents, what the client was sent, the handler and
\* the loader.
THEOREM ServerTypeCorrect == Spec => []TypeOK
BY ServerInvariant, TypesHold, PTL

\* Between two messages the client has, for every JavaScript document that is
\* open, the diagnostics of its latest text under the configuration that the
\* document points at, as that is now.
THEOREM ServerDiagnosticsMatchConfig == Spec => []DiagnosticsMatchConfig
BY ServerInvariant, ServedMatchesConfig, PTL

\* If the disk has not changed since the last refresh(), these are the
\* diagnostics of the configuration a fresh search finds, unless it fails.
THEOREM ServerDiagnosticsMatchFiles == Spec => []DiagnosticsMatchFiles
BY ServerInvariant, ServedMatchesFiles, PTL
=============================================================================
