----------------------- MODULE ConfigurationLoaderProofs -----------------------
(***************************************************************************)
(* Proofs about ConfigurationLoader, for any directories, paths, tokens    *)
(* and contents, any number of watches, and any changes of the file system *)
(* during a refresh().                                                     *)
(*                                                                         *)
(* The inductive invariant relates what a watcher was told to its watch.   *)
(* While a refresh() runs, a watcher that no change was recorded for yet   *)
(* was told what its watch says, with the content that is in the cache,    *)
(* unless the file was just parsed again and the watch is still to come.   *)
(***************************************************************************)
EXTENDS ConfigurationLoader, WellFoundedInduction, TLAPS

\* A path is watched once.
UniqueInv ==
    /\ \A i, j \in DOMAIN configWatches :
         configWatches[i].path = configWatches[j].path => i = j
    /\ \A i, j \in DOMAIN inputWatches :
         inputWatches[i].path = inputWatches[j].path => i = j

\* The watcher that a watch, or a change, belongs to.
Watcher(x) == <<x.path, x.token>>
News == {Watcher(changes[k]) : k \in DOMAIN changes}
FreshOf == [path \in Paths |-> Fresh(path)]

PhaseInv ==
    /\ rpc = "idle" => changes = << >>
    /\ rpc = "tell" => telling # None /\ loaded[telling] # NotLoaded

\* What a watcher points at is what its watch points at, and it has seen the
\* content, or is about to be told.
HeldInv ==
    \A w \in Watchers \ News :
        told[w].config # None =>
            /\ loaded[told[w].config] # NotLoaded
            /\ \E i \in DOMAIN AllWatches :
                 /\ Watcher(AllWatches[i]) = w
                 /\ AllWatches[i].config = told[w].config
                 /\ \/ told[w].content = loaded[told[w].config]
                    \/ rpc = "tell" /\ telling = told[w].config /\ at <= i

\* A change is about a watch, and says what the watch says.
Says(change, w) ==
    /\ Watcher(change) = Watcher(w)
    /\ change.config # None => change.config = w.config
    /\ w.error = NoError => change.error = NoError /\ change.config = w.config

ChangesInv ==
    \A k \in DOMAIN changes :
        /\ changes[k].config # None => loaded[changes[k].config] # NotLoaded
        /\ \E i \in DOMAIN AllWatches :
             /\ Says(changes[k], AllWatches[i])
             /\ rpc = "watches" => i < at

\* A watcher without news was told of the watch as it is.
Told(view, w) ==
    /\ view.error = NoError
    /\ view.config = w.config
    /\ view.config = None => view.content = NotLoaded

NewsInv ==
    \A i \in DOMAIN AllWatches :
        AllWatches[i].error = NoError /\ Watcher(AllWatches[i]) \notin News =>
            Told(told[Watcher(AllWatches[i])], AllWatches[i])

\* As long as no file changes, the watches that were looked at are up to date,
\* and so is what was loaded again.
UpToDate(w, r) ==
    /\ w.error = r.error
    /\ r.error = NoError => w.config = r.config

FreshInv ==
    rpc # "idle" /\ races = 0 =>
        \A i \in DOMAIN AllWatches :
            (rpc = "watches" => i < at) => UpToDate(AllWatches[i], FreshOf[AllWatches[i].path])

LoadedInv ==
    rpc \in {"reload", "tell"} /\ races = 0 =>
        \A d \in Dirs \ unread :
            loaded[d] # NotLoaded /\ content[d] \in Contents => loaded[d] = content[d]

\* RefreshTellsEveryWatch.
SyncedInv ==
    synced =>
        \A i \in DOMAIN AllWatches :
            FreshOf[AllWatches[i].path].error = NoError =>
                told[Watcher(AllWatches[i])] = View(FreshOf[AllWatches[i].path], content)

IInv ==
    /\ TypeOK /\ UniqueInv /\ PhaseInv /\ HeldInv /\ ChangesInv /\ NewsInv
    /\ FreshInv /\ LoadedInv /\ SyncedInv
-----------------------------------------------------------------------------
(* Sets of natural numbers. *)

\* The least element is the nearest directory.
LEMMA LeastNatural ==
    ASSUME NEW S, S \subseteq Nat, S # {}
    PROVE  \E m \in S : \A k \in S : m <= k
<1> DEFINE Less == {ss \in Nat \X Nat : ss[1] < ss[2]}
<1>1. IsWellFoundedOn(Less, Nat)
  BY NatLessThanWellFounded DEF OpToRel
<1>2. PICK m \in S : \A k \in S : <<k, m>> \notin Less
  <2> HIDE DEF Less
  <2> QED
    BY <1>1, WFMin
<1>3. \A k \in S : ~(k < m)
  BY <1>2
<1> QED
  BY <1>3

\* The greatest one is the last change.
LEMMA GreatestNatural ==
    ASSUME NEW n \in Nat, NEW S, S \subseteq 1 .. n, S # {}
    PROVE  \E m \in S : \A k \in S : m >= k
<1> DEFINE T == {n - k : k \in S}
<1>1. T \subseteq Nat /\ T # {}
  <2>1. ASSUME NEW k \in S PROVE n - k \in Nat
    OBVIOUS
  <2> QED
    BY <2>1
<1>2. PICK d \in T : \A e \in T : d <= e
  <2> HIDE DEF T
  <2> QED
    BY <1>1, LeastNatural
<1>3. PICK m \in S : d = n - m
  OBVIOUS
<1>4. \A k \in S : n - m <= n - k
  BY <1>2, <1>3
<1> QED
  BY <1>3, <1>4
-----------------------------------------------------------------------------
(* Lookups. *)

Files ==
    /\ content \in [Dirs -> FileState]
    /\ canonical \in [ConfigPaths -> Dirs \cup {None}]
    /\ directory \in [InputPaths -> Dirs \cup {None}]

Outcomes == [config : Dirs \cup {None}, error : Errors \cup {NoError}]

\* What a lookup returns: a file that is known or can be read, no file, or an
\* error and no file.
IsOutcome(r, known) ==
    /\ r \in Outcomes
    /\ r.error # NoError => r.config = None
    /\ r.config # None => r.config \in Dirs /\ Readable(r.config, known)

LEMMA ErrorOutcome ==
    ASSUME Files, NEW known, NEW d \in Dirs, ~Readable(d, known)
    PROVE  IsOutcome(Outcome(None, ReadError(d)), known)
<1>1. content[d] \in {NotFound, Unreadable}
  BY DEF Files, FileState, Readable
<1>2. ReadError(d) \in Errors /\ ReadError(d) # NoError
  BY <1>1 DEF ReadError, Errors, NoError
<1> QED
  BY <1>2 DEF IsOutcome, Outcomes, Outcome

LEMMA FileOutcome ==
    ASSUME NEW known, NEW d \in Dirs, Readable(d, known)
    PROVE  IsOutcome(Outcome(d, NoError), known)
BY LoaderAssumption DEF IsOutcome, Outcomes, Outcome

LEMMA NoOutcome ==
    ASSUME NEW known
    PROVE  IsOutcome(Outcome(None, NoError), known)
           /\ IsOutcome(Outcome(None, CanonicalizeError), known)
BY LoaderAssumption DEF IsOutcome, Outcomes, Outcome, CanonicalizeError, NoError, Errors

LEMMA NamedOutcome ==
    ASSUME Files, NEW known, NEW path \in ConfigPaths
    PROVE  IsOutcome(FindNamed(path, known), known)
<1> DEFINE d == canonical[path]
<1>1. d \in Dirs \cup {None}
  BY DEF Files
<1>2. CASE d = None
  BY <1>2, NoOutcome DEF FindNamed
<1>3. CASE d # None /\ Readable(d, known)
  BY <1>1, <1>3, FileOutcome DEF FindNamed
<1>4. CASE d # None /\ ~Readable(d, known)
  BY <1>1, <1>4, ErrorOutcome DEF FindNamed
<1> QED
  BY <1>2, <1>3, <1>4

LEMMA InputOutcome ==
    ASSUME Files, NEW known, NEW path \in InputPaths
    PROVE  IsOutcome(FindForInput(path, known), known)
<1>1. CASE directory[path] = None
  BY <1>1, NoOutcome DEF FindForInput
<1>2. CASE directory[path] # None
  <2> DEFINE dirs == Ancestors[directory[path]]
             stops == Stops(dirs, known)
             first == CHOOSE k \in stops : \A j \in stops : k <= j
             d == dirs[first]
  <2>1. dirs \in Seq(Dirs)
    BY <1>2, LoaderAssumption DEF Files
  <2>2. FindForInput(path, known) =
            IF stops = {} THEN Outcome(None, NoError)
            ELSE IF Readable(d, known) THEN Outcome(d, NoError)
            ELSE Outcome(None, ReadError(d))
    BY <1>2 DEF FindForInput
  <2>3. CASE stops = {}
    BY <2>2, <2>3, NoOutcome
  <2>4. CASE stops # {}
    <3>1. stops \subseteq 1 .. Len(dirs) /\ Len(dirs) \in Nat
      BY <2>1 DEF Stops
    <3> HIDE DEF stops
    <3>2. \E k \in stops : \A j \in stops : k <= j
      <4>1. stops \subseteq Nat
        BY ONLY <3>1
      <4> QED
        BY ONLY <2>4, <4>1, LeastNatural
    <3>3. first \in stops
      BY <3>2
    <3> HIDE DEF first, dirs
    <3>4. d \in Dirs
      BY <2>1, <3>1, <3>3
    <3>5. CASE Readable(d, known)
      BY <2>2, <2>4, <3>4, <3>5, FileOutcome
    <3>6. CASE ~Readable(d, known)
      BY <2>2, <2>4, <3>4, <3>6, ErrorOutcome
    <3> QED
      BY <3>5, <3>6
  <2> QED
    BY <2>3, <2>4
<1> QED
  BY <1>1, <1>2

LEMMA FoundOutcome ==
    ASSUME Files, NEW known, NEW path \in Paths
    PROVE  IsOutcome(Find(path, known), known)
BY NamedOutcome, InputOutcome DEF Find, Paths

\* The cache after a lookup: what it had is kept, the file is there.
LEMMA LoadedAfter ==
    ASSUME Files, loaded \in [Dirs -> Contents \cup {NotLoaded}],
           NEW r, NEW known, known \subseteq Cached, IsOutcome(r, known)
    PROVE  /\ WithLoaded(r) \in [Dirs -> Contents \cup {NotLoaded}]
           /\ \A d \in Dirs : loaded[d] # NotLoaded => WithLoaded(r)[d] = loaded[d]
           /\ r.config # None => WithLoaded(r)[r.config] # NotLoaded
<1>1. CASE r.config = None \/ r.config \in Cached
  BY <1>1 DEF WithLoaded, Cached
<1>2. CASE r.config # None /\ r.config \notin Cached
  <2>1. r.config \in Dirs /\ content[r.config] \in Contents
    BY <1>2 DEF IsOutcome, Readable
  <2>2. loaded[r.config] = NotLoaded
    BY <1>2, <2>1 DEF Cached
  <2> QED
    BY <1>2, <2>1, <2>2, LoaderAssumption DEF WithLoaded
<1> QED
  BY <1>1, <1>2

\* What is seen of an outcome has a type.
Views == [config : Dirs \cup {None}, error : Errors \cup {NoError},
          content : Contents \cup {None, NotLoaded}]

LEMMA ViewType ==
    ASSUME NEW contents \in [Dirs -> Contents \cup {NotLoaded}], NEW r,
           r.config \in Dirs \cup {None}, r.error \in Errors \cup {NoError}
    PROVE  View(r, contents) \in Views
BY DEF View, Views
LEMMA ViewIs ==
    ASSUME NEW v \in Views, NEW r, NEW contents,
           v.config = r.config, v.error = r.error,
           r.config = None => v.content = NotLoaded,
           r.config # None => v.content = contents[r.config]
    PROVE  v = View(r, contents)
BY DEF Views, View
-----------------------------------------------------------------------------
(* Type correctness. *)

LEMMA TypeOfFiles ==
    ASSUME TypeOK
    PROVE  Files /\ Cached \subseteq Dirs
BY DEF TypeOK, Files, Cached

LEMMA WithoutType ==
    ASSUME NEW T, NEW watches \in Seq(T), NEW path
    PROVE  Without(watches, path) \in Seq(T)
<1> DEFINE i == CHOOSE k \in DOMAIN watches : watches[k].path = path
<1>1. CASE \E k \in DOMAIN watches : watches[k].path = path
  <2>1. i \in 1 .. Len(watches)
    BY <1>1
  <2> HIDE DEF i
  <2>2. Len(watches) - 1 \in Nat
    BY <2>1
  <2>3. \A k \in 1 .. Len(watches) - 1 : watches[IF k < i THEN k ELSE k + 1] \in T
    BY <2>1
  <2>4. Without(watches, path) =
            [k \in 1 .. Len(watches) - 1 |-> watches[IF k < i THEN k ELSE k + 1]]
    BY <1>1 DEF Without, i
  <2> QED
    BY <2>2, <2>3, <2>4
<1>2. CASE ~\E k \in DOMAIN watches : watches[k].path = path
  BY <1>2 DEF Without
<1> QED
  BY <1>1, <1>2

\* All watches, one after the other.
LEMMA WatchesType ==
    ASSUME TypeOK
    PROVE  /\ AllWatches \in Seq(WatchType(Paths))
           /\ Len(AllWatches) = Len(configWatches) + Len(inputWatches)
           /\ \A i \in DOMAIN configWatches :
                i \in DOMAIN AllWatches /\ AllWatches[i] = configWatches[i]
           /\ \A i \in DOMAIN inputWatches :
                /\ Len(configWatches) + i \in DOMAIN AllWatches
                /\ AllWatches[Len(configWatches) + i] = inputWatches[i]
           /\ \A k \in DOMAIN AllWatches :
                \/ k \in DOMAIN configWatches
                \/ k - Len(configWatches) \in DOMAIN inputWatches
<1>1. configWatches \in Seq(WatchType(Paths)) /\ inputWatches \in Seq(WatchType(Paths))
  <2>1. WatchType(ConfigPaths) \subseteq WatchType(Paths)
        /\ WatchType(InputPaths) \subseteq WatchType(Paths)
    BY DEF Paths, WatchType
  <2>2. configWatches \in Seq(WatchType(ConfigPaths)) /\ inputWatches \in Seq(WatchType(InputPaths))
    BY DEF TypeOK
  <2> QED
    BY <2>1, <2>2
<1> QED
  BY <1>1 DEF AllWatches

LEMMA WatchIsTyped ==
    ASSUME NEW paths, NEW path \in paths, NEW token \in Tokens,
           NEW r, r \in Outcomes, NEW c \in {None, r.config}
    PROVE  Watch(path, token, c, r.error) \in WatchType(paths)
BY DEF Watch, WatchType, Outcomes

LEMMA ChangeIsTyped ==
    ASSUME NEW w \in WatchType(Paths), NEW r \in Outcomes
    PROVE  Change(w, r) \in WatchType(Paths)
BY DEF Change, WatchType, Outcomes

LEMMA UpdatedIsTyped ==
    ASSUME NEW paths, NEW w \in WatchType(paths), NEW r \in Outcomes
    PROVE  Updated(w, r) \in WatchType(paths)
BY DEF Updated, WatchType, Outcomes, NoError

LEMMA AppendType ==
    ASSUME NEW T, NEW s \in Seq(T), NEW x \in T
    PROVE  Append(s, x) \in Seq(T)
OBVIOUS

LEMMA ExceptType ==
    ASSUME NEW T, NEW s \in Seq(T), NEW i \in DOMAIN s, NEW x \in T
    PROVE  [s EXCEPT ![i] = x] \in Seq(T)
OBVIOUS

LEMMA PointAtType ==
    ASSUME NEW watches \in Seq(WatchType(InputPaths)), NEW path, NEW r \in Outcomes
    PROVE  PointAt(watches, path, r) \in Seq(WatchType(InputPaths))
<1>1. ASSUME NEW i \in DOMAIN watches, r.config # None
      PROVE  [watches[i] EXCEPT !.config = r.config] \in WatchType(InputPaths)
  <2>1. watches[i] \in WatchType(InputPaths)
    OBVIOUS
  <2> QED
    BY <2>1 DEF WatchType, Outcomes
<1>2. \A i \in DOMAIN watches :
        (IF watches[i].path = path /\ r.config # None
         THEN [watches[i] EXCEPT !.config = r.config] ELSE watches[i]) \in WatchType(InputPaths)
  BY <1>1
<1> QED
  BY <1>2 DEF PointAt

LEMMA ToldType ==
    ASSUME TypeOK, NEW w \in Watchers, NEW v \in Views
    PROVE  [told EXCEPT ![w] = v] \in [Watchers -> Views]
BY DEF TypeOK, Views

LEMMA ForgetType ==
    ASSUME TypeOK, NEW paths
    PROVE  Forget(paths) \in [Watchers -> Views]
<1>1. Untold \in Views
  BY DEF Untold, Views
<1> QED
  BY <1>1 DEF Forget, TypeOK, Views

LEMMA TypeInit == Init => TypeOK
<1> SUFFICES ASSUME Init PROVE TypeOK
  OBVIOUS
<1>1. \A w \in Watchers : Untold \in Views
  BY DEF Untold, Views
<1>2. told \in [Watchers -> Views]
  BY <1>1 DEF Init
<1> QED
  <2>1. <<>> \in Seq(WatchType(ConfigPaths)) /\ <<>> \in Seq(WatchType(InputPaths))
        /\ <<>> \in Seq(WatchType(Paths))
    OBVIOUS
  <2>2. loaded \in [Dirs -> Contents \cup {NotLoaded}] /\ races \in 0 .. MaxRaces
    BY LoaderAssumption DEF Init
  <2> QED
    BY <1>2, <2>1, <2>2 DEF Init, TypeOK, Views

LEMMA TypeWatchConfig ==
    ASSUME TypeOK, NEW path \in ConfigPaths, NEW token \in Tokens,
           WatchAndLoadConfigFile(path, token)
    PROVE  TypeOK'
<1> DEFINE r == FindNamed(path, Cached)
<1>1. IsOutcome(r, Cached)
  BY TypeOfFiles, NamedOutcome
<1>2. r \in Outcomes
  BY <1>1 DEF IsOutcome
<1>3. loaded' \in [Dirs -> Contents \cup {NotLoaded}]
  BY <1>1, TypeOfFiles, LoadedAfter DEF TypeOK, WatchAndLoadConfigFile
<1>4. Watch(path, token, r.config, r.error) \in WatchType(ConfigPaths)
  BY <1>2, WatchIsTyped
<1>5. configWatches' \in Seq(WatchType(ConfigPaths))
  BY <1>4, AppendType DEF TypeOK, WatchAndLoadConfigFile
<1>6. View(r, loaded') \in Views
  BY <1>2, <1>3, ViewType DEF Outcomes
<1>7. <<path, token>> \in Watchers
  BY DEF Watchers, Paths
<1>8. told' \in [Watchers -> Views]
  BY <1>6, <1>7, ToldType DEF WatchAndLoadConfigFile
<1> QED
  BY <1>3, <1>5, <1>8 DEF TypeOK, Views, WatchAndLoadConfigFile, fsVars, refreshVars

LEMMA TypeWatchInput ==
    ASSUME TypeOK, NEW path \in InputPaths, NEW token \in Tokens,
           WatchAndLoadForFile(path, token)
    PROVE  TypeOK'
<1> DEFINE r == FindForInput(path, Cached)
           w == Watch(path, token, None, r.error)
<1>1. IsOutcome(r, Cached)
  BY TypeOfFiles, InputOutcome
<1>2. r \in Outcomes
  BY <1>1 DEF IsOutcome
<1>3. loaded' \in [Dirs -> Contents \cup {NotLoaded}]
  BY <1>1, TypeOfFiles, LoadedAfter DEF TypeOK, WatchAndLoadForFile
<1>4. w \in WatchType(InputPaths)
  BY <1>2, WatchIsTyped
<1>5. Append(inputWatches, w) \in Seq(WatchType(InputPaths))
  BY <1>4, AppendType DEF TypeOK
<1>6. inputWatches' \in Seq(WatchType(InputPaths))
  BY <1>2, <1>5, PointAtType DEF WatchAndLoadForFile
<1>7. View(r, loaded') \in Views
  BY <1>2, <1>3, ViewType DEF Outcomes
<1>8. <<path, token>> \in Watchers
  BY DEF Watchers, Paths
<1>9. told' \in [Watchers -> Views]
  BY <1>7, <1>8, ToldType DEF WatchAndLoadForFile
<1> QED
  BY <1>3, <1>6, <1>9 DEF TypeOK, Views, WatchAndLoadForFile, fsVars, refreshVars

LEMMA TypeLoad ==
    ASSUME TypeOK, NEW path \in Paths, LoadForFile(path)
    PROVE  TypeOK'
<1> DEFINE r == Find(path, Cached)
<1>1. IsOutcome(r, Cached)
  BY TypeOfFiles, FoundOutcome
<1>2. loaded' \in [Dirs -> Contents \cup {NotLoaded}]
  BY <1>1, TypeOfFiles, LoadedAfter DEF TypeOK, LoadForFile
<1>3. inputWatches' \in Seq(WatchType(InputPaths))
  BY <1>1, PointAtType DEF LoadForFile, IsOutcome, TypeOK
<1> QED
  BY <1>2, <1>3 DEF TypeOK, LoadForFile, fsVars, refreshVars

LEMMA TypeUnwatch ==
    ASSUME TypeOK, (\E path \in Paths : UnwatchFile(path)) \/ UnwatchAllFiles
    PROVE  TypeOK'
<1>1. ASSUME NEW path \in Paths, UnwatchFile(path)
      PROVE  TypeOK'
  <2>1. /\ configWatches' \in Seq(WatchType(ConfigPaths))
        /\ inputWatches' \in Seq(WatchType(InputPaths))
    BY <1>1, WithoutType DEF UnwatchFile, TypeOK
  <2>2. told' \in [Watchers -> Views]
    BY <1>1, ForgetType DEF UnwatchFile
  <2> QED
    BY <1>1, <2>1, <2>2 DEF UnwatchFile, TypeOK, Views, fsVars, refreshVars
<1>2. ASSUME UnwatchAllFiles
      PROVE  TypeOK'
  <2>1. told' \in [Watchers -> Views]
    BY <1>2, ForgetType DEF UnwatchAllFiles
  <2> QED
    BY <1>2, <2>1 DEF UnwatchAllFiles, TypeOK, Views, fsVars, refreshVars
<1> QED
  BY <1>1, <1>2

\* A visited watch, and what becomes of the cache and of the changes.
LEMMA TypeVisit ==
    ASSUME TypeOK, NEW w \in WatchType(Paths), NEW r, IsOutcome(r, {}), RefreshWatch(w, r)
    PROVE  /\ loaded' \in [Dirs -> Contents \cup {NotLoaded}]
           /\ changes' \in Seq(WatchType(Paths))
           /\ at' \in Nat
<1>1. WithLoaded(r) \in [Dirs -> Contents \cup {NotLoaded}]
  BY TypeOfFiles, LoadedAfter DEF TypeOK
<1>2. Change(w, r) \in WatchType(Paths)
  BY ChangeIsTyped DEF IsOutcome
<1>3. Append(changes, Change(w, r)) \in Seq(WatchType(Paths))
  BY <1>2, AppendType DEF TypeOK
<1> QED
  BY <1>1, <1>3 DEF TypeOK, RefreshWatch

LEMMA TypeRefreshConfigWatch ==
    ASSUME TypeOK, RefreshConfigWatch
    PROVE  TypeOK'
<1> DEFINE w == configWatches[at]
           r == FindNamed(w.path, {})
<1>1. w \in WatchType(ConfigPaths)
  BY DEF TypeOK, RefreshConfigWatch
<1>2. w \in WatchType(Paths) /\ w.path \in ConfigPaths
  BY <1>1 DEF WatchType, Paths
<1>3. IsOutcome(r, {})
  BY <1>2, TypeOfFiles, NamedOutcome
<1>4. RefreshWatch(w, r)
  BY DEF RefreshConfigWatch
<1>5. Updated(w, r) \in WatchType(ConfigPaths)
  BY <1>1, <1>3, UpdatedIsTyped DEF IsOutcome
<1>6. configWatches' \in Seq(WatchType(ConfigPaths))
  BY <1>5, ExceptType DEF TypeOK, RefreshConfigWatch
<1>7. /\ loaded' \in [Dirs -> Contents \cup {NotLoaded}]
      /\ changes' \in Seq(WatchType(Paths))
      /\ at' \in Nat
  BY <1>2, <1>3, <1>4, TypeVisit
<1>8. UNCHANGED <<content, canonical, directory, rpc, unread, telling, told, races, synced,
                  inputWatches>>
  BY <1>4 DEF RefreshConfigWatch, RefreshWatch, fsVars
<1> QED
  BY <1>6, <1>7, <1>8 DEF TypeOK

LEMMA TypeRefreshInputWatch ==
    ASSUME TypeOK, RefreshInputWatch
    PROVE  TypeOK'
<1> DEFINE i == at - Len(configWatches)
           w == inputWatches[i]
           r == FindForInput(w.path, {})
<1>0. i \in DOMAIN inputWatches
  BY DEF RefreshInputWatch
<1>1. w \in WatchType(InputPaths)
  BY <1>0 DEF TypeOK
<1>2. w \in WatchType(Paths) /\ w.path \in InputPaths
  BY <1>1 DEF WatchType, Paths
<1>3. IsOutcome(r, {})
  BY <1>2, TypeOfFiles, InputOutcome
<1>4. RefreshWatch(w, r)
  BY DEF RefreshInputWatch
<1>5. Updated(w, r) \in WatchType(InputPaths)
  BY <1>1, <1>3, UpdatedIsTyped DEF IsOutcome
<1>6. inputWatches' \in Seq(WatchType(InputPaths))
  BY <1>0, <1>5, ExceptType DEF TypeOK, RefreshInputWatch
<1>7. /\ loaded' \in [Dirs -> Contents \cup {NotLoaded}]
      /\ changes' \in Seq(WatchType(Paths))
      /\ at' \in Nat
  BY <1>2, <1>3, <1>4, TypeVisit
<1>8. UNCHANGED <<content, canonical, directory, rpc, unread, telling, told, races, synced,
                  configWatches>>
  BY <1>4 DEF RefreshInputWatch, RefreshWatch, fsVars
<1> QED
  BY <1>6, <1>7, <1>8 DEF TypeOK

\* The change that a watcher sees is one for it.
Mine(w) == {k \in DOMAIN changes : changes[k].path = w[1] /\ changes[k].token = w[2]}
LastOf(w) == CHOOSE k \in Mine(w) : \A j \in Mine(w) : k >= j

LEMMA LastIsMine ==
    ASSUME TypeOK, NEW w, Mine(w) # {}
    PROVE  LastOf(w) \in Mine(w)
<1>1. Mine(w) \subseteq 1 .. Len(changes) /\ Len(changes) \in Nat
  BY DEF Mine, TypeOK
<1>2. \E k \in Mine(w) : \A j \in Mine(w) : k >= j
  BY ONLY <1>1, Mine(w) # {}, GreatestNatural
<1> QED
  BY <1>2 DEF LastOf

LEMMA ToldAtEnd ==
    ASSUME EndRefresh
    PROVE  told' = [w \in Watchers |->
                     IF Mine(w) = {} THEN told[w] ELSE View(changes[LastOf(w)], loaded)]
BY DEF EndRefresh, Mine, LastOf

LEMMA TypeEndRefresh ==
    ASSUME TypeOK, EndRefresh
    PROVE  TypeOK'
<1>1. ASSUME NEW w \in Watchers, Mine(w) # {}
      PROVE  View(changes[LastOf(w)], loaded) \in Views
  <2>1. LastOf(w) \in DOMAIN changes
    BY <1>1, LastIsMine DEF Mine
  <2>2. changes[LastOf(w)] \in WatchType(Paths)
    BY <2>1 DEF TypeOK
  <2> QED
    BY <2>2, ViewType DEF TypeOK, WatchType
<1>2. told' \in [Watchers -> Views]
  BY <1>1, ToldAtEnd DEF TypeOK, Views
<1> QED
  <2>1. changes' \in Seq(WatchType(Paths)) /\ races' \in 0 .. MaxRaces
        /\ rpc' = "idle" /\ at' \in Nat /\ synced' \in BOOLEAN
    BY LoaderAssumption DEF EndRefresh
  <2>2. UNCHANGED <<content, canonical, directory, loaded, configWatches, inputWatches, unread,
                    telling>>
    BY DEF EndRefresh, fsVars, watchVars
  <2> QED
    BY <1>2, <2>1, <2>2 DEF TypeOK, Views

LEMMA TypeRefresh ==
    ASSUME TypeOK, RefreshNext
    PROVE  TypeOK'
<1>1. CASE BeginRefresh
  BY <1>1 DEF TypeOK, BeginRefresh, fsVars, watchVars
<1>2. CASE BeginReload
  BY <1>2 DEF TypeOK, BeginReload, fsVars, watchVars, Cached
<1>3. ASSUME NEW d \in Dirs, Reload(d) PROVE TypeOK'
  <2>1. loaded' \in [Dirs -> Contents \cup {NotLoaded}]
    BY <1>3 DEF TypeOK, Reload, Modified
  <2>2. unread' \subseteq Dirs /\ telling' \in Dirs \cup {None} /\ at' \in Nat
        /\ rpc' \in {"idle", "watches", "reload", "tell"}
    BY <1>3 DEF TypeOK, Reload
  <2>3. UNCHANGED <<content, canonical, directory, configWatches, inputWatches, changes, told,
                    races, synced>>
    BY <1>3 DEF Reload, fsVars, watchVars
  <2> QED
    BY <2>1, <2>2, <2>3 DEF TypeOK
<1>4. CASE TellWatch
  <2> DEFINE w == AllWatches[at]
  <2>1. w \in WatchType(Paths)
    BY <1>4, WatchesType DEF TellWatch
  <2>2. ASSUME w.config = telling
        PROVE  Append(changes, Change(w, Outcome(telling, NoError))) \in Seq(WatchType(Paths))
    <3>1. Outcome(telling, NoError) \in Outcomes
      BY DEF TypeOK, Outcome, Outcomes
    <3> QED
      BY <2>1, <3>1, ChangeIsTyped, AppendType DEF TypeOK
  <2>3. changes' \in Seq(WatchType(Paths))
    BY <1>4, <2>2 DEF TellWatch, TypeOK
  <2> QED
    BY <1>4, <2>3 DEF TypeOK, TellWatch, fsVars, watchVars
<1>5. CASE EndTell
  BY <1>5 DEF TypeOK, EndTell, fsVars, watchVars
<1> QED
  BY <1>1, <1>2, <1>3, <1>4, <1>5, TypeRefreshConfigWatch, TypeRefreshInputWatch, TypeEndRefresh
     DEF RefreshNext

LEMMA TypeFs ==
    ASSUME TypeOK, FsNext
    PROVE  TypeOK'
<1>1. /\ FsChange
      /\ content' \in [Dirs -> FileState]
      /\ canonical' \in [ConfigPaths -> Dirs \cup {None}]
      /\ directory' \in [InputPaths -> Dirs \cup {None}]
  BY DEF FsNext, WriteConfig, MoveConfigPath, MoveInputPath, TypeOK
<1>2. races' \in 0 .. MaxRaces
  BY <1>1, LoaderAssumption DEF TypeOK, FsChange
<1> QED
  BY <1>1, <1>2 DEF TypeOK, FsChange, watchVars, refreshVars

LEMMA TypeNext == TypeOK /\ [Next]_vars => TypeOK'
<1> SUFFICES ASSUME TypeOK, [Next]_vars PROVE TypeOK'
  OBVIOUS
<1>1. CASE CallNext
  BY <1>1, TypeWatchConfig, TypeWatchInput, TypeLoad, TypeUnwatch DEF CallNext
<1>2. CASE UNCHANGED vars
  BY <1>2 DEF TypeOK, vars, fsVars, watchVars, refreshVars
<1> QED
  BY <1>1, <1>2, TypeRefresh, TypeFs DEF Next

\* Type correctness: watches, cache, changes and what was told.
THEOREM LoaderTypeCorrect == Spec => []TypeOK
BY TypeInit, TypeNext, PTL DEF Spec
-----------------------------------------------------------------------------
(* How the watches change.  The steps of the invariant below speak of all  *)
(* watches, not of the two sequences they are kept in.                     *)

LEMMA Joined ==
    ASSUME NEW T, NEW s \in Seq(T), NEW t \in Seq(T)
    PROVE  /\ DOMAIN (s \o t) = 1 .. Len(s) + Len(t)
           /\ \A i \in DOMAIN s : i \in DOMAIN (s \o t) /\ (s \o t)[i] = s[i]
           /\ \A i \in DOMAIN t :
                Len(s) + i \in DOMAIN (s \o t) /\ (s \o t)[Len(s) + i] = t[i]
           /\ \A k \in DOMAIN (s \o t) :
                \/ k \in DOMAIN s /\ (s \o t)[k] = s[k]
                \/ k - Len(s) \in DOMAIN t /\ (s \o t)[k] = t[k - Len(s)]
OBVIOUS

\* The elements of the first sequence are those of the other two.
Joins(c, s, t) ==
    /\ \A i \in DOMAIN c :
         (\E k \in DOMAIN s : c[i] = s[k]) \/ (\E k \in DOMAIN t : c[i] = t[k])
    /\ \A k \in DOMAIN s : \E i \in DOMAIN c : c[i] = s[k]
    /\ \A k \in DOMAIN t : \E i \in DOMAIN c : c[i] = t[k]

LEMMA JoinedElements ==
    ASSUME NEW T, NEW s \in Seq(T), NEW t \in Seq(T)
    PROVE  Joins(s \o t, s, t)
<1> DEFINE c == s \o t
<1>1. /\ \A i \in DOMAIN s : i \in DOMAIN c /\ c[i] = s[i]
      /\ \A i \in DOMAIN t : Len(s) + i \in DOMAIN c /\ c[Len(s) + i] = t[i]
      /\ \A k \in DOMAIN c :
           \/ k \in DOMAIN s /\ c[k] = s[k]
           \/ k - Len(s) \in DOMAIN t /\ c[k] = t[k - Len(s)]
  BY Joined
<1> HIDE DEF c
<1>2. Joins(c, s, t)
  BY ONLY <1>1 DEF Joins
<1> QED
  BY <1>2 DEF c

Typed(cw, iw) == cw \in Seq(WatchType(ConfigPaths)) /\ iw \in Seq(WatchType(InputPaths))

LEMMA JoinedWatches ==
    ASSUME NEW cw, NEW iw, Typed(cw, iw)
    PROVE  /\ cw \in Seq(WatchType(Paths)) /\ iw \in Seq(WatchType(Paths))
           /\ \A i \in DOMAIN cw : cw[i].path \in ConfigPaths
           /\ \A i \in DOMAIN iw : iw[i].path \in InputPaths
<1>1. WatchType(ConfigPaths) \subseteq WatchType(Paths)
      /\ WatchType(InputPaths) \subseteq WatchType(Paths)
  BY DEF Paths, WatchType
<1>2. \A i \in DOMAIN cw : cw[i] \in WatchType(ConfigPaths)
  BY DEF Typed
<1>3. \A i \in DOMAIN iw : iw[i] \in WatchType(InputPaths)
  BY DEF Typed
<1>4. \A paths : \A w \in WatchType(paths) : w.path \in paths
  BY DEF WatchType
<1>5. cw \in Seq(WatchType(Paths)) /\ iw \in Seq(WatchType(Paths))
  BY <1>1 DEF Typed
<1> QED
  BY <1>2, <1>3, <1>4, <1>5

LEMMA UniquePath ==
    ASSUME TypeOK, UniqueInv,
           NEW i \in DOMAIN AllWatches, NEW j \in DOMAIN AllWatches,
           AllWatches[i].path = AllWatches[j].path
    PROVE  i = j
<1> DEFINE n == Len(configWatches)
<1>1. Typed(configWatches, inputWatches)
  BY DEF TypeOK, Typed
<1>2. /\ \A k \in DOMAIN configWatches : configWatches[k].path \in ConfigPaths
      /\ \A k \in DOMAIN inputWatches : inputWatches[k].path \in InputPaths
      /\ configWatches \in Seq(WatchType(Paths)) /\ inputWatches \in Seq(WatchType(Paths))
  BY <1>1, JoinedWatches
<1>3. \A k \in DOMAIN AllWatches :
        \/ k \in DOMAIN configWatches /\ AllWatches[k] = configWatches[k]
        \/ k - n \in DOMAIN inputWatches /\ AllWatches[k] = inputWatches[k - n]
  BY <1>2, Joined DEF AllWatches
<1>4. n \in Nat /\ i \in Int /\ j \in Int
  BY <1>2 DEF AllWatches
<1>5. CASE i \in DOMAIN configWatches /\ AllWatches[i] = configWatches[i]
           /\ j \in DOMAIN configWatches /\ AllWatches[j] = configWatches[j]
  BY <1>5 DEF UniqueInv
<1>6. CASE /\ i - n \in DOMAIN inputWatches /\ AllWatches[i] = inputWatches[i - n]
           /\ j - n \in DOMAIN inputWatches /\ AllWatches[j] = inputWatches[j - n]
  <2>1. i - n = j - n
    BY <1>6 DEF UniqueInv
  <2> QED
    BY <2>1, <1>4
<1>7. CASE \/ /\ i \in DOMAIN configWatches /\ AllWatches[i] = configWatches[i]
              /\ j - n \in DOMAIN inputWatches /\ AllWatches[j] = inputWatches[j - n]
           \/ /\ j \in DOMAIN configWatches /\ AllWatches[j] = configWatches[j]
              /\ i - n \in DOMAIN inputWatches /\ AllWatches[i] = inputWatches[i - n]
  BY <1>2, <1>7, LoaderAssumption
<1> QED
  BY <1>3, <1>5, <1>6, <1>7

\* A watch of a path that had none, with the outcome r, was added.
Added(path, token, r) ==
    LET new == Watch(path, token, r.config, r.error) IN
    /\ rpc = "idle" /\ ~Watched(path)
    /\ IsOutcome(r, Cached)
    /\ loaded' = WithLoaded(r)
    /\ told' = [told EXCEPT ![<<path, token>>] = View(r, loaded')]
    /\ \A i \in DOMAIN AllWatches' :
         AllWatches'[i] = new \/ \E j \in DOMAIN AllWatches : AllWatches'[i] = AllWatches[j]
    /\ \A j \in DOMAIN AllWatches : \E i \in DOMAIN AllWatches' : AllWatches'[i] = AllWatches[j]
    /\ \E i \in DOMAIN AllWatches' : AllWatches'[i] = new
    /\ synced' = FALSE
    /\ UNCHANGED refreshVars

\* What there was stays where it was.
LEMMA Appended ==
    ASSUME NEW T, NEW s \in Seq(T), NEW x \in T
    PROVE  /\ DOMAIN Append(s, x) = DOMAIN s \cup {Len(s) + 1}
           /\ Len(s) + 1 \notin DOMAIN s
           /\ \A i \in DOMAIN s : Append(s, x)[i] = s[i]
           /\ Append(s, x)[Len(s) + 1] = x
OBVIOUS

LEMMA ConfigWatchIsAdded ==
    ASSUME TypeOK, UniqueInv, NEW path \in ConfigPaths, NEW token \in Tokens,
           WatchAndLoadConfigFile(path, token)
    PROVE  Added(path, token, FindNamed(path, Cached)) /\ UniqueInv'
<1> DEFINE r == FindNamed(path, Cached)
           new == Watch(path, token, r.config, r.error)
<1>0. configWatches' = Append(configWatches, new) /\ inputWatches' = inputWatches
  BY DEF WatchAndLoadConfigFile
<1>1. IsOutcome(r, Cached)
  BY TypeOfFiles, NamedOutcome
<1>2. new \in WatchType(ConfigPaths)
  BY <1>1, WatchIsTyped DEF IsOutcome
<1>3. rpc = "idle" /\ ~Watched(path) /\ synced' = FALSE /\ UNCHANGED refreshVars
      /\ loaded' = WithLoaded(r)
      /\ told' = [told EXCEPT ![<<path, token>>] = View(r, loaded')]
  BY DEF WatchAndLoadConfigFile, MayUse
<1>4. new.path = path
  BY DEF Watch
<1> HIDE DEF new, r
<1>5. Typed(configWatches, inputWatches) /\ Typed(configWatches', inputWatches')
  BY <1>0, <1>2, AppendType DEF TypeOK, Typed
<1>6. /\ configWatches \in Seq(WatchType(Paths)) /\ inputWatches \in Seq(WatchType(Paths))
      /\ configWatches' \in Seq(WatchType(Paths)) /\ inputWatches' \in Seq(WatchType(Paths))
  BY <1>5, JoinedWatches
<1>7. /\ DOMAIN configWatches' = DOMAIN configWatches \cup {Len(configWatches) + 1}
      /\ Len(configWatches) + 1 \notin DOMAIN configWatches
      /\ \A i \in DOMAIN configWatches : configWatches'[i] = configWatches[i]
      /\ configWatches'[Len(configWatches) + 1] = new
  BY <1>0, <1>2, Appended DEF TypeOK
<1> DEFINE before == configWatches \o inputWatches
           after == configWatches' \o inputWatches'
<1>8. Joins(before, configWatches, inputWatches)
  BY ONLY <1>6, JoinedElements
<1>9. Joins(after, configWatches', inputWatches')
  BY ONLY <1>6, JoinedElements
<1> HIDE DEF before, after
<1>10. /\ \A i \in DOMAIN after : after[i] = new \/ \E j \in DOMAIN before : after[i] = before[j]
       /\ \A j \in DOMAIN before : \E i \in DOMAIN after : after[i] = before[j]
       /\ \E i \in DOMAIN after : after[i] = new
  BY <1>0, <1>7, <1>8, <1>9 DEF Joins
<1>11. AllWatches = before /\ AllWatches' = after
  BY DEF AllWatches, before, after
<1>12. Added(path, token, r)
  BY <1>1, <1>3, <1>10, <1>11 DEF Added, new
<1>13. \A i \in DOMAIN configWatches : configWatches[i].path # path
  BY <1>3, <1>8, <1>11 DEF Watched, Joins
<1>14. UniqueInv'
  BY <1>0, <1>4, <1>7, <1>13 DEF UniqueInv
<1> QED
  BY <1>12, <1>14 DEF r

LEMMA InputWatchIsAdded ==
    ASSUME TypeOK, UniqueInv, NEW path \in InputPaths, NEW token \in Tokens,
           WatchAndLoadForFile(path, token)
    PROVE  Added(path, token, FindForInput(path, Cached)) /\ UniqueInv'
<1> DEFINE r == FindForInput(path, Cached)
           w == Watch(path, token, None, r.error)
           new == Watch(path, token, r.config, r.error)
<1>0. inputWatches' = PointAt(Append(inputWatches, w), path, r) /\ configWatches' = configWatches
  BY DEF WatchAndLoadForFile
<1>1. IsOutcome(r, Cached)
  BY TypeOfFiles, InputOutcome
<1>2. w \in WatchType(InputPaths) /\ new \in WatchType(InputPaths)
  BY <1>1, WatchIsTyped DEF IsOutcome
<1>3. rpc = "idle" /\ ~Watched(path) /\ synced' = FALSE /\ UNCHANGED refreshVars
      /\ loaded' = WithLoaded(r)
      /\ told' = [told EXCEPT ![<<path, token>>] = View(r, loaded')]
  BY DEF WatchAndLoadForFile, MayUse
<1>4. /\ new.path = path /\ w.path = path
      /\ new = IF r.config # None THEN [w EXCEPT !.config = r.config] ELSE w
  BY DEF Watch
<1> HIDE DEF new, r, w
<1>5. Append(inputWatches, w) \in Seq(WatchType(InputPaths))
  BY <1>2, AppendType DEF TypeOK
<1>6. inputWatches' \in Seq(WatchType(InputPaths))
  BY <1>0, <1>1, <1>5, PointAtType DEF IsOutcome
<1>7. /\ configWatches \in Seq(WatchType(Paths)) /\ inputWatches \in Seq(WatchType(Paths))
      /\ configWatches' \in Seq(WatchType(Paths)) /\ inputWatches' \in Seq(WatchType(Paths))
  BY <1>0, <1>6, JoinedWatches DEF TypeOK, Typed
<1> DEFINE before == configWatches \o inputWatches
           after == configWatches' \o inputWatches'
<1>8. Joins(before, configWatches, inputWatches)
  BY ONLY <1>7, JoinedElements
<1>9. Joins(after, configWatches', inputWatches')
  BY ONLY <1>7, JoinedElements
<1> HIDE DEF before, after
<1>10. AllWatches = before /\ AllWatches' = after
  BY DEF AllWatches, before, after
<1>11. \A i \in DOMAIN inputWatches : inputWatches[i].path # path
  BY <1>3, <1>8, <1>10 DEF Watched, Joins
<1>12. /\ DOMAIN inputWatches' = DOMAIN inputWatches \cup {Len(inputWatches) + 1}
       /\ Len(inputWatches) + 1 \notin DOMAIN inputWatches
       /\ \A i \in DOMAIN inputWatches : inputWatches'[i] = inputWatches[i]
       /\ inputWatches'[Len(inputWatches) + 1] = new
  <2> DEFINE s == Append(inputWatches, w)
  <2>1. /\ DOMAIN s = DOMAIN inputWatches \cup {Len(inputWatches) + 1}
        /\ Len(inputWatches) + 1 \notin DOMAIN inputWatches
        /\ \A i \in DOMAIN inputWatches : s[i] = inputWatches[i]
        /\ s[Len(inputWatches) + 1] = w
    BY <1>2, Appended DEF TypeOK
  <2>2. inputWatches' = PointAt(s, path, r)
    BY <1>0
  <2> HIDE DEF s
  <2>3. DOMAIN inputWatches' = DOMAIN s
    BY ONLY <2>2 DEF PointAt
  <2>4. \A i \in DOMAIN s : inputWatches'[i] =
          IF s[i].path = path /\ r.config # None THEN [s[i] EXCEPT !.config = r.config] ELSE s[i]
    BY ONLY <2>2 DEF PointAt
  <2> DEFINE n == Len(inputWatches) + 1
  <2>5. n \in DOMAIN s /\ s[n] = w
    BY <2>1
  <2>6. inputWatches'[n] = IF w.path = path /\ r.config # None
                           THEN [w EXCEPT !.config = r.config] ELSE w
    BY ONLY <2>4, <2>5
  <2>7. inputWatches'[n] = new
    BY ONLY <1>4, <2>6
  <2>8. \A i \in DOMAIN inputWatches : inputWatches'[i] = inputWatches[i]
    BY ONLY <1>11, <2>1, <2>4
  <2> QED
    BY <2>1, <2>3, <2>7, <2>8
<1>13. /\ \A i \in DOMAIN after : after[i] = new \/ \E j \in DOMAIN before : after[i] = before[j]
       /\ \A j \in DOMAIN before : \E i \in DOMAIN after : after[i] = before[j]
       /\ \E i \in DOMAIN after : after[i] = new
  <2>1. configWatches' = configWatches
    BY <1>0
  <2>2. \A k \in DOMAIN inputWatches' :
          inputWatches'[k] = new \/ \E j \in DOMAIN inputWatches : inputWatches'[k] = inputWatches[j]
    BY ONLY <1>12
  <2>3. \A j \in DOMAIN inputWatches : \E k \in DOMAIN inputWatches' : inputWatches'[k] = inputWatches[j]
    BY ONLY <1>12
  <2>4. \E k \in DOMAIN inputWatches' : inputWatches'[k] = new
    BY ONLY <1>12
  <2>5. \A i \in DOMAIN after : after[i] = new \/ \E j \in DOMAIN before : after[i] = before[j]
    BY ONLY <2>1, <2>2, <1>8, <1>9 DEF Joins
  <2>6. \A j \in DOMAIN before : \E i \in DOMAIN after : after[i] = before[j]
    BY ONLY <2>1, <2>3, <1>8, <1>9 DEF Joins
  <2>7. \E i \in DOMAIN after : after[i] = new
    BY ONLY <2>4, <1>9 DEF Joins
  <2> QED
    BY <2>5, <2>6, <2>7
<1>14. Added(path, token, r)
  BY <1>1, <1>3, <1>10, <1>13 DEF Added, new
<1>15. UniqueInv'
  <2>1. configWatches' = configWatches /\ new.path = path
    BY <1>0, <1>4
  <2>2. UniqueInv
    OBVIOUS
  <2>3. \A i, j \in DOMAIN inputWatches' : inputWatches'[i].path = inputWatches'[j].path => i = j
    BY ONLY <2>1, <2>2, <1>11, <1>12 DEF UniqueInv
  <2> QED
    BY ONLY <2>1, <2>2, <2>3 DEF UniqueInv
<1> QED
  BY <1>14, <1>15 DEF r
-----------------------------------------------------------------------------
(* Steps that change neither the watches nor what is said of them. *)

LEMMA WatchesAreTyped ==
    ASSUME TypeOK, NEW i \in DOMAIN AllWatches
    PROVE  /\ i \in Nat
           /\ AllWatches[i] \in WatchType(Paths)
           /\ AllWatches[i].path \in Paths
           /\ AllWatches[i].config \in Dirs \cup {None}
           /\ Watcher(AllWatches[i]) \in Watchers
           /\ i \in 1 .. Len(AllWatches)
<1>1. AllWatches \in Seq(WatchType(Paths))
  BY WatchesType
<1>2. AllWatches[i] \in WatchType(Paths) /\ i \in 1 .. Len(AllWatches) /\ Len(AllWatches) \in Nat
  BY <1>1
<1> QED
  BY <1>2 DEF WatchType, Watcher, Watchers

LEMMA NewsAppended ==
    ASSUME TypeOK, NEW c \in WatchType(Paths), changes' = Append(changes, c)
    PROVE  /\ News' = News \cup {Watcher(c)}
           /\ DOMAIN changes' = DOMAIN changes \cup {Len(changes) + 1}
           /\ \A k \in DOMAIN changes : changes'[k] = changes[k]
           /\ changes'[Len(changes) + 1] = c
<1>1. /\ DOMAIN changes' = DOMAIN changes \cup {Len(changes) + 1}
      /\ \A k \in DOMAIN changes : changes'[k] = changes[k]
      /\ changes'[Len(changes) + 1] = c
  BY Appended DEF TypeOK
<1>2. News' = News \cup {Watcher(c)}
  BY ONLY <1>1 DEF News
<1> QED
  BY <1>1, <1>2

LEMMA NewsWhenIdle ==
    ASSUME PhaseInv, rpc = "idle"
    PROVE  News = {} /\ changes = << >>
BY DEF PhaseInv, News

LEMMA FreshUnchanged ==
    ASSUME UNCHANGED fsVars
    PROVE  FreshOf' = FreshOf
<1>1. content' = content /\ canonical' = canonical /\ directory' = directory
  BY DEF fsVars
<1> QED
  BY <1>1 DEF FreshOf, Fresh, Find, FindNamed, FindForInput, Stops, Readable, ReadError

\* What is found with no cache can be read.
LEMMA FreshOutcome ==
    ASSUME TypeOK, NEW path \in Paths
    PROVE  /\ FreshOf[path] = Fresh(path)
           /\ IsOutcome(FreshOf[path], {})
           /\ FreshOf[path].config # None =>
                FreshOf[path].config \in Dirs /\ content[FreshOf[path].config] \in Contents
<1>1. FreshOf[path] = Fresh(path)
  BY DEF FreshOf
<1>2. IsOutcome(FreshOf[path], {})
  BY <1>1, TypeOfFiles, FoundOutcome DEF Fresh
<1> QED
  BY <1>1, <1>2 DEF IsOutcome, Readable

-----------------------------------------------------------------------------
(* Adding a watch. *)

LEMMA AddedStep ==
    ASSUME IInv, TypeOK', UniqueInv', NEW path \in Paths, NEW token \in Tokens,
           NEW r, Added(path, token, r)
    PROVE  IInv'
<1> DEFINE new == Watch(path, token, r.config, r.error)
           me == <<path, token>>
<1>1. /\ rpc = "idle" /\ rpc' = "idle"
      /\ changes' = changes /\ synced' = FALSE
  BY DEF Added, refreshVars
<1>2. News = {} /\ changes = << >> /\ changes' = << >> /\ News' = {}
  <2>1. News = {} /\ changes = << >>
    BY <1>1, NewsWhenIdle DEF IInv
  <2> QED
    BY <1>1, <2>1 DEF News
<1>3. r \in Outcomes
  BY DEF Added, IsOutcome
<1>4. /\ \A d \in Dirs : loaded[d] # NotLoaded => loaded'[d] = loaded[d]
      /\ r.config # None => loaded'[r.config] # NotLoaded
  BY TypeOfFiles, LoadedAfter DEF Added, IInv, TypeOK
<1>5. /\ \A i \in DOMAIN AllWatches' :
           AllWatches'[i] = new \/ \E j \in DOMAIN AllWatches : AllWatches'[i] = AllWatches[j]
      /\ \A j \in DOMAIN AllWatches : \E i \in DOMAIN AllWatches' : AllWatches'[i] = AllWatches[j]
      /\ \E i \in DOMAIN AllWatches' : AllWatches'[i] = new
      /\ \A j \in DOMAIN AllWatches : AllWatches[j].path # path
  BY DEF Added, Watched
<1>6. told \in [Watchers -> Views] /\ me \in Watchers
  BY DEF IInv, TypeOK, Views, Watchers
<1>7. /\ told'[me].config = r.config /\ told'[me].error = r.error
      /\ r.config # None => told'[me].content = loaded'[r.config]
      /\ r.config = None => told'[me].content = NotLoaded
      /\ \A w \in Watchers : w # me => told'[w] = told[w]
  <2>1. told' = [told EXCEPT ![me] = View(r, loaded')]
    BY DEF Added
  <2> QED
    BY <1>6, <2>1 DEF View
<1>8. new.path = path /\ new.token = token /\ new.config = r.config /\ new.error = r.error
  BY DEF Watch
<1> HIDE DEF new
<1>9. PhaseInv' /\ ChangesInv' /\ FreshInv' /\ LoadedInv' /\ SyncedInv'
  BY <1>1, <1>2 DEF PhaseInv, ChangesInv, FreshInv, LoadedInv, SyncedInv
<1>10. HeldInv'
  <2>1. SUFFICES ASSUME NEW w \in Watchers, told'[w].config # None
                 PROVE  /\ loaded'[told'[w].config] # NotLoaded
                        /\ \E i \in DOMAIN AllWatches' :
                             /\ Watcher(AllWatches'[i]) = w
                             /\ AllWatches'[i].config = told'[w].config
                             /\ told'[w].content = loaded'[told'[w].config]
    BY <1>1 DEF HeldInv, Watcher
  <2>2. CASE w = me
    BY <1>4, <1>5, <1>7, <1>8, <2>1, <2>2 DEF Watcher
  <2>3. CASE w # me
    <3>1. told'[w] = told[w]
      BY <1>7, <2>3
    <3>2. PICK j \in DOMAIN AllWatches :
            /\ Watcher(AllWatches[j]) = w
            /\ AllWatches[j].config = told[w].config
            /\ told[w].content = loaded[told[w].config]
            /\ loaded[told[w].config] # NotLoaded
      BY <1>1, <1>2, <2>1, <3>1 DEF IInv, HeldInv
    <3>3. told[w].config \in Dirs
      BY <1>6, <2>1, <3>1 DEF Views
    <3>4. PICK i \in DOMAIN AllWatches' : AllWatches'[i] = AllWatches[j]
      BY <1>5
    <3>5. loaded'[told[w].config] = loaded[told[w].config]
      BY <1>4, <3>2, <3>3
    <3> QED
      BY <3>1, <3>2, <3>4, <3>5
  <2> QED
    BY <2>2, <2>3
<1>11. NewsInv'
  <2>1. SUFFICES ASSUME NEW i \in DOMAIN AllWatches', AllWatches'[i].error = NoError
                 PROVE  Told(told'[Watcher(AllWatches'[i])], AllWatches'[i])
    BY DEF NewsInv, Told, Watcher
  <2>2. CASE AllWatches'[i] = new
    BY <1>7, <1>8, <2>1, <2>2 DEF Watcher, Told
  <2>3. ASSUME NEW j \in DOMAIN AllWatches, AllWatches'[i] = AllWatches[j]
        PROVE  Told(told'[Watcher(AllWatches'[i])], AllWatches'[i])
    <3>1. Watcher(AllWatches[j]) \in Watchers
      BY WatchesAreTyped DEF IInv
    <3>2. Watcher(AllWatches[j]) # me
      BY <1>5 DEF Watcher
    <3>3. Told(told[Watcher(AllWatches[j])], AllWatches[j])
      BY <1>2, <2>1, <2>3 DEF IInv, NewsInv
    <3> QED
      BY <1>7, <2>3, <3>1, <3>2, <3>3
  <2> QED
    BY <1>5, <2>2, <2>3
<1> QED
  BY <1>9, <1>10, <1>11 DEF IInv

LEMMA WatchStep ==
    ASSUME IInv, NEW token \in Tokens,
           \/ \E path \in ConfigPaths : WatchAndLoadConfigFile(path, token)
           \/ \E path \in InputPaths : WatchAndLoadForFile(path, token)
    PROVE  IInv'
<1>1. TypeOK /\ UniqueInv
  BY DEF IInv
<1>2. ASSUME NEW path \in ConfigPaths, WatchAndLoadConfigFile(path, token)
      PROVE  IInv'
  <2>1. TypeOK'
    BY <1>1, <1>2, TypeWatchConfig
  <2>2. Added(path, token, FindNamed(path, Cached)) /\ UniqueInv'
    BY <1>1, <1>2, ConfigWatchIsAdded
  <2>3. path \in Paths
    BY DEF Paths
  <2> QED
    BY <2>1, <2>2, <2>3, AddedStep
<1>3. ASSUME NEW path \in InputPaths, WatchAndLoadForFile(path, token)
      PROVE  IInv'
  <2>1. TypeOK'
    BY <1>1, <1>3, TypeWatchInput
  <2>2. Added(path, token, FindForInput(path, Cached)) /\ UniqueInv'
    BY <1>1, <1>3, InputWatchIsAdded
  <2>3. path \in Paths
    BY DEF Paths
  <2> QED
    BY <2>1, <2>2, <2>3, AddedStep
<1> QED
  BY <1>2, <1>3

-----------------------------------------------------------------------------
(* Removing watches, and loading without one. *)

OncePerPath(watches) ==
    \A i, j \in DOMAIN watches : watches[i].path = watches[j].path => i = j

\* The watches of these paths are gone, the others are left.
Leaves(after, before, paths) ==
    /\ \A i \in DOMAIN after : \E j \in DOMAIN before :
         after[i] = before[j] /\ before[j].path \notin paths
    /\ \A j \in DOMAIN before : before[j].path \notin paths =>
         \E i \in DOMAIN after : after[i] = before[j]

LEMMA WithoutLeaves ==
    ASSUME NEW T, NEW watches \in Seq(T), NEW path, OncePerPath(watches)
    PROVE  /\ OncePerPath(Without(watches, path))
           /\ Leaves(Without(watches, path), watches, {path})
<1> DEFINE i == CHOOSE k \in DOMAIN watches : watches[k].path = path
           after == Without(watches, path)
<1>1. CASE \E k \in DOMAIN watches : watches[k].path = path
  <2>1. i \in 1 .. Len(watches) /\ watches[i].path = path
    BY <1>1
  <2>2. after = [k \in 1 .. Len(watches) - 1 |-> watches[IF k < i THEN k ELSE k + 1]]
    BY <1>1 DEF Without
  <2> HIDE DEF i, after
  <2>3. DOMAIN watches = 1 .. Len(watches) /\ Len(watches) \in Nat
    OBVIOUS
  <2>4. /\ DOMAIN after = 1 .. Len(watches) - 1
        /\ \A k \in DOMAIN after : after[k] = watches[IF k < i THEN k ELSE k + 1]
    BY <2>2
  <2>5. ASSUME NEW k \in DOMAIN after
        PROVE  \E j \in DOMAIN watches :
                 /\ j = IF k < i THEN k ELSE k + 1
                 /\ after[k] = watches[j] /\ j # i /\ watches[j].path # path
    <3> DEFINE j == IF k < i THEN k ELSE k + 1
    <3>1. j \in DOMAIN watches /\ j # i /\ after[k] = watches[j]
      BY <2>1, <2>3, <2>4
    <3> HIDE DEF j
    <3>2. watches[j].path # path
      BY <2>1, <2>3, <3>1 DEF OncePerPath
    <3> QED
      BY <3>1, <3>2 DEF j
  <2>6. ASSUME NEW j \in DOMAIN watches, watches[j].path # path
        PROVE  \E k \in DOMAIN after : after[k] = watches[j]
    <3> DEFINE k == IF j < i THEN j ELSE j - 1
    <3>1. j # i
      BY <2>1, <2>6
    <3>2. k \in DOMAIN after /\ j = IF k < i THEN k ELSE k + 1
      BY <2>1, <2>3, <2>4, <3>1
    <3> HIDE DEF k
    <3> QED
      BY <2>4, <3>2
  <2>7. Leaves(after, watches, {path})
    <3>1. \A k \in DOMAIN after : \E j \in DOMAIN watches :
            after[k] = watches[j] /\ watches[j].path # path
      BY <2>5
    <3> QED
      BY <2>6, <3>1 DEF Leaves
  <2>8. ASSUME NEW k \in DOMAIN after, NEW l \in DOMAIN after, after[k].path = after[l].path
        PROVE  k = l
    <3>1. PICK j \in DOMAIN watches : j = (IF k < i THEN k ELSE k + 1) /\ after[k] = watches[j]
      BY <2>5
    <3>2. PICK m \in DOMAIN watches : m = (IF l < i THEN l ELSE l + 1) /\ after[l] = watches[m]
      BY <2>5
    <3>3. j = m
      BY <2>8, <3>1, <3>2 DEF OncePerPath
    <3>4. k \in Int /\ l \in Int /\ i \in Int
      BY <2>1, <2>4
    <3> QED
      BY <3>1, <3>2, <3>3, <3>4
  <2> QED
    BY <2>7, <2>8 DEF OncePerPath, after
<1>2. CASE ~\E k \in DOMAIN watches : watches[k].path = path
  <2>1. after = watches
    BY <1>2 DEF Without
  <2> HIDE DEF after
  <2>2. Leaves(after, watches, {path}) /\ OncePerPath(after)
    BY <1>2, <2>1 DEF Leaves
  <2> QED
    BY <2>2 DEF after
<1> QED
  BY <1>1, <1>2

LEMMA JoinedLeaves ==
    ASSUME NEW paths,
           NEW s, NEW t, NEW c, Joins(c, s, t), NEW ss, NEW tt, NEW cc, Joins(cc, ss, tt),
           Leaves(ss, s, paths), Leaves(tt, t, paths)
    PROVE  Leaves(cc, c, paths)
BY DEF Joins, Leaves

\* The watches of these paths were removed, and their watchers forget.
Removed(paths) ==
    /\ rpc = "idle"
    /\ Leaves(AllWatches', AllWatches, paths)
    /\ told' = Forget(paths)
    /\ UNCHANGED <<fsVars, loaded, refreshVars, races, synced>>

LEMMA WatchIsRemoved ==
    ASSUME TypeOK, UniqueInv, TypeOK', NEW path \in Paths, UnwatchFile(path)
    PROVE  Removed({path}) /\ UniqueInv'
<1>1. /\ configWatches' = Without(configWatches, path)
      /\ inputWatches' = Without(inputWatches, path)
      /\ rpc = "idle" /\ told' = Forget({path})
      /\ UNCHANGED <<fsVars, loaded, refreshVars, races, synced>>
  BY DEF UnwatchFile
<1>2. Typed(configWatches, inputWatches) /\ Typed(configWatches', inputWatches')
  BY DEF TypeOK, Typed
<1>3. /\ configWatches \in Seq(WatchType(Paths)) /\ inputWatches \in Seq(WatchType(Paths))
      /\ configWatches' \in Seq(WatchType(Paths)) /\ inputWatches' \in Seq(WatchType(Paths))
  BY <1>2, JoinedWatches
<1>4. OncePerPath(configWatches) /\ OncePerPath(inputWatches)
  BY DEF UniqueInv, OncePerPath
<1>5. /\ OncePerPath(configWatches') /\ Leaves(configWatches', configWatches, {path})
      /\ OncePerPath(inputWatches') /\ Leaves(inputWatches', inputWatches, {path})
  BY <1>1, <1>3, <1>4, WithoutLeaves
<1>6. /\ Joins(AllWatches, configWatches, inputWatches)
      /\ Joins(AllWatches', configWatches', inputWatches')
  BY <1>3, JoinedElements DEF AllWatches
<1>7. Leaves(AllWatches', AllWatches, {path})
  BY <1>5, <1>6, JoinedLeaves
<1>8. UniqueInv'
  BY <1>5 DEF UniqueInv, OncePerPath
<1> QED
  BY <1>1, <1>7, <1>8 DEF Removed

LEMMA AllAreRemoved ==
    ASSUME TypeOK, UnwatchAllFiles
    PROVE  Removed(Paths) /\ UniqueInv'
<1>1. AllWatches' = << >> /\ configWatches' = << >> /\ inputWatches' = << >>
  BY DEF UnwatchAllFiles, AllWatches
<1>2. \A j \in DOMAIN AllWatches : AllWatches[j].path \in Paths
  BY WatchesAreTyped
<1>3. Leaves(AllWatches', AllWatches, Paths)
  BY <1>1, <1>2 DEF Leaves
<1>4. UniqueInv'
  BY <1>1 DEF UniqueInv
<1> QED
  BY <1>3, <1>4 DEF Removed, UnwatchAllFiles

LEMMA RemovedStep ==
    ASSUME IInv, TypeOK', UniqueInv', NEW paths, Removed(paths)
    PROVE  IInv'
<1>1. /\ rpc = "idle" /\ rpc' = "idle" /\ changes' = changes /\ loaded' = loaded
      /\ synced' = synced /\ content' = content /\ FreshOf' = FreshOf
  BY FreshUnchanged DEF Removed, refreshVars, fsVars
<1>2. News = {} /\ changes = << >> /\ changes' = << >> /\ News' = {}
  <2>1. News = {} /\ changes = << >>
    BY <1>1, NewsWhenIdle DEF IInv
  <2> QED
    BY <1>1, <2>1 DEF News
<1>3. told \in [Watchers -> Views]
  BY DEF IInv, TypeOK, Views
<1>4. \A w \in Watchers : told'[w] = IF w[1] \in paths THEN Untold ELSE told[w]
  BY DEF Removed, Forget
<1>5. PhaseInv' /\ ChangesInv' /\ FreshInv' /\ LoadedInv'
  BY <1>1, <1>2 DEF PhaseInv, ChangesInv, FreshInv, LoadedInv
<1>6. ASSUME NEW i \in DOMAIN AllWatches'
      PROVE  \E j \in DOMAIN AllWatches :
               /\ AllWatches'[i] = AllWatches[j]
               /\ told'[Watcher(AllWatches[j])] = told[Watcher(AllWatches[j])]
  <2>1. PICK j \in DOMAIN AllWatches :
          AllWatches'[i] = AllWatches[j] /\ AllWatches[j].path \notin paths
    BY <1>6 DEF Removed, Leaves
  <2>2. Watcher(AllWatches[j]) \in Watchers
    BY WatchesAreTyped DEF IInv
  <2>3. told'[Watcher(AllWatches[j])] = told[Watcher(AllWatches[j])]
    BY <1>4, <2>1, <2>2 DEF Watcher
  <2> QED
    BY <2>1, <2>3
<1>7. HeldInv'
  <2>1. SUFFICES ASSUME NEW w \in Watchers, told'[w].config # None
                 PROVE  /\ loaded'[told'[w].config] # NotLoaded
                        /\ \E i \in DOMAIN AllWatches' :
                             /\ Watcher(AllWatches'[i]) = w
                             /\ AllWatches'[i].config = told'[w].config
                             /\ told'[w].content = loaded'[told'[w].config]
    BY <1>1 DEF HeldInv, Watcher
  <2>2. w[1] \notin paths /\ told'[w] = told[w]
    BY <1>4, <2>1 DEF Untold
  <2>3. PICK j \in DOMAIN AllWatches :
          /\ Watcher(AllWatches[j]) = w
          /\ AllWatches[j].config = told[w].config
          /\ told[w].content = loaded[told[w].config]
          /\ loaded[told[w].config] # NotLoaded
    BY <1>1, <1>2, <2>1, <2>2 DEF IInv, HeldInv
  <2>4. AllWatches[j].path \notin paths
    BY <2>2, <2>3 DEF Watcher
  <2>5. PICK i \in DOMAIN AllWatches' : AllWatches'[i] = AllWatches[j]
    BY <2>4 DEF Removed, Leaves
  <2> QED
    BY <1>1, <2>2, <2>3, <2>5
<1>8. NewsInv'
  <2>1. SUFFICES ASSUME NEW i \in DOMAIN AllWatches', AllWatches'[i].error = NoError
                 PROVE  Told(told'[Watcher(AllWatches'[i])], AllWatches'[i])
    BY DEF NewsInv, Told, Watcher
  <2>2. PICK j \in DOMAIN AllWatches :
          /\ AllWatches'[i] = AllWatches[j]
          /\ told'[Watcher(AllWatches[j])] = told[Watcher(AllWatches[j])]
    BY <1>6
  <2> QED
    BY <1>2, <2>1, <2>2 DEF IInv, NewsInv
<1>9. SyncedInv'
  <2>1. SUFFICES ASSUME synced, NEW i \in DOMAIN AllWatches',
                        FreshOf[AllWatches'[i].path].error = NoError
                 PROVE  told'[Watcher(AllWatches'[i])] =
                            View(FreshOf[AllWatches'[i].path], content)
    BY <1>1 DEF SyncedInv, View, Watcher
  <2>2. PICK j \in DOMAIN AllWatches :
          /\ AllWatches'[i] = AllWatches[j]
          /\ told'[Watcher(AllWatches[j])] = told[Watcher(AllWatches[j])]
    BY <1>6
  <2> QED
    BY <2>1, <2>2 DEF IInv, SyncedInv
<1> QED
  BY <1>5, <1>7, <1>8, <1>9 DEF IInv

LEMMA UnwatchStep ==
    ASSUME IInv, (\E path \in Paths : UnwatchFile(path)) \/ UnwatchAllFiles
    PROVE  IInv'
<1>1. TypeOK /\ UniqueInv /\ TypeOK'
  BY TypeUnwatch DEF IInv
<1>2. ASSUME NEW path \in Paths, UnwatchFile(path) PROVE IInv'
  BY <1>1, <1>2, WatchIsRemoved, RemovedStep
<1>3. CASE UnwatchAllFiles
  BY <1>1, <1>3, AllAreRemoved, RemovedStep
<1> QED
  BY <1>2, <1>3

\* load_for_file changes no watch: a watched path is not loaded otherwise.
LEMMA LoadStep ==
    ASSUME IInv, NEW path \in Paths, LoadForFile(path)
    PROVE  IInv'
<1> DEFINE r == Find(path, Cached)
<1>1. TypeOK /\ UniqueInv /\ TypeOK'
  BY TypeLoad DEF IInv
<1>2. /\ rpc = "idle" /\ rpc' = "idle" /\ changes' = changes /\ told' = told
      /\ synced' = FALSE /\ configWatches' = configWatches
  BY DEF LoadForFile, MayUse, refreshVars
<1>3. inputWatches' = inputWatches
  <2>1. inputWatches' = PointAt(inputWatches, path, r) /\ ~Watched(path)
    BY DEF LoadForFile, MayUse
  <2>2. /\ inputWatches \in Seq(WatchType(Paths)) /\ configWatches \in Seq(WatchType(Paths))
    BY <1>1, JoinedWatches DEF TypeOK, Typed
  <2>3. Joins(AllWatches, configWatches, inputWatches)
    BY <2>2, JoinedElements DEF AllWatches
  <2>4. \A i \in DOMAIN inputWatches : inputWatches[i].path # path
    BY <2>1, <2>3 DEF Joins, Watched
  <2>5. inputWatches' = [i \in DOMAIN inputWatches |-> inputWatches[i]]
    BY <2>1, <2>4 DEF PointAt
  <2> QED
    BY <2>2, <2>5
<1>4. AllWatches' = AllWatches
  BY <1>2, <1>3 DEF AllWatches
<1>5. \A d \in Dirs : loaded[d] # NotLoaded => loaded'[d] = loaded[d]
  <2>1. IsOutcome(r, Cached) /\ Files
    BY <1>1, TypeOfFiles, FoundOutcome
  <2>2. loaded' = WithLoaded(r)
    BY DEF LoadForFile
  <2> QED
    BY <1>1, <2>1, <2>2, LoadedAfter DEF TypeOK
<1>6. News = {} /\ changes = << >> /\ News' = {}
  <2>1. News = {} /\ changes = << >>
    BY <1>2, NewsWhenIdle DEF IInv
  <2> QED
    BY <1>2, <2>1 DEF News
<1>7. UniqueInv'
  BY <1>1, <1>2, <1>3 DEF UniqueInv
<1>8. PhaseInv' /\ ChangesInv' /\ FreshInv' /\ LoadedInv' /\ SyncedInv'
  BY <1>2, <1>6 DEF PhaseInv, ChangesInv, FreshInv, LoadedInv, SyncedInv
<1>9. HeldInv'
  <2>1. SUFFICES ASSUME NEW w \in Watchers, told[w].config # None
                 PROVE  /\ loaded'[told[w].config] # NotLoaded
                        /\ \E i \in DOMAIN AllWatches :
                             /\ Watcher(AllWatches[i]) = w
                             /\ AllWatches[i].config = told[w].config
                             /\ told[w].content = loaded'[told[w].config]
    BY <1>2, <1>4 DEF HeldInv, Watcher
  <2>2. told[w].config \in Dirs
    BY <1>1, <2>1 DEF TypeOK
  <2>3. PICK j \in DOMAIN AllWatches :
          /\ Watcher(AllWatches[j]) = w
          /\ AllWatches[j].config = told[w].config
          /\ told[w].content = loaded[told[w].config]
          /\ loaded[told[w].config] # NotLoaded
    BY <1>2, <1>6, <2>1 DEF IInv, HeldInv
  <2> QED
    BY <1>5, <2>2, <2>3
<1>10. NewsInv'
  BY <1>2, <1>4, <1>6 DEF IInv, NewsInv, Told, Watcher
<1> QED
  BY <1>1, <1>7, <1>8, <1>9, <1>10 DEF IInv
-----------------------------------------------------------------------------
(* Steps of refresh(). *)

\* What holds on by itself when watches, cache, changes and files stay.
LEMMA Kept ==
    ASSUME IInv, UNCHANGED <<fsVars, watchVars, loaded, changes, told, synced>>
    PROVE  /\ AllWatches' = AllWatches /\ News' = News
           /\ FreshOf' = FreshOf /\ content' = content
           /\ UniqueInv' /\ NewsInv' /\ SyncedInv'
<1>1. /\ configWatches' = configWatches /\ inputWatches' = inputWatches
      /\ loaded' = loaded /\ changes' = changes /\ told' = told /\ synced' = synced
      /\ content' = content /\ UNCHANGED fsVars
  BY DEF fsVars, watchVars
<1>2. AllWatches' = AllWatches /\ News' = News /\ FreshOf' = FreshOf
  BY <1>1, FreshUnchanged DEF AllWatches, News
<1>3. UniqueInv'
  BY <1>1 DEF IInv, UniqueInv
<1>4. NewsInv'
  BY <1>1, <1>2 DEF IInv, NewsInv, Told, Watcher
<1>5. SyncedInv'
  BY <1>1, <1>2 DEF IInv, SyncedInv, Watcher, View
<1> QED
  BY <1>1, <1>2, <1>3, <1>4, <1>5

LEMMA BeginRefreshStep ==
    ASSUME IInv, BeginRefresh
    PROVE  IInv'
<1>1. TypeOK'
  BY TypeRefresh DEF IInv, RefreshNext
<1>2. changes = << >> /\ News = {}
  BY NewsWhenIdle DEF IInv, BeginRefresh
<1>3. /\ rpc = "idle" /\ rpc' = "watches" /\ at' = 1 /\ changes' = changes /\ changes' = << >>
      /\ loaded' = loaded /\ told' = told
      /\ UNCHANGED <<fsVars, watchVars, loaded, changes, told, synced>>
  BY <1>2 DEF BeginRefresh
<1>4. /\ AllWatches' = AllWatches /\ News' = News
      /\ UniqueInv' /\ NewsInv' /\ SyncedInv'
  BY <1>3, Kept
<1>5. PhaseInv' /\ ChangesInv' /\ LoadedInv'
  BY <1>3 DEF PhaseInv, ChangesInv, LoadedInv
<1>6. HeldInv'
  BY <1>3, <1>4 DEF IInv, HeldInv, Watcher
<1>7. FreshInv'
  <2>1. \A i \in DOMAIN AllWatches : ~(i < 1)
    BY WatchesAreTyped DEF IInv
  <2> QED
    BY <1>3, <1>4, <2>1 DEF FreshInv
<1> QED
  BY <1>1, <1>4, <1>5, <1>6, <1>7 DEF IInv

LEMMA BeginReloadStep ==
    ASSUME IInv, BeginReload
    PROVE  IInv'
<1>1. TypeOK'
  BY TypeRefresh DEF IInv, RefreshNext
<1>2. /\ rpc = "watches" /\ rpc' = "reload" /\ at' = at /\ changes' = changes /\ races' = races
      /\ loaded' = loaded /\ told' = told /\ unread' = Cached /\ content' = content
      /\ UNCHANGED <<fsVars, watchVars, loaded, changes, told, synced>>
  BY DEF BeginReload, fsVars
<1>3. /\ AllWatches' = AllWatches /\ News' = News /\ FreshOf' = FreshOf
      /\ UniqueInv' /\ NewsInv' /\ SyncedInv'
  BY <1>2, Kept
<1>4. PhaseInv'
  BY <1>2 DEF PhaseInv
<1>5. ChangesInv'
  BY <1>2, <1>3 DEF IInv, ChangesInv, Says, Watcher
<1>6. HeldInv'
  BY <1>2, <1>3 DEF IInv, HeldInv, Watcher
<1>7. FreshInv'
  <2>1. \A i \in DOMAIN AllWatches : i < at
    <3>1. at > Len(AllWatches) /\ at \in Nat /\ Len(AllWatches) \in Nat
      BY WatchesType DEF IInv, TypeOK, BeginReload
    <3> QED
      BY <3>1, WatchesAreTyped DEF IInv
  <2> QED
    BY <1>2, <1>3, <2>1 DEF IInv, FreshInv, UpToDate
<1>8. LoadedInv'
  BY <1>2 DEF LoadedInv, Cached
<1> QED
  BY <1>1, <1>3, <1>4, <1>5, <1>6, <1>7, <1>8 DEF IInv

LEMMA EndTellStep ==
    ASSUME IInv, EndTell
    PROVE  IInv'
<1>1. TypeOK'
  BY TypeRefresh DEF IInv, RefreshNext
<1>2. /\ rpc = "tell" /\ rpc' = "reload" /\ at' = at /\ changes' = changes /\ races' = races
      /\ loaded' = loaded /\ told' = told /\ unread' = unread /\ content' = content
      /\ UNCHANGED <<fsVars, watchVars, loaded, changes, told, synced>>
  BY DEF EndTell, fsVars
<1>3. /\ AllWatches' = AllWatches /\ News' = News /\ FreshOf' = FreshOf
      /\ UniqueInv' /\ NewsInv' /\ SyncedInv'
  BY <1>2, Kept
<1>4. PhaseInv'
  BY <1>2 DEF PhaseInv
<1>5. ChangesInv'
  BY <1>2, <1>3 DEF IInv, ChangesInv, Says, Watcher
<1>6. HeldInv'
  <2>1. \A i \in DOMAIN AllWatches : ~(at <= i)
    <3>1. at > Len(AllWatches) /\ at \in Nat /\ Len(AllWatches) \in Nat
      BY WatchesType DEF IInv, TypeOK, EndTell
    <3> QED
      BY <3>1, WatchesAreTyped DEF IInv
  <2> QED
    BY <1>2, <1>3, <2>1 DEF IInv, HeldInv, Watcher
<1>7. FreshInv' /\ LoadedInv'
  BY <1>2, <1>3 DEF IInv, FreshInv, LoadedInv, UpToDate
<1> QED
  BY <1>1, <1>3, <1>4, <1>5, <1>6, <1>7 DEF IInv

\* The watch at `at' is looked at again, whichever of the two sequences it is in.
Visited ==
    LET w == AllWatches[at]
        r == FreshOf[w.path]
    IN /\ rpc = "watches"
       /\ at \in DOMAIN AllWatches
       /\ DOMAIN AllWatches' = DOMAIN AllWatches
       /\ \A i \in DOMAIN AllWatches :
            AllWatches'[i] = IF i = at THEN Updated(w, r) ELSE AllWatches[i]
       /\ RefreshWatch(w, r)

LEMMA UpdatedWatch ==
    ASSUME NEW w \in WatchType(Paths), NEW r \in Outcomes
    PROVE  /\ Updated(w, r).path = w.path
           /\ Watcher(Updated(w, r)) = Watcher(w)
           /\ ~Differs(w, r) => Updated(w, r) = w
           /\ UpToDate(Updated(w, r), r)
<1>1. Updated(w, r).path = w.path /\ Updated(w, r).token = w.token
  BY DEF Updated, WatchType
<1>2. ASSUME ~Differs(w, r) PROVE Updated(w, r) = w
  <2>1. CASE r.error # NoError
    BY <1>2, <2>1 DEF Differs, Updated, WatchType
  <2>2. CASE r.error = NoError
    BY <1>2, <2>2 DEF Differs, Updated, WatchType
  <2> QED
    BY <2>1, <2>2
<1>3. UpToDate(Updated(w, r), r)
  BY DEF UpToDate, Updated, WatchType
<1> QED
  BY <1>1, <1>2, <1>3 DEF Watcher

LEMMA ConfigWatchIsVisited ==
    ASSUME TypeOK, UniqueInv, RefreshConfigWatch
    PROVE  Visited /\ UniqueInv'
<1> DEFINE w == configWatches[at]
           r == FindNamed(w.path, {})
           n == Len(configWatches)
<1>1. /\ rpc = "watches" /\ at \in DOMAIN configWatches /\ RefreshWatch(w, r)
      /\ configWatches' = [configWatches EXCEPT ![at] = Updated(w, r)]
      /\ inputWatches' = inputWatches
  BY DEF RefreshConfigWatch
<1>2. /\ \A k \in DOMAIN configWatches : configWatches[k].path \in ConfigPaths
      /\ configWatches \in Seq(WatchType(Paths)) /\ inputWatches \in Seq(WatchType(Paths))
  BY JoinedWatches DEF TypeOK, Typed
<1>3. w \in WatchType(Paths) /\ w.path \in ConfigPaths /\ w.path \in Paths
  BY <1>1, <1>2 DEF Paths
<1>4. IsOutcome(r, {}) /\ r \in Outcomes
  BY <1>3, TypeOfFiles, NamedOutcome DEF IsOutcome
<1>5. r = FreshOf[w.path]
  BY <1>3 DEF FreshOf, Fresh, Find
<1>6. Updated(w, r) \in WatchType(Paths) /\ Updated(w, r).path = w.path
  BY <1>3, <1>4, UpdatedIsTyped, UpdatedWatch
<1> DEFINE u == Updated(w, r)
<1>7. /\ u \in WatchType(Paths) /\ u.path = w.path
      /\ configWatches' = [configWatches EXCEPT ![at] = u]
  BY <1>1, <1>6
<1> HIDE DEF r, u
<1>8. configWatches' \in Seq(WatchType(Paths)) /\ Len(configWatches') = n
      /\ DOMAIN configWatches' = DOMAIN configWatches
      /\ \A k \in DOMAIN configWatches :
           configWatches'[k] = IF k = at THEN u ELSE configWatches[k]
  BY <1>1, <1>2, <1>7, ExceptType
<1>9. UniqueInv'
  BY <1>1, <1>7, <1>8 DEF UniqueInv
<1>10. /\ DOMAIN AllWatches = 1 .. n + Len(inputWatches)
       /\ DOMAIN AllWatches' = 1 .. n + Len(inputWatches)
       /\ \A k \in DOMAIN AllWatches :
            \/ /\ k \in DOMAIN configWatches /\ AllWatches[k] = configWatches[k]
               /\ AllWatches'[k] = configWatches'[k]
            \/ /\ k \notin DOMAIN configWatches /\ AllWatches[k] = inputWatches[k - n]
               /\ AllWatches'[k] = inputWatches[k - n]
       /\ at \in DOMAIN AllWatches
  BY <1>1, <1>2, <1>8, Joined DEF AllWatches
<1>11. AllWatches[at] = w
  BY <1>1, <1>10
<1>12. \A k \in DOMAIN AllWatches :
         AllWatches'[k] = IF k = at THEN u ELSE AllWatches[k]
  BY <1>1, <1>8, <1>10
<1>13. Visited
  BY <1>1, <1>5, <1>10, <1>11, <1>12 DEF Visited, u
<1> QED
  BY <1>9, <1>13

LEMMA InputWatchIsVisited ==
    ASSUME TypeOK, UniqueInv, RefreshInputWatch
    PROVE  Visited /\ UniqueInv'
<1> DEFINE n == Len(configWatches)
           j == at - n
           w == inputWatches[j]
           r == FindForInput(w.path, {})
<1>1. /\ rpc = "watches" /\ j \in DOMAIN inputWatches /\ RefreshWatch(w, r)
      /\ inputWatches' = [inputWatches EXCEPT ![j] = Updated(w, r)]
      /\ configWatches' = configWatches
  BY DEF RefreshInputWatch
<1>2. /\ \A k \in DOMAIN inputWatches : inputWatches[k].path \in InputPaths
      /\ configWatches \in Seq(WatchType(Paths)) /\ inputWatches \in Seq(WatchType(Paths))
  BY JoinedWatches DEF TypeOK, Typed
<1>3. w \in WatchType(Paths) /\ w.path \in InputPaths /\ w.path \in Paths /\ w.path \notin ConfigPaths
  BY <1>1, <1>2, LoaderAssumption DEF Paths
<1>4. IsOutcome(r, {}) /\ r \in Outcomes
  BY <1>3, TypeOfFiles, InputOutcome DEF IsOutcome
<1>5. r = FreshOf[w.path]
  BY <1>3 DEF FreshOf, Fresh, Find
<1>6. Updated(w, r) \in WatchType(Paths) /\ Updated(w, r).path = w.path
  BY <1>3, <1>4, UpdatedIsTyped, UpdatedWatch
<1> DEFINE u == Updated(w, r)
<1>7. /\ u \in WatchType(Paths) /\ u.path = w.path
      /\ inputWatches' = [inputWatches EXCEPT ![j] = u]
  BY <1>1, <1>6
<1> HIDE DEF r, u, w
<1>8. /\ inputWatches' \in Seq(WatchType(Paths)) /\ Len(inputWatches') = Len(inputWatches)
      /\ DOMAIN inputWatches' = DOMAIN inputWatches
      /\ \A k \in DOMAIN inputWatches :
           inputWatches'[k] = IF k = j THEN u ELSE inputWatches[k]
  BY <1>1, <1>2, <1>7, ExceptType
<1>9. UniqueInv'
  BY <1>1, <1>7, <1>8 DEF UniqueInv, w
<1>10. n \in Nat /\ at \in Int /\ j \in Int /\ at = n + j
  BY <1>2 DEF TypeOK
<1>11. /\ DOMAIN AllWatches = 1 .. n + Len(inputWatches)
       /\ DOMAIN AllWatches' = 1 .. n + Len(inputWatches)
       /\ \A k \in DOMAIN AllWatches :
            \/ /\ k \in DOMAIN configWatches /\ AllWatches[k] = configWatches[k]
               /\ AllWatches'[k] = configWatches[k]
            \/ /\ k \notin DOMAIN configWatches /\ k - n \in DOMAIN inputWatches
               /\ AllWatches[k] = inputWatches[k - n]
               /\ AllWatches'[k] = inputWatches'[k - n]
       /\ at \in DOMAIN AllWatches /\ at \notin DOMAIN configWatches
  BY <1>1, <1>2, <1>8, <1>10, Joined DEF AllWatches
<1>12. AllWatches[at] = w
  BY <1>10, <1>11 DEF w
<1>13. \A k \in DOMAIN AllWatches :
         AllWatches'[k] = IF k = at THEN u ELSE AllWatches[k]
  BY <1>8, <1>10, <1>11
<1>14. Visited
  BY <1>1, <1>5, <1>11, <1>12, <1>13 DEF Visited, u
<1> QED
  BY <1>9, <1>14

LEMMA VisitStep ==
    ASSUME IInv, TypeOK', UniqueInv', Visited
    PROVE  IInv'
<1> DEFINE w == AllWatches[at]
           r == FreshOf[w.path]
           u == Updated(w, r)
           c == Change(w, r)
<1>1. /\ rpc = "watches" /\ rpc' = "watches" /\ at \in DOMAIN AllWatches /\ at' = at + 1
      /\ races' = races /\ told' = told /\ synced' = synced
      /\ content' = content /\ UNCHANGED fsVars
      /\ changes' = IF Differs(w, r) THEN Append(changes, c) ELSE changes
      /\ loaded' = IF Differs(w, r) THEN WithLoaded(r) ELSE loaded
      /\ DOMAIN AllWatches' = DOMAIN AllWatches
      /\ \A i \in DOMAIN AllWatches : AllWatches'[i] = IF i = at THEN u ELSE AllWatches[i]
  BY DEF Visited, RefreshWatch, fsVars
<1>2. TypeOK /\ at \in Nat /\ w \in WatchType(Paths) /\ w.path \in Paths /\ Watcher(w) \in Watchers
  BY <1>1, WatchesAreTyped DEF IInv
<1>3. r \in Outcomes /\ IsOutcome(r, {})
  BY <1>2, FreshOutcome DEF IsOutcome
<1>4. c \in WatchType(Paths) /\ Watcher(c) = Watcher(w) /\ c.config = r.config /\ c.error = r.error
  BY <1>2, <1>3, ChangeIsTyped DEF Change, Watcher
<1>5. /\ u.path = w.path /\ Watcher(u) = Watcher(w)
      /\ ~Differs(w, r) => u = w
      /\ UpToDate(u, r)
  BY <1>2, <1>3, UpdatedWatch
<1>6. FreshOf' = FreshOf
  BY <1>1, FreshUnchanged
<1>7. /\ \A d \in Dirs : loaded[d] # NotLoaded => loaded'[d] = loaded[d]
      /\ Differs(w, r) /\ r.config # None => loaded'[r.config] # NotLoaded
  <2>1. Files /\ loaded \in [Dirs -> Contents \cup {NotLoaded}] /\ {} \subseteq Cached
    BY <1>2, TypeOfFiles DEF TypeOK
  <2>2. /\ \A d \in Dirs : loaded[d] # NotLoaded => WithLoaded(r)[d] = loaded[d]
        /\ r.config # None => WithLoaded(r)[r.config] # NotLoaded
    BY <1>3, <2>1, LoadedAfter
  <2> QED
    BY <1>1, <2>2
<1>8. /\ News \subseteq News'
      /\ Differs(w, r) => Watcher(w) \in News'
  <2>1. CASE Differs(w, r)
    BY <1>1, <1>2, <1>4, <2>1, NewsAppended
  <2>2. CASE ~Differs(w, r)
    BY <1>1, <2>2 DEF News
  <2> QED
    BY <2>1, <2>2
<1> HIDE DEF u, c
<1>9. PhaseInv' /\ LoadedInv'
  BY <1>1 DEF PhaseInv, LoadedInv
<1>10. HeldInv'
  <2>1. SUFFICES ASSUME NEW x \in Watchers, x \notin News', told[x].config # None
                 PROVE  /\ loaded'[told[x].config] # NotLoaded
                        /\ \E i \in DOMAIN AllWatches' :
                             /\ Watcher(AllWatches'[i]) = x
                             /\ AllWatches'[i].config = told[x].config
                             /\ told[x].content = loaded'[told[x].config]
    BY <1>1 DEF HeldInv, Watcher
  <2>2. PICK j \in DOMAIN AllWatches :
          /\ Watcher(AllWatches[j]) = x
          /\ AllWatches[j].config = told[x].config
          /\ told[x].content = loaded[told[x].config]
          /\ loaded[told[x].config] # NotLoaded
    BY <1>1, <1>8, <2>1 DEF IInv, HeldInv
  <2>3. told[x].config \in Dirs
    BY <1>2, <2>1 DEF TypeOK
  <2>4. AllWatches'[j] = AllWatches[j]
    <3>1. j = at => u = AllWatches[j]
      BY <1>5, <1>8, <2>1, <2>2
    <3> QED
      BY <1>1, <3>1
  <2> QED
    BY <1>1, <1>7, <2>2, <2>3, <2>4
<1>11. NewsInv'
  <2>1. SUFFICES ASSUME NEW i \in DOMAIN AllWatches, AllWatches'[i].error = NoError,
                        Watcher(AllWatches'[i]) \notin News'
                 PROVE  Told(told[Watcher(AllWatches'[i])], AllWatches'[i])
    BY <1>1 DEF NewsInv, Told, Watcher
  <2>2. AllWatches'[i] = AllWatches[i]
    <3>1. i = at => AllWatches'[i] = u
      BY <1>1
    <3>2. i = at => u = AllWatches[i]
      BY <1>5, <1>8, <2>1, <3>1
    <3> QED
      BY <1>1, <3>1, <3>2
  <2> QED
    BY <1>8, <2>1, <2>2 DEF IInv, NewsInv
<1>12. FreshInv'
  <2>1. SUFFICES ASSUME races = 0, NEW i \in DOMAIN AllWatches, i < at + 1
                 PROVE  UpToDate(AllWatches'[i], FreshOf[AllWatches'[i].path])
    BY <1>1, <1>6 DEF FreshInv, UpToDate
  <2>2. CASE i = at
    BY <1>1, <1>5, <2>2
  <2>3. CASE i # at
    <3>1. i < at
      BY <1>2, <2>1, <2>3, WatchesAreTyped
    <3>2. UpToDate(AllWatches[i], FreshOf[AllWatches[i].path])
      BY <1>1, <2>1, <3>1 DEF IInv, FreshInv
    <3> QED
      BY <1>1, <2>3, <3>2
  <2> QED
    BY <2>2, <2>3
<1>13. SyncedInv'
  <2>1. ASSUME NEW i \in DOMAIN AllWatches
        PROVE  /\ AllWatches'[i].path = AllWatches[i].path
               /\ Watcher(AllWatches'[i]) = Watcher(AllWatches[i])
    BY <1>1, <1>5
  <2>2. SUFFICES ASSUME synced, NEW i \in DOMAIN AllWatches,
                        FreshOf[AllWatches'[i].path].error = NoError
                 PROVE  told[Watcher(AllWatches'[i])] =
                            View(FreshOf[AllWatches'[i].path], content)
    BY <1>1, <1>6 DEF SyncedInv, View, Watcher
  <2> QED
    BY <2>1, <2>2 DEF IInv, SyncedInv
<1>14. ChangesInv'
  <2>1. ASSUME NEW k \in DOMAIN changes
        PROVE  /\ changes[k].config # None => loaded'[changes[k].config] # NotLoaded
               /\ \E i \in DOMAIN AllWatches' :
                    Says(changes[k], AllWatches'[i]) /\ i < at'
    <3>1. changes[k].config \in Dirs \cup {None}
      <4>1. changes[k] \in WatchType(Paths)
        BY <1>2 DEF TypeOK
      <4> QED
        BY <4>1 DEF WatchType
    <3>2. changes[k].config # None => loaded[changes[k].config] # NotLoaded
      BY DEF IInv, ChangesInv
    <3>3. PICK i \in DOMAIN AllWatches : Says(changes[k], AllWatches[i]) /\ i < at
      BY <1>1 DEF IInv, ChangesInv
    <3>4. i # at /\ i < at + 1
      BY <1>2, <3>3, WatchesAreTyped
    <3>5. AllWatches'[i] = AllWatches[i]
      BY <1>1, <3>4
    <3> QED
      BY <1>1, <1>7, <3>1, <3>2, <3>3, <3>4, <3>5
  <2>2. CASE ~Differs(w, r)
    <3>1. changes' = changes
      BY <1>1, <2>2
    <3> QED
      BY <2>1, <3>1 DEF ChangesInv, Says, Watcher
  <2>3. CASE Differs(w, r)
    <3>1. /\ DOMAIN changes' = DOMAIN changes \cup {Len(changes) + 1}
          /\ \A k \in DOMAIN changes : changes'[k] = changes[k]
          /\ changes'[Len(changes) + 1] = c
      BY <1>1, <1>2, <1>4, <2>3, NewsAppended
    <3>2. /\ c.config # None => loaded'[c.config] # NotLoaded
          /\ Says(c, u)
      <4>1. c.config # None => loaded'[c.config] # NotLoaded
        BY <1>4, <1>7, <2>3
      <4>2. r.config # None => r.error = NoError
        BY <1>3 DEF IsOutcome
      <4> QED
        BY <1>4, <1>5, <4>1, <4>2 DEF Says, UpToDate
    <3>3. at \in DOMAIN AllWatches' /\ AllWatches'[at] = u /\ at < at'
      BY <1>1, <1>2
    <3>4. \A k \in DOMAIN changes' :
            /\ changes'[k].config # None => loaded'[changes'[k].config] # NotLoaded
            /\ \E i \in DOMAIN AllWatches' :
                 Says(changes'[k], AllWatches'[i]) /\ i < at'
      BY <2>1, <3>1, <3>2, <3>3
    <3> QED
      BY <3>4 DEF ChangesInv, Says, Watcher
  <2> QED
    BY <2>2, <2>3
<1> QED
  BY <1>9, <1>10, <1>11, <1>12, <1>13, <1>14 DEF IInv

LEMMA RefreshWatchStep ==
    ASSUME IInv, RefreshConfigWatch \/ RefreshInputWatch
    PROVE  IInv'
<1>1. TypeOK' /\ TypeOK /\ UniqueInv
  BY TypeRefresh DEF RefreshNext, IInv
<1> QED
  BY <1>1, ConfigWatchIsVisited, InputWatchIsVisited, VisitStep

LEMMA ReloadStep ==
    ASSUME IInv, NEW d \in Dirs, Reload(d)
    PROVE  IInv'
<1>1. TypeOK' /\ TypeOK
  BY TypeRefresh DEF RefreshNext, IInv
<1>2. /\ rpc = "reload" /\ d \in unread /\ unread' = unread \ {d}
      /\ changes' = changes /\ told' = told /\ synced' = synced /\ races' = races
      /\ content' = content
      /\ UNCHANGED fsVars /\ UNCHANGED watchVars
  BY DEF Reload, fsVars
<1>3. /\ AllWatches' = AllWatches /\ News' = News /\ FreshOf' = FreshOf
      /\ UniqueInv' /\ NewsInv' /\ SyncedInv'
  <2>1. AllWatches' = AllWatches /\ News' = News /\ FreshOf' = FreshOf
    BY <1>2, FreshUnchanged DEF AllWatches, watchVars, News
  <2>2. UniqueInv'
    BY <1>2 DEF IInv, UniqueInv, watchVars
  <2>3. NewsInv'
    BY <1>2, <2>1 DEF IInv, NewsInv, Told, Watcher
  <2>4. SyncedInv'
    BY <1>2, <2>1 DEF IInv, SyncedInv, Watcher, View
  <2> QED
    BY <2>1, <2>2, <2>3, <2>4
<1>4. CASE ~Modified(d)
  <2>1. loaded' = loaded /\ rpc' = rpc /\ telling' = telling /\ at' = at
    BY <1>4 DEF Reload
  <2>2. PhaseInv'
    BY <1>2, <2>1 DEF PhaseInv
  <2>3. HeldInv'
    BY <1>2, <1>3, <2>1 DEF IInv, HeldInv, Watcher
  <2>4. ChangesInv'
    BY <1>2, <1>3, <2>1 DEF IInv, ChangesInv, Says, Watcher
  <2>5. FreshInv'
    BY <1>2, <1>3, <2>1 DEF IInv, FreshInv, UpToDate
  <2>6. LoadedInv'
    BY <1>2, <1>4, <2>1 DEF IInv, LoadedInv, Modified
  <2> QED
    BY <1>1, <1>3, <2>2, <2>3, <2>4, <2>5, <2>6 DEF IInv
<1>5. CASE Modified(d)
  <2>1. /\ loaded' = [loaded EXCEPT ![d] = content[d]]
        /\ rpc' = "tell" /\ telling' = d /\ at' = 1 /\ content[d] \in Contents
    BY <1>5 DEF Reload, Modified
  <2>2. /\ loaded'[d] = content[d] /\ loaded'[d] # NotLoaded /\ d # None
        /\ \A e \in Dirs : e # d => loaded'[e] = loaded[e]
    BY <1>1, <2>1, LoaderAssumption DEF TypeOK
  <2>3. PhaseInv'
    BY <2>1, <2>2 DEF PhaseInv
  <2>4. HeldInv'
    <3>1. SUFFICES ASSUME NEW w \in Watchers, w \notin News, told[w].config # None
                   PROVE  /\ loaded'[told[w].config] # NotLoaded
                          /\ \E i \in DOMAIN AllWatches :
                               /\ Watcher(AllWatches[i]) = w
                               /\ AllWatches[i].config = told[w].config
                               /\ \/ told[w].content = loaded'[told[w].config]
                                  \/ d = told[w].config /\ 1 <= i
      BY <1>2, <1>3, <2>1 DEF HeldInv, Watcher
    <3>2. PICK i \in DOMAIN AllWatches :
            /\ Watcher(AllWatches[i]) = w
            /\ AllWatches[i].config = told[w].config
            /\ told[w].content = loaded[told[w].config]
            /\ loaded[told[w].config] # NotLoaded
      BY <1>2, <3>1 DEF IInv, HeldInv
    <3>3. told[w].config \in Dirs
      BY <1>1, <3>1 DEF TypeOK
    <3>4. 1 <= i
      BY <1>1, WatchesAreTyped
    <3> QED
      BY <2>2, <3>2, <3>3, <3>4
  <2>5. ChangesInv'
    <3>1. ASSUME NEW k \in DOMAIN changes, changes[k].config # None
          PROVE  loaded'[changes[k].config] # NotLoaded
      <4>1. changes[k] \in WatchType(Paths)
        BY <1>1 DEF TypeOK
      <4>2. changes[k].config \in Dirs
        BY <3>1, <4>1 DEF WatchType
      <4>3. loaded[changes[k].config] # NotLoaded
        BY <3>1 DEF IInv, ChangesInv
      <4> QED
        BY <2>2, <4>2, <4>3
    <3>2. \A k \in DOMAIN changes : \E i \in DOMAIN AllWatches : Says(changes[k], AllWatches[i])
      BY DEF IInv, ChangesInv
    <3> QED
      BY <1>2, <1>3, <2>1, <3>1, <3>2 DEF ChangesInv, Says, Watcher
  <2>6. FreshInv'
    BY <1>2, <1>3, <2>1 DEF IInv, FreshInv, UpToDate
  <2>7. LoadedInv'
    BY <1>2, <2>1, <2>2 DEF IInv, LoadedInv
  <2> QED
    BY <1>1, <1>3, <2>3, <2>4, <2>5, <2>6, <2>7 DEF IInv
<1> QED
  BY <1>4, <1>5

LEMMA TellWatchStep ==
    ASSUME IInv, TellWatch
    PROVE  IInv'
<1> DEFINE w == AllWatches[at]
           c == Change(w, Outcome(telling, NoError))
<1>1. TypeOK' /\ TypeOK /\ UniqueInv
  BY TypeRefresh DEF RefreshNext, IInv
<1>2. /\ rpc = "tell" /\ rpc' = "tell" /\ at \in DOMAIN AllWatches /\ at' = at + 1
      /\ changes' = IF w.config = telling /\ ~AlreadyChanged(w) THEN Append(changes, c) ELSE changes
      /\ loaded' = loaded /\ told' = told /\ synced' = synced /\ races' = races
      /\ unread' = unread /\ telling' = telling /\ content' = content
      /\ UNCHANGED fsVars /\ UNCHANGED watchVars
  BY DEF TellWatch, fsVars
<1>3. AllWatches' = AllWatches /\ FreshOf' = FreshOf
  BY <1>2, FreshUnchanged DEF AllWatches, watchVars
<1>4. at \in Nat /\ w \in WatchType(Paths) /\ Watcher(w) \in Watchers /\ w.path \in Paths
  BY <1>1, <1>2, WatchesAreTyped
<1>5. /\ Watcher(c) = Watcher(w) /\ c.config = telling /\ c.error = NoError
      /\ telling # None /\ loaded[telling] # NotLoaded
  BY <1>2 DEF Change, Watcher, Outcome, IInv, PhaseInv
<1>6. w.config = telling => c \in WatchType(Paths)
  <2>1. telling \in Dirs \cup {None}
    BY <1>1 DEF TypeOK
  <2>2. Outcome(telling, NoError) \in Outcomes
    BY <2>1 DEF Outcome, Outcomes
  <2> QED
    BY <1>4, <2>2, ChangeIsTyped
<1> HIDE DEF c
<1>7. /\ News \subseteq News'
      /\ w.config = telling => Watcher(w) \in News'
  <2>1. CASE w.config = telling /\ ~AlreadyChanged(w)
    BY <1>1, <1>2, <1>5, <1>6, <2>1, NewsAppended
  <2>2. CASE w.config # telling
    BY <1>2, <2>2 DEF News
  <2>3. CASE AlreadyChanged(w)
    <3>1. changes' = changes
      BY <1>2, <2>3
    <3>2. PICK k \in DOMAIN changes : changes[k].path = w.path
      BY <2>3 DEF AlreadyChanged
    <3>3. PICK i \in DOMAIN AllWatches : Watcher(AllWatches[i]) = Watcher(changes[k])
      BY DEF IInv, ChangesInv, Says
    <3>4. i = at
      BY <1>1, <1>2, <3>2, <3>3, UniquePath DEF Watcher
    <3>5. Watcher(w) \in News
      BY <3>3, <3>4 DEF News
    <3> QED
      BY <3>1, <3>5 DEF News
  <2> QED
    BY <2>1, <2>2, <2>3
<1>8. PhaseInv' /\ FreshInv' /\ LoadedInv'
  BY <1>2, <1>3 DEF IInv, PhaseInv, FreshInv, LoadedInv, UpToDate
<1>9. UniqueInv' /\ SyncedInv'
  BY <1>2, <1>3 DEF IInv, UniqueInv, watchVars, SyncedInv, Watcher, View
<1>10. NewsInv'
  BY <1>2, <1>3, <1>7 DEF IInv, NewsInv, Told, Watcher
<1>11. HeldInv'
  <2>1. SUFFICES ASSUME NEW x \in Watchers, x \notin News', told[x].config # None
                 PROVE  /\ loaded[told[x].config] # NotLoaded
                        /\ \E i \in DOMAIN AllWatches :
                             /\ Watcher(AllWatches[i]) = x
                             /\ AllWatches[i].config = told[x].config
                             /\ \/ told[x].content = loaded[told[x].config]
                                \/ telling = told[x].config /\ at + 1 <= i
    BY <1>2, <1>3 DEF HeldInv, Watcher
  <2>2. loaded[told[x].config] # NotLoaded
    BY <1>7, <2>1 DEF IInv, HeldInv
  <2>3. PICK i \in DOMAIN AllWatches :
          /\ Watcher(AllWatches[i]) = x
          /\ AllWatches[i].config = told[x].config
          /\ \/ told[x].content = loaded[told[x].config]
             \/ telling = told[x].config /\ at <= i
    BY <1>7, <2>1 DEF IInv, HeldInv
  <2>4. telling = told[x].config => i # at
    BY <1>7, <2>1, <2>3
  <2>5. i \in Nat
    BY <1>1, WatchesAreTyped
  <2>6. at <= i /\ i # at => at + 1 <= i
    BY <1>4, <2>5
  <2> QED
    BY <2>2, <2>3, <2>4, <2>6
<1>12. ChangesInv'
  <2>1. ASSUME NEW k \in DOMAIN changes
        PROVE  /\ changes[k].config # None => loaded'[changes[k].config] # NotLoaded
               /\ \E i \in DOMAIN AllWatches' : Says(changes[k], AllWatches'[i])
    BY <1>2, <1>3 DEF IInv, ChangesInv
  <2>2. CASE changes' = changes
    BY <1>2, <2>1, <2>2 DEF ChangesInv, Says, Watcher
  <2>3. CASE w.config = telling /\ ~AlreadyChanged(w)
    <3>1. /\ DOMAIN changes' = DOMAIN changes \cup {Len(changes) + 1}
          /\ \A k \in DOMAIN changes : changes'[k] = changes[k]
          /\ changes'[Len(changes) + 1] = c
      BY <1>1, <1>2, <1>6, <2>3, NewsAppended
    <3>2. /\ c.config # None => loaded'[c.config] # NotLoaded
          /\ Says(c, AllWatches'[at]) /\ at \in DOMAIN AllWatches'
      BY <1>2, <1>3, <1>5, <2>3 DEF Says
    <3>3. \A k \in DOMAIN changes' :
            /\ changes'[k].config # None => loaded'[changes'[k].config] # NotLoaded
            /\ \E i \in DOMAIN AllWatches' : Says(changes'[k], AllWatches'[i])
      BY <2>1, <3>1, <3>2
    <3> QED
      BY <1>2, <3>3 DEF ChangesInv, Says, Watcher
  <2> QED
    BY <1>2, <2>2, <2>3
<1> QED
  BY <1>1, <1>8, <1>9, <1>10, <1>11, <1>12 DEF IInv

LEMMA EndRefreshStep ==
    ASSUME IInv, EndRefresh
    PROVE  IInv'
<1>1. TypeOK' /\ TypeOK /\ UniqueInv /\ UniqueInv'
  BY TypeEndRefresh DEF IInv, EndRefresh, UniqueInv, watchVars
<1>2. /\ rpc = "reload" /\ rpc' = "idle" /\ changes' = << >> /\ unread = {}
      /\ synced' = (races = 0) /\ loaded' = loaded /\ content' = content
      /\ UNCHANGED fsVars /\ UNCHANGED watchVars
  BY DEF EndRefresh, fsVars
<1>3. AllWatches' = AllWatches /\ FreshOf' = FreshOf /\ News' = {}
  BY <1>2, FreshUnchanged DEF AllWatches, watchVars, News
<1>4. told \in [Watchers -> Views] /\ told' \in [Watchers -> Views]
  BY <1>1 DEF TypeOK, Views
\* A watcher was told of a change that is about its watch, or of none.
<1>5. ASSUME NEW w \in Watchers
      PROVE  \/ w \notin News /\ told'[w] = told[w]
             \/ \E k \in DOMAIN changes :
                  Watcher(changes[k]) = w /\ told'[w] = View(changes[k], loaded)
  <2>1. \A k \in DOMAIN changes : k \in Mine(w) <=> Watcher(changes[k]) = w
    BY DEF Mine, Watcher, Watchers
  <2>2. told'[w] = IF Mine(w) = {} THEN told[w] ELSE View(changes[LastOf(w)], loaded)
    BY ToldAtEnd
  <2>3. CASE Mine(w) = {}
    BY <2>1, <2>2, <2>3 DEF News
  <2>4. CASE Mine(w) # {}
    <3>1. LastOf(w) \in Mine(w) /\ LastOf(w) \in DOMAIN changes
      BY <1>1, <2>4, LastIsMine DEF Mine
    <3> QED
      BY <2>1, <2>2, <2>4, <3>1
  <2> QED
    BY <2>3, <2>4
<1>6. ASSUME NEW w \in Watchers, NEW k \in DOMAIN changes, Watcher(changes[k]) = w,
             told'[w] = View(changes[k], loaded)
      PROVE  \E i \in DOMAIN AllWatches :
               /\ Watcher(AllWatches[i]) = w
               /\ told'[w].config # None =>
                    /\ told'[w].config = AllWatches[i].config
                    /\ loaded[told'[w].config] # NotLoaded
                    /\ told'[w].content = loaded[told'[w].config]
               /\ AllWatches[i].error = NoError => Told(told'[w], AllWatches[i])
  <2>1. /\ told'[w].config = changes[k].config /\ told'[w].error = changes[k].error
        /\ told'[w].content = IF changes[k].config = None THEN NotLoaded
                              ELSE loaded[changes[k].config]
    BY <1>6 DEF View
  <2>2. changes[k].config # None => loaded[changes[k].config] # NotLoaded
    BY DEF IInv, ChangesInv
  <2>3. PICK i \in DOMAIN AllWatches : Says(changes[k], AllWatches[i])
    BY DEF IInv, ChangesInv
  <2> QED
    BY <1>6, <2>1, <2>2, <2>3 DEF Says, Told
<1>7. PhaseInv' /\ ChangesInv' /\ FreshInv' /\ LoadedInv'
  BY <1>2 DEF PhaseInv, ChangesInv, FreshInv, LoadedInv
<1>8. ASSUME NEW w \in Watchers, told'[w].config # None
      PROVE  /\ loaded[told'[w].config] # NotLoaded
             /\ told'[w].content = loaded[told'[w].config]
             /\ \E i \in DOMAIN AllWatches :
                  Watcher(AllWatches[i]) = w /\ AllWatches[i].config = told'[w].config
  <2>1. CASE w \notin News /\ told'[w] = told[w]
    BY <1>2, <1>8, <2>1 DEF IInv, HeldInv
  <2>2. ASSUME NEW k \in DOMAIN changes, Watcher(changes[k]) = w,
               told'[w] = View(changes[k], loaded)
        PROVE  /\ loaded[told'[w].config] # NotLoaded
               /\ told'[w].content = loaded[told'[w].config]
               /\ \E i \in DOMAIN AllWatches :
                    Watcher(AllWatches[i]) = w /\ AllWatches[i].config = told'[w].config
    BY <1>6, <1>8, <2>2
  <2> QED
    BY <1>5, <2>1, <2>2
<1>9. HeldInv'
  BY <1>2, <1>3, <1>8 DEF HeldInv, Watcher
<1>10. ASSUME NEW i \in DOMAIN AllWatches, AllWatches[i].error = NoError
       PROVE  Told(told'[Watcher(AllWatches[i])], AllWatches[i])
  <2> DEFINE w == Watcher(AllWatches[i])
  <2>1. w \in Watchers
    BY <1>1, WatchesAreTyped
  <2>2. CASE w \notin News /\ told'[w] = told[w]
    BY <1>10, <2>2 DEF IInv, NewsInv
  <2>3. ASSUME NEW k \in DOMAIN changes, Watcher(changes[k]) = w,
               told'[w] = View(changes[k], loaded)
        PROVE  Told(told'[w], AllWatches[i])
    <3>1. PICK j \in DOMAIN AllWatches :
            /\ Watcher(AllWatches[j]) = w
            /\ AllWatches[j].error = NoError => Told(told'[w], AllWatches[j])
      BY <1>6, <2>1, <2>3
    <3>2. j = i
      <4>1. AllWatches[j].path = AllWatches[i].path
        BY <3>1 DEF Watcher
      <4> QED
        BY <1>1, <4>1, UniquePath
    <3> QED
      BY <1>10, <3>1, <3>2
  <2> QED
    BY <1>5, <2>1, <2>2, <2>3
<1>11. NewsInv'
  BY <1>3, <1>10 DEF NewsInv, Told, Watcher
<1>12. SyncedInv'
  <2>1. SUFFICES ASSUME races = 0, NEW i \in DOMAIN AllWatches,
                        FreshOf[AllWatches[i].path].error = NoError
                 PROVE  told'[Watcher(AllWatches[i])] =
                            View(FreshOf[AllWatches[i].path], content)
    BY <1>2, <1>3 DEF SyncedInv, Watcher, View
  <2> DEFINE w == Watcher(AllWatches[i])
             r == FreshOf[AllWatches[i].path]
  <2>2. AllWatches[i].path \in Paths /\ w \in Watchers
    BY <1>1, WatchesAreTyped
  <2>3. /\ r \in Outcomes
        /\ r.config # None => r.config \in Dirs /\ content[r.config] \in Contents
    BY <1>1, <2>2, FreshOutcome DEF IsOutcome
  <2>4. AllWatches[i].error = NoError /\ AllWatches[i].config = r.config
    BY <1>2, <2>1 DEF IInv, FreshInv, UpToDate
  <2>5. Told(told'[w], AllWatches[i])
    BY <1>10, <2>4
  <2>6. /\ told'[w].config = r.config /\ told'[w].error = r.error
        /\ r.config = None => told'[w].content = NotLoaded
    BY <2>1, <2>4, <2>5 DEF Told
  <2> HIDE DEF w, r
  <2>7. r.config # None => told'[w].content = content[r.config]
    <3>1. SUFFICES ASSUME r.config # None PROVE told'[w].content = content[r.config]
      OBVIOUS
    <3>2. told'[w].content = loaded[r.config] /\ loaded[r.config] # NotLoaded
      BY <1>8, <2>2, <2>6, <3>1
    <3>3. loaded[r.config] = content[r.config]
      BY <1>2, <2>1, <2>3, <3>1, <3>2 DEF IInv, LoadedInv
    <3> QED
      BY <3>2, <3>3
  <2>8. told'[w] \in Views
    BY <1>4, <2>2
  <2>9. told'[w] = View(r, content)
    BY <2>6, <2>7, <2>8, ViewIs
  <2> QED
    BY <2>9 DEF w, r
<1> QED
  BY <1>1, <1>7, <1>9, <1>11, <1>12 DEF IInv
-----------------------------------------------------------------------------
(* The files change, and all steps. *)

LEMMA FsStep ==
    ASSUME IInv, FsNext
    PROVE  IInv'
<1>1. TypeOK' /\ FsChange
  BY TypeFs DEF IInv, FsNext, WriteConfig, MoveConfigPath, MoveInputPath
<1>2. /\ synced' = FALSE /\ changes' = changes /\ loaded' = loaded /\ told' = told
      /\ rpc' = rpc /\ at' = at /\ telling' = telling
      /\ configWatches' = configWatches /\ inputWatches' = inputWatches
      /\ rpc # "idle" => races' # 0
  <2>1. rpc # "idle" => races' = races + 1 /\ races \in Nat
    BY <1>1 DEF FsChange, IInv, TypeOK
  <2> QED
    BY <1>1, <2>1 DEF FsChange, watchVars, refreshVars
<1>3. AllWatches' = AllWatches /\ News' = News
  BY <1>2 DEF AllWatches, News
<1>4. UniqueInv' /\ PhaseInv'
  BY <1>2 DEF IInv, UniqueInv, PhaseInv
<1>5. HeldInv'
  BY <1>2, <1>3 DEF IInv, HeldInv, Watcher
<1>6. ChangesInv'
  BY <1>2, <1>3 DEF IInv, ChangesInv, Says, Watcher
<1>7. NewsInv'
  BY <1>2, <1>3 DEF IInv, NewsInv, Told, Watcher
<1>8. FreshInv' /\ LoadedInv' /\ SyncedInv'
  BY <1>2 DEF FreshInv, LoadedInv, SyncedInv
<1> QED
  BY <1>1, <1>4, <1>5, <1>6, <1>7, <1>8 DEF IInv

LEMMA StutterStep ==
    ASSUME IInv, UNCHANGED vars
    PROVE  IInv'
<1>1. /\ UNCHANGED <<fsVars, watchVars, loaded, changes, told, synced>>
      /\ rpc' = rpc /\ at' = at /\ unread' = unread /\ telling' = telling
      /\ changes' = changes /\ told' = told /\ loaded' = loaded /\ races' = races
  BY DEF vars, refreshVars
<1>2. TypeOK'
  BY TypeNext DEF IInv
<1>3. /\ AllWatches' = AllWatches /\ News' = News /\ FreshOf' = FreshOf /\ content' = content
      /\ UniqueInv' /\ NewsInv' /\ SyncedInv'
  BY <1>1, Kept
<1>4. PhaseInv' /\ FreshInv' /\ LoadedInv'
  BY <1>1, <1>3 DEF IInv, PhaseInv, FreshInv, LoadedInv, UpToDate
<1>5. HeldInv' /\ ChangesInv'
  BY <1>1, <1>3 DEF IInv, HeldInv, ChangesInv, Says, Watcher
<1> QED
  BY <1>2, <1>3, <1>4, <1>5 DEF IInv

LEMMA InvariantInit == Init => IInv
<1> SUFFICES ASSUME Init PROVE IInv
  OBVIOUS
<1>1. TypeOK
  BY TypeInit
<1>2. /\ rpc = "idle" /\ changes = << >> /\ synced = FALSE
      /\ configWatches = << >> /\ inputWatches = << >>
      /\ \A w \in Watchers : told[w] = Untold
  BY DEF Init
<1>3. AllWatches = << >>
  BY <1>2 DEF AllWatches
<1>4. UniqueInv /\ PhaseInv /\ ChangesInv /\ FreshInv /\ LoadedInv /\ SyncedInv
  BY <1>2 DEF UniqueInv, PhaseInv, ChangesInv, FreshInv, LoadedInv, SyncedInv
<1>5. HeldInv
  BY <1>2 DEF HeldInv, Untold
<1>6. NewsInv
  BY <1>3 DEF NewsInv
<1> QED
  BY <1>1, <1>4, <1>5, <1>6 DEF IInv

LEMMA InvariantNext == IInv /\ [Next]_vars => IInv'
<1> SUFFICES ASSUME IInv, [Next]_vars PROVE IInv'
  OBVIOUS
<1>1. CASE CallNext
  BY <1>1, WatchStep, LoadStep, UnwatchStep DEF CallNext
<1>2. CASE RefreshNext
  BY <1>2, BeginRefreshStep, RefreshWatchStep, BeginReloadStep, ReloadStep, TellWatchStep,
     EndTellStep, EndRefreshStep DEF RefreshNext
<1>3. CASE FsNext
  BY <1>3, FsStep
<1>4. CASE UNCHANGED vars
  BY <1>4, StutterStep
<1> QED
  BY <1>1, <1>2, <1>3, <1>4 DEF Next

LEMMA LoaderInvariant == Spec => []IInv
BY InvariantInit, InvariantNext, PTL DEF Spec
-----------------------------------------------------------------------------
(* What the invariant shows. *)

LEMMA HeldInPlace == IInv => InPlaceUpdatesAreTold
<1> SUFFICES ASSUME IInv, rpc = "idle", NEW w \in Watchers, told[w].config # None
             PROVE  told[w].content = loaded[told[w].config]
  BY DEF InPlaceUpdatesAreTold
<1>1. News = {}
  BY NewsWhenIdle DEF IInv
<1> QED
  BY <1>1 DEF IInv, HeldInv

LEMMA SyncedTells == IInv => RefreshTellsEveryWatch
<1> SUFFICES ASSUME IInv, synced, NEW i \in DOMAIN AllWatches,
                    Fresh(AllWatches[i].path).error = NoError
             PROVE  told[<<AllWatches[i].path, AllWatches[i].token>>] =
                        View(Fresh(AllWatches[i].path), content)
  BY DEF RefreshTellsEveryWatch
<1>1. AllWatches[i].path \in Paths
  BY WatchesAreTyped DEF IInv
<1>2. FreshOf[AllWatches[i].path] = Fresh(AllWatches[i].path)
  BY <1>1 DEF FreshOf
<1> QED
  BY <1>2 DEF IInv, SyncedInv, Watcher

\* No watcher holds a pointer to a configuration that was parsed again without
\* having been told, whenever no refresh() is running.
THEOREM LoaderInPlaceUpdatesAreTold == Spec => []InPlaceUpdatesAreTold
BY LoaderInvariant, HeldInPlace, PTL

\* After a refresh() during which no file changed, every watcher whose
\* configuration can be determined was told what a lookup without cache finds.
THEOREM LoaderRefreshTellsEveryWatch == Spec => []RefreshTellsEveryWatch
BY LoaderInvariant, SyncedTells, PTL
-----------------------------------------------------------------------------
(* A refresh() records one change at most for each watcher. *)

OnceInv ==
    \A j, k \in DOMAIN changes : Watcher(changes[j]) = Watcher(changes[k]) => j = k

LEMMA OnceAppended ==
    ASSUME TypeOK, OnceInv, NEW c \in WatchType(Paths), changes' = Append(changes, c),
           Watcher(c) \notin News
    PROVE  OnceInv'
<1>1. /\ DOMAIN changes' = DOMAIN changes \cup {Len(changes) + 1}
      /\ \A k \in DOMAIN changes : changes'[k] = changes[k]
      /\ changes'[Len(changes) + 1] = c
  BY NewsAppended
<1>2. \A k \in DOMAIN changes : Watcher(changes[k]) # Watcher(c)
  BY DEF News
<1> QED
  BY <1>1, <1>2 DEF OnceInv, Watcher

\* The first two loops of refresh() come to a watch once.
LEMMA OnceVisited ==
    ASSUME IInv, OnceInv, Visited
    PROVE  OnceInv'
<1> DEFINE w == AllWatches[at]
           r == FreshOf[w.path]
           c == Change(w, r)
<1>1. /\ rpc = "watches" /\ at \in DOMAIN AllWatches
      /\ changes' = IF Differs(w, r) THEN Append(changes, c) ELSE changes
  BY DEF Visited, RefreshWatch
<1>2. w \in WatchType(Paths) /\ at \in Nat /\ w.path \in Paths
  BY <1>1, WatchesAreTyped DEF IInv
<1>3. c \in WatchType(Paths) /\ Watcher(c) = Watcher(w)
  <2>1. r \in Outcomes
    BY <1>2, FreshOutcome DEF IInv, IsOutcome
  <2> QED
    BY <1>2, <2>1, ChangeIsTyped DEF Change, Watcher
<1>4. ASSUME Watcher(w) \in News PROVE FALSE
  <2>1. PICK k \in DOMAIN changes : Watcher(changes[k]) = Watcher(w)
    BY <1>4 DEF News
  <2>2. PICK i \in DOMAIN AllWatches : Watcher(AllWatches[i]) = Watcher(changes[k]) /\ i < at
    BY <1>1 DEF IInv, ChangesInv, Says
  <2>3. i = at
    BY <1>1, <2>1, <2>2, UniquePath DEF IInv, Watcher
  <2> QED
    BY <1>2, <2>2, <2>3
<1> HIDE DEF c, w
<1>5. CASE changes' = changes
  BY <1>5 DEF OnceInv, Watcher
<1>6. CASE changes' = Append(changes, c)
  BY <1>3, <1>4, <1>6, OnceAppended DEF IInv
<1> QED
  BY <1>1, <1>5, <1>6

\* The last one leaves out the watches that have changed.
LEMMA OnceTold ==
    ASSUME IInv, OnceInv, TellWatch
    PROVE  OnceInv'
<1> DEFINE w == AllWatches[at]
           c == Change(w, Outcome(telling, NoError))
<1>1. /\ at \in DOMAIN AllWatches
      /\ changes' = IF w.config = telling /\ ~AlreadyChanged(w) THEN Append(changes, c) ELSE changes
  BY DEF TellWatch
<1>2. w \in WatchType(Paths)
  BY <1>1, WatchesAreTyped DEF IInv
<1>3. c \in WatchType(Paths) /\ Watcher(c) = Watcher(w)
  <2>1. Outcome(telling, NoError) \in Outcomes
    BY DEF IInv, TypeOK, Outcome, Outcomes
  <2> QED
    BY <1>2, <2>1, ChangeIsTyped DEF Change, Watcher
<1>4. ~AlreadyChanged(w) => Watcher(w) \notin News
  BY DEF AlreadyChanged, News, Watcher
<1> HIDE DEF c, w
<1>5. CASE changes' = changes
  BY <1>5 DEF OnceInv, Watcher
<1>6. CASE ~AlreadyChanged(w) /\ changes' = Append(changes, c)
  BY <1>3, <1>4, <1>6, OnceAppended DEF IInv
<1> QED
  BY <1>1, <1>5, <1>6

LEMMA OnceNext == IInv /\ OnceInv /\ [Next]_vars => OnceInv'
<1> SUFFICES ASSUME IInv, OnceInv, [Next]_vars PROVE OnceInv'
  OBVIOUS
<1>1. CASE changes' = changes
  BY <1>1 DEF OnceInv, Watcher
<1>2. CASE changes' = << >>
  BY <1>2 DEF OnceInv
<1>3. CASE RefreshConfigWatch \/ RefreshInputWatch
  BY <1>3, ConfigWatchIsVisited, InputWatchIsVisited, OnceVisited DEF IInv
<1>4. CASE TellWatch
  BY <1>4, OnceTold
<1>5. CASE CallNext
  BY <1>1, <1>5 DEF CallNext, WatchAndLoadConfigFile, WatchAndLoadForFile, LoadForFile, UnwatchFile,
     UnwatchAllFiles, refreshVars
<1>6. CASE RefreshNext
  BY <1>1, <1>2, <1>3, <1>4, <1>6 DEF RefreshNext, BeginRefresh, BeginReload, Reload, EndTell,
     EndRefresh
<1>7. CASE FsNext
  BY <1>1, <1>7 DEF FsNext, WriteConfig, MoveConfigPath, MoveInputPath, FsChange, refreshVars
<1>8. CASE UNCHANGED vars
  BY <1>1, <1>8 DEF vars, refreshVars
<1> QED
  BY <1>5, <1>6, <1>7, <1>8 DEF Next

LEMMA OnceInit == Init => OnceInv
BY DEF Init, OnceInv

\* However its three loops run into each other and into changes of the files,
\* one refresh() never tells a watcher twice: a caller may look for the one
\* change of its document.
THEOREM LoaderTellsOnce == Spec => []OnceInv
BY InvariantInit, InvariantNext, OnceInit, OnceNext, PTL DEF Spec
=============================================================================
