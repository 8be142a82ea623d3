----------------------------- MODULE LspServer -----------------------------
(***************************************************************************)
(* lsp/lsp-server.{h,cpp}: Linting_LSP_Server_Handler, which keeps the     *)
(* documents a client has open, lints them, and tells the client what it   *)
(* found; composed with the configuration loader it owns.  The loader      *)
(* reads files through an overlay: a document that is open hides the file  *)
(* on disk that has the same name.                                         *)
(*                                                                         *)
(* One thread runs every handler from start to end, but the disk changes   *)
(* under it, so a handler is split where the loader looks at files.  A     *)
(* path names its document: parse_file_from_lsp_uri maps one to the other. *)
(* Documents of other languages than JavaScript and not named like a       *)
(* configuration file are inert and left out.                              *)
(***************************************************************************)
EXTENDS Integers, Sequences, FiniteSets

CONSTANTS
    Dirs, Ancestors, InputPaths, ConfigPaths, Contents,
    Texts,         \* texts of JavaScript documents
    Spelled,       \* the directory whose canonical path a path is, or None
    DiskStates,    \* states that the file of a directory may take on disk
    PathsMove,     \* may directories and symbolic links change?
    MaxDocuments,  \* bound: documents open at a time
    MaxRaces       \* bound: disk changes during one refresh()

VARIABLES
    disk, canonical, directory,
    \* Configuration_Loader
    loaded, configWatches, inputWatches, rpc, at, unread, telling, changes,
    told, races, synced,
    \* Linting_LSP_Server_Handler
    overlaid,   \* config_fs_.overlaid_documents_
    documents,  \* documents_
    text,       \* Document_Base::doc
    config,     \* Lintable_Document::config: a directory, or None by default
    spc, doc,   \* the handler that runs and its document
    \* history variables: nothing in the code reads them
    published,  \* the last diagnostics of every document
    current,    \* has the disk not changed since the last refresh() began?
    settled     \* documents that were open at the end of a refresh()

Paths == InputPaths \cup ConfigPaths
None == "none"

\* LSP_Overlay_Configuration_Filesystem::read_file
Hides(d) == {p \in overlaid \cap ConfigPaths : Spelled[p] = d}
Content ==
    [d \in Dirs |-> IF Hides(d) = {} THEN disk[d]
                    ELSE text[CHOOSE p \in Hides(d) : TRUE]]

\* The token of a watch is the address of the document.
Loader == INSTANCE ConfigurationLoader
            WITH content <- Content, Tokens <- Paths,
                 MaxWatches <- MaxDocuments

ASSUME ServerAssumption ==
    /\ Loader!LoaderAssumption
    /\ None \notin ConfigPaths
    /\ Spelled \in [ConfigPaths -> Dirs \cup {None}]
    /\ \A p, q \in ConfigPaths : Spelled[p] = Spelled[q] /\ Spelled[p] # None => p = q
    /\ DiskStates \in [Dirs -> SUBSET Loader!FileState]
    /\ PathsMove \in BOOLEAN

loaderVars == <<loaded, configWatches, inputWatches, rpc, at, unread, telling,
                changes, told, races, synced>>
diskVars == <<disk, canonical, directory>>
documentVars == <<overlaid, documents, text, config, published, settled>>
vars == <<diskVars, loaderVars, documentVars, spc, doc, current>>

NoText == "no text"
Unpublished == [code |-> NoText, config |-> None]

Init ==
    /\ disk \in [Dirs -> Loader!FileState]
    /\ \A d \in Dirs : disk[d] \in DiskStates[d]
    /\ canonical \in [ConfigPaths -> Dirs \cup {None}]
    /\ \A p \in ConfigPaths : Spelled[p] # None => canonical[p] = Spelled[p]
    /\ directory \in [InputPaths -> Dirs]
    /\ loaded = [d \in Dirs |-> Loader!NotLoaded]
    /\ configWatches = << >> /\ inputWatches = << >>
    /\ rpc = "idle" /\ at = 1 /\ unread = {} /\ telling = None /\ changes = << >>
    /\ told = [w \in Loader!Watchers |-> Loader!Untold]
    /\ races = 0 /\ synced = FALSE
    /\ overlaid = {} /\ documents = {}
    /\ text = [p \in Paths |-> NoText]
    /\ config = [p \in InputPaths |-> None]
    /\ spc = "idle" /\ doc = None
    /\ published = [p \in Paths |-> Unpublished]
    /\ current = TRUE
    /\ settled = {}

-----------------------------------------------------------------------------
(* Diagnostics. *)

\* LSP_Linter::lint
Lint(code, configFile, configContents) ==
    [code |-> code,
     config |-> IF configFile = None THEN Loader!NotLoaded ELSE configContents[configFile]]

\* get_config_file_diagnostics_notification
LintConfig(d, configContents) ==
    [code |-> configContents[d], config |-> Loader!NotLoaded]

-----------------------------------------------------------------------------
(* textDocument/didOpen *)

\* To the loader, a document that hides a file is a change of that file.
OverlayChange(path) ==
    IF path \in ConfigPaths /\ Spelled[path] # None
    THEN Loader!FsChange ELSE UNCHANGED loaderVars

MayOpen(path) ==
    /\ spc = "idle"
    /\ path \notin overlaid
    /\ Cardinality(overlaid) < MaxDocuments

\* The diagnostics are computed before the document joins documents_.
DidOpenLintable(path, newText) ==
    /\ MayOpen(path)
    /\ overlaid' = overlaid \cup {path}
    /\ text' = [text EXCEPT ![path] = newText]
    /\ documents' = documents \cup {path}
    /\ UNCHANGED <<diskVars, spc, doc, current, settled>>
    /\ Loader!WatchAndLoadForFile(path, path)
    /\ config' = [config EXCEPT ![path] = told'[<<path, path>>].config]
    /\ published' = [published EXCEPT ![path] = Lint(newText, config'[path], loaded')]

DidOpenConfig(path, newText) ==
    /\ MayOpen(path)
    /\ overlaid' = overlaid \cup {path}
    /\ text' = [text EXCEPT ![path] = newText]
    /\ spc' = "load"
    /\ doc' = path
    /\ OverlayChange(path)
    /\ UNCHANGED <<diskVars, documents, config, published, current, settled>>

\* QLJS_ASSERT(config_file.ok())
LoadOpenedConfig ==
    /\ spc = "load"
    /\ UNCHANGED <<diskVars, overlaid, documents, text, config, doc, current, settled>>
    /\ Loader!WatchAndLoadConfigFile(doc, doc)
    /\ LET d == told'[<<doc, doc>>].config IN
       IF d = None THEN spc' = "crashed" /\ UNCHANGED published
       ELSE /\ spc' = "refresh"
            /\ published' = [published EXCEPT ![doc] = LintConfig(d, loaded')]

(* textDocument/didChange *)

DidChangeLintable(path, newText) ==
    /\ spc = "idle"
    /\ path \in documents
    /\ text' = [text EXCEPT ![path] = newText]
    /\ published' = [published EXCEPT ![path] = Lint(newText, config[path], loaded)]
    /\ UNCHANGED <<diskVars, loaderVars, overlaid, documents, config, spc, doc, current,
                   settled>>

DidChangeConfig(path, newText) ==
    /\ spc = "idle"
    /\ path \in documents
    /\ text' = [text EXCEPT ![path] = newText]
    /\ spc' = "refresh"
    /\ OverlayChange(path)
    /\ UNCHANGED <<diskVars, overlaid, documents, config, published, doc, current, settled>>

(* textDocument/didClose *)

DidClose(path) ==
    /\ spc = "idle"
    /\ path \in documents
    /\ spc' = "close"
    /\ doc' = path
    /\ UNCHANGED <<diskVars, documentVars, current>>
    /\ Loader!UnwatchFile(path)

StillOpen == documents \ {doc}

CloseDocument ==
    /\ spc = "close"
    /\ overlaid' = overlaid \ {doc}
    /\ documents' = StillOpen
    /\ text' = [text EXCEPT ![doc] = NoText]
    /\ config' = [p \in InputPaths |-> IF p = doc THEN None ELSE config[p]]
    /\ published' = [published EXCEPT ![doc] = Unpublished]
    /\ settled' = settled \ {doc}
    /\ spc' = "refresh"
    /\ doc' = None
    /\ OverlayChange(doc)
    /\ UNCHANGED <<diskVars, current>>

\* filesystem_changed, called by the event loop.
FilesystemChanged ==
    /\ spc = "idle"
    /\ spc' = "refresh"
    /\ UNCHANGED <<diskVars, loaderVars, documentVars, doc, current>>

-----------------------------------------------------------------------------
(* refresh() and what the server does with the changes. *)

Refreshing ==
    /\ spc = "refresh"
    /\ UNCHANGED <<diskVars, documentVars, spc, doc, current>>
    /\ \/ Loader!BeginRefresh
       \/ Loader!RefreshConfigWatch
       \/ Loader!RefreshInputWatch
       \/ Loader!BeginReload
       \/ \E d \in Dirs : Loader!Reload(d)
       \/ Loader!TellWatch
       \/ Loader!EndTell

ChangeFor(path) == CHOOSE k \in DOMAIN changes : changes[k].token = path

Affected_WithFile ==
    {p \in documents :
        \E k \in DOMAIN changes : changes[k].token = p /\ changes[k].config # None}
Affected_Moved ==
    {p \in documents :
        \E k \in DOMAIN changes :
            changes[k].token = p /\ changes[k].config \notin {config[q] : q \in {p} \cap InputPaths}}

\* handle_config_file_changes calls on_config_file_changed of these documents.
Affected == {p \in documents : \E k \in DOMAIN changes : changes[k].token = p}

\* Config_Document::on_config_file_changed: QLJS_ASSERT(change.config_file)
LosesConfig(path) == path \in ConfigPaths /\ changes[ChangeFor(path)].config = None

FinishRefresh ==
    /\ spc = "refresh"
    /\ documents' = documents \cup (IF doc = None THEN {} ELSE {doc})
    /\ config' = [p \in InputPaths |->
                   IF p \in Affected THEN changes[ChangeFor(p)].config ELSE config[p]]
    /\ published' = [p \in Paths |->
                      IF p \notin Affected THEN published[p]
                      ELSE IF p \in InputPaths THEN Lint(text[p], config'[p], loaded)
                      ELSE IF LosesConfig(p) THEN published[p]
                      ELSE LintConfig(changes[ChangeFor(p)].config, loaded)]
    /\ spc' = IF \E p \in Affected : LosesConfig(p) THEN "crashed" ELSE "idle"
    /\ doc' = None
    /\ current' = (current \/ races = 0)
    /\ settled' = documents'
    /\ UNCHANGED <<diskVars, overlaid, text>>
    /\ Loader!EndRefresh

-----------------------------------------------------------------------------
(* Other processes change the disk. *)

DiskChange ==
    /\ spc # "crashed"
    /\ current' = FALSE
    /\ UNCHANGED <<documentVars, spc, doc>>
    /\ Loader!FsChange

WriteConfig(d, c) ==
    /\ disk[d] # c
    /\ disk' = [disk EXCEPT ![d] = c]
    /\ UNCHANGED <<canonical, directory>>
    /\ DiskChange

MoveConfigPath(path, d) ==
    /\ PathsMove
    /\ canonical[path] # d
    /\ canonical' = [canonical EXCEPT ![path] = d]
    /\ UNCHANGED <<disk, directory>>
    /\ DiskChange

\* Inputs in directories that may not be searched are left to the loader's own
\* model: they fail like inputs under an unreadable configuration file.
MoveInputPath(path, d) ==
    /\ PathsMove
    /\ directory[path] # d
    /\ directory' = [directory EXCEPT ![path] = d]
    /\ UNCHANGED <<disk, canonical>>
    /\ DiskChange

Next ==
    \/ \E p \in InputPaths, t \in Texts : DidOpenLintable(p, t)
    \/ \E p \in ConfigPaths, t \in Contents : DidOpenConfig(p, t)
    \/ LoadOpenedConfig
    \/ \E p \in InputPaths, t \in Texts : DidChangeLintable(p, t)
    \/ \E p \in ConfigPaths, t \in Contents : DidChangeConfig(p, t)
    \/ \E p \in Paths : DidClose(p)
    \/ CloseDocument
    \/ FilesystemChanged
    \/ Refreshing
    \/ FinishRefresh
    \/ \E d \in Dirs : \E c \in DiskStates[d] : WriteConfig(d, c)
    \/ \E p \in ConfigPaths, d \in Dirs \cup {None} : MoveConfigPath(p, d)
    \/ \E p \in InputPaths, d \in Dirs : MoveInputPath(p, d)

Spec == Init /\ [][Next]_vars

-----------------------------------------------------------------------------
(* Properties. *)

Diagnostics == [code : Texts \cup Contents \cup {NoText},
                config : Contents \cup {None, Loader!NotLoaded}]

\* Type correctness of all variables.
TypeOK ==
    /\ Loader!TypeOK
    /\ disk \in [Dirs -> Loader!FileState]
    /\ overlaid \subseteq Paths
    /\ documents \subseteq overlaid
    /\ text \in [Paths -> Texts \cup Contents \cup {NoText}]
    /\ config \in [InputPaths -> Dirs \cup {None}]
    /\ spc \in {"idle", "load", "refresh", "close", "crashed"}
    /\ doc \in Paths \cup {None}
    /\ published \in [Paths -> Diagnostics]
    /\ current \in BOOLEAN
    /\ settled \subseteq documents

\* Between two messages, the client has for every JavaScript document the
\* diagnostics of its latest text under the present content of the
\* configuration the document points at: no change of that configuration, by
\* the user, the disk or a document that hides the disk, was kept from it.
DiagnosticsMatchConfig ==
    spc = "idle" =>
        \A p \in documents \cap InputPaths :
            published[p] = Lint(text[p], config[p], loaded)

\* If the disk has not changed since the last refresh(), a document that was
\* open then has the diagnostics of the configuration a fresh search finds,
\* overlays included, unless that search fails.
DiagnosticsMatchFiles ==
    spc = "idle" /\ current =>
        \A p \in settled \cap InputPaths :
            LET r == Loader!Fresh(p) IN
            r.error = Loader!NoError =>
                published[p] = Lint(text[p], r.config, Content)

=============================================================================
