----------------------------- MODULE WatchedDisk -----------------------------
(***************************************************************************)
(* The disk around one input file, as other processes change it while the  *)
(* server looks: the directories of its path, each with or without a       *)
(* configuration file.  Outside of the program.                            *)
(***************************************************************************)
EXTENDS Integers, Sequences, FiniteSets

CONSTANTS
    Top,        \* the directory the path starts from, which stays
    Nodes,      \* directories, by identity (inode)
    Depth,      \* directories of the path below the top
    Contents,   \* contents of configuration files
    OldContents, \* those there are to begin with
    MaxChanges  \* bound: changes of the disk

None == "none"
Levels == 0 .. Depth
AllNodes == Nodes \cup {Top}

Paths == {path \in [Levels -> AllNodes] :
             path[0] = Top /\ \A k, l \in Levels : path[k] = path[l] => k = l}

ASSUME DiskAssumption ==
    /\ Top \notin Nodes /\ None \notin AllNodes \cup Contents
    /\ OldContents \subseteq Contents
    /\ Depth \in Nat \ {0}
    /\ Paths # {}
    /\ MaxChanges \in Nat

VARIABLES
    child,    \* the next directory of the path, in each directory
    file,     \* the configuration file in each directory
    gone,     \* directories that were removed
    writing,  \* the directory whose file another process has open to write
    diskSteps \* changes so far

diskVars == <<child, file, gone, writing, diskSteps>>

DiskTypeOK ==
    /\ child \in [AllNodes -> Nodes \cup {None}]
    /\ file \in [AllNodes -> Contents \cup {None}]
    /\ gone \subseteq Nodes
    /\ writing \in AllNodes \cup {None}
    /\ diskSteps \in 0 .. MaxChanges

\* The directories from n on, down the path.
Chain(n) ==
    LET at[k \in Levels] ==
          IF k = 0 THEN n ELSE IF at[k - 1] = None THEN None ELSE child[at[k - 1]]
    IN at

DirAt(level) == Chain(Top)[level]
Subtree(n) == {Chain(n)[k] : k \in Levels} \ {None}
OnPath(n) == n \in Subtree(Top)

\* The path leads nowhere, or through as many directories as it has (any: they
\* are interchangeable).
NoChild == [n \in AllNodes |-> None]
Along(path) ==
    [n \in AllNodes |->
        IF \E k \in 1 .. Depth : path[k - 1] = n
        THEN path[CHOOSE k \in 1 .. Depth : path[k - 1] = n] ELSE None]

DiskInit ==
    /\ child \in {NoChild, Along(CHOOSE path \in Paths : TRUE)}
    /\ file \in [AllNodes -> OldContents \cup {None}]
    /\ gone = {}
    /\ writing = None
    /\ diskSteps = 0

ConfigAt(level) == IF DirAt(level) = None THEN None ELSE file[DirAt(level)]

Found(level, content) == [level |-> level, content |-> content]
NotFound == Found(-1, None)

\* The configuration file of the input: the nearest one.
Fresh ==
    LET levels == {l \in Levels : ConfigAt(l) # None}
        nearest == CHOOSE l \in levels : \A k \in levels : k <= l
    IN IF levels = {} THEN NotFound ELSE Found(nearest, ConfigAt(nearest))
-----------------------------------------------------------------------------
(* One change each.                                                        *)

Counted == diskSteps < MaxChanges /\ diskSteps' = diskSteps + 1

\* In place: what is read before the file is closed may be half of it.
WriteFile(n, c) ==
    /\ Counted
    /\ file[n] # None /\ file[n] # c
    /\ file' = [file EXCEPT ![n] = c]
    /\ writing' = n
    /\ UNCHANGED <<child, gone>>

CreateFile(n, c) ==
    /\ Counted
    /\ file[n] = None
    /\ file' = [file EXCEPT ![n] = c]
    /\ writing' = n
    /\ UNCHANGED <<child, gone>>

CloseFile ==
    /\ writing # None
    /\ writing' = None
    /\ UNCHANGED <<child, file, gone, diskSteps>>

\* A file that is complete is renamed over it.
MoveFileIn(n, c) ==
    /\ Counted
    /\ writing # n
    /\ file[n] # c
    /\ file' = [file EXCEPT ![n] = c]
    /\ UNCHANGED <<child, gone, writing>>

LoseFile(n) ==
    /\ Counted
    /\ writing # n
    /\ file[n] # None
    /\ file' = [file EXCEPT ![n] = None]
    /\ UNCHANGED <<child, gone, writing>>

\* A directory is made (if it is empty), or comes from elsewhere.
AddDirectory(n, i) ==
    /\ Counted
    /\ child[n] = None
    /\ i \notin gone /\ ~OnPath(i) /\ \A m \in AllNodes : child[m] # i
    /\ n \notin Subtree(i)
    /\ child' = [child EXCEPT ![n] = i]
    /\ UNCHANGED <<file, gone, writing>>

RemoveDirectory(n) ==
    /\ Counted
    /\ child[n] # None
    /\ child[child[n]] = None /\ file[child[n]] = None
    /\ gone' = gone \cup {child[n]}
    /\ child' = [child EXCEPT ![n] = None]
    /\ UNCHANGED <<file, writing>>

MoveDirectoryOut(n) ==
    /\ Counted
    /\ child[n] # None
    /\ child' = [child EXCEPT ![n] = None]
    /\ UNCHANGED <<file, gone, writing>>
=============================================================================
