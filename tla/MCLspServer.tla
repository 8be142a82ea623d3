---------------------------- MODULE MCLspServer ----------------------------
\* Small instances of the language server: a root, one directory in it.
EXTENDS LspServer, TLC

CONSTANTS root, sub, c1, c2

OneDir == root :> <<root>>
TwoDirs == (root :> <<root>>) @@ (sub :> <<sub, root>>)
\* c1 and c2 are canonical paths; any other leads through a symbolic link.
MCSpelled ==
    [c \in ConfigPaths |-> IF c = c1 THEN sub ELSE IF c = c2 THEN root ELSE None]
MCDiskStates ==
    [d \in Dirs |-> IF d = root THEN Contents \cup {Loader!NotFound} ELSE Loader!FileState]
MCSymmetry == Permutations(Contents) \cup Permutations(InputPaths) \cup Permutations(Texts)
=============================================================================
