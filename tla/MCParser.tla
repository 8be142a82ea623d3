------------------------------- MODULE MCParser -------------------------------
EXTENDS LintedProgram
MCLength == [control |-> 13, cases |-> 19, loops |-> 14, declarations |-> 18, expressions |-> 9,
             functions |-> 18, insertion |-> 13, async |-> 20]
MCEditedLength == [control |-> 7, cases |-> 8, loops |-> 8, declarations |-> 9, expressions |-> 6,
             functions |-> 8, insertion |-> 6, async |-> 8]
MCInserted == {"(", "{", "}", "=>", "in", "of", "await", "id"}
=============================================================================
