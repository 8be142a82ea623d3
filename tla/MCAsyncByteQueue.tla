-------------------------- MODULE MCAsyncByteQueue --------------------------
(***************************************************************************)
(* Small instance of AsyncByteQueue for TLC.  Chunks of 2 bytes and        *)
(* appends of up to 3 make a chunk overflow after one or two appends and   *)
(* make oversized chunks; 5 bytes are enough for three chunks with a       *)
(* commit inside and between them.                                         *)
(***************************************************************************)
EXTENDS AsyncByteQueue

MCAlignments == {1, 2}
=============================================================================
