--------------------------- MODULE MCTraceFlusher ---------------------------
(***************************************************************************)
(* Small instance of TraceFlusher for TLC: two threads, and two backends   *)
(* enabled and disabled at any time.  Two registrations let one thread     *)
(* register again, or both register; two events let one thread write two,  *)
(* or both write one.                                                      *)
(***************************************************************************)
EXTENDS TraceFlusher
=============================================================================
