----------------------------- MODULE ByteStream -----------------------------
(***************************************************************************)
(* What Async_Byte_Queue promises to its users, without chunks, locks or   *)
(* pointers: one writer extends a stream of bytes and marks a prefix of it *)
(* as committed; one reader takes bytes in stream order.  A take hands out *)
(* some bytes that were appended, and when it ends it has handed out at    *)
(* least everything that was committed by then.                            *)
(*                                                                         *)
(* The promise is not "only committed bytes": a chunk that is not the last *)
(* is handed out up to the size grow() has given it, committed or not.     *)
(***************************************************************************)
EXTENDS Naturals

VARIABLES
    appended,   \* bytes the writer has appended
    committed,  \* bytes covered by the last commit
    taken,      \* bytes handed to the reader's callback, in stream order
    taking      \* a take_committed call is in progress

vars == <<appended, committed, taken, taking>>

Init ==
    /\ appended = 0
    /\ committed = 0
    /\ taken = 0
    /\ taking = FALSE

Append ==
    /\ appended' \in Nat
    /\ appended' >= appended
    /\ UNCHANGED <<committed, taken, taking>>

Commit ==
    /\ committed' = appended
    /\ UNCHANGED <<appended, taken, taking>>

BeginTake ==
    /\ ~taking
    /\ taking' = TRUE
    /\ UNCHANGED <<appended, committed, taken>>

Take ==
    /\ taking
    /\ taken' \in taken .. appended
    /\ UNCHANGED <<appended, committed, taking>>

EndTake ==
    /\ taking
    /\ taken >= committed
    /\ taking' = FALSE
    /\ UNCHANGED <<appended, committed, taken>>

Next == Append \/ Commit \/ BeginTake \/ Take \/ EndTake

Spec == Init /\ [][Next]_vars
=============================================================================
