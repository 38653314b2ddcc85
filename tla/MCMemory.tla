------------------------------ MODULE MCMemory ------------------------------
(***************************************************************************)
(* Memory with numbered blocks, of which malloc gives the lowest that is   *)
(* free, so that addresses are soon used again.                            *)
(***************************************************************************)
EXTENDS Memory

NULL == 0
MCBlocks == 1 .. 14

Lowest(free) == {b \in free : \A c \in free : b <= c}

=============================================================================
