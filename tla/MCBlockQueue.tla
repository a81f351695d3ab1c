--------------------------- MODULE MCBlockQueue ----------------------------
(* Threads and values of the BlockQueue instances that TLC checks. *)
EXTENDS BlockQueue

CONSTANTS p1, p2, c1, c2, v1, v2
=============================================================================
