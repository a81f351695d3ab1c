---------------------------- MODULE MCRingQueue ----------------------------
(* Threads and values of the RingQueue instances that TLC checks. *)
EXTENDS RingQueue

CONSTANTS p1, p2, c1, c2, v1, v2
=============================================================================
