-------------------------- MODULE MCSelectServer ---------------------------
(* Clients of the SelectServer instances that TLC checks. *)
EXTENDS SelectServer

CONSTANTS c1, c2, c3
=============================================================================
