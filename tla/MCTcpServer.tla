---------------------------- MODULE MCTcpServer ----------------------------
(***************************************************************************)
(* Workers and clients of the TcpServer instance that TLC checks without   *)
(* fairness; its properties are those of TcpServer and of ThreadPool.      *)
(***************************************************************************)
EXTENDS TcpServer

CONSTANTS w1, w2, c1, c2
=============================================================================
