----------------------------- MODULE MCTcpProxy -----------------------------
(* TLC instances of TcpProxy. *)
EXTENDS TcpProxy
=============================================================================
