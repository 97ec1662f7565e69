----------------------------- MODULE MCTcpFlow -----------------------------
(* TcpFlow for TLC.                                                          *)
EXTENDS TcpFlow
=============================================================================
