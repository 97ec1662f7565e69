---------------------------- MODULE MCTcpServer ----------------------------
(* TcpServer for TLC: connections are interchangeable.                       *)
EXTENDS TcpServer, TLC

MCThread == 0 .. m_numWorker
FdSymmetry == Permutations(Fd)
=============================================================================
