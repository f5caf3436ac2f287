----------------------------- MODULE MCTcpServer -----------------------------
(* Instances of TcpServer.  Addresses are interchangeable. *)
EXTENDS TcpServer, TLC

Addresses == Permutations(Conn) \cup Permutations(Entry)
=============================================================================
