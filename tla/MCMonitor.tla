------------------------------ MODULE MCMonitor ------------------------------
(* SocketMonitor with interchangeable sockets; descriptors are ordered. *)
EXTENDS SocketMonitor, TLC

Symmetry == Permutations(Socks)
=============================================================================
