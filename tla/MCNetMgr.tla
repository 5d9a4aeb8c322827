------------------------------ MODULE MCNetMgr ------------------------------
(* NetMgr on small instances: two or three connections are enough for a     *)
(* descriptor and an address to be used twice.                              *)
EXTENDS NetMgr, TLC

Symmetry == Permutations(Conn) \cup Permutations(Addr)
=============================================================================
