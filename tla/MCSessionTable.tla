--------------------------- MODULE MCSessionTable ---------------------------
(* SessionTable on a small instance: enough codes for one client to hold    *)
(* two sessions on one queue beside others, and a clock long enough for     *)
(* sessions of several different ages.  Codes and clients are only compared *)
(* for equality, so permuting them is a symmetry.                           *)
EXTENDS SessionTable, TLC

CodeClientSymmetry == Permutations(Code) \cup Permutations(Client)
=============================================================================
