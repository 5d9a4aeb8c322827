---------------------------- MODULE MCConnection ----------------------------
(* Connection with a head of two bytes, so that a recv can end in it, and   *)
(* two packages whose bodies have one or two bytes.                         *)
EXTENDS Connection
=============================================================================
