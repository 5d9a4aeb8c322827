-------------------------- MODULE MCProcessControl --------------------------
(* ProcessControl with enough pids for several respawns and failed forks.   *)
EXTENDS ProcessControl
=============================================================================
