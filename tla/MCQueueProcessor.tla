-------------------------- MODULE MCQueueProcessor --------------------------
(* QueueProcessor on small instances.                                       *)
EXTENDS QueueProcessor
=============================================================================
