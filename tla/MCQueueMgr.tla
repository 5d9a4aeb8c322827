----------------------------- MODULE MCQueueMgr -----------------------------
(* QueueMgr on small instances; the configurations choose the number of     *)
(* worker threads and whether "load meta" is used while serving.            *)
EXTENDS QueueMgr, TLC

ClientSymmetry == Permutations(Client)
ThreadSymmetry == Permutations(Client) \cup Permutations(Worker)
=============================================================================
