------------------------------- MODULE Redis --------------------------------
(***************************************************************************)
(* The part of the Redis data model that DOMQ uses (external: modelled     *)
(* from the commands queuemgr.cpp sends).  A database is a record:         *)
(*                                                                         *)
(*   names    the set __meta_queuenames                                    *)
(*   meta     per queue, the "type" field of its metadata hash, or NoMeta  *)
(*            when the hash does not exist                                 *)
(*   submeta  per queue, the field names of its subscriber hash            *)
(*   lists    the message lists: <<q>> is the list of queue q, <<q, c>>    *)
(*            the list of subscriber c of q                                *)
(*   taken    history: what LPOP has returned from each list, in order     *)
(*                                                                         *)
(* Redis executes one command at a time; commands of different connections *)
(* interleave, and a pipeline is not a transaction.                        *)
(***************************************************************************)
EXTENDS Integers, Sequences

CONSTANTS Client, Queue

PEER2PEER == "PEER2PEER"
SUB2PUB   == "SUB2PUB"
NoMeta    == "none"
MsgType   == {PEER2PEER, SUB2PUB}

QueueKey(q)  == <<q>>       \* QueueMetaData::GetQueueMsgName
SubKey(q, c) == <<q, c>>    \* QueueMetaData::GetQueueSubName
Keys == {QueueKey(q) : q \in Queue} \cup {SubKey(q, c) : q \in Queue, c \in Client}

EmptyDb ==
  [names   |-> {},
   meta    |-> [q \in Queue |-> NoMeta],
   submeta |-> [q \in Queue |-> {}],
   lists   |-> [k \in Keys |-> <<>>],
   taken   |-> [k \in Keys |-> <<>>]]

\* The commands that write, as the code sends them.
SADD(q)          == [cmd |-> "SADD", q |-> q]
HMSETMeta(q, t)  == [cmd |-> "HMSET meta", q |-> q, t |-> t]
HSETSub(q, c)    == [cmd |-> "HSET submeta", q |-> q, c |-> c]
HSETVisit(q)     == [cmd |-> "HSET lastvisit", q |-> q]
RPUSH(k, m)      == [cmd |-> "RPUSH", k |-> k, m |-> m]
LPOP(k)          == [cmd |-> "LPOP", k |-> k]

\* The database after one command.  HSET of "lastvisit" changes a field of
\* an existing hash that nothing here reads.
Exec(db, c) ==
  CASE c.cmd = "SADD"           -> [db EXCEPT !.names = @ \cup {c.q}]
    [] c.cmd = "HMSET meta"     -> [db EXCEPT !.meta[c.q] = c.t]
    [] c.cmd = "HSET submeta"   -> [db EXCEPT !.submeta[c.q] = @ \cup {c.c}]
    [] c.cmd = "HSET lastvisit" -> db
    [] c.cmd = "RPUSH"          -> [db EXCEPT !.lists[c.k] = Append(@, c.m)]
    [] c.cmd = "LPOP"           ->
         IF db.lists[c.k] = <<>> THEN db
         ELSE [db EXCEPT !.lists[c.k] = Tail(@),
                         !.taken[c.k] = Append(@, Head(db.lists[c.k]))]
=============================================================================
