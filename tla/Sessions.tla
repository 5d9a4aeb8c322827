------------------------------ MODULE Sessions ------------------------------
(***************************************************************************)
(* What the session half of QueueMgr promises its callers, with no list,   *)
(* no index and no mutex: a set of live sessions, each for one client on   *)
(* one queue, with the time of its last use.  A session ends because its   *)
(* client closes it, because the process dies, or because an expiry sweep  *)
(* takes it; a sweep takes only sessions unused for longer than            *)
(* SessionTime, at most RemoveOnceCount of them, the longest unused first, *)
(* and leaves an expired session behind only when it has taken that many.  *)
(*                                                                         *)
(* SessionTable is the data structure the code keeps; it is shown to       *)
(* implement this specification.                                           *)
(***************************************************************************)
EXTENDS Integers, FiniteSets

CONSTANTS
  Code,             \* the msgQueueCodes (uuids) that can be generated
  Client,           \* client names
  Queue,            \* queue names
  SessionTime,      \* App.MsgCodeSessionTime, in ticks of the clock
  RemoveOnceCount   \* Queue.RemoveExpireMsgCodeOnce: sessions per sweep

VARIABLES
  now,     \* time(NULL)
  issued,  \* the codes handed out so far; a uuid is never generated twice
  live     \* code -> [queue, client, last] of every live session

vars == <<now, issued, live>>

Init ==
  /\ now = 0
  /\ issued = {}
  /\ live = [c \in {} |-> c]

\* A client opens a queue and is given a code nobody has had before.
Open ==
  \E c \in Code \ issued, q \in Queue, cl \in Client :
    /\ issued' = issued \cup {c}
    /\ live' = [d \in DOMAIN live \cup {c} |->
                  IF d = c THEN [queue |-> q, client |-> cl, last |-> now]
                  ELSE live[d]]
    /\ UNCHANGED now

\* A client closes its session.
Close ==
  \E c \in DOMAIN live :
    /\ live' = [d \in DOMAIN live \ {c} |-> live[d]]
    /\ UNCHANGED <<now, issued>>

\* A client sends or fetches a message: the session starts a new lease.
Use ==
  \E c \in DOMAIN live :
    /\ live' = [d \in DOMAIN live |->
                  IF d = c THEN [live[d] EXCEPT !.last = now] ELSE live[d]]
    /\ UNCHANGED <<now, issued>>

\* The sweep.
Expire ==
  \E dead \in SUBSET DOMAIN live :
    /\ \A c \in dead : live[c].last < now - SessionTime
    /\ Cardinality(dead) <= RemoveOnceCount
    /\ Cardinality(dead) < RemoveOnceCount =>
         \A c \in DOMAIN live \ dead : live[c].last >= now - SessionTime
    /\ \A c \in dead, d \in DOMAIN live \ dead : live[c].last <= live[d].last
    /\ live' = [c \in DOMAIN live \ dead |-> live[c]]
    /\ UNCHANGED <<now, issued>>

\* The process dies; sessions are not persisted.
Reset ==
  /\ live' = [c \in {} |-> c]
  /\ UNCHANGED <<now, issued>>

Tick ==
  /\ now' = now + 1
  /\ UNCHANGED <<issued, live>>

Next == Open \/ Close \/ Use \/ Expire \/ Reset \/ Tick

Spec == Init /\ [][Next]_vars
=============================================================================
