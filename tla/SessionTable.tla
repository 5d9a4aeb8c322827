---------------------------- MODULE SessionTable ----------------------------
(***************************************************************************)
(* The session half of QueueMgr (mq/src/queuemgr.cpp): the structures that *)
(* relate a msgQueueCode to a client and a queue and that expire the codes *)
(* nobody uses.  All of them are guarded by _rwMutex, so each critical     *)
(* section is one action.                                                  *)
(*                                                                         *)
(*   _msgCodeSequence          a std::list of (time, code), most recently  *)
(*                             used first: the sequence seq                *)
(*   _msgQueueCode2QueueName   code -> (queue, client, list iterator):     *)
(*                             the function code2queue; the iterator is    *)
(*                             the position of the code's item in seq      *)
(*   _client2MsgCode           (client, queue) -> code: client2code        *)
(*   _name2Queue               only its key set matters here: cached       *)
(*                                                                         *)
(* The Redis traffic around these sections is the subject of QueueMgr.tla. *)
(***************************************************************************)
EXTENDS Integers, Sequences, FiniteSets

CONSTANTS
  Code, Client, Queue,
  SessionTime,      \* App.MsgCodeSessionTime
  RemoveOnceCount,  \* Queue.RemoveExpireMsgCodeOnce
  MaxTime           \* bound: the clock stops here

\* _sessionTime and _removeOnceCount are ints read from the configuration;
\* the code gives no meaning to negative values.
ASSUME SessionTimeAssumption == SessionTime \in Nat
ASSUME RemoveOnceAssumption == RemoveOnceCount \in Nat
ASSUME MaxTimeAssumption == MaxTime \in Nat

VARIABLES
  now,          \* time(NULL)
  issued,       \* history: the codes uuid_generate has returned
  seq,          \* _msgCodeSequence
  code2queue,   \* _msgQueueCode2QueueName
  client2code,  \* _client2MsgCode
  cached        \* the keys of _name2Queue

vars == <<now, issued, seq, code2queue, client2code, cached>>

Item    == [code : Code, time : Nat]
Session == [queue : Queue, client : Client]
Key     == Client \X Queue

----------------------------------------------------------------------------
(* std::list and std::map operations *)

\* list::push_front
PushFront(e, s) == [i \in 1..(Len(s) + 1) |-> IF i = 1 THEN e ELSE s[i - 1]]

\* list::erase(pos)
EraseAt(s, p) == [i \in 1..(Len(s) - 1) |-> IF i < p THEN s[i] ELSE s[i + 1]]

\* list::splice(begin(), list, pos, next(pos)) after the item became e
MoveToFront(s, p, e) ==
  [i \in 1..Len(s) |-> IF i = 1 THEN e ELSE IF i <= p THEN s[i - 1] ELSE s[i]]

\* list::erase(it.base(), end()): drop the last k items
DropLast(s, k) == [i \in 1..(Len(s) - k) |-> s[i]]

\* map::operator[](k) = v
Put(f, k, v) == [x \in DOMAIN f \cup {k} |-> IF x = k THEN v ELSE f[x]]

\* map::erase of every key in ks
Erase(f, ks) == [x \in DOMAIN f \ ks |-> f[x]]

EmptyMap == [x \in {} |-> x]

\* tagMsgCode2QueueItem.pos
PosIn(s, c) == CHOOSE i \in 1..Len(s) : s[i].code = c
PosOf(c) == PosIn(seq, c)

\* The key CloseQueue and the sweep erase from _client2MsgCode for code c.
KeyOf(c) == <<code2queue[c].client, code2queue[c].queue>>
----------------------------------------------------------------------------
Init ==
  /\ now = 0
  /\ issued = {}
  /\ seq = <<>>
  /\ code2queue = EmptyMap
  /\ client2code = EmptyMap
  /\ cached \in SUBSET Queue

\* OpenQueue, once CreatePublisher or CreateSubscriber has returned SUCCESS.
OpenQueue(q, cl) ==
  \E c \in Code \ issued :
    /\ issued' = issued \cup {c}
    /\ seq' = PushFront([code |-> c, time |-> now], seq)
    /\ code2queue' = Put(code2queue, c, [queue |-> q, client |-> cl])
    /\ cached' = cached \cup {q}
    /\ client2code' = Put(client2code, <<cl, q>>, c)
    /\ UNCHANGED now

\* Seeded fault: the list item of a closed session is left in the list.
CloseQueueKeepsItem(c) ==
  /\ c \in DOMAIN code2queue
  /\ client2code' = Erase(client2code, {KeyOf(c)})
  /\ code2queue' = Erase(code2queue, {c})
  /\ UNCHANGED <<now, issued, seq, cached>>

\* Seeded fault: the index entry of a closed session is left in the index.
CloseQueueKeepsIndex(c) ==
  /\ c \in DOMAIN code2queue
  /\ seq' = EraseAt(seq, PosOf(c))
  /\ code2queue' = Erase(code2queue, {c})
  /\ UNCHANGED <<now, issued, client2code, cached>>

\* CloseQueue of a known code; an unknown one is refused and nothing changes.
CloseQueue(c) ==
  /\ c \in DOMAIN code2queue
  /\ client2code' = Erase(client2code, {KeyOf(c)})
  /\ seq' = EraseAt(seq, PosOf(c))
  /\ code2queue' = Erase(code2queue, {c})
  /\ UNCHANGED <<now, issued, cached>>

\* Seeded fault: the item gets its new time but stays where it is.
GetQueueNameNoSplice(c) ==
  /\ c \in DOMAIN code2queue
  /\ code2queue[c].queue \in cached
  /\ seq' = [seq EXCEPT ![PosOf(c)].time = now]
  /\ UNCHANGED <<now, issued, code2queue, client2code, cached>>

\* Seeded fault: the item is given its deadline relative to the wrong end.
GetQueueNameEarlier(c) ==
  /\ c \in DOMAIN code2queue
  /\ code2queue[c].queue \in cached
  /\ seq' = MoveToFront(seq, PosOf(c), [code |-> c, time |-> now - SessionTime])
  /\ UNCHANGED <<now, issued, code2queue, client2code, cached>>

\* GetQueueName, the first thing PushMsg and PopMsg do: the session is
\* refreshed only if its code is known and its queue is in _name2Queue.
GetQueueName(c) ==
  /\ c \in DOMAIN code2queue
  /\ code2queue[c].queue \in cached
  /\ seq' = MoveToFront(seq, PosOf(c), [code |-> c, time |-> now])
  /\ UNCHANGED <<now, issued, code2queue, client2code, cached>>

\* Seeded fault: the sweep's comparison is off by one.
SweepCountEager(k, expireTime) ==
  /\ k \in 0..Len(seq)
  /\ k <= RemoveOnceCount
  /\ \A i \in (Len(seq) - k + 1)..Len(seq) : seq[i].time <= expireTime
  /\ k < Len(seq) /\ k < RemoveOnceCount => seq[Len(seq) - k].time > expireTime

\* How many items the sweep's reverse loop takes before it stops: at the
\* list's front, at RemoveOnceCount items, or at the first unexpired item.
SweepCount(k, expireTime) ==
  /\ k \in 0..Len(seq)
  /\ k <= RemoveOnceCount
  /\ \A i \in (Len(seq) - k + 1)..Len(seq) : seq[i].time < expireTime
  /\ k < Len(seq) /\ k < RemoveOnceCount => seq[Len(seq) - k].time >= expireTime

\* RemoveExpireMsgQueueCode, called with time(NULL) - _sessionTime.
RemoveExpireMsgQueueCode ==
  \E k \in 0..Len(seq) :
    LET dead == {seq[i].code : i \in (Len(seq) - k + 1)..Len(seq)}
    IN  /\ SweepCount(k, now - SessionTime)
        /\ client2code' = Erase(client2code, {KeyOf(c) : c \in dead})
        /\ code2queue' = Erase(code2queue, dead)
        /\ seq' = DropLast(seq, k)
        /\ UNCHANGED <<now, issued, cached>>

\* LoadQueues swaps a new map into _name2Queue: any set of names, as far as
\* the sessions can tell.
LoadQueues ==
  /\ cached' \in SUBSET Queue
  /\ UNCHANGED <<now, issued, seq, code2queue, client2code>>

\* The child process dies and the parent starts another, whose QueueMgr has
\* no sessions and has loaded the queue names from Redis.
Restart ==
  /\ seq' = <<>>
  /\ code2queue' = EmptyMap
  /\ client2code' = EmptyMap
  /\ cached' \in SUBSET Queue
  /\ UNCHANGED <<now, issued>>

\* The clock moves on; time(NULL) is taken to be monotonic.
Tick ==
  /\ now < MaxTime
  /\ now' = now + 1
  /\ UNCHANGED <<issued, seq, code2queue, client2code, cached>>

Next ==
  \/ \E q \in Queue, cl \in Client : OpenQueue(q, cl)
  \/ \E c \in Code : CloseQueue(c)
  \/ \E c \in Code : GetQueueName(c)
  \/ RemoveExpireMsgQueueCode
  \/ LoadQueues
  \/ Restart
  \/ Tick

Spec == Init /\ [][Next]_vars
----------------------------------------------------------------------------
(* Properties *)

\* Every variable has the shape of the C++ container it stands for.
TypeOK ==
  /\ now \in Nat
  /\ issued \in SUBSET Code
  /\ seq \in Seq(Item)
  /\ DOMAIN code2queue \subseteq Code
  /\ code2queue \in [DOMAIN code2queue -> Session]
  /\ DOMAIN client2code \subseteq Key
  /\ client2code \in [DOMAIN client2code -> Code]
  /\ cached \in SUBSET Queue

\* The list and the map describe the same sessions, each exactly once.  It is
\* what makes every stored iterator valid in CloseQueue and GetQueueName, and
\* what the sweep relies on when it dereferences the result of
\* _msgQueueCode2QueueName.find without acting on end().
ListMatchesMap ==
  /\ \A i \in 1..Len(seq) : seq[i].code \in DOMAIN code2queue
  /\ \A c \in DOMAIN code2queue : \E i \in 1..Len(seq) : seq[i].code = c
  /\ \A i, j \in 1..Len(seq) : seq[i].code = seq[j].code => i = j

\* The list is ordered by time of last use, newest first, which is why the
\* sweep may stop at the first unexpired item from the back.
NewestFirst ==
  /\ \A i \in 1..Len(seq) : seq[i].time <= now
  /\ \A i, j \in 1..Len(seq) : i < j => seq[i].time >= seq[j].time

\* Whatever _client2MsgCode still holds leads to a live session of that very
\* client on that very queue; closing or sweeping one of several sessions of
\* a client never leaves an entry for a dead code behind.
IndexNeverDangles ==
  \A k \in DOMAIN client2code :
    /\ client2code[k] \in DOMAIN code2queue
    /\ KeyOf(client2code[k]) = k

\* A code is never live again once it has died.
IssuedOnce == DOMAIN code2queue \subseteq issued

----------------------------------------------------------------------------
(* SessionTable implements Sessions *)

Live ==
  [c \in DOMAIN code2queue |->
     [queue |-> code2queue[c].queue, client |-> code2queue[c].client,
      last |-> seq[PosOf(c)].time]]

Abstract == INSTANCE Sessions WITH live <- Live

\* The list, the map and the early-stopping sweep together do what Sessions
\* says: a sweep never takes a session used within SessionTime, takes the
\* longest unused first, and misses no expired one below its limit.
ImplementsSessions == Abstract!Spec
=============================================================================
