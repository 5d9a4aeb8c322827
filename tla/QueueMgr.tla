------------------------------ MODULE QueueMgr ------------------------------
(***************************************************************************)
(* QueueMgr (mq/src/queuemgr.cpp) as its threads run it: the workers of    *)
(* the QueueProcessor open queues, send and fetch messages; the main       *)
(* thread loads the queue metadata at start-up and on the "load meta"      *)
(* line command; all of them share _name2Queue under _rwMutex and talk to  *)
(* Redis over a connection of their own.  A step is one Redis command or   *)
(* one critical section, so everything the code leaves unlocked            *)
(* interleaves here.                                                       *)
(*                                                                         *)
(* Sessions (SessionTable.tla) appear as the set of (client, queue) pairs  *)
(* that hold a live msgQueueCode.  The MSG_LIMIT branch of PushMsg cannot  *)
(* be taken: every maxcount the program writes is 0 (queueprocessor.cpp    *)
(* builds each QueueOption with maxCount 0).  How a Redis connection fails  *)
(* is the subject of RedisConnector.tla; here a SendMsgRequest or          *)
(* GetMsgRequest fails with it at any point of its pipeline, and so does a *)
(* load; what Redis runs of a failed pipeline it runs before the worker    *)
(* knows.  OpenQueue's SADD and HMSET are taken to be run both or neither. *)
(* What becomes of an answer that was put is NetMgr.tla's subject.         *)
(***************************************************************************)
EXTENDS Redis, FiniteSets, SequencesExt

CONSTANTS
  Worker,         \* the worker threads (App.ThreadCount of them)
  Retry,          \* TRUE if a client may have several requests under way
  Reopen,         \* TRUE if a client may open a queue on which it has a live session
  StrayGet,       \* TRUE if a client may fetch from a SUB2PUB queue it only publishes to
  MaxMsg,         \* bound: messages sent
  MaxFault,       \* bound: process restarts and requests given up, together
  MaxLoad         \* bound: "load meta" lines while serving

ASSUME KnobAssumption == {Retry, Reopen, StrayGet} \subseteq BOOLEAN
ASSUME BoundAssumption == {MaxMsg, MaxFault, MaxLoad} \subseteq Nat
ASSUME FiniteAssumption == IsFiniteSet(Client) /\ IsFiniteSet(Worker)

VARIABLES
  redis,       \* the database, which outlives the process
  cache,       \* _name2Queue: queue -> [type, clients]
  sess,        \* the (client, queue) pairs with a live msgQueueCode
  job,         \* what each worker thread is doing
  loader,      \* what the main thread's LoadQueues is doing
  sent,        \* how many messages clients have sent
  crashes,     \* how many times the process has died
  fails,       \* how many requests were given up after their pipeline was sent
  loads,       \* how many "load meta" lines there were
  raced,       \* history: whether a "load meta" and an OpenQueue have overlapped
  subscribed,  \* history: the (client, queue) pairs told SUCCESS as SUB2PUB subscriber
  acked,       \* history: the messages whose SendMsgRequest was answered SUCCESS
  handed       \* history: [k, m, c]: message m of list k was put into a
               \* GetMsgResult for client c

vars == <<redis, cache, sess, job, loader, sent, crashes, fails, loads, raced,
          subscribed, acked, handed>>
mem  == <<cache, sess>>
load == <<loads, raced>>
hist == <<sent, crashes, fails, load, subscribed, acked, handed>>

Idle   == [pc |-> "idle"]
NoLoad == [pc |-> "off"]
EmptyCache == [q \in {} |-> q]
PutQueue(q, e) == [x \in DOMAIN cache \cup {q} |-> IF x = q THEN e ELSE cache[x]]

\* map::operator[] value-initialises a missing entry: msgType 0 is PEER2PEER.
Entry(q) == IF q \in DOMAIN cache THEN cache[q] ELSE [type |-> PEER2PEER, clients |-> <<>>]

\* The process serves requests: start-up has loaded the metadata.
Serving == loader # NoLoad => ~loader.boot

\* A worker may take up a request of client c.
Free(w, c) ==
  /\ Serving
  /\ job[w] = Idle
  /\ ~Retry => \A v \in Worker : job[v] # Idle => job[v].c # c

\* Worker w goes on with j; a finished request returns it to RunOnce.
Goto(w, j) == job' = [job EXCEPT ![w] = j]
----------------------------------------------------------------------------
(* OpenQueue, as publisher *)

\* The jobs that are OpenQueue's.
Opening(j) == j # Idle /\ (j.pc = "pipe" => j.then = "open") /\ j.pc \notin {"pushed", "popped"}

\* History: an OpenQueue begins while "load meta" is at work.
OpenBegins == raced' = (raced \/ loader # NoLoad)

\* CreatePublisher: SISMEMBER, and if the queue is not there (and the request
\* has the create bit; without it nothing changes) SADD and HMSET follow in
\* one pipeline.  An existing queue's type is not looked at.
CreatePublisher(w, c, q, t) ==
  /\ Free(w, c)
  /\ <<c, q>> \in sess => Reopen
  /\ Goto(w, [pc |-> IF q \in redis.names THEN "open" ELSE "pipe", c |-> c, q |-> q, t |-> t,
              cmds |-> IF q \in redis.names THEN <<>> ELSE <<SADD(q), HMSETMeta(q, t)>>,
              then |-> "open", fresh |-> TRUE, got |-> <<>>, sub |-> FALSE])
  /\ OpenBegins
  /\ UNCHANGED <<redis, mem, loader, sent, crashes, fails, loads, subscribed, acked, handed>>

(* OpenQueue, as subscriber: five round trips or critical sections *)

\* SISMEMBER finds the queue (otherwise NO_EXIST and nothing changes).
CreateSubscriber(w, c, q, t) ==
  /\ Free(w, c)
  /\ <<c, q>> \in sess => Reopen
  /\ q \in redis.names
  /\ Goto(w, [pc |-> "hgetall", c |-> c, q |-> q, t |-> t, sub |-> TRUE])
  /\ OpenBegins
  /\ UNCHANGED <<redis, mem, loader, sent, crashes, fails, loads, subscribed, acked, handed>>

\* HGETALL of the metadata: INTERNAL_ERROR without it, MSGTYPE_ERROR on
\* another type, and a PEER2PEER subscriber is done.
CheckType(w) ==
  /\ job[w].pc = "hgetall"
  /\ Goto(w, IF redis.meta[job[w].q] # job[w].t THEN Idle
             ELSE [job[w] EXCEPT !.pc = IF job[w].t = PEER2PEER THEN "open" ELSE "hexists"])
  /\ UNCHANGED <<redis, mem, loader, hist>>

\* Seeded fault: HEXISTS's answer is ignored.
CheckSubscriberAlways(w) ==
  /\ job[w].pc = "hexists"
  /\ Goto(w, [job[w] EXCEPT !.pc = "hmset"])
  /\ UNCHANGED <<redis, mem, loader, hist>>

\* HEXISTS: a known subscriber needs nothing more.
CheckSubscriber(w) ==
  /\ job[w].pc = "hexists"
  /\ Goto(w, [job[w] EXCEPT !.pc =
                IF job[w].c \in redis.submeta[job[w].q] THEN "open" ELSE "hmset"])
  /\ UNCHANGED <<redis, mem, loader, hist>>

\* Seeded fault: the new subscriber is written to Redis but not cached.
AddSubscriberUncached(w) ==
  /\ job[w].pc = "hmset"
  /\ redis' = Exec(redis, HSETSub(job[w].q, job[w].c))
  /\ Goto(w, [job[w] EXCEPT !.pc = "open"])
  /\ UNCHANGED <<mem, loader, hist>>

\* HMSET of the subscriber hash.
AddSubscriber(w) ==
  /\ job[w].pc = "hmset"
  /\ redis' = Exec(redis, HSETSub(job[w].q, job[w].c))
  /\ Goto(w, [job[w] EXCEPT !.pc = "pushback"])
  /\ UNCHANGED <<mem, loader, hist>>

\* Under the lock: _name2Queue[q].clients.push_back.
CacheSubscriber(w) ==
  /\ job[w].pc = "pushback"
  /\ LET q == job[w].q
     IN  cache' = PutQueue(q, [Entry(q) EXCEPT !.clients = Append(@, job[w].c)])
  /\ Goto(w, [job[w] EXCEPT !.pc = "open"])
  /\ UNCHANGED <<redis, sess, loader, hist>>

\* Seeded fault: the request's option replaces the cached one.
OpenQueueOverwrites(w) ==
  /\ job[w].pc = "open"
  /\ LET q == job[w].q
     IN  /\ sess' = sess \cup {<<job[w].c, q>>}
         /\ cache' = PutQueue(q, [Entry(q) EXCEPT !.type = job[w].t])
  /\ Goto(w, Idle)
  /\ UNCHANGED <<redis, loader, hist>>

\* Under the lock: the session, and a cache entry with the request's option
\* if there is none; then the SUCCESS reply.
OpenQueue(w) ==
  /\ job[w].pc = "open"
  /\ LET q == job[w].q
     IN  /\ sess' = sess \cup {<<job[w].c, q>>}
         /\ cache' = IF q \in DOMAIN cache THEN cache
                     ELSE PutQueue(q, [type |-> job[w].t, clients |-> <<>>])
         /\ subscribed' = IF job[w].sub /\ job[w].t = SUB2PUB
                          THEN subscribed \cup {<<job[w].c, q>>} ELSE subscribed
  /\ Goto(w, Idle)
  /\ UNCHANGED <<redis, loader, sent, crashes, fails, load, acked, handed>>

\* CloseQueue, or the expiry sweep, ends the pair's last session.
CloseQueue(c, q) ==
  /\ Serving
  /\ <<c, q>> \in sess
  /\ sess' = sess \ {<<c, q>>}
  /\ UNCHANGED <<redis, cache, job, loader, hist>>
----------------------------------------------------------------------------
(* PushMsg and PopMsg *)

\* The pipeline PushMsg sends for message m to queue q cached as e: two
\* commands for every subscriber, in the order of the list.
PushCmds(q, e, m) ==
  IF e.type = SUB2PUB
  THEN [i \in 1..2 * Len(e.clients) |->
          IF i % 2 = 1 THEN RPUSH(SubKey(q, e.clients[(i + 1) \div 2]), m)
                       ELSE HSETSub(q, e.clients[i \div 2])]
  ELSE <<RPUSH(QueueKey(q), m), HSETVisit(q)>>

\* What the history records of a push: the message, its queue, whether it
\* went to the queue's own list, and the subscribers there were.
Ack(q, e, m) ==
  [m |-> m, q |-> q, peer |-> e.type = PEER2PEER,
   to |-> IF redis.meta[q] = SUB2PUB THEN {c \in Client : <<c, q>> \in subscribed} ELSE {}]

\* Seeded fault: SUCCESS is answered before Redis has confirmed the push, and
\* the client may go on.
PushMsgEarlyReply(w, c, q) ==
  /\ Free(w, c)
  /\ <<c, q>> \in sess
  /\ q \in DOMAIN cache
  /\ sent < MaxMsg
  /\ sent' = sent + 1
  /\ LET m == [from |-> c, n |-> sent + 1]
     IN  /\ acked' = acked \cup {Ack(q, cache[q], m)}
         /\ PushCmds(q, cache[q], m) # <<>>
         /\ Goto(w, [pc |-> "pipe", c |-> "nobody", q |-> q, cmds |-> PushCmds(q, cache[q], m),
                     then |-> "popped", fresh |-> TRUE, got |-> <<>>])
  /\ UNCHANGED <<redis, mem, loader, crashes, fails, load, subscribed, handed>>

\* PushMsg up to the unlock: the session and the cached queue are needed
\* (otherwise QUEUECODE_NOEXIST or NO_EXIST), the clients are copied, and a
\* SUB2PUB message without subscribers is dropped with SUCCESS.
PushMsg(w, c, q) ==
  /\ Free(w, c)
  /\ <<c, q>> \in sess
  /\ q \in DOMAIN cache
  /\ sent < MaxMsg
  /\ sent' = sent + 1
  /\ LET m    == [from |-> c, n |-> sent + 1]
         cmds == PushCmds(q, cache[q], m)
     IN  IF cmds = <<>>
         THEN /\ acked' = acked \cup {Ack(q, cache[q], m)}
              /\ UNCHANGED job
         ELSE /\ Goto(w, [pc |-> "pipe", c |-> c, q |-> q, cmds |-> cmds, then |-> "pushed", fresh |-> TRUE,
                          got |-> <<>>, ack |-> Ack(q, cache[q], m)])
              /\ UNCHANGED acked
  /\ UNCHANGED <<redis, mem, loader, crashes, fails, load, subscribed, handed>>

\* PopMsg up to the unlock, and the pipeline it sends.  Nothing checks that
\* the session is a subscriber's; StrayGet says whether such requests come.
PopMsg(w, c, q) ==
  /\ Free(w, c)
  /\ <<c, q>> \in sess
  /\ q \in DOMAIN cache
  /\ ~StrayGet => cache[q].type = PEER2PEER \/ <<c, q>> \in subscribed
  /\ Goto(w, [pc |-> "pipe", c |-> c, q |-> q, then |-> "popped", fresh |-> TRUE, got |-> <<>>,
              cmds |-> IF cache[q].type = SUB2PUB
                       THEN <<LPOP(SubKey(q, c)), HSETSub(q, c)>>
                       ELSE <<LPOP(QueueKey(q)), HSETVisit(q)>>])
  /\ UNCHANGED <<redis, mem, loader, hist>>

\* Seeded fault: every command is sent on its own, so that a crash can come
\* between any two.
RedisExecUnpiped(w) ==
  /\ job[w].pc = "pipe"
  /\ LET rest == Tail(job[w].cmds)
     IN  /\ redis' = Exec(redis, Head(job[w].cmds))
         /\ Goto(w, IF rest = <<>> /\ job[w].then = "idle" THEN Idle
                    ELSE [job[w] EXCEPT !.cmds = rest,
                                        !.pc = IF rest = <<>> THEN job[w].then ELSE @])
  /\ UNCHANGED <<mem, loader, hist>>

\* Worker w's reply to command cmd: what LPOP returns.
Popped(w, cmd) ==
  IF cmd.cmd = "LPOP" /\ redis.lists[cmd.k] # <<>>
  THEN <<[k |-> cmd.k, m |-> Head(redis.lists[cmd.k])]>> ELSE job[w].got

\* Redis executes the next command of a worker's pipeline.
RedisExec(w) ==
  /\ job[w].pc = "pipe"
  /\ LET cmd  == Head(job[w].cmds)
         rest == Tail(job[w].cmds)
     IN  /\ redis' = Exec(redis, cmd)
         /\ Goto(w, IF rest = <<>> /\ job[w].then = "idle" THEN Idle
                    ELSE [job[w] EXCEPT !.cmds = rest, !.fresh = FALSE, !.got = Popped(w, cmd),
                                        !.pc = IF rest = <<>> THEN job[w].then ELSE @])
  /\ UNCHANGED <<mem, loader, hist>>

\* Seeded fault: the session is looked up again when the message is there,
\* and a GetMsgRequest whose session has ended meanwhile is refused.
ReplyRechecks(w) ==
  /\ job[w].pc \in {"pushed", "popped"}
  /\ acked' = IF job[w].pc = "pushed" THEN acked \cup {job[w].ack} ELSE acked
  /\ handed' = IF <<job[w].c, job[w].q>> \in sess
                  THEN handed \cup {[k |-> g.k, m |-> g.m, c |-> job[w].c] : g \in ToSet(job[w].got)}
                  ELSE handed
  /\ Goto(w, Idle)
  /\ UNCHANGED <<redis, mem, loader, sent, crashes, fails, load, subscribed>>

\* All replies are in and good: SendMsgResult or GetMsgResult is put.
Reply(w) ==
  /\ job[w].pc \in {"pushed", "popped"}
  /\ acked' = IF job[w].pc = "pushed" THEN acked \cup {job[w].ack} ELSE acked
  /\ handed' = handed \cup
                    {[k |-> g.k, m |-> g.m, c |-> job[w].c] : g \in ToSet(job[w].got)}
  /\ Goto(w, Idle)
  /\ UNCHANGED <<redis, mem, loader, sent, crashes, fails, load, subscribed>>

\* A GetMsgRequest or SendMsgRequest is answered with an error although Redis
\* has run the first commands of its pipeline, or all: GetReply fails, a reply
\* is of the wrong type, or the message does not unserialize.  What LPOP has
\* returned is not put back.
GiveUp(w) ==
  /\ job[w].pc \in {"pipe", "pushed", "popped"}
  /\ job[w].then \in {"pushed", "popped"}
  /\ crashes + fails < MaxFault
  /\ fails' = fails + 1
  /\ Goto(w, Idle)
  /\ UNCHANGED <<redis, mem, loader, sent, crashes, load, subscribed, acked, handed>>
----------------------------------------------------------------------------
(* LoadQueues, on the main thread *)

\* LoadQueues begins, at start-up or for "load meta".
StartLoad(boot) ==
  loader' = [pc |-> "smembers", boot |-> boot, todo |-> {}, at |-> "", tmp |-> EmptyCache]

LoadMeta ==
  /\ loader = NoLoad
  /\ loads < MaxLoad
  /\ loads' = loads + 1
  /\ raced' = (raced \/ \E w \in Worker : Opening(job[w]))
  /\ StartLoad(FALSE)
  /\ UNCHANGED <<redis, mem, job, sent, crashes, fails, subscribed, acked, handed>>

\* SMEMBERS.  A new process forks, connects and selects its database before
\* it gets here; Redis has long run what the dead process left on its sockets.
LoadNames ==
  /\ loader.pc = "smembers"
  /\ loader.boot => \A w \in Worker : job[w] = Idle
  /\ loader' = [loader EXCEPT !.pc = "queue", !.todo = redis.names]
  /\ UNCHANGED <<redis, mem, job, hist>>

\* The whole load fails: "load meta" leaves the cache as it was, start-up exits
\* and is tried again.
GiveUpLoad == IF loader.boot THEN StartLoad(TRUE) ELSE loader' = NoLoad

\* One of the commands of LoadQueues fails or has a bad reply.
LoadFails ==
  /\ loader # NoLoad
  /\ GiveUpLoad
  /\ UNCHANGED <<redis, mem, job, hist>>

\* Seeded fault: a queue without metadata is loaded all the same.
LoadQueueUnchecked(q) ==
  /\ loader.pc = "queue"
  /\ q \in loader.todo
  /\ loader' = [loader EXCEPT
       !.pc = IF redis.meta[q] = SUB2PUB THEN "clients" ELSE "queue",
       !.todo = @ \ {q},
       !.at = q,
       !.tmp = [x \in DOMAIN @ \cup {q} |->
                  IF x = q THEN [type |-> redis.meta[q], clients |-> <<>>] ELSE @[x]]]
  /\ UNCHANGED <<redis, mem, job, hist>>

\* HGETALL of the next queue's metadata.  Without it the whole load fails.
LoadQueue(q) ==
  /\ loader.pc = "queue"
  /\ q \in loader.todo
  /\ IF redis.meta[q] = NoMeta
     THEN GiveUpLoad
     ELSE loader' = [loader EXCEPT
            !.pc = IF redis.meta[q] = SUB2PUB THEN "clients" ELSE "queue",
            !.todo = @ \ {q},
            !.at = q,
            !.tmp = [x \in DOMAIN @ \cup {q} |->
                       IF x = q THEN [type |-> redis.meta[q], clients |-> <<>>] ELSE @[x]]]
  /\ UNCHANGED <<redis, mem, job, hist>>

\* HGETALL of a SUB2PUB queue's subscribers, in the order Redis hashes them;
\* the LLENs only fill in counts.
LoadClients ==
  /\ loader.pc = "clients"
  /\ \E order \in SetToSeqs(redis.submeta[loader.at]) :
       loader' = [loader EXCEPT !.pc = "queue", !.tmp[loader.at].clients = order]
  /\ UNCHANGED <<redis, mem, job, hist>>

\* Under the lock: _name2Queue.swap.
SwapCache ==
  /\ loader.pc = "queue"
  /\ loader.todo = {}
  /\ cache' = loader.tmp
  /\ loader' = NoLoad
  /\ UNCHANGED <<redis, sess, job, hist>>
----------------------------------------------------------------------------
(* Process death *)

\* What is left of worker w's request when the process dies.  hiredis writes
\* a pipeline at once: if Redis has run none of it, it may never have been
\* written (lost); once it has begun, the rest is in Redis's input buffer and
\* will run, with nobody to read the replies.
Orphan(w, lost) ==
  IF job[w].pc = "pipe" /\ ~(lost /\ job[w].fresh)
  THEN [job[w] EXCEPT !.then = "idle"] ELSE Idle

\* The process dies (an assertion, a signal, the "exit" line) and the parent
\* starts another, which loads the metadata before it serves.
Crash ==
  /\ crashes + fails < MaxFault
  /\ crashes' = crashes + 1
  /\ cache' = EmptyCache
  /\ sess' = {}
  /\ \E lost \in SUBSET Worker : job' = [w \in Worker |-> Orphan(w, w \in lost)]
  /\ StartLoad(TRUE)
  /\ UNCHANGED <<redis, sent, fails, load, subscribed, acked, handed>>
----------------------------------------------------------------------------
Init ==
  /\ redis = EmptyDb
  /\ cache = EmptyCache
  /\ sess = {}
  /\ job = [w \in Worker |-> Idle]
  /\ loader = NoLoad
  /\ sent = 0
  /\ crashes = 0
  /\ fails = 0
  /\ loads = 0
  /\ raced = FALSE
  /\ subscribed = {}
  /\ acked = {}
  /\ handed = {}

Open(w) ==
  \/ \E c \in Client, q \in Queue, t \in MsgType : CreatePublisher(w, c, q, t)
  \/ \E c \in Client, q \in Queue, t \in MsgType : CreateSubscriber(w, c, q, t)
  \/ CheckType(w)
  \/ CheckSubscriber(w)
  \/ AddSubscriber(w)
  \/ CacheSubscriber(w)
  \/ OpenQueue(w)

Message(w) ==
  \/ \E c \in Client, q \in Queue : PushMsg(w, c, q)
  \/ \E c \in Client, q \in Queue : PopMsg(w, c, q)
  \/ RedisExec(w)
  \/ Reply(w)
  \/ GiveUp(w)

LoadQueues ==
  \/ LoadMeta
  \/ LoadNames
  \/ \E q \in Queue : LoadQueue(q)
  \/ LoadClients
  \/ LoadFails
  \/ SwapCache

Next ==
  \/ \E w \in Worker : Open(w)
  \/ \E w \in Worker : Message(w)
  \/ \E c \in Client, q \in Queue : CloseQueue(c, q)
  \/ LoadQueues
  \/ Crash

Spec == Init /\ [][Next]_vars
----------------------------------------------------------------------------
(* Properties *)

\* Every variable has the shape of the C++ object or Redis value it stands for.
TypeOK ==
  /\ redis.names \subseteq Queue
  /\ redis.meta \in [Queue -> MsgType \cup {NoMeta}]
  /\ redis.submeta \in [Queue -> SUBSET Client]
  /\ DOMAIN cache \subseteq Queue
  /\ \A q \in DOMAIN cache : cache[q].type \in MsgType /\ ToSet(cache[q].clients) \subseteq Client
  /\ sess \subseteq Client \X Queue
  /\ sent \in 0..MaxMsg
  /\ crashes + fails \in 0..MaxFault
  /\ loads \in 0..MaxLoad

Count(s, m) == Cardinality({i \in DOMAIN s : s[i] = m})

\* Everything that ever went through list k, oldest first.
Through(k) == redis.taken[k] \o redis.lists[k]

\* A name in __meta_queuenames has metadata, or its HMSET is still to come
\* right behind the SADD.  LoadQueues gives up on the first name without
\* metadata and CreatePublisher never repairs one, so a single such name
\* would keep the process from ever starting again.
Restartable ==
  \A q \in redis.names :
    \/ redis.meta[q] # NoMeta
    \/ \E w \in Worker : job[w].pc = "pipe" /\ job[w].q = q

\* _name2Queue is the cached copy of what Redis says (the comment at
\* queuemgr.h:120): a queue is cached with the message type Redis has, as
\* long as nobody opens a queue during "load meta".
CacheIsRedis ==
  ~raced => \A q \in DOMAIN cache : cache[q].type = redis.meta[q]

\* A subscriber is in the fan-out list once, so a push gives it one copy (again
\* with no OpenQueue during "load meta").
NoDuplicateSubscriber ==
  ~raced => \A q \in DOMAIN cache : IsInjective(cache[q].clients)

\* A PEER2PEER message answered with SUCCESS went through its queue's list
\* exactly once: it is waiting there or one LPOP has returned it.  Whatever
\* the other workers, the loader and crashes do, none is lost by the server
\* or handed out twice.
PeerMessageOnce ==
  /\ \A a \in acked : a.peer => Count(Through(QueueKey(a.q)), a.m) = 1
  /\ \A q \in Queue : \A i \in DOMAIN Through(QueueKey(q)) :
       Count(Through(QueueKey(q)), Through(QueueKey(q))[i]) = 1

\* Messages that LPOP has removed from Redis and that were put into no answer,
\* apart from those a worker is about to answer with.
Vanished ==
  {x \in [k : Keys, m : UNION {ToSet(redis.taken[k]) : k \in Keys}] :
     /\ x.m \in ToSet(redis.taken[x.k])
     /\ \A d \in handed : <<d.k, d.m>> # <<x.k, x.m>>
     /\ \A w \in Worker : job[w] # Idle /\ job[w].pc \in {"pipe", "popped"} /\ job[w].then = "popped"
                          => x \notin ToSet(job[w].got)}

\* Delivery is at most once, and what is lost between Redis and the answer is
\* accounted for: one message at most for every request given up and, for a
\* crash, one for every worker.  A session that ends meanwhile, another worker
\* or a reload of the metadata loses none.
LossesAccounted == Cardinality(Vanished) <= crashes * Cardinality(Worker) + fails

\* Messages of one publisher go through a list in the order it sent them, as
\* long as it waits for each answer (test_sequence.py sends this way).
PublisherOrder ==
  \A k \in Keys : LET s == Through(k) IN
    \A i, j \in DOMAIN s : i < j /\ s[i].from = s[j].from => s[i].n <= s[j].n

\* Once a SUB2PUB subscriber has its SUCCESS, every message whose send began
\* later and was answered SUCCESS reaches its own list, exactly once: restarts
\* and a "load meta" in between (with no OpenQueue during it) forget nobody.
EverySubscriberServed ==
  ~raced => \A a \in acked : \A c \in a.to : Count(Through(SubKey(a.q, c)), a.m) = 1
=============================================================================
