# DOMQ in TLA+

DOMQ is a message queue server: clients open named queues over TCP, send and
fetch messages with JSON requests, and Redis stores queues, subscribers and
messages. This directory models the server's own logic in TLA+, checks it with
TLC on small instances and proves part of it with TLAPS for all instances.

Check a run with `tlc -config MCSessionTable.cfg MCSessionTable`, a proof with
`tlapm SessionTableProofs.tla`. `PROJECT.json` lists runs, theorems, the source
lines behind every definition, the seeded faults each property is known to
detect (definitions commented "Seeded fault", used by no specification), and the
hazards the properties are for.

## 1. Inventory

### Processes and threads

    parent (processcontrol.cpp) --socket pair, fork, waitpid--> child
    child:  net thread --_requestQueue--> main thread --_requestQueue--> workers
                ^---------------------- _resultQueue + wake-up pipe ------|
            workers, main thread --one connection each--> Redis

| Component | State | Operations | Talks to | Modelled in |
|---|---|---|---|---|
| QueueMgr, sessions (`queuemgr.cpp`) | `_msgCodeSequence`, `_msgQueueCode2QueueName`, `_client2MsgCode` under `_rwMutex` | open, close, refresh (`GetQueueName`), expiry sweep | workers, main thread | `Sessions`, `SessionTable`, `SessionTableProofs` |
| QueueMgr, queues | `_name2Queue` under `_rwMutex`; Redis: names, metadata hashes, subscriber hashes, lists | `OpenQueue` (publisher, subscriber), `PushMsg`, `PopMsg`, `LoadQueues` | Redis | `QueueMgr`, `QueueMgrProofs`, `Redis` |
| RedisConnector | context, `_connected`, unsent commands, unread replies | `Connect`, `Close`, `Command`, `AppendCommand`, `GetReply` | Redis | `RedisConnector`, `RedisConnectorProofs` |
| Network layer (`netmgr`, `base/net`) | descriptors, handlers and their pool, address registry, two `SyncObjectStack`s, pipe; per connection two `MemBlock`s and a write event | accept, read, answer, close, time out, wake up | clients, workers | `NetMgr` (many connections), `NetMgrProofs`, `Connection` (one, byte by byte), `ConnectionProofs`, `Channel` |
| QueueProcessor, ThreadPool | `_requestQueue`, `_livethreads`, `_stop`, control socket | `Run`, operator lines, `reload`, `RunOnce` | all of the above | `QueueProcessor` |
| Process supervisor | `_childPid`, `_fd`, `_stop` | `Run`, `ChildDead`, `Create`, `Stop`, `Uninit` | child | `ProcessControl`, `ProcessControlProofs` |
| ObjectQueue, ObjectStack | a list, its limit, a condition variable | put, get with timeout | net, main, workers | `ObjectQueue`, `ObjectQueueProofs`; composed in `QueueProcessor`, `QueueProcessorProofs` |
| Coders (`coder.cpp`) | none of their own | find packages in a byte stream, encode an answer | net thread | `Coder`, used by `Connection`, `ConnectionProofs` |
| Buffers (`memblock.cpp`) | bytes and capacity | resize, copy, append, cut | net thread | `MemBlock`, used by `Connection`, `ConnectionProofs` |
| Factories | the known types | create a message by name | net thread, workers | `QueueProcessor` (KnownTypes) |
| Messages' fields, allocators' chunks, socket and lock wrappers, log, configuration, jsoncpp | - | - | - | no: field copying, thin wrappers, I/O or third party |

### What is hard here

- `_rwMutex` is released around every Redis round trip, so the cache and Redis
  are read, written and swapped in interleavings nobody wrote.
- Pipelines are not transactions and the process may die inside one.
- Replies have no identity: one that is not read shifts all later ones.
- A connection is a TCP connection, a descriptor, a handler and a registry
  entry, and the code ends their lives at different times.
- The main thread looks at its control socket, and at expired sessions, only
  when no message has come for `PopMsgBlockTimeUs`.
- The parent must tell a dead, a dying and a never forked child apart, and may
  itself be killed and started again beside the child it left.
- A signalled thread must get the mutex again; meanwhile another may take what
  it was woken for, or its own time may run out.
- TCP cuts both byte streams of a connection anywhere.

### What correct means

| Component | Properties |
|---|---|
| sessions | every stored list iterator is valid; the sweep's early stop is right; the index never leads to a dead or foreign session; together they implement "a set of leases" |
| queues | the process can always start again; the cache agrees with Redis; a subscriber is served once per message; acknowledged messages are not lost or doubled; what is lost between LPOP and the answer is accounted for; a publisher's messages stay in order |
| connector | a request or a load reads its own replies, all of them, and ends |
| network | an answer goes to the one who asked, once, and nobody is forgotten |
| connection | packages go through whole, in order, once, as soon as they can |
| processor | requests are taken up through a reload once a worker serves; stop and expiry happen; every result can be made |
| object queue | nobody sleeps while there is something nobody is on the way to |
| supervisor | one child at a time and none left unreaped, a dead child replaced, service resumed after an orphan, the living one stopped and waited for |

## 2. Modules and the code

Every variable carries the name of the C++ member or Redis key it stands for in
its comment; every action the name of the function, or of the stretch of it
between two points where other threads can run.

**Sessions, SessionTable.** `Sessions` is the promise: live codes with the time
of their last use; a sweep takes only expired ones, the longest unused first, at
most `RemoveOnceCount`, and leaves expired ones only at that limit.
`SessionTable` is the code: a `std::list` newest first (a sequence), a map from
code to session and list iterator (the iterator is the item's position, `PosOf`),
and the (client, queue) index. Each critical section is one action. `Restart` is
the death of the process; sessions are not persisted.

**Redis, QueueMgr.** `Redis` (external) executes one command at a time on a
database record; `taken` remembers what LPOP returned. In `QueueMgr` a worker's
request is a record with a program counter; a step is one Redis command or one
critical section. `LoadQueues` runs on the main thread, at start-up and for
`load meta`. `Crash` loses memory and keeps Redis; a pipeline that Redis has
begun is run to its end, one it has not begun may be lost, for each worker on its
own. `GiveUp` is every error path of `PushMsg` and `PopMsg` behind the first
AppendCommand (`queuemgr.cpp:503-523, 598-612`): a failed GetReply, a bad reply,
a message that does not unserialize. The request ends wherever its pipeline is,
and what LPOP has removed stays removed. What Redis runs of a failed pipeline it
runs before the worker knows; SADD and HMSET of `OpenQueue`, whose replies nobody
looks at, are run both or neither. `LoadFails` ends a load at any of its
commands. Sessions are reduced to live (client, queue) pairs, which
`SessionTable` justifies. The `got` of a job and `handed` follow a message from
LPOP into an answer; whether the answer then reaches its client is the subject of
`NetMgr` and `Connection`. `raced` remembers that a `load meta` overlapped an `OpenQueue`, after which the cache
may be wrong (see 6). The MSG_LIMIT
branch of `PushMsg` is left out because every `maxcount` the program writes is 0.

**RedisConnector.** The hiredis context, its output buffer, commands received
and not answered, replies under way. `Script` gives, per operation of
`queuemgr.cpp` and for `LoadQueues`, its pipelines and how many replies the
`_CHECK_REPLY` macro (`queuemgr.cpp:18-34`) reads after a bad one, derived from
the macro's arguments as the preprocessor pastes them: in `PushMsg`,
`--totalReply` is evaluated several times; in `LoadQueues` (line 448) the loop's
`queue.clients.size()-i-1` meets the macro's own `i`. `miscounted` remembers the
operations that have read too few or too many replies on the present connection,
`stranded` the request whose GetReply has connected anew and waits for replies to
commands that went with the old context; Slipped is what the properties except.

**NetMgr.** Net thread, workers and kernel. `SendAnswer`, `HandleOutputTo` and
the operators they use include what `EventManager` does to the descriptor, also
when it belongs to someone else by then. `stranded` counts the answers an
encoding error left behind: the loop ends with them unsent, and the next answer
takes them along. `got` counts copies: an element is a request, the connection
its answer was sent on, and how often. With `SharedAddr` a second connection may
come under the peer address of one that is open, as over the two acceptors of
`mq.cfg`, which share a registry; the registry then leads to the newer handler.

**MemBlock, Coder, Connection, Channel.** `Connection` is one connection at the
level of bytes: `HandleInput` with a recv of any length, `Extract`, the move of
the rest to the front of `_recvbuffer`; `Send` and `HandleOutput` with a send of
any length or EAGAIN, and the write event. `MemBlock` and `Coder` are operators,
`Extract` a recursive function over the position `used`. A byte is a pair of its
package and its place, which stands for its value: the first `HeadLen` bytes
spell the package's size, a line's last byte is the newline. A package that does
not decode ends the connection; some of those end the process instead (section
6), which to this connection is the same. The client reads as
`network.py` does (`recvn` of the head, then of the rest) but may send without
waiting, as any client may. `Channel` is the promise: two sequences of packages.
`NetMgr` keeps what this module leaves out (other connections, reuse of
descriptors) and leaves out what this one keeps (a message there is sent whole
or not at all).

**ObjectQueue.** `SyncObjectQueue` and `SyncObjectStack`: what happens between
lock and unlock is one step, `pthread_cond_timedwait` is two (woken or timed
out, then the mutex again), so that others can put and take in between.
Spurious wake-ups are left out: they only repeat the look at `_data`.

**QueueProcessor.** Main thread, workers, control socket and clock, over two
instances of `ObjectQueue`: the main thread waits on a stack, the workers on a
queue. A worker that asks the factory for a result nobody registered aborts the
process. `Start` of the thread pool is three actions because the new thread runs
before it is put into `_livethreads`, without the mutex: if a thread takes
itself out of the list meanwhile (`torn`), the new entry may be lost, or the
process die. A `reload` may come at any time, also before a worker has looked at
`_stop`. Operator lines are
reduced to "reports", "exits" and "reloads".

**ProcessControl.** Parent and children. `ChildDead(-1)` after a failed fork
reaps any child, as `waitpid(-1)` does. `Create` overwrites `_fd` without
closing it, so that each respawn keeps a descriptor; when none are left
`socketpair` fails, `Create` goes on with two uninitialised numbers (any of the
parent's descriptors may be closed by them) and the child is deaf to "stop". The
parent may be killed by a signal it does not catch; its child then serves on,
and the child of a parent started again cannot bind the address (a TCP address,
as in `mq.cfg`) and dies, over and over, until the orphan does.

`QueueProcessor` composes two `ObjectQueue`s, `Connection` a coder and two
buffers, `QueueMgr` stands on `Redis`. The others meet at interfaces stated in
both: the live pairs between `SessionTable` and `QueueMgr`, the message a
worker takes between `NetMgr` and `QueueProcessor`, a stage (pipeline) between
`QueueMgr` and `RedisConnector`, and `QueueProcessor`'s StopIsHonoured, which is
the fairness `ProcessControl` assumes of a child.

### Switches of the environment

| Constant | Meaning |
|---|---|
| `QueueMgr.Retry` | a client sends a request before the last one is answered |
| `QueueMgr.Reopen` | a client opens a queue on which it has a live session |
| `QueueMgr.StrayGet` | a client fetches from a SUB2PUB queue it only publishes to |
| `QueueMgr.MaxFault` | how many crashes and given up requests there are, together |
| `RedisConnector.ErrorOps` | operations of which Redis may refuse a command |
| `NetMgr.Orderly` | clients wait for their answers, do not time out or return under an old address; answers can be encoded |
| `NetMgr.SharedAddr` | two open connections may have one peer address |

Assumed throughout: the clock does not go back (`SessionTable`); a new process
reaches SMEMBERS after Redis has run what the old one left on its sockets
(`QueueMgr`); seconds pass only while the threads have nothing to do
(`QueueProcessor`);
SIGINT comes after `processMgr` is set and is the only signal it catches, and
pids are not reused (`ProcessControl`); no answer comes within a head's length of
the end of the 1 MB encode buffer, and clients send well-formed heads and no
empty bodies (`Connection`).

## 3. Runs

A run asks one question. Bounds are named in the modules; below, why they are
enough for the case in question to happen.

| Run | Question and answer | Bounds |
|---|---|---|
| `sessions` | Do list, map and index agree, stay ordered, and implement `Sessions`? Yes. | 4 codes so that one client has two sessions and two are left after a sweep of 2; lease 1, clock to 4: several sessions expire at different times and more than one sweep can take |
| `queues_shipped` | With one worker (`App.ThreadCount = 1`, as shipped), retries, a `load meta` that may fail, and a crash or a failed request at any point: can the process start again, are messages kept and fetched once, and lost behind LPOP only where a fault accounts for it? Yes. Is the cache right, every subscriber served once? Yes, unless the load overlapped an open. | publisher and subscriber (or two of either), one queue, 2 messages, 1 crash or failed request, 1 load; queues do not interact; 3.3 million states |
| `queues_threads` | With two workers, a crash or a failed request, and clients that wait for answers and open a queue when they have no session on it: are acknowledged PEER2PEER messages kept once, and in order, and are losses behind LPOP accounted for? Yes. | as above, 2 workers: every pair of requests in parallel, sessions that end at any point of them; 3.0 million states |
| `connector` | Does every request and load read its own replies, leave none, and end, with any command refused and through outages? Yes, except on a connection where a refused command of a push, or of a load with three or more subscribers, has made the macro miscount (see 6), and except for the end of a request that connects anew in GetReply. | 4 requests: before, during and after 2 outages; pushes to 1 and 2 lists, loads of 2, 3 and 4 subscribers: the macro reads as many as it should, too few and too many; 300,000 states |
| `connector_abort` | Is there always a context to append to, as `assert(_redis)` says? **No.** | 2 requests, 1 outage |
| `network_orderly` | Is every waiting client answered, on its own connection? Yes. | 2 connections with 2 requests each: two workers putting answers while the net thread ends its loop; sockets may fill up at any send |
| `network_faults` | With clients leaving, idling, returning and connecting twice under one address, and answers that cannot be encoded: do stacks keep their limits, is nothing answered twice, on one connection or on two, is no wake-up lost? Yes. | 3 connections over 2 descriptors and 2 addresses, 2 requests each, limit 2: descriptors and addresses are reused, stacks overflow, an answer lies under one that fails; 2.8 million states |
| `network_reuse` | Is the handler of a closed connection "not found"? **No**: its answer goes to whoever has its descriptor now. | 2 connections |
| `connection` | However recv and send cut the streams: are packages handed over whole, in order, once and at once, answers read likewise, and does everything get through? Yes, for both coders. | a head of 2 bytes and bodies of 1 or 2, 2 packages: a recv can end in a head, a body, at a package's end or in the next package; blocks that must grow; a socket that takes 3 bytes; a bad package behind a good one; 143,000 states |
| `processor` | Does no thread sleep over work, are requests taken up through a reload once a worker serves, is a stop honoured, do sessions expire? Yes, once the clients pause. | 1 or 2 threads, reload to 1 or 2 at any time, inbox of 1 and queue of 2, 2 requests, 1 operator line: two workers asleep, a put for each, one of them timing out; a reload between a thread's start and its look at `_stop`; 272,000 states |
| `processor_close` | Can every result be made, as `assert(res)` says? **No**: not that of a CloseMsgQueueRequest. | as above |
| `supervisor` | Is no child forked beside another, a dead one replaced, service resumed when an orphan gives up the address, and does SIGINT end everything? Yes. | 5 pids, 2 failed forks, 3 descriptors, a parent killed twice: children beside an orphan, a child after the descriptors have run out; 169,000 states |

CHECK_DEADLOCK is off where the system rests: when all connections of the model
are used up, when a bounded number of requests is over, after `exit`.

**Fairness.** Threads of the process, Redis and the deadline of a timed wait are
scheduled (weak fairness); operators, outages, crashes, signals and the restart
of a killed parent have none, nor have clients, except that in `Connection` one
that is there reads what it is sent (`recvn` does nothing else). Two assumptions
say more. In `NetMgr`, a socket whose client reads accepts the rest of the data
sooner or later (strong fairness of the send that finishes), which holds for a
client that waits for its answer. In `ProcessControl`, a serving child looks at
its control socket: `QueueProcessor`'s StopIsHonoured, there because requests
are bounded, in reality because clients pause. Under unending traffic with no
pause of `PopMsgBlockTimeUs` neither stop nor expiry is promised by the code,
nor claimed here.

Symmetry is declared only in runs without liveness properties, and only over
clients, workers, codes, connections and addresses that no definition tells
apart.

## 4. Proofs

`SessionTableProofs` (any codes, clients, queues, `SessionTime`,
`RemoveOnceCount` and `MaxTime` that are naturals, any length of the list):

- *TypeCorrect*, *IteratorsValid* (ListMatchesMap), *ListInOrder*
  (NewestFirst), *IndexSound* (IndexNeverDangles): `Spec => []...`. The
  inductive invariant is their conjunction with IssuedOnce (live codes have been
  issued). It is needed as a whole: a refresh keeps the list in order only if the
  iterator points to the code's own item, the iterator is right only if the list
  has each code once, push_front keeps that only if a fresh code is not live, and
  the sweep keeps the index only if index entries name sessions of their own key.
- *Refinement*: `Spec => Abstract!Spec`. The sweep maps to `Expire`: the items
  dropped are the tail of a descending list, so they are the oldest and all
  expired, and what the loop stops at is not expired unless the limit was hit.
  Open, close, refresh, restart and clock map to their abstract steps;
  `LoadQueues` changes nothing abstract.
- One lemma per list operation (push front, erase, splice, drop the tail) says
  which items it keeps and that the order survives.

`ProcessControlProofs` (any number of pids, descriptors, failed forks and killed
parents): *SingleChild* (OneChild), *StopIsDeliverable* (StopReachesChild),
*SlowLeak* (DeafOnlyAtLimit). None is inductive. IInv says that
a child the parent has not reaped is both the one in `_childPid` and, if it was
given a socket, the one at the other end of `_fd`, that there is none when the
parent is about to fork or has exited, and that the descriptors held are at most
the children forked; `ChildDead` establishes the second part before every fork.

`ObjectQueueProofs` (any finite set of threads, any values and limit, queue or
stack): *NoLostSignal* (NobodySleepsOverWork), inductive together with the types
of the two variables. A put signals a sleeper if there is one and so adds to
both sides; a taker that had slept takes one from each, one that had not takes
only an element; threads fall asleep only over an empty list.

`QueueProcessorProofs` (any threads, thread counts, limits and times): every step
of the child process is, for the main thread's stack and for the workers' queue,
a step of `ObjectQueue` or none (*TwoQueues*), so the invariant of
`ObjectQueueProofs` holds of both and with it *NobodySleeps*
(NobodySleepsOverWork), across reloads and operator lines.

*PoolIsCounted* (PoolIsLive): `_livethreads` is the set of the existing threads,
but for the one that `Start` has created and not recorded yet; PoolInv says so
at every step of the main thread, and stops saying it once a thread has reached
the assertion in `Destory`, after which nothing runs, or once an erase has met
the push_back (`torn`).

`RedisConnectorProofs` (any operations, any number of lists and subscribers, any
refused commands, requests and outages): *TypeCorrect*, *NoMixedReplies*
(RepliesMatch), *NothingLeftBehind* (QuietWhenIdle) and *NoStarvation*. All follow
from counting (CInv), as long as the connection has not Slipped: commands unsent,
commands not answered and replies not read, together, are at most what the
request in progress has still to read, and all of them are its own; unless its
GetReply has connected anew they are exactly that many while the connection
lives, so that a thread that waits has a reply coming. Each step moves one from
place to place or drops all of them with the connection. *OnlyTheseMiscount* says
what the exception is worth: script by script, the macro reads exactly the rest of
the pipeline, but for `PushMsg` and for `LoadQueues` with three or more
subscribers. A connection that has Slipped has done so through one of these after
a refused command, and a new connection ends it.

`NetMgrProofs` (any connections, addresses, descriptors and limits; the one
assumption is that 0, which stands for "no connection", names none):

- *TypeCorrect*, with the limits of both stacks; *NeverTwice* (AnsweredOnce),
  from OnePlace: a request is in `_requestQueue`, with a worker, in
  `_resultQueue`, in one send buffer or delivered, in one of these only and
  there once, and clients have sent it (so a new one is nowhere yet). As `got`
  counts copies, this excludes a second answer on the same connection as well as
  one on another. A handler
  outlives its connection, so its buffer counts as a place even then.
  *NoWakeupLost* (NoLostWakeup) is inductive once types are known.
- *AnswersFindAsker* (AnswerToAsker) and *OwnDescriptor* (EventsOnOwnFd), for
  `Orderly` clients. The invariant adds that each address leads to its handler,
  that a handler has a connection of its own, and that for every request in a
  queue, with a worker or in a buffer, that connection is still there and read
  from. A client leaves only when it has as many answers as requests; that none
  of its requests is then left anywhere is a counting argument over the set of
  delivered requests. Run `network_reuse` shows that without `Orderly` the
  statement is false.

`QueueMgrProofs` (any finite sets of clients and workers, any queues, numbers of
messages, faults and loads). Shape says what a worker can be doing: nothing, or
one of four kinds of request, each with what its pipeline can still contain; one
lemma per action says which becomes which. On it stand, for any number of
workers:

- *TypeCorrect* and *AlwaysRestartable* (Restartable): a name without metadata
  has a worker, or what a dead process left in Redis's buffer, whose HMSET is the
  next command. SADD and HMSET leave hiredis in one write; the seeded fault that
  sends them one by one breaks it.
- *PeerOnce* (PeerMessageOnce), with retries: messages are numbered, no two
  workers carry the same one (Numbered), and a worker's message is in its queue's
  list exactly when its RPUSH is no longer ahead (Once).
- *KeepsOrder* (PublisherOrder), for clients that wait (`~Retry`): at most one
  worker has a client's request (OneEach), and its message is not older than any
  of that client's in any list (InOrder).
- *FaultLosses* (LossesAccounted): the messages put into no answer nor about to
  be, plus the LPOPs a dead process left behind, are at most the crashes times the
  workers plus the requests given up (Lost). The second summand makes it
  inductive: such an LPOP loses its message only later. A request given up loses
  at most the one message its worker holds (GiveUpGone).

And for one worker, as `mq.cfg` ships it (`Solo`; section 6 shows that two break
the first two), while no OpenQueue has overlapped a `load meta`:

- *CacheMirrorsRedis* (CacheIsRedis) and *SubscribersAreDistinct*
  (NoDuplicateSubscriber). Phase separates start-up, loading and serving.
  MirrorInv says that what is cached, and what `LoadQueues` has built so far, has
  Redis's type and distinct subscribers that Redis knows, that every name in
  Redis is cached or being created by the one worker, and what that worker's
  request knows of Redis and the cache at each of its steps.
- *SubscribersServed* (EverySubscriberServed), also without `StrayGet`. SubInv
  is the converse of MirrorInv: every subscriber Redis knows is in the fan-out
  list or about to be put there, everybody told SUCCESS is known to Redis, no
  pipeline adds another, and a queue new to the cache has none. So a push's
  fan-out has one RPUSH for everybody it owes the message. ServeInv says that
  each of them is ahead of the worker or done, never both, and that no list has a
  message twice.

MirrorInv, SubInv and ServeInv were found with TLC's help, on the instance of
`queues_shipped`.

`ConnectionProofs` (either coder, packages of any sizes above `HeadLen`, any
`RecvSize`, `DefaultSize`, `EncodeSize` and `SocketSize`, any number of packages,
and every way to cut both streams):

- *RequestsArrive* (RequestsIntact) and *AnswersArrive* (AnswersIntact). The
  inductive invariant has four parts. CInv: types, and the content of a block
  within its capacity. ReqInv: what has been handed over are the first packages
  sent, all of them decodable, and buffer and wire together hold exactly the bytes
  of the others, less than one package of them in the buffer; the last part is
  what makes every recv complete packages from the front. AnsInv: what the client
  has read, and as long as it is there what is on its way too, are the first bytes
  of the answers, so that a close that drops bytes still leaves a prefix. IdInv:
  answers are to requests handed over. A step of `HandleInput` is what
  ExtractFacts says of the bytes in the buffer; a step of `HandleOutput` or
  `PushMsg` is what the MemBlock lemmas (UsedFacts, UnsentFacts, AppendFacts,
  RecvFacts) say of moving, cutting and appending.
- ExtractFacts is the correctness of both coders' loops: on the first bytes of
  any packages, cut anywhere, `Extract` uses up the whole packages up to the first
  that does not decode, hands over those, and says -1 only for that one. It rests
  on Layout (where each package begins in the stream) and on Walks, which the
  loops of JsonRpcCoder and of LineCoder both follow, one package a round.
- *Refinement*: `Spec => Abstract!Spec`, with `Channel` as the abstract
  specification. A recv of the server is `Deliver`, of any number of packages; a
  recv of the client is `Receive`, as the packages that end within a prefix of the
  bytes are a prefix of the packages (GotFirst); an answer is `Answer` while the
  connection is open; end of file, timeout, a failed send and an empty line are
  `Break`, or nothing when it is closed already.
- `Extract`, `AllBytes` and `PackagesOf` are recursive functions. Recursion shows
  that a function with such an equation exists, for a recursion that goes down in
  a rank, so that the function the definition chooses is one; what it computes is
  then shown by Induction, which is stated over sets of numbers. Neither needs the
  library's theorems with an operator as a parameter.

The assumptions on constants are the named ASSUMEs, evaluated by TLC in the runs.

Only model-checked: every liveness property, as fairness is beyond the prover
(among them BytesGetThrough of `Connection`), and the three runs of section 5
that end in a violation.

## 5. Findings

The three violation runs are behaviours of the code that contradict a line of
the repository; `PROJECT.json` quotes the lines.

1. `connector_abort`: a single command that fails frees the context; a request
   that begins with `AppendCommand` then fails `assert(_redis)`
   (`redisconnector.cpp:214`) and the process aborts.
2. `network_reuse`: `HandleClose` leaves the registry entry and the handler's
   descriptor number; an answer for a closed connection is sent to the client
   that has the descriptor now, whose connection may then be closed. In the trace
   the connection is closed for idling or for a bad package; a client that leaves
   ends in the same HandleClose.
3. `processor_close`: `QueueMsgFactory::KnownTypes` lists CloseMsgQueueRequest
   twice and CloseMsgQueueResult not at all, so that the factory returns NULL and
   `assert(res)` (`queueprocessor.cpp:169`) aborts the process at the first
   CloseMsgQueueRequest. `SessionTable` and `QueueMgr` model `CloseQueue` as
   the function it is.

## 6. Seen while modelling, without a run of their own

The first seven are behaviours of the models; the second and the fourth show
when the one constant is changed in a configuration. The others were read off
the code.

- `load meta` reads Redis without the lock, and the swap drops queues and
  subscribers cached meanwhile (`queuemgr.cpp:453-455`); the next open of a
  dropped queue caches it with the request's type, or, for a new subscriber,
  with a value-initialised one, whatever Redis says. CacheIsRedis,
  NoDuplicateSubscriber and EverySubscriberServed are violated by
  `queues_shipped` without their `~raced`.
- `StrayGet = TRUE` violates EverySubscriberServed: fetching with a publisher's
  session writes the client into the subscriber hash (`queuemgr.cpp:502`), after
  which HEXISTS (174-182) keeps its real subscription out of the cache until the
  next load.
- after a refused command of a push, `--totalReply` in the macro's loop
  (`queuemgr.cpp:600, 609`) leaves replies unread or reads too many; after a
  refused LLEN of a load, the macro's own `i` (line 448) reads half as many
  replies as there are subscribers: one too few with three subscribers and the
  first refused, one too many with four and the third refused, for which the main
  thread then waits with Redis up. Without Slipped, `connector` violates
  RepliesMatch, QuietWhenIdle and RequestEnds.
- a second worker in `MCQueueMgr_shipped.cfg` violates CacheIsRedis: a publisher
  that finds the name another worker has just added caches its own type before
  the other caches the one in Redis (`queuemgr.cpp:79, 230-236`). It also
  violates NoDuplicateSubscriber when a client retries before it is answered
  (HEXISTS and push_back are not atomic, 175-191).
- a `reload` to more threads may abort at `threadpool.cpp:34`: while `_stop` is
  set a new thread can end before it is in `_livethreads`. It is a behaviour of
  `QueueProcessor` (`thr = "unknown thread"`).
- a `reload` that comes before any worker has looked at `_stop`
  (`threadpool.cpp:20`) ends them all, and those `Start` creates after it:
  `StopAll` sets `_stop` and nothing clears it, so that no worker is left until
  the process is started again. RequestsAreServed therefore begins with a worker
  that serves.
- `DestroyHandler` is called only when a handler's `Open` fails, so that
  MAX_CONNECTION (`netmgr/acceptor.cpp:11`) bounds the connections ever
  accepted: the 10241st is refused even if no other is open (`Accept` in
  `NetMgr`).
- an answer of more than 1 MB cannot be encoded: it is dropped, and its client
  waits for ever (`msgcallback.cpp:65-70`). `Encode` compares the data without
  the head with the buffer (`coder.cpp:394`), which is four bytes too lenient.
- a package whose `method` is missing or no string fails jsoncpp's assertion
  (`coder.cpp:427`), and one whose class is no `Request` is dereferenced as NULL
  (`coder.cpp:441-446`): the process ends, not only the connection.
- `recvn` of the test client (`network.py:33-36`) does not look for an empty
  `recv`: when the server has closed the connection it loops for ever.
- `JsonRpcCoder::RegisterName` (`coder.cpp:276-300`) refuses names that are not
  there yet, that is, all; it has no caller.
- `QueueLimit` and `PackageLimit` (`mq.cfg:19-20`) are read at
  `connectionmgr.cpp:40-41`, but the queues keep DEFAULT_LIMIT, 1000.
- sessions expire only when `PopMsg` times out, so an expired one may still be
  served and is then refreshed (`mq.cfg:13`).
- a client that closes one of two sessions on a queue takes the index entry with
  it although the other lives (`_client2MsgCode`); the index is not read for
  decisions.

## 7. Not modelled

JSON itself and the fields of messages; `ServiceFlagCoder` (no port of
`mq.cfg` selects it); allocators' chunks; socket, lock and thread-local
wrappers; log, configuration, jsoncpp; EINTR returns (a handler that gets one
does not renew its event) and `RegisterTimeHandler` (no caller);
`RemoveExpireQueue` (does nothing); `StopThreads` (no caller);
`GetQueueValue`'s parsing and the counters `GetAllQueue` reports.

Nearly all Python in the repository is the SCons build tool bundled with
jsoncpp (`framework/jsoncpp/scons-local-1.3.0`, `scons-time.py`, the build's
`doxybuild.py` and the like): third-party code that is no part of the server and
of which nothing is modelled. The server is C++; of its own Python, the test
client's `network.py` is the client of `Connection`.

## 8. Plan

Done, in this order: sessions with their refinement and proofs; queues over
Redis; connector; network; processor; supervisor with its proofs; the object
queue, its proof and its use in the processor; the killed parent and the
descriptor leak; loads and losses in the queues; the connection with its coders
and buffers; failing requests and loads in the queues, `LoadQueues` in the
connector, reloads at any time.

Left, in the model: the failing commands of `OpenQueue` (SADD without HMSET after
a refusal), and Redis running a failed pipeline only after the worker has gone on.

Proved, in this order: sessions, supervisor, object queue and processor; the
pool; connector; network; queues; the connection with its coders and buffers.
