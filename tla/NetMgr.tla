------------------------------- MODULE NetMgr -------------------------------
(***************************************************************************)
(* The network layer (framework/netmgr and the parts of framework/base it  *)
(* stands on): one net thread accepts connections, reads requests into     *)
(* _requestQueue, is woken through a socket pair when a worker has put an  *)
(* answer into _resultQueue, and sends it to the connection registered     *)
(* under the peer address the request came from.  Both queues are          *)
(* SyncObjectStacks: last in, first out, refused at the limit.             *)
(*                                                                         *)
(* A connection is identified by four different things whose lifetimes the *)
(* code does not tie together: the client's TCP connection, the file       *)
(* descriptor the kernel gave it (reused after close), the handler object  *)
(* and the registry entry for the peer's address.  EventHandler's Context  *)
(* (an EventData) exists exactly while one of its two events is set.       *)
(*                                                                         *)
(* What a request does is the subject of QueueMgr.tla.                     *)
(***************************************************************************)
EXTENDS Integers, Sequences, FiniteSets, FiniteSetsExt

CONSTANTS
  Conn,           \* the client connections there will be
  Addr,           \* peer addresses (ip:port)
  Fds,            \* how many descriptors the process may have open
  MaxConnection,  \* MAX_CONNECTION
  DefaultLimit,   \* SyncObjectQueue's DEFAULT_LIMIT
  MaxReq,         \* bound: requests per connection
  Orderly,        \* TRUE if clients stay until they are answered, none idles
                  \* past its timeout or comes back under an old address, and
                  \* every answer can be encoded and is non-empty
  SharedAddr      \* TRUE if a peer may have two connections open under one
                  \* address, one through each of two acceptors

ASSUME BoundAssumption == {Fds, MaxConnection, DefaultLimit, MaxReq} \subseteq Nat
ASSUME OrderlyAssumption == {Orderly, SharedAddr} \subseteq BOOLEAN
ASSUME ConnAssumption == 0 \notin Conn  \* Free is no connection

VARIABLES
  client,     \* per connection: "new", "open", "gone" (closed by the client) or "refused"
  fds,        \* the kernel's table: descriptor -> connection, or Free
  handlers,   \* the handler objects taken from the pool so far, in order
  registry,   \* EventHandlerRegistry: address -> index into handlers
  requests,   \* _requestQueue
  working,    \* requests a worker is processing
  results,    \* _resultQueue
  notifying,  \* workers that have put an answer and not yet signalled the net thread
  pipe,       \* whether there is something to read in the socket pair
  draining,   \* whether the net thread is in PushMsgCallBack's loop
  stranded,   \* history: how many answers an encoding error left at the bottom
              \* of _resultQueue, none after the next wake-up
  asked,      \* history: requests sent, per connection
  got         \* history: <<request answered, connection the answer went to, the
              \* how-manieth time this request is answered>>

net    == <<fds, handlers, registry>>
queues == <<requests, working, results, notifying, pipe>>
hist   == <<asked, got>>
sender == <<draining, stranded>>
vars   == <<client, net, queues, sender, hist>>

Free == 0
Fd == 1..Fds
Handler == DOMAIN handlers
EmptyRegistry == [a \in {} |-> 0]

\* The kernel closes a descriptor (EBADF, without effect, if it is not open).
CloseFd(table, f) == [table EXCEPT ![f] = Free]

\* No answer for connection c is outstanding.
Answered(c) == Cardinality({g \in got : g[1][1] = c}) = asked[c]
----------------------------------------------------------------------------
(* Accepting *)

\* Acceptor::HandleInput: accept gives the lowest free descriptor; without a
\* handler from the pool the connection is closed at once.  RegisterHandler
\* does nothing if the address is there already, and nobody looks.  With
\* two acceptors a peer may have two connections under one address.
Accept(c, a) ==
  /\ ~draining
  /\ client[c] = "new"
  /\ Orderly => a \notin DOMAIN registry
  /\ SharedAddr \/ \A h \in Handler : handlers[h].addr = a => client[handlers[h].conn] # "open"
  /\ \E f \in Fd : fds[f] = Free
  /\ LET f == Min({g \in Fd : fds[g] = Free})
         h == Len(handlers) + 1
     IN  IF h > MaxConnection
         THEN /\ client' = [client EXCEPT ![c] = "refused"]
              /\ UNCHANGED net
         ELSE /\ client' = [client EXCEPT ![c] = "open"]
              /\ fds' = [fds EXCEPT ![f] = c]
              /\ handlers' = Append(handlers,
                   [addr |-> a, fd |-> f, rd |-> TRUE, wr |-> FALSE, out |-> <<>>, conn |-> c])
              /\ registry' = IF a \in DOMAIN registry THEN registry
                             ELSE [x \in DOMAIN registry \cup {a} |->
                                     IF x = a THEN h ELSE registry[x]]
  /\ UNCHANGED <<queues, sender, hist>>

\* The client closes its end.
Disconnect(c) ==
  /\ client[c] = "open"
  /\ Orderly => Answered(c)
  /\ client' = [client EXCEPT ![c] = "gone"]
  /\ UNCHANGED <<net, queues, sender, hist>>
----------------------------------------------------------------------------
(* Events of a handler *)

\* Close: both events go, the Context with them, and HandleClose closes the
\* descriptor.  The registry and the pool are not told.
Close(h) ==
  /\ handlers' = [handlers EXCEPT ![h].rd = FALSE, ![h].wr = FALSE]
  /\ fds' = CloseFd(fds, handlers[h].fd)

\* Seeded fault: a request is attributed to the first registered peer.
HandleInputWrongPeer(h) ==
  /\ ~draining
  /\ handlers[h].rd
  /\ LET c == fds[handlers[h].fd]
     IN  /\ c # Free
         /\ client[c] = "open"
         /\ asked[c] < MaxReq
         /\ asked' = [asked EXCEPT ![c] = @ + 1]
         /\ requests' = <<[id |-> <<c, asked[c] + 1>>, addr |-> handlers[1].addr]>> \o requests
  /\ UNCHANGED <<client, net, working, results, notifying, pipe, sender, got>>

\* HandleInput with data: whoever's bytes are on the descriptor, the request
\* is this handler's peer's.  ExtractMsgCallBack ignores a refused Put.
HandleInput(h) ==
  /\ ~draining
  /\ handlers[h].rd
  /\ LET c == fds[handlers[h].fd]
     IN  /\ c # Free
         /\ client[c] = "open"
         /\ asked[c] < MaxReq
         /\ asked' = [asked EXCEPT ![c] = @ + 1]
         /\ requests' = IF Len(requests) < DefaultLimit
                        THEN <<[id |-> <<c, asked[c] + 1>>, addr |-> handlers[h].addr]>> \o requests
                        ELSE requests
  /\ UNCHANGED <<client, net, working, results, notifying, pipe, sender, got>>

\* HandleInput at end of file.
HandleEof(h) ==
  /\ ~draining
  /\ handlers[h].rd
  /\ fds[handlers[h].fd] # Free
  /\ client[fds[handlers[h].fd]] = "gone"
  /\ Close(h)
  /\ UNCHANGED <<client, registry, queues, sender, hist>>

\* HandleTimeout, or a package that cannot be decoded.
HandleTimeout(h) ==
  /\ ~Orderly
  /\ ~draining
  /\ handlers[h].rd \/ handlers[h].wr
  /\ Close(h)
  /\ UNCHANGED <<client, registry, queues, sender, hist>>

\* Seeded fault: what has been sent stays in the send buffer.
AfterSendKeeps(hs, h) == [hs EXCEPT ![h].wr = FALSE]

\* Everything is sent: the buffer is cleared and the write event removed.
AfterSend(hs, h) == [hs EXCEPT ![h].out = <<>>, ![h].wr = FALSE]

\* Seeded fault: the descriptor is closed after every complete answer.
FdsAfterSendCloses(h) == CloseFd(fds, handlers[h].fd)

\* EventManager::RemoveHandler of the write event: a handler that is left
\* without events, or had none, gets a HandleClose.
FdsAfterSend(h) == IF handlers[h].rd THEN fds ELSE CloseFd(fds, handlers[h].fd)

\* Seeded fault: EAGAIN is not followed up.
AfterEagainNothing(hs, h) == hs

\* The socket is full: the write event is registered, which creates a Context
\* if there is none.
AfterEagain(hs, h) == [hs EXCEPT ![h].wr = TRUE]

\* Sending out[i] answers its request for the how-manieth time: every earlier
\* answer to it counts, on whatever connection, and those further ahead in out.
Copy(out, i) ==
  Cardinality({g \in got : g[1] = out[i]}) + Cardinality({j \in 1..i : out[j] = out[i]})

\* HandleOutput of handler h with out in its send buffer.
\*   - the descriptor is closed (EBADF) or the peer gone: Close; bytes for a
\*     peer that has just left may also vanish as if they were sent;
\*   - everything is sent;
\*   - the socket takes nothing or only a part.
HandleOutputTo(h, out) ==
  LET c      == fds[handlers[h].fd]
      hs     == [handlers EXCEPT ![h].out = out]
      there  == c # Free /\ client[c] # "gone"
      fail   == /\ ~there
                /\ handlers' = [hs EXCEPT ![h].rd = FALSE, ![h].wr = FALSE]
                /\ fds' = CloseFd(fds, handlers[h].fd)
                /\ UNCHANGED got
      finish == /\ c # Free
                /\ handlers' = AfterSend(hs, h)
                /\ fds' = FdsAfterSend(h)
                /\ got' = IF there THEN got \cup {<<out[i], c, Copy(out, i)>> : i \in DOMAIN out} ELSE got
      full   == /\ there
                /\ handlers' = AfterEagain(hs, h)
                /\ UNCHANGED <<fds, got>>
  IN  fail \/ finish \/ full

\* The write event fires.
HandleOutput(h) ==
  /\ ~draining
  /\ handlers[h].wr
  /\ fds[handlers[h].fd] # Free
  /\ HandleOutputTo(h, handlers[h].out)
  /\ UNCHANGED <<client, registry, queues, sender, asked>>
----------------------------------------------------------------------------
(* Workers *)

\* ConnectionMgr::PopMsg takes the newest request.
PopMsg ==
  /\ requests # <<>>
  /\ working' = working \cup {Head(requests)}
  /\ requests' = Tail(requests)
  /\ UNCHANGED <<client, net, results, notifying, pipe, sender, hist>>

\* Seeded fault: the stack has no limit.
PushMsgNoLimit(m) ==
  /\ m \in working
  /\ working' = working \ {m}
  /\ results' = <<m>> \o results
  /\ notifying' = notifying + 1
  /\ UNCHANGED <<client, net, requests, pipe, sender, hist>>

\* ConnectionMgr::PushMsg, ObjectQueue::Put: the answer goes on top of the
\* stack under its lock, or is lost if the stack is full.
PushMsg(m) ==
  /\ m \in working
  /\ working' = working \ {m}
  /\ IF Len(results) < DefaultLimit
     THEN /\ results' = <<m>> \o results
          /\ notifying' = notifying + 1
     ELSE UNCHANGED <<results, notifying>>
  /\ UNCHANGED <<client, net, requests, pipe, sender, hist>>

\* After the unlock, QueuePushMsgCallBack writes a byte to the socket pair; if
\* that is full there is something to read in it already.
Notify ==
  /\ notifying > 0
  /\ notifying' = notifying - 1
  /\ pipe' = TRUE
  /\ UNCHANGED <<client, net, requests, working, results, sender, hist>>
----------------------------------------------------------------------------
(* The net thread sends answers *)

\* PipeEventHandler::HandleInput reads up to 64 bytes: all there are, or some.
HandleNotify ==
  /\ ~draining
  /\ pipe
  /\ pipe' \in BOOLEAN
  /\ draining' = TRUE
  /\ stranded' = 0
  /\ UNCHANGED <<client, net, requests, working, results, notifying, hist>>

\* Seeded fault: one notification sends one answer.
SendAnswerOnce(m) ==
  /\ draining
  /\ results # <<>>
  /\ m = Head(results)
  /\ results' = Tail(results)
  /\ draining' = FALSE
  /\ IF m.addr \in DOMAIN registry
     THEN LET h == registry[m.addr]
          IN  HandleOutputTo(h, Append(handlers[h].out, m.id))
     ELSE UNCHANGED <<handlers, fds, got>>
  /\ UNCHANGED <<client, registry, requests, working, notifying, pipe, stranded, asked>>

\* A round of PushMsgCallBack's loop: the newest answer goes to the handler
\* registered under its peer address.  An empty one closes the connection.
SendAnswer(m) ==
  /\ draining
  /\ results # <<>>
  /\ m = Head(results)
  /\ results' = Tail(results)
  /\ IF m.addr \in DOMAIN registry
     THEN LET h == registry[m.addr]
          IN  \/ HandleOutputTo(h, Append(handlers[h].out, m.id))
              \/ ~Orderly /\ Close(h) /\ UNCHANGED got
     ELSE UNCHANGED <<handlers, fds, got>>
  /\ UNCHANGED <<client, registry, requests, working, notifying, pipe, sender, asked>>

\* An answer that cannot be encoded ends the loop with the others unsent.
EncodeError(m) ==
  /\ ~Orderly
  /\ draining
  /\ results # <<>>
  /\ m = Head(results)
  /\ m.addr \in DOMAIN registry
  /\ results' = Tail(results)
  /\ draining' = FALSE
  /\ stranded' = Len(results) - 1
  /\ UNCHANGED <<client, net, requests, working, notifying, pipe, hist>>

EndDrain ==
  /\ draining
  /\ results = <<>>
  /\ draining' = FALSE
  /\ UNCHANGED <<client, net, queues, stranded, hist>>
----------------------------------------------------------------------------
Init ==
  /\ client = [c \in Conn |-> "new"]
  /\ fds = [f \in Fd |-> Free]
  /\ handlers = <<>>
  /\ registry = EmptyRegistry
  /\ requests = <<>>
  /\ working = {}
  /\ results = <<>>
  /\ notifying = 0
  /\ pipe = FALSE
  /\ draining = FALSE
  /\ stranded = 0
  /\ asked = [c \in Conn |-> 0]
  /\ got = {}

HandlerEvent ==
  \E h \in Handler :
    \/ HandleInput(h)
    \/ HandleEof(h)
    \/ HandleTimeout(h)
    \/ HandleOutput(h)

Work ==
  \/ PopMsg
  \/ \E m \in working : PushMsg(m)
  \/ Notify

Drain ==
  \/ HandleNotify
  \/ \E i \in DOMAIN results : SendAnswer(results[i]) \/ EncodeError(results[i])
  \/ EndDrain

Next ==
  \/ \E c \in Conn, a \in Addr : Accept(c, a)
  \/ \E c \in Conn : Disconnect(c)
  \/ HandlerEvent
  \/ Work
  \/ Drain

\* The threads keep running; a socket whose client reads becomes writable
\* again and again until everything is sent (strong fairness of delivery).
Fairness ==
  /\ WF_vars(Work)
  /\ WF_vars(Drain)
  /\ \A h \in 1..MaxConnection :
       /\ WF_vars(h \in Handler /\ HandleOutput(h))
       /\ SF_vars(h \in Handler /\ HandleOutput(h) /\ handlers'[h].wr = FALSE)

Spec == Init /\ [][Next]_vars /\ Fairness
----------------------------------------------------------------------------
(* Properties *)

\* Every variable has the shape of the object it stands for, and both stacks
\* stay within their limit.
TypeOK ==
  /\ client \in [Conn -> {"new", "open", "gone", "refused"}]
  /\ fds \in [Fd -> Conn \cup {Free}]
  /\ Len(handlers) <= MaxConnection
  /\ DOMAIN registry \subseteq Addr
  /\ \A a \in DOMAIN registry : registry[a] \in Handler
  /\ Len(requests) <= DefaultLimit
  /\ Len(results) <= DefaultLimit

\* An answer never goes to a connection other than the one that asked; what
\* PushMsgCallBack finds for a client that has left is no handler
\* (msgcallback.cpp:51).
AnswerToAsker == \A g \in got : g[1][1] = g[2]

\* A handler that waits for events waits for those of its own connection: its
\* descriptor has not been closed or given to another connection behind its
\* back.
EventsOnOwnFd ==
  \A h \in Handler : handlers[h].rd \/ handlers[h].wr => fds[handlers[h].fd] = handlers[h].conn

\* No answer is left lying in _resultQueue with the net thread asleep: there
\* is a byte for it to wake up to, or a worker about to write one.  The only
\* exception are answers below one that could not be encoded, and the next
\* answer gets these going too.
NoLostWakeup == Len(results) > stranded => pipe \/ draining \/ notifying > 0

\* No request is answered twice, on the same connection or on another,
\* whatever becomes of its connection and of what is left in a send buffer.
AnsweredOnce == \A g, k \in got : g[1] = k[1] => g = k

\* Every request of a client that waits for it is answered.
EveryoneAnswered ==
  \A c \in Conn : \A n \in 1..MaxReq : asked[c] >= n ~> <<<<c, n>>, c, 1>> \in got
=============================================================================
