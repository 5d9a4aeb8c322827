--------------------------- MODULE RedisConnector ---------------------------
(***************************************************************************)
(* RedisConnector (mq/src/redisconnector.cpp), the thread-local connection *)
(* a thread talks to Redis through (a worker for requests, the main thread *)
(* for LoadQueues), and the way queuemgr.cpp uses it: one                  *)
(* command and its reply (Command), or a pipeline of AppendCommands        *)
(* followed by one GetReply per command.  Replies carry no identity, so    *)
(* the code must read exactly as many as it has asked for, also when it    *)
(* gives a request up half way (the _CHECK_REPLY macro), and it must       *)
(* survive Redis going away between any two calls.                         *)
(*                                                                         *)
(* What a command does to the database is the subject of QueueMgr.tla;     *)
(* here a command is the number of the request that sent it.               *)
(***************************************************************************)
EXTENDS Integers, Sequences, FiniteSets

CONSTANTS
  Ops,           \* the operations the thread performs (see Script); lists is
                 \* the number of lists a push writes or of subscribers a load
                 \* finds, and 1 for the others
  ErrorOps,      \* the operations of which Redis may refuse a command (out of
                 \* memory, wrong type)
  MaxReq,        \* bound: requests
  MaxOutage      \* bound: times Redis goes away

ASSUME OpsAssumption ==
  Ops \subseteq [name : {"ping", "create", "subscribe", "pop", "push", "load"}, lists : Nat \ {0}]
ASSUME ErrorAssumption == ErrorOps \subseteq Ops
ASSUME BoundAssumption == MaxReq \in Nat /\ MaxOutage \in Nat

VARIABLES
  ctx,        \* _redis: "null", "failed" (connect failed) or "open"
  connected,  \* _connected
  up,         \* whether Redis accepts connections
  alive,      \* whether Redis still holds the other end of ctx
  obuf,       \* commands appended to ctx and not written yet
  sent,       \* commands Redis has received and not answered
  wire,       \* replies on their way to ctx
  op,         \* what the worker is doing
  last,       \* history: the reply read last on ctx and the request that read it
  miscounted, \* history: the operations whose _CHECK_REPLY has not read the
              \* rest of a pipeline on ctx, but more or less
  stranded,   \* history: the last request whose GetReply has connected anew
  reqs, outages

conn == <<ctx, connected, alive, obuf, sent, wire>>
hist == <<last, miscounted, stranded>>
vars == <<conn, up, op, hist, reqs, outages>>
----------------------------------------------------------------------------
(* What queuemgr.cpp asks for *)

\* A stage is one Command or one pipeline; check[i] is what _CHECK_REPLY does
\* with a bad i-th reply: the number of further replies it reads before the
\* request is given up.  Ignore: the reply is not looked at.
Ignore == -1
Command    == [cmd |-> TRUE, check |-> <<0>>]
Pipe(c)    == [cmd |-> FALSE, check |-> c]

\* Seeded fault: a bad first reply leaves the second one unread.
PopStageShort == Pipe(<<0, 0>>)

\* Seeded fault: a bad second reply makes the code read a third.
PopStageLong == Pipe(<<1, 1>>)

\* PopMsg: LPOP and HSET.
PopStage == Pipe(<<1, 0>>)

\* Seeded fault: a queue that does not exist leaves HGETALL's reply unread.
SubscribeStageShort == Pipe(<<0, 0>>)

\* CreateSubscriber: SISMEMBER and HGETALL.
SubscribeStage == Pipe(<<1, 0>>)

\* PushMsg to k lists.  The macro's argument is --totalReply, evaluated once
\* in its test and once before every round of its loop, so that for any bad
\* reply the loop ends after k - 1 rounds.
PushStage(k) == Pipe([i \in 1..(2 * k) |-> k - 1])

\* LoadQueues: the lengths of the lists of k subscribers.  The macro's argument
\* is clients.size()-i-1, in whose test i is the number of the reply and in
\* whose loop the macro's own counter: after a bad reply that is not the last
\* one, half of k more are read.
LoadStage(k) == Pipe([i \in 1..k |-> IF i = k THEN 0 ELSE k \div 2])

\* The stages of each operation.  CreatePublisher does not look at what SADD
\* and HMSET answer; CreateSubscriber goes on with HEXISTS and HMSET.
\* LoadQueues asks for the names of all queues and for each queue (here one)
\* for its metadata and length, its subscribers and their lengths.
Script(o) ==
  CASE o.name = "ping"      -> <<Command>>
    [] o.name = "create"    -> <<Command, Pipe(<<Ignore, Ignore>>)>>
    [] o.name = "subscribe" -> <<SubscribeStage, Command, Command>>
    [] o.name = "pop"       -> <<PopStage>>
    [] o.name = "push"      -> <<PushStage(o.lists)>>
    [] o.name = "load"      -> <<Command, Pipe(<<1, 0>>), Pipe(<<0>>), LoadStage(o.lists)>>

\* Without anything being wrong, LPOP may return nil, a subscribe may end at
\* any of its replies but the last, a create at SISMEMBER's, and a load where
\* it finds no queue, no metadata or no subscriber.
MayBeBad(o, stage, i) ==
  \/ o \in ErrorOps
  \/ o.name = "pop" /\ i = 1
  \/ o.name = "subscribe" /\ stage < 3
  \/ o.name = "create" /\ stage = 1
  \/ o.name = "load" /\ (stage \in {1, 3} \/ (stage = 2 /\ i = 2))

Idle == [pc |-> "idle"]
Stage == Script(op.kind)[op.stage]
----------------------------------------------------------------------------
(* Steps of a request *)

\* The stage numbered s of operation o begins; past the last one it is over.
Begin(o, s) ==
  IF s > Len(Script(o)) THEN Idle
  ELSE [pc |-> IF Script(o)[s].cmd THEN "command" ELSE "append",
        kind |-> o, stage |-> s, got |-> 0, drain |-> 0, tries |-> 0, id |-> reqs]

\* A worker takes up a request, or has waited a heartbeat and pings; the main
\* thread loads.
Start(o) ==
  /\ op = Idle
  /\ reqs < MaxReq
  /\ reqs' = reqs + 1
  /\ op' = [Begin(o, 1) EXCEPT !.id = reqs + 1]
  /\ UNCHANGED <<conn, up, hist, outages>>

NoReply == [reader |-> 0, answers |-> 0]

\* Connect: a fresh context, in place of (and leaking) a failed one.
Connect ==
  /\ ctx' = "open"
  /\ connected' = TRUE
  /\ alive' = TRUE
  /\ obuf' = <<>>
  /\ sent' = <<>>
  /\ wire' = <<>>
  /\ last' = NoReply
  /\ miscounted' = {}

ConnectFails ==
  /\ ctx' = "failed"
  /\ UNCHANGED <<connected, alive, obuf, sent, wire, last, miscounted>>

Close ==
  /\ ctx' = "null"
  /\ connected' = FALSE
  /\ alive' = FALSE
  /\ obuf' = <<>>
  /\ sent' = <<>>
  /\ wire' = <<>>

\* Command connects first if it has to; NULL if it cannot.
CommandConnect ==
  /\ op.pc = "command"
  /\ ~connected
  /\ IF up THEN Connect /\ UNCHANGED op ELSE ConnectFails /\ op' = Idle
  /\ UNCHANGED <<up, stranded, reqs, outages>>

\* redisvCommand appends the command and waits for a reply.
CommandSend ==
  /\ op.pc = "command"
  /\ connected
  /\ obuf' = Append(obuf, op.id)
  /\ op' = [op EXCEPT !.pc = "reply"]
  /\ UNCHANGED <<ctx, connected, alive, sent, wire, up, hist, reqs, outages>>

\* The AppendCommands of a pipeline; assert(_redis) aborts the process.
AppendCommand ==
  /\ op.pc = "append"
  /\ IF ctx = "null"
     THEN /\ op' = [op EXCEPT !.pc = "aborted"]
          /\ UNCHANGED obuf
     ELSE /\ op' = [op EXCEPT !.pc = "getreply"]
          /\ obuf' = obuf \o [i \in 1..Len(Stage.check) |-> op.id]
  /\ UNCHANGED <<ctx, connected, alive, sent, wire, up, hist, reqs, outages>>

\* An attempt of GetReply, or Command's only one, has failed.  After the
\* second failed attempt the request ends, and so does a drain.
Failed == IF op.pc = "getreply" /\ op.tries = 0 THEN [op EXCEPT !.tries = 1] ELSE Idle

\* Seeded fault: GetReply goes on with a context that failed to connect.
GetReplyReuses ==
  /\ op.pc = "getreply"
  /\ ~connected
  /\ connected' = TRUE
  /\ UNCHANGED <<ctx, alive, obuf, sent, wire, up, op, hist, reqs, outages>>

\* GetReply connects if it has to; what was appended to the old context is gone.
GetReplyConnect ==
  /\ op.pc = "getreply"
  /\ ~connected
  /\ IF up THEN Connect /\ stranded' = op.id /\ UNCHANGED op
           ELSE ConnectFails /\ op' = Failed /\ UNCHANGED stranded
  /\ UNCHANGED <<up, reqs, outages>>

Reading == op.pc \in {"reply", "getreply"} /\ connected

\* redisGetReply writes the output buffer before it reads from the socket.
Write ==
  /\ Reading
  /\ obuf # <<>>
  /\ sent' = IF alive THEN sent \o obuf ELSE sent
  /\ obuf' = <<>>
  /\ UNCHANGED <<ctx, connected, alive, wire, up, op, hist, reqs, outages>>

\* The reply of a pipeline or Command just read is the i-th of its stage.
AfterReply(i, bad) ==
  IF bad /\ Stage.check[i] # Ignore
  THEN IF Stage.check[i] = 0 THEN Idle
       ELSE [op EXCEPT !.drain = Stage.check[i], !.tries = 0]
  ELSE IF i = Len(Stage.check) THEN Begin(op.kind, op.stage + 1)
       ELSE [op EXCEPT !.got = i, !.tries = 0]

\* A request given up at its i-th reply does not read just the rest.
Miscounts(i) == Stage.check[i] \notin {Ignore, Len(Stage.check) - i}

\* A reply arrives; a draining request only counts it.
ReadReply ==
  /\ Reading
  /\ wire # <<>>
  /\ wire' = Tail(wire)
  /\ last' = [reader |-> op.id, answers |-> Head(wire)]
  /\ IF op.drain > 0
     THEN /\ op' = IF op.drain = 1 THEN Idle ELSE [op EXCEPT !.drain = @ - 1, !.tries = 0]
          /\ UNCHANGED miscounted
     ELSE \E bad \in BOOLEAN :
            /\ bad => MayBeBad(op.kind, op.stage, op.got + 1)
            /\ op' = AfterReply(op.got + 1, bad)
            /\ miscounted' = miscounted \cup (IF bad /\ Miscounts(op.got + 1) THEN {op.kind} ELSE {})
  /\ UNCHANGED <<ctx, connected, alive, obuf, sent, up, stranded, reqs, outages>>

\* The peer is gone and nothing is left to read: Close.
ReadError ==
  /\ Reading
  /\ ~alive
  /\ wire = <<>>
  /\ Close
  /\ op' = Failed
  /\ UNCHANGED <<up, hist, reqs, outages>>
----------------------------------------------------------------------------
(* Redis *)

RedisAnswers ==
  /\ sent # <<>>
  /\ wire' = Append(wire, Head(sent))
  /\ sent' = Tail(sent)
  /\ UNCHANGED <<ctx, connected, alive, obuf, up, op, hist, reqs, outages>>

\* Redis stops: its connections die, with or without the replies under way.
RedisDown ==
  /\ up
  /\ outages < MaxOutage
  /\ outages' = outages + 1
  /\ up' = FALSE
  /\ alive' = FALSE
  /\ sent' = <<>>
  /\ wire' \in {wire, <<>>}
  /\ UNCHANGED <<ctx, connected, obuf, op, hist, reqs>>

RedisUp ==
  /\ ~up
  /\ up' = TRUE
  /\ UNCHANGED <<conn, op, hist, reqs, outages>>
----------------------------------------------------------------------------
\* QueueMgr::Open has loaded the metadata, so a worker starts with Redis up;
\* GetConnector connects.
Init ==
  /\ ctx = "open"
  /\ connected = TRUE
  /\ up = TRUE
  /\ alive = TRUE
  /\ obuf = <<>>
  /\ sent = <<>>
  /\ wire = <<>>
  /\ op = Idle
  /\ last = NoReply
  /\ miscounted = {}
  /\ stranded = 0
  /\ reqs = 0
  /\ outages = 0

Work ==
  \/ CommandConnect
  \/ CommandSend
  \/ AppendCommand
  \/ GetReplyConnect
  \/ Write
  \/ ReadReply
  \/ ReadError

Next ==
  \/ \E o \in Ops : Start(o)
  \/ Work
  \/ RedisAnswers
  \/ RedisDown
  \/ RedisUp

\* A worker thread and Redis keep running; requests and outages just happen.
Fairness == WF_vars(Work) /\ WF_vars(RedisAnswers)

Spec == Init /\ [][Next]_vars /\ Fairness
----------------------------------------------------------------------------
(* Properties *)

\* The flags describe the context: only an open one counts as connected.
TypeOK ==
  /\ ctx \in {"null", "failed", "open"}
  /\ {connected, up, alive} \subseteq BOOLEAN
  /\ connected => ctx = "open"
  /\ ctx = "null" => obuf = <<>>

\* The operations whose use of _CHECK_REPLY may read too few or too many
\* replies: PushMsg, and LoadQueues with three or more subscribers.
MiscountingOps == {o \in Ops : o.name = "push" \/ (o.name = "load" /\ o.lists >= 3)}

\* One of them has done so on the present connection, after Redis refused a
\* command of it.
Slipped == miscounted \cap MiscountingOps # {}

\* The reply a request reads is the reply to a command of that request, never
\* one a previous request left behind.  One mismatch shifts every later reply
\* of the connection: a client is handed another request's answer.  Only the
\* MiscountingOps can cause one, and a new connection ends it.
RepliesMatch == last.reader = last.answers \/ Slipped

\* What AppendCommand asserts (redisconnector.cpp:214): whenever a pipeline is
\* begun there is a context to append it to.
AppendHasContext == op.pc # "aborted"

\* Nothing of an abandoned request stays on the connection: between requests
\* no command is unsent or unanswered and no reply unread, unless one of the
\* MiscountingOps has left it.
QuietWhenIdle ==
  op = Idle /\ connected /\ alive /\ ~Slipped => obuf = <<>> /\ sent = <<>> /\ wire = <<>>

\* A worker never waits for a reply that no command asks for: through outages
\* and refused commands every request comes to an end, unless the assertion in
\* AppendCommand ends the process, one of the MiscountingOps has read too much,
\* or GetReply, connecting anew, waits on the new context for what was appended
\* to the old one.
RequestEnds ==
  op # Idle ~> op = Idle \/ op.pc = "aborted" \/ op.id = stranded \/ Slipped
=============================================================================
