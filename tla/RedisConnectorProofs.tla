------------------------ MODULE RedisConnectorProofs ------------------------
(***************************************************************************)
(* A connection never carries more than the request in progress has still  *)
(* to read, for any number of requests, lists, subscribers, refused        *)
(* commands and outages, until a _CHECK_REPLY of PushMsg or LoadQueues     *)
(* miscounts.  Replies can then not be mixed up and none is left behind.   *)
(* While Redis holds the connection and no GetReply has replaced it, it    *)
(* carries exactly that, so a worker never waits for nothing.              *)
(***************************************************************************)
EXTENDS RedisConnector, SequenceTheorems, TLAPS

OpRec ==
  [pc : {"command", "append", "reply", "getreply", "aborted"}, kind : Ops, stage : Nat,
   got : Nat, drain : Nat, tries : {0, 1}, id : Nat]

\* The shape of the state.
ConnOK ==
  /\ TypeOK
  /\ obuf \in Seq(Nat) /\ sent \in Seq(Nat) /\ wire \in Seq(Nat)
  /\ reqs \in Nat /\ outages \in Nat
  /\ ~connected => sent = <<>> /\ wire = <<>>

\* A request o, the r-th, is at a stage of its operation and has not read all
\* its replies.
GoodOp(o, r) ==
  \/ o = Idle
  \/ /\ o \in OpRec
     /\ o.id = r
     /\ o.stage \in 1..Len(Script(o.kind))
     /\ o.got < Len(Script(o.kind)[o.stage].check)
     /\ o.pc \in {"command", "append"} => o.got = 0 /\ o.drain = 0
     /\ o.pc = "command" => Script(o.kind)[o.stage].cmd

\* How many replies request o will still read.
Owed(o) ==
  IF o.pc \in {"reply", "getreply"}
  THEN IF o.drain > 0 THEN o.drain ELSE Len(Script(o.kind)[o.stage].check) - o.got
  ELSE 0

\* How many commands and replies are on the connection.
Carried == Len(obuf) + Len(sent) + Len(wire)

AllOf(s, r) == \A i \in 1..Len(s) : s[i] = r

\* PushMsg and LoadQueues with three or more subscribers are the only uses of
\* _CHECK_REPLY that read more or less than the rest of their pipeline.
KnownSlips == miscounted \subseteq MiscountingOps

\* The histories.
HistOK == stranded \in Nat /\ stranded <= reqs /\ KnownSlips

\* The inductive invariant.
CInv ==
  /\ ConnOK
  /\ HistOK
  /\ GoodOp(op, reqs)
  /\ RepliesMatch
  /\ connected /\ ~Slipped => /\ Carried <= Owed(op)
                              /\ AllOf(obuf, reqs) /\ AllOf(sent, reqs) /\ AllOf(wire, reqs)
  /\ connected /\ ~Slipped /\ alive /\ stranded # reqs => Carried = Owed(op)
  /\ outages = 0 => connected /\ alive /\ up

----------------------------------------------------------------------------
(* The scripts *)

\* A stage has replies, a Command has one, and after a bad reply exactly the
\* rest of the pipeline is read, but by the MiscountingOps.
GoodStage(o, st) ==
  /\ st.check \in Seq(Nat \cup {Ignore})
  /\ Len(st.check) \in Nat \ {0}
  /\ st.cmd \in BOOLEAN
  /\ st.cmd => Len(st.check) = 1
  /\ \/ o \in MiscountingOps
     \/ \A i \in 1..Len(st.check) : st.check[i] \in {Ignore, Len(st.check) - i}

\* A command with its reply.
LEMMA CommandGood == ASSUME NEW o PROVE GoodStage(o, Command)
<1>1. Command.cmd \in BOOLEAN /\ Command.check = <<0>>
  BY DEF Command
<1>2. PICK c : c = <<0>>
  OBVIOUS
<1>3. c \in Seq(Nat \cup {Ignore}) /\ Len(c) = 1 /\ \A i \in 1..1 : c[i] = 1 - i
  BY <1>2
<1>4. QED
  BY <1>1, <1>2, <1>3 DEF GoodStage

\* A pipeline after whose bad replies the rest is read.
LEMMA PipelineGood ==
  ASSUME NEW o, NEW c \in Seq(Nat \cup {Ignore}), Len(c) # 0,
         o \in MiscountingOps \/ \A i \in 1..Len(c) : c[i] \in {Ignore, Len(c) - i}
  PROVE  GoodStage(o, Pipe(c))
<1>1. Pipe(c).cmd = FALSE /\ Pipe(c).check = c
  BY DEF Pipe
<1>2. Len(c) \in Nat \ {0}
  OBVIOUS
<1>3. QED
  BY <1>1, <1>2 DEF GoodStage

\* All stages of all operations are good.
LEMMA StageFacts ==
  ASSUME NEW o \in Ops, NEW s \in 1..Len(Script(o))
  PROVE  GoodStage(o, Script(o)[s])
<1>0. o.name \in {"ping", "create", "subscribe", "pop", "push", "load"} /\ o.lists \in Nat \ {0}
  BY OpsAssumption
<1>1. GoodStage(o, Pipe(<<1, 0>>)) /\ GoodStage(o, Pipe(<<Ignore, Ignore>>)) /\ GoodStage(o, Pipe(<<0>>))
  <2>1. ASSUME NEW c, c = <<1, 0>> PROVE GoodStage(o, Pipe(c))
    <3>1. c \in Seq(Nat \cup {Ignore}) /\ Len(c) = 2 /\ \A i \in 1..2 : c[i] = 2 - i
      BY <2>1
    <3>2. \A i \in 1..Len(c) : c[i] \in {Ignore, Len(c) - i}
      BY <3>1
    <3>3. c \in Seq(Nat \cup {Ignore}) /\ Len(c) # 0
      BY <3>1
    <3>4. QED
      BY <3>2, <3>3, PipelineGood
  <2>2. ASSUME NEW c, c = <<Ignore, Ignore>> PROVE GoodStage(o, Pipe(c))
    <3>1. c \in Seq(Nat \cup {Ignore}) /\ Len(c) = 2 /\ \A i \in 1..2 : c[i] = Ignore
      BY <2>2
    <3>2. \A i \in 1..Len(c) : c[i] \in {Ignore, Len(c) - i}
      BY <3>1
    <3>3. c \in Seq(Nat \cup {Ignore}) /\ Len(c) # 0
      BY <3>1
    <3>4. QED
      BY <3>2, <3>3, PipelineGood
  <2>3. GoodStage(o, Pipe(<<0>>))
    <3>1. PICK c : c = <<0>>
      OBVIOUS
    <3>2. c \in Seq(Nat \cup {Ignore}) /\ Len(c) = 1 /\ \A i \in 1..1 : c[i] = 1 - i
      BY <3>1
    <3>3. \A i \in 1..Len(c) : c[i] \in {Ignore, Len(c) - i}
      BY <3>2
    <3>4. c \in Seq(Nat \cup {Ignore}) /\ Len(c) # 0
      BY <3>2
    <3>5. QED
      BY <3>1, <3>3, <3>4, PipelineGood
  <2>4. QED
    BY <2>1, <2>2, <2>3, Zenon
<1>2. CASE o.name = "ping"
  BY <1>2, CommandGood DEF Script
<1>3. CASE o.name = "create"
  BY <1>1, <1>3, CommandGood DEF Script
<1>4. CASE o.name = "subscribe"
  BY <1>1, <1>4, CommandGood DEF Script, SubscribeStage
<1>5. CASE o.name = "pop"
  BY <1>1, <1>5 DEF Script, PopStage
<1>6. CASE o.name = "push"
  <2>1. PICK k \in Nat \ {0} : k = o.lists
    BY <1>0
  <2>2. PICK c : c = [i \in 1..(2 * k) |-> k - 1]
    OBVIOUS
  <2>3. c \in Seq(Nat \cup {Ignore}) /\ Len(c) = 2 * k
    <3>1. 2 * k \in Nat /\ k - 1 \in Nat
      OBVIOUS
    <3>2. QED
      BY <2>2, <3>1
  <2>4. o \in MiscountingOps
    BY <1>6 DEF MiscountingOps
  <2>5. GoodStage(o, Pipe(c))
    BY <2>3, <2>4, PipelineGood
  <2>6. s = 1 /\ Script(o)[1] = Pipe(c)
    BY <1>6, <2>1, <2>2 DEF Script, PushStage
  <2>7. QED
    BY <2>5, <2>6
<1>7. CASE o.name = "load"
  <2>1. PICK k \in Nat \ {0} : k = o.lists
    BY <1>0
  <2>2. PICK c : c = [i \in 1..k |-> IF i = k THEN 0 ELSE k \div 2]
    OBVIOUS
  <2>3. k \div 2 \in Nat /\ (k = 1 => k \div 2 = 0) /\ (k = 2 => k \div 2 = 1)
    OBVIOUS
  <2>4. c \in Seq(Nat \cup {Ignore}) /\ Len(c) = k
    BY <2>2, <2>3
  <2>5. o \in MiscountingOps \/ \A i \in 1..Len(c) : c[i] \in {Ignore, Len(c) - i}
    <3>1. CASE k >= 3
      BY <1>7, <2>1, <3>1 DEF MiscountingOps
    <3>2. CASE k = 1 \/ k = 2
      BY <2>2, <2>3, <2>4, <3>2
    <3>3. QED
      BY <3>1, <3>2
  <2>6. GoodStage(o, Pipe(c))
    BY <2>4, <2>5, PipelineGood
  <2>7. /\ s \in 1..4 /\ Script(o)[1] = Command /\ Script(o)[2] = Pipe(<<1, 0>>)
        /\ Script(o)[3] = Pipe(<<0>>) /\ Script(o)[4] = Pipe(c)
    BY <1>7, <2>1, <2>2 DEF Script, LoadStage
  <2>8. QED
    BY <1>1, <2>6, <2>7, CommandGood
<1>8. QED
  BY <1>0, <1>2, <1>3, <1>4, <1>5, <1>6, <1>7

\* Every operation has a stage.
LEMMA ScriptLen == ASSUME NEW o \in Ops PROVE Len(Script(o)) \in Nat \ {0}
<1> USE DEF Script
<1>1. CASE o.name = "ping"
  BY <1>1
<1>2. CASE o.name = "create"
  BY <1>2
<1>3. CASE o.name = "subscribe"
  BY <1>3
<1>4. CASE o.name = "pop"
  BY <1>4
<1>5. CASE o.name = "push"
  BY <1>5
<1>6. CASE o.name = "load"
  BY <1>6
<1>7. QED
  BY <1>1, <1>2, <1>3, <1>4, <1>5, <1>6, OpsAssumption
----------------------------------------------------------------------------
(* The steps of a request *)

\* What a request owes is a number; one that is not reading owes nothing.
LEMMA OwedType ==
  ASSUME NEW o, NEW r, GoodOp(o, r)
  PROVE  Owed(o) \in Nat /\ (o.pc \notin {"reply", "getreply"} => Owed(o) = 0)
<1>1. CASE o = Idle
  BY <1>1 DEF Owed, Idle
<1>2. CASE o # Idle
  <2>1. /\ o \in OpRec /\ o.got < Len(Script(o.kind)[o.stage].check)
        /\ o.kind \in Ops /\ o.stage \in 1..Len(Script(o.kind))
    BY <1>2 DEF GoodOp, OpRec
  <2>2. Len(Script(o.kind)[o.stage].check) \in Nat
    BY <2>1, StageFacts DEF GoodStage
  <2>3. o.got \in Nat /\ o.drain \in Nat
    BY <2>1 DEF OpRec
  <2>4. QED
    BY <2>1, <2>2, <2>3 DEF Owed
<1>3. QED
  BY <1>1, <1>2

\* A stage begins with nothing asked for.
LEMMA BeginGood ==
  ASSUME NEW o \in Ops, NEW s \in Nat \ {0}, reqs \in Nat
  PROVE  GoodOp(Begin(o, s), reqs) /\ Owed(Begin(o, s)) = 0
<1>1. CASE s > Len(Script(o))
  <2>1. Begin(o, s) = Idle
    BY <1>1 DEF Begin
  <2>2. QED
    BY <2>1 DEF GoodOp, Owed, Idle
<1>2. CASE ~(s > Len(Script(o)))
  <2>1. s \in 1..Len(Script(o))
    BY <1>2, ScriptLen
  <2>2. GoodStage(o, Script(o)[s])
    BY <2>1, StageFacts
  <2>3. PICK b : b = Begin(o, s)
    OBVIOUS
  <2>4. b = [pc |-> IF Script(o)[s].cmd THEN "command" ELSE "append",
             kind |-> o, stage |-> s, got |-> 0, drain |-> 0, tries |-> 0, id |-> reqs]
    BY <1>2, <2>3 DEF Begin
  <2>5. /\ b \in OpRec /\ b.kind = o /\ b.stage = s /\ b.got = 0 /\ b.drain = 0 /\ b.id = reqs
        /\ b.pc \in {"command", "append"} /\ (b.pc = "command" => Script(o)[s].cmd)
    BY <2>4 DEF OpRec
  <2>6. QED
    BY <2>1, <2>2, <2>3, <2>5 DEF GoodOp, GoodStage, Owed
<1>3. QED
  BY <1>1, <1>2

\* One reply more is one owed less.
LEMMA OneLess ==
  ASSUME NEW n \in Nat, NEW g \in Nat
  PROVE  n - (g + 1) = (n - g) - 1
OBVIOUS

\* A reply that is not drained: the request owes one less, whatever it was, but
\* where the macro miscounts, which only the MiscountingOps do.
LEMMA AfterReplyGood ==
  ASSUME GoodOp(op, reqs), reqs \in Nat, op.pc \in {"reply", "getreply"}, op.drain = 0,
         NEW bad \in BOOLEAN
  PROVE  /\ GoodOp(AfterReply(op.got + 1, bad), reqs)
         /\ ~(bad /\ Miscounts(op.got + 1)) => Owed(AfterReply(op.got + 1, bad)) = Owed(op) - 1
         /\ Miscounts(op.got + 1) => op.kind \in MiscountingOps
<1> DEFINE c == Stage.check
           i == op.got + 1
<1>1. op # Idle
  BY DEF Idle
<1>2. /\ op \in OpRec /\ op.id = reqs /\ op.got < Len(c) /\ op.stage \in 1..Len(Script(op.kind))
      /\ op.kind \in Ops /\ op.stage \in Nat /\ op.got \in Nat
  BY <1>1 DEF GoodOp, OpRec, Stage
<1>3. /\ c \in Seq(Nat \cup {Ignore}) /\ Len(c) \in Nat
      /\ op.kind \in MiscountingOps \/ \A j \in 1..Len(c) : c[j] \in {Ignore, Len(c) - j}
  BY <1>2, StageFacts DEF GoodStage, Stage
<1>4. i \in 1..Len(c) /\ Owed(op) = Len(c) - op.got
  BY <1>2, <1>3 DEF Owed, Stage
<1>10. Miscounts(i) => op.kind \in MiscountingOps
  BY <1>3, <1>4 DEF Miscounts
<1>11. ~Miscounts(i) => c[i] \in {Ignore, Len(c) - i}
  BY DEF Miscounts
<1>5. CASE bad /\ c[i] # Ignore /\ c[i] = 0
  <2>1. AfterReply(i, bad) = Idle
    BY <1>5 DEF AfterReply
  <2>2. ~Miscounts(i) => Len(c) = i
    BY <1>3, <1>4, <1>5, <1>11
  <2>3. GoodOp(AfterReply(i, bad), reqs) /\ Owed(AfterReply(i, bad)) = 0
    BY <2>1 DEF GoodOp, Owed, Idle
  <2>4. ~Miscounts(i) => Owed(op) - 1 = 0
    BY <1>2, <1>4, <2>2
  <2>5. QED
    BY <1>5, <1>10, <2>3, <2>4
<1>6. CASE bad /\ c[i] # Ignore /\ c[i] # 0
  <2>1. AfterReply(i, bad) = [op EXCEPT !.drain = c[i], !.tries = 0]
    BY <1>6 DEF AfterReply
  <2>2. (~Miscounts(i) => c[i] = Len(c) - i) /\ c[i] \in Nat
    BY <1>3, <1>4, <1>6, <1>11
  <2>3. PICK o : o = AfterReply(i, bad)
    OBVIOUS
  <2>4. /\ o \in OpRec /\ o.drain = c[i] /\ o.pc = op.pc /\ o.kind = op.kind /\ o.stage = op.stage
        /\ o.got = op.got /\ o.id = op.id
    BY <1>2, <2>1, <2>2, <2>3 DEF OpRec
  <2>5. Owed(o) = c[i]
    BY <1>6, <2>2, <2>4 DEF Owed
  <2>6. GoodOp(o, reqs)
    BY <1>2, <2>4 DEF GoodOp, Stage
  <2>7. Len(c) - i = (Len(c) - op.got) - 1
    BY <1>2, <1>3, OneLess
  <2>8. Owed(op) = Len(c) - op.got
    BY <1>4
  <2> HIDE DEF c, i
  <2>9. ~Miscounts(i) => Owed(o) = Owed(op) - 1
    BY <2>2, <2>5, <2>7, <2>8, Zenon
  <2>10. o = AfterReply(op.got + 1, bad) /\ i = op.got + 1
    BY <2>3 DEF i
  <2>11. QED
    BY <1>6, <1>10, <2>6, <2>9, <2>10
<1>7. CASE ~(bad /\ c[i] # Ignore) /\ i = Len(c)
  <2>1. AfterReply(i, bad) = Begin(op.kind, op.stage + 1)
    BY <1>7 DEF AfterReply
  <2>2. QED
    BY <1>2, <1>4, <1>7, <1>10, <2>1, BeginGood
<1>8. CASE ~(bad /\ c[i] # Ignore) /\ i # Len(c)
  <2>1. AfterReply(i, bad) = [op EXCEPT !.got = i, !.tries = 0]
    BY <1>8 DEF AfterReply
  <2>2. PICK o : o = AfterReply(i, bad)
    OBVIOUS
  <2>3. /\ o \in OpRec /\ o.got = i /\ o.pc = op.pc /\ o.kind = op.kind /\ o.stage = op.stage
        /\ o.drain = 0 /\ o.id = op.id
    <3>1. o = [op EXCEPT !.got = i, !.tries = 0] /\ i \in Nat /\ op \in OpRec
      BY <1>2, <2>1, <2>2
    <3> HIDE DEF i
    <3>2. QED
      BY <3>1 DEF OpRec
  <2>4. Owed(o) = Len(c) - i
    BY <2>3 DEF Owed, Stage
  <2>5. GoodOp(o, reqs)
    BY <1>2, <1>3, <1>4, <1>8, <2>3 DEF GoodOp, Stage
  <2>6. Owed(o) = Owed(op) - 1
    <3>1. op.got \in Nat /\ Len(c) \in Nat
      BY <1>2, <1>3
    <3>2. Len(c) - i = (Len(c) - op.got) - 1
      BY <3>1, OneLess
    <3>3. Owed(op) = Len(c) - op.got
      BY <1>4
    <3> HIDE DEF c, i
    <3>4. QED
      BY <2>4, <3>2, <3>3, Zenon
  <2>7. QED
    BY <1>10, <2>2, <2>5, <2>6
<1>9. QED
  BY <1>5, <1>6, <1>7, <1>8

\* A drained reply: one less to drain.
LEMMA DrainGood ==
  ASSUME GoodOp(op, reqs), op.pc \in {"reply", "getreply"}, op.drain > 0,
         NEW o, o = IF op.drain = 1 THEN Idle ELSE [op EXCEPT !.drain = @ - 1, !.tries = 0]
  PROVE  GoodOp(o, reqs) /\ Owed(o) = Owed(op) - 1
<1>1. op # Idle
  BY DEF Idle
<1>2. op \in OpRec /\ op.drain \in Nat /\ Owed(op) = op.drain
  BY <1>1 DEF GoodOp, OpRec, Owed
<1>3. CASE op.drain = 1
  BY <1>2, <1>3 DEF GoodOp, Owed, Idle
<1>4. CASE op.drain # 1
  <2>1. o = [op EXCEPT !.drain = op.drain - 1, !.tries = 0] /\ op.drain - 1 \in Nat \ {0}
    BY <1>2, <1>4
  <2>2. /\ o \in OpRec /\ o.drain = op.drain - 1 /\ o.pc = op.pc /\ o.kind = op.kind
        /\ o.stage = op.stage /\ o.got = op.got /\ o.id = op.id
    BY <1>2, <2>1 DEF OpRec
  <2>3. GoodOp(o, reqs)
    BY <1>1, <2>2 DEF GoodOp
  <2>4. Owed(o) = op.drain - 1
    BY <1>2, <2>1, <2>2 DEF Owed
  <2>5. QED
    BY <1>2, <2>3, <2>4
<1>5. QED
  BY <1>3, <1>4

\* After a failed attempt the request goes on, or is over.
LEMMA FailedGood ==
  ASSUME GoodOp(op, reqs), op.pc \in {"reply", "getreply"}
  PROVE  GoodOp(Failed, reqs)
<1>1. op # Idle
  BY DEF Idle
<1>2. PICK o : o = Failed
  OBVIOUS
<1>3. CASE op.pc = "getreply" /\ op.tries = 0
  <2>1. o = [op EXCEPT !.tries = 1]
    BY <1>2, <1>3 DEF Failed
  <2>2. /\ o \in OpRec /\ o.pc = op.pc /\ o.kind = op.kind /\ o.drain = op.drain
        /\ o.stage = op.stage /\ o.got = op.got /\ o.id = op.id
    BY <1>1, <2>1 DEF GoodOp, OpRec
  <2>3. QED
    BY <1>1, <1>2, <2>2 DEF GoodOp
<1>4. CASE ~(op.pc = "getreply" /\ op.tries = 0)
  BY <1>4 DEF Failed, GoodOp
<1>5. QED
  BY <1>3, <1>4
----------------------------------------------------------------------------
(* Preservation *)

\* The two kinds of step that fill the output buffer.
LEMMA SendCInv ==
  ASSUME CInv, CommandSend \/ AppendCommand
  PROVE  CInv'
<1>1. op # Idle /\ GoodOp(op, reqs) /\ ConnOK /\ HistOK /\ RepliesMatch
  BY DEF CInv, CommandSend, AppendCommand, Idle
<1>2. /\ op \in OpRec /\ op.id = reqs /\ op.kind \in Ops /\ op.stage \in 1..Len(Script(op.kind))
      /\ op.got = 0 /\ op.drain = 0
  BY <1>1 DEF GoodOp, OpRec, CommandSend, AppendCommand
<1>3. GoodStage(op.kind, Stage)
  BY <1>2, StageFacts DEF Stage
<1>4. Owed(op) = 0
  BY <1>1, OwedType DEF CommandSend, AppendCommand
<1>5. obuf \in Seq(Nat) /\ sent \in Seq(Nat) /\ wire \in Seq(Nat) /\ reqs \in Nat
  BY <1>1 DEF ConnOK
<1>6. connected /\ ~Slipped => obuf = <<>> /\ sent = <<>> /\ wire = <<>>
  BY <1>4, <1>5 DEF CInv, Carried
<1>11. /\ UNCHANGED <<last, miscounted, stranded, reqs>>
       /\ Slipped' = Slipped /\ HistOK' /\ RepliesMatch'
  <2>1. UNCHANGED <<last, miscounted, stranded, reqs>>
    BY DEF CommandSend, AppendCommand, hist
  <2>2. QED
    BY <1>1, <2>1 DEF HistOK, KnownSlips, Slipped, RepliesMatch
<1>7. CASE CommandSend
  <2>1. Stage.cmd /\ Len(Stage.check) = 1
    BY <1>1, <1>3, <1>7 DEF GoodOp, GoodStage, Stage, CommandSend
  <2>2. op' = [op EXCEPT !.pc = "reply"] /\ obuf' = Append(obuf, op.id) /\ connected
        /\ UNCHANGED <<ctx, connected, alive, sent, wire, up, reqs, outages>>
    BY <1>7 DEF CommandSend, hist
  <2>3. /\ op' \in OpRec /\ op'.pc = "reply" /\ op'.kind = op.kind /\ op'.stage = op.stage
        /\ op'.got = 0 /\ op'.drain = 0 /\ op'.id = reqs
    BY <1>2, <2>2 DEF OpRec
  <2>4. GoodOp(op', reqs) /\ Owed(op') = 1
    <3>1. GoodOp(op', reqs)
      BY <1>1, <1>2, <2>3 DEF GoodOp
    <3>2. Owed(op') = 1
      BY <1>1, <2>1, <2>3 DEF Owed, Stage
    <3>3. QED
      BY <3>1, <3>2
  <2>5. obuf' \in Seq(Nat) /\ (~Slipped => obuf' = <<reqs>>)
    <3>1. obuf' = Append(obuf, reqs) /\ connected
      BY <1>2, <2>2
    <3>2. obuf' \in Seq(Nat)
      BY <1>5, <3>1
    <3>3. ~Slipped => obuf = <<>>
      BY <1>6, <3>1
    <3>4. Append(<<>>, reqs) = <<reqs>>
      BY <1>5
    <3>5. QED
      BY <3>1, <3>2, <3>3, <3>4, Zenon
  <2>6. ConnOK'
    BY <1>1, <1>5, <2>2, <2>5 DEF ConnOK, TypeOK
  <2>7. ~Slipped => Carried' = 1 /\ AllOf(obuf, reqs)' /\ AllOf(sent, reqs)' /\ AllOf(wire, reqs)'
    BY <1>6, <2>2, <2>5 DEF Carried, AllOf
  <2>8. QED
    BY <1>11, <2>2, <2>4, <2>6, <2>7 DEF CInv
<1>8. CASE AppendCommand /\ ctx = "null"
  <2>1. op' = [op EXCEPT !.pc = "aborted"]
        /\ UNCHANGED <<obuf, ctx, connected, alive, sent, wire, up, reqs, outages>>
    BY <1>8 DEF AppendCommand
  <2>2. /\ op' \in OpRec /\ op'.pc = "aborted" /\ op'.kind = op.kind /\ op'.stage = op.stage
        /\ op'.got = 0 /\ op'.drain = 0 /\ op'.id = reqs
    BY <1>2, <2>1 DEF OpRec
  <2>3. GoodOp(op', reqs) /\ Owed(op') = 0
    <3>1. GoodOp(op', reqs)
      BY <1>1, <1>2, <2>2 DEF GoodOp
    <3>2. Owed(op') = 0
      BY <1>1, <2>2 DEF Owed, Stage
    <3>3. QED
      BY <3>1, <3>2
  <2>4. ConnOK' /\ Carried' = Carried
    BY <1>1, <2>1 DEF ConnOK, TypeOK, Carried
  <2>5. QED
    BY <1>4, <1>11, <2>1, <2>3, <2>4 DEF CInv, AllOf
<1>9. CASE AppendCommand /\ ctx # "null"
  <2> DEFINE more == [i \in 1..Len(Stage.check) |-> op.id]
  <2>1. op' = [op EXCEPT !.pc = "getreply"] /\ obuf' = obuf \o more
        /\ UNCHANGED <<ctx, connected, alive, sent, wire, up, reqs, outages>>
    BY <1>9 DEF AppendCommand
  <2>2. /\ op' \in OpRec /\ op'.pc = "getreply" /\ op'.kind = op.kind /\ op'.stage = op.stage
        /\ op'.got = 0 /\ op'.drain = 0 /\ op'.id = reqs
    BY <1>2, <2>1 DEF OpRec
  <2>3. Len(Stage.check) \in Nat
    BY <1>3 DEF GoodStage
  <2>4. GoodOp(op', reqs) /\ Owed(op') = Len(Stage.check)
    <3>1. GoodOp(op', reqs)
      BY <1>1, <1>2, <2>2 DEF GoodOp
    <3>2. Owed(op') = Len(Stage.check)
      BY <1>1, <2>2, <2>3 DEF Owed, Stage
    <3>3. QED
      BY <3>1, <3>2
  <2>5. more \in Seq(Nat) /\ Len(more) = Len(Stage.check) /\ \A i \in 1..Len(more) : more[i] = reqs
    BY <1>2, <1>5, <2>3
  <2> HIDE DEF more
  <2>6. ConnOK'
    BY <1>1, <1>5, <1>9, <2>1, <2>5 DEF ConnOK, TypeOK
  <2>7. connected /\ ~Slipped => obuf' = more /\ Carried' = Len(more)
    BY <1>5, <1>6, <2>1, <2>5 DEF Carried
  <2>8. connected /\ ~Slipped => AllOf(obuf, reqs)' /\ AllOf(sent, reqs)' /\ AllOf(wire, reqs)'
    BY <1>6, <2>1, <2>5, <2>7 DEF AllOf
  <2>9. QED
    BY <1>11, <2>1, <2>4, <2>5, <2>6, <2>7, <2>8, <2>3 DEF CInv
<1>10. QED
  BY <1>7, <1>8, <1>9

\* A new connection carries nothing; a request that was waiting waits on.
LEMMA ConnectCInv ==
  ASSUME CInv, CommandConnect \/ GetReplyConnect
  PROVE  CInv'
<1>1. /\ op # Idle /\ GoodOp(op, reqs) /\ ConnOK /\ HistOK /\ RepliesMatch /\ ~connected /\ outages # 0
      /\ op.id = reqs /\ reqs \in Nat /\ UNCHANGED <<up, reqs, outages>>
  BY DEF CInv, CommandConnect, GetReplyConnect, Idle, GoodOp, ConnOK
<1>2. CASE up
  <2>1. Connect /\ UNCHANGED op /\ (op.pc = "getreply" \/ op.pc = "command")
        /\ (stranded' = op.id \/ (stranded' = stranded /\ op.pc = "command"))
    BY <1>2 DEF CommandConnect, GetReplyConnect
  <2>2. ConnOK'
    BY <1>1, <2>1 DEF ConnOK, TypeOK, Connect
  <2>3. Carried' = 0 /\ AllOf(obuf, reqs)' /\ AllOf(sent, reqs)' /\ AllOf(wire, reqs)'
    BY <2>1 DEF Connect, Carried, AllOf
  <2>4. HistOK' /\ RepliesMatch'
    BY <1>1, <2>1 DEF HistOK, KnownSlips, RepliesMatch, Connect, NoReply
  <2>5. Owed(op) \in Nat /\ (op.pc = "command" => Owed(op) = 0)
    BY <1>1, OwedType
  <2>6. GoodOp(op, reqs)' /\ Owed(op)' = Owed(op)
    BY <1>1, <2>1
  <2>7. stranded' # reqs' => op.pc = "command"
    BY <1>1, <2>1
  <2>8. QED
    BY <1>1, <2>2, <2>3, <2>4, <2>5, <2>6, <2>7 DEF CInv
<1>3. CASE ~up
  <2>1. ConnectFails /\ UNCHANGED stranded /\ (op' = Idle \/ (op' = Failed /\ op.pc = "getreply"))
    <3>1. CASE CommandConnect
      BY <1>3, <3>1 DEF CommandConnect
    <3>2. CASE GetReplyConnect
      BY <1>3, <3>2 DEF GetReplyConnect
    <3>3. QED
      BY <3>1, <3>2
  <2>2. ConnOK'
    BY <1>1, <2>1 DEF ConnOK, TypeOK, ConnectFails
  <2>3. GoodOp(op', reqs)
    BY <1>1, <2>1, FailedGood DEF GoodOp
  <2>4. HistOK' /\ RepliesMatch'
    BY <1>1, <2>1 DEF HistOK, KnownSlips, RepliesMatch, Slipped, ConnectFails
  <2>5. QED
    BY <1>1, <2>1, <2>2, <2>3, <2>4 DEF CInv, ConnectFails
<1>4. QED
  BY <1>2, <1>3

\* What is carried moves on towards Redis and back.
LEMMA MoveCInv ==
  ASSUME CInv, Write \/ RedisAnswers \/ RedisDown \/ RedisUp
  PROVE  CInv'
<1>1. /\ GoodOp(op, reqs) /\ ConnOK /\ HistOK /\ RepliesMatch
      /\ UNCHANGED <<op, last, miscounted, stranded, reqs, ctx, connected>>
      /\ obuf \in Seq(Nat) /\ sent \in Seq(Nat) /\ wire \in Seq(Nat) /\ reqs \in Nat
      /\ outages \in Nat
  BY DEF CInv, ConnOK, Write, RedisAnswers, RedisDown, RedisUp, conn, hist
<1>2. /\ GoodOp(op', reqs') /\ Owed(op') = Owed(op) /\ Owed(op) \in Nat
      /\ RepliesMatch' /\ HistOK' /\ Slipped' = Slipped
  BY <1>1, OwedType DEF RepliesMatch, HistOK, KnownSlips, Slipped
<1>3. CASE Write
  <2>1. connected /\ obuf' = <<>> /\ sent' = (IF alive THEN sent \o obuf ELSE sent)
        /\ UNCHANGED <<wire, alive, up, outages>>
    BY <1>3 DEF Write, Reading
  <2>2. Len(sent') <= Len(sent) + Len(obuf) /\ sent' \in Seq(Nat) /\ (alive => Len(sent') = Len(sent) + Len(obuf))
    BY <1>1, <2>1
  <2>3. ~Slipped => AllOf(sent, reqs)' /\ AllOf(obuf, reqs)' /\ AllOf(wire, reqs)'
    BY <1>1, <2>1 DEF CInv, AllOf
  <2>4. ConnOK'
    BY <1>1, <2>1, <2>2 DEF ConnOK, TypeOK
  <2>5. Len(obuf') = 0 /\ Len(wire') = Len(wire)
    BY <2>1
  <2>6. /\ Len(obuf) \in Nat /\ Len(sent) \in Nat /\ Len(wire) \in Nat
        /\ Len(obuf') \in Nat /\ Len(sent') \in Nat /\ Len(wire') \in Nat
    BY <1>1, <2>2, <2>5
  <2>7. Carried' <= Carried /\ (alive => Carried' = Carried) /\ Carried \in Nat /\ Carried' \in Nat
    BY <2>2, <2>5, <2>6 DEF Carried
  <2>8. QED
    BY <1>1, <1>2, <2>1, <2>3, <2>4, <2>7 DEF CInv
<1>4. CASE RedisAnswers
  <2>1. wire' = Append(wire, Head(sent)) /\ sent' = Tail(sent) /\ sent # <<>>
        /\ UNCHANGED <<obuf, alive, up, outages>>
    BY <1>4 DEF RedisAnswers
  <2>2. connected
    BY <1>1, <2>1 DEF ConnOK
  <2>3. sent' \in Seq(Nat) /\ wire' \in Seq(Nat) /\ Len(wire') = Len(wire) + 1 /\ Len(sent') = Len(sent) - 1
    BY <1>1, <2>1
  <2>4. ~Slipped => AllOf(sent, reqs)' /\ AllOf(obuf, reqs)' /\ AllOf(wire, reqs)'
    BY <1>1, <2>1, <2>2 DEF CInv, AllOf
  <2>5. Carried' = Carried
    BY <1>1, <2>1, <2>3 DEF Carried
  <2>6. ConnOK'
    BY <1>1, <2>1, <2>2, <2>3 DEF ConnOK, TypeOK
  <2>7. QED
    BY <1>1, <1>2, <2>1, <2>4, <2>5, <2>6 DEF CInv
<1>5. CASE RedisDown
  <2>1. outages' = outages + 1 /\ ~up' /\ ~alive' /\ sent' = <<>> /\ wire' \in {wire, <<>>} /\ UNCHANGED obuf
    BY <1>5 DEF RedisDown
  <2>2. sent' \in Seq(Nat) /\ wire' \in Seq(Nat) /\ Len(wire') <= Len(wire) /\ Len(sent') = 0
    <3>1. CASE wire' = wire
      BY <1>1, <2>1, <3>1
    <3>2. CASE wire' = <<>>
      BY <1>1, <2>1, <3>2
    <3>3. QED
      BY <2>1, <3>1, <3>2
  <2>3. connected /\ ~Slipped => AllOf(sent, reqs)' /\ AllOf(obuf, reqs)' /\ AllOf(wire, reqs)'
    BY <1>1, <2>1 DEF CInv, AllOf
  <2>4. Carried' <= Carried /\ Carried \in Nat /\ Carried' \in Nat
    BY <1>1, <2>1, <2>2 DEF Carried
  <2>5. alive' = FALSE /\ up' = FALSE
    BY <1>5 DEF RedisDown
  <2>6. ConnOK'
    <3>1. {connected, up, alive}' \subseteq BOOLEAN
      BY <1>1, <2>5 DEF ConnOK, TypeOK
    <3>2. ~connected => wire' = <<>>
      BY <1>1, <2>1 DEF ConnOK
    <3>3. outages' \in Nat
      BY <1>1, <2>1
    <3>4. QED
      BY <1>1, <2>1, <2>2, <3>1, <3>2, <3>3 DEF ConnOK, TypeOK
  <2>7. QED
    BY <1>1, <1>2, <2>1, <2>3, <2>4, <2>6 DEF CInv
<1>6. CASE RedisUp
  <2>1. up' = TRUE /\ UNCHANGED <<obuf, sent, wire, alive, outages>>
    BY <1>6 DEF RedisUp, conn
  <2>2. ConnOK'
    BY <1>1, <2>1 DEF ConnOK, TypeOK
  <2>3. QED
    BY <1>1, <1>2, <2>1, <2>2 DEF CInv, Carried, AllOf
<1>7. QED
  BY <1>3, <1>4, <1>5, <1>6

\* A reply is read: one less is carried, and one less is owed.
LEMMA ReadCInv ==
  ASSUME CInv, ReadReply
  PROVE  CInv'
<1>1. /\ GoodOp(op, reqs) /\ ConnOK /\ connected /\ op.pc \in {"reply", "getreply"} /\ op # Idle
      /\ obuf \in Seq(Nat) /\ sent \in Seq(Nat) /\ wire \in Seq(Nat) /\ reqs \in Nat /\ wire # <<>>
  BY DEF CInv, ConnOK, ReadReply, Reading, Idle
<1>2. /\ wire' = Tail(wire) /\ last' = [reader |-> op.id, answers |-> Head(wire)]
      /\ UNCHANGED <<ctx, connected, alive, obuf, sent, up, stranded, reqs, outages>>
  BY DEF ReadReply
<1>3. op.id = reqs /\ op.drain \in Nat
  BY <1>1 DEF GoodOp, OpRec
<1>4. /\ GoodOp(op', reqs) /\ KnownSlips' /\ miscounted \subseteq miscounted'
      /\ Slipped' \/ Owed(op') = Owed(op) - 1
  <2>0. KnownSlips
    BY DEF CInv, HistOK
  <2>1. CASE op.drain > 0
    <3>1. op' = (IF op.drain = 1 THEN Idle ELSE [op EXCEPT !.drain = @ - 1, !.tries = 0])
          /\ miscounted' = miscounted
      BY <2>1 DEF ReadReply
    <3>2. QED
      BY <1>1, <2>0, <2>1, <3>1, DrainGood DEF KnownSlips
  <2>2. CASE ~(op.drain > 0)
    <3>1. PICK bad \in BOOLEAN :
            /\ op' = AfterReply(op.got + 1, bad)
            /\ miscounted' = miscounted \cup (IF bad /\ Miscounts(op.got + 1) THEN {op.kind} ELSE {})
      BY <2>2 DEF ReadReply
    <3>2. op.drain = 0
      BY <1>3, <2>2
    <3>3. /\ GoodOp(op', reqs)
          /\ ~(bad /\ Miscounts(op.got + 1)) => Owed(op') = Owed(op) - 1
          /\ Miscounts(op.got + 1) => op.kind \in MiscountingOps
      BY <1>1, <3>1, <3>2, AfterReplyGood
    <3>4. CASE bad /\ Miscounts(op.got + 1)
      BY <2>0, <3>1, <3>3, <3>4 DEF KnownSlips, Slipped
    <3>5. CASE ~(bad /\ Miscounts(op.got + 1))
      BY <2>0, <3>1, <3>3, <3>5 DEF KnownSlips
    <3>6. QED
      BY <3>4, <3>5
  <2>3. QED
    BY <2>1, <2>2
<1>12. (Slipped => Slipped') /\ HistOK'
  BY <1>2, <1>4 DEF CInv, HistOK, Slipped
<1>5. wire' \in Seq(Nat) /\ Len(wire') = Len(wire) - 1 /\ Head(wire) = wire[1] /\ Len(wire) >= 1
  BY <1>1, <1>2
<1>6. ~Slipped => AllOf(wire, reqs)' /\ AllOf(sent, reqs)' /\ AllOf(obuf, reqs)' /\ wire[1] = reqs
  BY <1>1, <1>2, <1>5 DEF CInv, AllOf
<1>7. RepliesMatch'
  BY <1>2, <1>3, <1>5, <1>6, <1>12 DEF RepliesMatch
<1>8. ConnOK'
  BY <1>1, <1>2, <1>5 DEF ConnOK, TypeOK
<1>9. Carried' = Carried - 1
  BY <1>1, <1>2, <1>5 DEF Carried
<1>10. Carried \in Nat /\ Owed(op) \in Nat
  BY <1>1, OwedType DEF Carried
<1>11. QED
  BY <1>1, <1>2, <1>4, <1>6, <1>7, <1>8, <1>9, <1>10, <1>12 DEF CInv

\* The connection is closed with everything it carried.
LEMMA ErrorCInv ==
  ASSUME CInv, ReadError
  PROVE  CInv'
<1>1. /\ GoodOp(op, reqs) /\ ConnOK /\ op.pc \in {"reply", "getreply"} /\ outages # 0
  BY DEF CInv, ReadError, Reading
<1>2. Close /\ op' = Failed /\ UNCHANGED <<up, last, miscounted, stranded, reqs, outages>>
  BY DEF ReadError, hist
<1>3. GoodOp(op', reqs)
  BY <1>1, <1>2, FailedGood
<1>4. ConnOK'
  <2>1. /\ ctx' = "null" /\ connected' = FALSE /\ alive' = FALSE
        /\ obuf' = <<>> /\ sent' = <<>> /\ wire' = <<>>
    BY <1>2 DEF Close
  <2>2. {connected, up, alive}' \subseteq BOOLEAN
    BY <1>1, <1>2, <2>1 DEF ConnOK, TypeOK
  <2>3. QED
    BY <1>1, <1>2, <2>1, <2>2 DEF ConnOK, TypeOK
<1>5. QED
  BY <1>1, <1>2, <1>3, <1>4 DEF CInv, Close, RepliesMatch, HistOK, KnownSlips, Slipped

\* A request begins on a connection that carries nothing.
LEMMA StartCInv ==
  ASSUME CInv, NEW o \in Ops, Start(o)
  PROVE  CInv'
<1>1. /\ ConnOK /\ op = Idle /\ op' = [Begin(o, 1) EXCEPT !.id = reqs + 1] /\ reqs' = reqs + 1
      /\ UNCHANGED <<ctx, connected, alive, obuf, sent, wire, up, last, miscounted, stranded, outages>>
      /\ HistOK
  BY DEF CInv, Start, conn, hist
<1>2. obuf \in Seq(Nat) /\ sent \in Seq(Nat) /\ wire \in Seq(Nat) /\ reqs \in Nat
  BY <1>1 DEF ConnOK
<1>3. Owed(op) = 0
  BY <1>1 DEF Owed, Idle
<1>4. connected /\ ~Slipped => obuf = <<>> /\ sent = <<>> /\ wire = <<>>
  BY <1>2, <1>3 DEF CInv, Carried
<1>5. GoodOp(op', reqs') /\ Owed(op') = 0
  <2>1. 1 \in 1..Len(Script(o))
    BY ScriptLen
  <2>2. GoodStage(o, Script(o)[1])
    BY <2>1, StageFacts
  <2>3. Begin(o, 1) = [pc |-> IF Script(o)[1].cmd THEN "command" ELSE "append",
                       kind |-> o, stage |-> 1, got |-> 0, drain |-> 0, tries |-> 0, id |-> reqs]
    BY <2>1, ScriptLen DEF Begin
  <2>4. /\ op' \in OpRec /\ op'.kind = o /\ op'.stage = 1 /\ op'.got = 0 /\ op'.drain = 0
        /\ op'.id = reqs' /\ op'.pc \in {"command", "append"}
        /\ (op'.pc = "command" => Script(o)[1].cmd)
    <3>1. PICK pc \in {"command", "append"} :
            /\ pc = IF Script(o)[1].cmd THEN "command" ELSE "append"
            /\ op' = [pc |-> pc, kind |-> o, stage |-> 1, got |-> 0, drain |-> 0, tries |-> 0, id |-> reqs']
      BY <1>1, <2>3
    <3>2. reqs' \in Nat
      BY <1>1, <1>2
    <3>3. QED
      BY <3>1, <3>2 DEF OpRec
  <2>5. GoodOp(op', reqs')
    BY <2>1, <2>2, <2>4 DEF GoodOp, GoodStage
  <2>6. Owed(op') = 0
    BY <2>4 DEF Owed
  <2>7. QED
    BY <2>5, <2>6
<1>6. ConnOK'
  BY <1>1, <1>2 DEF ConnOK, TypeOK
<1>7. connected /\ ~Slipped => Carried' = 0 /\ AllOf(obuf, reqs)' /\ AllOf(sent, reqs)' /\ AllOf(wire, reqs)'
  BY <1>1, <1>4 DEF Carried, AllOf
<1>8. Slipped' = Slipped /\ HistOK'
  BY <1>1, <1>2 DEF Slipped, HistOK, KnownSlips
<1>9. QED
  BY <1>1, <1>5, <1>6, <1>7, <1>8 DEF CInv, RepliesMatch

\* The invariant holds in every reachable state.
LEMMA Invariant == Spec => []CInv
<1>1. Init => CInv
  <2> SUFFICES ASSUME Init PROVE CInv
    OBVIOUS
  <2>1. ConnOK /\ HistOK /\ RepliesMatch
    BY DEF Init, ConnOK, TypeOK, HistOK, KnownSlips, RepliesMatch, NoReply
  <2>2. GoodOp(op, reqs) /\ Owed(op) = 0
    BY DEF Init, GoodOp, Owed, Idle
  <2>3. Carried = 0 /\ AllOf(obuf, reqs) /\ AllOf(sent, reqs) /\ AllOf(wire, reqs)
    BY DEF Init, Carried, AllOf
  <2>4. QED
    BY <2>1, <2>2, <2>3 DEF CInv, Init
<1>2. CInv /\ [Next]_vars => CInv'
  <2> SUFFICES ASSUME CInv, [Next]_vars PROVE CInv'
    OBVIOUS
  <2>1. CASE UNCHANGED vars
    BY <2>1 DEF CInv, ConnOK, TypeOK, HistOK, KnownSlips, RepliesMatch, Slipped, Carried, AllOf,
                vars, conn, hist
  <2>2. QED
    BY <2>1, SendCInv, ConnectCInv, MoveCInv, ReadCInv, ErrorCInv, StartCInv DEF Next, Work
<1>3. QED
  BY <1>1, <1>2, PTL DEF Spec

\* _redis and _connected agree whatever Redis and the requests do.
THEOREM TypeCorrect == Spec => []TypeOK
<1>1. Init => TypeOK
  BY DEF Init, TypeOK
<1>2. TypeOK /\ [Next]_vars => TypeOK'
  BY DEF TypeOK, Next, Work, Start, CommandConnect, GetReplyConnect, Connect, ConnectFails, CommandSend,
         AppendCommand, Write, ReadReply, ReadError, Close, RedisAnswers, RedisDown, RedisUp, Reading,
         vars, conn, hist
<1>3. QED
  BY <1>1, <1>2, PTL DEF Spec

\* A request never reads a reply to another one's command, however requests are
\* given up, commands refused and connections lost, until PushMsg or a
\* LoadQueues with three or more subscribers has miscounted on the connection.
THEOREM NoMixedReplies == Spec => []RepliesMatch
<1>1. CInv => RepliesMatch
  BY DEF CInv
<1>2. QED
  BY <1>1, Invariant, PTL

\* No other operation's _CHECK_REPLY reads too many or too few replies, for any
\* number of subscribers.
THEOREM OnlyTheseMiscount == Spec => []KnownSlips
<1>1. CInv => KnownSlips
  BY DEF CInv, HistOK
<1>2. QED
  BY <1>1, Invariant, PTL

\* Nothing of a request stays on the connection when it is over, with the same
\* exception.
THEOREM NothingLeftBehind == Spec => []QuietWhenIdle
<1>1. CInv => QuietWhenIdle
  <2> SUFFICES ASSUME CInv, op = Idle, connected, ~Slipped PROVE obuf = <<>> /\ sent = <<>> /\ wire = <<>>
    BY DEF QuietWhenIdle
  <2>1. obuf \in Seq(Nat) /\ sent \in Seq(Nat) /\ wire \in Seq(Nat)
    BY DEF CInv, ConnOK
  <2>2. Owed(op) = 0
    BY DEF Owed, Idle
  <2>3. QED
    BY <2>1, <2>2 DEF CInv, Carried
<1>2. QED
  BY <1>1, Invariant, PTL

\* A worker that waits for a reply on a connection Redis holds has one coming
\* (what RequestEnds rests on), unless it has connected anew in mid-pipeline or
\* one of the MiscountingOps has slipped; and until Redis first goes away no
\* AppendCommand meets a missing context.
NeverStarved ==
  /\ Reading /\ alive /\ op.id # stranded /\ ~Slipped => obuf # <<>> \/ sent # <<>> \/ wire # <<>>
  /\ outages = 0 /\ op.pc = "append" => ctx # "null"

\* No worker waits for a reply that will not come, through outages too, but in
\* GetReply's retry; without an outage the assertion in AppendCommand holds.
THEOREM NoStarvation == Spec => []NeverStarved
<1>1. CInv => NeverStarved
  <2> SUFFICES ASSUME CInv PROVE NeverStarved
    OBVIOUS
  <2>1. outages = 0 => ctx # "null"
    BY DEF CInv, ConnOK, TypeOK
  <2>2. ASSUME Reading, alive, op.id # stranded, ~Slipped
        PROVE  obuf # <<>> \/ sent # <<>> \/ wire # <<>>
    <3>1. op # Idle /\ op.pc \in {"reply", "getreply"} /\ connected
      BY <2>2 DEF Reading, Idle
    <3>2. /\ op \in OpRec /\ op.got < Len(Script(op.kind)[op.stage].check) /\ op.kind \in Ops
          /\ op.stage \in 1..Len(Script(op.kind)) /\ op.got \in Nat /\ op.drain \in Nat /\ op.id = reqs
      BY <3>1 DEF CInv, GoodOp, OpRec
    <3>3. Len(Script(op.kind)[op.stage].check) \in Nat
      BY <3>2, StageFacts DEF GoodStage
    <3>4. Owed(op) > 0
      BY <3>1, <3>2, <3>3 DEF Owed
    <3>5. Carried = Owed(op)
      BY <2>2, <3>1, <3>2 DEF CInv
    <3>6. QED
      BY <3>4, <3>5 DEF Carried
  <2>3. QED
    BY <2>1, <2>2 DEF NeverStarved
<1>2. QED
  BY <1>1, Invariant, PTL
=============================================================================
