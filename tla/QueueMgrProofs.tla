--------------------------- MODULE QueueMgrProofs ---------------------------
(***************************************************************************)
(* QueueMgr for any number of clients, queues, worker threads, messages,   *)
(* crashes and reloads.  With any number of workers: the process can       *)
(* always start again, a PEER2PEER message goes through its list once, the *)
(* messages of a publisher that waits for its answers keep their order,    *)
(* and only a crash loses a message that was fetched.  With the one worker *)
(* of the shipped configuration: the cache says what Redis says, and every *)
(* subscriber is served, once.                                             *)
(***************************************************************************)
EXTENDS QueueMgr, FiniteSetTheorems, SequenceTheorems, TLAPS

Msg == [from : Client, n : Nat]
EntryRec == [type : MsgType, clients : Seq(Client)]
AckRec == [m : Msg, q : Queue, peer : BOOLEAN, to : SUBSET Client]
Fetched == [k : Keys, m : Msg]
DbRec ==
  [names   : SUBSET Queue,
   meta    : [Queue -> MsgType \cup {NoMeta}],
   submeta : [Queue -> SUBSET Client],
   lists   : [Keys -> Seq(Msg)],
   taken   : [Keys -> Seq(Msg)]]

\* f is a table of queues, as _name2Queue is.
IsCache(f) == DOMAIN f \subseteq Queue /\ f \in [DOMAIN f -> EntryRec]
----------------------------------------------------------------------------
(* What a worker may be doing *)

SubJob ==
  [pc : {"hgetall", "hexists", "hmset", "pushback", "open"}, c : Client, q : Queue, t : MsgType, sub : BOOLEAN]
PubCmd == {SADD(q) : q \in Queue} \cup {HMSETMeta(q, t) : q \in Queue, t \in MsgType}
PubJob ==
  [pc : {"pipe", "open"}, c : Client, q : Queue, t : MsgType, cmds : Seq(PubCmd),
   then : {"open", "idle"}, fresh : BOOLEAN, got : Seq(Fetched), sub : BOOLEAN]
PushCmd ==
  {RPUSH(k, m) : k \in Keys, m \in Msg} \cup {HSETVisit(q) : q \in Queue}
    \cup {HSETSub(q, c) : q \in Queue, c \in Client}
PushJob ==
  [pc : {"pipe", "pushed"}, c : Client, q : Queue, cmds : Seq(PushCmd),
   then : {"pushed", "idle"}, fresh : BOOLEAN, got : Seq(Fetched), ack : AckRec]
PopCmd ==
  {LPOP(k) : k \in Keys} \cup {HSETVisit(q) : q \in Queue}
    \cup {HSETSub(q, c) : q \in Queue, c \in Client}
PopJob ==
  [pc : {"pipe", "popped"}, c : Client, q : Queue, cmds : Seq(PopCmd),
   then : {"popped", "idle"}, fresh : BOOLEAN, got : Seq(Fetched)]

\* The commands a pipeline of CreatePublisher has left.
PubLeft(j) ==
  \/ j.cmds = <<SADD(j.q), HMSETMeta(j.q, j.t)>>
  \/ j.cmds = <<HMSETMeta(j.q, j.t)>> /\ ~j.fresh

\* Of PushMsg: for a PEER2PEER queue, or to some subscribers.
FanOut(q, m) == {RPUSH(SubKey(q, c), m) : c \in Client} \cup {HSETSub(q, c) : c \in Client}
PushLeft(j) ==
  \/ j.cmds = <<RPUSH(QueueKey(j.q), j.ack.m), HSETVisit(j.q)>>
  \/ j.cmds = <<HSETVisit(j.q)>>
  \/ ~j.ack.peer /\ j.cmds \in Seq(FanOut(j.q, j.ack.m)) /\ j.cmds # <<>>

\* Of PopMsg.
LastVisit(j) == {HSETVisit(j.q), HSETSub(j.q, j.c)}
PopLeft(j) ==
  \/ /\ \E k \in {QueueKey(j.q), SubKey(j.q, j.c)}, v \in LastVisit(j) : j.cmds = <<LPOP(k), v>>
     /\ j.got = <<>>
  \/ \E v \in LastVisit(j) : j.cmds = <<v>>

IsSub(j)  == j \in SubJob
IsPub(j)  == j \in PubJob /\ ~j.sub /\ (j.pc = "pipe" => PubLeft(j)) /\ j.got = <<>>
IsPush(j) == j \in PushJob /\ (j.pc = "pipe" => PushLeft(j)) /\ j.got = <<>> /\ j.ack.q = j.q /\ j.ack.m.from = j.c
IsPop(j)  == j \in PopJob /\ (j.pc = "pipe" => PopLeft(j)) /\ Len(j.got) <= 1
JobOK(j)  == j = Idle \/ IsSub(j) \/ IsPub(j) \/ IsPush(j) \/ IsPop(j)
----------------------------------------------------------------------------
(* The shape of the state *)

LoadJob(l) ==
  /\ l = [pc |-> l.pc, boot |-> l.boot, todo |-> l.todo, at |-> l.at, tmp |-> l.tmp]
  /\ l.pc \in {"smembers", "queue", "clients"} /\ l.boot \in BOOLEAN /\ l.todo \subseteq Queue
  /\ IsCache(l.tmp)
  /\ l.pc = "clients" => l.at \in DOMAIN l.tmp

Shape ==
  /\ redis \in DbRec
  /\ IsCache(cache)
  /\ sess \subseteq Client \X Queue
  /\ job = [w \in Worker |-> job[w]]
  /\ \A w \in Worker : JobOK(job[w])
  /\ loader = NoLoad \/ LoadJob(loader)
  /\ sent \in 0..MaxMsg
  /\ crashes \in Nat /\ fails \in Nat /\ crashes + fails <= MaxFault
  /\ loads \in 0..MaxLoad
  /\ raced \in BOOLEAN
  /\ subscribed \subseteq Client \X Queue
  /\ acked \subseteq AckRec
  /\ handed \subseteq [k : Keys, m : Msg, c : Client]
----------------------------------------------------------------------------
(* Redis *)

LEMMA KeysOf == ASSUME NEW q \in Queue, NEW c \in Client PROVE QueueKey(q) \in Keys /\ SubKey(q, c) \in Keys
  BY DEF Keys

LEMMA CmdKinds ==
  /\ \A q : SADD(q).cmd = "SADD" /\ HSETVisit(q).cmd = "HSET lastvisit"
  /\ \A q, t : HMSETMeta(q, t).cmd = "HMSET meta"
  /\ \A q, c : HSETSub(q, c).cmd = "HSET submeta"
  /\ \A k, m : RPUSH(k, m).cmd = "RPUSH"
  /\ \A k : LPOP(k).cmd = "LPOP"
  BY DEF SADD, HSETVisit, HMSETMeta, HSETSub, RPUSH, LPOP

\* What each command does to a database.
LEMMA ExecSADD ==
  ASSUME NEW db \in DbRec, NEW q \in Queue, NEW d, d = Exec(db, SADD(q))
  PROVE  /\ d \in DbRec /\ d.names = db.names \cup {q} /\ d.meta = db.meta /\ d.submeta = db.submeta
         /\ d.lists = db.lists /\ d.taken = db.taken
<1>1. d = [db EXCEPT !.names = @ \cup {q}]
  BY DEF Exec, SADD
<1>2. QED
  BY <1>1 DEF DbRec

LEMMA ExecMeta ==
  ASSUME NEW db \in DbRec, NEW q \in Queue, NEW t \in MsgType, NEW d, d = Exec(db, HMSETMeta(q, t))
  PROVE  /\ d \in DbRec /\ d.names = db.names /\ d.meta = [db.meta EXCEPT ![q] = t]
         /\ d.submeta = db.submeta /\ d.lists = db.lists /\ d.taken = db.taken
<1>1. d = [db EXCEPT !.meta[q] = t]
  BY DEF Exec, HMSETMeta
<1>2. QED
  BY <1>1 DEF DbRec

LEMMA ExecSub ==
  ASSUME NEW db \in DbRec, NEW q \in Queue, NEW c \in Client, NEW d, d = Exec(db, HSETSub(q, c))
  PROVE  /\ d \in DbRec /\ d.names = db.names /\ d.meta = db.meta
         /\ d.submeta = [db.submeta EXCEPT ![q] = @ \cup {c}]
         /\ d.lists = db.lists /\ d.taken = db.taken
<1>1. d = [db EXCEPT !.submeta[q] = @ \cup {c}]
  BY DEF Exec, HSETSub
<1>2. db.submeta \in [Queue -> SUBSET Client]
  BY DEF DbRec
<1>3. db.submeta[q] \cup {c} \in SUBSET Client
  BY <1>2
<1>4. QED
  BY <1>1, <1>2, <1>3 DEF DbRec

LEMMA ExecVisit ==
  ASSUME NEW db \in DbRec, NEW q \in Queue
  PROVE  Exec(db, HSETVisit(q)) = db
  BY DEF Exec, HSETVisit

LEMMA ExecRPUSH ==
  ASSUME NEW db \in DbRec, NEW k \in Keys, NEW m \in Msg, NEW d, d = Exec(db, RPUSH(k, m))
  PROVE  /\ d \in DbRec /\ d.names = db.names /\ d.meta = db.meta /\ d.submeta = db.submeta
         /\ d.lists = [db.lists EXCEPT ![k] = Append(@, m)] /\ d.taken = db.taken
<1>1. d = [db EXCEPT !.lists[k] = Append(@, m)]
  BY DEF Exec, RPUSH
<1>2. db.lists \in [Keys -> Seq(Msg)]
  BY DEF DbRec
<1>3. Append(db.lists[k], m) \in Seq(Msg)
  BY <1>2
<1>4. QED
  BY <1>1, <1>2, <1>3 DEF DbRec

LEMMA ExecLPOP ==
  ASSUME NEW db \in DbRec, NEW k \in Keys, NEW d, d = Exec(db, LPOP(k))
  PROVE  /\ d \in DbRec /\ d.names = db.names /\ d.meta = db.meta /\ d.submeta = db.submeta
         /\ \/ db.lists[k] = <<>> /\ d = db
            \/ /\ db.lists[k] # <<>>
               /\ d.lists = [db.lists EXCEPT ![k] = Tail(@)]
               /\ d.taken = [db.taken EXCEPT ![k] = Append(@, Head(db.lists[k]))]
<1>1. d = IF db.lists[k] = <<>> THEN db
          ELSE [db EXCEPT !.lists[k] = Tail(@), !.taken[k] = Append(@, Head(db.lists[k]))]
  BY DEF Exec, LPOP
<1>2. db.lists \in [Keys -> Seq(Msg)] /\ db.taken \in [Keys -> Seq(Msg)]
  BY DEF DbRec
<1>3. CASE db.lists[k] = <<>>
  BY <1>1, <1>3
<1>4. CASE db.lists[k] # <<>>
  <2>1. d = [db EXCEPT !.lists[k] = Tail(@), !.taken[k] = Append(@, Head(db.lists[k]))]
    BY <1>1, <1>4
  <2>2. Tail(db.lists[k]) \in Seq(Msg) /\ Append(db.taken[k], Head(db.lists[k])) \in Seq(Msg)
    BY <1>2, <1>4
  <2>3. PICK l \in [Keys -> Seq(Msg)] : l = [db.lists EXCEPT ![k] = Tail(@)]
    BY <1>2, <2>2
  <2>4. PICK t \in [Keys -> Seq(Msg)] : t = [db.taken EXCEPT ![k] = Append(@, Head(db.lists[k]))]
    BY <1>2, <2>2
  <2>5. d = [db EXCEPT !.lists = l, !.taken = t]
    BY <2>1, <2>3, <2>4 DEF DbRec
  <2>6. d \in DbRec /\ d.lists = l /\ d.taken = t /\ d.names = db.names /\ d.meta = db.meta /\ d.submeta = db.submeta
    BY <2>5 DEF DbRec
  <2>7. QED
    BY <1>4, <2>3, <2>4, <2>6
<1>5. QED
  BY <1>3, <1>4
----------------------------------------------------------------------------
(* Jobs *)

\* Only worker w does something else.
LEMMA GotoJob ==
  ASSUME job = [w \in Worker |-> job[w]], NEW w \in Worker, NEW j, Goto(w, j)
  PROVE  job' = [v \in Worker |-> job'[v]] /\ job'[w] = j /\ \A v \in Worker : v # w => job'[v] = job[v]
  BY DEF Goto

\* A step of OpenQueue as subscriber.
LEMMA SubStep ==
  ASSUME NEW j, IsSub(j), NEW p \in {"hgetall", "hexists", "hmset", "pushback", "open"},
         NEW k, k = [j EXCEPT !.pc = p]
  PROVE  IsSub(k) /\ k.pc = p /\ k.c = j.c /\ k.q = j.q /\ k.t = j.t /\ k.sub = j.sub
  BY DEF IsSub, SubJob

\* The fields of a job, by what it is.
LEMMA SubFields ==
  ASSUME NEW j, IsSub(j)
  PROVE  j.c \in Client /\ j.q \in Queue /\ j.t \in MsgType /\ j.sub \in BOOLEAN
         /\ j.pc \in {"hgetall", "hexists", "hmset", "pushback", "open"}
  BY DEF IsSub, SubJob

LEMMA PubFields ==
  ASSUME NEW j, IsPub(j)
  PROVE  /\ j.c \in Client /\ j.q \in Queue /\ j.t \in MsgType /\ ~j.sub /\ j.pc \in {"pipe", "open"}
         /\ j.then \in {"open", "idle"} /\ j.fresh \in BOOLEAN /\ j.got = <<>>
  BY DEF IsPub, PubJob

LEMMA PushFields ==
  ASSUME NEW j, IsPush(j)
  PROVE  /\ j.c \in Client /\ j.q \in Queue /\ j.pc \in {"pipe", "pushed"} /\ j.then \in {"pushed", "idle"}
         /\ j.fresh \in BOOLEAN /\ j.got = <<>> /\ j.ack \in AckRec /\ j.ack.m \in Msg /\ j.ack.q = j.q
         /\ j.ack.peer \in BOOLEAN /\ j.ack.m.from = j.c /\ j.cmds \in Seq(PushCmd)
  BY DEF IsPush, PushJob, AckRec

LEMMA PopFields ==
  ASSUME NEW j, IsPop(j)
  PROVE  /\ j.c \in Client /\ j.q \in Queue /\ j.pc \in {"pipe", "popped"} /\ j.then \in {"popped", "idle"}
         /\ j.fresh \in BOOLEAN /\ j.got \in Seq(Fetched) /\ Len(j.got) <= 1
  BY DEF IsPop, PopJob

LEMMA IdleFields == Idle.pc = "idle" /\ \A j : (IsSub(j) \/ IsPub(j) \/ IsPush(j) \/ IsPop(j)) => j # Idle
<1>1. Idle.pc = "idle"
  BY DEF Idle
<1>2. QED
  BY <1>1, SubFields, PubFields, PushFields, PopFields

\* The job of a worker whose pipeline Redis is working on.
LEMMA Piping ==
  ASSUME NEW j, JobOK(j), j.pc = "pipe"
  PROVE  IsPub(j) \/ IsPush(j) \/ IsPop(j)
  BY IdleFields, SubFields DEF JobOK

\* Job j after one command of its pipeline.
After(j, g) ==
  IF Tail(j.cmds) = <<>> /\ j.then = "idle" THEN Idle
  ELSE [j EXCEPT !.cmds = Tail(j.cmds), !.fresh = FALSE, !.got = g,
                 !.pc = IF Tail(j.cmds) = <<>> THEN j.then ELSE @]

\* CreatePublisher's pipeline.
LEMMA PubAfter ==
  ASSUME NEW j, IsPub(j), j.pc = "pipe", NEW k, k = After(j, <<>>)
  PROVE  \/ /\ j.cmds = <<SADD(j.q), HMSETMeta(j.q, j.t)>> /\ Head(j.cmds) = SADD(j.q)
            /\ IsPub(k) /\ k.pc = "pipe" /\ k.cmds = <<HMSETMeta(j.q, j.t)>> /\ ~k.fresh
            /\ k.c = j.c /\ k.q = j.q /\ k.t = j.t /\ k.then = j.then
         \/ /\ j.cmds = <<HMSETMeta(j.q, j.t)>> /\ Head(j.cmds) = HMSETMeta(j.q, j.t)
            /\ ~j.fresh
            /\ \/ j.then = "idle" /\ k = Idle
               \/ /\ j.then = "open" /\ IsPub(k) /\ k.pc = "open"
                  /\ k.c = j.c /\ k.q = j.q /\ k.t = j.t /\ k.then = j.then
<1>1. j \in PubJob /\ PubLeft(j) /\ j.then \in {"open", "idle"} /\ j.q \in Queue /\ j.t \in MsgType /\ ~j.sub
  BY PubFields DEF IsPub
<1>2. PICK one : one = HMSETMeta(j.q, j.t)
  OBVIOUS
<1>3. <<one>> \in Seq(PubCmd) /\ <<>> \in Seq(PubCmd) /\ <<>> \in Seq(Fetched)
  BY <1>1, <1>2 DEF PubCmd
<1>4. CASE j.cmds = <<SADD(j.q), one>>
  <2>1. Head(j.cmds) = SADD(j.q) /\ Tail(j.cmds) = <<one>> /\ <<one>> # <<>>
    BY <1>4
  <2>2. PICK rest \in Seq(PubCmd), g \in Seq(Fetched) : rest = <<one>> /\ g = <<>>
    BY <1>3
  <2>6. k = [j EXCEPT !.cmds = rest, !.fresh = FALSE, !.got = g, !.pc = "pipe"]
    BY <1>1, <2>1, <2>2 DEF After, PubJob
  <2>3. k \in PubJob /\ k.pc = "pipe" /\ k.cmds = <<one>> /\ ~k.fresh /\ k.c = j.c /\ k.q = j.q /\ k.t = j.t
        /\ k.then = j.then /\ k.got = <<>> /\ k.sub = j.sub
    BY <1>1, <2>2, <2>6 DEF PubJob
  <2>4. IsPub(k)
    BY <1>1, <1>2, <2>3 DEF IsPub, PubLeft
  <2>5. QED
    BY <1>2, <1>4, <2>1, <2>3, <2>4
<1>5. CASE j.cmds = <<one>> /\ ~j.fresh
  <2>1. Head(j.cmds) = one /\ Tail(j.cmds) = <<>>
    BY <1>5
  <2>2. CASE j.then = "idle"
    BY <1>2, <1>5, <2>1, <2>2 DEF After
  <2>3. CASE j.then = "open"
    <3>0. PICK rest \in Seq(PubCmd), g \in Seq(Fetched) : rest = <<>> /\ g = <<>>
      BY <1>3
    <3>1. k = [j EXCEPT !.cmds = rest, !.fresh = FALSE, !.got = g, !.pc = "open"]
      BY <1>1, <2>1, <2>3, <3>0 DEF After, PubJob
    <3>2. k \in PubJob /\ k.pc = "open" /\ k.c = j.c /\ k.q = j.q /\ k.t = j.t /\ k.then = j.then
          /\ k.got = <<>> /\ k.sub = j.sub
      BY <1>1, <3>0, <3>1 DEF PubJob
    <3>3. QED
      BY <1>1, <1>2, <1>5, <2>1, <2>3, <3>2 DEF IsPub
  <2>4. QED
    BY <1>1, <2>2, <2>3
<1>6. QED
  BY <1>1, <1>2, <1>4, <1>5 DEF PubLeft

\* PushMsg's pipeline.
LEMMA PushAfter ==
  ASSUME NEW j, IsPush(j), j.pc = "pipe", NEW k, k = After(j, <<>>)
  PROVE  /\ \/ k = Idle /\ j.then = "idle" /\ Tail(j.cmds) = <<>>
            \/ /\ IsPush(k) /\ k.pc = "pushed" /\ j.then = "pushed" /\ Tail(j.cmds) = <<>>
               /\ k.c = j.c /\ k.q = j.q /\ k.then = j.then /\ k.ack = j.ack
            \/ /\ IsPush(k) /\ k.pc = "pipe" /\ k.cmds = Tail(j.cmds) /\ ~k.fresh
               /\ k.c = j.c /\ k.q = j.q /\ k.then = j.then /\ k.ack = j.ack
         /\ \/ j.cmds = <<RPUSH(QueueKey(j.q), j.ack.m), HSETVisit(j.q)>> /\ Tail(j.cmds) = <<HSETVisit(j.q)>>
               /\ Head(j.cmds) = RPUSH(QueueKey(j.q), j.ack.m)
            \/ Head(j.cmds) = HSETVisit(j.q) /\ Tail(j.cmds) = <<>>
            \/ /\ ~j.ack.peer
               /\ \E c \in Client : Head(j.cmds) = RPUSH(SubKey(j.q, c), j.ack.m) \/ Head(j.cmds) = HSETSub(j.q, c)
<1>1. /\ j \in PushJob /\ PushLeft(j) /\ j.then \in {"pushed", "idle"} /\ j.q \in Queue /\ j.ack \in AckRec
      /\ j.ack.q = j.q /\ j.ack.m.from = j.c /\ j.got = <<>> /\ j.cmds \in Seq(PushCmd)
  BY PushFields DEF IsPush
<1>2. j.cmds # <<>>
  <2>1. ASSUME NEW x, NEW y PROVE <<x, y>> # <<>> /\ <<x>> # <<>>
    OBVIOUS
  <2>2. QED
    BY <1>1, <2>1 DEF PushLeft
<1>3. Tail(j.cmds) \in Seq(PushCmd)
  BY <1>1, <1>2
<1>4. /\ \/ j.cmds = <<RPUSH(QueueKey(j.q), j.ack.m), HSETVisit(j.q)>> /\ Tail(j.cmds) = <<HSETVisit(j.q)>>
            /\ Head(j.cmds) = RPUSH(QueueKey(j.q), j.ack.m)
         \/ Head(j.cmds) = HSETVisit(j.q) /\ Tail(j.cmds) = <<>>
         \/ ~j.ack.peer /\ Head(j.cmds) \in FanOut(j.q, j.ack.m) /\ Tail(j.cmds) \in Seq(FanOut(j.q, j.ack.m))
  <2>1. CASE j.cmds = <<RPUSH(QueueKey(j.q), j.ack.m), HSETVisit(j.q)>>
    BY <2>1
  <2>2. CASE j.cmds = <<HSETVisit(j.q)>>
    BY <2>2
  <2>3. CASE ~j.ack.peer /\ j.cmds \in Seq(FanOut(j.q, j.ack.m)) /\ j.cmds # <<>>
    <3>1. PICK S : S = FanOut(j.q, j.ack.m)
      OBVIOUS
    <3>2. j.cmds \in Seq(S) /\ j.cmds # <<>>
      BY <2>3, <3>1
    <3>3. Head(j.cmds) \in S /\ Tail(j.cmds) \in Seq(S)
      BY <3>2
    <3>4. QED
      BY <2>3, <3>1, <3>3
  <2>4. QED
    BY <1>1, <2>1, <2>2, <2>3 DEF PushLeft
<1>5. PICK rest : rest = Tail(j.cmds)
  OBVIOUS
<1>6. PICK none \in Seq(PushCmd), nothing \in Seq(Fetched) : none = <<>> /\ nothing = <<>>
  BY EmptySeq
<1>9. \/ k = Idle /\ j.then = "idle" /\ Tail(j.cmds) = <<>>
      \/ /\ IsPush(k) /\ k.pc = "pushed" /\ j.then = "pushed" /\ Tail(j.cmds) = <<>>
         /\ k.c = j.c /\ k.q = j.q /\ k.then = j.then /\ k.ack = j.ack
      \/ /\ IsPush(k) /\ k.pc = "pipe" /\ k.cmds = Tail(j.cmds) /\ ~k.fresh
         /\ k.c = j.c /\ k.q = j.q /\ k.then = j.then /\ k.ack = j.ack
  <2>1. CASE rest = <<>> /\ j.then = "idle"
    BY <1>5, <2>1 DEF After
  <2>2. CASE rest = <<>> /\ j.then = "pushed"
    <3>1. k = [j EXCEPT !.cmds = none, !.fresh = FALSE, !.got = nothing, !.pc = "pushed"]
      BY <1>1, <1>5, <1>6, <2>2 DEF After, PushJob
    <3>2. k \in PushJob /\ k.pc = "pushed" /\ k.c = j.c /\ k.q = j.q /\ k.then = j.then /\ k.ack = j.ack /\ k.got = <<>>
      BY <1>1, <1>6, <3>1 DEF PushJob
    <3>3. IsPush(k)
      BY <1>1, <3>2 DEF IsPush
    <3>4. QED
      BY <1>5, <2>2, <3>2, <3>3
  <2>3. CASE rest # <<>>
    <3>1. k = [j EXCEPT !.cmds = rest, !.fresh = FALSE, !.got = nothing, !.pc = "pipe"]
      BY <1>1, <1>5, <1>6, <2>3 DEF After, PushJob
    <3>2. k \in PushJob /\ k.pc = "pipe" /\ k.cmds = rest /\ ~k.fresh /\ k.c = j.c /\ k.q = j.q /\ k.then = j.then
          /\ k.ack = j.ack /\ k.got = <<>>
      BY <1>1, <1>3, <1>5, <1>6, <3>1 DEF PushJob
    <3>3. PushLeft(k)
      BY <1>4, <1>5, <2>3, <3>2 DEF PushLeft
    <3>4. IsPush(k)
      BY <1>1, <3>2, <3>3 DEF IsPush
    <3>5. QED
      BY <1>5, <3>2, <3>4
  <2>4. QED
    BY <1>1, <2>1, <2>2, <2>3
<1>10. Head(j.cmds) \in FanOut(j.q, j.ack.m) =>
         \E c \in Client : Head(j.cmds) = RPUSH(SubKey(j.q, c), j.ack.m) \/ Head(j.cmds) = HSETSub(j.q, c)
  BY DEF FanOut
<1>11. QED
  BY <1>4, <1>9, <1>10

\* PopMsg's pipeline.
LEMMA PopAfter ==
  ASSUME NEW j, IsPop(j), j.pc = "pipe", NEW g \in Seq(Fetched), Len(g) <= 1, NEW k, k = After(j, g)
  PROVE  \/ /\ \E x \in {QueueKey(j.q), SubKey(j.q, j.c)} : x \in Keys /\ Head(j.cmds) = LPOP(x)
            /\ IsPop(k) /\ k.pc = "pipe" /\ k.got = g /\ j.got = <<>> /\ ~k.fresh
            /\ k.c = j.c /\ k.q = j.q /\ k.then = j.then
            /\ \E v \in LastVisit(j) : k.cmds = <<v>>
         \/ /\ Head(j.cmds) \in LastVisit(j) /\ Tail(j.cmds) = <<>>
            /\ \/ k = Idle /\ j.then = "idle"
               \/ /\ IsPop(k) /\ k.pc = "popped" /\ j.then = "popped" /\ k.got = g
                  /\ k.c = j.c /\ k.q = j.q /\ k.then = j.then
<1>1. /\ j \in PopJob /\ PopLeft(j) /\ j.then \in {"popped", "idle"} /\ j.q \in Queue /\ j.c \in Client
  BY PopFields DEF IsPop
<1>2. \A v \in LastVisit(j) : <<v>> \in Seq(PopCmd) /\ <<v>> # <<>>
  BY <1>1 DEF LastVisit, PopCmd
<1>3. ASSUME NEW x \in {QueueKey(j.q), SubKey(j.q, j.c)}, NEW v \in LastVisit(j), j.cmds = <<LPOP(x), v>>,
             j.got = <<>>
      PROVE  /\ \E y \in {QueueKey(j.q), SubKey(j.q, j.c)} : y \in Keys /\ Head(j.cmds) = LPOP(y)
             /\ IsPop(k) /\ k.pc = "pipe" /\ k.got = g /\ j.got = <<>> /\ ~k.fresh
             /\ k.c = j.c /\ k.q = j.q /\ k.then = j.then
             /\ \E u \in LastVisit(j) : k.cmds = <<u>>
  <2>1. Head(j.cmds) = LPOP(x) /\ Tail(j.cmds) = <<v>>
    BY <1>3
  <2>2. PICK rest \in Seq(PopCmd) : rest = <<v>> /\ rest # <<>>
    BY <1>2
  <2>3. k = [j EXCEPT !.cmds = rest, !.fresh = FALSE, !.got = g, !.pc = "pipe"]
    BY <1>1, <2>1, <2>2 DEF After, PopJob
  <2>4. k \in PopJob /\ k.pc = "pipe" /\ k.cmds = rest /\ ~k.fresh /\ k.c = j.c /\ k.q = j.q /\ k.then = j.then
        /\ k.got = g
    BY <1>1, <2>3 DEF PopJob
  <2>5. PopLeft(k)
    BY <2>2, <2>4 DEF PopLeft, LastVisit
  <2>6. x \in Keys
    BY <1>1, KeysOf
  <2>7. QED
    BY <1>3, <2>1, <2>2, <2>4, <2>5, <2>6 DEF IsPop
<1>4. ASSUME NEW v \in LastVisit(j), j.cmds = <<v>>
      PROVE  /\ Head(j.cmds) \in LastVisit(j) /\ Tail(j.cmds) = <<>>
             /\ \/ k = Idle /\ j.then = "idle"
                \/ /\ IsPop(k) /\ k.pc = "popped" /\ j.then = "popped" /\ k.got = g
                   /\ k.c = j.c /\ k.q = j.q /\ k.then = j.then
  <2>1. Head(j.cmds) \in LastVisit(j) /\ Tail(j.cmds) = <<>>
    BY <1>4
  <2>2. CASE j.then = "idle"
    BY <2>1, <2>2 DEF After
  <2>3. CASE j.then = "popped"
    <3>0. PICK none \in Seq(PopCmd) : none = <<>>
      BY EmptySeq
    <3>1. k = [j EXCEPT !.cmds = none, !.fresh = FALSE, !.got = g, !.pc = "popped"]
      BY <1>1, <2>1, <2>3, <3>0 DEF After, PopJob
    <3>2. k \in PopJob /\ k.pc = "popped" /\ k.got = g /\ k.c = j.c /\ k.q = j.q /\ k.then = j.then
      BY <1>1, <3>1 DEF PopJob
    <3>3. QED
      BY <2>1, <2>3, <3>2 DEF IsPop
  <2>4. QED
    BY <1>1, <2>1, <2>2, <2>3
<1>5. QED
  BY <1>1, <1>3, <1>4 DEF PopLeft

\* What is left of a job when the process dies.
LEMMA OrphanJob ==
  ASSUME NEW w \in Worker, JobOK(job[w]), NEW lost, NEW j, j = job[w], NEW k, k = Orphan(w, w \in lost)
  PROVE  \/ k = Idle
         \/ /\ j.pc = "pipe" /\ k.pc = "pipe" /\ k.then = "idle" /\ k.cmds = j.cmds /\ k.c = j.c /\ k.q = j.q
            /\ k.got = j.got /\ k.fresh = j.fresh
            /\ \/ IsPub(j) /\ IsPub(k) /\ k.t = j.t
               \/ IsPush(j) /\ IsPush(k) /\ k.ack = j.ack
               \/ IsPop(j) /\ IsPop(k)
<1>1. CASE ~(j.pc = "pipe" /\ ~(w \in lost /\ j.fresh))
  BY <1>1 DEF Orphan
<1>2. CASE j.pc = "pipe" /\ ~(w \in lost /\ j.fresh)
  <2>1. k = [j EXCEPT !.then = "idle"]
    BY <1>2 DEF Orphan
  <2>2. CASE IsPub(j)
    <3>1. /\ k \in PubJob /\ k.pc = j.pc /\ k.then = "idle" /\ k.cmds = j.cmds /\ k.c = j.c /\ k.q = j.q /\ k.got = j.got
          /\ k.fresh = j.fresh /\ k.t = j.t /\ k.sub = j.sub
      BY <2>1, <2>2 DEF IsPub, PubJob
    <3>2. IsPub(k)
      BY <1>2, <2>2, <3>1 DEF IsPub, PubLeft
    <3>3. QED
      BY <1>2, <2>2, <3>1, <3>2
  <2>3. CASE IsPush(j)
    <3>1. /\ k \in PushJob /\ k.pc = j.pc /\ k.then = "idle" /\ k.cmds = j.cmds /\ k.c = j.c /\ k.q = j.q /\ k.got = j.got
          /\ k.fresh = j.fresh /\ k.ack = j.ack
      BY <2>1, <2>3 DEF IsPush, PushJob
    <3>2. IsPush(k)
      BY <1>2, <2>3, <3>1 DEF IsPush, PushLeft
    <3>3. QED
      BY <1>2, <2>3, <3>1, <3>2
  <2>4. CASE IsPop(j)
    <3>1. /\ k \in PopJob /\ k.pc = j.pc /\ k.then = "idle" /\ k.cmds = j.cmds /\ k.c = j.c /\ k.q = j.q /\ k.got = j.got
          /\ k.fresh = j.fresh
      BY <2>1, <2>4 DEF IsPop, PopJob
    <3>2. IsPop(k)
      BY <1>2, <2>4, <3>1 DEF IsPop, PopLeft, LastVisit
    <3>3. QED
      BY <1>2, <2>4, <3>1, <3>2
  <2>5. QED
    BY <1>2, <2>2, <2>3, <2>4, Piping
<1>3. QED
  BY <1>1, <1>2

\* One command of CreatePublisher's pipeline; j becomes k.
PubExec(j, k) ==
  \/ /\ j.cmds = <<SADD(j.q), HMSETMeta(j.q, j.t)>> /\ redis' = Exec(redis, SADD(j.q))
     /\ IsPub(k) /\ k.pc = "pipe" /\ k.cmds = <<HMSETMeta(j.q, j.t)>> /\ ~k.fresh
     /\ k.c = j.c /\ k.q = j.q /\ k.t = j.t /\ k.then = j.then
  \/ /\ j.cmds = <<HMSETMeta(j.q, j.t)>> /\ ~j.fresh /\ redis' = Exec(redis, HMSETMeta(j.q, j.t))
     /\ \/ j.then = "idle" /\ k = Idle
        \/ /\ j.then = "open" /\ IsPub(k) /\ k.pc = "open"
           /\ k.c = j.c /\ k.q = j.q /\ k.t = j.t /\ k.then = j.then

\* Of PushMsg's.
PushExec(j, k) ==
  /\ \/ k = Idle /\ j.then = "idle" /\ Tail(j.cmds) = <<>>
     \/ /\ IsPush(k) /\ k.pc = "pushed" /\ j.then = "pushed" /\ Tail(j.cmds) = <<>>
        /\ k.c = j.c /\ k.q = j.q /\ k.then = j.then /\ k.ack = j.ack
     \/ /\ IsPush(k) /\ k.pc = "pipe" /\ k.cmds = Tail(j.cmds) /\ ~k.fresh
        /\ k.c = j.c /\ k.q = j.q /\ k.then = j.then /\ k.ack = j.ack
  /\ \/ /\ j.cmds = <<RPUSH(QueueKey(j.q), j.ack.m), HSETVisit(j.q)>> /\ Tail(j.cmds) = <<HSETVisit(j.q)>>
        /\ redis' = Exec(redis, RPUSH(QueueKey(j.q), j.ack.m))
     \/ Head(j.cmds) = HSETVisit(j.q) /\ Tail(j.cmds) = <<>> /\ redis' = redis
     \/ /\ ~j.ack.peer
        /\ \E c \in Client :
             \/ Head(j.cmds) = RPUSH(SubKey(j.q, c), j.ack.m) /\ redis' = Exec(redis, RPUSH(SubKey(j.q, c), j.ack.m))
             \/ Head(j.cmds) = HSETSub(j.q, c) /\ redis' = Exec(redis, HSETSub(j.q, c))

\* Of PopMsg's.
PopExec(j, k) ==
  \/ /\ \E x \in {QueueKey(j.q), SubKey(j.q, j.c)} :
          /\ x \in Keys /\ Head(j.cmds) = LPOP(x) /\ redis' = Exec(redis, LPOP(x))
          /\ \/ redis.lists[x] = <<>> /\ k.got = <<>>
             \/ redis.lists[x] # <<>> /\ k.got = <<[k |-> x, m |-> Head(redis.lists[x])]>>
     /\ IsPop(k) /\ k.pc = "pipe" /\ j.got = <<>> /\ ~k.fresh
     /\ k.c = j.c /\ k.q = j.q /\ k.then = j.then
     /\ \E v \in LastVisit(j) : k.cmds = <<v>>
  \/ /\ Head(j.cmds) \in LastVisit(j) /\ Tail(j.cmds) = <<>>
     /\ redis' = redis \/ (redis' = Exec(redis, HSETSub(j.q, j.c)) /\ Head(j.cmds) = HSETSub(j.q, j.c))
     /\ \/ k = Idle /\ j.then = "idle"
        \/ /\ IsPop(k) /\ k.pc = "popped" /\ j.then = "popped" /\ k.got = j.got
           /\ k.c = j.c /\ k.q = j.q /\ k.then = j.then

\* What Redis does with a worker's pipeline.
LEMMA ExecShape ==
  ASSUME Shape, NEW w \in Worker, RedisExec(w), NEW j, j = job[w], NEW k, k = job'[w]
  PROVE  /\ j.pc = "pipe"
         /\ \/ IsPub(j) /\ PubExec(j, k)
            \/ IsPush(j) /\ PushExec(j, k)
            \/ IsPop(j) /\ PopExec(j, k)
         /\ \A v \in Worker : v # w => job'[v] = job[v]
         /\ job' = [v \in Worker |-> job'[v]]
<1>1. redis \in DbRec /\ JobOK(j) /\ job = [v \in Worker |-> job[v]]
  BY DEF Shape
<1>2. /\ j.pc = "pipe" /\ redis' = Exec(redis, Head(j.cmds))
      /\ Goto(w, After(j, Popped(w, Head(j.cmds))))
  BY DEF RedisExec, After
<1>3. /\ k = After(j, Popped(w, Head(j.cmds))) /\ \A v \in Worker : v # w => job'[v] = job[v]
      /\ job' = [v \in Worker |-> job'[v]]
  BY <1>1, <1>2, GotoJob
<1>4. CASE IsPub(j)
  <2>1. j.got = <<>> /\ PubLeft(j)
    BY <1>2, <1>4 DEF IsPub
  <2>2. Head(j.cmds).cmd # "LPOP"
    <3>1. Head(j.cmds) = SADD(j.q) \/ Head(j.cmds) = HMSETMeta(j.q, j.t)
      BY <2>1 DEF PubLeft
    <3>2. QED
      BY <3>1, CmdKinds
  <2>3. k = After(j, <<>>)
    BY <1>3, <2>1, <2>2 DEF Popped
  <2>4. PubExec(j, k)
    BY <1>2, <1>4, <2>3, PubAfter DEF PubExec
  <2>5. QED
    BY <1>2, <1>3, <1>4, <2>4
<1>5. CASE IsPush(j)
  <2>1. PICK a : a = After(j, <<>>)
    OBVIOUS
  <2>2. /\ \/ a = Idle /\ j.then = "idle" /\ Tail(j.cmds) = <<>>
           \/ /\ IsPush(a) /\ a.pc = "pushed" /\ j.then = "pushed" /\ Tail(j.cmds) = <<>>
              /\ a.c = j.c /\ a.q = j.q /\ a.then = j.then /\ a.ack = j.ack
           \/ /\ IsPush(a) /\ a.pc = "pipe" /\ a.cmds = Tail(j.cmds) /\ ~a.fresh
              /\ a.c = j.c /\ a.q = j.q /\ a.then = j.then /\ a.ack = j.ack
        /\ \/ j.cmds = <<RPUSH(QueueKey(j.q), j.ack.m), HSETVisit(j.q)>> /\ Tail(j.cmds) = <<HSETVisit(j.q)>>
              /\ Head(j.cmds) = RPUSH(QueueKey(j.q), j.ack.m)
           \/ Head(j.cmds) = HSETVisit(j.q) /\ Tail(j.cmds) = <<>>
           \/ /\ ~j.ack.peer
              /\ \E c \in Client : Head(j.cmds) = RPUSH(SubKey(j.q, c), j.ack.m) \/ Head(j.cmds) = HSETSub(j.q, c)
    BY <1>2, <1>5, <2>1, PushAfter
  <2>3. Head(j.cmds).cmd # "LPOP"
    BY <2>2, CmdKinds
  <2>4. k = a
    BY <1>3, <1>5, <2>1, <2>3, PushFields DEF Popped
  <2>5. Head(j.cmds) = HSETVisit(j.q) => redis' = redis
    BY <1>1, <1>2, <1>5, PushFields, ExecVisit
  <2>6. PushExec(j, k)
    BY <1>2, <2>2, <2>4, <2>5 DEF PushExec
  <2>7. QED
    BY <1>2, <1>3, <1>5, <2>6
<1>6. CASE IsPop(j)
  <2>1. PICK g : g = Popped(w, Head(j.cmds))
    OBVIOUS
  <2>2. /\ j.got \in Seq(Fetched) /\ Len(j.got) <= 1 /\ j.q \in Queue /\ j.c \in Client
        /\ redis.lists \in [Keys -> Seq(Msg)]
    BY <1>1, <1>6, PopFields DEF DbRec
  <2>3. PopLeft(j)
    BY <1>2, <1>6 DEF IsPop
  <2>4. ASSUME NEW x \in {QueueKey(j.q), SubKey(j.q, j.c)}, NEW v \in LastVisit(j), j.cmds = <<LPOP(x), v>>, j.got = <<>>
        PROVE  PopExec(j, k)
    <3>1. Head(j.cmds) = LPOP(x) /\ Tail(j.cmds) = <<v>> /\ x \in Keys /\ Tail(j.cmds) # <<>>
      BY <2>2, <2>4, KeysOf
    <3>2. redis.lists[x] # <<>> => g = <<[k |-> x, m |-> Head(redis.lists[x])]>>
      BY <2>1, <3>1 DEF Popped, LPOP
    <3>3. redis.lists[x] = <<>> => g = <<>>
      BY <2>1, <2>4, <3>1 DEF Popped, LPOP
    <3>4. g \in Seq(Fetched) /\ Len(g) <= 1
      <4>1. CASE redis.lists[x] = <<>>
        BY <3>3, <4>1, EmptySeq
      <4>2. CASE redis.lists[x] # <<>>
        <5>1. Head(redis.lists[x]) \in Msg
          BY <2>2, <3>1, <4>2
        <5>2. PICK y \in Fetched : y = [k |-> x, m |-> Head(redis.lists[x])]
          BY <3>1, <5>1 DEF Fetched
        <5>3. g = <<y>>
          BY <3>2, <4>2, <5>2
        <5>4. QED
          BY <5>3
      <4>3. QED
        BY <4>1, <4>2
    <3>5. \/ /\ \E y \in {QueueKey(j.q), SubKey(j.q, j.c)} : y \in Keys /\ Head(j.cmds) = LPOP(y)
             /\ IsPop(k) /\ k.pc = "pipe" /\ k.got = g /\ j.got = <<>> /\ ~k.fresh
             /\ k.c = j.c /\ k.q = j.q /\ k.then = j.then
             /\ \E u \in LastVisit(j) : k.cmds = <<u>>
          \/ Tail(j.cmds) = <<>>
      BY <1>2, <1>3, <1>6, <2>1, <3>4, PopAfter
    <3>6. QED
      BY <1>2, <2>4, <3>1, <3>2, <3>3, <3>5 DEF PopExec
  <2>5. ASSUME NEW v \in LastVisit(j), j.cmds = <<v>> PROVE PopExec(j, k)
    <3>1. Head(j.cmds) = v /\ v.cmd # "LPOP" /\ (\A x : v # LPOP(x))
      <4>1. Head(j.cmds) = v /\ (v = HSETVisit(j.q) \/ v = HSETSub(j.q, j.c))
        BY <2>5 DEF LastVisit
      <4>2. QED
        BY <4>1, CmdKinds
    <3>2. g = j.got
      BY <2>1, <3>1 DEF Popped
    <3>3. redis' = redis \/ (redis' = Exec(redis, HSETSub(j.q, j.c)) /\ Head(j.cmds) = HSETSub(j.q, j.c))
      BY <1>1, <1>2, <2>2, <3>1, ExecVisit DEF LastVisit
    <3>4. \/ \E x \in {QueueKey(j.q), SubKey(j.q, j.c)} : x \in Keys /\ Head(j.cmds) = LPOP(x)
          \/ /\ Head(j.cmds) \in LastVisit(j) /\ Tail(j.cmds) = <<>>
             /\ \/ k = Idle /\ j.then = "idle"
                \/ /\ IsPop(k) /\ k.pc = "popped" /\ j.then = "popped" /\ k.got = g
                   /\ k.c = j.c /\ k.q = j.q /\ k.then = j.then
      BY <1>2, <1>3, <1>6, <2>1, <2>2, <3>2, PopAfter
    <3>5. QED
      BY <3>1, <3>2, <3>3, <3>4 DEF PopExec
  <2>6. QED
    BY <1>2, <1>3, <1>6, <2>3, <2>4, <2>5 DEF PopLeft
<1>7. QED
  BY <1>1, <1>2, <1>4, <1>5, <1>6, Piping
----------------------------------------------------------------------------
(* Requests begin *)

\* OpenQueue as publisher.
LEMMA CreateShape ==
  ASSUME Shape, NEW w \in Worker, NEW c \in Client, NEW q \in Queue, NEW t \in MsgType, CreatePublisher(w, c, q, t),
         NEW k, k = job'[w]
  PROVE  /\ IsPub(k) /\ k.c = c /\ k.q = q /\ k.t = t /\ k.then = "open"
         /\ \/ q \in redis.names /\ k.pc = "open"
            \/ q \notin redis.names /\ k.pc = "pipe" /\ k.cmds = <<SADD(q), HMSETMeta(q, t)>>
         /\ \A v \in Worker : v # w => job'[v] = job[v]
         /\ job' = [v \in Worker |-> job'[v]]
<1>1. PICK two \in Seq(PubCmd), none \in Seq(PubCmd), nothing \in Seq(Fetched) :
        two = <<SADD(q), HMSETMeta(q, t)>> /\ none = <<>> /\ nothing = <<>>
  <2>1. PICK x \in PubCmd, y \in PubCmd : x = SADD(q) /\ y = HMSETMeta(q, t)
    BY DEF PubCmd
  <2>2. <<x, y>> \in Seq(PubCmd)
    OBVIOUS
  <2>3. QED
    BY <2>1, <2>2, EmptySeq
<1>2. PICK j : j = [pc |-> IF q \in redis.names THEN "open" ELSE "pipe", c |-> c, q |-> q, t |-> t,
                    cmds |-> IF q \in redis.names THEN none ELSE two,
                    then |-> "open", fresh |-> TRUE, got |-> nothing, sub |-> FALSE]
  OBVIOUS
<1>3. Goto(w, j) /\ job = [v \in Worker |-> job[v]]
  BY <1>1, <1>2 DEF CreatePublisher, Shape
<1>4. j = k /\ (\A v \in Worker : v # w => job'[v] = job[v]) /\ job' = [v \in Worker |-> job'[v]]
  BY <1>3, GotoJob
<1>5. /\ j \in PubJob /\ j.c = c /\ j.q = q /\ j.t = t /\ j.then = "open" /\ ~j.sub /\ j.got = <<>>
      /\ j.pc = (IF q \in redis.names THEN "open" ELSE "pipe")
      /\ j.cmds = (IF q \in redis.names THEN none ELSE two)
  BY <1>1, <1>2 DEF PubJob
<1>6. IsPub(j)
  BY <1>1, <1>5 DEF IsPub, PubLeft
<1>7. QED
  BY <1>1, <1>4, <1>5, <1>6

\* OpenQueue as subscriber.
LEMMA SubscribeShape ==
  ASSUME Shape, NEW w \in Worker, NEW c \in Client, NEW q \in Queue, NEW t \in MsgType, CreateSubscriber(w, c, q, t),
         NEW k, k = job'[w]
  PROVE  /\ IsSub(k) /\ k.c = c /\ k.q = q /\ k.t = t /\ k.pc = "hgetall"
         /\ \A v \in Worker : v # w => job'[v] = job[v]
         /\ job' = [v \in Worker |-> job'[v]]
<1>1. Goto(w, [pc |-> "hgetall", c |-> c, q |-> q, t |-> t, sub |-> TRUE]) /\ job = [v \in Worker |-> job[v]]
  BY DEF CreateSubscriber, Shape
<1>2. k = [pc |-> "hgetall", c |-> c, q |-> q, t |-> t, sub |-> TRUE]
      /\ (\A v \in Worker : v # w => job'[v] = job[v]) /\ job' = [v \in Worker |-> job'[v]]
  BY <1>1, GotoJob
<1>3. QED
  BY <1>2 DEF IsSub, SubJob

\* The steps of OpenQueue as subscriber up to the lock.
LEMMA SubSteps ==
  ASSUME Shape, NEW w \in Worker, CheckType(w) \/ CheckSubscriber(w) \/ AddSubscriber(w) \/ CacheSubscriber(w),
         NEW j, j = job[w], NEW k, k = job'[w]
  PROVE  /\ IsSub(j)
         /\ \/ k = Idle
            \/ IsSub(k) /\ k.c = j.c /\ k.q = j.q /\ k.t = j.t /\ k.sub = j.sub
         /\ \/ CheckType(w) /\ j.pc = "hgetall"
               /\ (k # Idle => redis.meta[j.q] = j.t /\ k.pc = IF j.t = PEER2PEER THEN "open" ELSE "hexists")
            \/ CheckSubscriber(w) /\ j.pc = "hexists" /\ k # Idle
               /\ k.pc = IF j.c \in redis.submeta[j.q] THEN "open" ELSE "hmset"
            \/ AddSubscriber(w) /\ j.pc = "hmset" /\ k # Idle /\ k.pc = "pushback"
            \/ CacheSubscriber(w) /\ j.pc = "pushback" /\ k # Idle /\ k.pc = "open"
         /\ \A v \in Worker : v # w => job'[v] = job[v]
         /\ job' = [v \in Worker |-> job'[v]]
<1>1. JobOK(j) /\ job = [v \in Worker |-> job[v]]
  BY DEF Shape
<1>2. j.pc \in {"hgetall", "hexists", "hmset", "pushback"}
  BY DEF CheckType, CheckSubscriber, AddSubscriber, CacheSubscriber
<1>3. IsSub(j)
  BY <1>1, <1>2, IdleFields, PubFields, PushFields, PopFields DEF JobOK
<1>4. ASSUME NEW p \in {"hgetall", "hexists", "hmset", "pushback", "open"}, Goto(w, [j EXCEPT !.pc = p])
      PROVE  IsSub(k) /\ k # Idle /\ k.pc = p /\ k.c = j.c /\ k.q = j.q /\ k.t = j.t /\ k.sub = j.sub
             /\ (\A v \in Worker : v # w => job'[v] = job[v]) /\ job' = [v \in Worker |-> job'[v]]
  <2>1. k = [j EXCEPT !.pc = p] /\ (\A v \in Worker : v # w => job'[v] = job[v]) /\ job' = [v \in Worker |-> job'[v]]
    BY <1>1, <1>4, GotoJob
  <2>2. QED
    BY <1>3, <2>1, SubStep, IdleFields
<1>5. CASE CheckType(w)
  <2>1. CASE redis.meta[j.q] # j.t
    <3>1. Goto(w, Idle)
      BY <1>5, <2>1 DEF CheckType
    <3>2. k = Idle /\ (\A v \in Worker : v # w => job'[v] = job[v]) /\ job' = [v \in Worker |-> job'[v]]
      BY <1>1, <3>1, GotoJob
    <3>3. QED
      BY <1>3, <1>5, <3>2 DEF CheckType
  <2>2. CASE redis.meta[j.q] = j.t
    <3>1. PICK p \in {"hgetall", "hexists", "hmset", "pushback", "open"} :
            p = IF j.t = PEER2PEER THEN "open" ELSE "hexists"
      OBVIOUS
    <3>2. Goto(w, [j EXCEPT !.pc = p]) /\ j.pc = "hgetall"
      BY <1>5, <2>2, <3>1 DEF CheckType
    <3>3. QED
      BY <1>3, <1>4, <1>5, <2>2, <3>1, <3>2
  <2>3. QED
    BY <2>1, <2>2
<1>6. CASE CheckSubscriber(w)
  <2>1. PICK p \in {"hgetall", "hexists", "hmset", "pushback", "open"} :
          p = IF j.c \in redis.submeta[j.q] THEN "open" ELSE "hmset"
    OBVIOUS
  <2>2. Goto(w, [j EXCEPT !.pc = p]) /\ j.pc = "hexists"
    BY <1>6, <2>1 DEF CheckSubscriber
  <2>3. QED
    BY <1>3, <1>4, <1>6, <2>1, <2>2
<1>7. CASE AddSubscriber(w)
  <2>1. Goto(w, [j EXCEPT !.pc = "pushback"]) /\ j.pc = "hmset"
    BY <1>7 DEF AddSubscriber
  <2>2. QED
    BY <1>3, <1>4, <1>7, <2>1
<1>8. CASE CacheSubscriber(w)
  <2>1. Goto(w, [j EXCEPT !.pc = "open"]) /\ j.pc = "pushback"
    BY <1>8 DEF CacheSubscriber
  <2>2. QED
    BY <1>3, <1>4, <1>8, <2>1
<1>9. QED
  BY <1>5, <1>6, <1>7, <1>8

\* The pipeline of a push, for a queue of either type.
LEMMA PushCmdsShape ==
  ASSUME NEW q \in Queue, NEW e \in EntryRec, NEW m \in Msg, NEW p, p = PushCmds(q, e, m)
  PROVE  /\ p \in Seq(PushCmd)
         /\ e.type = SUB2PUB => p \in Seq(FanOut(q, m))
         /\ e.type # SUB2PUB => p = <<RPUSH(QueueKey(q), m), HSETVisit(q)>>
<1>1. e.clients \in Seq(Client) /\ Len(e.clients) \in Nat
  BY DEF EntryRec
<1>2. CASE e.type = SUB2PUB
  <2>1. p = [i \in 1..2 * Len(e.clients) |->
               IF i % 2 = 1 THEN RPUSH(SubKey(q, e.clients[(i + 1) \div 2]), m)
                            ELSE HSETSub(q, e.clients[i \div 2])]
    BY <1>2 DEF PushCmds
  <2>2. ASSUME NEW i \in 1..2 * Len(e.clients) PROVE p[i] \in FanOut(q, m)
    <3>1. CASE i % 2 = 1
      <4>1. (i + 1) \div 2 \in 1..Len(e.clients)
        BY <1>1, <3>1
      <4>2. e.clients[(i + 1) \div 2] \in Client
        BY <1>1, <4>1
      <4>3. QED
        BY <2>1, <3>1, <4>2 DEF FanOut
    <3>2. CASE i % 2 # 1
      <4>1. i \div 2 \in 1..Len(e.clients)
        BY <1>1, <3>2
      <4>2. e.clients[i \div 2] \in Client
        BY <1>1, <4>1
      <4>3. QED
        BY <2>1, <3>2, <4>2 DEF FanOut
    <3>3. QED
      BY <3>1, <3>2
  <2>3. PICK n \in Nat : n = 2 * Len(e.clients)
    BY <1>1
  <2>4. p \in [1..n -> FanOut(q, m)]
    <3>1. DOMAIN p = 1..n /\ p = [i \in 1..n |-> p[i]]
      BY <2>1, <2>3
    <3>2. QED
      BY <2>2, <2>3, <3>1
  <2>5. p \in Seq(FanOut(q, m))
    BY <2>4
  <2>6. FanOut(q, m) \subseteq PushCmd
    BY KeysOf DEF FanOut, PushCmd
  <2>7. QED
    BY <1>2, <2>5, <2>6, SeqMonotonic
<1>3. CASE e.type # SUB2PUB
  <2>1. PICK x \in PushCmd, y \in PushCmd : x = RPUSH(QueueKey(q), m) /\ y = HSETVisit(q)
    BY DEF PushCmd, Keys
  <2>2. p = <<x, y>>
    BY <1>3, <2>1 DEF PushCmds
  <2>3. QED
    BY <1>3, <2>1, <2>2
<1>4. QED
  BY <1>2, <1>3

\* What is recorded of a push.
LEMMA AckShape ==
  ASSUME NEW q \in Queue, NEW e \in EntryRec, NEW m \in Msg, NEW a, a = Ack(q, e, m)
  PROVE  a \in AckRec /\ a.m = m /\ a.q = q /\ (a.peer <=> e.type = PEER2PEER) /\ a.peer \in BOOLEAN
<1>1. PICK to \in SUBSET Client :
        to = IF redis.meta[q] = SUB2PUB THEN {c \in Client : <<c, q>> \in subscribed} ELSE {}
  OBVIOUS
<1>2. PICK peer \in BOOLEAN : peer = (e.type = PEER2PEER)
  OBVIOUS
<1>3. a = [m |-> m, q |-> q, peer |-> peer, to |-> to]
  BY <1>1, <1>2 DEF Ack
<1>4. a \in AckRec /\ a.m = m /\ a.q = q /\ a.peer = peer
  BY <1>3 DEF AckRec
<1>5. QED
  BY <1>2, <1>4

\* The message client c sends next.
NewMsg(c) == [from |-> c, n |-> sent + 1]

\* SendMsgRequest.
LEMMA PushShape ==
  ASSUME Shape, NEW w \in Worker, NEW c \in Client, NEW q \in Queue, PushMsg(w, c, q), NEW k, k = job'[w],
         NEW m, m = NewMsg(c), NEW e, e = cache[q]
  PROVE  /\ q \in DOMAIN cache /\ e \in EntryRec /\ m \in Msg /\ m.from = c /\ m.n = sent + 1 /\ sent' = sent + 1
         /\ sent' \in 0..MaxMsg
         /\ \/ /\ e.type = SUB2PUB /\ PushCmds(q, e, m) = <<>> /\ acked' = acked \cup {Ack(q, e, m)}
               /\ job' = job
            \/ /\ IsPush(k) /\ k.pc = "pipe" /\ k.c = c /\ k.q = q /\ k.then = "pushed" /\ k.ack = Ack(q, e, m)
               /\ k.cmds = PushCmds(q, e, m) /\ acked' = acked
         /\ \A v \in Worker : v # w => job'[v] = job[v]
         /\ job' = [v \in Worker |-> job'[v]]
<1>1. /\ job = [v \in Worker |-> job[v]] /\ sent \in 0..MaxMsg /\ IsCache(cache) /\ MaxMsg \in Nat
  BY BoundAssumption DEF Shape
<1>2. q \in DOMAIN cache /\ sent < MaxMsg /\ sent' = sent + 1
  BY DEF PushMsg
<1>3. e \in EntryRec
  BY <1>1, <1>2 DEF IsCache
<1>4. m \in Msg /\ m.from = c /\ m.n = sent + 1
  BY <1>1 DEF NewMsg, Msg
<1>5. PICK p : p = PushCmds(q, e, m)
  OBVIOUS
<1>6. /\ p \in Seq(PushCmd)
      /\ e.type = SUB2PUB => p \in Seq(FanOut(q, m))
      /\ e.type # SUB2PUB => p = <<RPUSH(QueueKey(q), m), HSETVisit(q)>>
  BY <1>3, <1>4, <1>5, PushCmdsShape
<1>7. PICK a : a = Ack(q, e, m)
  OBVIOUS
<1>8. a \in AckRec /\ a.m = m /\ a.q = q /\ (a.peer <=> e.type = PEER2PEER)
  BY <1>3, <1>4, <1>7, AckShape
<1>9. CASE p = <<>>
  <2>1. e.type = SUB2PUB
    <3>1. ASSUME NEW x, NEW y PROVE <<x, y>> # <<>>
      OBVIOUS
    <3>2. QED
      BY <1>6, <1>9, <3>1
  <2>2. acked' = acked \cup {a} /\ job' = job
    BY <1>5, <1>7, <1>9 DEF PushMsg, NewMsg
  <2>3. QED
    BY <1>1, <1>2, <1>3, <1>4, <1>5, <1>7, <1>9, <2>1, <2>2
<1>10. CASE p # <<>>
  <2>1. PICK nothing \in Seq(Fetched) : nothing = <<>>
    BY EmptySeq
  <2>2. PICK j : j = [pc |-> "pipe", c |-> c, q |-> q, cmds |-> p, then |-> "pushed", fresh |-> TRUE,
                      got |-> nothing, ack |-> a]
    OBVIOUS
  <2>3. Goto(w, j) /\ acked' = acked
    BY <1>5, <1>7, <1>10, <2>1, <2>2 DEF PushMsg, NewMsg
  <2>4. k = j /\ (\A v \in Worker : v # w => job'[v] = job[v]) /\ job' = [v \in Worker |-> job'[v]]
    BY <1>1, <2>3, GotoJob
  <2>5. /\ j \in PushJob /\ j.pc = "pipe" /\ j.c = c /\ j.q = q /\ j.cmds = p /\ j.then = "pushed" /\ j.ack = a
        /\ j.got = <<>>
    BY <1>6, <1>8, <2>1, <2>2 DEF PushJob
  <2>6. PushLeft(j)
    <3>1. CASE e.type = SUB2PUB
      <4>1. ~a.peer
        BY <1>8, <3>1 DEF PEER2PEER, SUB2PUB
      <4>2. QED
        BY <1>6, <1>8, <1>10, <2>5, <3>1, <4>1 DEF PushLeft
    <3>2. CASE e.type # SUB2PUB
      BY <1>6, <1>8, <2>5, <3>2 DEF PushLeft
    <3>3. QED
      BY <3>1, <3>2
  <2>7. IsPush(j)
    BY <1>4, <1>8, <2>5, <2>6 DEF IsPush
  <2>8. QED
    BY <1>1, <1>2, <1>3, <1>4, <1>5, <1>7, <2>3, <2>4, <2>5, <2>7
<1>11. QED
  BY <1>9, <1>10

\* GetMsgRequest.
LEMMA PopShape ==
  ASSUME Shape, NEW w \in Worker, NEW c \in Client, NEW q \in Queue, PopMsg(w, c, q), NEW k, k = job'[w]
  PROVE  /\ q \in DOMAIN cache /\ IsPop(k) /\ k.pc = "pipe" /\ k.c = c /\ k.q = q /\ k.then = "popped" /\ k.got = <<>>
         /\ \/ cache[q].type = SUB2PUB /\ k.cmds = <<LPOP(SubKey(q, c)), HSETSub(q, c)>>
            \/ cache[q].type # SUB2PUB /\ k.cmds = <<LPOP(QueueKey(q)), HSETVisit(q)>>
         /\ \A v \in Worker : v # w => job'[v] = job[v]
         /\ job' = [v \in Worker |-> job'[v]]
<1>1. job = [v \in Worker |-> job[v]] /\ q \in DOMAIN cache
  BY DEF Shape, PopMsg
<1>2. PICK p : p = IF cache[q].type = SUB2PUB
                   THEN <<LPOP(SubKey(q, c)), HSETSub(q, c)>>
                   ELSE <<LPOP(QueueKey(q)), HSETVisit(q)>>
  OBVIOUS
<1>3. p \in Seq(PopCmd)
  <2>1. ASSUME NEW x \in PopCmd, NEW y \in PopCmd PROVE <<x, y>> \in Seq(PopCmd)
    OBVIOUS
  <2>2. LPOP(SubKey(q, c)) \in PopCmd /\ HSETSub(q, c) \in PopCmd /\ LPOP(QueueKey(q)) \in PopCmd /\ HSETVisit(q) \in PopCmd
    BY KeysOf DEF PopCmd
  <2>3. QED
    BY <1>2, <2>1, <2>2
<1>4. PICK nothing \in Seq(Fetched) : nothing = <<>>
  BY EmptySeq
<1>5. PICK j : j = [pc |-> "pipe", c |-> c, q |-> q, then |-> "popped", fresh |-> TRUE, got |-> nothing, cmds |-> p]
  OBVIOUS
<1>6. Goto(w, j)
  BY <1>2, <1>4, <1>5 DEF PopMsg
<1>7. k = j /\ (\A v \in Worker : v # w => job'[v] = job[v]) /\ job' = [v \in Worker |-> job'[v]]
  BY <1>1, <1>6, GotoJob
<1>8. j \in PopJob /\ j.pc = "pipe" /\ j.c = c /\ j.q = q /\ j.cmds = p /\ j.then = "popped" /\ j.got = <<>>
  BY <1>3, <1>4, <1>5 DEF PopJob
<1>9. PopLeft(j)
  <2>1. \/ \E x \in {QueueKey(q), SubKey(q, c)}, v \in {HSETVisit(q), HSETSub(q, c)} : p = <<LPOP(x), v>>
    BY <1>2
  <2>2. QED
    BY <1>8, <2>1 DEF PopLeft, LastVisit
<1>10. Len(j.got) <= 1
  BY <1>8
<1>11. IsPop(j)
  BY <1>8, <1>9, <1>10 DEF IsPop
<1>12. QED
  BY <1>1, <1>2, <1>7, <1>8, <1>11

\* The end of OpenQueue.
LEMMA OpenShape ==
  ASSUME Shape, NEW w \in Worker, OpenQueue(w), NEW j, j = job[w]
  PROVE  /\ j.pc = "open"
         /\ IsSub(j) \/ IsPub(j)
         /\ j.q \in Queue /\ j.c \in Client /\ j.t \in MsgType
         /\ job'[w] = Idle
         /\ \A v \in Worker : v # w => job'[v] = job[v]
         /\ job' = [v \in Worker |-> job'[v]]
<1>1. JobOK(j) /\ job = [v \in Worker |-> job[v]] /\ j.pc = "open" /\ Goto(w, Idle)
  BY DEF Shape, OpenQueue
<1>2. IsSub(j) \/ IsPub(j)
  BY <1>1, IdleFields, PushFields, PopFields DEF JobOK
<1>3. QED
  BY <1>1, <1>2, GotoJob, SubFields, PubFields

\* The end of SendMsgRequest and GetMsgRequest.
LEMMA ReplyShape ==
  ASSUME Shape, NEW w \in Worker, Reply(w), NEW j, j = job[w]
  PROVE  /\ j.pc \in {"pushed", "popped"}
         /\ IsPush(j) \/ IsPop(j)
         /\ IsPush(j) => j.pc = "pushed" /\ acked' = acked \cup {j.ack} /\ handed' = handed
         /\ IsPop(j) => /\ j.pc = "popped" /\ acked' = acked
                        /\ handed' = handed \cup {[k |-> g.k, m |-> g.m, c |-> j.c] : g \in ToSet(j.got)}
         /\ job'[w] = Idle
         /\ \A v \in Worker : v # w => job'[v] = job[v]
         /\ job' = [v \in Worker |-> job'[v]]
<1>1. /\ JobOK(j) /\ job = [v \in Worker |-> job[v]] /\ j.pc \in {"pushed", "popped"} /\ Goto(w, Idle)
      /\ acked' = IF j.pc = "pushed" THEN acked \cup {j.ack} ELSE acked
      /\ handed' = handed \cup {[k |-> g.k, m |-> g.m, c |-> j.c] : g \in ToSet(j.got)}
  BY DEF Shape, Reply
<1>2. IsPush(j) \/ IsPop(j)
  BY <1>1, IdleFields, SubFields, PubFields DEF JobOK
<1>3. /\ job'[w] = Idle
      /\ \A v \in Worker : v # w => job'[v] = job[v]
      /\ job' = [v \in Worker |-> job'[v]]
  BY <1>1, GotoJob
<1>4. ASSUME IsPush(j) PROVE j.pc = "pushed" /\ acked' = acked \cup {j.ack} /\ handed' = handed
  <2>1. j.pc = "pushed" /\ j.got = <<>>
    BY <1>1, <1>4, PushFields
  <2>2. ToSet(j.got) = {}
    BY <2>1 DEF ToSet
  <2>3. QED
    BY <1>1, <2>1, <2>2
<1>5. ASSUME IsPop(j) PROVE j.pc = "popped" /\ acked' = acked
  BY <1>1, <1>5, PopFields
<1>6. QED
  BY <1>1, <1>2, <1>3, <1>4, <1>5

\* The end of a SendMsgRequest or GetMsgRequest that fails.
LEMMA GiveUpShape ==
  ASSUME Shape, NEW w \in Worker, GiveUp(w), NEW j, j = job[w]
  PROVE  /\ IsPush(j) \/ IsPop(j)
         /\ j.then \in {"pushed", "popped"}
         /\ job'[w] = Idle
         /\ \A v \in Worker : v # w => job'[v] = job[v]
         /\ job' = [v \in Worker |-> job'[v]]
<1>1. /\ JobOK(j) /\ job = [v \in Worker |-> job[v]] /\ j.pc \in {"pipe", "pushed", "popped"}
      /\ j.then \in {"pushed", "popped"} /\ Goto(w, Idle)
  BY DEF Shape, GiveUp
<1>2. IsPush(j) \/ IsPop(j)
  BY <1>1, IdleFields, SubFields, PubFields DEF JobOK
<1>3. QED
  BY <1>1, <1>2, GotoJob
----------------------------------------------------------------------------
(* The cache and the loader *)

LEMMA CacheUpdate ==
  ASSUME NEW f, IsCache(f), NEW q \in Queue, NEW e \in EntryRec,
         NEW g, g = [x \in DOMAIN f \cup {q} |-> IF x = q THEN e ELSE f[x]]
  PROVE  /\ IsCache(g) /\ DOMAIN g = DOMAIN f \cup {q} /\ g[q] = e
         /\ \A x \in DOMAIN f : x # q => g[x] = f[x]
  BY DEF IsCache

LEMMA EmptyIsCache == IsCache(EmptyCache) /\ DOMAIN EmptyCache = {}
  BY DEF IsCache, EmptyCache

\* The entry that CacheSubscriber writes.
LEMMA EntryShape ==
  ASSUME Shape, NEW q \in Queue, NEW c \in Client, NEW e, e = [Entry(q) EXCEPT !.clients = Append(@, c)]
  PROVE  /\ e \in EntryRec /\ e.type = Entry(q).type /\ e.clients = Append(Entry(q).clients, c)
         /\ Entry(q) \in EntryRec
<1>1. IsCache(cache)
  BY DEF Shape
<1>2. Entry(q) \in EntryRec
  <2>1. CASE q \in DOMAIN cache
    BY <1>1, <2>1 DEF Entry, IsCache
  <2>2. CASE q \notin DOMAIN cache
    <3>1. PICK none \in Seq(Client) : none = <<>>
      BY EmptySeq
    <3>2. Entry(q) = [type |-> PEER2PEER, clients |-> none]
      BY <2>2, <3>1 DEF Entry
    <3>3. QED
      BY <3>2 DEF EntryRec, MsgType
  <2>3. QED
    BY <2>1, <2>2
<1>3. PICK f \in EntryRec : f = Entry(q)
  BY <1>2
<1>4. f.clients \in Seq(Client)
  BY DEF EntryRec
<1>5. PICK s \in Seq(Client) : s = Append(f.clients, c)
  <2>1. Append(f.clients, c) \in Seq(Client)
    BY <1>4
  <2>2. QED
    BY <2>1
<1>6. e = [f EXCEPT !.clients = s]
  BY <1>3, <1>5 DEF EntryRec
<1>7. e \in EntryRec /\ e.type = f.type /\ e.clients = s
  BY <1>6 DEF EntryRec
<1>8. QED
  BY <1>3, <1>5, <1>7

\* A new entry of OpenQueue or LoadQueue.
LEMMA FreshEntry ==
  ASSUME NEW t \in MsgType, NEW e, e = [type |-> t, clients |-> <<>>]
  PROVE  e \in EntryRec /\ e.type = t /\ e.clients = <<>>
<1>1. PICK none \in Seq(Client) : none = <<>>
  BY EmptySeq
<1>2. e = [type |-> t, clients |-> none]
  BY <1>1
<1>3. QED
  BY <1>1, <1>2 DEF EntryRec

\* LoadQueues begins.
LEMMA StartShape ==
  ASSUME NEW b \in BOOLEAN, StartLoad(b)
  PROVE  /\ LoadJob(loader') /\ loader'.pc = "smembers" /\ loader'.boot = b /\ loader' # NoLoad
         /\ loader'.tmp = EmptyCache
<1>1. loader' = [pc |-> "smembers", boot |-> b, todo |-> {}, at |-> "", tmp |-> EmptyCache]
  BY DEF StartLoad
<1>2. QED
  BY <1>1, EmptyIsCache DEF LoadJob, NoLoad

LEMMA LoadFields ==
  ASSUME NEW l, LoadJob(l)
  PROVE  l # NoLoad /\ l.pc # "off"
<1>1. l.pc # "off"
  BY DEF LoadJob
<1>2. QED
  BY <1>1 DEF NoLoad

\* The whole load is given up.
LEMMA FailShape ==
  ASSUME LoadJob(loader), GiveUpLoad, NEW l, l = loader, NEW n, n = loader'
  PROVE  /\ n = NoLoad \/ LoadJob(n)
         /\ \/ l.boot /\ n.pc = "smembers" /\ n.boot /\ n.tmp = EmptyCache /\ n # NoLoad
            \/ ~l.boot /\ n = NoLoad
<1>1. CASE l.boot
  <2>1. StartLoad(TRUE)
    BY <1>1 DEF GiveUpLoad
  <2>2. PICK b \in BOOLEAN : b /\ StartLoad(b)
    BY <2>1
  <2>3. LoadJob(n) /\ n # NoLoad /\ n.pc = "smembers" /\ n.boot = b /\ n.tmp = EmptyCache
    BY <2>2, StartShape
  <2>4. QED
    BY <1>1, <2>2, <2>3
<1>2. CASE ~l.boot
  BY <1>2 DEF GiveUpLoad
<1>3. QED
  BY <1>1, <1>2

\* SMEMBERS.
LEMMA NamesShape ==
  ASSUME Shape, LoadNames, NEW l, l = loader, NEW n, n = loader'
  PROVE  /\ LoadJob(l) /\ LoadJob(n) /\ l.pc = "smembers" /\ n.pc = "queue" /\ n.todo = redis.names
         /\ n.boot = l.boot /\ n.tmp = l.tmp
<1>1. l.pc = "smembers" /\ n = [l EXCEPT !.pc = "queue", !.todo = redis.names] /\ redis.names \subseteq Queue
  BY DEF LoadNames, Shape, DbRec
<1>2. LoadJob(l)
  BY <1>1 DEF Shape, NoLoad
<1>3. QED
  BY <1>1, <1>2 DEF LoadJob

\* Loader l has read the metadata of queue q and become n.
Loaded(l, n, q) ==
  /\ redis.meta[q] \in MsgType /\ n # NoLoad
  /\ n.pc = (IF redis.meta[q] = SUB2PUB THEN "clients" ELSE "queue")
  /\ n.boot = l.boot /\ n.todo = l.todo \ {q} /\ n.at = q
  /\ DOMAIN n.tmp = DOMAIN l.tmp \cup {q}
  /\ n.tmp[q] = [type |-> redis.meta[q], clients |-> <<>>]
  /\ \A x \in DOMAIN l.tmp : x # q => n.tmp[x] = l.tmp[x]

\* HGETALL of a queue's metadata.
LEMMA QueueShape ==
  ASSUME Shape, NEW q \in Queue, LoadQueue(q), NEW l, l = loader, NEW n, n = loader'
  PROVE  /\ LoadJob(l) /\ l.pc = "queue" /\ q \in l.todo
         /\ n = NoLoad \/ LoadJob(n)
         /\ \/ redis.meta[q] = NoMeta /\ l.boot /\ n.pc = "smembers" /\ n.boot /\ n.tmp = EmptyCache /\ n # NoLoad
            \/ redis.meta[q] = NoMeta /\ ~l.boot /\ n = NoLoad
            \/ Loaded(l, n, q)
<1>1. l.pc = "queue" /\ q \in l.todo /\ redis.meta[q] \in MsgType \cup {NoMeta}
  BY DEF LoadQueue, Shape, DbRec
<1>2. LoadJob(l)
  BY <1>1 DEF Shape, NoLoad
<1>3. CASE redis.meta[q] = NoMeta
  <2>1. GiveUpLoad
    BY <1>3 DEF LoadQueue
  <2>2. QED
    BY <1>1, <1>2, <1>3, <2>1, FailShape
<1>4. CASE redis.meta[q] # NoMeta
  <2>1. PICK t \in MsgType : t = redis.meta[q]
    BY <1>1, <1>4
  <2>2. PICK e : e = [type |-> t, clients |-> <<>>]
    OBVIOUS
  <2>3. e \in EntryRec
    BY <2>2, FreshEntry
  <2>4. PICK g : g = [x \in DOMAIN l.tmp \cup {q} |-> IF x = q THEN e ELSE l.tmp[x]]
    OBVIOUS
  <2>5. /\ IsCache(g) /\ DOMAIN g = DOMAIN l.tmp \cup {q} /\ g[q] = e
        /\ \A x \in DOMAIN l.tmp : x # q => g[x] = l.tmp[x]
    BY <1>2, <2>3, <2>4, CacheUpdate DEF LoadJob
  <2>6. PICK p \in {"clients", "queue"} : p = IF t = SUB2PUB THEN "clients" ELSE "queue"
    OBVIOUS
  <2>7. n = [l EXCEPT !.pc = p, !.todo = l.todo \ {q}, !.at = q, !.tmp = g]
    <3>1. n = [l EXCEPT
                !.pc = IF redis.meta[q] = SUB2PUB THEN "clients" ELSE "queue",
                !.todo = @ \ {q},
                !.at = q,
                !.tmp = [x \in DOMAIN @ \cup {q} |->
                           IF x = q THEN [type |-> redis.meta[q], clients |-> <<>>] ELSE @[x]]]
      BY <1>4 DEF LoadQueue
    <3>2. QED
      BY <1>2, <2>1, <2>2, <2>4, <2>6, <3>1 DEF LoadJob
  <2>8. LoadJob(n) /\ n.pc = p /\ n.todo = l.todo \ {q} /\ n.at = q /\ n.tmp = g /\ n.boot = l.boot
    BY <1>2, <2>5, <2>7 DEF LoadJob
  <2>9. n # NoLoad
    BY <2>8, LoadFields
  <2>10. QED
    BY <1>1, <1>2, <1>4, <2>1, <2>2, <2>5, <2>6, <2>8, <2>9 DEF Loaded
<1>5. QED
  BY <1>3, <1>4

\* HGETALL of the subscribers: every one of them once.
LEMMA ClientsShape ==
  ASSUME Shape, LoadClients, NEW l, l = loader, NEW n, n = loader'
  PROVE  /\ LoadJob(l) /\ LoadJob(n) /\ l.pc = "clients" /\ n.pc = "queue" /\ n.boot = l.boot /\ n.todo = l.todo
         /\ n.at = l.at /\ l.at \in DOMAIN l.tmp /\ DOMAIN n.tmp = DOMAIN l.tmp
         /\ n.tmp[l.at].type = l.tmp[l.at].type
         /\ n.tmp[l.at].clients \in Seq(Client)
         /\ ToSet(n.tmp[l.at].clients) = redis.submeta[l.at]
         /\ \A x, y \in DOMAIN n.tmp[l.at].clients : n.tmp[l.at].clients[x] = n.tmp[l.at].clients[y] => x = y
         /\ \A x \in DOMAIN l.tmp : x # l.at => n.tmp[x] = l.tmp[x]
<1>1. l.pc = "clients"
  BY DEF LoadClients
<1>2. LoadJob(l) /\ l.at \in DOMAIN l.tmp /\ l.at \in Queue /\ redis.submeta \in [Queue -> SUBSET Client]
  BY <1>1 DEF Shape, NoLoad, LoadJob, IsCache, DbRec
<1>3. PICK S \in SUBSET Client : S = redis.submeta[l.at]
  BY <1>2
<1>4. PICK order \in SetToSeqs(S) : n = [l EXCEPT !.pc = "queue", !.tmp[l.at].clients = order]
  BY <1>3 DEF LoadClients
<1>5. IsFiniteSet(S) /\ Cardinality(S) \in Nat
  BY FiniteAssumption, FS_Subset, FS_CardinalityType
<1>6. PICK d \in Nat : d = Cardinality(S)
  BY <1>5
<1>7. order \in [1..d -> S] /\ \A x, y \in 1..d : x # y => order[x] # order[y]
  BY <1>6 DEF SetToSeqs
<1>8. order \in Seq(Client) /\ DOMAIN order = 1..d
  <2>1. order \in [1..d -> Client]
    BY <1>7
  <2>2. QED
    BY <2>1
<1>9. ToSet(order) = S
  <2>1. order \in Injection(1..d, S)
    BY <1>7 DEF Injection, IsInjective
  <2>2. IsFiniteSet(1..d) /\ Cardinality(1..d) = d
    BY FS_Interval
  <2>3. order \in Surjection(1..d, S)
    BY <1>5, <1>6, <2>1, <2>2, FS_Injection
  <2>4. QED
    BY <1>8, <2>3 DEF Surjection, ToSet
<1>10. PICK e \in EntryRec : e = l.tmp[l.at]
  BY <1>2 DEF LoadJob, IsCache
<1>11. PICK f : f = [e EXCEPT !.clients = order]
  OBVIOUS
<1>12. f \in EntryRec /\ f.type = e.type /\ f.clients = order
  BY <1>8, <1>11 DEF EntryRec
<1>13. PICK g : g = [l.tmp EXCEPT ![l.at] = f]
  OBVIOUS
<1>14. IsCache(g) /\ DOMAIN g = DOMAIN l.tmp /\ g[l.at] = f /\ \A x \in DOMAIN l.tmp : x # l.at => g[x] = l.tmp[x]
  BY <1>2, <1>12, <1>13 DEF LoadJob, IsCache
<1>15. n = [l EXCEPT !.pc = "queue", !.tmp = g]
  BY <1>2, <1>4, <1>10, <1>11, <1>13 DEF LoadJob
<1>16. LoadJob(n) /\ n.pc = "queue" /\ n.tmp = g /\ n.boot = l.boot /\ n.todo = l.todo /\ n.at = l.at
  BY <1>2, <1>14, <1>15 DEF LoadJob
<1>17. QED
  BY <1>1, <1>2, <1>3, <1>7, <1>8, <1>9, <1>10, <1>12, <1>14, <1>16
----------------------------------------------------------------------------
(* Every variable keeps its shape *)

\* Redis after a command of a pipeline.
LEMMA ExecDb ==
  ASSUME Shape, NEW w \in Worker, RedisExec(w)
  PROVE  redis' \in DbRec /\ JobOK(job'[w])
<1>1. PICK j, k : j = job[w] /\ k = job'[w]
  OBVIOUS
<1>2. redis \in DbRec
  BY DEF Shape
<1>3. /\ \/ IsPub(j) /\ PubExec(j, k)
         \/ IsPush(j) /\ PushExec(j, k)
         \/ IsPop(j) /\ PopExec(j, k)
  BY <1>1, ExecShape
<1>4. CASE IsPub(j) /\ PubExec(j, k)
  <2>1. j.q \in Queue /\ j.t \in MsgType
    BY <1>4, PubFields
  <2>2. QED
    BY <1>1, <1>2, <1>4, <2>1, ExecSADD, ExecMeta DEF PubExec, JobOK
<1>5. CASE IsPush(j) /\ PushExec(j, k)
  <2>1. j.q \in Queue /\ j.ack.m \in Msg
    BY <1>5, PushFields
  <2>2. QueueKey(j.q) \in Keys /\ \A c \in Client : SubKey(j.q, c) \in Keys
    BY <2>1 DEF Keys
  <2>3. redis' \in DbRec
    BY <1>2, <1>5, <2>1, <2>2, ExecRPUSH, ExecSub DEF PushExec
  <2>4. QED
    BY <1>1, <1>5, <2>3 DEF PushExec, JobOK
<1>6. CASE IsPop(j) /\ PopExec(j, k)
  <2>1. j.q \in Queue /\ j.c \in Client
    BY <1>6, PopFields
  <2>2. redis' \in DbRec
    <3>1. \/ \E x \in Keys : redis' = Exec(redis, LPOP(x))
          \/ redis' = redis
          \/ redis' = Exec(redis, HSETSub(j.q, j.c))
      BY <1>6 DEF PopExec
    <3>2. ASSUME NEW x \in Keys, redis' = Exec(redis, LPOP(x)) PROVE redis' \in DbRec
      BY <1>2, <3>2, ExecLPOP
    <3>3. ASSUME redis' = Exec(redis, HSETSub(j.q, j.c)) PROVE redis' \in DbRec
      BY <1>2, <2>1, <3>3, ExecSub
    <3>4. QED
      BY <1>2, <3>1, <3>2, <3>3
  <2>3. QED
    BY <1>1, <1>6, <2>2 DEF PopExec, JobOK
<1>7. QED
  BY <1>3, <1>4, <1>5, <1>6

\* OpenQueue.
LEMMA OpenKeepsShape ==
  ASSUME Shape, NEW w \in Worker, Open(w)
  PROVE  Shape'
<1>1. /\ redis \in DbRec /\ IsCache(cache) /\ sess \subseteq Client \X Queue /\ \A v \in Worker : JobOK(job[v])
      /\ raced \in BOOLEAN /\ subscribed \subseteq Client \X Queue
  BY DEF Shape
<1>2. ASSUME NEW c \in Client, NEW q \in Queue, NEW t \in MsgType,
             CreatePublisher(w, c, q, t) \/ CreateSubscriber(w, c, q, t)
      PROVE  Shape'
  <2>1. JobOK(job'[w]) /\ (\A v \in Worker : v # w => job'[v] = job[v]) /\ job' = [v \in Worker |-> job'[v]]
    BY <1>2, CreateShape, SubscribeShape DEF JobOK
  <2>2. /\ UNCHANGED <<redis, cache, sess, loader, sent, crashes, fails, loads, subscribed, acked, handed>>
        /\ raced' \in BOOLEAN
    BY <1>2 DEF CreatePublisher, CreateSubscriber, mem, OpenBegins
  <2>3. QED
    BY <1>1, <2>1, <2>2 DEF Shape
<1>3. CASE CheckType(w) \/ CheckSubscriber(w)
  <2>1. JobOK(job'[w]) /\ (\A v \in Worker : v # w => job'[v] = job[v]) /\ job' = [v \in Worker |-> job'[v]]
    BY <1>3, SubSteps DEF JobOK
  <2>2. UNCHANGED <<redis, cache, sess, loader, sent, crashes, fails, loads, raced, subscribed, acked, handed>>
    BY <1>3 DEF CheckType, CheckSubscriber, mem, hist, load
  <2>3. QED
    BY <1>1, <2>1, <2>2 DEF Shape
<1>4. CASE AddSubscriber(w)
  <2>1. /\ JobOK(job'[w]) /\ (\A v \in Worker : v # w => job'[v] = job[v]) /\ job' = [v \in Worker |-> job'[v]]
        /\ IsSub(job[w])
    BY <1>4, SubSteps DEF JobOK
  <2>2. /\ UNCHANGED <<cache, sess, loader, sent, crashes, fails, loads, raced, subscribed, acked, handed>>
        /\ redis' = Exec(redis, HSETSub(job[w].q, job[w].c))
    BY <1>4 DEF AddSubscriber, mem, hist, load
  <2>3. redis' \in DbRec
    BY <1>1, <2>1, <2>2, SubFields, ExecSub
  <2>4. QED
    BY <1>1, <2>1, <2>2, <2>3 DEF Shape
<1>5. CASE CacheSubscriber(w)
  <2>1. /\ JobOK(job'[w]) /\ (\A v \in Worker : v # w => job'[v] = job[v]) /\ job' = [v \in Worker |-> job'[v]]
        /\ IsSub(job[w])
    BY <1>5, SubSteps DEF JobOK
  <2>2. PICK q \in Queue, c \in Client : q = job[w].q /\ c = job[w].c
    BY <2>1, SubFields
  <2>3. PICK e : e = [Entry(q) EXCEPT !.clients = Append(@, c)]
    OBVIOUS
  <2>4. /\ UNCHANGED <<redis, sess, loader, sent, crashes, fails, loads, raced, subscribed, acked, handed>>
        /\ cache' = [x \in DOMAIN cache \cup {q} |-> IF x = q THEN e ELSE cache[x]]
    BY <1>5, <2>2, <2>3 DEF CacheSubscriber, hist, load, PutQueue
  <2>5. e \in EntryRec
    BY <2>3, EntryShape
  <2>6. IsCache(cache')
    BY <1>1, <2>4, <2>5, CacheUpdate
  <2>7. QED
    BY <1>1, <2>1, <2>4, <2>6 DEF Shape
<1>6. CASE OpenQueue(w)
  <2>1. /\ job'[w] = Idle /\ (\A v \in Worker : v # w => job'[v] = job[v]) /\ job' = [v \in Worker |-> job'[v]]
        /\ job[w].q \in Queue /\ job[w].c \in Client /\ job[w].t \in MsgType
    BY <1>6, OpenShape
  <2>2. PICK q \in Queue, c \in Client, t \in MsgType : q = job[w].q /\ c = job[w].c /\ t = job[w].t
    BY <2>1
  <2>3. PICK e : e = [type |-> t, clients |-> <<>>]
    OBVIOUS
  <2>4. /\ UNCHANGED <<redis, loader, sent, crashes, fails, loads, raced, acked, handed>>
        /\ sess' = sess \cup {<<c, q>>}
        /\ cache' = IF q \in DOMAIN cache THEN cache
                    ELSE [x \in DOMAIN cache \cup {q} |-> IF x = q THEN e ELSE cache[x]]
        /\ subscribed' = subscribed \cup {<<c, q>>} \/ subscribed' = subscribed
    BY <1>6, <2>2, <2>3 DEF OpenQueue, load, PutQueue
  <2>5. IsCache(cache')
    <3>1. e \in EntryRec
      BY <2>3, FreshEntry
    <3>2. CASE q \in DOMAIN cache
      BY <1>1, <2>4, <3>2
    <3>3. CASE q \notin DOMAIN cache
      <4>1. cache' = [x \in DOMAIN cache \cup {q} |-> IF x = q THEN e ELSE cache[x]]
        BY <2>4, <3>3
      <4>2. QED
        BY <1>1, <3>1, <4>1, CacheUpdate
    <3>4. QED
      BY <3>2, <3>3
  <2>6. sess' \subseteq Client \X Queue /\ subscribed' \subseteq Client \X Queue
    BY <1>1, <2>4
  <2>7. JobOK(job'[w])
    BY <2>1 DEF JobOK
  <2>8. QED
    BY <1>1, <2>1, <2>4, <2>5, <2>6, <2>7 DEF Shape
<1>7. QED
  BY <1>2, <1>3, <1>4, <1>5, <1>6 DEF Open

\* Messages.
LEMMA MessageKeepsShape ==
  ASSUME Shape, NEW w \in Worker, Message(w)
  PROVE  Shape'
<1>1. /\ redis \in DbRec /\ \A v \in Worker : JobOK(job[v])
      /\ acked \subseteq AckRec /\ handed \subseteq [k : Keys, m : Msg, c : Client]
  BY DEF Shape
<1>2. ASSUME NEW c \in Client, NEW q \in Queue, PushMsg(w, c, q) PROVE Shape'
  <2>1. PICK m, e : m = NewMsg(c) /\ e = cache[q]
    OBVIOUS
  <2>2. /\ e \in EntryRec /\ m \in Msg /\ sent' \in 0..MaxMsg
        /\ \/ acked' = acked \cup {Ack(q, e, m)} /\ job' = job
           \/ IsPush(job'[w]) /\ acked' = acked
        /\ \A v \in Worker : v # w => job'[v] = job[v]
        /\ job' = [v \in Worker |-> job'[v]]
    BY <1>2, <2>1, PushShape
  <2>3. Ack(q, e, m) \in AckRec
    BY <2>2, AckShape
  <2>4. UNCHANGED <<redis, cache, sess, loader, crashes, fails, loads, raced, subscribed, handed>>
    BY <1>2 DEF PushMsg, mem, load
  <2>5. acked' \subseteq AckRec /\ JobOK(job'[w])
    BY <1>1, <2>2, <2>3 DEF JobOK
  <2>6. QED
    BY <1>1, <2>2, <2>4, <2>5 DEF Shape
<1>3. ASSUME NEW c \in Client, NEW q \in Queue, PopMsg(w, c, q) PROVE Shape'
  <2>1. JobOK(job'[w]) /\ (\A v \in Worker : v # w => job'[v] = job[v]) /\ job' = [v \in Worker |-> job'[v]]
    BY <1>3, PopShape DEF JobOK
  <2>2. UNCHANGED <<redis, cache, sess, loader, sent, crashes, fails, loads, raced, subscribed, acked, handed>>
    BY <1>3 DEF PopMsg, mem, hist, load
  <2>3. QED
    BY <1>1, <2>1, <2>2 DEF Shape
<1>4. CASE RedisExec(w)
  <2>1. /\ JobOK(job'[w]) /\ (\A v \in Worker : v # w => job'[v] = job[v]) /\ job' = [v \in Worker |-> job'[v]]
        /\ redis' \in DbRec
    BY <1>4, ExecDb, ExecShape
  <2>2. UNCHANGED <<cache, sess, loader, sent, crashes, fails, loads, raced, subscribed, acked, handed>>
    BY <1>4 DEF RedisExec, mem, hist, load
  <2>3. QED
    BY <1>1, <2>1, <2>2 DEF Shape
<1>5. CASE Reply(w)
  <2>1. PICK j : j = job[w]
    OBVIOUS
  <2>2. /\ IsPush(j) \/ IsPop(j)
        /\ IsPush(j) => acked' = acked \cup {j.ack} /\ handed' = handed
        /\ IsPop(j) => /\ acked' = acked
                       /\ handed' = handed \cup {[k |-> g.k, m |-> g.m, c |-> j.c] : g \in ToSet(j.got)}
        /\ job'[w] = Idle
        /\ \A v \in Worker : v # w => job'[v] = job[v]
        /\ job' = [v \in Worker |-> job'[v]]
    BY <1>5, <2>1, ReplyShape
  <2>3. UNCHANGED <<redis, cache, sess, loader, sent, crashes, fails, loads, raced, subscribed>>
    BY <1>5 DEF Reply, mem, load
  <2>4. acked' \subseteq AckRec /\ handed' \subseteq [k : Keys, m : Msg, c : Client]
    <3>1. CASE IsPush(j)
      BY <1>1, <2>2, <3>1, PushFields
    <3>2. CASE IsPop(j)
      <4>1. j.c \in Client /\ j.got \in Seq(Fetched)
        BY <3>2, PopFields
      <4>2. \A g \in ToSet(j.got) : g.k \in Keys /\ g.m \in Msg
        <5>1. \A i \in DOMAIN j.got : j.got[i] \in Fetched
          BY <4>1
        <5>2. \A f \in Fetched : f.k \in Keys /\ f.m \in Msg
          BY DEF Fetched
        <5>3. QED
          BY <5>1, <5>2 DEF ToSet
      <4>3. \A g \in ToSet(j.got) : [k |-> g.k, m |-> g.m, c |-> j.c] \in [k : Keys, m : Msg, c : Client]
        BY <4>1, <4>2
      <4>4. QED
        BY <1>1, <2>2, <3>2, <4>3
    <3>3. QED
      BY <2>2, <3>1, <3>2
  <2>5. JobOK(job'[w])
    BY <2>2 DEF JobOK
  <2>6. QED
    BY <1>1, <2>2, <2>3, <2>4, <2>5 DEF Shape
<1>6. CASE GiveUp(w)
  <2>1. job'[w] = Idle /\ (\A v \in Worker : v # w => job'[v] = job[v]) /\ job' = [v \in Worker |-> job'[v]]
    BY <1>6, GiveUpShape
  <2>2. /\ UNCHANGED <<redis, cache, sess, loader, sent, crashes, loads, raced, subscribed, acked, handed>>
        /\ crashes + fails < MaxFault /\ fails' = fails + 1
    BY <1>6 DEF GiveUp, mem, load
  <2>3. crashes' \in Nat /\ fails' \in Nat /\ crashes' + fails' <= MaxFault
    BY <2>2, BoundAssumption DEF Shape
  <2>4. JobOK(job'[w])
    BY <2>1 DEF JobOK
  <2>5. QED
    BY <1>1, <2>1, <2>2, <2>3, <2>4 DEF Shape
<1>7. QED
  BY <1>2, <1>3, <1>4, <1>5, <1>6 DEF Message

\* LoadQueues.
LEMMA LoadKeepsShape ==
  ASSUME Shape, LoadQueues
  PROVE  Shape'
<1>1. loads \in 0..MaxLoad /\ MaxLoad \in Nat /\ raced \in BOOLEAN
  BY BoundAssumption DEF Shape
<1>2. CASE LoadMeta
  <2>1. /\ loads < MaxLoad /\ loads' = loads + 1 /\ StartLoad(FALSE) /\ raced' \in BOOLEAN
        /\ UNCHANGED <<redis, cache, sess, job, sent, crashes, fails, subscribed, acked, handed>>
    BY <1>2 DEF LoadMeta, mem
  <2>2. loads' \in 0..MaxLoad
    BY <1>1, <2>1
  <2>3. PICK b \in BOOLEAN : StartLoad(b)
    BY <2>1
  <2>4. LoadJob(loader')
    BY <2>3, StartShape
  <2>5. QED
    BY <2>1, <2>2, <2>4 DEF Shape
<1>3. CASE LoadNames \/ (\E q \in Queue : LoadQueue(q)) \/ LoadClients \/ LoadFails
  <2>0. LoadFails => loader' = NoLoad \/ LoadJob(loader')
    BY FailShape DEF LoadFails, Shape
  <2>1. loader' = NoLoad \/ LoadJob(loader')
    BY <1>3, <2>0, NamesShape, QueueShape, ClientsShape
  <2>2. UNCHANGED <<redis, cache, sess, job, sent, crashes, fails, loads, raced, subscribed, acked, handed>>
    BY <1>3 DEF LoadNames, LoadQueue, LoadClients, LoadFails, mem, hist, load
  <2>3. QED
    BY <2>1, <2>2 DEF Shape
<1>4. CASE SwapCache
  <2>1. /\ loader.pc = "queue" /\ cache' = loader.tmp /\ loader' = NoLoad
        /\ UNCHANGED <<redis, sess, job, sent, crashes, fails, loads, raced, subscribed, acked, handed>>
    BY <1>4 DEF SwapCache, hist, load
  <2>2. LoadJob(loader)
    BY <2>1 DEF Shape, NoLoad
  <2>3. IsCache(cache')
    BY <2>1, <2>2 DEF LoadJob
  <2>4. QED
    BY <2>1, <2>3 DEF Shape
<1>5. QED
  BY <1>2, <1>3, <1>4 DEF LoadQueues

\* Crash, CloseQueue.
LEMMA CrashKeepsShape ==
  ASSUME Shape, Crash
  PROVE  Shape'
<1>1. /\ crashes + fails < MaxFault /\ crashes' = crashes + 1 /\ cache' = EmptyCache /\ sess' = {} /\ StartLoad(TRUE)
      /\ UNCHANGED <<redis, sent, fails, loads, raced, subscribed, acked, handed>>
  BY DEF Crash, load
<1>2. PICK lost \in SUBSET Worker : job' = [w \in Worker |-> Orphan(w, w \in lost)]
  BY DEF Crash
<1>3. crashes' \in Nat /\ fails' \in Nat /\ crashes' + fails' <= MaxFault
  BY <1>1, BoundAssumption DEF Shape
<1>4. LoadJob(loader')
  BY <1>1, StartShape
<1>5. ASSUME NEW w \in Worker PROVE JobOK(job'[w])
  <2>1. job'[w] = Orphan(w, w \in lost) /\ JobOK(job[w])
    BY <1>2 DEF Shape
  <2>2. QED
    BY <2>1, OrphanJob DEF JobOK
<1>6. job' = [w \in Worker |-> job'[w]]
  BY <1>2
<1>7. QED
  BY <1>1, <1>3, <1>4, <1>5, <1>6, EmptyIsCache DEF Shape

LEMMA ShapeStep ==
  ASSUME Shape, [Next]_vars
  PROVE  Shape'
<1>1. CASE \E c \in Client, q \in Queue : CloseQueue(c, q)
  <2>1. /\ sess' \subseteq sess
        /\ UNCHANGED <<redis, cache, job, loader, sent, crashes, fails, loads, raced, subscribed, acked, handed>>
    BY <1>1 DEF CloseQueue, hist, load
  <2>2. QED
    BY <2>1 DEF Shape
<1>2. CASE UNCHANGED vars
  BY <1>2 DEF vars, Shape
<1>3. QED
  BY <1>1, <1>2, OpenKeepsShape, MessageKeepsShape, LoadKeepsShape, CrashKeepsShape DEF Next

LEMMA ShapeInit ==
  ASSUME Init
  PROVE  Shape
<1>1. redis \in DbRec
  <2>1. PICK l \in [Keys -> Seq(Msg)] : l = [k \in Keys |-> <<>>]
    BY EmptySeq
  <2>2. redis = [names |-> {}, meta |-> [q \in Queue |-> NoMeta], submeta |-> [q \in Queue |-> {}],
                 lists |-> l, taken |-> l]
    BY <2>1 DEF Init, EmptyDb
  <2>3. QED
    BY <2>2 DEF DbRec
<1>2. \A w \in Worker : JobOK(job[w])
  BY DEF Init, JobOK
<1>3. sent \in 0..MaxMsg /\ crashes = 0 /\ fails = 0 /\ 0 <= MaxFault /\ loads \in 0..MaxLoad
  BY BoundAssumption DEF Init
<1>4. IsCache(cache)
  BY EmptyIsCache DEF Init
<1>5. /\ sess \subseteq Client \X Queue /\ subscribed \subseteq Client \X Queue
      /\ acked \subseteq AckRec /\ handed \subseteq [k : Keys, m : Msg, c : Client]
      /\ loader = NoLoad /\ raced \in BOOLEAN
  BY DEF Init
<1>6. job = [w \in Worker |-> job[w]]
  BY DEF Init
<1>7. QED
  BY <1>1, <1>2, <1>3, <1>4, <1>5, <1>6 DEF Shape

LEMMA Shapely == Spec => []Shape
<1>1. Init => Shape
  BY ShapeInit
<1>2. Shape /\ [Next]_vars => Shape'
  BY ShapeStep
<1>3. QED
  BY <1>1, <1>2, PTL DEF Spec

\* Every variable keeps the shape of the C++ object or Redis value it stands
\* for: in particular LoadQueues never caches a queue that has no metadata.
THEOREM TypeCorrect == Spec => []TypeOK
<1>1. Shape => TypeOK
  <2> SUFFICES ASSUME Shape PROVE TypeOK
    OBVIOUS
  <2>1. redis.names \subseteq Queue /\ redis.meta \in [Queue -> MsgType \cup {NoMeta}]
        /\ redis.submeta \in [Queue -> SUBSET Client]
    BY DEF Shape, DbRec
  <2>2. DOMAIN cache \subseteq Queue /\ \A q \in DOMAIN cache : cache[q] \in EntryRec
    BY DEF Shape, IsCache
  <2>3. \A e \in EntryRec : e.type \in MsgType /\ e.clients \in Seq(Client)
    BY DEF EntryRec
  <2>4. \A s \in Seq(Client) : ToSet(s) \subseteq Client
    BY DEF ToSet
  <2>5. QED
    BY <2>1, <2>2, <2>3, <2>4 DEF Shape, TypeOK
<1>2. QED
  BY <1>1, Shapely, PTL
----------------------------------------------------------------------------
(* What a step may change *)

\* A pipeline of CreatePublisher is not one of PushMsg or PopMsg.
LEMMA PubIsPub ==
  ASSUME NEW j, IsPub(j)
  PROVE  ~IsPush(j) /\ ~IsPop(j)
<1>1. "t" \in DOMAIN j
  BY DEF IsPub, PubJob
<1>2. IsPush(j) => "t" \notin DOMAIN j
  BY DEF IsPush, PushJob
<1>3. IsPop(j) => "t" \notin DOMAIN j
  BY DEF IsPop, PopJob
<1>4. QED
  BY <1>1, <1>2, <1>3

\* Nor is a pipeline of PushMsg one of PopMsg.
LEMMA PushIsPush ==
  ASSUME NEW j, IsPush(j)
  PROVE  ~IsPop(j)
<1>1. "ack" \in DOMAIN j
  BY DEF IsPush, PushJob
<1>2. IsPop(j) => "ack" \notin DOMAIN j
  BY DEF IsPop, PopJob
<1>3. QED
  BY <1>1, <1>2

\* Only Redis, a failure or the end of the process takes a worker out of its
\* pipeline.
LEMMA Busy ==
  ASSUME Shape, [Next]_vars, NEW w \in Worker, job[w].pc = "pipe"
  PROVE  job'[w] = job[w] \/ RedisExec(w) \/ GiveUp(w) \/ Crash
<1>1. job[w] # Idle
  BY IdleFields
<1>2. ASSUME NEW v \in Worker, Open(v) PROVE job'[w] = job[w]
  <2>1. CASE v = w
    BY <1>1, <1>2, <2>1 DEF Open, CreatePublisher, CreateSubscriber, CheckType, CheckSubscriber,
                            AddSubscriber, CacheSubscriber, OpenQueue, Free
  <2>2. CASE v # w
    BY <1>2, <2>2, CreateShape, SubscribeShape, SubSteps, OpenShape DEF Open
  <2>3. QED
    BY <2>1, <2>2
<1>3. ASSUME NEW v \in Worker, Message(v), ~RedisExec(w), ~GiveUp(w) PROVE job'[w] = job[w]
  <2>1. CASE v = w
    BY <1>1, <1>3, <2>1 DEF Message, PushMsg, PopMsg, Reply, Free
  <2>2. CASE v # w
    BY <1>3, <2>2, PushShape, PopShape, ExecShape, ReplyShape, GiveUpShape DEF Message
  <2>3. QED
    BY <2>1, <2>2
<1>4. CASE LoadQueues \/ \E c \in Client, q \in Queue : CloseQueue(c, q)
  BY <1>4 DEF LoadQueues, LoadMeta, LoadNames, LoadQueue, LoadClients, LoadFails, GiveUpLoad, SwapCache, CloseQueue
<1>5. CASE UNCHANGED vars
  BY <1>5 DEF vars
<1>6. QED
  BY <1>2, <1>3, <1>4, <1>5 DEF Next

\* Only these steps write to Redis.
LEMMA Writers ==
  ASSUME [Next]_vars
  PROVE  \/ redis' = redis
         \/ \E w \in Worker : RedisExec(w)
         \/ \E w \in Worker : AddSubscriber(w)
<1>1. ASSUME NEW w \in Worker, Open(w), ~AddSubscriber(w) PROVE redis' = redis
  BY <1>1 DEF Open, CreatePublisher, CreateSubscriber, CheckType, CheckSubscriber, CacheSubscriber, OpenQueue
<1>2. ASSUME NEW w \in Worker, Message(w), ~RedisExec(w) PROVE redis' = redis
  BY <1>2 DEF Message, PushMsg, PopMsg, Reply, GiveUp
<1>3. CASE LoadQueues \/ Crash \/ \E c \in Client, q \in Queue : CloseQueue(c, q)
  BY <1>3 DEF LoadQueues, LoadMeta, LoadNames, LoadQueue, LoadClients, LoadFails, GiveUpLoad, SwapCache, CloseQueue, Crash
<1>4. CASE UNCHANGED vars
  BY <1>4 DEF vars
<1>5. QED
  BY <1>1, <1>2, <1>3, <1>4 DEF Next
----------------------------------------------------------------------------
(* The process can start again *)

\* Job j has the HMSET of queue q next, right behind its SADD.
Behind(j, q) == IsPub(j) /\ j.pc = "pipe" /\ j.q = q /\ j.cmds = <<HMSETMeta(q, j.t)>>

Named == \A q \in redis.names : redis.meta[q] # NoMeta \/ \E w \in Worker : Behind(job[w], q)

\* The crash of the process cannot take the HMSET back: the pipeline was
\* written at once.
LEMMA BehindStays ==
  ASSUME Shape, [Next]_vars, NEW w \in Worker, NEW q \in Queue, Behind(job[w], q)
  PROVE  Behind(job'[w], q) \/ RedisExec(w)
<1>1. PICK j, k : j = job[w] /\ k = job'[w]
  OBVIOUS
<1>2. IsPub(j) /\ j.pc = "pipe" /\ j.q = q /\ j.cmds = <<HMSETMeta(q, j.t)>>
  BY <1>1 DEF Behind
<1>3. ~j.fresh
  <2>1. <<HMSETMeta(q, j.t)>> # <<SADD(q), HMSETMeta(q, j.t)>>
    <3>1. ASSUME NEW x, NEW y, NEW z PROVE <<x>> # <<y, z>>
      OBVIOUS
    <3>2. QED
      BY <3>1
  <2>2. QED
    BY <1>2, <2>1 DEF IsPub, PubLeft
<1>4. CASE Crash
  <2>1. PICK lost \in SUBSET Worker : k = Orphan(w, w \in lost)
    BY <1>1, <1>4 DEF Crash
  <2>2. JobOK(j)
    BY <1>2 DEF JobOK
  <2>3. k # Idle
    <3>1. k = [j EXCEPT !.then = "idle"]
      BY <1>1, <1>2, <1>3, <2>1 DEF Orphan
    <3>2. k.pc = "pipe"
      BY <1>2, <3>1 DEF IsPub, PubJob
    <3>3. QED
      BY <3>2, IdleFields
  <2>4. /\ k.pc = "pipe" /\ k.cmds = j.cmds /\ k.q = j.q
        /\ \/ IsPub(j) /\ IsPub(k) /\ k.t = j.t
           \/ IsPush(j) /\ IsPush(k) /\ k.ack = j.ack
           \/ IsPop(j) /\ IsPop(k)
    BY <1>1, <2>1, <2>2, <2>3, OrphanJob
  <2>5. ~IsPush(j) /\ ~IsPop(j)
    BY <1>2, PubIsPub
  <2>6. QED
    BY <1>1, <1>2, <2>4, <2>5 DEF Behind
<1>5. ~GiveUp(w)
  BY <1>1, <1>2, GiveUpShape, PubIsPub
<1>6. QED
  BY <1>1, <1>2, <1>4, <1>5, Busy

\* The commands that leave the names and the metadata of queues alone.
KeepsMeta(db, d) == d.names = db.names /\ d.meta = db.meta
LEMMA KeepMeta ==
  ASSUME NEW db \in DbRec
  PROVE  /\ \A q \in Queue, c \in Client : KeepsMeta(db, Exec(db, HSETSub(q, c)))
         /\ \A x \in Keys : KeepsMeta(db, Exec(db, LPOP(x))) /\ \A m \in Msg : KeepsMeta(db, Exec(db, RPUSH(x, m)))
<1>1. ASSUME NEW q \in Queue, NEW c \in Client PROVE KeepsMeta(db, Exec(db, HSETSub(q, c)))
  <2>1. Exec(db, HSETSub(q, c)) = [db EXCEPT !.submeta[q] = @ \cup {c}]
    BY DEF Exec, HSETSub
  <2>2. QED
    BY <2>1 DEF DbRec, KeepsMeta
<1>2. ASSUME NEW x \in Keys PROVE KeepsMeta(db, Exec(db, LPOP(x)))
  <2>1. Exec(db, LPOP(x)) =
          IF db.lists[x] = <<>> THEN db
          ELSE [db EXCEPT !.lists[x] = Tail(@), !.taken[x] = Append(@, Head(db.lists[x]))]
    BY DEF Exec, LPOP
  <2>2. QED
    BY <2>1 DEF DbRec, KeepsMeta
<1>3. ASSUME NEW x \in Keys, NEW m \in Msg PROVE KeepsMeta(db, Exec(db, RPUSH(x, m)))
  <2>1. Exec(db, RPUSH(x, m)) = [db EXCEPT !.lists[x] = Append(@, m)]
    BY DEF Exec, RPUSH
  <2>2. QED
    BY <2>1 DEF DbRec, KeepsMeta
<1>4. QED
  BY <1>1, <1>2, <1>3

\* How a step changes the names and the metadata of queues.
LEMMA MetaStep ==
  ASSUME Shape, [Next]_vars, NEW db, db = redis, NEW d, d = redis'
  PROVE  \/ d.names = db.names /\ d.meta = db.meta
         \/ \E w \in Worker : /\ IsPub(job[w]) /\ d.names = db.names \cup {job[w].q} /\ d.meta = db.meta
                              /\ Behind(job'[w], job[w].q)
         \/ \E w \in Worker : /\ IsPub(job[w]) /\ d.names = db.names
                              /\ d.meta = [db.meta EXCEPT ![job[w].q] = job[w].t]
                              /\ Behind(job[w], job[w].q)
<1>1. db \in DbRec
  BY DEF Shape
<1>2. ASSUME NEW w \in Worker, AddSubscriber(w)
      PROVE  d.names = db.names /\ d.meta = db.meta
  <2>1. IsSub(job[w]) /\ d = Exec(db, HSETSub(job[w].q, job[w].c))
    BY <1>2, SubSteps DEF AddSubscriber
  <2>2. job[w].q \in Queue /\ job[w].c \in Client
    BY <2>1, SubFields
  <2>3. QED
    BY <1>1, <2>1, <2>2, KeepMeta DEF KeepsMeta
<1>3. ASSUME NEW w \in Worker, RedisExec(w)
      PROVE  \/ d.names = db.names /\ d.meta = db.meta
             \/ /\ IsPub(job[w]) /\ d.names = db.names \cup {job[w].q} /\ d.meta = db.meta
                /\ Behind(job'[w], job[w].q)
             \/ /\ IsPub(job[w]) /\ d.names = db.names
                /\ d.meta = [db.meta EXCEPT ![job[w].q] = job[w].t]
                /\ Behind(job[w], job[w].q)
  <2>1. PICK j, k : j = job[w] /\ k = job'[w]
    OBVIOUS
  <2>2. /\ j.pc = "pipe"
        /\ \/ IsPub(j) /\ PubExec(j, k)
           \/ IsPush(j) /\ PushExec(j, k)
           \/ IsPop(j) /\ PopExec(j, k)
    BY <1>3, <2>1, ExecShape
  <2>3. CASE IsPub(j) /\ PubExec(j, k)
    <3>1. j.q \in Queue /\ j.t \in MsgType
      BY <2>3, PubFields
    <3>2. CASE /\ d = Exec(db, SADD(j.q))
               /\ IsPub(k) /\ k.pc = "pipe" /\ k.cmds = <<HMSETMeta(j.q, j.t)>> /\ k.q = j.q /\ k.t = j.t
      BY <1>1, <2>1, <2>3, <3>1, <3>2, ExecSADD DEF Behind
    <3>3. CASE j.cmds = <<HMSETMeta(j.q, j.t)>> /\ d = Exec(db, HMSETMeta(j.q, j.t))
      BY <1>1, <2>1, <2>2, <2>3, <3>1, <3>3, ExecMeta DEF Behind
    <3>4. QED
      BY <2>3, <3>2, <3>3 DEF PubExec
  <2>4. CASE IsPush(j) /\ PushExec(j, k)
    <3>1. j.q \in Queue /\ j.ack.m \in Msg
      BY <2>4, PushFields
    <3>2. QueueKey(j.q) \in Keys /\ \A c \in Client : SubKey(j.q, c) \in Keys
      BY <3>1 DEF Keys
    <3>3. \/ \E x \in Keys : d = Exec(db, RPUSH(x, j.ack.m))
          \/ d = db
          \/ \E c \in Client : d = Exec(db, HSETSub(j.q, c))
      BY <2>4, <3>2 DEF PushExec
    <3>4. ASSUME NEW x \in Keys, d = Exec(db, RPUSH(x, j.ack.m)) PROVE d.names = db.names /\ d.meta = db.meta
      BY <1>1, <3>1, <3>4, KeepMeta DEF KeepsMeta
    <3>5. ASSUME NEW c \in Client, d = Exec(db, HSETSub(j.q, c)) PROVE d.names = db.names /\ d.meta = db.meta
      BY <1>1, <3>1, <3>5, KeepMeta DEF KeepsMeta
    <3>6. QED
      BY <3>3, <3>4, <3>5
  <2>5. CASE IsPop(j) /\ PopExec(j, k)
    <3>1. j.q \in Queue /\ j.c \in Client
      BY <2>5, PopFields
    <3>2. \/ \E x \in Keys : d = Exec(db, LPOP(x))
          \/ d = db
          \/ d = Exec(db, HSETSub(j.q, j.c))
      BY <2>5 DEF PopExec
    <3>3. ASSUME NEW x \in Keys, d = Exec(db, LPOP(x)) PROVE d.names = db.names /\ d.meta = db.meta
      BY <1>1, <3>3, KeepMeta DEF KeepsMeta
    <3>4. ASSUME d = Exec(db, HSETSub(j.q, j.c)) PROVE d.names = db.names /\ d.meta = db.meta
      BY <1>1, <3>1, <3>4, KeepMeta DEF KeepsMeta
    <3>5. QED
      BY <3>2, <3>3, <3>4
  <2>6. QED
    BY <2>1, <2>2, <2>3, <2>4, <2>5
<1>4. QED
  BY <1>2, <1>3, Writers

LEMMA MetaWritten ==
  ASSUME Shape, NEW w \in Worker, RedisExec(w), NEW q \in Queue, Behind(job[w], q), NEW d, d = redis'
  PROVE  d.meta[q] # NoMeta
<1>1. PICK j, k : j = job[w] /\ k = job'[w]
  OBVIOUS
<1>2. IsPub(j) /\ j.cmds = <<HMSETMeta(q, j.t)>> /\ j.q = q
  BY <1>1 DEF Behind
<1>3. PubExec(j, k)
  BY <1>1, <1>2, ExecShape, PubIsPub
<1>4. j.t \in MsgType /\ redis \in DbRec /\ redis.meta \in [Queue -> MsgType \cup {NoMeta}]
  BY <1>2, PubFields DEF Shape, DbRec
<1>5. d = Exec(redis, HMSETMeta(q, j.t))
  <2>1. ASSUME NEW x, NEW y, NEW z PROVE <<x>> # <<y, z>>
    OBVIOUS
  <2>2. QED
    BY <1>2, <1>3, <2>1 DEF PubExec
<1>6. d.meta = [redis.meta EXCEPT ![q] = j.t]
  BY <1>4, <1>5, ExecMeta
<1>7. d.meta[q] = j.t
  BY <1>4, <1>6
<1>8. QED
  BY <1>4, <1>7 DEF NoMeta, MsgType, PEER2PEER, SUB2PUB

LEMMA NamedStep ==
  ASSUME Shape, Named, [Next]_vars
  PROVE  Named'
<1> PICK db, d : db = redis /\ d = redis'
  OBVIOUS
<1>1. db.names \subseteq Queue /\ db.meta \in [Queue -> MsgType \cup {NoMeta}]
  BY DEF Shape, DbRec
<1>2. NoMeta \notin MsgType
  BY DEF NoMeta, MsgType, PEER2PEER, SUB2PUB
<1>3. SUFFICES ASSUME NEW q \in d.names, d.meta[q] = NoMeta
               PROVE  \E w \in Worker : Behind(job'[w], q)
  BY DEF Named
<1>4. ASSUME q \in db.names, db.meta[q] = NoMeta
      PROVE  \E w \in Worker : Behind(job'[w], q)
  <2>1. PICK w \in Worker : Behind(job[w], q)
    BY <1>4 DEF Named
  <2>2. q \in Queue
    BY <1>1, <1>4
  <2>3. ~RedisExec(w)
    BY <1>3, <2>1, <2>2, MetaWritten
  <2>4. QED
    BY <2>1, <2>2, <2>3, BehindStays
<1>5. CASE d.names = db.names /\ d.meta = db.meta
  BY <1>3, <1>4, <1>5
<1>6. ASSUME NEW w \in Worker, d.names = db.names \cup {job[w].q}, d.meta = db.meta, Behind(job'[w], job[w].q)
      PROVE  \E v \in Worker : Behind(job'[v], q)
  BY <1>3, <1>4, <1>6
<1>7. ASSUME NEW w \in Worker, IsPub(job[w]), d.names = db.names, d.meta = [db.meta EXCEPT ![job[w].q] = job[w].t]
      PROVE  q \in db.names /\ db.meta[q] = NoMeta
  <2>1. job[w].q \in Queue /\ job[w].t \in MsgType
    BY <1>7, PubFields
  <2>2. QED
    BY <1>1, <1>2, <1>3, <1>7, <2>1
<1>8. QED
  BY <1>4, <1>5, <1>6, <1>7, MetaStep

\* A crash at any point, of any number of workers' pipelines, leaves the
\* database such that the process comes up again: every name in
\* __meta_queuenames has its metadata or will have it, because the SADD and
\* the HMSET of CreatePublisher leave in one write.
THEOREM AlwaysRestartable == Spec => []Restartable
<1>1. Init => Named
  BY DEF Init, Named, EmptyDb
<1>2. Named => Restartable
  BY DEF Named, Restartable, Behind
<1>3. Shape /\ Named /\ [Next]_vars => Named'
  BY NamedStep
<1>4. QED
  BY <1>1, <1>2, <1>3, Shapely, PTL DEF Spec
----------------------------------------------------------------------------
(* What has gone through a list *)

ThroughOf(db, k) == db.taken[k] \o db.lists[k]
SameThrough(db, d) == \A x \in Keys : ThroughOf(d, x) = ThroughOf(db, x)
Pushed(db, d, k, m) ==
  ThroughOf(d, k) = Append(ThroughOf(db, k), m) /\ \A x \in Keys : x # k => ThroughOf(d, x) = ThroughOf(db, x)

LEMMA ThroughSeq ==
  ASSUME NEW db \in DbRec, NEW k \in Keys
  PROVE  ThroughOf(db, k) \in Seq(Msg) /\ db.taken[k] \in Seq(Msg) /\ db.lists[k] \in Seq(Msg)
<1>1. db.taken[k] \in Seq(Msg) /\ db.lists[k] \in Seq(Msg)
  BY DEF DbRec
<1>2. QED
  BY <1>1, ConcatProperties DEF ThroughOf

\* Moving the head of one sequence to the end of another.
LEMMA MoveHead ==
  ASSUME NEW s \in Seq(Msg), NEW t \in Seq(Msg), t # <<>>
  PROVE  Append(s, Head(t)) \o Tail(t) = s \o t
<1>1. Head(t) \in Msg /\ Tail(t) \in Seq(Msg) /\ t = <<Head(t)>> \o Tail(t)
  OBVIOUS
<1>2. Append(s, Head(t)) = s \o <<Head(t)>> /\ <<Head(t)>> \in Seq(Msg)
  BY <1>1, AppendIsConcat
<1>3. QED
  BY <1>1, <1>2, ConcatAssociative

LEMMA AppendToConcat ==
  ASSUME NEW s \in Seq(Msg), NEW t \in Seq(Msg), NEW m \in Msg
  PROVE  s \o Append(t, m) = Append(s \o t, m)
<1>1. Append(t, m) = t \o <<m>> /\ <<m>> \in Seq(Msg) /\ s \o t \in Seq(Msg)
  BY AppendIsConcat, ConcatProperties
<1>2. Append(s \o t, m) = (s \o t) \o <<m>>
  BY <1>1, AppendIsConcat
<1>3. QED
  BY <1>1, <1>2, ConcatAssociative

LEMMA ThroughExec ==
  ASSUME NEW db \in DbRec
  PROVE  /\ \A q \in Queue : SameThrough(db, Exec(db, SADD(q)))
         /\ \A q \in Queue, t \in MsgType : SameThrough(db, Exec(db, HMSETMeta(q, t)))
         /\ \A q \in Queue, c \in Client : SameThrough(db, Exec(db, HSETSub(q, c)))
         /\ \A k \in Keys : SameThrough(db, Exec(db, LPOP(k)))
         /\ \A k \in Keys, m \in Msg : Pushed(db, Exec(db, RPUSH(k, m)), k, m)
<1>1. ASSUME NEW q \in Queue PROVE SameThrough(db, Exec(db, SADD(q)))
  <2>1. Exec(db, SADD(q)) = [db EXCEPT !.names = @ \cup {q}]
    BY DEF Exec, SADD
  <2>2. QED
    BY <2>1 DEF DbRec, SameThrough, ThroughOf
<1>2. ASSUME NEW q \in Queue, NEW t \in MsgType PROVE SameThrough(db, Exec(db, HMSETMeta(q, t)))
  <2>1. Exec(db, HMSETMeta(q, t)) = [db EXCEPT !.meta[q] = t]
    BY DEF Exec, HMSETMeta
  <2>2. QED
    BY <2>1 DEF DbRec, SameThrough, ThroughOf
<1>3. ASSUME NEW q \in Queue, NEW c \in Client PROVE SameThrough(db, Exec(db, HSETSub(q, c)))
  <2>1. Exec(db, HSETSub(q, c)) = [db EXCEPT !.submeta[q] = @ \cup {c}]
    BY DEF Exec, HSETSub
  <2>2. QED
    BY <2>1 DEF DbRec, SameThrough, ThroughOf
<1>4. ASSUME NEW k \in Keys PROVE SameThrough(db, Exec(db, LPOP(k)))
  <2>1. PICK d : d = Exec(db, LPOP(k))
    OBVIOUS
  <2>2. CASE db.lists[k] = <<>>
    BY <2>1, <2>2 DEF Exec, LPOP, SameThrough
  <2>3. CASE db.lists[k] # <<>>
    <3>1. /\ db.lists \in [Keys -> Seq(Msg)] /\ db.taken \in [Keys -> Seq(Msg)]
      BY DEF DbRec
    <3>2. d = [db EXCEPT !.lists[k] = Tail(@), !.taken[k] = Append(@, Head(db.lists[k]))]
      BY <2>1, <2>3 DEF Exec, LPOP
    <3>3. /\ d.lists = [db.lists EXCEPT ![k] = Tail(@)]
          /\ d.taken = [db.taken EXCEPT ![k] = Append(@, Head(db.lists[k]))]
      BY <3>2 DEF DbRec
    <3>4. d.lists[k] = Tail(db.lists[k]) /\ d.taken[k] = Append(db.taken[k], Head(db.lists[k]))
      BY <3>1, <3>3
    <3>5. ThroughOf(d, k) = ThroughOf(db, k)
      BY <2>3, <3>1, <3>4, MoveHead DEF ThroughOf
    <3>6. \A x \in Keys : x # k => d.lists[x] = db.lists[x] /\ d.taken[x] = db.taken[x]
      BY <3>1, <3>3
    <3>7. QED
      BY <2>1, <3>5, <3>6 DEF ThroughOf, SameThrough
  <2>4. QED
    BY <2>2, <2>3
<1>5. ASSUME NEW k \in Keys, NEW m \in Msg PROVE Pushed(db, Exec(db, RPUSH(k, m)), k, m)
  <2>1. PICK d : d = Exec(db, RPUSH(k, m))
    OBVIOUS
  <2>2. /\ db.lists \in [Keys -> Seq(Msg)] /\ db.taken \in [Keys -> Seq(Msg)]
    BY DEF DbRec
  <2>3. d = [db EXCEPT !.lists[k] = Append(@, m)]
    BY <2>1 DEF Exec, RPUSH
  <2>4. d.lists = [db.lists EXCEPT ![k] = Append(@, m)] /\ d.taken = db.taken
    BY <2>3 DEF DbRec
  <2>5. d.lists[k] = Append(db.lists[k], m) /\ d.taken[k] = db.taken[k]
    BY <2>2, <2>4
  <2>6. ThroughOf(d, k) = Append(ThroughOf(db, k), m)
    BY <2>2, <2>5, AppendToConcat DEF ThroughOf
  <2>7. \A x \in Keys : x # k => d.lists[x] = db.lists[x] /\ d.taken[x] = db.taken[x]
    BY <2>2, <2>4
  <2>8. QED
    BY <2>1, <2>6, <2>7 DEF ThroughOf, Pushed
<1>6. QED
  BY <1>1, <1>2, <1>3, <1>4, <1>5

\* Worker w's pipeline has the RPUSH to list k of the message its request
\* brought next: to the queue's own list, or to a subscriber's.
Pushes(j, k) ==
  /\ IsPush(j) /\ j.pc = "pipe" /\ k \in Keys
  /\ \/ k = QueueKey(j.q) /\ j.cmds = <<RPUSH(k, j.ack.m), HSETVisit(j.q)>>
     \/ ~j.ack.peer /\ Head(j.cmds) = RPUSH(k, j.ack.m) /\ \E c \in Client : k = SubKey(j.q, c)

\* How a step changes what has gone through the lists: not at all, or it
\* appends one worker's message to one of them.
LEMMA ThroughStep ==
  ASSUME Shape, [Next]_vars, NEW db, db = redis, NEW d, d = redis'
  PROVE  \/ SameThrough(db, d)
         \/ \E w \in Worker : \E k \in Keys :
              RedisExec(w) /\ Pushes(job[w], k) /\ Pushed(db, d, k, job[w].ack.m)
<1>1. db \in DbRec
  BY DEF Shape
<1>2. ASSUME NEW w \in Worker, AddSubscriber(w)
      PROVE  SameThrough(db, d)
  <2>1. IsSub(job[w]) /\ d = Exec(db, HSETSub(job[w].q, job[w].c))
    BY <1>2, SubSteps DEF AddSubscriber
  <2>2. job[w].q \in Queue /\ job[w].c \in Client
    BY <2>1, SubFields
  <2>3. QED
    BY <1>1, <2>1, <2>2, ThroughExec
<1>3. ASSUME NEW w \in Worker, RedisExec(w), ~SameThrough(db, d)
      PROVE  \E k \in Keys : Pushes(job[w], k) /\ Pushed(db, d, k, job[w].ack.m)
  <2>1. PICK j, k : j = job[w] /\ k = job'[w]
    OBVIOUS
  <2>2. /\ j.pc = "pipe"
        /\ \/ IsPub(j) /\ PubExec(j, k)
           \/ IsPush(j) /\ PushExec(j, k)
           \/ IsPop(j) /\ PopExec(j, k)
    BY <1>3, <2>1, ExecShape
  <2>3. CASE IsPub(j) /\ PubExec(j, k)
    <3>1. j.q \in Queue /\ j.t \in MsgType
      BY <2>3, PubFields
    <3>2. d = Exec(db, SADD(j.q)) \/ d = Exec(db, HMSETMeta(j.q, j.t))
      BY <2>3 DEF PubExec
    <3>3. QED
      BY <1>1, <1>3, <3>1, <3>2, ThroughExec
  <2>4. CASE IsPush(j) /\ PushExec(j, k)
    <3>1. j.q \in Queue /\ j.ack.m \in Msg
      BY <2>4, PushFields
    <3>2. QueueKey(j.q) \in Keys /\ \A c \in Client : SubKey(j.q, c) \in Keys
      BY <3>1 DEF Keys
    <3>3. \/ j.cmds = <<RPUSH(QueueKey(j.q), j.ack.m), HSETVisit(j.q)>> /\ d = Exec(db, RPUSH(QueueKey(j.q), j.ack.m))
          \/ d = db
          \/ \E c \in Client : ~j.ack.peer /\ Head(j.cmds) = RPUSH(SubKey(j.q, c), j.ack.m)
                               /\ d = Exec(db, RPUSH(SubKey(j.q, c), j.ack.m))
          \/ \E c \in Client : d = Exec(db, HSETSub(j.q, c))
      BY <2>4 DEF PushExec
    <3>4. d # db /\ \A c \in Client : d # Exec(db, HSETSub(j.q, c))
      BY <1>1, <1>3, <3>1, ThroughExec DEF SameThrough
    <3>5. CASE j.cmds = <<RPUSH(QueueKey(j.q), j.ack.m), HSETVisit(j.q)>> /\ d = Exec(db, RPUSH(QueueKey(j.q), j.ack.m))
      <4>1. PICK x \in Keys : x = QueueKey(j.q)
        BY <3>2
      <4>2. Pushed(db, d, x, j.ack.m)
        BY <1>1, <3>1, <3>5, <4>1, ThroughExec
      <4>3. Pushes(j, x)
        BY <2>2, <2>4, <3>5, <4>1 DEF Pushes
      <4>4. QED
        BY <2>1, <4>2, <4>3
    <3>6. ASSUME NEW c \in Client, ~j.ack.peer, Head(j.cmds) = RPUSH(SubKey(j.q, c), j.ack.m),
                 d = Exec(db, RPUSH(SubKey(j.q, c), j.ack.m))
          PROVE  \E x \in Keys : Pushes(j, x) /\ Pushed(db, d, x, j.ack.m)
      <4>1. PICK x \in Keys : x = SubKey(j.q, c)
        BY <3>2
      <4>2. Pushed(db, d, x, j.ack.m)
        BY <1>1, <3>1, <3>6, <4>1, ThroughExec
      <4>3. Pushes(j, x)
        BY <2>2, <2>4, <3>6, <4>1 DEF Pushes
      <4>4. QED
        BY <4>2, <4>3
    <3>7. QED
      BY <2>1, <3>3, <3>4, <3>5, <3>6
  <2>5. CASE IsPop(j) /\ PopExec(j, k)
    <3>1. j.q \in Queue /\ j.c \in Client
      BY <2>5, PopFields
    <3>2. \/ \E x \in Keys : d = Exec(db, LPOP(x))
          \/ d = db
          \/ d = Exec(db, HSETSub(j.q, j.c))
      BY <2>5 DEF PopExec
    <3>3. d # db
      BY <1>3 DEF SameThrough
    <3>4. QED
      BY <1>1, <1>3, <3>1, <3>2, <3>3, ThroughExec
  <2>6. QED
    BY <2>2, <2>3, <2>4, <2>5
<1>4. redis' = redis => SameThrough(db, d)
  BY DEF SameThrough
<1>5. QED
  BY <1>2, <1>3, <1>4, Writers
----------------------------------------------------------------------------
(* The messages of a list *)

Bounded(s, n) == \A i \in DOMAIN s : s[i].n <= n
Distinct(s) == \A i, j \in DOMAIN s : s[i] = s[j] => i = j
Holds(s, m) == \E i \in DOMAIN s : s[i] = m

LEMMA AppendDomain ==
  ASSUME NEW s \in Seq(Msg), NEW m \in Msg, NEW t, t = Append(s, m)
  PROVE  /\ DOMAIN t = 1..(Len(s) + 1) /\ DOMAIN s = 1..Len(s) /\ Len(s) \in Nat
         /\ t[Len(s) + 1] = m /\ \A i \in 1..Len(s) : t[i] = s[i]
  OBVIOUS

LEMMA AppendMsg ==
  ASSUME NEW s \in Seq(Msg), NEW m \in Msg, NEW t, t = Append(s, m)
  PROVE  /\ \A n \in Nat : Bounded(s, n) /\ m.n <= n => Bounded(t, n)
         /\ Distinct(s) /\ ~Holds(s, m) => Distinct(t)
         /\ \A x : Holds(t, x) <=> Holds(s, x) \/ x = m
<1>1. PICK l \in Nat : /\ l = Len(s) /\ DOMAIN t = 1..(l + 1) /\ DOMAIN s = 1..l
                       /\ t[l + 1] = m /\ \A i \in 1..l : t[i] = s[i]
  BY AppendDomain
<1>2. \A i \in 1..(l + 1) : i = l + 1 \/ i \in 1..l
  BY <1>1
<1>3. l + 1 \in 1..(l + 1) /\ 1..l \subseteq 1..(l + 1)
  BY <1>1
<1>4. ASSUME NEW n \in Nat, Bounded(s, n), m.n <= n PROVE Bounded(t, n)
  BY <1>1, <1>2, <1>4 DEF Bounded
<1>5. ASSUME Distinct(s), ~Holds(s, m) PROVE Distinct(t)
  BY <1>1, <1>2, <1>5 DEF Distinct, Holds
<1>6. ASSUME NEW x PROVE Holds(t, x) <=> Holds(s, x) \/ x = m
  BY <1>1, <1>2, <1>3 DEF Holds
<1>7. QED
  BY <1>4, <1>5, <1>6

\* PushMsg's pipeline has the RPUSH to the queue's own list still ahead.
Waiting(j) == IsPush(j) /\ j.pc = "pipe" /\ j.cmds = <<RPUSH(QueueKey(j.q), j.ack.m), HSETVisit(j.q)>>

LEMMA KeyKinds ==
  ASSUME NEW q \in Queue, NEW r \in Queue, NEW c \in Client
  PROVE  QueueKey(q) # SubKey(r, c)
  BY DEF QueueKey, SubKey

LEMMA QueueKeys ==
  ASSUME NEW q \in Queue, NEW r \in Queue, QueueKey(q) = QueueKey(r)
  PROVE  q = r
  BY DEF QueueKey

LEMMA NoWaitInFanOut ==
  ASSUME NEW q \in Queue, NEW m \in Msg, NEW s \in Seq(FanOut(q, m)), NEW v
  PROVE  s # <<RPUSH(QueueKey(q), m), v>>
<1>1. SUFFICES ASSUME s = <<RPUSH(QueueKey(q), m), v>> PROVE FALSE
  OBVIOUS
<1>2. s[1] = RPUSH(QueueKey(q), m) /\ 1 \in DOMAIN s
  BY <1>1
<1>3. RPUSH(QueueKey(q), m) \in FanOut(q, m)
  BY <1>2
<1>4. PICK c \in Client : RPUSH(QueueKey(q), m) = RPUSH(SubKey(q, c), m) \/ RPUSH(QueueKey(q), m) = HSETSub(q, c)
  BY <1>3 DEF FanOut
<1>5. RPUSH(QueueKey(q), m) # HSETSub(q, c)
  BY CmdKinds
<1>6. RPUSH(QueueKey(q), m).k = QueueKey(q) /\ RPUSH(SubKey(q, c), m).k = SubKey(q, c)
  BY DEF RPUSH
<1>7. QED
  BY <1>4, <1>5, <1>6, KeyKinds

\* One command of PushMsg's pipeline is enough to have pushed to the queue's
\* own list.
LEMMA WaitOver ==
  ASSUME NEW j, IsPush(j), j.pc = "pipe", NEW k, PushExec(j, k)
  PROVE  ~Waiting(k)
<1>1. SUFFICES ASSUME Waiting(k) PROVE FALSE
  OBVIOUS
<1>2. IsPush(k) /\ k.pc = "pipe" /\ k.cmds = <<RPUSH(QueueKey(k.q), k.ack.m), HSETVisit(k.q)>>
  BY <1>1 DEF Waiting
<1>3. k # Idle
  BY <1>2, IdleFields
<1>4. k.cmds = Tail(j.cmds) /\ k.q = j.q /\ k.ack = j.ack
  BY <1>2, <1>3 DEF PushExec
<1>5. Tail(j.cmds) = <<RPUSH(QueueKey(j.q), j.ack.m), HSETVisit(j.q)>>
  BY <1>2, <1>4
<1>6. j.q \in Queue /\ j.ack.m \in Msg /\ PushLeft(j)
  BY PushFields DEF IsPush
<1>7. CASE j.cmds = <<RPUSH(QueueKey(j.q), j.ack.m), HSETVisit(j.q)>>
  <2>1. ASSUME NEW x, NEW y PROVE Tail(<<x, y>>) # <<x, y>>
    OBVIOUS
  <2>2. QED
    BY <1>5, <1>7, <2>1
<1>8. CASE j.cmds = <<HSETVisit(j.q)>>
  <2>1. ASSUME NEW x, NEW y, NEW z PROVE Tail(<<x>>) # <<y, z>>
    OBVIOUS
  <2>2. QED
    BY <1>5, <1>8, <2>1
<1>9. CASE j.cmds \in Seq(FanOut(j.q, j.ack.m)) /\ j.cmds # <<>>
  <2>1. Tail(j.cmds) \in Seq(FanOut(j.q, j.ack.m))
    BY <1>9, HeadTailProperties
  <2>2. QED
    BY <1>5, <1>6, <2>1, NoWaitInFanOut
<1>10. QED
  BY <1>6, <1>7, <1>8, <1>9 DEF PushLeft

\* Where the request of a worker that is pushing comes from.
LEMMA PushJobs ==
  ASSUME Shape, [Next]_vars, NEW w \in Worker, NEW j, j = job[w], NEW k, k = job'[w], IsPush(k)
  PROVE  \/ k = j
         \/ \E c \in Client, q \in Queue :
              /\ PushMsg(w, c, q) /\ k.ack.m = NewMsg(c) /\ (k.ack.peer => Waiting(k))
              /\ \A v \in Worker : v # w => job'[v] = job[v]
         \/ RedisExec(w) /\ IsPush(j) /\ j.pc = "pipe" /\ k.ack = j.ack /\ k.q = j.q /\ k.c = j.c /\ ~Waiting(k)
         \/ Crash /\ IsPush(j) /\ j.pc = "pipe" /\ k.ack = j.ack /\ k.q = j.q /\ k.c = j.c /\ (Waiting(k) <=> Waiting(j))
<1>1. JobOK(j)
  BY DEF Shape
<1>2. k # Idle
  BY IdleFields
<1>3. ASSUME NEW v \in Worker, Open(v) PROVE k = j
  <2>1. CASE v = w
    <3>1. k = Idle \/ IsSub(k) \/ IsPub(k)
      BY <1>3, <2>1, CreateShape, SubscribeShape, SubSteps, OpenShape DEF Open
    <3>2. ~IsSub(k)
      BY SubFields, PushFields
    <3>3. QED
      BY <1>2, <3>1, <3>2, PubIsPub
  <2>2. CASE v # w
    BY <1>3, <2>2, CreateShape, SubscribeShape, SubSteps, OpenShape DEF Open
  <2>3. QED
    BY <2>1, <2>2
<1>4. ASSUME NEW v \in Worker, v # w, Message(v) PROVE k = j
  BY <1>4, PushShape, PopShape, ExecShape, ReplyShape, GiveUpShape DEF Message
<1>5. ASSUME NEW c \in Client, NEW q \in Queue, PushMsg(w, c, q)
      PROVE  \/ k = j
             \/ /\ k.ack.m = NewMsg(c) /\ (k.ack.peer => Waiting(k))
                /\ \A v \in Worker : v # w => job'[v] = job[v]
  <2>1. PICK m, e : m = NewMsg(c) /\ e = cache[q]
    OBVIOUS
  <2>2. /\ e \in EntryRec /\ m \in Msg
        /\ \/ job' = job
           \/ k.pc = "pipe" /\ k.q = q /\ k.ack = Ack(q, e, m) /\ k.cmds = PushCmds(q, e, m)
        /\ \A v \in Worker : v # w => job'[v] = job[v]
    BY <1>5, <2>1, PushShape
  <2>3. CASE k.pc = "pipe" /\ k.q = q /\ k.ack = Ack(q, e, m) /\ k.cmds = PushCmds(q, e, m)
    <3>1. k.ack.m = m /\ (k.ack.peer => e.type = PEER2PEER)
      BY <2>2, <2>3, AckShape
    <3>2. e.type = PEER2PEER => k.cmds = <<RPUSH(QueueKey(q), m), HSETVisit(q)>>
      BY <2>2, <2>3, PushCmdsShape DEF PEER2PEER, SUB2PUB
    <3>3. QED
      BY <2>1, <2>2, <2>3, <3>1, <3>2 DEF Waiting
  <2>4. QED
    BY <2>2, <2>3
<1>6. ASSUME NEW c \in Client, NEW q \in Queue, PopMsg(w, c, q) PROVE FALSE
  BY <1>6, PopShape, PushIsPush
<1>7. ASSUME Reply(w) \/ GiveUp(w) PROVE FALSE
  BY <1>2, <1>7, ReplyShape, GiveUpShape
<1>8. ASSUME RedisExec(w)
      PROVE  IsPush(j) /\ j.pc = "pipe" /\ k.ack = j.ack /\ k.q = j.q /\ k.c = j.c /\ ~Waiting(k)
  <2>1. /\ j.pc = "pipe"
        /\ \/ IsPub(j) /\ PubExec(j, k)
           \/ IsPush(j) /\ PushExec(j, k)
           \/ IsPop(j) /\ PopExec(j, k)
    BY <1>8, ExecShape
  <2>2. ~PubExec(j, k)
    BY <1>2, PubIsPub DEF PubExec
  <2>3. ~PopExec(j, k)
    BY <1>2, PushIsPush DEF PopExec
  <2>4. IsPush(j) /\ PushExec(j, k)
    BY <2>1, <2>2, <2>3
  <2>5. QED
    BY <1>2, <2>1, <2>4, WaitOver DEF PushExec
<1>9. ASSUME Crash
      PROVE  IsPush(j) /\ j.pc = "pipe" /\ k.ack = j.ack /\ k.q = j.q /\ k.c = j.c /\ (Waiting(k) <=> Waiting(j))
  <2>1. PICK lost \in SUBSET Worker : k = Orphan(w, w \in lost)
    BY <1>9 DEF Crash
  <2>2. /\ j.pc = "pipe" /\ k.pc = "pipe" /\ k.cmds = j.cmds /\ k.c = j.c /\ k.q = j.q
        /\ \/ IsPub(j) /\ IsPub(k) /\ k.t = j.t
           \/ IsPush(j) /\ IsPush(k) /\ k.ack = j.ack
           \/ IsPop(j) /\ IsPop(k)
    BY <1>1, <1>2, <2>1, OrphanJob
  <2>3. IsPush(j) /\ k.ack = j.ack
    BY <2>2, PubIsPub, PushIsPush
  <2>4. QED
    BY <2>2, <2>3 DEF Waiting
<1>10. CASE LoadQueues \/ \E c \in Client, q \in Queue : CloseQueue(c, q)
  BY <1>10 DEF LoadQueues, LoadMeta, LoadNames, LoadQueue, LoadClients, LoadFails, GiveUpLoad, SwapCache, CloseQueue
<1>11. CASE UNCHANGED vars
  BY <1>11 DEF vars
<1>12. ASSUME Message(w)
       PROVE  \/ k = j
              \/ \E c \in Client, q \in Queue :
                   /\ PushMsg(w, c, q) /\ k.ack.m = NewMsg(c) /\ (k.ack.peer => Waiting(k))
                   /\ \A v \in Worker : v # w => job'[v] = job[v]
              \/ RedisExec(w) /\ IsPush(j) /\ j.pc = "pipe" /\ k.ack = j.ack /\ k.q = j.q /\ k.c = j.c /\ ~Waiting(k)
  BY <1>5, <1>6, <1>7, <1>8, <1>12 DEF Message
<1>13. QED
  BY <1>3, <1>4, <1>9, <1>10, <1>11, <1>12 DEF Next

\* Where an answer SUCCESS comes from, and what a step counts.
LEMMA AckStep ==
  ASSUME Shape, [Next]_vars
  PROVE  /\ \A a \in acked' : \/ a \in acked
                              \/ ~a.peer
                              \/ \E w \in Worker : IsPush(job[w]) /\ ~Waiting(job[w]) /\ a = job[w].ack
         /\ sent' \in Nat /\ sent \in Nat
         /\ sent' = sent \/ (sent' = sent + 1 /\ redis' = redis)
         /\ (\E w \in Worker : RedisExec(w)) => sent' = sent
<1>1. sent \in Nat
  BY DEF Shape
<1>2. ASSUME NEW w \in Worker, RedisExec(w) PROVE acked' = acked /\ sent' = sent
  BY <1>2 DEF RedisExec, hist
<1>3. ASSUME NEW w \in Worker, Reply(w)
      PROVE  /\ sent' = sent
             /\ \A a \in acked' : a \in acked \/ (IsPush(job[w]) /\ ~Waiting(job[w]) /\ a = job[w].ack)
  <2>1. PICK j : j = job[w]
    OBVIOUS
  <2>2. /\ IsPush(j) \/ IsPop(j)
        /\ IsPush(j) => j.pc = "pushed" /\ acked' = acked \cup {j.ack}
        /\ IsPop(j) => acked' = acked
    BY <1>3, <2>1, ReplyShape
  <2>3. sent' = sent
    BY <1>3 DEF Reply
  <2>4. QED
    BY <2>1, <2>2, <2>3 DEF Waiting
<1>4. ASSUME NEW w \in Worker, NEW c \in Client, NEW q \in Queue, PushMsg(w, c, q)
      PROVE  sent' = sent + 1 /\ redis' = redis /\ \A a \in acked' : a \in acked \/ ~a.peer
  <2>1. PICK m, e : m = NewMsg(c) /\ e = cache[q]
    OBVIOUS
  <2>2. /\ e \in EntryRec /\ m \in Msg /\ sent' = sent + 1
        /\ acked' = acked \/ (e.type = SUB2PUB /\ acked' = acked \cup {Ack(q, e, m)})
    BY <1>4, <2>1, PushShape
  <2>3. e.type = SUB2PUB => ~Ack(q, e, m).peer
    BY <2>2, AckShape DEF SUB2PUB, PEER2PEER
  <2>4. redis' = redis
    BY <1>4 DEF PushMsg
  <2>5. QED
    BY <2>2, <2>3, <2>4
<1>5. ASSUME NEW w \in Worker, Open(w) PROVE acked' = acked /\ sent' = sent
  BY <1>5 DEF Open, CreatePublisher, CreateSubscriber, CheckType, CheckSubscriber, AddSubscriber, CacheSubscriber,
              OpenQueue, hist
<1>6. ASSUME NEW w \in Worker, NEW c \in Client, NEW q \in Queue, PopMsg(w, c, q) PROVE acked' = acked /\ sent' = sent
  BY <1>6 DEF PopMsg, hist
<1>7. CASE LoadQueues \/ Crash \/ \E c \in Client, q \in Queue : CloseQueue(c, q)
  <2>1. acked' = acked /\ sent' = sent
    BY <1>7 DEF LoadQueues, LoadMeta, LoadNames, LoadQueue, LoadClients, LoadFails, GiveUpLoad, SwapCache, CloseQueue, Crash, hist
  <2>2. QED
    BY <1>1, <2>1
<1>8. CASE UNCHANGED vars
  BY <1>1, <1>8 DEF vars
<1>9. ASSUME NEW w \in Worker, Message(w)
      PROVE  /\ \A a \in acked' : a \in acked \/ ~a.peer \/ (IsPush(job[w]) /\ ~Waiting(job[w]) /\ a = job[w].ack)
             /\ sent' = sent \/ (sent' = sent + 1 /\ redis' = redis)
  <2>1. GiveUp(w) => acked' = acked /\ sent' = sent
    BY DEF GiveUp
  <2>2. QED
    BY <1>2, <1>3, <1>4, <1>6, <1>9, <2>1 DEF Message
<1>10. /\ \A a \in acked' : \/ a \in acked
                            \/ ~a.peer
                            \/ \E w \in Worker : IsPush(job[w]) /\ ~Waiting(job[w]) /\ a = job[w].ack
       /\ sent' = sent \/ (sent' = sent + 1 /\ redis' = redis)
  BY <1>5, <1>7, <1>8, <1>9 DEF Next
<1>11. QED
  BY <1>1, <1>2, <1>10
----------------------------------------------------------------------------
(* A PEER2PEER message goes through its list once *)

ListIn(db, q) == ThroughOf(db, QueueKey(q))

\* Messages are numbered: nothing in a list or on its way to one has a number
\* that is still to come, and no two workers carry the same message.
Numbered ==
  /\ \A k \in Keys : Bounded(ThroughOf(redis, k), sent)
  /\ \A w \in Worker : IsPush(job[w]) => job[w].ack.m.n <= sent
  /\ \A v, w \in Worker : v # w /\ IsPush(job[v]) /\ IsPush(job[w]) => job[v].ack.m # job[w].ack.m

Once ==
  /\ \A q \in Queue : Distinct(ListIn(redis, q))
  /\ \A w \in Worker : Waiting(job[w]) => ~Holds(ListIn(redis, job[w].q), job[w].ack.m)
  /\ \A w \in Worker : IsPush(job[w]) /\ job[w].ack.peer /\ ~Waiting(job[w]) => Holds(ListIn(redis, job[w].q), job[w].ack.m)
  /\ \A a \in acked : a.peer => Holds(ListIn(redis, a.q), a.m)

LEMMA BoundedMore ==
  ASSUME NEW s \in Seq(Msg), NEW n \in Nat, Bounded(s, n)
  PROVE  Bounded(s, n + 1) /\ \A m \in Msg : m.n = n + 1 => ~Holds(s, m)
<1>1. \A i \in DOMAIN s : s[i] \in Msg
  OBVIOUS
<1>2. \A m \in Msg : m.n \in Nat
  BY DEF Msg
<1>3. QED
  BY <1>1, <1>2 DEF Bounded, Holds

LEMMA NumberedStep ==
  ASSUME Shape, Numbered, [Next]_vars
  PROVE  Numbered'
<1> PICK db, d : db = redis /\ d = redis'
  OBVIOUS
<1>1. db \in DbRec
  BY DEF Shape
<1>2. sent \in Nat /\ sent' \in Nat /\ (sent' = sent \/ (sent' = sent + 1 /\ d = db))
      /\ ((\E w \in Worker : RedisExec(w)) => sent' = sent)
  BY AckStep
<1>3. ASSUME NEW k \in Keys PROVE Bounded(ThroughOf(d, k), sent')
  <2>1. ThroughOf(db, k) \in Seq(Msg) /\ Bounded(ThroughOf(db, k), sent)
    BY <1>1, ThroughSeq DEF Numbered
  <2>2. CASE SameThrough(db, d)
    <3>1. ThroughOf(d, k) = ThroughOf(db, k)
      BY <2>2 DEF SameThrough
    <3>2. QED
      BY <1>2, <2>1, <3>1, BoundedMore
  <2>3. ASSUME NEW w \in Worker, NEW x \in Keys, RedisExec(w), Pushes(job[w], x), Pushed(db, d, x, job[w].ack.m)
        PROVE  Bounded(ThroughOf(d, k), sent')
    <3>1. job[w].ack.m \in Msg /\ job[w].ack.m.n <= sent /\ sent' = sent
      BY <1>2, <2>3, PushFields DEF Pushes, Numbered
    <3>2. CASE k = x
      <4>1. ThroughOf(d, k) = Append(ThroughOf(db, k), job[w].ack.m)
        BY <2>3, <3>2 DEF Pushed
      <4>2. QED
        BY <1>2, <2>1, <3>1, <4>1, AppendMsg
    <3>3. CASE k # x
      BY <2>1, <2>3, <3>1, <3>3 DEF Pushed
    <3>4. QED
      BY <3>2, <3>3
  <2>4. QED
    BY <2>2, <2>3, ThroughStep
<1>4. ASSUME NEW w \in Worker, IsPush(job'[w])
      PROVE  \/ /\ IsPush(job[w]) /\ job'[w].ack = job[w].ack
                /\ job'[w].ack.m.n <= sent'
             \/ /\ job'[w].ack.m.n = sent + 1 /\ sent' = sent + 1
                /\ \A v \in Worker : v # w => job'[v] = job[v]
  <2>1. PICK j, k : j = job[w] /\ k = job'[w]
    OBVIOUS
  <2>2. IsPush(j) => j.ack.m.n \in Nat /\ j.ack.m.n <= sent
    BY <2>1, PushFields DEF Numbered, Msg
  <2>3. \/ k = j
        \/ \E c \in Client, q \in Queue :
             /\ PushMsg(w, c, q) /\ k.ack.m = NewMsg(c)
             /\ \A v \in Worker : v # w => job'[v] = job[v]
        \/ IsPush(j) /\ k.ack = j.ack
    BY <1>4, <2>1, PushJobs
  <2>4. ASSUME NEW c \in Client, NEW q \in Queue, PushMsg(w, c, q), k.ack.m = NewMsg(c)
        PROVE  k.ack.m.n = sent + 1 /\ sent' = sent + 1
    BY <2>4 DEF NewMsg, PushMsg
  <2>5. CASE IsPush(j) /\ k.ack = j.ack
    BY <1>2, <2>1, <2>2, <2>5
  <2>6. QED
    BY <1>4, <2>1, <2>3, <2>4, <2>5
<1>5. \A w \in Worker : IsPush(job'[w]) => job'[w].ack.m.n <= sent'
  BY <1>2, <1>4
<1>6. ASSUME NEW v \in Worker, NEW w \in Worker, v # w, IsPush(job'[v]), IsPush(job'[w])
      PROVE  job'[v].ack.m # job'[w].ack.m
  <2>1. \A u \in Worker : IsPush(job[u]) => job[u].ack.m.n <= sent
    BY DEF Numbered
  <2>2. CASE IsPush(job[v]) /\ job'[v].ack = job[v].ack /\ IsPush(job[w]) /\ job'[w].ack = job[w].ack
    BY <1>6, <2>2 DEF Numbered
  <2>3. CASE job'[v].ack.m.n = sent + 1 /\ job'[w] = job[w]
    BY <1>2, <1>6, <2>1, <2>3
  <2>4. CASE job'[w].ack.m.n = sent + 1 /\ job'[v] = job[v]
    BY <1>2, <1>6, <2>1, <2>4
  <2>5. QED
    BY <1>4, <1>6, <2>2, <2>3, <2>4
<1>7. QED
  BY <1>3, <1>5, <1>6 DEF Numbered

LEMMA ListStep ==
  ASSUME Shape, [Next]_vars, NEW q \in Queue, NEW s, s = ListIn(redis, q), NEW t, t = ListIn(redis', q)
  PROVE  /\ s \in Seq(Msg)
         /\ \/ t = s /\ \A w \in Worker : RedisExec(w) /\ Waiting(job[w]) => job[w].q # q
            \/ \E w \in Worker : RedisExec(w) /\ Waiting(job[w]) /\ job[w].q = q /\ t = Append(s, job[w].ack.m)
<1> PICK db, d, k : db = redis /\ d = redis' /\ k = QueueKey(q)
  OBVIOUS
<1>1. db \in DbRec /\ k \in Keys
  BY DEF Shape, Keys
<1>2. s \in Seq(Msg) /\ s = ThroughOf(db, k) /\ t = ThroughOf(d, k)
  BY <1>1, ThroughSeq DEF ListIn
<1>3. ASSUME NEW w \in Worker, RedisExec(w), Waiting(job[w]), job[w].q = q
      PROVE  t = Append(s, job[w].ack.m)
  <2>1. PICK j, i : j = job[w] /\ i = job'[w]
    OBVIOUS
  <2>2. IsPush(j) /\ j.cmds = <<RPUSH(k, j.ack.m), HSETVisit(q)>> /\ j.ack.m \in Msg
    BY <1>3, <2>1, PushFields DEF Waiting
  <2>3. PushExec(j, i)
    BY <1>3, <2>1, <2>2, ExecShape, PubIsPub, PushIsPush
  <2>4. d = Exec(db, RPUSH(k, j.ack.m))
    <3>1. Head(j.cmds) = RPUSH(k, j.ack.m)
      BY <2>2
    <3>2. RPUSH(k, j.ack.m) # HSETVisit(q) /\ \A c : RPUSH(k, j.ack.m) # HSETSub(q, c)
      BY CmdKinds
    <3>3. \A c \in Client : RPUSH(k, j.ack.m) # RPUSH(SubKey(q, c), j.ack.m)
      <4>1. \A x : RPUSH(x, j.ack.m).k = x
        BY DEF RPUSH
      <4>2. QED
        BY <4>1, KeyKinds
    <3>4. QED
      BY <1>3, <2>1, <2>3, <3>1, <3>2, <3>3 DEF PushExec
  <2>5. QED
    BY <1>1, <1>2, <2>1, <2>2, <2>4, ThroughExec DEF Pushed
<1>4. ASSUME NEW w \in Worker, NEW x \in Keys, RedisExec(w), Pushes(job[w], x), Pushed(db, d, x, job[w].ack.m), x = k
      PROVE  RedisExec(w) /\ Waiting(job[w]) /\ job[w].q = q
  <2>1. job[w].q \in Queue
    BY <1>4, PushFields DEF Pushes
  <2>2. \A c \in Client : k # SubKey(job[w].q, c)
    BY <2>1, KeyKinds
  <2>3. k = QueueKey(job[w].q) /\ job[w].cmds = <<RPUSH(k, job[w].ack.m), HSETVisit(job[w].q)>>
    BY <1>4, <2>2 DEF Pushes
  <2>4. job[w].q = q
    BY <2>1, <2>3, QueueKeys
  <2>5. QED
    BY <1>4, <2>3, <2>4 DEF Pushes, Waiting
<1>5. CASE SameThrough(db, d)
  <2>1. t = s
    BY <1>1, <1>2, <1>5 DEF SameThrough
  <2>2. QED
    BY <1>2, <1>3, <2>1
<1>6. ASSUME NEW w \in Worker, NEW x \in Keys, RedisExec(w), Pushes(job[w], x), Pushed(db, d, x, job[w].ack.m), x # k
      PROVE  t = s
  BY <1>1, <1>2, <1>6 DEF Pushed
<1>7. t = s \/ \E w \in Worker : RedisExec(w) /\ Waiting(job[w]) /\ job[w].q = q
  BY <1>4, <1>5, <1>6, ThroughStep
<1>8. QED
  BY <1>2, <1>3, <1>7

LEMMA OnceStep ==
  ASSUME Shape, Numbered, Once, [Next]_vars
  PROVE  Once'
<1>1. ASSUME NEW q \in Queue, NEW s, s = ListIn(redis, q), NEW t, t = ListIn(redis', q)
      PROVE  /\ Distinct(t)
             /\ \A x : Holds(s, x) => Holds(t, x)
             /\ \A w \in Worker : RedisExec(w) /\ Waiting(job[w]) /\ job[w].q = q => Holds(t, job[w].ack.m)
             /\ \A x : Holds(t, x) => \/ Holds(s, x)
                                      \/ \E w \in Worker : RedisExec(w) /\ Waiting(job[w]) /\ x = job[w].ack.m
  <2>1. s \in Seq(Msg) /\ Distinct(s)
    BY <1>1, ListStep DEF Once
  <2>2. CASE t = s /\ \A w \in Worker : RedisExec(w) /\ Waiting(job[w]) => job[w].q # q
    BY <2>1, <2>2
  <2>3. ASSUME NEW w \in Worker, RedisExec(w), Waiting(job[w]), job[w].q = q, t = Append(s, job[w].ack.m)
        PROVE  /\ Distinct(t)
               /\ \A x : Holds(t, x) <=> Holds(s, x) \/ x = job[w].ack.m
    <3>1. PICK m \in Msg : m = job[w].ack.m
      BY <2>3, PushFields DEF Waiting
    <3>2. ~Holds(s, m) /\ Distinct(s) /\ s \in Seq(Msg)
      BY <1>1, <2>1, <2>3, <3>1 DEF Once
    <3>3. t = Append(s, m)
      BY <2>3, <3>1
    <3>4. /\ Distinct(s) /\ ~Holds(s, m) => Distinct(t)
          /\ \A x : Holds(t, x) <=> Holds(s, x) \/ x = m
      BY <3>2, <3>3, AppendMsg, ZenonT(60)
    <3>5. QED
      BY <3>1, <3>2, <3>4
  <2>4. ASSUME NEW w \in Worker, RedisExec(w), Waiting(job[w]), NEW v \in Worker, RedisExec(v), Waiting(job[v])
        PROVE  v = w
    <3>1. SUFFICES ASSUME v # w PROVE FALSE
      OBVIOUS
    <3>2. PICK j, k : j = job[w] /\ k = job'[w]
      OBVIOUS
    <3>3. k = j
      BY <2>4, <3>1, <3>2, ExecShape
    <3>4. IsPush(j) /\ j.pc = "pipe" /\ Waiting(j)
      BY <2>4, <3>2 DEF Waiting
    <3>5. PushExec(j, k)
      BY <2>4, <3>2, <3>4, ExecShape, PubIsPub, PushIsPush
    <3>6. QED
      BY <3>3, <3>4, <3>5, WaitOver
  <2>5. QED
    BY <1>1, <2>2, <2>3, <2>4, ListStep
<1>2. ASSUME NEW w \in Worker, Waiting(job'[w])
      PROVE  ~Holds(ListIn(redis', job'[w].q), job'[w].ack.m)
  <2>1. PICK j, k : j = job[w] /\ k = job'[w]
    OBVIOUS
  <2>2. PICK q \in Queue : q = k.q
    BY <1>2, <2>1, PushFields DEF Waiting
  <2>3. PICK s, t : s = ListIn(redis, q) /\ t = ListIn(redis', q)
    OBVIOUS
  <2>4. IsPush(k) /\ k.ack.m \in Msg
    BY <1>2, <2>1, PushFields DEF Waiting
  <2>5. ASSUME RedisExec(w) PROVE ~Waiting(j)
    <3>1. SUFFICES ASSUME Waiting(j) PROVE FALSE
      OBVIOUS
    <3>2. IsPush(j) /\ j.pc = "pipe"
      BY <3>1 DEF Waiting
    <3>3. PushExec(j, k)
      BY <2>1, <2>5, <3>2, ExecShape, PubIsPub, PushIsPush
    <3>4. QED
      BY <1>2, <2>1, <3>2, <3>3, WaitOver
  <2>6. CASE Waiting(j) /\ k.q = j.q /\ k.ack = j.ack
    <3>1. ~Holds(s, k.ack.m)
      BY <2>1, <2>2, <2>3, <2>6 DEF Once
    <3>2. ASSUME NEW v \in Worker, RedisExec(v), Waiting(job[v]) PROVE k.ack.m # job[v].ack.m
      <4>1. v # w
        BY <2>1, <2>5, <2>6, <3>2
      <4>2. IsPush(job[v]) /\ IsPush(job[w])
        BY <2>1, <2>6, <3>2 DEF Waiting
      <4>3. QED
        BY <2>1, <2>6, <4>1, <4>2 DEF Numbered
    <3>3. ~Holds(t, k.ack.m)
      BY <1>1, <2>3, <3>1, <3>2
    <3>4. QED
      BY <2>1, <2>2, <2>3, <3>3
  <2>7. ASSUME NEW c \in Client, NEW r \in Queue, PushMsg(w, c, r), k.ack.m = NewMsg(c)
        PROVE  ~Holds(t, k.ack.m)
    <3>1. k.ack.m.n = sent + 1 /\ redis' = redis
      BY <2>7 DEF NewMsg, PushMsg
    <3>2. t = s
      BY <2>3, <3>1 DEF ListIn
    <3>3. s \in Seq(Msg)
      BY <2>3, ListStep
    <3>4. QueueKey(q) \in Keys /\ sent \in Nat
      BY DEF Keys, Shape
    <3>5. Bounded(s, sent)
      BY <2>3, <3>4 DEF Numbered, ListIn
    <3>6. QED
      BY <2>4, <3>1, <3>2, <3>3, <3>4, <3>5, BoundedMore
  <2>8. QED
    BY <1>2, <2>1, <2>2, <2>3, <2>4, <2>6, <2>7, PushJobs
<1>3. ASSUME NEW w \in Worker, IsPush(job'[w]), job'[w].ack.peer, ~Waiting(job'[w])
      PROVE  Holds(ListIn(redis', job'[w].q), job'[w].ack.m)
  <2>1. PICK j, k : j = job[w] /\ k = job'[w]
    OBVIOUS
  <2>2. PICK q \in Queue : q = k.q
    BY <1>3, <2>1, PushFields
  <2>3. PICK s, t : s = ListIn(redis, q) /\ t = ListIn(redis', q)
    OBVIOUS
  <2>4. /\ IsPush(j) /\ k.q = j.q /\ k.ack = j.ack
        /\ ~Waiting(j) \/ RedisExec(w)
    BY <1>3, <2>1, PushJobs
  <2>5. CASE ~Waiting(j)
    <3>1. Holds(s, k.ack.m)
      BY <1>3, <2>1, <2>2, <2>3, <2>4, <2>5 DEF Once
    <3>2. Holds(t, k.ack.m)
      BY <1>1, <2>3, <3>1
    <3>3. QED
      BY <2>1, <2>2, <2>3, <3>2
  <2>6. CASE Waiting(j) /\ RedisExec(w)
    <3>1. Holds(t, k.ack.m)
      BY <1>1, <2>1, <2>2, <2>3, <2>4, <2>6
    <3>2. QED
      BY <2>1, <2>2, <2>3, <3>1
  <2>7. QED
    BY <2>4, <2>5, <2>6
<1>4. ASSUME NEW a \in acked', a.peer
      PROVE  Holds(ListIn(redis', a.q), a.m)
  <2>1. acked \subseteq AckRec
    BY DEF Shape
  <2>2. \A x \in AckRec : x.q \in Queue
    BY DEF AckRec
  <2>3. Holds(ListIn(redis, a.q), a.m) /\ a.q \in Queue
    <3>1. CASE a \in acked
      BY <1>4, <2>1, <2>2, <3>1 DEF Once
    <3>2. ASSUME NEW w \in Worker, IsPush(job[w]), ~Waiting(job[w]), a = job[w].ack
          PROVE  Holds(ListIn(redis, a.q), a.m) /\ a.q \in Queue
      <4>1. a.q = job[w].q /\ a.q \in Queue
        BY <3>2, PushFields
      <4>2. QED
        BY <1>4, <3>2, <4>1 DEF Once
    <3>3. QED
      BY <1>4, <3>1, <3>2, AckStep
  <2>4. PICK q \in Queue : q = a.q
    BY <2>3
  <2>5. PICK s, t : s = ListIn(redis, q) /\ t = ListIn(redis', q)
    OBVIOUS
  <2>6. Holds(t, a.m)
    BY <1>1, <2>3, <2>4, <2>5
  <2>7. QED
    BY <2>4, <2>5, <2>6
<1>5. \A q \in Queue : Distinct(ListIn(redis', q))
  BY <1>1
<1>6. QED
  BY <1>2, <1>3, <1>4, <1>5 DEF Once

LEMMA EmptyLists == Init => \A k \in Keys : DOMAIN ThroughOf(redis, k) = {}
<1>1. ASSUME Init, NEW k \in Keys PROVE ThroughOf(redis, k) = <<>> \o <<>>
  BY <1>1 DEF Init, EmptyDb, ThroughOf
<1>2. DOMAIN (<<>> \o <<>>) = {}
  OBVIOUS
<1>3. QED
  BY <1>1, <1>2

LEMMA NumberedInit == Init => Numbered
<1> SUFFICES ASSUME Init PROVE Numbered
  OBVIOUS
<1>1. \A w \in Worker : ~IsPush(job[w])
  BY IdleFields DEF Init
<1>2. QED
  BY <1>1, EmptyLists DEF Numbered, Bounded

\* A message that a list without repetitions holds is counted once.
LEMMA CountOnce ==
  ASSUME NEW s, Distinct(s), NEW m, Holds(s, m)
  PROVE  Count(s, m) = 1
<1>1. PICK i \in DOMAIN s : s[i] = m
  BY DEF Holds
<1>2. {x \in DOMAIN s : s[x] = m} = {i}
  BY <1>1 DEF Distinct
<1>3. Cardinality({i}) = 1
  BY FS_Singleton
<1>4. QED
  BY <1>2, <1>3 DEF Count

\* However many workers push and pop at once, whatever crashes come and
\* however often clients retry: a PEER2PEER message that was answered with
\* SUCCESS is in its queue's list, or was fetched from it, exactly once.
THEOREM PeerOnce == Spec => []PeerMessageOnce
<1>1. Init => Numbered /\ Once
  <2> SUFFICES ASSUME Init PROVE Numbered /\ Once
    OBVIOUS
  <2>1. \A q \in Queue : QueueKey(q) \in Keys
    BY DEF Keys
  <2>2. \A w \in Worker : ~IsPush(job[w]) /\ ~Waiting(job[w])
    BY IdleFields DEF Init, Waiting
  <2>3. acked = {}
    BY DEF Init
  <2>4. Once
    BY <2>1, <2>2, <2>3, EmptyLists DEF Once, Distinct, ListIn
  <2>5. QED
    BY <2>4, NumberedInit
<1>2. Shape /\ Once => PeerMessageOnce
  <2> SUFFICES ASSUME Shape, Once PROVE PeerMessageOnce
    OBVIOUS
  <2>1. \A k : Through(k) = ThroughOf(redis, k)
    BY DEF Through, ThroughOf
  <2>2. ASSUME NEW a \in acked, a.peer PROVE Count(Through(QueueKey(a.q)), a.m) = 1
    <3>1. a.q \in Queue
      BY DEF Shape, AckRec
    <3>2. Distinct(ListIn(redis, a.q)) /\ Holds(ListIn(redis, a.q), a.m)
      BY <2>2, <3>1 DEF Once
    <3>3. QED
      BY <2>1, <3>2, CountOnce DEF ListIn
  <2>3. ASSUME NEW q \in Queue, NEW i \in DOMAIN Through(QueueKey(q))
        PROVE  Count(Through(QueueKey(q)), Through(QueueKey(q))[i]) = 1
    <3>1. PICK s : s = Through(QueueKey(q))
      OBVIOUS
    <3>2. Distinct(s) /\ Holds(s, s[i])
      BY <2>1, <2>3, <3>1 DEF Once, ListIn, Holds
    <3>3. QED
      BY <3>1, <3>2, CountOnce
  <2>4. QED
    BY <2>2, <2>3 DEF PeerMessageOnce
<1>3. Shape /\ Numbered /\ Once /\ [Next]_vars => Numbered' /\ Once'
  BY NumberedStep, OnceStep
<1>4. QED
  BY <1>1, <1>2, <1>3, Shapely, PTL DEF Spec
----------------------------------------------------------------------------
(* The order of a publisher's messages *)

Ordered(s) == \A i, j \in DOMAIN s : i < j /\ s[i].from = s[j].from => s[i].n <= s[j].n
\* Message m may come next in s.
Fits(s, m) == \A i \in DOMAIN s : s[i].from = m.from => s[i].n <= m.n

\* Every client has one request under way.
OneEach == \A v, w \in Worker : v # w /\ job[v] # Idle /\ job[w] # Idle => job[v].c # job[w].c

InOrder ==
  \A k \in Keys :
    /\ Ordered(ThroughOf(redis, k))
    /\ \A w \in Worker : IsPush(job[w]) => Fits(ThroughOf(redis, k), job[w].ack.m)

LEMMA AppendOrder ==
  ASSUME NEW s \in Seq(Msg), NEW m \in Msg, NEW t, t = Append(s, m)
  PROVE  /\ Ordered(s) /\ Fits(s, m) => Ordered(t)
         /\ \A x \in Msg : Fits(s, x) /\ x.from # m.from => Fits(t, x)
         /\ Fits(s, m) => Fits(t, m)
<1>1. PICK l \in Nat : /\ l = Len(s) /\ DOMAIN t = 1..(l + 1) /\ DOMAIN s = 1..l
                       /\ t[l + 1] = m /\ \A i \in 1..l : t[i] = s[i]
  BY AppendDomain
<1>2. \A i \in 1..(l + 1) : i = l + 1 \/ i \in 1..l
  BY <1>1
<1>3. m.n \in Nat
  BY DEF Msg
<1>4. ASSUME Ordered(s), Fits(s, m) PROVE Ordered(t)
  BY <1>1, <1>2, <1>4 DEF Ordered, Fits
<1>5. ASSUME NEW x \in Msg, Fits(s, x), x.from # m.from PROVE Fits(t, x)
  BY <1>1, <1>2, <1>5 DEF Fits
<1>6. ASSUME Fits(s, m) PROVE Fits(t, m)
  BY <1>1, <1>2, <1>3, <1>6 DEF Fits
<1>7. QED
  BY <1>4, <1>5, <1>6

\* Whose request a worker has.
LEMMA Clients ==
  ASSUME Shape, [Next]_vars, NEW w \in Worker, NEW j, j = job[w], NEW k, k = job'[w], k # Idle
  PROVE  \/ j # Idle /\ k.c = j.c
         \/ Free(w, k.c) /\ \A v \in Worker : v # w => job'[v] = job[v]
<1>1. JobOK(j)
  BY DEF Shape
<1>2. ASSUME NEW v \in Worker, v # w, Open(v) \/ Message(v) PROVE k = j
  <2>1. CASE Open(v)
    BY <1>2, <2>1, CreateShape, SubscribeShape, SubSteps, OpenShape DEF Open
  <2>2. CASE Message(v)
    BY <1>2, <2>2, PushShape, PopShape, ExecShape, ReplyShape, GiveUpShape DEF Message
  <2>3. QED
    BY <1>2, <2>1, <2>2
<1>3. ASSUME NEW c \in Client, NEW q \in Queue, NEW t \in MsgType,
             CreatePublisher(w, c, q, t) \/ CreateSubscriber(w, c, q, t)
      PROVE  Free(w, k.c) /\ \A v \in Worker : v # w => job'[v] = job[v]
  <2>1. k.c = c /\ \A v \in Worker : v # w => job'[v] = job[v]
    BY <1>3, CreateShape, SubscribeShape
  <2>2. Free(w, c)
    BY <1>3 DEF CreatePublisher, CreateSubscriber
  <2>3. QED
    BY <2>1, <2>2
<1>4. CASE CheckType(w) \/ CheckSubscriber(w) \/ AddSubscriber(w) \/ CacheSubscriber(w)
  <2>1. IsSub(j) /\ k.c = j.c
    BY <1>4, SubSteps
  <2>2. QED
    BY <2>1, IdleFields
<1>5. ASSUME OpenQueue(w) \/ Reply(w) \/ GiveUp(w) PROVE FALSE
  BY <1>5, OpenShape, ReplyShape, GiveUpShape
<1>6. ASSUME NEW c \in Client, NEW q \in Queue, PushMsg(w, c, q)
      PROVE  \/ k = j
             \/ Free(w, k.c) /\ \A v \in Worker : v # w => job'[v] = job[v]
  <2>1. PICK m, e : m = NewMsg(c) /\ e = cache[q]
    OBVIOUS
  <2>2. (job' = job \/ k.c = c) /\ \A v \in Worker : v # w => job'[v] = job[v]
    BY <1>6, <2>1, PushShape
  <2>3. Free(w, c)
    BY <1>6 DEF PushMsg
  <2>4. QED
    BY <2>2, <2>3
<1>7. ASSUME NEW c \in Client, NEW q \in Queue, PopMsg(w, c, q)
      PROVE  Free(w, k.c) /\ \A v \in Worker : v # w => job'[v] = job[v]
  <2>1. k.c = c /\ \A v \in Worker : v # w => job'[v] = job[v]
    BY <1>7, PopShape
  <2>2. Free(w, c)
    BY <1>7 DEF PopMsg
  <2>3. QED
    BY <2>1, <2>2
<1>8. CASE RedisExec(w)
  <2>1. /\ j.pc = "pipe"
        /\ \/ IsPub(j) /\ PubExec(j, k)
           \/ IsPush(j) /\ PushExec(j, k)
           \/ IsPop(j) /\ PopExec(j, k)
    BY <1>8, ExecShape
  <2>2. j # Idle
    BY <2>1, IdleFields
  <2>3. k.c = j.c
    BY <2>1 DEF PubExec, PushExec, PopExec
  <2>4. QED
    BY <2>2, <2>3
<1>9. CASE Crash
  <2>1. PICK lost \in SUBSET Worker : k = Orphan(w, w \in lost)
    BY <1>9 DEF Crash
  <2>2. j.pc = "pipe" /\ k.c = j.c
    BY <1>1, <2>1, OrphanJob
  <2>3. QED
    BY <2>2, IdleFields
<1>10. CASE LoadQueues \/ \E c \in Client, q \in Queue : CloseQueue(c, q)
  BY <1>10 DEF LoadQueues, LoadMeta, LoadNames, LoadQueue, LoadClients, LoadFails, GiveUpLoad, SwapCache, CloseQueue
<1>11. CASE UNCHANGED vars
  BY <1>11 DEF vars
<1>12. Open(w) \/ Message(w) => \/ j # Idle /\ k.c = j.c
                                \/ Free(w, k.c) /\ \A v \in Worker : v # w => job'[v] = job[v]
  BY <1>3, <1>4, <1>5, <1>6, <1>7, <1>8 DEF Open, Message
<1>13. QED
  BY <1>2, <1>9, <1>10, <1>11, <1>12 DEF Next

LEMMA OneEachStep ==
  ASSUME ~Retry, Shape, OneEach, [Next]_vars
  PROVE  OneEach'
<1>1. SUFFICES ASSUME NEW v \in Worker, NEW w \in Worker, v # w, job'[v] # Idle, job'[w] # Idle
               PROVE  job'[v].c # job'[w].c
  BY DEF OneEach
<1>2. ASSUME NEW x \in Worker, NEW y \in Worker, x # y, job'[x] # Idle, job'[y] # Idle,
             Free(x, job'[x].c), \A u \in Worker : u # x => job'[u] = job[u]
      PROVE  job'[x].c # job'[y].c
  BY <1>2 DEF Free
<1>3. CASE job[v] # Idle /\ job'[v].c = job[v].c /\ job[w] # Idle /\ job'[w].c = job[w].c
  BY <1>1, <1>3 DEF OneEach
<1>4. QED
  BY <1>1, <1>2, <1>3, Clients

LEMMA OrderStep ==
  ASSUME Shape, Numbered, OneEach, InOrder, [Next]_vars
  PROVE  InOrder'
<1> PICK db, d : db = redis /\ d = redis'
  OBVIOUS
<1>1. db \in DbRec /\ sent \in Nat
  BY DEF Shape
<1>2. SUFFICES ASSUME NEW x \in Keys
               PROVE  /\ Ordered(ThroughOf(d, x))
                      /\ \A w \in Worker : IsPush(job'[w]) => Fits(ThroughOf(d, x), job'[w].ack.m)
  BY DEF InOrder
<1>3. PICK s, t : s = ThroughOf(db, x) /\ t = ThroughOf(d, x)
  OBVIOUS
<1>4. s \in Seq(Msg) /\ Bounded(s, sent) /\ Ordered(s) /\ \A w \in Worker : IsPush(job[w]) => Fits(s, job[w].ack.m)
  BY <1>1, <1>3, ThroughSeq DEF Numbered, InOrder
<1>5. ASSUME NEW w \in Worker, IsPush(job'[w]) PROVE Fits(s, job'[w].ack.m)
  <2>1. PICK j, k : j = job[w] /\ k = job'[w]
    OBVIOUS
  <2>2. \/ k = j
        \/ \E c \in Client, q \in Queue : PushMsg(w, c, q) /\ k.ack.m = NewMsg(c)
        \/ IsPush(j) /\ k.ack = j.ack
    BY <1>5, <2>1, PushJobs
  <2>3. ASSUME NEW c \in Client, NEW q \in Queue, k.ack.m = NewMsg(c) PROVE Fits(s, k.ack.m)
    <3>1. k.ack.m.n = sent + 1
      BY <2>3 DEF NewMsg
    <3>2. \A i \in DOMAIN s : s[i].n <= sent /\ s[i].n \in Nat
      <4>1. \A i \in DOMAIN s : s[i] \in Msg
        BY <1>4
      <4>2. \A m \in Msg : m.n \in Nat
        BY DEF Msg
      <4>3. QED
        BY <1>4, <4>1, <4>2 DEF Bounded
    <3>3. QED
      BY <1>1, <3>1, <3>2 DEF Fits
  <2>4. QED
    BY <1>4, <1>5, <2>1, <2>2, <2>3
<1>6. CASE t = s
  BY <1>3, <1>4, <1>5, <1>6
<1>7. ASSUME NEW v \in Worker, RedisExec(v), IsPush(job[v]), t = Append(s, job[v].ack.m)
      PROVE  Ordered(t) /\ \A w \in Worker : IsPush(job'[w]) => Fits(t, job'[w].ack.m)
  <2>1. PICK m \in Msg : m = job[v].ack.m
    BY <1>7, PushFields
  <2>2. t = Append(s, m) /\ Fits(s, m)
    BY <1>4, <1>7, <2>1
  <2>3. /\ Ordered(t) /\ Fits(t, m)
        /\ \A y \in Msg : Fits(s, y) /\ y.from # m.from => Fits(t, y)
    BY <1>4, <2>2, AppendOrder
  <2>4. ASSUME NEW w \in Worker, IsPush(job'[w]) PROVE Fits(t, job'[w].ack.m)
    <3>1. CASE w = v
      <4>1. PICK j, k : j = job[w] /\ k = job'[w]
        OBVIOUS
      <4>2. \/ k = j
            \/ \E c \in Client, q \in Queue : PushMsg(w, c, q)
            \/ k.ack = j.ack
        BY <2>4, <4>1, PushJobs
      <4>3. ASSUME NEW c \in Client, NEW q \in Queue, PushMsg(w, c, q) PROVE FALSE
        BY <1>7, <3>1, <4>3, IdleFields DEF PushMsg, Free
      <4>4. QED
        BY <2>1, <2>3, <3>1, <4>1, <4>2, <4>3
    <3>2. CASE w # v
      <4>1. job'[w] = job[w]
        BY <1>7, <3>2, ExecShape
      <4>2. job[w] # Idle /\ job[v] # Idle /\ job[w].ack.m \in Msg /\ job[w].ack.m.from = job[w].c
            /\ m.from = job[v].c
        BY <1>7, <2>1, <2>4, <4>1, IdleFields, PushFields
      <4>3. job[w].ack.m.from # m.from
        BY <3>2, <4>2 DEF OneEach
      <4>4. QED
        BY <1>4, <2>3, <2>4, <4>1, <4>2, <4>3
    <3>3. QED
      BY <3>1, <3>2
  <2>5. QED
    BY <2>3, <2>4
<1>8. t = s \/ \E v \in Worker : RedisExec(v) /\ IsPush(job[v]) /\ t = Append(s, job[v].ack.m)
  BY <1>3, ThroughStep DEF SameThrough, Pushed, Pushes
<1>9. QED
  BY <1>3, <1>6, <1>7, <1>8

\* Messages of one publisher go through every list in the order it sent
\* them, with any number of workers, if it waits for each answer: a worker
\* that still has a message of the publisher on its way has the latest one.
THEOREM KeepsOrder == ~Retry => (Spec => []PublisherOrder)
<1> SUFFICES ASSUME ~Retry PROVE Spec => []PublisherOrder
  OBVIOUS
<1>1. Init => Numbered /\ OneEach /\ InOrder
  <2> SUFFICES ASSUME Init PROVE Numbered /\ OneEach /\ InOrder
    OBVIOUS
  <2>1. Numbered
    BY NumberedInit
  <2>2. \A w \in Worker : job[w] = Idle /\ ~IsPush(job[w])
    BY IdleFields DEF Init
  <2>3. OneEach
    BY <2>2 DEF OneEach
  <2>4. InOrder
    BY <2>2, EmptyLists DEF InOrder, Ordered
  <2>5. QED
    BY <2>1, <2>3, <2>4
<1>2. Shape /\ Numbered /\ OneEach /\ InOrder /\ [Next]_vars => (Numbered /\ OneEach /\ InOrder)'
  BY NumberedStep, OneEachStep, OrderStep
<1>3. InOrder => PublisherOrder
  BY DEF InOrder, PublisherOrder, Ordered, Through, ThroughOf
<1>4. QED
  BY <1>1, <1>2, <1>3, Shapely, PTL DEF Spec
----------------------------------------------------------------------------
(* Only a crash loses a message that was fetched *)

\* Job j will answer its client with what LPOP returned.
Live(j) == IsPop(j) /\ j.then = "popped"
InHand(j, x) == Live(j) /\ x \in ToSet(j.got)
\* The LPOP of job j is still to come.
Popping(j) == IsPop(j) /\ j.pc = "pipe" /\ \E x \in Keys : Head(j.cmds) = LPOP(x)
Orphaned(j) == Popping(j) /\ j.then = "idle"

GivenOut(dl, x) == \E e \in dl : <<e.k, e.m>> = <<x.k, x.m>>
GoneIn(db, dl, jb) ==
  {x \in Fetched : Holds(db.taken[x.k], x.m) /\ ~GivenOut(dl, x) /\ \A w \in Worker : ~InHand(jb[w], x)}
OrphansIn(jb) == {w \in Worker : Orphaned(jb[w])}
HoldersIn(jb) == {w \in Worker : Live(jb[w]) /\ jb[w].got # <<>>}
PoppersIn(jb) == {w \in Worker : Live(jb[w]) /\ Popping(jb[w])}

\* Every crash costs a worker at most one message: the one it holds, or the
\* one the LPOP it leaves behind is going to take; a request that is given up
\* costs the one its worker holds.
Lost ==
  LET gone == GoneIn(redis, handed, job)
      orphans == OrphansIn(job)
  IN  IsFiniteSet(gone) /\ Cardinality(gone) + Cardinality(orphans) <= crashes * Cardinality(Worker) + fails

LEMMA VanishedIsGone ==
  ASSUME Shape
  PROVE  Vanished = GoneIn(redis, handed, job)
<1>1. redis \in DbRec
  BY DEF Shape
<1>2. ASSUME NEW k \in Keys, NEW m
      PROVE  (m \in ToSet(redis.taken[k]) <=> Holds(redis.taken[k], m)) /\ (Holds(redis.taken[k], m) => m \in Msg)
  <2>1. redis.taken[k] \in Seq(Msg)
    BY <1>1, ThroughSeq
  <2>2. QED
    BY <2>1 DEF ToSet, Holds
<1>3. ASSUME NEW w \in Worker
      PROVE  (job[w] # Idle /\ job[w].pc \in {"pipe", "popped"} /\ job[w].then = "popped") <=> Live(job[w])
  <2>1. PICK j : j = job[w]
    OBVIOUS
  <2>2. JobOK(j)
    BY <2>1 DEF Shape
  <2>3. Live(j) => j # Idle /\ j.pc \in {"pipe", "popped"} /\ j.then = "popped"
    BY IdleFields, PopFields DEF Live
  <2>4. j # Idle /\ j.pc \in {"pipe", "popped"} /\ j.then = "popped" => Live(j)
    BY <2>2, SubFields, PubFields, PushFields DEF JobOK, Live
  <2>5. QED
    BY <2>1, <2>3, <2>4
<1>4. PICK S : S = UNION {ToSet(redis.taken[k]) : k \in Keys}
  OBVIOUS
<1>5. ASSUME NEW x
      PROVE  (x \in [k : Keys, m : S] /\ x.m \in ToSet(redis.taken[x.k])) <=> (x \in Fetched /\ Holds(redis.taken[x.k], x.m))
  <2>1. ASSUME x \in [k : Keys, m : S], x.m \in ToSet(redis.taken[x.k])
        PROVE  x \in Fetched /\ Holds(redis.taken[x.k], x.m)
    <3>1. x.k \in Keys /\ x = [k |-> x.k, m |-> x.m]
      BY <2>1
    <3>2. Holds(redis.taken[x.k], x.m) /\ x.m \in Msg
      BY <1>2, <2>1, <3>1
    <3>3. QED
      BY <3>1, <3>2 DEF Fetched
  <2>2. ASSUME x \in Fetched, Holds(redis.taken[x.k], x.m)
        PROVE  x \in [k : Keys, m : S] /\ x.m \in ToSet(redis.taken[x.k])
    <3>1. x.k \in Keys /\ x = [k |-> x.k, m |-> x.m]
      BY <2>2 DEF Fetched
    <3>2. x.m \in ToSet(redis.taken[x.k])
      BY <1>2, <2>2, <3>1
    <3>3. x.m \in S
      BY <1>4, <3>1, <3>2
    <3>4. QED
      BY <3>1, <3>2, <3>3
  <2>3. QED
    BY <2>1, <2>2
<1>6. Vanished = {x \in [k : Keys, m : S] :
                    /\ x.m \in ToSet(redis.taken[x.k])
                    /\ ~GivenOut(handed, x)
                    /\ \A w \in Worker : ~InHand(job[w], x)}
  BY <1>3, <1>4 DEF Vanished, GivenOut, InHand
<1>7. QED
  BY <1>5, <1>6 DEF GoneIn

\* Where the job of a worker that is fetching comes from.
LEMMA PopJobs ==
  ASSUME Shape, [Next]_vars, ~Crash, NEW w \in Worker, NEW j, j = job[w], NEW k, k = job'[w], IsPop(k)
  PROVE  \/ k = j
         \/ k.then = "popped"
         \/ RedisExec(w) /\ IsPop(j) /\ ~Popping(k) /\ k.then = j.then
<1>2. k # Idle
  BY IdleFields
<1>3. ASSUME NEW v \in Worker, Open(v) PROVE k = j
  <2>1. CASE v = w
    <3>1. k = Idle \/ IsSub(k) \/ IsPub(k)
      BY <1>3, <2>1, CreateShape, SubscribeShape, SubSteps, OpenShape DEF Open
    <3>2. ~IsSub(k)
      BY SubFields, PopFields
    <3>3. QED
      BY <1>2, <3>1, <3>2, PubIsPub
  <2>2. CASE v # w
    BY <1>3, <2>2, CreateShape, SubscribeShape, SubSteps, OpenShape DEF Open
  <2>3. QED
    BY <2>1, <2>2
<1>4. ASSUME NEW v \in Worker, v # w, Message(v) PROVE k = j
  BY <1>4, PushShape, PopShape, ExecShape, ReplyShape, GiveUpShape DEF Message
<1>5. ASSUME NEW c \in Client, NEW q \in Queue, PushMsg(w, c, q) PROVE k = j
  <2>1. PICK m, e : m = NewMsg(c) /\ e = cache[q]
    OBVIOUS
  <2>2. job' = job \/ IsPush(k)
    BY <1>5, <2>1, PushShape
  <2>3. QED
    BY <2>2, PushIsPush
<1>6. ASSUME NEW c \in Client, NEW q \in Queue, PopMsg(w, c, q) PROVE k.then = "popped"
  BY <1>6, PopShape
<1>7. ASSUME Reply(w) \/ GiveUp(w) PROVE FALSE
  BY <1>2, <1>7, ReplyShape, GiveUpShape
<1>8. ASSUME RedisExec(w) PROVE IsPop(j) /\ ~Popping(k) /\ k.then = j.then
  <2>1. /\ j.pc = "pipe"
        /\ \/ IsPub(j) /\ PubExec(j, k)
           \/ IsPush(j) /\ PushExec(j, k)
           \/ IsPop(j) /\ PopExec(j, k)
    BY <1>8, ExecShape
  <2>2. ~PubExec(j, k)
    BY <1>2, PubIsPub DEF PubExec
  <2>3. ~PushExec(j, k)
    BY <1>2, PushIsPush DEF PushExec
  <2>4. IsPop(j) /\ PopExec(j, k) /\ k.then = j.then
    BY <1>2, <2>1, <2>2, <2>3 DEF PopExec
  <2>5. ~Popping(k)
    <3>1. CASE k.pc = "popped"
      BY <3>1 DEF Popping
    <3>2. ASSUME NEW v \in LastVisit(j), k.cmds = <<v>> PROVE ~Popping(k)
      <4>1. Head(k.cmds) = v
        BY <3>2
      <4>2. \A x \in Keys : v # LPOP(x)
        BY CmdKinds DEF LastVisit
      <4>3. QED
        BY <4>1, <4>2 DEF Popping
    <3>3. QED
      BY <1>2, <2>4, <3>1, <3>2 DEF PopExec
  <2>6. QED
    BY <2>4, <2>5
<1>10. CASE LoadQueues \/ \E c \in Client, q \in Queue : CloseQueue(c, q)
  BY <1>10 DEF LoadQueues, LoadMeta, LoadNames, LoadQueue, LoadClients, LoadFails, GiveUpLoad, SwapCache, CloseQueue
<1>11. CASE UNCHANGED vars
  BY <1>11 DEF vars
<1>12. Message(w) => \/ k = j
                     \/ k.then = "popped"
                     \/ RedisExec(w) /\ IsPop(j) /\ ~Popping(k) /\ k.then = j.then
  BY <1>5, <1>6, <1>7, <1>8 DEF Message
<1>13. QED
  BY <1>3, <1>4, <1>10, <1>11, <1>12 DEF Next

LEMMA OrphanStep ==
  ASSUME Shape, [Next]_vars, ~Crash, NEW w \in Worker, Orphaned(job'[w])
  PROVE  Orphaned(job[w]) /\ job'[w] = job[w]
<1>1. PICK j, k : j = job[w] /\ k = job'[w]
  OBVIOUS
<1>2. IsPop(k) /\ Popping(k) /\ k.then = "idle"
  BY <1>1 DEF Orphaned, Popping
<1>3. k = j
  BY <1>1, <1>2, PopJobs
<1>4. QED
  BY <1>1, <1>3

\* A message that LPOP returned stays with the worker until it goes out, or the
\* request is given up.
LEMMA HandStep ==
  ASSUME Shape, [Next]_vars, ~Crash, NEW w \in Worker, NEW x \in Fetched, InHand(job[w], x)
  PROVE  InHand(job'[w], x) \/ GivenOut(handed', x) \/ GiveUp(w)
<1>1. PICK j, k : j = job[w] /\ k = job'[w]
  OBVIOUS
<1>2. IsPop(j) /\ j.then = "popped" /\ x \in ToSet(j.got) /\ j.pc \in {"pipe", "popped"} /\ j # Idle
  BY <1>1, PopFields, IdleFields DEF InHand, Live
<1>3. CASE k = j
  BY <1>1, <1>3
<1>4. CASE RedisExec(w)
  <2>1. PopExec(j, k)
    BY <1>1, <1>2, <1>4, ExecShape, PubIsPub, PushIsPush
  <2>2. j.got # <<>>
    BY <1>2 DEF ToSet
  <2>3. IsPop(k) /\ k.then = j.then /\ k.got = j.got
    BY <1>2, <2>1, <2>2 DEF PopExec
  <2>4. QED
    BY <1>1, <1>2, <2>3 DEF InHand, Live
<1>5. CASE Reply(w)
  <2>1. handed' = handed \cup {[k |-> g.k, m |-> g.m, c |-> j.c] : g \in ToSet(j.got)}
    BY <1>1, <1>2, <1>5, ReplyShape
  <2>2. PICK e : e = [k |-> x.k, m |-> x.m, c |-> j.c]
    OBVIOUS
  <2>3. e \in handed' /\ e.k = x.k /\ e.m = x.m
    BY <1>2, <2>1, <2>2
  <2>4. QED
    BY <2>3 DEF GivenOut
<1>6. ASSUME NEW v \in Worker, Open(v) \/ Message(v), v # w PROVE k = j
  <2>1. CASE Open(v)
    BY <1>1, <1>6, <2>1, CreateShape, SubscribeShape, SubSteps, OpenShape DEF Open
  <2>2. CASE Message(v)
    BY <1>1, <1>6, <2>2, PushShape, PopShape, ExecShape, ReplyShape, GiveUpShape DEF Message
  <2>3. QED
    BY <1>6, <2>1, <2>2
<1>7. ASSUME Open(w) PROVE FALSE
  BY <1>1, <1>2, <1>7 DEF Open, CreatePublisher, CreateSubscriber, CheckType, CheckSubscriber,
                          AddSubscriber, CacheSubscriber, OpenQueue, Free
<1>8. ASSUME Message(w) PROVE RedisExec(w) \/ Reply(w) \/ GiveUp(w)
  BY <1>1, <1>2, <1>8 DEF Message, PushMsg, PopMsg, Free
<1>9. CASE LoadQueues \/ \E c \in Client, q \in Queue : CloseQueue(c, q)
  BY <1>1, <1>3, <1>9 DEF LoadQueues, LoadMeta, LoadNames, LoadQueue, LoadClients, LoadFails, GiveUpLoad, SwapCache, CloseQueue
<1>10. CASE UNCHANGED vars
  BY <1>1, <1>3, <1>10 DEF vars
<1>11. QED
  BY <1>3, <1>4, <1>5, <1>6, <1>7, <1>8, <1>9, <1>10 DEF Next

SameTaken(db, d) == d.taken = db.taken
LEMMA KeepTaken ==
  ASSUME NEW db \in DbRec
  PROVE  /\ \A q \in Queue : SameTaken(db, Exec(db, SADD(q)))
         /\ \A q \in Queue, t \in MsgType : SameTaken(db, Exec(db, HMSETMeta(q, t)))
         /\ \A q \in Queue, c \in Client : SameTaken(db, Exec(db, HSETSub(q, c)))
         /\ \A k \in Keys, m \in Msg : SameTaken(db, Exec(db, RPUSH(k, m)))
<1>1. ASSUME NEW q \in Queue PROVE SameTaken(db, Exec(db, SADD(q)))
  BY ExecSADD DEF SameTaken
<1>2. ASSUME NEW q \in Queue, NEW t \in MsgType PROVE SameTaken(db, Exec(db, HMSETMeta(q, t)))
  <2>1. Exec(db, HMSETMeta(q, t)) = [db EXCEPT !.meta[q] = t]
    BY DEF Exec, HMSETMeta
  <2>2. QED
    BY <2>1 DEF DbRec, SameTaken
<1>3. ASSUME NEW q \in Queue, NEW c \in Client PROVE SameTaken(db, Exec(db, HSETSub(q, c)))
  <2>1. Exec(db, HSETSub(q, c)) = [db EXCEPT !.submeta[q] = @ \cup {c}]
    BY DEF Exec, HSETSub
  <2>2. QED
    BY <2>1 DEF DbRec, SameTaken
<1>4. ASSUME NEW k \in Keys, NEW m \in Msg PROVE SameTaken(db, Exec(db, RPUSH(k, m)))
  <2>1. Exec(db, RPUSH(k, m)) = [db EXCEPT !.lists[k] = Append(@, m)]
    BY DEF Exec, RPUSH
  <2>2. QED
    BY <2>1 DEF DbRec, SameTaken
<1>5. QED
  BY <1>1, <1>2, <1>3, <1>4

\* An LPOP takes one message, and the worker that sent it gets it.
LEMMA TakenByPop ==
  ASSUME NEW db \in DbRec, NEW k \in Keys, NEW d, d = Exec(db, LPOP(k)), NEW x \in Fetched,
         Holds(d.taken[x.k], x.m), ~Holds(db.taken[x.k], x.m)
  PROVE  db.lists[k] # <<>> /\ x = [k |-> k, m |-> Head(db.lists[k])]
<1>1. db.taken \in [Keys -> Seq(Msg)] /\ db.lists \in [Keys -> Seq(Msg)]
  BY DEF DbRec
<1>2. d = IF db.lists[k] = <<>> THEN db
          ELSE [db EXCEPT !.lists[k] = Tail(@), !.taken[k] = Append(@, Head(db.lists[k]))]
  BY DEF Exec, LPOP
<1>3. db.lists[k] # <<>>
  BY <1>2
<1>4. d.taken = [db.taken EXCEPT ![k] = Append(@, Head(db.lists[k]))]
  BY <1>2, <1>3 DEF DbRec
<1>5. x.k \in Keys /\ x = [k |-> x.k, m |-> x.m]
  BY DEF Fetched
<1>6. x.k = k
  BY <1>1, <1>4, <1>5
<1>7. PICK s \in Seq(Msg), m \in Msg : s = db.taken[k] /\ m = Head(db.lists[k])
  BY <1>1, <1>3
<1>8. PICK t : t = d.taken[k] /\ t = Append(s, m)
  BY <1>1, <1>4, <1>7
<1>9. \A y : Holds(t, y) <=> Holds(s, y) \/ y = m
  <2>1. t = Append(s, m)
    BY <1>8
  <2>2. QED
    BY <2>1, AppendMsg, ZenonT(60)
<1>10. x.m = m
  BY <1>6, <1>7, <1>8, <1>9
<1>11. QED
  BY <1>3, <1>5, <1>6, <1>7, <1>10

LEMMA TakenStep ==
  ASSUME Shape, [Next]_vars, NEW x \in Fetched, NEW db, db = redis, NEW d, d = redis',
         Holds(d.taken[x.k], x.m), ~Holds(db.taken[x.k], x.m)
  PROVE  \E w \in Worker : /\ RedisExec(w) /\ Popping(job[w]) /\ IsPop(job'[w]) /\ job'[w].then = job[w].then
                           /\ job'[w].got = <<x>> /\ ~Popping(job'[w])
<1>1. db \in DbRec
  BY DEF Shape
<1>2. ~SameTaken(db, d)
  BY DEF SameTaken
<1>3. ASSUME NEW w \in Worker, AddSubscriber(w)
      PROVE  FALSE
  <2>1. IsSub(job[w]) /\ d = Exec(db, HSETSub(job[w].q, job[w].c))
    BY <1>3, SubSteps DEF AddSubscriber
  <2>2. job[w].q \in Queue /\ job[w].c \in Client
    BY <2>1, SubFields
  <2>3. QED
    BY <1>1, <1>2, <2>1, <2>2, KeepTaken
<1>4. d # db
  BY <1>2 DEF SameTaken
<1>5. PICK w \in Worker : RedisExec(w)
  BY <1>3, <1>4, Writers
<1>6. PICK j, k : j = job[w] /\ k = job'[w]
  OBVIOUS
<1>7. /\ j.pc = "pipe"
      /\ \/ IsPub(j) /\ PubExec(j, k)
         \/ IsPush(j) /\ PushExec(j, k)
         \/ IsPop(j) /\ PopExec(j, k)
  BY <1>5, <1>6, ExecShape
<1>8. ~(IsPub(j) /\ PubExec(j, k))
  <2> SUFFICES ASSUME IsPub(j), PubExec(j, k) PROVE FALSE
    OBVIOUS
  <2>1. j.q \in Queue /\ j.t \in MsgType
    BY PubFields
  <2>2. d = Exec(db, SADD(j.q)) \/ d = Exec(db, HMSETMeta(j.q, j.t))
    BY DEF PubExec
  <2>3. QED
    BY <1>1, <1>2, <2>1, <2>2, KeepTaken
<1>9. ~(IsPush(j) /\ PushExec(j, k))
  <2> SUFFICES ASSUME IsPush(j), PushExec(j, k) PROVE FALSE
    OBVIOUS
  <2>1. j.q \in Queue /\ j.ack.m \in Msg
    BY PushFields
  <2>2. QueueKey(j.q) \in Keys /\ \A c \in Client : SubKey(j.q, c) \in Keys
    BY <2>1 DEF Keys
  <2>3. \/ \E y \in Keys : d = Exec(db, RPUSH(y, j.ack.m))
        \/ \E c \in Client : d = Exec(db, HSETSub(j.q, c))
    BY <1>4, <2>2 DEF PushExec
  <2>4. QED
    BY <1>1, <1>2, <2>1, <2>3, KeepTaken
<1>10. IsPop(j) /\ PopExec(j, k)
  BY <1>7, <1>8, <1>9
<1>11. j.q \in Queue /\ j.c \in Client
  BY <1>10, PopFields
<1>12. d # Exec(db, HSETSub(j.q, j.c))
  BY <1>1, <1>2, <1>11, KeepTaken
<1>13. PICK y \in Keys : /\ Head(j.cmds) = LPOP(y) /\ d = Exec(db, LPOP(y))
                         /\ \/ db.lists[y] = <<>> /\ k.got = <<>>
                            \/ db.lists[y] # <<>> /\ k.got = <<[k |-> y, m |-> Head(db.lists[y])]>>
                         /\ IsPop(k) /\ k.then = j.then
                         /\ \E v \in LastVisit(j) : k.cmds = <<v>>
  BY <1>4, <1>10, <1>12 DEF PopExec
<1>14. db.lists[y] # <<>> /\ x = [k |-> y, m |-> Head(db.lists[y])]
  BY <1>1, <1>13, TakenByPop
<1>15. Popping(j) /\ k.got = <<x>>
  BY <1>7, <1>10, <1>13, <1>14 DEF Popping
<1>16. ~Popping(k)
  <2>1. PICK v \in LastVisit(j) : k.cmds = <<v>>
    BY <1>13
  <2>2. Head(k.cmds) = v
    BY <2>1
  <2>3. \A z \in Keys : v # LPOP(z)
    BY <2>1, CmdKinds DEF LastVisit
  <2>4. QED
    BY <2>2, <2>3 DEF Popping
<1>17. QED
  BY <1>5, <1>6, <1>13, <1>15, <1>16

\* A step that is no fault loses nothing, unless Redis runs the LPOP of a
\* worker that is gone.
LEMMA GoneStep ==
  ASSUME Shape, [Next]_vars, ~Crash, \A w \in Worker : ~GiveUp(w),
         NEW G, G = GoneIn(redis, handed, job), NEW H, H = GoneIn(redis', handed', job'),
         NEW P, P = OrphansIn(job), NEW Q, Q = OrphansIn(job')
  PROVE  \/ H \subseteq G /\ Q \subseteq P
         \/ \E x, w : H \subseteq G \cup {x} /\ w \in P /\ Q \subseteq P \ {w}
<1>1. Q \subseteq P
  BY OrphanStep DEF OrphansIn
<1>2. handed \subseteq handed'
  <2>1. ASSUME NEW w \in Worker, Message(w) PROVE handed \subseteq handed'
    BY <2>1 DEF Message, PushMsg, PopMsg, RedisExec, Reply, GiveUp, hist
  <2>2. ASSUME NEW w \in Worker, Open(w) PROVE handed' = handed
    BY <2>2 DEF Open, CreatePublisher, CreateSubscriber, CheckType, CheckSubscriber, AddSubscriber, CacheSubscriber,
                OpenQueue, hist
  <2>3. CASE LoadQueues \/ \E c \in Client, q \in Queue : CloseQueue(c, q)
    BY <2>3 DEF LoadQueues, LoadMeta, LoadNames, LoadQueue, LoadClients, LoadFails, GiveUpLoad, SwapCache, CloseQueue, hist
  <2>4. CASE UNCHANGED vars
    BY <2>4 DEF vars
  <2>5. QED
    BY <2>1, <2>2, <2>3, <2>4 DEF Next
<1>3. ASSUME NEW x \in H, x \notin G
      PROVE  /\ x \in Fetched /\ ~Holds(redis.taken[x.k], x.m) /\ Holds(redis'.taken[x.k], x.m)
             /\ \A w \in Worker : ~InHand(job'[w], x)
  <2>1. x \in Fetched /\ Holds(redis'.taken[x.k], x.m) /\ ~GivenOut(handed', x) /\ \A w \in Worker : ~InHand(job'[w], x)
    BY <1>3 DEF GoneIn
  <2>2. ~GivenOut(handed, x)
    BY <1>2, <2>1 DEF GivenOut
  <2>3. \A w \in Worker : ~InHand(job[w], x)
    BY <2>1, HandStep
  <2>4. QED
    BY <1>3, <2>1, <2>2, <2>3 DEF GoneIn
<1>4. ASSUME NEW x \in H, x \notin G
      PROVE  \E w \in Worker : RedisExec(w) /\ w \in P /\ w \notin Q /\ job'[w].got = <<x>>
  <2>1. PICK w \in Worker : /\ RedisExec(w) /\ Popping(job[w]) /\ IsPop(job'[w]) /\ job'[w].then = job[w].then
                            /\ job'[w].got = <<x>> /\ ~Popping(job'[w])
    BY <1>3, <1>4, TakenStep
  <2>2. x \in ToSet(job'[w].got)
    BY <2>1 DEF ToSet
  <2>3. job[w].then = "idle"
    BY <1>3, <1>4, <2>1, <2>2, PopFields DEF InHand, Live
  <2>4. QED
    BY <2>1, <2>3 DEF OrphansIn, Orphaned
<1>5. CASE H \subseteq G
  BY <1>1, <1>5
<1>6. ASSUME NEW x \in H, x \notin G
      PROVE  \E y, w : H \subseteq G \cup {y} /\ w \in P /\ Q \subseteq P \ {w}
  <2>1. PICK w \in Worker : RedisExec(w) /\ w \in P /\ w \notin Q /\ job'[w].got = <<x>>
    BY <1>4, <1>6
  <2>2. ASSUME NEW y \in H, y \notin G PROVE y = x
    <3>1. PICK v \in Worker : RedisExec(v) /\ v \in P /\ v \notin Q /\ job'[v].got = <<y>>
      BY <1>4, <2>2
    <3>2. v = w
      <4>1. SUFFICES ASSUME v # w PROVE FALSE
        OBVIOUS
      <4>2. job'[v] = job[v]
        BY <2>1, <4>1, ExecShape
      <4>3. QED
        BY <3>1, <4>2 DEF OrphansIn
    <3>3. QED
      BY <2>1, <3>1, <3>2
  <2>3. H \subseteq G \cup {x} /\ Q \subseteq P \ {w}
    BY <1>1, <2>1, <2>2
  <2>4. QED
    BY <2>1, <2>3
<1>7. QED
  BY <1>5, <1>6

\* A request that is given up loses what its LPOP returned.
LEMMA GiveUpGone ==
  ASSUME Shape, [Next]_vars, ~Crash, NEW w \in Worker, GiveUp(w),
         NEW G, G = GoneIn(redis, handed, job), NEW H, H = GoneIn(redis', handed', job'),
         NEW P, P = OrphansIn(job), NEW Q, Q = OrphansIn(job')
  PROVE  Q \subseteq P /\ \E x : H \subseteq G \cup {x}
<1>1. Q \subseteq P
  BY OrphanStep DEF OrphansIn
<1>2. PICK j : j = job[w]
  OBVIOUS
<1>3. redis' = redis /\ handed' = handed /\ \A v \in Worker : v # w => job'[v] = job[v]
  BY GiveUpShape DEF GiveUp
<1>4. ASSUME NEW x \in H \ G PROVE x = j.got[1]
  <2>1. PICK v \in Worker : InHand(job[v], x) /\ ~InHand(job'[v], x)
    BY <1>3, <1>4 DEF GoneIn
  <2>2. InHand(j, x)
    BY <1>2, <1>3, <2>1
  <2>3. x \in ToSet(j.got) /\ j.got \in Seq(Fetched) /\ Len(j.got) <= 1
    BY <2>2, PopFields DEF InHand, Live
  <2>4. PICK i \in DOMAIN j.got : x = j.got[i]
    BY <2>3 DEF ToSet
  <2>5. i = 1
    BY <2>3, <2>4
  <2>6. QED
    BY <2>4, <2>5
<1>5. H \subseteq G \cup {j.got[1]}
  BY <1>4
<1>6. QED
  BY <1>1, <1>5

\* At a crash every worker leaves behind the message it holds, or the LPOP
\* it has sent, not both.
LEMMA CrashGone ==
  ASSUME Shape, Crash,
         NEW G, G = GoneIn(redis, handed, job), NEW H, H = GoneIn(redis', handed', job'),
         NEW P, P = OrphansIn(job), NEW Q, Q = OrphansIn(job'),
         NEW L, L = HoldersIn(job), NEW M, M = PoppersIn(job)
  PROVE  /\ L \cap M = {}
         /\ Q \subseteq P \cup M
         /\ \A x \in H \ G : \E w \in L : x = job[w].got[1]
<1>1. L \cap M = {}
  <2>1. SUFFICES ASSUME NEW w \in Worker, Live(job[w]), job[w].got # <<>>, Popping(job[w]) PROVE FALSE
    BY DEF HoldersIn, PoppersIn
  <2>2. PICK j : j = job[w]
    OBVIOUS
  <2>3. IsPop(j) /\ j.pc = "pipe" /\ PopLeft(j) /\ j.got # <<>>
    BY <2>1, <2>2 DEF Popping, IsPop
  <2>4. PICK x \in Keys : Head(j.cmds) = LPOP(x)
    BY <2>1, <2>2 DEF Popping
  <2>5. PICK v \in LastVisit(j) : j.cmds = <<v>>
    BY <2>3 DEF PopLeft
  <2>6. Head(j.cmds) = v
    BY <2>5
  <2>7. v # LPOP(x)
    BY <2>5, CmdKinds DEF LastVisit
  <2>8. QED
    BY <2>4, <2>6, <2>7
<1>2. PICK lost \in SUBSET Worker : job' = [w \in Worker |-> Orphan(w, w \in lost)]
  BY DEF Crash
<1>3. ASSUME NEW w \in Q PROVE w \in P \cup M
  <2>1. PICK j, k : j = job[w] /\ k = job'[w]
    OBVIOUS
  <2>2. w \in Worker /\ Popping(k) /\ JobOK(j) /\ k = Orphan(w, w \in lost)
    BY <1>2, <1>3, <2>1 DEF OrphansIn, Orphaned, Shape
  <2>3. IsPop(k) /\ k # Idle
    BY <2>2, IdleFields DEF Popping
  <2>4. j.pc = "pipe" /\ k.cmds = j.cmds /\ IsPop(j)
    BY <2>1, <2>2, <2>3, OrphanJob, PubIsPub, PushIsPush
  <2>5. Popping(j) /\ j.then \in {"popped", "idle"}
    BY <2>2, <2>4, PopFields DEF Popping
  <2>6. QED
    BY <2>1, <2>2, <2>5 DEF OrphansIn, Orphaned, Live, Popping, PoppersIn
<1>4. ASSUME NEW x \in H \ G PROVE \E w \in L : x = job[w].got[1]
  <2>1. redis' = redis /\ handed' = handed
    BY DEF Crash
  <2>2. PICK w \in Worker : InHand(job[w], x)
    BY <1>4, <2>1 DEF GoneIn
  <2>3. PICK j : j = job[w]
    OBVIOUS
  <2>4. Live(j) /\ x \in ToSet(j.got) /\ j.got \in Seq(Fetched) /\ Len(j.got) <= 1
    BY <2>2, <2>3, PopFields DEF InHand, Live
  <2>5. PICK i \in DOMAIN j.got : x = j.got[i]
    BY <2>4 DEF ToSet
  <2>6. i = 1 /\ j.got # <<>>
    BY <2>4, <2>5
  <2>7. QED
    BY <2>2, <2>3, <2>4, <2>5, <2>6 DEF HoldersIn
<1>5. QED
  BY <1>1, <1>3, <1>4

\* What is the value of a function on a finite set is no larger than the set.
LEMMA ImageSize ==
  ASSUME NEW S, IsFiniteSet(S), NEW T, NEW f, \A y \in T : \E x \in S : y = f[x]
  PROVE  IsFiniteSet(T) /\ Cardinality(T) <= Cardinality(S)
<1>1. PICK U : U = {f[x] : x \in S}
  OBVIOUS
<1>2. [x \in S |-> f[x]] \in Surjection(S, U)
  BY <1>1 DEF Surjection
<1>3. IsFiniteSet(U) /\ Cardinality(U) <= Cardinality(S)
  BY <1>2, FS_Surjection
<1>4. T \in SUBSET U
  BY <1>1
<1>5. IsFiniteSet(T) /\ Cardinality(T) <= Cardinality(U)
  BY <1>3, <1>4, FS_Subset
<1>6. Cardinality(T) \in Nat /\ Cardinality(U) \in Nat /\ Cardinality(S) \in Nat
  BY <1>3, <1>5, FS_CardinalityType
<1>7. QED
  BY <1>3, <1>5, <1>6

LEMMA UnionSize ==
  ASSUME NEW S, IsFiniteSet(S), NEW T, IsFiniteSet(T), NEW U, U \subseteq S \cup T
  PROVE  IsFiniteSet(U) /\ Cardinality(U) <= Cardinality(S) + Cardinality(T)
<1>1. IsFiniteSet(S \cup T) /\ Cardinality(S \cup T) = Cardinality(S) + Cardinality(T) - Cardinality(S \cap T)
  BY FS_Union
<1>2. U \in SUBSET (S \cup T) /\ S \cap T \in SUBSET S
  OBVIOUS
<1>3. IsFiniteSet(U) /\ Cardinality(U) <= Cardinality(S \cup T) /\ IsFiniteSet(S \cap T)
  BY <1>1, <1>2, FS_Subset
<1>4. /\ Cardinality(S) \in Nat /\ Cardinality(T) \in Nat /\ Cardinality(U) \in Nat /\ Cardinality(S \cap T) \in Nat
      /\ Cardinality(S \cup T) \in Nat
  BY <1>1, <1>3, FS_CardinalityType
<1>5. QED
  BY <1>1, <1>3, <1>4

LEMMA LostStep ==
  ASSUME Shape, Lost, [Next]_vars
  PROVE  Lost'
<1> PICK G, H, P, Q : /\ G = GoneIn(redis, handed, job) /\ H = GoneIn(redis', handed', job')
                      /\ P = OrphansIn(job) /\ Q = OrphansIn(job')
  OBVIOUS
<1>1. IsFiniteSet(Worker) /\ P \in SUBSET Worker /\ Q \in SUBSET Worker /\ crashes \in Nat /\ fails \in Nat
  BY FiniteAssumption DEF OrphansIn, Shape
<1>2. IsFiniteSet(P) /\ IsFiniteSet(Q)
  BY <1>1, FS_Subset
<1>3. IsFiniteSet(G) /\ Cardinality(G) + Cardinality(P) <= crashes * Cardinality(Worker) + fails
  BY DEF Lost
<1>4. SUFFICES IsFiniteSet(H) /\ Cardinality(H) + Cardinality(Q) <= crashes' * Cardinality(Worker) + fails'
  BY DEF Lost
<1>5. PICK N \in Nat : N = Cardinality(Worker)
  BY <1>1, FS_CardinalityType
<1>6. Cardinality(G) \in Nat /\ Cardinality(P) \in Nat /\ Cardinality(Q) \in Nat
  BY <1>2, <1>3, FS_CardinalityType
<1>7. PICK b \in Nat : b = crashes * N + fails /\ b + N = (crashes + 1) * N + fails
  BY <1>1, <1>5
<1>8. CASE Crash
  <2>1. PICK L, M : L = HoldersIn(job) /\ M = PoppersIn(job)
    OBVIOUS
  <2>2. /\ L \cap M = {} /\ Q \subseteq P \cup M
        /\ \A x \in H \ G : \E w \in L : x = job[w].got[1]
    BY <1>8, <2>1, CrashGone
  <2>3. L \in SUBSET Worker /\ M \in SUBSET Worker /\ (L \cup M) \in SUBSET Worker
    BY <2>1 DEF HoldersIn, PoppersIn
  <2>4. IsFiniteSet(L) /\ IsFiniteSet(M) /\ IsFiniteSet(L \cup M) /\ Cardinality(L \cup M) <= N
    BY <1>1, <1>5, <2>3, FS_Subset
  <2>5. Cardinality(L \cup M) = Cardinality(L) + Cardinality(M) - Cardinality(L \cap M) /\ Cardinality(L \cap M) = 0
    BY <2>2, <2>4, FS_Union, FS_EmptySet
  <2>6. PICK f : f = [w \in Worker |-> job[w].got[1]]
    OBVIOUS
  <2>7. \A x \in H \ G : \E w \in L : x = f[w]
    BY <2>2, <2>3, <2>6
  <2>8. IsFiniteSet(H \ G) /\ Cardinality(H \ G) <= Cardinality(L)
    BY <2>4, <2>7, ImageSize
  <2>9. H \subseteq G \cup (H \ G)
    OBVIOUS
  <2>10. IsFiniteSet(H) /\ Cardinality(H) <= Cardinality(G) + Cardinality(H \ G)
    BY <1>3, <2>8, <2>9, UnionSize
  <2>11. Cardinality(Q) <= Cardinality(P) + Cardinality(M)
    BY <1>2, <2>2, <2>4, UnionSize
  <2>12. /\ Cardinality(L) \in Nat /\ Cardinality(M) \in Nat /\ Cardinality(H \ G) \in Nat /\ Cardinality(H) \in Nat
         /\ Cardinality(L \cup M) \in Nat
    BY <2>4, <2>8, <2>10, FS_CardinalityType
  <2>13. crashes' = crashes + 1 /\ fails' = fails
    BY <1>8 DEF Crash
  <2>14. Cardinality(H) + Cardinality(Q) <= b + N
    BY <1>3, <1>5, <1>6, <1>7, <2>4, <2>5, <2>8, <2>10, <2>11, <2>12
  <2>15. QED
    BY <1>5, <1>7, <2>10, <2>13, <2>14
<1>9. ASSUME NEW w \in Worker, GiveUp(w), ~Crash
      PROVE  IsFiniteSet(H) /\ Cardinality(H) + Cardinality(Q) <= crashes' * Cardinality(Worker) + fails'
  <2>1. PICK x : Q \subseteq P /\ H \subseteq G \cup {x}
    BY <1>9, GiveUpGone
  <2>2. IsFiniteSet({x}) /\ Cardinality({x}) = 1
    BY FS_Singleton
  <2>3. IsFiniteSet(H) /\ Cardinality(H) <= Cardinality(G) + 1
    BY <1>3, <2>1, <2>2, UnionSize
  <2>4. Q \in SUBSET P
    BY <2>1
  <2>5. Cardinality(Q) <= Cardinality(P)
    BY <1>2, <2>4, FS_Subset
  <2>6. Cardinality(H) \in Nat
    BY <2>3, FS_CardinalityType
  <2>7. crashes' = crashes /\ fails' = fails + 1
    BY <1>9 DEF GiveUp
  <2>8. Cardinality(H) + Cardinality(Q) <= b + 1
    BY <1>3, <1>5, <1>6, <1>7, <2>3, <2>5, <2>6
  <2>9. QED
    BY <1>1, <1>5, <1>7, <2>3, <2>7, <2>8
<1>10. CASE ~Crash /\ \A w \in Worker : ~GiveUp(w)
  <2>1. crashes' = crashes /\ fails' = fails
    <3>1. ASSUME NEW w \in Worker, Message(w) PROVE crashes' = crashes /\ fails' = fails
      BY <1>10, <3>1 DEF Message, PushMsg, PopMsg, RedisExec, Reply, hist
    <3>2. ASSUME NEW w \in Worker, Open(w) PROVE crashes' = crashes /\ fails' = fails
      BY <3>2 DEF Open, CreatePublisher, CreateSubscriber, CheckType, CheckSubscriber, AddSubscriber, CacheSubscriber,
                  OpenQueue, hist
    <3>3. CASE LoadQueues \/ \E c \in Client, q \in Queue : CloseQueue(c, q)
      BY <3>3 DEF LoadQueues, LoadMeta, LoadNames, LoadQueue, LoadClients, LoadFails, GiveUpLoad, SwapCache, CloseQueue, hist
    <3>4. CASE UNCHANGED vars
      BY <3>4 DEF vars
    <3>5. QED
      BY <1>10, <3>1, <3>2, <3>3, <3>4 DEF Next
  <2>2. CASE H \subseteq G /\ Q \subseteq P
    <3>1. H \in SUBSET G /\ Q \in SUBSET P
      BY <2>2
    <3>2. IsFiniteSet(H) /\ Cardinality(H) <= Cardinality(G) /\ Cardinality(Q) <= Cardinality(P)
      BY <1>2, <1>3, <3>1, FS_Subset
    <3>3. Cardinality(H) \in Nat
      BY <3>2, FS_CardinalityType
    <3>4. QED
      BY <1>3, <1>5, <1>6, <1>7, <2>1, <3>2, <3>3
  <2>3. ASSUME NEW x, NEW w, H \subseteq G \cup {x}, w \in P, Q \subseteq P \ {w}
        PROVE  IsFiniteSet(H) /\ Cardinality(H) + Cardinality(Q) <= crashes' * Cardinality(Worker) + fails'
    <3>1. IsFiniteSet({x}) /\ Cardinality({x}) = 1
      BY FS_Singleton
    <3>2. IsFiniteSet(H) /\ Cardinality(H) <= Cardinality(G) + 1
      BY <1>3, <2>3, <3>1, UnionSize
    <3>3. IsFiniteSet(P \ {w}) /\ Cardinality(P \ {w}) = Cardinality(P) - 1
      BY <1>2, <2>3, FS_RemoveElement
    <3>4. Q \in SUBSET (P \ {w})
      BY <2>3
    <3>5. Cardinality(Q) <= Cardinality(P \ {w})
      BY <3>3, <3>4, FS_Subset
    <3>6. Cardinality(H) \in Nat
      BY <3>2, FS_CardinalityType
    <3>7. QED
      BY <1>3, <1>5, <1>6, <1>7, <2>1, <3>2, <3>3, <3>5, <3>6
  <2>4. QED
    BY <1>10, <2>2, <2>3, GoneStep
<1>11. QED
  BY <1>8, <1>9, <1>10

\* A message that LPOP removed and that was put into no answer was lost by a
\* fault: a crash loses one message for every worker at most, a GetMsgRequest
\* that is given up one, and nothing else any, whatever sessions end and
\* whatever else runs at the same time.
THEOREM FaultLosses == Spec => []LossesAccounted
<1>1. Init => Lost
  <2> SUFFICES ASSUME Init PROVE Lost
    OBVIOUS
  <2>1. GoneIn(redis, handed, job) = {}
    <3>1. ASSUME NEW x \in Fetched PROVE ~Holds(redis.taken[x.k], x.m)
      <4>1. redis.taken[x.k] = <<>>
        BY DEF Init, EmptyDb, Fetched
      <4>2. QED
        BY <4>1 DEF Holds
    <3>2. QED
      BY <3>1 DEF GoneIn
  <2>2. OrphansIn(job) = {}
    BY IdleFields DEF Init, OrphansIn, Orphaned, Popping
  <2>3. IsFiniteSet({}) /\ Cardinality({}) = 0
    BY FS_EmptySet
  <2>4. Cardinality(Worker) \in Nat /\ crashes = 0 /\ fails = 0
    BY FiniteAssumption, FS_CardinalityType DEF Init
  <2>5. QED
    BY <2>1, <2>2, <2>3, <2>4 DEF Lost
<1>2. Shape /\ Lost => LossesAccounted
  <2> SUFFICES ASSUME Shape, Lost PROVE LossesAccounted
    OBVIOUS
  <2>1. PICK G, P : G = GoneIn(redis, handed, job) /\ P = OrphansIn(job)
    OBVIOUS
  <2>2. IsFiniteSet(G) /\ Cardinality(G) + Cardinality(P) <= crashes * Cardinality(Worker) + fails /\ Vanished = G
    BY <2>1, VanishedIsGone DEF Lost
  <2>3. P \in SUBSET Worker
    BY <2>1 DEF OrphansIn
  <2>4. IsFiniteSet(P)
    BY <2>3, FiniteAssumption, FS_Subset
  <2>5. PICK b \in Nat : b = crashes * Cardinality(Worker) + fails
    BY FiniteAssumption, FS_CardinalityType DEF Shape
  <2>6. Cardinality(G) \in Nat /\ Cardinality(P) \in Nat
    BY <2>2, <2>4, FS_CardinalityType
  <2>7. Cardinality(G) <= b
    BY <2>2, <2>5, <2>6
  <2>8. QED
    BY <2>2, <2>5, <2>7 DEF LossesAccounted
<1>3. Shape /\ Lost /\ [Next]_vars => Lost'
  BY LostStep
<1>4. QED
  BY <1>1, <1>2, <1>3, Shapely, PTL DEF Spec
----------------------------------------------------------------------------
(* Start-up, and "load meta" while serving *)

Booting == loader # NoLoad /\ loader.boot
\* The new process has not asked for the names yet: Redis may still be
\* running what the dead one sent.
Draining == Booting /\ loader.pc = "smembers"

\* The commands of job j are all that is left of it.
Leftover(j) == j.pc = "pipe" /\ j.then = "idle"

Phase ==
  /\ Booting => cache = EmptyCache
  /\ \A w \in Worker : Booting /\ job[w] # Idle => Leftover(job[w])
  /\ \A w \in Worker : job[w] # Idle /\ Leftover(job[w]) => Draining
  /\ loader # NoLoad /\ loader.pc = "smembers" => loader.tmp = EmptyCache
  /\ ~raced /\ loader # NoLoad /\ ~Booting => \A w \in Worker : ~Opening(job[w])

\* How the job of a worker changes.
LEMMA JobMoves ==
  ASSUME Shape, [Next]_vars, ~Crash, NEW w \in Worker, NEW j, j = job[w], NEW k, k = job'[w]
  PROVE  \/ k = j
         \/ k = Idle
         \/ /\ j = Idle /\ Serving /\ (k.pc = "pipe" => k.then # "idle")
            /\ Opening(k) => raced' = (raced \/ loader # NoLoad)
         \/ IsSub(j) /\ IsSub(k)
         \/ RedisExec(w) /\ j.pc = "pipe" /\ k.then = j.then /\ (k.pc = "pipe" \/ k.pc = j.then)
<1>1. ASSUME NEW v \in Worker, v # w, Open(v) \/ Message(v) PROVE k = j
  <2>1. CASE Open(v)
    BY <1>1, <2>1, CreateShape, SubscribeShape, SubSteps, OpenShape DEF Open
  <2>2. CASE Message(v)
    BY <1>1, <2>2, PushShape, PopShape, ExecShape, ReplyShape, GiveUpShape DEF Message
  <2>3. QED
    BY <1>1, <2>1, <2>2
<1>2. ASSUME NEW c \in Client, NEW q \in Queue, NEW t \in MsgType, CreatePublisher(w, c, q, t) \/ CreateSubscriber(w, c, q, t)
      PROVE  j = Idle /\ Serving /\ (k.pc = "pipe" => k.then # "idle") /\ raced' = (raced \/ loader # NoLoad)
  <2>1. k.pc = "pipe" => k.then # "idle"
    BY <1>2, CreateShape, SubscribeShape
  <2>2. QED
    BY <1>2, <2>1 DEF CreatePublisher, CreateSubscriber, Free, OpenBegins
<1>3. ASSUME CheckType(w) \/ CheckSubscriber(w) \/ AddSubscriber(w) \/ CacheSubscriber(w)
      PROVE  k = Idle \/ (IsSub(j) /\ IsSub(k))
  BY <1>3, SubSteps
<1>4. ASSUME OpenQueue(w) \/ Reply(w) \/ GiveUp(w) PROVE k = Idle
  BY <1>4, OpenShape, ReplyShape, GiveUpShape
<1>5. ASSUME NEW c \in Client, NEW q \in Queue, PushMsg(w, c, q)
      PROVE  k = j \/ (j = Idle /\ Serving /\ k.pc = "pipe" /\ k.then = "pushed")
  <2>1. PICK m, e : m = NewMsg(c) /\ e = cache[q]
    OBVIOUS
  <2>2. job' = job \/ (k.pc = "pipe" /\ k.then = "pushed")
    BY <1>5, <2>1, PushShape
  <2>3. QED
    BY <1>5, <2>2 DEF PushMsg, Free
<1>6. ASSUME NEW c \in Client, NEW q \in Queue, PopMsg(w, c, q)
      PROVE  j = Idle /\ Serving /\ k.pc = "pipe" /\ k.then = "popped"
  BY <1>6, PopShape DEF PopMsg, Free
<1>7. ASSUME RedisExec(w)
      PROVE  k = Idle \/ (j.pc = "pipe" /\ k.then = j.then /\ (k.pc = "pipe" \/ k.pc = j.then))
  <2>1. /\ j.pc = "pipe"
        /\ \/ IsPub(j) /\ PubExec(j, k)
           \/ IsPush(j) /\ PushExec(j, k)
           \/ IsPop(j) /\ PopExec(j, k)
    BY <1>7, ExecShape
  <2>2. QED
    BY <2>1 DEF PubExec, PushExec, PopExec
<1>8. CASE LoadQueues \/ \E c \in Client, q \in Queue : CloseQueue(c, q)
  BY <1>8 DEF LoadQueues, LoadMeta, LoadNames, LoadQueue, LoadClients, LoadFails, GiveUpLoad, SwapCache, CloseQueue
<1>9. CASE UNCHANGED vars
  BY <1>9 DEF vars
<1>10. CASE Open(w)
  BY <1>2, <1>3, <1>4, <1>10 DEF Open
<1>11. CASE Message(w)
  <2>1. \A x : x.pc = "pipe" /\ x.then \in {"pushed", "popped"} => ~Opening(x) /\ x.then # "idle"
    BY DEF Opening
  <2>2. QED
    BY <1>4, <1>5, <1>6, <1>7, <1>11, <2>1 DEF Message
<1>12. QED
  BY <1>1, <1>8, <1>9, <1>10, <1>11 DEF Next

\* What the workers and the sessions leave to the main thread.
LEMMA LoaderStill ==
  ASSUME [Next]_vars, ~Crash, ~LoadQueues
  PROVE  /\ loader' = loader
         /\ raced => raced'
         /\ \/ cache' = cache
            \/ \E w \in Worker : CacheSubscriber(w)
            \/ \E w \in Worker : OpenQueue(w)
<1>1. ASSUME NEW w \in Worker, Open(w)
      PROVE  /\ loader' = loader /\ (raced => raced')
             /\ cache' = cache \/ CacheSubscriber(w) \/ OpenQueue(w)
  <2>1. ASSUME NEW c \in Client, NEW q \in Queue, NEW t \in MsgType,
               CreatePublisher(w, c, q, t) \/ CreateSubscriber(w, c, q, t)
        PROVE  loader' = loader /\ (raced => raced') /\ cache' = cache
    BY <2>1 DEF CreatePublisher, CreateSubscriber, mem, OpenBegins
  <2>2. CASE CheckType(w) \/ CheckSubscriber(w) \/ AddSubscriber(w)
    BY <2>2 DEF CheckType, CheckSubscriber, AddSubscriber, hist, load, mem
  <2>3. ASSUME CacheSubscriber(w) \/ OpenQueue(w) PROVE loader' = loader /\ raced' = raced
    BY <2>3 DEF CacheSubscriber, OpenQueue, hist, load
  <2>4. QED
    BY <1>1, <2>1, <2>2, <2>3 DEF Open
<1>2. ASSUME NEW w \in Worker, Message(w) PROVE loader' = loader /\ raced' = raced /\ cache' = cache
  BY <1>2 DEF Message, PushMsg, PopMsg, RedisExec, Reply, GiveUp, hist, load, mem
<1>3. CASE \E c \in Client, q \in Queue : CloseQueue(c, q)
  BY <1>3 DEF CloseQueue, hist, load
<1>4. CASE UNCHANGED vars
  BY <1>4 DEF vars
<1>5. QED
  BY <1>1, <1>2, <1>3, <1>4 DEF Next

LEMMA SubIsOpening ==
  ASSUME NEW j, IsSub(j)
  PROVE  Opening(j) /\ j # Idle /\ ~Leftover(j)
  BY SubFields, IdleFields DEF Opening, Leftover

LEMMA PhaseCrash ==
  ASSUME Shape, Crash
  PROVE  Phase' /\ Draining'
<1>1. PICK b \in BOOLEAN : b /\ StartLoad(b)
  BY DEF Crash
<1>2. PICK n : n = loader'
  OBVIOUS
<1>3. n.pc = "smembers" /\ n.boot = b /\ n # NoLoad /\ n.tmp = EmptyCache
  BY <1>1, <1>2, StartShape
<1>4. Draining' /\ Booting'
  BY <1>1, <1>2, <1>3 DEF Draining, Booting
<1>5. ASSUME NEW w \in Worker, job'[w] # Idle PROVE Leftover(job'[w])
  <2>1. PICK lost \in SUBSET Worker : job' = [v \in Worker |-> Orphan(v, v \in lost)]
    BY DEF Crash
  <2>2. job'[w] = Orphan(w, w \in lost) /\ JobOK(job[w])
    BY <2>1 DEF Shape
  <2>3. QED
    BY <1>5, <2>2, OrphanJob DEF Leftover
<1>6. cache' = EmptyCache
  BY DEF Crash
<1>7. QED
  BY <1>2, <1>3, <1>4, <1>5, <1>6 DEF Phase

LEMMA PhaseLoad ==
  ASSUME Shape, Phase, LoadQueues
  PROVE  Phase'
<1>1. job' = job
  BY DEF LoadQueues, LoadMeta, LoadNames, LoadQueue, LoadClients, LoadFails, GiveUpLoad, SwapCache
<1>2. PICK l, n : l = loader /\ n = loader'
  OBVIOUS
<1>3. CASE LoadMeta
  <2>1. PICK b \in BOOLEAN : ~b /\ StartLoad(b)
    BY <1>3 DEF LoadMeta
  <2>2. n.pc = "smembers" /\ n.boot = b /\ n # NoLoad /\ n.tmp = EmptyCache
    BY <1>2, <2>1, StartShape
  <2>3. l = NoLoad /\ raced' = (raced \/ \E w \in Worker : Opening(job[w]))
    BY <1>2, <1>3 DEF LoadMeta
  <2>4. ~Booting /\ ~Booting' /\ ~Draining
    BY <1>2, <2>1, <2>2, <2>3 DEF Booting, Draining
  <2>5. QED
    BY <1>1, <1>2, <2>2, <2>3, <2>4 DEF Phase
<1>4. CASE LoadNames
  <2>1. LoadJob(l) /\ l.pc = "smembers" /\ n.pc = "queue" /\ n.boot = l.boot /\ LoadJob(n)
    BY <1>2, <1>4, NamesShape
  <2>2. l # NoLoad /\ n # NoLoad
    BY <2>1, LoadFields
  <2>3. (Booting' <=> Booting) /\ (Booting => \A w \in Worker : job[w] = Idle) /\ cache' = cache /\ raced' = raced
    BY <1>2, <1>4, <2>1, <2>2 DEF Booting, LoadNames, mem, hist, load
  <2>4. QED
    BY <1>1, <1>2, <2>1, <2>2, <2>3 DEF Phase, Draining
<1>5. ASSUME NEW q \in Queue, LoadQueue(q) PROVE Phase'
  <2>1. /\ LoadJob(l) /\ l.pc = "queue"
        /\ \/ l.boot /\ n.pc = "smembers" /\ n.boot /\ n.tmp = EmptyCache /\ n # NoLoad
           \/ ~l.boot /\ n = NoLoad
           \/ n # NoLoad /\ n.pc \in {"clients", "queue"} /\ n.boot = l.boot
    <3>1. LoadJob(l) /\ l.pc = "queue"
      BY <1>2, <1>5, QueueShape
    <3>2. \/ l.boot /\ n.pc = "smembers" /\ n.boot /\ n.tmp = EmptyCache /\ n # NoLoad
          \/ ~l.boot /\ n = NoLoad
          \/ Loaded(l, n, q)
      BY <1>2, <1>5, QueueShape
    <3>3. QED
      BY <3>1, <3>2 DEF Loaded
  <2>2. l # NoLoad /\ l.boot \in BOOLEAN
    BY <2>1, LoadFields DEF LoadJob
  <2>3. (Booting <=> l.boot) /\ ~Draining /\ (Booting' <=> n # NoLoad /\ n.boot)
    BY <1>2, <2>1, <2>2 DEF Booting, Draining
  <2>4. cache' = cache /\ raced' = raced
    BY <1>5 DEF LoadQueue, mem, hist, load
  <2>5. \A w \in Worker : (job[w] # Idle => ~Leftover(job[w])) /\ (l.boot => job[w] = Idle)
    BY <2>3 DEF Phase
  <2>6. QED
    BY <1>1, <1>2, <2>1, <2>2, <2>3, <2>4, <2>5 DEF Phase
<1>6. CASE LoadClients
  <2>1. LoadJob(l) /\ l.pc = "clients" /\ n.pc = "queue" /\ n.boot = l.boot /\ LoadJob(n)
    BY <1>2, <1>6, ClientsShape
  <2>2. l # NoLoad /\ n # NoLoad
    BY <2>1, LoadFields
  <2>3. (Booting' <=> Booting) /\ cache' = cache /\ raced' = raced /\ ~Draining
    BY <1>2, <1>6, <2>1, <2>2 DEF Booting, Draining, LoadClients, mem, hist, load
  <2>4. QED
    BY <1>1, <1>2, <2>1, <2>2, <2>3 DEF Phase
<1>7. CASE SwapCache
  <2>1. n = NoLoad /\ l.pc = "queue"
    BY <1>2, <1>7 DEF SwapCache
  <2>2. ~Booting' /\ ~Draining
    BY <1>2, <2>1 DEF Booting, Draining
  <2>3. QED
    BY <1>1, <1>2, <2>1, <2>2 DEF Phase
<1>8. CASE LoadFails
  <2>1. l # NoLoad /\ GiveUpLoad /\ cache' = cache /\ raced' = raced
    BY <1>2, <1>8 DEF LoadFails, mem, hist, load
  <2>2. \/ l.boot /\ n.pc = "smembers" /\ n.boot /\ n.tmp = EmptyCache /\ n # NoLoad
        \/ ~l.boot /\ n = NoLoad
    BY <1>2, <2>1, FailShape DEF Shape
  <2>3. CASE l.boot
    <3>1. Booting /\ Booting' /\ Draining'
      BY <1>2, <2>1, <2>2, <2>3 DEF Booting, Draining
    <3>2. QED
      BY <1>1, <1>2, <2>1, <2>2, <2>3, <3>1 DEF Phase
  <2>4. CASE ~l.boot
    <3>1. ~Booting' /\ ~Draining
      BY <1>2, <2>2, <2>4 DEF Booting, Draining
    <3>2. QED
      BY <1>1, <1>2, <2>1, <2>2, <2>4, <3>1 DEF Phase
  <2>5. QED
    BY <2>3, <2>4
<1>9. QED
  BY <1>3, <1>4, <1>5, <1>6, <1>7, <1>8 DEF LoadQueues

LEMMA PhaseStep ==
  ASSUME Shape, Phase, [Next]_vars
  PROVE  Phase'
<1>1. CASE Crash
  BY <1>1, PhaseCrash
<1>2. CASE LoadQueues
  BY <1>2, PhaseLoad
<1>3. CASE ~Crash /\ ~LoadQueues
  <2>1. loader' = loader /\ (raced => raced')
    BY <1>3, LoaderStill
  <2>2. (Booting' <=> Booting) /\ (Draining' <=> Draining)
    BY <2>1 DEF Booting, Draining
  <2>3. Booting => cache' = cache
    <3>1. SUFFICES ASSUME Booting, NEW w \in Worker, CacheSubscriber(w) \/ OpenQueue(w) PROVE FALSE
      BY <1>3, LoaderStill
    <3>2. job[w].pc \in {"pushback", "open"}
      BY <3>1 DEF CacheSubscriber, OpenQueue
    <3>3. job[w] # Idle
      BY <3>2, IdleFields
    <3>4. QED
      BY <3>1, <3>2, <3>3 DEF Phase, Leftover
  <2>4. ASSUME NEW w \in Worker
        PROVE  /\ Booting /\ job'[w] # Idle => Leftover(job'[w])
               /\ job'[w] # Idle /\ Leftover(job'[w]) => Draining
               /\ ~raced' /\ loader # NoLoad /\ ~Booting => ~Opening(job'[w])
    <3>1. PICK j, k : j = job[w] /\ k = job'[w]
      OBVIOUS
    <3>2. /\ Booting /\ j # Idle => Leftover(j)
          /\ j # Idle /\ Leftover(j) => Draining
          /\ ~raced' /\ loader # NoLoad /\ ~Booting => ~Opening(j)
      BY <2>1, <3>1 DEF Phase
    <3>3. CASE k = j
      BY <3>1, <3>2, <3>3
    <3>4. CASE k = Idle
      BY <3>1, <3>4 DEF Opening
    <3>5. CASE /\ j = Idle /\ Serving /\ (k.pc = "pipe" => k.then # "idle")
               /\ Opening(k) => raced' = (raced \/ loader # NoLoad)
      <4>1. ~Booting
        BY <3>5 DEF Serving, Booting
      <4>2. QED
        BY <3>1, <3>5, <4>1 DEF Leftover
    <3>6. CASE IsSub(j) /\ IsSub(k)
      BY <3>1, <3>2, <3>6, SubIsOpening
    <3>7. CASE RedisExec(w) /\ j.pc = "pipe" /\ k.then = j.then /\ (k.pc = "pipe" \/ k.pc = j.then)
      <4>1. j # Idle /\ JobOK(j)
        BY <3>1, <3>7, IdleFields DEF Shape
      <4>2. j.then \in {"open", "pushed", "popped", "idle"}
        BY <3>7, <4>1, Piping, PubFields, PushFields, PopFields
      <4>3. CASE k = Idle
        BY <3>1, <4>3 DEF Opening
      <4>4. CASE k # Idle
        <5>1. JobOK(k)
          BY <3>1, <3>7, ExecDb
        <5>2. k.pc # "idle"
          BY <4>4, <5>1, SubFields, PubFields, PushFields, PopFields DEF JobOK
        <5>3. k.pc = "pipe" \/ j.then # "idle"
          BY <3>7, <5>2
        <5>4. Leftover(j) <=> j.then = "idle"
          BY <3>7 DEF Leftover
        <5>5. Opening(k) => Opening(j)
          BY <3>7, <4>1, <4>2, <5>3, <5>2 DEF Opening
        <5>6. QED
          BY <3>1, <3>2, <3>7, <4>1, <5>3, <5>4, <5>5 DEF Leftover
      <4>5. QED
        BY <4>3, <4>4
    <3>8. QED
      BY <1>3, <3>1, <3>3, <3>4, <3>5, <3>6, <3>7, JobMoves
  <2>5. QED
    BY <2>1, <2>2, <2>3, <2>4 DEF Phase
<1>4. QED
  BY <1>1, <1>2, <1>3

LEMMA Phases == Spec => [](Shape /\ Phase)
<1>1. Init => Phase
  BY IdleFields DEF Init, Phase, Booting, Draining, Leftover
<1>2. Shape /\ Phase /\ [Next]_vars => Phase'
  BY PhaseStep
<1>3. QED
  BY <1>1, <1>2, Shapely, PTL DEF Spec
----------------------------------------------------------------------------
(* With one worker, the cache mirrors Redis *)

\* One worker thread, as the shipped configuration has (App.ThreadCount 1).
Solo == \A v, w \in Worker : v = w

\* What table ca says of a queue, db says too.
MirrorsQueue(db, e, q) ==
  e.type = db.meta[q] /\ ToSet(e.clients) \subseteq db.submeta[q] /\ IsInjective(e.clients)
Mirrors(db, ca) == DOMAIN ca \subseteq db.names /\ \A q \in DOMAIN ca : MirrorsQueue(db, ca[q], q)

\* Job j is creating queue q, which has its name but is not cached yet.
Creating(j, q) == IsPub(j) /\ j.q = q /\ (Behind(j, q) \/ j.pc = "open")

\* What OpenQueue relies on at each of its steps.
PubFits(db, ca, j) ==
  /\ j.pc = "open" => j.q \in db.names /\ (j.q \in DOMAIN ca \/ db.meta[j.q] = j.t)
  /\ j.pc = "pipe" /\ ~Behind(j, j.q) => j.q \notin db.names
  /\ Behind(j, j.q) => j.q \in db.names /\ j.q \notin DOMAIN ca
SubFits(db, ca, j) ==
  /\ j.q \in db.names
  /\ j.pc = "hmset" => j.c \notin db.submeta[j.q]
  /\ j.pc = "pushback" => j.c \in db.submeta[j.q] /\ (j.q \in DOMAIN ca => j.c \notin ToSet(ca[j.q].clients))
OpenFits(db, ca, j) == (IsPub(j) => PubFits(db, ca, j)) /\ (IsSub(j) => SubFits(db, ca, j))

LoadFits(db, l) == Mirrors(db, l.tmp) /\ db.names = DOMAIN l.tmp \cup l.todo

\* Every queue is cached, or about to be.
Covered(db, ca, jb) == \A q \in db.names : q \in DOMAIN ca \/ \E w \in Worker : Creating(jb[w], q)

MirrorInv ==
  /\ Mirrors(redis, cache)
  /\ loader # NoLoad /\ loader.pc # "smembers" => LoadFits(redis, loader)
  /\ \A w \in Worker : OpenFits(redis, cache, job[w])
  /\ ~Booting => Covered(redis, cache, job)

\* The commands that only add subscribers.
OnlyGrows(db, d) == KeepsMeta(db, d) /\ \A q \in Queue : db.submeta[q] \subseteq d.submeta[q]
LEMMA OnlyGrow ==
  ASSUME NEW db \in DbRec
  PROVE  /\ OnlyGrows(db, db)
         /\ \A q \in Queue, c \in Client : OnlyGrows(db, Exec(db, HSETSub(q, c)))
         /\ \A x \in Keys : OnlyGrows(db, Exec(db, LPOP(x))) /\ \A m \in Msg : OnlyGrows(db, Exec(db, RPUSH(x, m)))
<1>1. ASSUME NEW q \in Queue, NEW c \in Client PROVE OnlyGrows(db, Exec(db, HSETSub(q, c)))
  <2>1. Exec(db, HSETSub(q, c)) = [db EXCEPT !.submeta[q] = @ \cup {c}]
    BY DEF Exec, HSETSub
  <2>2. \A x \in Queue : db.submeta[x] \subseteq Exec(db, HSETSub(q, c)).submeta[x]
    BY <2>1 DEF DbRec
  <2>3. QED
    BY <2>2, KeepMeta DEF OnlyGrows
<1>2. ASSUME NEW x \in Keys PROVE OnlyGrows(db, Exec(db, LPOP(x)))
  <2>1. Exec(db, LPOP(x)) =
          IF db.lists[x] = <<>> THEN db
          ELSE [db EXCEPT !.lists[x] = Tail(@), !.taken[x] = Append(@, Head(db.lists[x]))]
    BY DEF Exec, LPOP
  <2>2. Exec(db, LPOP(x)).submeta = db.submeta
    BY <2>1 DEF DbRec
  <2>3. QED
    BY <2>2, KeepMeta DEF OnlyGrows
<1>3. ASSUME NEW x \in Keys, NEW m \in Msg PROVE OnlyGrows(db, Exec(db, RPUSH(x, m)))
  <2>1. Exec(db, RPUSH(x, m)) = [db EXCEPT !.lists[x] = Append(@, m)]
    BY DEF Exec, RPUSH
  <2>2. Exec(db, RPUSH(x, m)).submeta = db.submeta
    BY <2>1 DEF DbRec
  <2>3. QED
    BY <2>2, KeepMeta DEF OnlyGrows
<1>4. OnlyGrows(db, db)
  BY DEF OnlyGrows, KeepsMeta
<1>5. QED
  BY <1>1, <1>2, <1>3, <1>4

\* What a worker's pipeline does to the metadata, by what the worker does.
LEMMA ExecGrows ==
  ASSUME Shape, NEW w \in Worker, RedisExec(w), ~IsPub(job[w]), NEW d, d = redis'
  PROVE  OnlyGrows(redis, d)
<1>1. PICK j, k, db : j = job[w] /\ k = job'[w] /\ db = redis
  OBVIOUS
<1>2. (IsPush(j) /\ PushExec(j, k)) \/ (IsPop(j) /\ PopExec(j, k))
  <2>1. /\ j.pc = "pipe"
        /\ \/ IsPub(j) /\ PubExec(j, k)
           \/ IsPush(j) /\ PushExec(j, k)
           \/ IsPop(j) /\ PopExec(j, k)
    BY <1>1, ExecShape
  <2>2. QED
    BY <1>1, <2>1
<1>3. db \in DbRec
  BY <1>1 DEF Shape
<1>4. CASE IsPush(j) /\ PushExec(j, k)
  <2>1. j.q \in Queue /\ j.ack.m \in Msg
    BY <1>4, PushFields
  <2>2. QueueKey(j.q) \in Keys /\ \A c \in Client : SubKey(j.q, c) \in Keys
    BY <2>1 DEF Keys
  <2>3. \/ \E x \in Keys : d = Exec(db, RPUSH(x, j.ack.m))
        \/ d = db
        \/ \E c \in Client : d = Exec(db, HSETSub(j.q, c))
    BY <1>1, <1>4, <2>2 DEF PushExec
  <2>4. QED
    BY <1>1, <1>3, <2>1, <2>3, OnlyGrow
<1>5. CASE IsPop(j) /\ PopExec(j, k)
  <2>1. j.q \in Queue /\ j.c \in Client
    BY <1>5, PopFields
  <2>2. \/ \E x \in Keys : d = Exec(db, LPOP(x))
        \/ d = db
        \/ d = Exec(db, HSETSub(j.q, j.c))
    BY <1>1, <1>5 DEF PopExec
  <2>3. QED
    BY <1>1, <1>3, <2>1, <2>2, OnlyGrow
<1>6. QED
  BY <1>2, <1>4, <1>5

\* A table stays true when subscribers are added to the database.
LEMMA MirrorsGrow ==
  ASSUME NEW db, NEW d, NEW ca, IsCache(ca), Mirrors(db, ca), OnlyGrows(db, d)
  PROVE  Mirrors(d, ca)
<1>1. \A q \in DOMAIN ca : q \in Queue
  BY DEF IsCache
<1>2. QED
  BY <1>1 DEF Mirrors, MirrorsQueue, OnlyGrows, KeepsMeta

LEMMA NotOpening ==
  ASSUME NEW k, k = Idle \/ IsPush(k) \/ IsPop(k)
  PROVE  ~IsPub(k) /\ ~IsSub(k) /\ (\A q : ~Creating(k, q)) /\ \A db, ca : OpenFits(db, ca, k)
<1>1. ~IsPub(k)
  BY PubIsPub, IdleFields
<1>2. ~IsSub(k)
  <2>1. k.pc \notin {"hgetall", "hexists", "hmset", "pushback", "open"}
    BY IdleFields, PushFields, PopFields
  <2>2. QED
    BY <2>1, SubFields
<1>3. QED
  BY <1>1, <1>2 DEF Creating, OpenFits

LEMMA SubIsSub ==
  ASSUME NEW j, IsSub(j)
  PROVE  ~IsPub(j) /\ ~IsPush(j) /\ ~IsPop(j) /\ \A q : ~Creating(j, q)
<1>1. "cmds" \notin DOMAIN j
  BY DEF IsSub, SubJob
<1>2. (IsPub(j) => "cmds" \in DOMAIN j) /\ (IsPush(j) => "cmds" \in DOMAIN j) /\ (IsPop(j) => "cmds" \in DOMAIN j)
  BY DEF IsPub, PubJob, IsPush, PushJob, IsPop, PopJob
<1>3. QED
  BY <1>1, <1>2 DEF Creating

\* OpenQueue begins: all queues are cached, for nobody else is creating one.
LEMMA MirrorCreate ==
  ASSUME Solo, Shape, MirrorInv, ~raced', NEW w \in Worker, NEW c \in Client, NEW q \in Queue, NEW t \in MsgType,
         CreatePublisher(w, c, q, t) \/ CreateSubscriber(w, c, q, t)
  PROVE  MirrorInv'
<1>1. redis' = redis /\ cache' = cache /\ loader' = loader /\ loader = NoLoad /\ job[w] = Idle
  BY DEF CreatePublisher, CreateSubscriber, OpenBegins, mem, Free
<1>2. \A v \in Worker : v = w
  BY DEF Solo
<1>3. ~Booting
  BY <1>1 DEF Booting
<1>4. \A x \in redis.names : x \in DOMAIN cache
  BY <1>1, <1>2, <1>3, NotOpening DEF MirrorInv, Covered
<1>5. PICK k : k = job'[w]
  OBVIOUS
<1>6. OpenFits(redis, cache, k)
  <2>1. CASE CreatePublisher(w, c, q, t)
    <3>1. /\ IsPub(k) /\ k.q = q /\ k.t = t
          /\ \/ q \in redis.names /\ k.pc = "open"
             \/ q \notin redis.names /\ k.pc = "pipe" /\ k.cmds = <<SADD(q), HMSETMeta(q, t)>>
      BY <1>5, <2>1, CreateShape
    <3>2. ~Behind(k, k.q)
      <4>1. ASSUME NEW x, NEW y, NEW z PROVE <<x>> # <<y, z>>
        OBVIOUS
      <4>2. QED
        BY <3>1, <4>1 DEF Behind
    <3>3. ~IsSub(k)
      BY <3>1, SubIsSub
    <3>4. QED
      BY <1>4, <3>1, <3>2, <3>3 DEF OpenFits, PubFits
  <2>2. CASE CreateSubscriber(w, c, q, t)
    <3>1. IsSub(k) /\ k.q = q /\ k.pc = "hgetall" /\ q \in redis.names
      BY <1>5, <2>2, SubscribeShape DEF CreateSubscriber
    <3>2. ~IsPub(k)
      BY <3>1, SubIsSub
    <3>3. QED
      BY <3>1, <3>2 DEF OpenFits, SubFits
  <2>3. QED
    BY <2>1, <2>2
<1>7. QED
  BY <1>1, <1>2, <1>4, <1>5, <1>6 DEF MirrorInv, Covered

\* The worker is subscribing: then the process serves, no "load meta" is
\* under way and the queue is cached.
LEMMA Subscribing ==
  ASSUME Solo, Phase, MirrorInv, ~raced, NEW w \in Worker, IsSub(job[w])
  PROVE  /\ loader = NoLoad /\ ~Booting
         /\ \A q \in redis.names : q \in DOMAIN cache
         /\ job[w].q \in DOMAIN cache
         /\ SubFits(redis, cache, job[w])
<1>1. Opening(job[w]) /\ job[w] # Idle /\ ~Leftover(job[w])
  BY SubIsOpening
<1>2. ~Booting /\ loader = NoLoad
  BY <1>1 DEF Phase
<1>3. \A v \in Worker, q \in redis.names : ~Creating(job[v], q)
  BY SubIsSub DEF Solo
<1>4. \A q \in redis.names : q \in DOMAIN cache
  BY <1>2, <1>3 DEF MirrorInv, Covered
<1>5. SubFits(redis, cache, job[w])
  BY DEF MirrorInv, OpenFits
<1>6. QED
  BY <1>2, <1>4, <1>5 DEF SubFits

\* OpenQueue as subscriber, up to the lock.
LEMMA MirrorCheck ==
  ASSUME Solo, Shape, Phase, MirrorInv, ~raced, NEW w \in Worker, CheckType(w) \/ CheckSubscriber(w)
  PROVE  MirrorInv'
<1>1. redis' = redis /\ cache' = cache /\ loader' = loader
  BY DEF CheckType, CheckSubscriber, mem
<1>2. PICK j, k : j = job[w] /\ k = job'[w]
  OBVIOUS
<1>3. /\ IsSub(j)
      /\ k = Idle \/ (IsSub(k) /\ k.c = j.c /\ k.q = j.q /\ k.t = j.t)
      /\ k # Idle => \/ k.pc \in {"open", "hexists"}
                     \/ k.pc = "hmset" /\ j.c \notin redis.submeta[j.q]
  <2>1. j.pc \in {"hgetall", "hexists"}
    BY <1>2 DEF CheckType, CheckSubscriber
  <2>2. QED
    BY <1>2, <2>1, SubSteps
<1>4. loader = NoLoad /\ (\A q \in redis.names : q \in DOMAIN cache) /\ SubFits(redis, cache, j)
  BY <1>2, <1>3, Subscribing
<1>5. OpenFits(redis, cache, k)
  <2>1. CASE k = Idle
    BY <2>1, NotOpening
  <2>2. CASE k # Idle
    <3>1. IsSub(k) /\ ~IsPub(k)
      BY <1>3, <2>2, SubIsSub
    <3>2. QED
      BY <1>3, <1>4, <2>2, <3>1 DEF OpenFits, SubFits
  <2>3. QED
    BY <2>1, <2>2
<1>6. QED
  BY <1>1, <1>2, <1>4, <1>5 DEF MirrorInv, Covered, Solo

\* The new subscriber is in Redis and not yet in the list of the cache.
LEMMA MirrorAdd ==
  ASSUME Solo, Shape, Phase, MirrorInv, ~raced, NEW w \in Worker, AddSubscriber(w)
  PROVE  MirrorInv'
<1>1. cache' = cache /\ loader' = loader
  BY DEF AddSubscriber, mem
<1>2. PICK j, k, db, d : j = job[w] /\ k = job'[w] /\ db = redis /\ d = redis'
  OBVIOUS
<1>3. IsSub(j) /\ j.pc = "hmset" /\ IsSub(k) /\ k.pc = "pushback" /\ k.c = j.c /\ k.q = j.q
  <2>1. j.pc = "hmset"
    BY <1>2 DEF AddSubscriber
  <2>2. QED
    BY <1>2, <2>1, SubSteps
<1>4. loader = NoLoad /\ (\A q \in redis.names : q \in DOMAIN cache) /\ SubFits(db, cache, j) /\ j.q \in DOMAIN cache
  BY <1>2, <1>3, Subscribing
<1>5. j.q \in Queue /\ j.c \in Client /\ db \in DbRec /\ IsCache(cache)
  BY <1>2, <1>3, SubFields DEF Shape
<1>6. d = Exec(db, HSETSub(j.q, j.c))
  BY <1>2 DEF AddSubscriber
<1>7. OnlyGrows(db, d)
  BY <1>5, <1>6, OnlyGrow
<1>8. j.c \in d.submeta[j.q]
  <2>1. d = [db EXCEPT !.submeta[j.q] = @ \cup {j.c}]
    BY <1>6 DEF Exec, HSETSub
  <2>2. QED
    BY <1>5, <2>1 DEF DbRec
<1>9. Mirrors(db, cache)
  BY <1>2 DEF MirrorInv
<1>10. Mirrors(d, cache)
  BY <1>5, <1>7, <1>9, MirrorsGrow
<1>11. j.c \notin ToSet(cache[j.q].clients)
  BY <1>3, <1>4, <1>9 DEF Mirrors, MirrorsQueue, SubFits
<1>12. d.names = db.names
  BY <1>7 DEF OnlyGrows, KeepsMeta
<1>13. OpenFits(d, cache, k)
  <2>1. ~IsPub(k)
    BY <1>3, SubIsSub
  <2>2. QED
    BY <1>3, <1>4, <1>8, <1>11, <1>12, <2>1 DEF OpenFits, SubFits
<1>14. QED
  BY <1>1, <1>2, <1>4, <1>10, <1>12, <1>13 DEF MirrorInv, Covered, Solo

LEMMA AppendClient ==
  ASSUME NEW s \in Seq(Client), NEW c \in Client
  PROVE  /\ ToSet(Append(s, c)) = ToSet(s) \cup {c}
         /\ IsInjective(s) /\ c \notin ToSet(s) => IsInjective(Append(s, c))
<1>1. /\ DOMAIN s = 1..Len(s) /\ Len(s) \in Nat /\ DOMAIN Append(s, c) = 1..Len(s) + 1
      /\ Append(s, c)[Len(s) + 1] = c /\ \A i \in 1..Len(s) : Append(s, c)[i] = s[i]
  OBVIOUS
<1>2. \A i \in DOMAIN Append(s, c) : i \in DOMAIN s \/ i = Len(s) + 1
  BY <1>1
<1>3. ToSet(Append(s, c)) = ToSet(s) \cup {c}
  BY <1>1, <1>2 DEF ToSet
<1>4. ASSUME IsInjective(s), c \notin ToSet(s) PROVE IsInjective(Append(s, c))
  <2>1. \A i \in 1..Len(s) : s[i] # c
    BY <1>1, <1>4 DEF ToSet
  <2>2. ASSUME NEW x \in DOMAIN Append(s, c), NEW y \in DOMAIN Append(s, c), Append(s, c)[x] = Append(s, c)[y]
        PROVE  x = y
    BY <1>1, <1>2, <1>4, <2>1, <2>2 DEF IsInjective
  <2>3. QED
    BY <2>2 DEF IsInjective
<1>5. QED
  BY <1>3, <1>4

\* Table g is table f with entry e for queue q.
IsPut(f, g, q, e) == DOMAIN g = DOMAIN f \cup {q} /\ g[q] = e /\ \A x \in DOMAIN f : x # q => g[x] = f[x]

LEMMA MirrorsPut ==
  ASSUME NEW db, NEW ca, Mirrors(db, ca), NEW q \in db.names, NEW e, MirrorsQueue(db, e, q),
         NEW g, IsPut(ca, g, q, e)
  PROVE  Mirrors(db, g)
<1>1. \A x \in DOMAIN g : x = q \/ (x \in DOMAIN ca /\ g[x] = ca[x])
  BY DEF IsPut
<1>2. g[q] = e /\ DOMAIN g = DOMAIN ca \cup {q}
  BY DEF IsPut
<1>3. QED
  BY <1>1, <1>2 DEF Mirrors

\* The cache of the next state.
LEMMA PutShape ==
  ASSUME Shape, NEW q \in Queue, NEW e \in EntryRec, NEW g, g = PutQueue(q, e)
  PROVE  IsCache(g) /\ IsPut(cache, g, q, e)
<1>1. IsCache(cache) /\ g = [x \in DOMAIN cache \cup {q} |-> IF x = q THEN e ELSE cache[x]]
  BY DEF Shape, PutQueue
<1>2. QED
  BY <1>1, CacheUpdate DEF IsPut

\* Under the lock the subscriber joins the list, to which it is new.
LEMMA MirrorJoin ==
  ASSUME Solo, Shape, Phase, MirrorInv, ~raced, NEW w \in Worker, CacheSubscriber(w)
  PROVE  MirrorInv'
<1>1. redis' = redis /\ loader' = loader
  BY DEF CacheSubscriber
<1>2. PICK j, k, q, g : j = job[w] /\ k = job'[w] /\ q = j.q /\ g = cache'
  OBVIOUS
<1>3. IsSub(j) /\ j.pc = "pushback" /\ IsSub(k) /\ k.pc = "open" /\ k.c = j.c /\ k.q = j.q
  <2>1. j.pc = "pushback"
    BY <1>2 DEF CacheSubscriber
  <2>2. QED
    BY <1>2, <2>1, SubSteps
<1>4. /\ loader = NoLoad /\ (\A x \in redis.names : x \in DOMAIN cache) /\ SubFits(redis, cache, j)
      /\ q \in DOMAIN cache
  BY <1>2, <1>3, Subscribing
<1>5. q \in Queue /\ j.c \in Client /\ IsCache(cache)
  BY <1>2, <1>3, SubFields DEF Shape
<1>6. PICK e : e = [Entry(q) EXCEPT !.clients = Append(@, j.c)]
  OBVIOUS
<1>7. e \in EntryRec /\ e.type = Entry(q).type /\ e.clients = Append(Entry(q).clients, j.c)
  BY <1>5, <1>6, EntryShape
<1>8. PICK f \in EntryRec : f = cache[q]
  BY <1>4, <1>5 DEF IsCache
<1>9. f = Entry(q) /\ f.clients \in Seq(Client)
  BY <1>4, <1>8 DEF Entry, EntryRec
<1>10. g = PutQueue(q, e)
  BY <1>2, <1>6 DEF CacheSubscriber
<1>11. IsPut(cache, g, q, e)
  BY <1>5, <1>7, <1>10, PutShape
<1>12. MirrorsQueue(redis, f, q) /\ q \in redis.names /\ Mirrors(redis, cache)
  BY <1>4, <1>8 DEF MirrorInv, Mirrors
<1>13. j.c \in redis.submeta[q] /\ j.c \notin ToSet(f.clients)
  BY <1>2, <1>3, <1>4, <1>8 DEF SubFits
<1>14. MirrorsQueue(redis, e, q)
  <2>1. e.type = f.type /\ e.clients = Append(f.clients, j.c)
    BY <1>7, <1>9
  <2>2. ToSet(e.clients) = ToSet(f.clients) \cup {j.c} /\ (IsInjective(f.clients) => IsInjective(e.clients))
    BY <1>5, <1>9, <1>13, <2>1, AppendClient
  <2>3. QED
    BY <1>12, <1>13, <2>1, <2>2 DEF MirrorsQueue
<1>15. Mirrors(redis, g)
  BY <1>11, <1>12, <1>14, MirrorsPut
<1>16. OpenFits(redis, g, k)
  <2>1. ~IsPub(k)
    BY <1>3, SubIsSub
  <2>2. QED
    BY <1>3, <1>4, <2>1 DEF OpenFits, SubFits
<1>17. \A x \in redis.names : x \in DOMAIN g
  BY <1>4, <1>11 DEF IsPut
<1>18. QED
  BY <1>1, <1>2, <1>4, <1>15, <1>16, <1>17 DEF MirrorInv, Covered, Solo

\* The end of OpenQueue: an entry is made only by the worker that has just
\* written the metadata.
LEMMA MirrorOpen ==
  ASSUME Solo, Shape, Phase, MirrorInv, ~raced, NEW w \in Worker, OpenQueue(w)
  PROVE  MirrorInv'
<1>1. redis' = redis /\ loader' = loader
  BY DEF OpenQueue
<1>2. PICK j, q, g : j = job[w] /\ q = j.q /\ g = cache'
  OBVIOUS
<1>3. /\ j.pc = "open" /\ (IsSub(j) \/ IsPub(j)) /\ q \in Queue /\ j.t \in MsgType /\ job'[w] = Idle
  BY <1>2, OpenShape
<1>4. Opening(j) /\ j # Idle /\ ~Leftover(j)
  BY <1>3, IdleFields DEF Opening, Leftover
<1>5. ~Booting /\ loader = NoLoad
  BY <1>2, <1>4 DEF Phase
<1>6. OpenFits(redis, cache, j) /\ Mirrors(redis, cache) /\ Covered(redis, cache, job)
  BY <1>2, <1>5 DEF MirrorInv
<1>7. q \in redis.names /\ (q \in DOMAIN cache \/ redis.meta[q] = j.t)
  <2>1. CASE IsSub(j)
    BY <1>2, <2>1, Subscribing DEF SubFits
  <2>2. CASE IsPub(j)
    BY <1>2, <1>3, <1>6, <2>2 DEF OpenFits, PubFits
  <2>3. QED
    BY <1>3, <2>1, <2>2
<1>8. g = IF q \in DOMAIN cache THEN cache ELSE PutQueue(q, [type |-> j.t, clients |-> <<>>])
  BY <1>2 DEF OpenQueue
<1>9. Mirrors(redis, g) /\ DOMAIN g = DOMAIN cache \cup {q}
  <2>1. CASE q \in DOMAIN cache
    BY <1>6, <1>8, <2>1
  <2>2. CASE q \notin DOMAIN cache
    <3>1. PICK e : e = [type |-> j.t, clients |-> <<>>]
      OBVIOUS
    <3>2. e \in EntryRec /\ e.type = j.t /\ e.clients = <<>>
      BY <1>3, <3>1, FreshEntry
    <3>3. IsPut(cache, g, q, e)
      BY <1>3, <1>8, <2>2, <3>1, <3>2, PutShape
    <3>4. MirrorsQueue(redis, e, q)
      BY <1>7, <2>2, <3>2 DEF MirrorsQueue, ToSet, IsInjective
    <3>5. QED
      BY <1>6, <1>7, <3>3, <3>4, MirrorsPut DEF IsPut
  <2>3. QED
    BY <2>1, <2>2
<1>10. \A x \in redis.names : x \in DOMAIN g
  <2>1. ASSUME NEW x \in redis.names, NEW v \in Worker, Creating(job[v], x) PROVE x = q
    BY <1>2, <2>1 DEF Solo, Creating
  <2>2. QED
    BY <1>6, <1>9, <2>1 DEF Covered
<1>11. \A v \in Worker : OpenFits(redis, g, job'[v])
  BY <1>3, NotOpening DEF Solo
<1>12. QED
  BY <1>1, <1>2, <1>5, <1>9, <1>10, <1>11 DEF MirrorInv, Covered

\* No queue is being created while metadata is read.
LEMMA Settled ==
  ASSUME Shape, Phase, ~raced, loader # NoLoad, loader.pc # "smembers" \/ ~Booting, NEW w \in Worker
  PROVE  ~IsPub(job[w]) /\ ~IsSub(job[w]) /\ (job[w] = Idle \/ IsPush(job[w]) \/ IsPop(job[w]))
<1>1. PICK j : j = job[w]
  OBVIOUS
<1>2. JobOK(j) /\ (j # Idle => ~Leftover(j)) /\ (Booting => j = Idle) /\ (~Booting => ~Opening(j))
  <2>1. ~Draining
    BY DEF Draining
  <2>2. QED
    BY <1>1, <2>1 DEF Phase, Shape
<1>3. CASE j = Idle
  BY <1>1, <1>3, NotOpening
<1>4. CASE j # Idle
  <2>1. ~IsSub(j)
    BY <1>2, <1>4, SubIsOpening
  <2>2. ~IsPub(j)
    <3>1. SUFFICES ASSUME IsPub(j) PROVE FALSE
      OBVIOUS
    <3>2. j.pc \in {"pipe", "open"} /\ j.then \in {"open", "idle"}
      BY <3>1, PubFields
    <3>3. j.pc = "pipe" => j.then = "open"
      BY <1>2, <1>4, <3>2 DEF Leftover
    <3>4. Opening(j)
      BY <1>4, <3>2, <3>3 DEF Opening
    <3>5. QED
      BY <1>2, <1>4, <3>4
  <2>3. QED
    BY <1>1, <1>2, <1>4, <2>1, <2>2 DEF JobOK
<1>5. QED
  BY <1>3, <1>4

\* A message's pipeline adds subscribers at most.
LEMMA MirrorMessage ==
  ASSUME Solo, Shape, MirrorInv, NEW w \in Worker, cache' = cache, loader' = loader,
         ~IsPub(job[w]), ~IsSub(job[w]), job'[w] = Idle \/ IsPush(job'[w]) \/ IsPop(job'[w]),
         NEW d, d = redis', OnlyGrows(redis, d)
  PROVE  MirrorInv'
<1>1. IsCache(cache) /\ (LoadJob(loader) => IsCache(loader.tmp)) /\ (loader # NoLoad => LoadJob(loader))
  BY DEF Shape, LoadJob
<1>2. d.names = redis.names
  BY DEF OnlyGrows, KeepsMeta
<1>3. Mirrors(d, cache)
  BY <1>1, MirrorsGrow DEF MirrorInv
<1>4. loader # NoLoad /\ loader.pc # "smembers" => LoadFits(d, loader)
  BY <1>1, <1>2, MirrorsGrow DEF MirrorInv, LoadFits
<1>5. \A v \in Worker : OpenFits(d, cache, job'[v])
  BY NotOpening DEF Solo
<1>6. ~Booting => \A q \in d.names : q \in DOMAIN cache
  BY <1>2 DEF MirrorInv, Covered, Creating, Solo
<1>7. Booting' <=> Booting
  BY DEF Booting
<1>8. QED
  BY <1>3, <1>4, <1>5, <1>6, <1>7 DEF MirrorInv, Covered

\* The pipeline of CreatePublisher.
LEMMA MirrorPub ==
  ASSUME Solo, Shape, Phase, MirrorInv, ~raced, NEW w \in Worker, RedisExec(w), IsPub(job[w])
  PROVE  MirrorInv'
<1>1. cache' = cache /\ loader' = loader
  BY DEF RedisExec, mem
<1>2. PICK j, k, db, d : j = job[w] /\ k = job'[w] /\ db = redis /\ d = redis'
  OBVIOUS
<1>3. j.pc = "pipe" /\ IsPub(j) /\ PubExec(j, k) /\ \A v \in Worker : v = w
  BY <1>2, ExecShape, PubIsPub DEF Solo
<1>4. j.q \in Queue /\ j.t \in MsgType /\ db \in DbRec /\ ~IsSub(j) /\ IsCache(cache)
  BY <1>2, <1>3, PubFields, SubIsSub DEF Shape
<1>5. /\ Mirrors(db, cache) /\ PubFits(db, cache, j)
      /\ ~Booting => Covered(db, cache, job)
  BY <1>2, <1>3 DEF MirrorInv, OpenFits
<1>6. loader # NoLoad => loader.pc = "smembers"
  BY <1>2, <1>3, Settled
<1>7. Booting' <=> Booting
  BY <1>1 DEF Booting
<1>8. db.meta \in [Queue -> MsgType \cup {NoMeta}] /\ DOMAIN cache \subseteq Queue
  BY <1>4 DEF DbRec, IsCache
<1>9. ASSUME NEW x, NEW y, NEW z PROVE <<x>> # <<y, z>>
  OBVIOUS
<1>10. CASE j.cmds = <<SADD(j.q), HMSETMeta(j.q, j.t)>>
  <2>1. /\ d = Exec(db, SADD(j.q))
        /\ IsPub(k) /\ k.pc = "pipe" /\ k.cmds = <<HMSETMeta(j.q, j.t)>> /\ k.q = j.q /\ k.t = j.t
    BY <1>2, <1>3, <1>9, <1>10 DEF PubExec
  <2>2. d.names = db.names \cup {j.q} /\ d.meta = db.meta /\ d.submeta = db.submeta
    BY <1>4, <2>1, ExecSADD
  <2>3. Behind(k, k.q) /\ ~Behind(j, j.q) /\ Creating(k, j.q)
    BY <1>9, <1>10, <2>1 DEF Behind, Creating
  <2>4. j.q \notin db.names
    BY <1>3, <1>5, <2>3 DEF PubFits
  <2>5. Mirrors(d, cache)
    BY <1>5, <2>2 DEF Mirrors, MirrorsQueue
  <2>6. OpenFits(d, cache, k)
    <3>1. ~IsSub(k) /\ j.q \notin DOMAIN cache
      BY <1>5, <2>1, <2>4, SubIsSub DEF Mirrors
    <3>2. QED
      BY <2>1, <2>2, <2>3, <3>1 DEF OpenFits, PubFits
  <2>7. ~Booting => \A x \in d.names : x \in DOMAIN cache \/ Creating(k, x)
    <3>1. \A x \in db.names : ~Creating(j, x)
      BY <1>3, <2>3 DEF Creating
    <3>2. QED
      BY <1>2, <1>3, <1>5, <2>2, <2>3, <3>1 DEF Covered
  <2>8. QED
    BY <1>1, <1>2, <1>3, <1>6, <1>7, <2>5, <2>6, <2>7 DEF MirrorInv, Covered
<1>11. CASE j.cmds = <<HMSETMeta(j.q, j.t)>>
  <2>1. /\ d = Exec(db, HMSETMeta(j.q, j.t))
        /\ \/ j.then = "idle" /\ k = Idle
           \/ IsPub(k) /\ k.pc = "open" /\ k.q = j.q /\ k.t = j.t
    BY <1>2, <1>3, <1>9, <1>11 DEF PubExec
  <2>2. d.names = db.names /\ d.meta = [db.meta EXCEPT ![j.q] = j.t] /\ d.submeta = db.submeta
    BY <1>4, <2>1, ExecMeta
  <2>3. Behind(j, j.q)
    BY <1>3, <1>11 DEF Behind
  <2>4. j.q \in db.names /\ j.q \notin DOMAIN cache
    BY <1>5, <2>3 DEF PubFits
  <2>5. d.meta[j.q] = j.t /\ \A x \in DOMAIN cache : d.meta[x] = db.meta[x]
    BY <1>4, <1>8, <2>2, <2>4
  <2>6. Mirrors(d, cache)
    BY <1>5, <2>2, <2>5 DEF Mirrors, MirrorsQueue
  <2>7. \A x \in db.names : Creating(j, x) => x = j.q
    BY DEF Creating
  <2>8. CASE j.then = "idle" /\ k = Idle
    <3>1. Booting
      <4>1. Leftover(j) /\ j # Idle
        BY <1>3, <2>8, IdleFields DEF Leftover
      <4>2. QED
        BY <1>2, <4>1 DEF Phase, Draining
    <3>2. OpenFits(d, cache, k)
      BY <2>8, NotOpening
    <3>3. QED
      BY <1>1, <1>2, <1>3, <1>6, <1>7, <2>6, <3>1, <3>2 DEF MirrorInv
  <2>9. CASE IsPub(k) /\ k.pc = "open" /\ k.q = j.q /\ k.t = j.t
    <3>1. OpenFits(d, cache, k)
      <4>1. ~IsSub(k) /\ ~Behind(k, k.q)
        BY <2>9, SubIsSub DEF Behind
      <4>2. QED
        BY <2>2, <2>4, <2>5, <2>9, <4>1 DEF OpenFits, PubFits
    <3>2. Creating(k, j.q)
      BY <2>9 DEF Creating
    <3>3. ~Booting => \A x \in d.names : x \in DOMAIN cache \/ Creating(k, x)
      BY <1>2, <1>3, <1>5, <2>2, <2>7, <3>2 DEF Covered
    <3>4. QED
      BY <1>1, <1>2, <1>3, <1>6, <1>7, <2>6, <3>1, <3>3 DEF MirrorInv, Covered
  <2>10. QED
    BY <2>1, <2>8, <2>9
<1>12. QED
  BY <1>3, <1>10, <1>11 DEF IsPub, PubLeft

LEMMA MirrorsEmpty == \A db : Mirrors(db, EmptyCache)
  BY EmptyIsCache DEF Mirrors

\* LoadQueues: the new table mirrors the database all along.
LEMMA MirrorLoad ==
  ASSUME Shape, Phase, MirrorInv, ~raced, LoadQueues
  PROVE  MirrorInv'
<1>1. job' = job /\ redis' = redis
  BY DEF LoadQueues, LoadMeta, LoadNames, LoadQueue, LoadClients, LoadFails, GiveUpLoad, SwapCache
<1>2. PICK l, n : l = loader /\ n = loader'
  OBVIOUS
<1>3. SUFFICES /\ Mirrors(redis, cache')
               /\ n # NoLoad /\ n.pc # "smembers" => LoadFits(redis, n)
               /\ \A w \in Worker : OpenFits(redis, cache', job[w])
               /\ ~Booting' => Covered(redis, cache', job)
  BY <1>1, <1>2 DEF MirrorInv
<1>4. ASSUME cache' = cache, ~Booting' => ~Booting, n # NoLoad /\ n.pc # "smembers" => LoadFits(redis, n)
      PROVE  /\ Mirrors(redis, cache')
             /\ n # NoLoad /\ n.pc # "smembers" => LoadFits(redis, n)
             /\ \A w \in Worker : OpenFits(redis, cache', job[w])
             /\ ~Booting' => Covered(redis, cache', job)
  BY <1>4 DEF MirrorInv
<1>5. CASE LoadMeta
  <2>1. PICK b \in BOOLEAN : ~b /\ StartLoad(b)
    BY <1>5 DEF LoadMeta
  <2>2. n.pc = "smembers"
    BY <1>2, <2>1, StartShape
  <2>3. l = NoLoad /\ cache' = cache
    BY <1>2, <1>5 DEF LoadMeta, mem
  <2>4. ~Booting
    BY <1>2, <2>3 DEF Booting
  <2>5. QED
    BY <1>4, <2>2, <2>3, <2>4
<1>6. CASE LoadNames
  <2>1. LoadJob(l) /\ LoadJob(n) /\ l.pc = "smembers" /\ n.todo = redis.names /\ n.boot = l.boot /\ n.tmp = l.tmp
    BY <1>2, <1>6, NamesShape
  <2>2. l # NoLoad /\ n # NoLoad
    BY <2>1, LoadFields
  <2>3. n.tmp = EmptyCache
    BY <1>2, <2>1, <2>2 DEF Phase
  <2>4. LoadFits(redis, n)
    BY <2>1, <2>3, MirrorsEmpty, EmptyIsCache DEF LoadFits
  <2>5. cache' = cache /\ (Booting' <=> Booting)
    BY <1>2, <1>6, <2>1, <2>2 DEF LoadNames, mem, Booting
  <2>6. QED
    BY <1>4, <2>4, <2>5
<1>7. ASSUME NEW q \in Queue, LoadQueue(q)
      PROVE  cache' = cache /\ (~Booting' => ~Booting) /\ (n # NoLoad /\ n.pc # "smembers" => LoadFits(redis, n))
  <2>1. LoadJob(l) /\ l.pc = "queue" /\ q \in l.todo
    BY <1>2, <1>7, QueueShape
  <2>2. \/ l.boot /\ n.pc = "smembers" /\ n.boot /\ n # NoLoad
        \/ ~l.boot /\ n = NoLoad
        \/ Loaded(l, n, q)
    BY <1>2, <1>7, QueueShape
  <2>3. cache' = cache /\ l # NoLoad /\ LoadFits(redis, l)
    BY <1>2, <1>7, <2>1, LoadFields DEF LoadQueue, mem, MirrorInv
  <2>4. ~Booting' => ~Booting
    BY <1>2, <2>2, <2>3 DEF Booting, Loaded
  <2>5. ASSUME Loaded(l, n, q) PROVE LoadFits(redis, n)
    <3>1. PICK e : e = [type |-> redis.meta[q], clients |-> <<>>]
      OBVIOUS
    <3>2. e.type = redis.meta[q] /\ e.clients = <<>>
      BY <3>1
    <3>3. MirrorsQueue(redis, e, q)
      BY <3>2 DEF MirrorsQueue, ToSet, IsInjective
    <3>4. IsPut(l.tmp, n.tmp, q, e) /\ n.todo = l.todo \ {q} /\ DOMAIN n.tmp = DOMAIN l.tmp \cup {q}
      BY <2>5, <3>1 DEF Loaded, IsPut
    <3>5. Mirrors(redis, l.tmp) /\ redis.names = DOMAIN l.tmp \cup l.todo /\ q \in redis.names
      BY <2>1, <2>3 DEF LoadFits
    <3>6. Mirrors(redis, n.tmp)
      BY <3>3, <3>4, <3>5, MirrorsPut
    <3>7. QED
      BY <2>1, <3>4, <3>5, <3>6 DEF LoadFits
  <2>6. QED
    BY <2>2, <2>3, <2>4, <2>5
<1>8. CASE LoadClients
  <2>1. /\ LoadJob(l) /\ LoadJob(n) /\ l.pc = "clients" /\ n.boot = l.boot /\ n.todo = l.todo
        /\ l.at \in DOMAIN l.tmp /\ DOMAIN n.tmp = DOMAIN l.tmp
        /\ n.tmp[l.at].type = l.tmp[l.at].type
        /\ ToSet(n.tmp[l.at].clients) = redis.submeta[l.at]
    BY <1>2, <1>8, ClientsShape
  <2>2. \A x, y \in DOMAIN n.tmp[l.at].clients : n.tmp[l.at].clients[x] = n.tmp[l.at].clients[y] => x = y
    BY <1>2, <1>8, ClientsShape
  <2>3. \A x \in DOMAIN l.tmp : x # l.at => n.tmp[x] = l.tmp[x]
    BY <1>2, <1>8, ClientsShape
  <2>4. l # NoLoad /\ n # NoLoad
    BY <2>1, LoadFields
  <2>5. cache' = cache /\ (Booting' <=> Booting) /\ LoadFits(redis, l)
    BY <1>2, <1>8, <2>1, <2>4 DEF LoadClients, mem, Booting, MirrorInv
  <2>6. Mirrors(redis, l.tmp) /\ redis.names = DOMAIN l.tmp \cup l.todo
    BY <2>5 DEF LoadFits
  <2>7. MirrorsQueue(redis, n.tmp[l.at], l.at)
    BY <2>1, <2>2, <2>6 DEF Mirrors, MirrorsQueue, IsInjective
  <2>8. IsPut(l.tmp, n.tmp, l.at, n.tmp[l.at]) /\ l.at \in redis.names
    BY <2>1, <2>3, <2>6 DEF IsPut
  <2>9. Mirrors(redis, n.tmp)
    BY <2>6, <2>7, <2>8, MirrorsPut
  <2>10. LoadFits(redis, n)
    BY <2>1, <2>6, <2>9 DEF LoadFits
  <2>11. QED
    BY <1>4, <2>5, <2>10
<1>9. CASE SwapCache
  <2>1. n = NoLoad /\ l.pc = "queue" /\ l.todo = {} /\ cache' = l.tmp
    BY <1>2, <1>9 DEF SwapCache
  <2>2. l # NoLoad
    BY <2>1 DEF NoLoad
  <2>3. Mirrors(redis, l.tmp) /\ redis.names = DOMAIN l.tmp
    BY <1>2, <2>1, <2>2 DEF MirrorInv, LoadFits
  <2>4. \A w \in Worker : OpenFits(redis, l.tmp, job[w])
    BY <1>2, <1>9, <2>1, <2>2, Settled, NotOpening
  <2>5. QED
    BY <2>1, <2>3, <2>4 DEF Covered
<1>10. CASE LoadFails
  <2>1. l # NoLoad /\ GiveUpLoad /\ cache' = cache
    BY <1>2, <1>10 DEF LoadFails, mem
  <2>2. \/ l.boot /\ n.pc = "smembers" /\ n.boot /\ n # NoLoad
        \/ ~l.boot /\ n = NoLoad
    BY <1>2, <2>1, FailShape DEF Shape
  <2>3. ~Booting' => ~Booting
    BY <1>2, <2>1, <2>2 DEF Booting
  <2>4. QED
    BY <1>4, <2>1, <2>2, <2>3
<1>11. QED
  BY <1>4, <1>5, <1>6, <1>7, <1>8, <1>9, <1>10 DEF LoadQueues

\* The process dies: what is left of CreatePublisher's pipeline will still
\* run before anything is loaded.
LEMMA MirrorCrash ==
  ASSUME Shape, MirrorInv, Crash
  PROVE  MirrorInv'
<1>1. redis' = redis /\ cache' = EmptyCache
  BY DEF Crash
<1>2. PICK b \in BOOLEAN : b /\ StartLoad(b)
  BY DEF Crash
<1>3. PICK n : n = loader'
  OBVIOUS
<1>4. n.pc = "smembers" /\ n.boot = b /\ n # NoLoad
  BY <1>2, <1>3, StartShape
<1>5. Booting'
  BY <1>2, <1>3, <1>4 DEF Booting
<1>6. ASSUME NEW w \in Worker PROVE OpenFits(redis, EmptyCache, job'[w])
  <2>1. PICK lost \in SUBSET Worker : job' = [v \in Worker |-> Orphan(v, v \in lost)]
    BY DEF Crash
  <2>2. PICK j, k : j = job[w] /\ k = job'[w]
    OBVIOUS
  <2>3. k = Orphan(w, w \in lost) /\ JobOK(j) /\ OpenFits(redis, cache, j)
    BY <2>1, <2>2 DEF Shape, MirrorInv
  <2>4. CASE k = Idle
    BY <2>2, <2>4, NotOpening
  <2>5. CASE k # Idle
    <3>1. /\ j.pc = "pipe" /\ k.pc = "pipe" /\ k.cmds = j.cmds /\ k.q = j.q
          /\ \/ IsPub(j) /\ IsPub(k) /\ k.t = j.t
             \/ IsPush(j) /\ IsPush(k) /\ k.ack = j.ack
             \/ IsPop(j) /\ IsPop(k)
      BY <2>2, <2>3, <2>5, OrphanJob
    <3>2. CASE IsPub(j) /\ IsPub(k) /\ k.t = j.t
      <4>1. Behind(k, k.q) <=> Behind(j, j.q)
        BY <3>1, <3>2 DEF Behind
      <4>2. ~IsSub(k) /\ PubFits(redis, cache, j)
        BY <2>3, <3>2, SubIsSub DEF OpenFits
      <4>3. PubFits(redis, EmptyCache, k)
        BY <3>1, <4>1, <4>2, EmptyIsCache DEF PubFits
      <4>4. QED
        BY <2>2, <4>2, <4>3 DEF OpenFits
    <3>3. CASE IsPush(k) \/ IsPop(k)
      BY <2>2, <3>3, NotOpening
    <3>4. QED
      BY <3>1, <3>2, <3>3
  <2>6. QED
    BY <2>4, <2>5
<1>7. QED
  BY <1>1, <1>3, <1>4, <1>5, <1>6, MirrorsEmpty DEF MirrorInv

LEMMA MirrorStep ==
  ASSUME Solo, Shape, Phase, MirrorInv, ~raced, ~raced', [Next]_vars
  PROVE  MirrorInv'
<1>1. ASSUME NEW w \in Worker, Open(w) PROVE MirrorInv'
  BY <1>1, MirrorCreate, MirrorCheck, MirrorAdd, MirrorJoin, MirrorOpen DEF Open
<1>2. redis \in DbRec
  BY DEF Shape
<1>3. ASSUME NEW w \in Worker, NEW c \in Client, NEW q \in Queue, PushMsg(w, c, q) PROVE MirrorInv'
  <2>1. cache' = cache /\ loader' = loader /\ redis' = redis /\ job[w] = Idle
    BY <1>3 DEF PushMsg, Free, mem
  <2>2. PICK m, e, k : m = NewMsg(c) /\ e = cache[q] /\ k = job'[w]
    OBVIOUS
  <2>3. job' = job \/ IsPush(k)
    BY <1>3, <2>2, PushShape
  <2>4. k = Idle \/ IsPush(k)
    BY <2>1, <2>2, <2>3
  <2>5. QED
    BY <1>2, <2>1, <2>2, <2>4, MirrorMessage, NotOpening, OnlyGrow
<1>4. ASSUME NEW w \in Worker, NEW c \in Client, NEW q \in Queue, PopMsg(w, c, q) PROVE MirrorInv'
  <2>1. cache' = cache /\ loader' = loader /\ redis' = redis /\ job[w] = Idle
    BY <1>4 DEF PopMsg, Free, mem
  <2>2. IsPop(job'[w])
    BY <1>4, PopShape
  <2>3. QED
    BY <1>2, <2>1, <2>2, MirrorMessage, NotOpening, OnlyGrow
<1>5. ASSUME NEW w \in Worker, RedisExec(w) PROVE MirrorInv'
  <2>1. CASE IsPub(job[w])
    BY <1>5, <2>1, MirrorPub
  <2>2. CASE ~IsPub(job[w])
    <3>1. PICK j, k : j = job[w] /\ k = job'[w]
      OBVIOUS
    <3>2. /\ j.pc = "pipe"
          /\ \/ IsPub(j) /\ PubExec(j, k)
             \/ IsPush(j) /\ PushExec(j, k)
             \/ IsPop(j) /\ PopExec(j, k)
      BY <1>5, <3>1, ExecShape
    <3>3. k = Idle \/ IsPush(k) \/ IsPop(k)
      BY <2>2, <3>1, <3>2 DEF PushExec, PopExec
    <3>4. ~IsSub(j)
      BY <3>2, SubFields
    <3>5. cache' = cache /\ loader' = loader
      BY <1>5 DEF RedisExec, mem
    <3>6. PICK d : d = redis'
      OBVIOUS
    <3>7. OnlyGrows(redis, d)
      BY <1>5, <2>2, <3>6, ExecGrows
    <3>8. QED
      BY <2>2, <3>1, <3>3, <3>4, <3>5, <3>6, <3>7, MirrorMessage
  <2>3. QED
    BY <2>1, <2>2
<1>6. ASSUME NEW w \in Worker, Reply(w) \/ GiveUp(w) PROVE MirrorInv'
  <2>1. cache' = cache /\ loader' = loader /\ redis' = redis
    BY <1>6 DEF Reply, GiveUp, mem
  <2>2. (IsPush(job[w]) \/ IsPop(job[w])) /\ job'[w] = Idle
    BY <1>6, ReplyShape, GiveUpShape
  <2>3. QED
    BY <1>2, <2>1, <2>2, MirrorMessage, NotOpening, OnlyGrow
<1>7. CASE (\E c \in Client, q \in Queue : CloseQueue(c, q)) \/ UNCHANGED vars
  <2>1. redis' = redis /\ cache' = cache /\ loader' = loader /\ job' = job
    BY <1>7 DEF CloseQueue, vars
  <2>2. Booting' <=> Booting
    BY <2>1 DEF Booting
  <2>3. QED
    BY <2>1, <2>2 DEF MirrorInv
<1>8. ASSUME NEW w \in Worker, Message(w) PROVE MirrorInv'
  BY <1>3, <1>4, <1>5, <1>6, <1>8 DEF Message
<1>9. QED
  BY <1>1, <1>7, <1>8, MirrorLoad, MirrorCrash DEF Next

LEMMA RacedStays ==
  ASSUME [Next]_vars
  PROVE  raced => raced'
<1>1. CASE Crash
  BY <1>1 DEF Crash, load
<1>2. CASE LoadQueues
  BY <1>2 DEF LoadQueues, LoadMeta, LoadNames, LoadQueue, LoadClients, LoadFails, GiveUpLoad, SwapCache, hist, load
<1>3. QED
  BY <1>1, <1>2, LoaderStill

LEMMA Mirrored == Solo => (Spec => [](Shape /\ Phase /\ (~raced => MirrorInv)))
<1>1. Init => MirrorInv
  <2>1. ASSUME Init PROVE redis.names = {} /\ cache = EmptyCache /\ loader = NoLoad /\ \A w \in Worker : job[w] = Idle
    BY <2>1 DEF Init, EmptyDb
  <2>2. QED
    BY <2>1, MirrorsEmpty, NotOpening DEF MirrorInv, Covered
<1>2. SUFFICES ASSUME Solo PROVE Spec => [](Shape /\ Phase /\ (~raced => MirrorInv))
  OBVIOUS
<1>3. Shape /\ Phase /\ (~raced => MirrorInv) /\ [Next]_vars => (~raced => MirrorInv)'
  BY <1>2, MirrorStep, RacedStays
<1>4. QED
  BY <1>1, <1>3, Phases, PTL DEF Spec

\* With one worker, a queue is cached with the type it has in Redis, as long
\* as no OpenQueue overlaps a "load meta": whichever client created it, and
\* whenever the process died between CreatePublisher's SADD, its HMSET and
\* the cache entry.
THEOREM CacheMirrorsRedis == Solo => (Spec => []CacheIsRedis)
<1>1. (~raced => MirrorInv) => CacheIsRedis
  BY DEF MirrorInv, Mirrors, MirrorsQueue, CacheIsRedis
<1>2. QED
  BY <1>1, Mirrored, PTL

\* With one worker, no subscriber is twice in a queue's fan-out list: the
\* HEXISTS before the push_back and the list LoadQueues builds leave no room
\* for a second entry.
THEOREM SubscribersAreDistinct == Solo => (Spec => []NoDuplicateSubscriber)
<1>1. (~raced => MirrorInv) => NoDuplicateSubscriber
  BY DEF MirrorInv, Mirrors, MirrorsQueue, NoDuplicateSubscriber
<1>2. QED
  BY <1>1, Mirrored, PTL
----------------------------------------------------------------------------
(* With one worker, every subscriber is served *)

\* Job j is between writing c to Redis as subscriber of q and caching it.
Joining(j, q, c) == IsSub(j) /\ j.pc = "pushback" /\ j.q = q /\ j.c = c

\* The fan-out lists have every subscriber Redis has.
Listed(db, ca, jb) ==
  \A q \in DOMAIN ca : ca[q].type = SUB2PUB =>
    \A c \in db.submeta[q] : c \in ToSet(ca[q].clients) \/ \E w \in Worker : Joining(jb[w], q, c)
LoadListed(db, l) ==
  \A q \in DOMAIN l.tmp : l.tmp[q].type = SUB2PUB /\ ~(l.pc = "clients" /\ l.at = q) =>
    db.submeta[q] \subseteq ToSet(l.tmp[q].clients)

\* The pipelines of messages bring Redis no new subscriber.
Known(db, j) ==
  (IsPush(j) \/ IsPop(j)) /\ j.pc = "pipe" =>
    \A i \in DOMAIN j.cmds, c \in Client : j.cmds[i] = HSETSub(j.q, c) => c \in db.submeta[j.q]
\* Who opens a SUB2PUB queue as subscriber is one by the end of OpenQueue.
OpenKnown(db, j) == IsSub(j) /\ j.pc = "open" /\ j.t = SUB2PUB => j.c \in db.submeta[j.q]
\* A queue that is new to the cache has no subscribers yet.
NewEmpty(db, ca, j) ==
  IsPub(j) /\ (Behind(j, j.q) \/ (j.pc = "open" /\ j.q \notin DOMAIN ca)) => db.submeta[j.q] = {}
SubsFit(db, ca, j) == Known(db, j) /\ OpenKnown(db, j) /\ NewEmpty(db, ca, j)

SubInv ==
  /\ Listed(redis, cache, job)
  /\ loader # NoLoad /\ loader.pc # "smembers" => LoadListed(redis, loader)
  /\ \A w \in Worker : SubsFit(redis, cache, job[w])
  /\ \A q \in Queue : q \notin redis.names => redis.submeta[q] = {}
  /\ \A c \in Client, q \in Queue : <<c, q>> \in subscribed => c \in redis.submeta[q]

\* Job j has the RPUSH of its message to subscriber c's list still ahead.
SubList(db, q, c) == ThroughOf(db, SubKey(q, c))
ToSub(j, c) == RPUSH(SubKey(j.q, c), j.ack.m)
Ahead(j, c) == j.pc = "pipe" /\ \E i \in DOMAIN j.cmds : j.cmds[i] = ToSub(j, c)

FanFits(db, j) ==
  IsPush(j) =>
    /\ \A c \in Client : j.pc = "pipe" =>
         \A x, y \in DOMAIN j.cmds : j.cmds[x] = ToSub(j, c) /\ j.cmds[y] = ToSub(j, c) => x = y
    /\ \A c \in Client : Ahead(j, c) => ~Holds(SubList(db, j.q, c), j.ack.m)
    /\ \A c \in j.ack.to : Ahead(j, c) \/ Holds(SubList(db, j.q, c), j.ack.m)

ServeInv ==
  /\ \A q \in Queue, c \in Client : Distinct(SubList(redis, q, c))
  /\ \A w \in Worker : FanFits(redis, job[w])
  /\ \A a \in acked : \A c \in a.to : Holds(SubList(redis, a.q, c), a.m)

LEMMA FitsBy ==
  ASSUME NEW k, NEW db, NEW ca
  PROVE  /\ k = Idle => SubsFit(db, ca, k)
         /\ IsPub(k) /\ NewEmpty(db, ca, k) => SubsFit(db, ca, k)
         /\ IsSub(k) /\ OpenKnown(db, k) => SubsFit(db, ca, k)
         /\ (IsPush(k) \/ IsPop(k)) /\ Known(db, k) => SubsFit(db, ca, k)
<1>1. CASE k = Idle
  <2>1. ~IsPub(k) /\ ~IsSub(k) /\ ~IsPush(k) /\ ~IsPop(k)
    BY <1>1, IdleFields
  <2>2. QED
    BY <2>1 DEF SubsFit, Known, OpenKnown, NewEmpty
<1>2. CASE IsPub(k)
  <2>1. ~IsSub(k) /\ ~IsPush(k) /\ ~IsPop(k) /\ k # Idle
    BY <1>2, IdleFields, SubIsSub, PubIsPub
  <2>2. QED
    BY <2>1 DEF SubsFit, Known, OpenKnown
<1>3. CASE IsSub(k)
  <2>1. ~IsPub(k) /\ ~IsPush(k) /\ ~IsPop(k) /\ k # Idle
    BY <1>3, IdleFields, SubIsSub
  <2>2. QED
    BY <2>1 DEF SubsFit, Known, NewEmpty
<1>4. CASE IsPush(k) \/ IsPop(k)
  <2>1. ~IsPub(k) /\ ~IsSub(k) /\ k # Idle
    BY <1>4, IdleFields, SubIsSub, PubIsPub
  <2>2. QED
    BY <2>1 DEF SubsFit, OpenKnown, NewEmpty
<1>5. QED
  BY <1>1, <1>2, <1>3, <1>4

SameSubs(db, d) == d.submeta = db.submeta
LEMMA KeepSubs ==
  ASSUME NEW db \in DbRec
  PROVE  /\ \A q \in Queue : SameSubs(db, Exec(db, SADD(q)))
         /\ \A q \in Queue, t \in MsgType : SameSubs(db, Exec(db, HMSETMeta(q, t)))
         /\ \A q \in Queue, c \in Client : c \in db.submeta[q] => SameSubs(db, Exec(db, HSETSub(q, c)))
         /\ \A x \in Keys : SameSubs(db, Exec(db, LPOP(x))) /\ \A m \in Msg : SameSubs(db, Exec(db, RPUSH(x, m)))
<1>1. ASSUME NEW q \in Queue PROVE SameSubs(db, Exec(db, SADD(q)))
  <2>1. Exec(db, SADD(q)) = [db EXCEPT !.names = @ \cup {q}]
    BY DEF Exec, SADD
  <2>2. QED
    BY <2>1 DEF DbRec, SameSubs
<1>2. ASSUME NEW q \in Queue, NEW t \in MsgType PROVE SameSubs(db, Exec(db, HMSETMeta(q, t)))
  <2>1. Exec(db, HMSETMeta(q, t)) = [db EXCEPT !.meta[q] = t]
    BY DEF Exec, HMSETMeta
  <2>2. QED
    BY <2>1 DEF DbRec, SameSubs
<1>3. ASSUME NEW q \in Queue, NEW c \in Client, c \in db.submeta[q] PROVE SameSubs(db, Exec(db, HSETSub(q, c)))
  <2>1. Exec(db, HSETSub(q, c)) = [db EXCEPT !.submeta[q] = @ \cup {c}]
    BY DEF Exec, HSETSub
  <2>2. PICK s \in [Queue -> SUBSET Client] : s = db.submeta
    BY DEF DbRec
  <2>3. s[q] \cup {c} = s[q]
    BY <1>3, <2>2
  <2>4. [s EXCEPT ![q] = s[q] \cup {c}] = s
    BY <2>2, <2>3
  <2>5. Exec(db, HSETSub(q, c)).submeta = [s EXCEPT ![q] = s[q] \cup {c}]
    BY <2>1, <2>2 DEF DbRec
  <2>6. QED
    BY <2>2, <2>4, <2>5 DEF SameSubs
<1>4. ASSUME NEW x \in Keys PROVE SameSubs(db, Exec(db, LPOP(x)))
  <2>1. Exec(db, LPOP(x)) =
          IF db.lists[x] = <<>> THEN db
          ELSE [db EXCEPT !.lists[x] = Tail(@), !.taken[x] = Append(@, Head(db.lists[x]))]
    BY DEF Exec, LPOP
  <2>2. QED
    BY <2>1 DEF DbRec, SameSubs
<1>5. ASSUME NEW x \in Keys, NEW m \in Msg PROVE SameSubs(db, Exec(db, RPUSH(x, m)))
  <2>1. Exec(db, RPUSH(x, m)) = [db EXCEPT !.lists[x] = Append(@, m)]
    BY DEF Exec, RPUSH
  <2>2. QED
    BY <2>1 DEF DbRec, SameSubs
<1>6. QED
  BY <1>1, <1>2, <1>3, <1>4, <1>5

LEMMA HeadFirst ==
  ASSUME NEW S, NEW s \in Seq(S), s # <<>>
  PROVE  /\ 1 \in DOMAIN s /\ s[1] = Head(s)
         /\ \A i \in DOMAIN Tail(s) : i + 1 \in DOMAIN s /\ Tail(s)[i] = s[i + 1]
         /\ \A i \in DOMAIN s : i = 1 \/ (i - 1 \in DOMAIN Tail(s) /\ Tail(s)[i - 1] = s[i])
<1>1. /\ Len(s) \in Nat \ {0} /\ DOMAIN s = 1..Len(s) /\ Tail(s) \in Seq(S) /\ Len(Tail(s)) = Len(s) - 1
      /\ \A i \in 1..Len(s) - 1 : Tail(s)[i] = s[i + 1]
  OBVIOUS
<1>2. DOMAIN Tail(s) = 1..Len(s) - 1
  BY <1>1
<1>3. 1 \in DOMAIN s /\ s[1] = Head(s)
  BY <1>1
<1>4. \A i \in DOMAIN Tail(s) : i + 1 \in DOMAIN s /\ Tail(s)[i] = s[i + 1]
  BY <1>1, <1>2
<1>5. ASSUME NEW i \in DOMAIN s, i # 1 PROVE i - 1 \in DOMAIN Tail(s) /\ Tail(s)[i - 1] = s[i]
  <2>1. i \in 1..Len(s) /\ i - 1 \in 1..Len(s) - 1 /\ i - 1 + 1 = i
    BY <1>1, <1>5
  <2>2. QED
    BY <1>1, <1>2, <2>1
<1>6. QED
  BY <1>3, <1>4, <1>5

\* The commands of a message's pipeline.
LEMMA PipeCmds ==
  ASSUME NEW j, j.pc = "pipe", IsPush(j) \/ IsPop(j)
  PROVE  \E S : j.cmds \in Seq(S) /\ j.cmds # <<>>
<1>1. ASSUME NEW x, NEW y PROVE <<x, y>> # <<>> /\ <<x>> # <<>>
  OBVIOUS
<1>2. CASE IsPush(j)
  <2>1. j.cmds \in Seq(PushCmd) /\ PushLeft(j)
    BY <1>2, PushFields DEF IsPush
  <2>2. j.cmds # <<>>
    BY <1>1, <2>1 DEF PushLeft
  <2>3. QED
    BY <2>1, <2>2
<1>3. CASE IsPop(j)
  <2>1. j.cmds \in Seq(PopCmd) /\ PopLeft(j)
    BY <1>3 DEF IsPop, PopJob
  <2>2. j.cmds # <<>>
    BY <1>1, <2>1 DEF PopLeft
  <2>3. QED
    BY <2>1, <2>2
<1>4. QED
  BY <1>2, <1>3

\* Only AddSubscriber adds subscribers.
LEMMA SubsKept ==
  ASSUME Shape, NEW w \in Worker, RedisExec(w), Known(redis, job[w]), NEW d, d = redis'
  PROVE  SameSubs(redis, d)
<1>1. PICK j, k, db : j = job[w] /\ k = job'[w] /\ db = redis
  OBVIOUS
<1>2. /\ j.pc = "pipe"
      /\ \/ IsPub(j) /\ PubExec(j, k)
         \/ IsPush(j) /\ PushExec(j, k)
         \/ IsPop(j) /\ PopExec(j, k)
  BY <1>1, ExecShape
<1>3. db \in DbRec
  BY <1>1 DEF Shape
<1>4. CASE IsPub(j) /\ PubExec(j, k)
  <2>1. j.q \in Queue /\ j.t \in MsgType
    BY <1>4, PubFields
  <2>2. d = Exec(db, SADD(j.q)) \/ d = Exec(db, HMSETMeta(j.q, j.t))
    BY <1>1, <1>4 DEF PubExec
  <2>3. QED
    BY <1>1, <1>3, <2>1, <2>2, KeepSubs
<1>5. ASSUME IsPush(j) \/ IsPop(j), NEW c \in Client, Head(j.cmds) = HSETSub(j.q, c)
      PROVE  c \in db.submeta[j.q]
  <2>1. PICK S : j.cmds \in Seq(S) /\ j.cmds # <<>>
    BY <1>2, <1>5, PipeCmds
  <2>2. 1 \in DOMAIN j.cmds /\ j.cmds[1] = HSETSub(j.q, c)
    BY <1>5, <2>1, HeadFirst
  <2>3. QED
    BY <1>1, <1>2, <1>5, <2>2 DEF Known
<1>6. CASE IsPush(j) /\ PushExec(j, k)
  <2>1. j.q \in Queue /\ j.ack.m \in Msg
    BY <1>6, PushFields
  <2>2. QueueKey(j.q) \in Keys /\ \A c \in Client : SubKey(j.q, c) \in Keys
    BY <2>1 DEF Keys
  <2>3. \/ \E x \in Keys : d = Exec(db, RPUSH(x, j.ack.m))
        \/ d = db
        \/ \E c \in Client : Head(j.cmds) = HSETSub(j.q, c) /\ d = Exec(db, HSETSub(j.q, c))
    BY <1>1, <1>6, <2>2 DEF PushExec
  <2>4. QED
    BY <1>1, <1>3, <1>5, <1>6, <2>1, <2>3, KeepSubs DEF SameSubs
<1>7. CASE IsPop(j) /\ PopExec(j, k)
  <2>1. j.q \in Queue /\ j.c \in Client
    BY <1>7, PopFields
  <2>2. \/ \E x \in Keys : d = Exec(db, LPOP(x))
        \/ d = db
        \/ Head(j.cmds) = HSETSub(j.q, j.c) /\ d = Exec(db, HSETSub(j.q, j.c))
    BY <1>1, <1>7 DEF PopExec
  <2>3. QED
    BY <1>1, <1>3, <1>5, <1>7, <2>1, <2>2, KeepSubs DEF SameSubs
<1>8. QED
  BY <1>2, <1>4, <1>6, <1>7

\* A step that leaves the cache, the loader and the subscribers alone.
LEMMA SubsFrame ==
  ASSUME Shape, SubInv, cache' = cache, loader' = loader, subscribed' = subscribed,
         NEW d, d = redis', SameSubs(redis, d), redis.names \subseteq d.names,
         \A w \in Worker : SubsFit(d, cache, job'[w]),
         \A w \in Worker : \A q, c : Joining(job[w], q, c) => Joining(job'[w], q, c)
  PROVE  SubInv'
<1>1. d.submeta = redis.submeta
  BY DEF SameSubs
<1>2. Listed(d, cache, job')
  BY <1>1 DEF SubInv, Listed
<1>3. loader # NoLoad /\ loader.pc # "smembers" => LoadListed(d, loader)
  BY <1>1 DEF SubInv, LoadListed
<1>4. \A q \in Queue : q \notin d.names => d.submeta[q] = {}
  BY <1>1 DEF SubInv
<1>5. \A c \in Client, q \in Queue : <<c, q>> \in subscribed => c \in d.submeta[q]
  BY <1>1 DEF SubInv
<1>6. QED
  BY <1>2, <1>3, <1>4, <1>5 DEF SubInv

\* The same of one worker, which is not about to cache a subscriber.
LEMMA SubsAlone ==
  ASSUME Solo, Shape, SubInv, cache' = cache, loader' = loader, subscribed' = subscribed,
         NEW d, d = redis', SameSubs(redis, d), redis.names \subseteq d.names,
         NEW w \in Worker, job[w].pc # "pushback" \/ ~IsSub(job[w]), SubsFit(d, cache, job'[w])
  PROVE  SubInv'
<1>1. \A v \in Worker : SubsFit(d, cache, job'[v])
  BY DEF Solo
<1>2. \A v \in Worker : \A q, c : ~Joining(job[v], q, c)
  BY DEF Solo, Joining
<1>3. QED
  BY <1>1, <1>2, SubsFrame

LEMMA SubsCreate ==
  ASSUME Solo, Shape, MirrorInv, SubInv, ~raced', NEW w \in Worker, NEW c \in Client, NEW q \in Queue, NEW t \in MsgType,
         CreatePublisher(w, c, q, t) \/ CreateSubscriber(w, c, q, t)
  PROVE  SubInv'
<1>1. /\ redis' = redis /\ cache' = cache /\ loader' = loader /\ loader = NoLoad /\ job[w] = Idle
      /\ subscribed' = subscribed
  BY DEF CreatePublisher, CreateSubscriber, OpenBegins, mem, Free
<1>2. ~Booting
  BY <1>1 DEF Booting
<1>3. \A x \in redis.names : x \in DOMAIN cache
  BY <1>1, <1>2, NotOpening DEF MirrorInv, Covered, Solo
<1>4. PICK k : k = job'[w]
  OBVIOUS
<1>5. SubsFit(redis, cache, k)
  <2>1. CASE CreatePublisher(w, c, q, t)
    <3>1. /\ IsPub(k) /\ k.q = q /\ k.t = t
          /\ \/ q \in redis.names /\ k.pc = "open"
             \/ q \notin redis.names /\ k.pc = "pipe" /\ k.cmds = <<SADD(q), HMSETMeta(q, t)>>
      BY <1>4, <2>1, CreateShape
    <3>2. ~Behind(k, k.q)
      <4>1. ASSUME NEW x, NEW y, NEW z PROVE <<x>> # <<y, z>>
        OBVIOUS
      <4>2. QED
        BY <3>1, <4>1 DEF Behind
    <3>3. NewEmpty(redis, cache, k)
      BY <1>3, <3>1, <3>2 DEF NewEmpty
    <3>4. QED
      BY <3>1, <3>3, FitsBy
  <2>2. CASE CreateSubscriber(w, c, q, t)
    <3>1. IsSub(k) /\ k.pc = "hgetall"
      BY <1>4, <2>2, SubscribeShape
    <3>2. OpenKnown(redis, k)
      BY <3>1 DEF OpenKnown
    <3>3. QED
      BY <3>1, <3>2, FitsBy
  <2>3. QED
    BY <2>1, <2>2
<1>6. ~IsSub(job[w])
  BY <1>1, NotOpening
<1>7. QED
  BY <1>1, <1>4, <1>5, <1>6, SubsAlone DEF SameSubs

LEMMA SubsCheck ==
  ASSUME Solo, Shape, SubInv, NEW w \in Worker, CheckType(w) \/ CheckSubscriber(w)
  PROVE  SubInv'
<1>1. redis' = redis /\ cache' = cache /\ loader' = loader /\ subscribed' = subscribed
  BY DEF CheckType, CheckSubscriber, mem, hist
<1>2. PICK j, k : j = job[w] /\ k = job'[w]
  OBVIOUS
<1>3. j.pc \in {"hgetall", "hexists"}
  BY <1>2 DEF CheckType, CheckSubscriber
<1>4. /\ k = Idle \/ (IsSub(k) /\ k.c = j.c /\ k.q = j.q /\ k.t = j.t)
      /\ k # Idle => \/ k.pc = (IF j.t = PEER2PEER THEN "open" ELSE "hexists")
                     \/ k.pc = IF j.c \in redis.submeta[j.q] THEN "open" ELSE "hmset"
  BY <1>2, <1>3, SubSteps
<1>5. SubsFit(redis, cache, k)
  <2>1. CASE k = Idle
    BY <2>1, FitsBy
  <2>2. CASE k # Idle
    <3>1. OpenKnown(redis, k)
      BY <1>4, <2>2 DEF OpenKnown, PEER2PEER, SUB2PUB
    <3>2. QED
      BY <1>4, <2>2, <3>1, FitsBy
  <2>3. QED
    BY <2>1, <2>2
<1>6. QED
  BY <1>1, <1>2, <1>3, <1>5, SubsAlone DEF SameSubs

LEMMA SubsAdd ==
  ASSUME Solo, Shape, Phase, MirrorInv, SubInv, ~raced, NEW w \in Worker, AddSubscriber(w)
  PROVE  SubInv'
<1>1. cache' = cache /\ loader' = loader /\ subscribed' = subscribed
  BY DEF AddSubscriber, mem, hist
<1>2. PICK j, k, db, d : j = job[w] /\ k = job'[w] /\ db = redis /\ d = redis'
  OBVIOUS
<1>3. IsSub(j) /\ j.pc = "hmset" /\ IsSub(k) /\ k.pc = "pushback" /\ k.c = j.c /\ k.q = j.q
  <2>1. j.pc = "hmset"
    BY <1>2 DEF AddSubscriber
  <2>2. QED
    BY <1>2, <2>1, SubSteps
<1>4. loader = NoLoad /\ SubFits(db, cache, j)
  BY <1>2, <1>3, Subscribing
<1>5. j.q \in Queue /\ j.c \in Client /\ db \in DbRec /\ IsCache(cache)
  BY <1>2, <1>3, SubFields DEF Shape
<1>6. d.names = db.names /\ \A q \in Queue : d.submeta[q] = IF q = j.q THEN db.submeta[q] \cup {j.c} ELSE db.submeta[q]
  <2>1. d = [db EXCEPT !.submeta[j.q] = @ \cup {j.c}]
    BY <1>2 DEF AddSubscriber, Exec, HSETSub
  <2>2. QED
    BY <1>5, <2>1 DEF DbRec
<1>7. \A q, c : ~Joining(j, q, c)
  BY <1>3 DEF Joining
<1>8. Joining(k, j.q, j.c)
  BY <1>3 DEF Joining
<1>9. Listed(d, cache, job')
  <2>1. DOMAIN cache \subseteq Queue
    BY <1>5 DEF IsCache
  <2>2. ASSUME NEW q \in DOMAIN cache, cache[q].type = SUB2PUB, NEW c \in d.submeta[q]
        PROVE  c \in ToSet(cache[q].clients) \/ \E v \in Worker : Joining(job'[v], q, c)
    <3>1. CASE c \in db.submeta[q]
      BY <1>2, <1>7, <2>2, <3>1 DEF SubInv, Listed, Solo
    <3>2. CASE c \notin db.submeta[q]
      <4>1. q = j.q /\ c = j.c
        BY <1>6, <2>1, <2>2, <3>2
      <4>2. QED
        BY <1>2, <1>8, <4>1
    <3>3. QED
      BY <3>1, <3>2
  <2>3. QED
    BY <2>2 DEF Listed
<1>10. SubsFit(d, cache, k)
  <2>1. OpenKnown(d, k)
    BY <1>3 DEF OpenKnown
  <2>2. QED
    BY <1>3, <2>1, FitsBy
<1>11. \A q \in Queue : q \notin d.names => d.submeta[q] = {}
  BY <1>2, <1>4, <1>6 DEF SubInv, SubFits
<1>12. \A c \in Client, q \in Queue : <<c, q>> \in subscribed => c \in d.submeta[q]
  BY <1>2, <1>6 DEF SubInv
<1>13. QED
  BY <1>1, <1>2, <1>4, <1>9, <1>10, <1>11, <1>12 DEF SubInv, Solo

LEMMA SubsJoin ==
  ASSUME Solo, Shape, Phase, MirrorInv, SubInv, ~raced, NEW w \in Worker, CacheSubscriber(w)
  PROVE  SubInv'
<1>1. redis' = redis /\ loader' = loader /\ subscribed' = subscribed
  BY DEF CacheSubscriber, hist
<1>2. PICK j, k, q, g : j = job[w] /\ k = job'[w] /\ q = j.q /\ g = cache'
  OBVIOUS
<1>3. IsSub(j) /\ j.pc = "pushback" /\ IsSub(k) /\ k.pc = "open" /\ k.c = j.c /\ k.q = j.q
  <2>1. j.pc = "pushback"
    BY <1>2 DEF CacheSubscriber
  <2>2. QED
    BY <1>2, <2>1, SubSteps
<1>4. loader = NoLoad /\ SubFits(redis, cache, j) /\ q \in DOMAIN cache
  BY <1>2, <1>3, Subscribing
<1>5. q \in Queue /\ j.c \in Client /\ IsCache(cache)
  BY <1>2, <1>3, SubFields DEF Shape
<1>6. PICK e : e = [Entry(q) EXCEPT !.clients = Append(@, j.c)]
  OBVIOUS
<1>7. e \in EntryRec /\ e.type = Entry(q).type /\ e.clients = Append(Entry(q).clients, j.c)
  BY <1>5, <1>6, EntryShape
<1>8. PICK f \in EntryRec : f = cache[q]
  BY <1>4, <1>5 DEF IsCache
<1>9. f = Entry(q) /\ f.clients \in Seq(Client)
  BY <1>4, <1>8 DEF Entry, EntryRec
<1>10. IsPut(cache, g, q, e)
  <2>1. g = PutQueue(q, e)
    BY <1>2, <1>6 DEF CacheSubscriber
  <2>2. QED
    BY <1>5, <1>7, <2>1, PutShape
<1>11. e.type = f.type /\ ToSet(e.clients) = ToSet(f.clients) \cup {j.c}
  BY <1>5, <1>7, <1>9, AppendClient
<1>12. Listed(redis, g, job')
  <2>1. ASSUME NEW x \in DOMAIN g, g[x].type = SUB2PUB, NEW c \in redis.submeta[x]
        PROVE  c \in ToSet(g[x].clients)
    <3>1. \A v \in Worker : Joining(job[v], x, c) => x = q /\ c = j.c
      BY <1>2 DEF Joining, Solo
    <3>2. CASE x = q
      <4>1. g[q] = e /\ f.type = SUB2PUB
        BY <1>10, <1>11, <2>1, <3>2 DEF IsPut
      <4>2. c \in ToSet(f.clients) \/ c = j.c
        BY <1>4, <1>8, <2>1, <3>1, <3>2, <4>1 DEF SubInv, Listed
      <4>3. QED
        BY <1>11, <3>2, <4>1, <4>2
    <3>3. CASE x # q
      <4>1. x \in DOMAIN cache /\ g[x] = cache[x]
        BY <1>10, <3>3 DEF IsPut
      <4>2. QED
        BY <2>1, <3>1, <3>3, <4>1 DEF SubInv, Listed
    <3>4. QED
      BY <3>2, <3>3
  <2>2. QED
    BY <2>1 DEF Listed
<1>13. SubsFit(redis, g, k)
  <2>1. OpenKnown(redis, k)
    BY <1>3, <1>4 DEF OpenKnown, SubFits
  <2>2. QED
    BY <1>3, <2>1, FitsBy
<1>14. QED
  BY <1>1, <1>2, <1>4, <1>12, <1>13 DEF SubInv, Solo

LEMMA SubsOpen ==
  ASSUME Solo, Shape, Phase, MirrorInv, SubInv, ~raced, NEW w \in Worker, OpenQueue(w)
  PROVE  SubInv'
<1>1. redis' = redis /\ loader' = loader
  BY DEF OpenQueue
<1>2. PICK j, q, g : j = job[w] /\ q = j.q /\ g = cache'
  OBVIOUS
<1>3. /\ j.pc = "open" /\ (IsSub(j) \/ IsPub(j)) /\ q \in Queue /\ j.c \in Client /\ j.t \in MsgType
      /\ job'[w] = Idle
  BY <1>2, OpenShape
<1>4. Opening(j) /\ j # Idle /\ ~Leftover(j)
  BY <1>3, IdleFields DEF Opening, Leftover
<1>5. loader = NoLoad
  BY <1>2, <1>4 DEF Phase
<1>6. SubsFit(redis, cache, j)
  BY <1>2 DEF SubInv
<1>7. IsSub(j) => q \in DOMAIN cache
  BY <1>2, Subscribing
<1>8. \A x, c : \A v \in Worker : ~Joining(job[v], x, c)
  BY <1>2, <1>3 DEF Joining, Solo
<1>9. g = IF q \in DOMAIN cache THEN cache ELSE PutQueue(q, [type |-> j.t, clients |-> <<>>])
  BY <1>2 DEF OpenQueue
<1>10. \A x \in DOMAIN cache : cache[x].type = SUB2PUB => redis.submeta[x] \subseteq ToSet(cache[x].clients)
  BY <1>8 DEF SubInv, Listed
<1>11. Listed(redis, g, job')
  <2>1. CASE q \in DOMAIN cache
    BY <1>9, <1>10, <2>1 DEF Listed
  <2>2. CASE q \notin DOMAIN cache
    <3>1. redis.submeta[q] = {}
      BY <1>2, <1>3, <1>6, <1>7, <2>2 DEF SubsFit, NewEmpty
    <3>2. PICK e : e = [type |-> j.t, clients |-> <<>>]
      OBVIOUS
    <3>3. e \in EntryRec
      BY <1>3, <3>2, FreshEntry
    <3>4. IsPut(cache, g, q, e)
      BY <1>3, <1>9, <2>2, <3>2, <3>3, PutShape
    <3>5. \A x \in DOMAIN g : x = q \/ (x \in DOMAIN cache /\ g[x] = cache[x])
      BY <3>4 DEF IsPut
    <3>6. QED
      BY <1>10, <3>1, <3>5 DEF Listed
  <2>3. QED
    BY <2>1, <2>2
<1>12. \A v \in Worker : SubsFit(redis, g, job'[v])
  BY <1>3, FitsBy DEF Solo
<1>13. ASSUME NEW c \in Client, NEW x \in Queue, <<c, x>> \in subscribed' PROVE c \in redis.submeta[x]
  <2>1. CASE <<c, x>> \in subscribed
    BY <2>1 DEF SubInv
  <2>2. CASE <<c, x>> \notin subscribed
    <3>1. <<c, x>> = <<j.c, q>> /\ j.sub /\ j.t = SUB2PUB
      BY <1>2, <1>13, <2>2 DEF OpenQueue
    <3>2. IsSub(j)
      BY <1>3, <3>1, PubFields
    <3>3. QED
      BY <1>2, <1>3, <1>6, <3>1, <3>2 DEF SubsFit, OpenKnown
  <2>3. QED
    BY <2>1, <2>2
<1>14. QED
  BY <1>1, <1>2, <1>5, <1>11, <1>12, <1>13 DEF SubInv

LEMMA CmdParts ==
  /\ \A q, c, r, e : HSETSub(q, c) = HSETSub(r, e) => c = e
  /\ \A x, y, m : RPUSH(x, m) = RPUSH(y, m) => x = y
  /\ \A q, c, x, m : HSETSub(q, c) # RPUSH(x, m)
  /\ \A q, c, r : HSETSub(q, c) # HSETVisit(r)
  /\ \A q, x, m : HSETVisit(q) # RPUSH(x, m)
<1>1. \A q, c : HSETSub(q, c).c = c
  BY DEF HSETSub
<1>2. \A x, m : RPUSH(x, m).k = x
  BY DEF RPUSH
<1>3. ASSUME NEW q, NEW c, NEW r, NEW e, HSETSub(q, c) = HSETSub(r, e) PROVE c = e
  <2>1. HSETSub(q, c).c = c /\ HSETSub(r, e).c = e
    BY <1>1
  <2>2. QED
    BY <1>3, <2>1
<1>4. ASSUME NEW x, NEW y, NEW m, RPUSH(x, m) = RPUSH(y, m) PROVE x = y
  <2>1. RPUSH(x, m).k = x /\ RPUSH(y, m).k = y
    BY <1>2
  <2>2. QED
    BY <1>4, <2>1
<1>5. /\ \A q, c, x, m : HSETSub(q, c) # RPUSH(x, m)
      /\ \A q, c, r : HSETSub(q, c) # HSETVisit(r)
      /\ \A q, x, m : HSETVisit(q) # RPUSH(x, m)
  BY CmdKinds
<1>6. QED
  BY <1>3, <1>4, <1>5

LEMMA SubKeys ==
  ASSUME NEW q, NEW c, NEW r, NEW e, SubKey(q, c) = SubKey(r, e)
  PROVE  q = r /\ c = e
  BY DEF SubKey

\* The fan-out of a message: one RPUSH for every subscriber in the list.
OncePer(p, q, m) ==
  \A c \in Client : \A x, y \in DOMAIN p : p[x] = RPUSH(SubKey(q, c), m) /\ p[y] = RPUSH(SubKey(q, c), m) => x = y
LEMMA FanOutCmds ==
  ASSUME NEW q \in Queue, NEW e \in EntryRec, NEW m \in Msg, NEW p, p = PushCmds(q, e, m), e.type = SUB2PUB
  PROVE  /\ \A i \in DOMAIN p, c \in Client : p[i] = HSETSub(q, c) => c \in ToSet(e.clients)
         /\ \A c \in ToSet(e.clients) : \E i \in DOMAIN p : p[i] = RPUSH(SubKey(q, c), m)
         /\ IsInjective(e.clients) => OncePer(p, q, m)
<1>1. PICK s \in Seq(Client), n \in Nat : s = e.clients /\ n = Len(s) /\ DOMAIN s = 1..n
  BY DEF EntryRec
<1>2. p = [i \in 1..2 * n |-> IF i % 2 = 1 THEN RPUSH(SubKey(q, s[(i + 1) \div 2]), m) ELSE HSETSub(q, s[i \div 2])]
  BY <1>1 DEF PushCmds
<1>3. DOMAIN p = 1..2 * n
  BY <1>2
<1>4. ASSUME NEW i \in 1..2 * n
      PROVE  /\ i % 2 = 1 => p[i] = RPUSH(SubKey(q, s[(i + 1) \div 2]), m) /\ (i + 1) \div 2 \in 1..n
             /\ i % 2 # 1 => p[i] = HSETSub(q, s[i \div 2]) /\ i \div 2 \in 1..n
  BY <1>1, <1>2, <1>4
<1>5. ASSUME NEW i \in DOMAIN p, NEW c \in Client, p[i] = HSETSub(q, c) PROVE c \in ToSet(e.clients)
  <2>1. i % 2 # 1
    BY <1>3, <1>4, <1>5, CmdParts
  <2>2. c = s[i \div 2] /\ i \div 2 \in DOMAIN s
    BY <1>1, <1>3, <1>4, <1>5, <2>1, CmdParts
  <2>3. QED
    BY <1>1, <2>2 DEF ToSet
<1>6. ASSUME NEW c \in ToSet(e.clients) PROVE \E i \in DOMAIN p : p[i] = RPUSH(SubKey(q, c), m)
  <2>1. PICK h \in 1..n : s[h] = c
    BY <1>1, <1>6 DEF ToSet
  <2>2. PICK i \in 1..2 * n : i % 2 = 1 /\ (i + 1) \div 2 = h
    <3>1. 2 * h - 1 \in 1..2 * n /\ (2 * h - 1) % 2 = 1 /\ (2 * h - 1 + 1) \div 2 = h
      BY <1>1, <2>1
    <3>2. QED
      BY <3>1
  <2>3. p[i] = RPUSH(SubKey(q, c), m)
    BY <1>4, <2>1, <2>2
  <2>4. QED
    BY <1>3, <2>3
<1>7. ASSUME IsInjective(e.clients), NEW c \in Client, NEW x \in DOMAIN p, NEW y \in DOMAIN p,
             p[x] = RPUSH(SubKey(q, c), m), p[y] = RPUSH(SubKey(q, c), m)
      PROVE  x = y
  <2>1. x % 2 = 1 /\ y % 2 = 1
    BY <1>3, <1>4, <1>7, CmdParts
  <2>2. /\ p[x] = RPUSH(SubKey(q, s[(x + 1) \div 2]), m) /\ (x + 1) \div 2 \in 1..n
        /\ p[y] = RPUSH(SubKey(q, s[(y + 1) \div 2]), m) /\ (y + 1) \div 2 \in 1..n
    BY <1>3, <1>4, <2>1
  <2>3. SubKey(q, s[(x + 1) \div 2]) = SubKey(q, c) /\ SubKey(q, s[(y + 1) \div 2]) = SubKey(q, c)
    BY <1>7, <2>2 DEF RPUSH
  <2>4. s[(x + 1) \div 2] = c /\ s[(y + 1) \div 2] = c
    BY <2>3, SubKeys
  <2>5. (x + 1) \div 2 = (y + 1) \div 2
    BY <1>1, <1>7, <2>2, <2>4 DEF IsInjective
  <2>6. x \in Int /\ y \in Int
    BY <1>3
  <2>7. QED
    BY <2>1, <2>5, <2>6
<1>8. QED
  BY <1>5, <1>6, <1>7 DEF OncePer

\* A message for the queue's own list goes to no subscriber.
LEMMA OwnListCmds ==
  ASSUME NEW q \in Queue, NEW m \in Msg, NEW p, p = <<RPUSH(QueueKey(q), m), HSETVisit(q)>>
  PROVE  /\ \A i \in DOMAIN p, c \in Client : p[i] # HSETSub(q, c) /\ p[i] # RPUSH(SubKey(q, c), m)
         /\ OncePer(p, q, m)
<1>1. DOMAIN p = 1..2 /\ p[1] = RPUSH(QueueKey(q), m) /\ p[2] = HSETVisit(q)
  OBVIOUS
<1>2. \A i \in DOMAIN p : i = 1 \/ i = 2
  BY <1>1
<1>3. \A i \in DOMAIN p, c \in Client : p[i] # HSETSub(q, c) /\ p[i] # RPUSH(SubKey(q, c), m)
  BY <1>1, <1>2, CmdParts, KeyKinds
<1>4. QED
  BY <1>3 DEF OncePer

\* SendMsgRequest: the fan-out list mirrors Redis.
LEMMA SubsPush ==
  ASSUME Solo, Shape, MirrorInv, SubInv, NEW w \in Worker, NEW c \in Client, NEW q \in Queue, PushMsg(w, c, q)
  PROVE  SubInv'
<1>1. redis' = redis /\ cache' = cache /\ loader' = loader /\ subscribed' = subscribed /\ job[w] = Idle
  BY DEF PushMsg, Free, mem
<1>2. PICK k, m, e : k = job'[w] /\ m = NewMsg(c) /\ e = cache[q]
  OBVIOUS
<1>3. /\ q \in DOMAIN cache /\ e \in EntryRec /\ m \in Msg
      /\ \/ job' = job
         \/ IsPush(k) /\ k.pc = "pipe" /\ k.q = q /\ k.cmds = PushCmds(q, e, m)
  BY <1>2, PushShape
<1>4. CASE job' = job
  BY <1>1, <1>2, <1>4, FitsBy, SubsAlone, NotOpening DEF SameSubs
<1>5. CASE IsPush(k) /\ k.pc = "pipe" /\ k.q = q /\ k.cmds = PushCmds(q, e, m)
  <2>1. ToSet(e.clients) \subseteq redis.submeta[q]
    BY <1>2, <1>3 DEF MirrorInv, Mirrors, MirrorsQueue
  <2>2. \A i \in DOMAIN k.cmds, x \in Client : k.cmds[i] = HSETSub(q, x) => x \in redis.submeta[q]
    <3>1. CASE e.type = SUB2PUB
      BY <1>3, <1>5, <2>1, <3>1, FanOutCmds
    <3>2. CASE e.type # SUB2PUB
      <4>1. k.cmds = <<RPUSH(QueueKey(q), m), HSETVisit(q)>>
        BY <1>3, <1>5, <3>2, PushCmdsShape
      <4>2. QED
        BY <1>3, <4>1, OwnListCmds
    <3>3. QED
      BY <3>1, <3>2
  <2>3. Known(redis, k)
    BY <1>5, <2>2 DEF Known
  <2>4. SubsFit(redis, cache, k)
    BY <1>5, <2>3, FitsBy
  <2>5. QED
    BY <1>1, <1>2, <2>4, SubsAlone, NotOpening DEF SameSubs
<1>6. QED
  BY <1>3, <1>4, <1>5

\* GetMsgRequest of a subscriber.
LEMMA SubsPop ==
  ASSUME Solo, ~StrayGet, Shape, SubInv, NEW w \in Worker, NEW c \in Client, NEW q \in Queue, PopMsg(w, c, q)
  PROVE  SubInv'
<1>1. redis' = redis /\ cache' = cache /\ loader' = loader /\ subscribed' = subscribed /\ job[w] = Idle
  BY DEF PopMsg, Free, mem, hist
<1>2. PICK k : k = job'[w]
  OBVIOUS
<1>3. /\ IsPop(k) /\ k.pc = "pipe" /\ k.q = q
      /\ \/ cache[q].type = SUB2PUB /\ k.cmds = <<LPOP(SubKey(q, c)), HSETSub(q, c)>>
         \/ cache[q].type # SUB2PUB /\ k.cmds = <<LPOP(QueueKey(q)), HSETVisit(q)>>
  <2>1. IsPop(k) /\ k.pc = "pipe" /\ k.q = q
    BY <1>2, PopShape
  <2>2. \/ cache[q].type = SUB2PUB /\ k.cmds = <<LPOP(SubKey(q, c)), HSETSub(q, c)>>
        \/ cache[q].type # SUB2PUB /\ k.cmds = <<LPOP(QueueKey(q)), HSETVisit(q)>>
    <3>1. Goto(w, [pc |-> "pipe", c |-> c, q |-> q, then |-> "popped", fresh |-> TRUE, got |-> <<>>,
                   cmds |-> IF cache[q].type = SUB2PUB
                            THEN <<LPOP(SubKey(q, c)), HSETSub(q, c)>>
                            ELSE <<LPOP(QueueKey(q)), HSETVisit(q)>>])
      BY DEF PopMsg
    <3>2. job = [v \in Worker |-> job[v]]
      BY DEF Shape
    <3>3. k = [pc |-> "pipe", c |-> c, q |-> q, then |-> "popped", fresh |-> TRUE, got |-> <<>>,
               cmds |-> IF cache[q].type = SUB2PUB
                        THEN <<LPOP(SubKey(q, c)), HSETSub(q, c)>>
                        ELSE <<LPOP(QueueKey(q)), HSETVisit(q)>>]
      BY <1>2, <3>1, <3>2, GotoJob
    <3>4. QED
      BY <3>3
  <2>3. QED
    BY <2>1, <2>2
<1>4. cache[q].type = SUB2PUB => c \in redis.submeta[q]
  BY DEF PopMsg, SubInv, PEER2PEER, SUB2PUB
<1>5. ASSUME NEW x, NEW y PROVE DOMAIN <<x, y>> = 1..2 /\ <<x, y>>[1] = x /\ <<x, y>>[2] = y
  OBVIOUS
<1>6. \A i \in 1..2 : i = 1 \/ i = 2
  OBVIOUS
<1>7. \A x : \A r, e : LPOP(x) # HSETSub(r, e)
  BY CmdKinds
<1>8. \A i \in DOMAIN k.cmds, x \in Client : k.cmds[i] = HSETSub(q, x) => x \in redis.submeta[q]
  BY <1>3, <1>4, <1>5, <1>6, <1>7, CmdParts
<1>9. SubsFit(redis, cache, k)
  <2>1. Known(redis, k)
    BY <1>3, <1>8 DEF Known
  <2>2. QED
    BY <1>3, <2>1, FitsBy
<1>10. QED
  BY <1>1, <1>2, <1>9, SubsAlone, NotOpening DEF SameSubs

LEMMA SubsReply ==
  ASSUME Solo, Shape, SubInv, NEW w \in Worker, Reply(w) \/ GiveUp(w)
  PROVE  SubInv'
<1>1. redis' = redis /\ cache' = cache /\ loader' = loader /\ subscribed' = subscribed
  BY DEF Reply, GiveUp, mem
<1>2. (IsPush(job[w]) \/ IsPop(job[w])) /\ job'[w] = Idle
  BY ReplyShape, GiveUpShape
<1>3. QED
  BY <1>1, <1>2, FitsBy, SubsAlone, NotOpening DEF SameSubs

\* PopMsg's pipeline gets shorter from its front.
LEMMA PopTail ==
  ASSUME Shape, NEW w \in Worker, RedisExec(w), NEW j, j = job[w], NEW k, k = job'[w], IsPop(j), k # Idle
  PROVE  k.cmds = Tail(j.cmds)
<1>1. job = [v \in Worker |-> job[v]]
  BY DEF Shape
<1>2. PICK g : g = Popped(w, Head(j.cmds))
  OBVIOUS
<1>3. Goto(w, After(j, g))
  BY <1>2 DEF RedisExec, After
<1>4. k = After(j, g)
  BY <1>1, <1>3, GotoJob
<1>5. k = [j EXCEPT !.cmds = Tail(j.cmds), !.fresh = FALSE, !.got = g,
                    !.pc = IF Tail(j.cmds) = <<>> THEN j.then ELSE @]
  BY <1>4 DEF After
<1>6. QED
  BY <1>5 DEF IsPop, PopJob

\* A pipeline of a message or of CreatePublisher.
LEMMA SubsExec ==
  ASSUME Solo, Shape, MirrorInv, SubInv, NEW w \in Worker, RedisExec(w)
  PROVE  SubInv'
<1>1. cache' = cache /\ loader' = loader /\ subscribed' = subscribed
  BY DEF RedisExec, mem, hist
<1>2. PICK j, k, db, d : j = job[w] /\ k = job'[w] /\ db = redis /\ d = redis'
  OBVIOUS
<1>3. /\ j.pc = "pipe"
      /\ \/ IsPub(j) /\ PubExec(j, k)
         \/ IsPush(j) /\ PushExec(j, k)
         \/ IsPop(j) /\ PopExec(j, k)
  BY <1>2, ExecShape
<1>4. SubsFit(db, cache, j) /\ db \in DbRec
  BY <1>2 DEF SubInv, Shape
<1>5. SameSubs(db, d)
  BY <1>2, <1>4, SubsKept DEF SubsFit
<1>6. d.submeta = db.submeta
  BY <1>5 DEF SameSubs
<1>7. db.names \subseteq d.names
  <2>1. [Next]_vars
    BY DEF Next, Message
  <2>2. QED
    BY <1>2, <2>1, MetaStep
<1>8. SubsFit(d, cache, k)
  <2>1. CASE k = Idle
    BY <2>1, FitsBy
  <2>2. CASE IsPub(j) /\ PubExec(j, k) /\ k # Idle
    <3>1. IsPub(k) /\ k.q = j.q /\ j.q \in Queue
      BY <2>2, PubFields DEF PubExec
    <3>2. db.submeta[j.q] = {}
      <4>1. CASE Behind(j, j.q)
        BY <1>4, <2>2, <4>1 DEF SubsFit, NewEmpty
      <4>2. CASE ~Behind(j, j.q)
        <5>1. j.q \notin db.names
          BY <1>2, <1>3, <2>2, <4>2 DEF MirrorInv, OpenFits, PubFits
        <5>2. QED
          BY <1>2, <3>1, <5>1 DEF SubInv
      <4>3. QED
        BY <4>1, <4>2
    <3>3. NewEmpty(d, cache, k)
      BY <1>6, <3>1, <3>2 DEF NewEmpty
    <3>4. QED
      BY <3>1, <3>3, FitsBy
  <2>3. CASE k # Idle /\ ((IsPush(j) /\ PushExec(j, k)) \/ (IsPop(j) /\ PopExec(j, k)))
    <3>1. PICK S : j.cmds \in Seq(S) /\ j.cmds # <<>>
      BY <1>3, <2>3, PipeCmds
    <3>2. (IsPush(k) \/ IsPop(k)) /\ k.q = j.q
      BY <2>3 DEF PushExec, PopExec
    <3>3. k.pc = "pipe" => k.cmds = Tail(j.cmds)
      <4>1. k.pc # "idle"
        BY <3>2, PushFields, PopFields
      <4>2. CASE IsPush(j) /\ PushExec(j, k)
        BY <2>3, <4>2 DEF PushExec
      <4>3. CASE IsPop(j) /\ PopExec(j, k)
        BY <1>2, <2>3, <4>3, PopTail
      <4>4. QED
        BY <2>3, <4>2, <4>3
    <3>4. Known(db, j)
      BY <1>4 DEF SubsFit
    <3>5. Known(d, k)
      <4>1. SUFFICES ASSUME k.pc = "pipe", NEW i \in DOMAIN k.cmds, NEW c \in Client, k.cmds[i] = HSETSub(k.q, c)
                     PROVE  c \in d.submeta[k.q]
        BY DEF Known
      <4>2. i + 1 \in DOMAIN j.cmds /\ j.cmds[i + 1] = HSETSub(j.q, c)
        <5>1. i \in DOMAIN Tail(j.cmds) /\ Tail(j.cmds)[i] = HSETSub(j.q, c)
          BY <3>2, <3>3, <4>1
        <5>2. QED
          BY <3>1, <5>1, HeadFirst
      <4>3. QED
        BY <1>3, <1>6, <2>3, <3>2, <3>4, <4>2 DEF Known
    <3>6. QED
      BY <3>2, <3>5, FitsBy
  <2>4. QED
    BY <1>3, <2>1, <2>2, <2>3
<1>9. ~IsSub(j)
  BY <1>3, SubFields
<1>10. QED
  BY <1>1, <1>2, <1>5, <1>7, <1>8, <1>9, SubsAlone

\* LoadQueues: the new table has every subscriber of the queues it is done
\* with.
LEMMA SubsLoad ==
  ASSUME Shape, Phase, SubInv, ~raced, LoadQueues
  PROVE  SubInv'
<1>1. job' = job /\ redis' = redis /\ subscribed' = subscribed
  <2>1. ASSUME NEW q, LoadQueue(q) PROVE job' = job /\ redis' = redis /\ subscribed' = subscribed
    BY <2>1 DEF LoadQueue, hist
  <2>2. CASE LoadClients
    BY <2>2 DEF LoadClients, hist
  <2>3. CASE LoadMeta \/ LoadNames \/ LoadFails \/ SwapCache
    BY <2>3 DEF LoadMeta, LoadNames, LoadFails, SwapCache, hist
  <2>4. QED
    BY <2>1, <2>2, <2>3 DEF LoadQueues
<1>2. PICK l, n : l = loader /\ n = loader'
  OBVIOUS
<1>3. SUFFICES /\ Listed(redis, cache', job)
               /\ n # NoLoad /\ n.pc # "smembers" => LoadListed(redis, n)
               /\ \A w \in Worker : SubsFit(redis, cache', job[w])
  BY <1>1, <1>2 DEF SubInv
<1>4. ASSUME cache' = cache
      PROVE  Listed(redis, cache', job) /\ \A w \in Worker : SubsFit(redis, cache', job[w])
  BY <1>4 DEF SubInv
<1>5. CASE LoadMeta
  <2>1. PICK b \in BOOLEAN : ~b /\ StartLoad(b)
    BY <1>5 DEF LoadMeta
  <2>2. n.pc = "smembers"
    BY <1>2, <2>1, StartShape
  <2>3. cache' = cache
    BY <1>5 DEF LoadMeta, mem
  <2>4. QED
    BY <1>4, <2>2, <2>3
<1>6. CASE LoadNames
  <2>1. LoadJob(l) /\ l.pc = "smembers" /\ n.tmp = l.tmp
    BY <1>2, <1>6, NamesShape
  <2>2. l # NoLoad
    BY <2>1, LoadFields
  <2>3. n.tmp = EmptyCache
    BY <1>2, <2>1, <2>2 DEF Phase
  <2>4. LoadListed(redis, n)
    BY <2>3, EmptyIsCache DEF LoadListed
  <2>5. cache' = cache
    BY <1>6 DEF LoadNames, mem
  <2>6. QED
    BY <1>4, <2>4, <2>5
<1>7. ASSUME NEW q \in Queue, LoadQueue(q)
      PROVE  cache' = cache /\ (n # NoLoad /\ n.pc # "smembers" => LoadListed(redis, n))
  <2>1. LoadJob(l) /\ l.pc = "queue" /\ q \in l.todo
    BY <1>2, <1>7, QueueShape
  <2>2. \/ n.pc = "smembers"
        \/ n = NoLoad
        \/ Loaded(l, n, q)
    BY <1>2, <1>7, QueueShape
  <2>3. cache' = cache /\ l # NoLoad /\ LoadListed(redis, l)
    BY <1>2, <1>7, <2>1, LoadFields DEF LoadQueue, mem, SubInv
  <2>4. ASSUME Loaded(l, n, q) PROVE LoadListed(redis, n)
    <3>1. PICK e : e = [type |-> redis.meta[q], clients |-> <<>>]
      OBVIOUS
    <3>2. e.type = redis.meta[q]
      BY <3>1
    <3>3. n.tmp[q] = e /\ n.at = q /\ (e.type = SUB2PUB => n.pc = "clients")
      BY <2>4, <3>1, <3>2 DEF Loaded
    <3>4. \A x \in DOMAIN n.tmp : x = q \/ (x \in DOMAIN l.tmp /\ n.tmp[x] = l.tmp[x])
      BY <2>4 DEF Loaded
    <3>5. \A x \in DOMAIN l.tmp : l.tmp[x].type = SUB2PUB => redis.submeta[x] \subseteq ToSet(l.tmp[x].clients)
      BY <2>1, <2>3 DEF LoadListed
    <3>6. QED
      BY <3>3, <3>4, <3>5 DEF LoadListed
  <2>5. QED
    BY <2>2, <2>3, <2>4
<1>8. CASE LoadClients
  <2>1. /\ LoadJob(l) /\ LoadJob(n) /\ l.pc = "clients" /\ l.at \in DOMAIN l.tmp /\ DOMAIN n.tmp = DOMAIN l.tmp
        /\ ToSet(n.tmp[l.at].clients) = redis.submeta[l.at]
    BY <1>2, <1>8, ClientsShape
  <2>2. \A x \in DOMAIN l.tmp : x # l.at => n.tmp[x] = l.tmp[x]
    BY <1>2, <1>8, ClientsShape
  <2>3. l # NoLoad
    BY <2>1, LoadFields
  <2>4. cache' = cache /\ LoadListed(redis, l)
    BY <1>2, <1>8, <2>1, <2>3 DEF LoadClients, mem, SubInv
  <2>5. LoadListed(redis, n)
    BY <2>1, <2>2, <2>4 DEF LoadListed
  <2>6. QED
    BY <1>4, <2>4, <2>5
<1>9. CASE SwapCache
  <2>1. n = NoLoad /\ l.pc = "queue" /\ cache' = l.tmp
    BY <1>2, <1>9 DEF SwapCache
  <2>2. l # NoLoad
    BY <2>1 DEF NoLoad
  <2>3. LoadListed(redis, l)
    BY <1>2, <2>1, <2>2 DEF SubInv
  <2>4. Listed(redis, l.tmp, job)
    BY <2>1, <2>3 DEF Listed, LoadListed
  <2>5. ASSUME NEW w \in Worker PROVE SubsFit(redis, l.tmp, job[w])
    <3>1. job[w] = Idle \/ IsPush(job[w]) \/ IsPop(job[w])
      BY <1>2, <2>1, <2>2, Settled
    <3>2. Known(redis, job[w])
      BY DEF SubInv, SubsFit
    <3>3. QED
      BY <3>1, <3>2, FitsBy
  <2>6. QED
    BY <2>1, <2>4, <2>5
<1>10. CASE LoadFails
  <2>1. l # NoLoad /\ GiveUpLoad /\ cache' = cache
    BY <1>2, <1>10 DEF LoadFails, mem
  <2>2. n = NoLoad \/ n.pc = "smembers"
    BY <1>2, <2>1, FailShape DEF Shape
  <2>3. QED
    BY <1>4, <2>1, <2>2
<1>11. QED
  BY <1>4, <1>5, <1>6, <1>7, <1>8, <1>9, <1>10 DEF LoadQueues

\* The process dies: nobody is forgotten, for nothing is cached.
LEMMA SubsCrash ==
  ASSUME Shape, SubInv, Crash
  PROVE  SubInv'
<1>1. redis' = redis /\ cache' = EmptyCache /\ subscribed' = subscribed
  BY DEF Crash
<1>2. PICK b \in BOOLEAN : b /\ StartLoad(b)
  BY DEF Crash
<1>3. PICK n : n = loader'
  OBVIOUS
<1>4. n.pc = "smembers"
  BY <1>2, <1>3, StartShape
<1>5. Listed(redis, EmptyCache, job')
  BY EmptyIsCache DEF Listed
<1>6. ASSUME NEW w \in Worker PROVE SubsFit(redis, EmptyCache, job'[w])
  <2>1. PICK lost \in SUBSET Worker : job' = [v \in Worker |-> Orphan(v, v \in lost)]
    BY DEF Crash
  <2>2. PICK j, k : j = job[w] /\ k = job'[w]
    OBVIOUS
  <2>3. k = Orphan(w, w \in lost) /\ JobOK(j) /\ SubsFit(redis, cache, j)
    BY <2>1, <2>2 DEF Shape, SubInv
  <2>4. CASE k = Idle
    BY <2>2, <2>4, FitsBy
  <2>5. CASE k # Idle
    <3>1. /\ j.pc = "pipe" /\ k.pc = "pipe" /\ k.cmds = j.cmds /\ k.q = j.q
          /\ \/ IsPub(j) /\ IsPub(k) /\ k.t = j.t
             \/ IsPush(j) /\ IsPush(k) /\ k.ack = j.ack
             \/ IsPop(j) /\ IsPop(k)
      BY <2>2, <2>3, <2>5, OrphanJob
    <3>2. CASE IsPub(j) /\ IsPub(k) /\ k.t = j.t
      <4>1. Behind(k, k.q) <=> Behind(j, j.q)
        BY <3>1, <3>2 DEF Behind
      <4>2. NewEmpty(redis, cache, j)
        BY <2>3 DEF SubsFit
      <4>3. NewEmpty(redis, EmptyCache, k)
        BY <3>1, <3>2, <4>1, <4>2 DEF NewEmpty
      <4>4. QED
        BY <2>2, <3>2, <4>3, FitsBy
    <3>3. CASE (IsPush(j) /\ IsPush(k)) \/ (IsPop(j) /\ IsPop(k))
      <4>1. Known(redis, j)
        BY <2>3 DEF SubsFit
      <4>2. Known(redis, k)
        BY <3>1, <3>3, <4>1 DEF Known
      <4>3. QED
        BY <2>2, <3>3, <4>2, FitsBy
    <3>4. QED
      BY <3>1, <3>2, <3>3
  <2>6. QED
    BY <2>4, <2>5
<1>7. QED
  BY <1>1, <1>3, <1>4, <1>5, <1>6 DEF SubInv

LEMMA SubsStep ==
  ASSUME Solo, ~StrayGet, Shape, Phase, MirrorInv, SubInv, ~raced, ~raced', [Next]_vars
  PROVE  SubInv'
<1>1. ASSUME NEW w \in Worker, Open(w) PROVE SubInv'
  BY <1>1, SubsCreate, SubsCheck, SubsAdd, SubsJoin, SubsOpen DEF Open
<1>2. ASSUME NEW w \in Worker, Message(w) PROVE SubInv'
  BY <1>2, SubsPush, SubsPop, SubsExec, SubsReply DEF Message
<1>3. CASE (\E c \in Client, q \in Queue : CloseQueue(c, q)) \/ UNCHANGED vars
  <2>1. redis' = redis /\ cache' = cache /\ loader' = loader /\ job' = job /\ subscribed' = subscribed
    BY <1>3 DEF CloseQueue, vars, hist
  <2>2. QED
    BY <2>1 DEF SubInv
<1>4. QED
  BY <1>1, <1>2, <1>3, SubsLoad, SubsCrash DEF Next

\* How a step changes a subscriber's list: a worker's message for it may be
\* appended.
Serves(w, q, c) ==
  RedisExec(w) /\ IsPush(job[w]) /\ job[w].pc = "pipe" /\ job[w].q = q /\ Head(job[w].cmds) = ToSub(job[w], c)
LEMMA SubListStep ==
  ASSUME Shape, [Next]_vars, NEW q \in Queue, NEW c \in Client,
         NEW s, s = SubList(redis, q, c), NEW t, t = SubList(redis', q, c)
  PROVE  /\ s \in Seq(Msg)
         /\ \/ t = s
            \/ \E w \in Worker : Serves(w, q, c) /\ t = Append(s, job[w].ack.m)
<1> PICK db, d, k : db = redis /\ d = redis' /\ k = SubKey(q, c)
  OBVIOUS
<1>1. db \in DbRec /\ k \in Keys
  BY KeysOf DEF Shape
<1>2. s \in Seq(Msg) /\ s = ThroughOf(db, k) /\ t = ThroughOf(d, k)
  BY <1>1, ThroughSeq DEF SubList
<1>3. CASE SameThrough(db, d)
  BY <1>1, <1>2, <1>3 DEF SameThrough
<1>4. ASSUME NEW w \in Worker, NEW x \in Keys, RedisExec(w), Pushes(job[w], x), Pushed(db, d, x, job[w].ack.m)
      PROVE  t = s \/ (Serves(w, q, c) /\ t = Append(s, job[w].ack.m))
  <2>1. CASE x # k
    BY <1>1, <1>2, <1>4, <2>1 DEF Pushed
  <2>2. CASE x = k
    <3>1. job[w].q \in Queue /\ IsPush(job[w]) /\ job[w].pc = "pipe"
      BY <1>4, PushFields DEF Pushes
    <3>2. k # QueueKey(job[w].q)
      BY <3>1, KeyKinds
    <3>3. Head(job[w].cmds) = RPUSH(k, job[w].ack.m) /\ \E e \in Client : k = SubKey(job[w].q, e)
      BY <1>4, <2>2, <3>2 DEF Pushes
    <3>4. job[w].q = q
      BY <3>3, SubKeys
    <3>5. Serves(w, q, c)
      BY <1>4, <3>1, <3>3, <3>4 DEF Serves, ToSub
    <3>6. t = Append(s, job[w].ack.m)
      BY <1>2, <1>4, <2>2 DEF Pushed
    <3>7. QED
      BY <3>5, <3>6
  <2>3. QED
    BY <2>1, <2>2
<1>5. QED
  BY <1>2, <1>3, <1>4, ThroughStep

LEMMA AheadNow ==
  ASSUME NEW j, IsPush(j), j.pc = "pipe", NEW c, Head(j.cmds) = ToSub(j, c)
  PROVE  Ahead(j, c)
<1>1. PICK S : j.cmds \in Seq(S) /\ j.cmds # <<>>
  BY PipeCmds
<1>2. 1 \in DOMAIN j.cmds /\ j.cmds[1] = ToSub(j, c)
  BY <1>1, HeadFirst
<1>3. QED
  BY <1>2 DEF Ahead

LEMMA ServeList ==
  ASSUME Shape, ServeInv, [Next]_vars, NEW q \in Queue, NEW c \in Client,
         NEW s, s = SubList(redis, q, c), NEW t, t = SubList(redis', q, c)
  PROVE  /\ Distinct(t)
         /\ \A x : Holds(s, x) => Holds(t, x)
         /\ (\A w \in Worker : ~Serves(w, q, c)) => t = s
<1>1. s \in Seq(Msg) /\ Distinct(s)
  BY SubListStep DEF ServeInv
<1>2. CASE t = s
  BY <1>1, <1>2
<1>3. ASSUME NEW w \in Worker, Serves(w, q, c), t = Append(s, job[w].ack.m)
      PROVE  Distinct(t) /\ \A x : Holds(s, x) => Holds(t, x)
  <2>1. PICK j : j = job[w]
    OBVIOUS
  <2>2. IsPush(j) /\ j.pc = "pipe" /\ j.q = q /\ Head(j.cmds) = ToSub(j, c)
    BY <1>3, <2>1 DEF Serves
  <2>3. PICK m \in Msg : m = j.ack.m
    BY <2>2, PushFields
  <2>4. ~Holds(s, m)
    BY <2>1, <2>2, <2>3, AheadNow DEF ServeInv, FanFits
  <2>5. t = Append(s, m)
    BY <1>3, <2>1, <2>3
  <2>6. /\ Distinct(s) /\ ~Holds(s, m) => Distinct(t)
        /\ \A x : Holds(t, x) <=> Holds(s, x) \/ x = m
    BY <1>1, <2>5, AppendMsg, ZenonT(60)
  <2>7. QED
    BY <1>1, <2>4, <2>6
<1>4. QED
  BY <1>2, <1>3, SubListStep

\* The RPUSH puts the message into the list.
LEMMA ServedNow ==
  ASSUME Shape, NEW w \in Worker, NEW q \in Queue, NEW c \in Client, Serves(w, q, c)
  PROVE  Holds(SubList(redis', q, c), job[w].ack.m)
<1> PICK db, d, j, k, x : db = redis /\ d = redis' /\ j = job[w] /\ k = job'[w] /\ x = SubKey(q, c)
  OBVIOUS
<1>1. db \in DbRec /\ x \in Keys
  BY KeysOf DEF Shape
<1>2. RedisExec(w) /\ IsPush(j) /\ j.pc = "pipe" /\ j.q = q /\ Head(j.cmds) = RPUSH(x, j.ack.m)
  BY DEF Serves, ToSub
<1>3. PICK m \in Msg : m = j.ack.m
  BY <1>2, PushFields
<1>4. PushExec(j, k)
  BY <1>2, ExecShape, PubIsPub, PushIsPush
<1>5. d = Exec(db, RPUSH(x, m))
  <2>1. RPUSH(x, m) # HSETVisit(q) /\ \A e : RPUSH(x, m) # HSETSub(q, e)
    BY CmdParts
  <2>2. \A e : RPUSH(SubKey(q, e), m) = RPUSH(x, m) => SubKey(q, e) = x
    BY CmdParts
  <2>3. j.cmds # <<RPUSH(QueueKey(q), m), HSETVisit(q)>>
    <3>1. ASSUME NEW y, NEW z PROVE Head(<<y, z>>) = y
      OBVIOUS
    <3>2. RPUSH(QueueKey(q), m) # RPUSH(x, m)
      BY CmdParts, KeyKinds
    <3>3. QED
      BY <1>2, <1>3, <3>1, <3>2
  <2>4. QED
    BY <1>2, <1>3, <1>4, <2>1, <2>2, <2>3 DEF PushExec
<1>6. ThroughOf(d, x) = Append(ThroughOf(db, x), m) /\ ThroughOf(db, x) \in Seq(Msg)
  BY <1>1, <1>5, ThroughExec, ThroughSeq DEF Pushed
<1>7. Holds(ThroughOf(d, x), m)
  <2>1. PICK s, t : s \in Seq(Msg) /\ s = ThroughOf(db, x) /\ t = Append(s, m)
    BY <1>6
  <2>2. Holds(t, m) <=> Holds(s, m) \/ m = m
    BY <2>1, AppendMsg, ZenonT(60)
  <2>3. QED
    BY <1>6, <2>1, <2>2
<1>8. QED
  BY <1>3, <1>7 DEF SubList

\* The fan-out goes on: one subscriber after the other, each of them once.
LEMMA FanExec ==
  ASSUME Solo, Shape, ServeInv, NEW w \in Worker, RedisExec(w), NEW k, k = job'[w], IsPush(k)
  PROVE  FanFits(redis', k)
<1> PICK j, d : j = job[w] /\ d = redis'
  OBVIOUS
<1>1. [Next]_vars
  BY DEF Next, Message
<1>2. k # Idle /\ j.pc = "pipe"
  BY IdleFields, ExecShape
<1>3. IsPush(j) /\ PushExec(j, k)
  <2>1. \/ IsPub(j) /\ PubExec(j, k)
        \/ IsPush(j) /\ PushExec(j, k)
        \/ IsPop(j) /\ PopExec(j, k)
    BY ExecShape
  <2>2. ~PubExec(j, k)
    BY <1>2, PubIsPub DEF PubExec
  <2>3. ~PopExec(j, k)
    BY <1>2, PushIsPush DEF PopExec
  <2>4. QED
    BY <2>1, <2>2, <2>3
<1>4. /\ k.q = j.q /\ k.ack = j.ack /\ (k.pc = "pipe" => k.cmds = Tail(j.cmds))
      /\ k.pc # "pipe" => Tail(j.cmds) = <<>>
  BY <1>2, <1>3 DEF PushExec
<1>5. PICK S : j.cmds \in Seq(S) /\ j.cmds # <<>>
  BY <1>2, <1>3, PipeCmds
<1>6. PICK p, r : p = j.cmds /\ r = Tail(j.cmds)
  OBVIOUS
<1>7. /\ 1 \in DOMAIN p /\ p[1] = Head(p)
      /\ \A i \in DOMAIN r : i + 1 \in DOMAIN p /\ r[i] = p[i + 1]
      /\ \A i \in DOMAIN p : i = 1 \/ (i - 1 \in DOMAIN r /\ r[i - 1] = p[i])
  BY <1>5, <1>6, HeadFirst
<1>8. \A i \in DOMAIN r : i \in Nat /\ i # 0
  <2>1. r \in Seq(S)
    BY <1>5, <1>6, HeadTailProperties
  <2>2. QED
    BY <2>1
<1>9. FanFits(redis, j) /\ j.q \in Queue /\ j.ack.to \subseteq Client
  BY <1>3, PushFields DEF ServeInv, AckRec
<1>10. \A c : ToSub(k, c) = ToSub(j, c)
  BY <1>4 DEF ToSub
<1>11. \A c \in Client : \A x, y \in DOMAIN p : p[x] = ToSub(j, c) /\ p[y] = ToSub(j, c) => x = y
  BY <1>2, <1>3, <1>6, <1>9 DEF FanFits
<1>12. ASSUME NEW c \in Client, k.pc = "pipe", NEW x \in DOMAIN k.cmds, NEW y \in DOMAIN k.cmds,
              k.cmds[x] = ToSub(k, c), k.cmds[y] = ToSub(k, c)
       PROVE  x = y
  <2>1. x \in DOMAIN r /\ y \in DOMAIN r /\ r[x] = ToSub(j, c) /\ r[y] = ToSub(j, c)
    BY <1>4, <1>6, <1>10, <1>12
  <2>2. x + 1 = y + 1
    BY <1>7, <1>11, <2>1
  <2>3. x \in Nat /\ y \in Nat
    BY <1>8, <2>1
  <2>4. QED
    BY <2>2, <2>3
<1>13. \A v \in Worker : \A c : Serves(v, j.q, c) => Head(p) = ToSub(j, c)
  BY <1>6 DEF Serves, Solo
<1>14. ASSUME NEW c \in Client, Ahead(k, c) PROVE ~Holds(SubList(d, k.q, c), k.ack.m)
  <2>1. PICK i \in DOMAIN r : r[i] = ToSub(j, c)
    BY <1>4, <1>6, <1>10, <1>14 DEF Ahead
  <2>2. i + 1 \in DOMAIN p /\ p[i + 1] = ToSub(j, c)
    BY <1>7, <2>1
  <2>3. i + 1 # 1
    BY <1>8, <2>1
  <2>4. Head(p) # ToSub(j, c)
    BY <1>7, <1>11, <2>2, <2>3
  <2>5. PICK s, t : s = SubList(redis, j.q, c) /\ t = SubList(d, j.q, c)
    OBVIOUS
  <2>6. t = s
    BY <1>1, <1>9, <1>13, <2>4, <2>5, ServeList
  <2>7. ~Holds(s, j.ack.m)
    BY <1>2, <1>3, <1>6, <1>9, <2>2, <2>5 DEF FanFits, Ahead
  <2>8. QED
    BY <1>4, <2>5, <2>6, <2>7
<1>15. ASSUME NEW c \in k.ack.to PROVE Ahead(k, c) \/ Holds(SubList(d, k.q, c), k.ack.m)
  <2>1. c \in Client /\ c \in j.ack.to
    BY <1>4, <1>9, <1>15
  <2>2. CASE Holds(SubList(redis, j.q, c), j.ack.m)
    <3>1. PICK s, t : s = SubList(redis, j.q, c) /\ t = SubList(d, j.q, c)
      OBVIOUS
    <3>2. Holds(t, j.ack.m)
      BY <1>1, <1>9, <2>1, <2>2, <3>1, ServeList
    <3>3. QED
      BY <1>4, <3>1, <3>2
  <2>3. ASSUME NEW i \in DOMAIN p, p[i] = ToSub(j, c) PROVE Ahead(k, c) \/ Holds(SubList(d, k.q, c), k.ack.m)
    <3>1. CASE i = 1
      <4>1. Serves(w, j.q, c)
        BY <1>2, <1>3, <1>6, <1>7, <2>3, <3>1 DEF Serves
      <4>2. QED
        BY <1>4, <1>9, <2>1, <4>1, ServedNow
    <3>2. CASE i # 1
      <4>1. i - 1 \in DOMAIN r /\ r[i - 1] = ToSub(j, c)
        BY <1>7, <2>3, <3>2
      <4>2. k.pc = "pipe"
        <5>1. r # <<>>
          BY <4>1
        <5>2. QED
          BY <1>4, <1>6, <5>1
      <4>3. QED
        BY <1>4, <1>6, <1>10, <4>1, <4>2 DEF Ahead
    <3>3. QED
      BY <3>1, <3>2
  <2>4. QED
    BY <1>3, <1>6, <1>9, <2>1, <2>2, <2>3 DEF FanFits, Ahead
<1>16. QED
  BY <1>12, <1>14, <1>15 DEF FanFits

\* SendMsgRequest: everybody who was told SUCCESS is in the fan-out list.
LEMMA PushTo ==
  ASSUME Solo, Shape, MirrorInv, SubInv, NEW w \in Worker, NEW c \in Client, NEW q \in Queue, PushMsg(w, c, q),
         NEW m, m = NewMsg(c), NEW e, e = cache[q], NEW a, a = Ack(q, e, m)
  PROVE  a.to \subseteq Client /\ a.to \subseteq ToSet(e.clients) /\ (e.type # SUB2PUB => a.to = {})
<1>1. q \in DOMAIN cache /\ e \in EntryRec /\ m \in Msg
  BY PushShape
<1>2. e.type = redis.meta[q]
  BY <1>1 DEF MirrorInv, Mirrors, MirrorsQueue
<1>3. a.to = IF redis.meta[q] = SUB2PUB THEN {x \in Client : <<x, q>> \in subscribed} ELSE {}
  <2>1. PICK to : to = IF redis.meta[q] = SUB2PUB THEN {x \in Client : <<x, q>> \in subscribed} ELSE {}
    OBVIOUS
  <2>2. PICK peer \in BOOLEAN : peer = (e.type = PEER2PEER)
    OBVIOUS
  <2>3. a = [m |-> m, q |-> q, peer |-> peer, to |-> to]
    BY <2>1, <2>2 DEF Ack
  <2>4. QED
    BY <2>1, <2>3
<1>4. CASE e.type = SUB2PUB
  <2>1. job[w] = Idle
    BY DEF PushMsg, Free
  <2>2. \A v \in Worker : \A x : ~Joining(job[v], q, x)
    BY <2>1, NotOpening DEF Joining, Solo
  <2>3. redis.submeta[q] \subseteq ToSet(e.clients)
    BY <1>1, <1>4, <2>2 DEF SubInv, Listed
  <2>4. \A x \in a.to : x \in Client /\ x \in redis.submeta[q]
    BY <1>2, <1>3, <1>4 DEF SubInv
  <2>5. QED
    BY <1>4, <2>3, <2>4
<1>5. CASE e.type # SUB2PUB
  BY <1>2, <1>3, <1>5
<1>6. QED
  BY <1>4, <1>5

LEMMA FanPush ==
  ASSUME Solo, Shape, MirrorInv, SubInv, Numbered, NEW w \in Worker, NEW c \in Client, NEW q \in Queue,
         PushMsg(w, c, q), NEW k, k = job'[w], IsPush(k)
  PROVE  FanFits(redis', k)
<1>1. PICK m, e, a, p : m = NewMsg(c) /\ e = cache[q] /\ a = Ack(q, e, m) /\ p = PushCmds(q, e, m)
  OBVIOUS
<1>2. redis' = redis /\ job[w] = Idle
  BY DEF PushMsg, Free
<1>3. k # Idle
  BY IdleFields
<1>4. /\ q \in DOMAIN cache /\ e \in EntryRec /\ m \in Msg /\ m.n = sent + 1
      /\ \/ job' = job
         \/ k.pc = "pipe" /\ k.q = q /\ k.ack = Ack(q, e, m) /\ k.cmds = PushCmds(q, e, m)
  BY <1>1, PushShape
<1>5. k.pc = "pipe" /\ k.q = q /\ k.ack = a /\ k.cmds = p /\ k.ack.m = m
  <2>1. a.m = m
    BY <1>1, <1>4, AckShape
  <2>2. QED
    BY <1>1, <1>2, <1>3, <1>4, <2>1
<1>6. \A x : ToSub(k, x) = RPUSH(SubKey(q, x), m)
  BY <1>5 DEF ToSub
<1>7. a.to \subseteq Client /\ a.to \subseteq ToSet(e.clients) /\ (e.type # SUB2PUB => a.to = {})
  BY <1>1, PushTo
<1>8. OncePer(p, q, m) /\ \A x \in a.to : \E i \in DOMAIN p : p[i] = RPUSH(SubKey(q, x), m)
  <2>1. CASE e.type = SUB2PUB
    <3>1. IsInjective(e.clients)
      BY <1>1, <1>4 DEF MirrorInv, Mirrors, MirrorsQueue
    <3>2. QED
      BY <1>1, <1>4, <1>7, <2>1, <3>1, FanOutCmds
  <2>2. CASE e.type # SUB2PUB
    <3>1. p = <<RPUSH(QueueKey(q), m), HSETVisit(q)>>
      BY <1>1, <1>4, <2>2, PushCmdsShape
    <3>2. QED
      BY <1>4, <1>7, <2>2, <3>1, OwnListCmds
  <2>3. QED
    BY <2>1, <2>2
<1>9. ASSUME NEW x \in Client PROVE ~Holds(SubList(redis, q, x), m)
  <2>1. PICK s : s = SubList(redis, q, x)
    OBVIOUS
  <2>2. SubKey(q, x) \in Keys /\ redis \in DbRec /\ sent \in Nat
    BY KeysOf DEF Shape
  <2>3. s \in Seq(Msg) /\ Bounded(s, sent)
    BY <2>1, <2>2, ThroughSeq DEF SubList, Numbered
  <2>4. QED
    BY <1>4, <2>1, <2>2, <2>3, BoundedMore
<1>10. \A x \in Client : \A y, z \in DOMAIN k.cmds : k.cmds[y] = ToSub(k, x) /\ k.cmds[z] = ToSub(k, x) => y = z
  BY <1>5, <1>6, <1>8 DEF OncePer
<1>11. \A x \in k.ack.to : Ahead(k, x)
  BY <1>5, <1>6, <1>8 DEF Ahead
<1>12. QED
  BY <1>2, <1>5, <1>9, <1>10, <1>11 DEF FanFits

\* Where an answer SUCCESS comes from, when subscribers matter.
LEMMA AckTo ==
  ASSUME Solo, Shape, MirrorInv, SubInv, [Next]_vars, NEW a \in acked'
  PROVE  \/ a \in acked
         \/ a.to = {}
         \/ \E w \in Worker : IsPush(job[w]) /\ job[w].pc = "pushed" /\ a = job[w].ack
<1>1. ASSUME NEW w \in Worker, Reply(w)
      PROVE  a \in acked \/ (IsPush(job[w]) /\ job[w].pc = "pushed" /\ a = job[w].ack)
  BY <1>1, ReplyShape
<1>2. ASSUME NEW w \in Worker, NEW c \in Client, NEW q \in Queue, PushMsg(w, c, q), a \notin acked PROVE a.to = {}
  <2>1. PICK m, e, p : m = NewMsg(c) /\ e = cache[q] /\ p = PushCmds(q, e, m)
    OBVIOUS
  <2>2. /\ e \in EntryRec /\ m \in Msg
        /\ \/ e.type = SUB2PUB /\ PushCmds(q, e, m) = <<>> /\ acked' = acked \cup {Ack(q, e, m)}
           \/ acked' = acked
    BY <1>2, <2>1, PushShape
  <2>3. e.type = SUB2PUB /\ p = <<>> /\ a = Ack(q, e, m)
    BY <1>2, <2>1, <2>2
  <2>4. a.to \subseteq ToSet(e.clients)
    BY <1>2, <2>1, <2>3, PushTo
  <2>5. \A x \in ToSet(e.clients) : \E i \in DOMAIN p : p[i] = RPUSH(SubKey(q, x), m)
    <3>1. e \in EntryRec /\ m \in Msg /\ p = PushCmds(q, e, m) /\ e.type = SUB2PUB
      BY <2>1, <2>2, <2>3
    <3>2. QED
      BY <3>1, FanOutCmds
  <2>6. DOMAIN p = {}
    BY <2>3
  <2>7. QED
    BY <2>4, <2>5, <2>6
<1>3. ASSUME NEW w \in Worker, Open(w) PROVE acked' = acked
  BY <1>3 DEF Open, CreatePublisher, CreateSubscriber, CheckType, CheckSubscriber, AddSubscriber, CacheSubscriber,
              OpenQueue, hist
<1>4. ASSUME NEW w \in Worker, NEW c \in Client, NEW q \in Queue, PopMsg(w, c, q) PROVE acked' = acked
  BY <1>4 DEF PopMsg, hist
<1>5. ASSUME NEW w \in Worker, RedisExec(w) \/ GiveUp(w) PROVE acked' = acked
  BY <1>5 DEF RedisExec, GiveUp, hist
<1>6. CASE LoadQueues \/ Crash \/ \E c \in Client, q \in Queue : CloseQueue(c, q)
  <2>1. ASSUME NEW q, LoadQueue(q) PROVE acked' = acked
    BY <2>1 DEF LoadQueue, hist
  <2>2. CASE LoadClients
    BY <2>2 DEF LoadClients, hist
  <2>3. CASE LoadMeta \/ LoadNames \/ LoadFails \/ SwapCache
    BY <2>3 DEF LoadMeta, LoadNames, LoadFails, SwapCache, hist
  <2>4. CASE Crash \/ \E c \in Client, q \in Queue : CloseQueue(c, q)
    BY <2>4 DEF Crash, CloseQueue, hist
  <2>5. QED
    BY <1>6, <2>1, <2>2, <2>3, <2>4 DEF LoadQueues
<1>7. CASE UNCHANGED vars
  BY <1>7 DEF vars
<1>8. ASSUME NEW w \in Worker, Message(w)
      PROVE  a \in acked \/ a.to = {} \/ (IsPush(job[w]) /\ job[w].pc = "pushed" /\ a = job[w].ack)
  BY <1>1, <1>2, <1>4, <1>5, <1>8 DEF Message
<1>9. QED
  BY <1>3, <1>6, <1>7, <1>8 DEF Next

LEMMA ServeStep ==
  ASSUME Solo, Shape, MirrorInv, SubInv, Numbered, ServeInv, [Next]_vars
  PROVE  ServeInv'
<1>1. \A q \in Queue, c \in Client : Distinct(SubList(redis', q, c))
  BY ServeList
<1>2. ASSUME NEW w \in Worker, NEW j, j = job[w], NEW k, k = job'[w], IsPush(j), IsPush(k), ~RedisExec(w),
             k.q = j.q, k.ack = j.ack, k.pc = j.pc, k.cmds = j.cmds
      PROVE  FanFits(redis', k)
  <2>1. FanFits(redis, j) /\ j.q \in Queue /\ j.ack.to \subseteq Client
    BY <1>2, PushFields DEF ServeInv, AckRec
  <2>2. \A c : (ToSub(k, c) = ToSub(j, c)) /\ (Ahead(k, c) <=> Ahead(j, c))
    BY <1>2 DEF ToSub, Ahead
  <2>3. \A v \in Worker : \A c : ~Serves(v, j.q, c)
    BY <1>2 DEF Serves, Solo
  <2>4. ASSUME NEW c \in Client PROVE SubList(redis', j.q, c) = SubList(redis, j.q, c)
    <3>1. PICK s, t : s = SubList(redis, j.q, c) /\ t = SubList(redis', j.q, c)
      OBVIOUS
    <3>2. t = s
      BY <2>1, <2>3, <3>1, ServeList
    <3>3. QED
      BY <3>1, <3>2
  <2>5. \A c \in Client : k.pc = "pipe" =>
          \A x, y \in DOMAIN k.cmds : k.cmds[x] = ToSub(k, c) /\ k.cmds[y] = ToSub(k, c) => x = y
    BY <1>2, <2>1, <2>2 DEF FanFits
  <2>6. \A c \in Client : Ahead(k, c) => ~Holds(SubList(redis', k.q, c), k.ack.m)
    BY <1>2, <2>1, <2>2, <2>4 DEF FanFits
  <2>7. \A c \in k.ack.to : Ahead(k, c) \/ Holds(SubList(redis', k.q, c), k.ack.m)
    BY <1>2, <2>1, <2>2, <2>4 DEF FanFits
  <2>8. QED
    BY <2>5, <2>6, <2>7 DEF FanFits
<1>3. ASSUME NEW w \in Worker PROVE FanFits(redis', job'[w])
  <2>1. SUFFICES ASSUME IsPush(job'[w]) PROVE FanFits(redis', job'[w])
    BY DEF FanFits
  <2>2. PICK j, k : j = job[w] /\ k = job'[w]
    OBVIOUS
  <2>3. CASE RedisExec(w)
    BY <2>1, <2>3, FanExec
  <2>4. ASSUME NEW c \in Client, NEW q \in Queue, PushMsg(w, c, q) PROVE FanFits(redis', k)
    BY <2>1, <2>2, <2>4, FanPush
  <2>5. CASE ~RedisExec(w) /\ k = j
    BY <1>2, <2>1, <2>2, <2>5
  <2>6. CASE Crash /\ ~RedisExec(w)
    <3>1. PICK lost \in SUBSET Worker : k = Orphan(w, w \in lost)
      BY <2>2, <2>6 DEF Crash
    <3>2. k # Idle /\ JobOK(j) /\ IsPush(k)
      BY <2>1, <2>2, IdleFields DEF Shape
    <3>3. /\ j.pc = "pipe" /\ k.pc = "pipe" /\ k.cmds = j.cmds /\ k.q = j.q
          /\ \/ IsPub(j) /\ IsPub(k) /\ k.t = j.t
             \/ IsPush(j) /\ IsPush(k) /\ k.ack = j.ack
             \/ IsPop(j) /\ IsPop(k)
      BY <2>2, <3>1, <3>2, OrphanJob
    <3>4. IsPush(j) /\ k.ack = j.ack
      BY <3>2, <3>3, PubIsPub, PushIsPush
    <3>5. QED
      BY <1>2, <2>2, <2>6, <3>2, <3>3, <3>4
  <2>7. \/ k = j
        \/ \E c \in Client, q \in Queue : PushMsg(w, c, q)
        \/ RedisExec(w)
        \/ Crash
    BY <2>1, <2>2, PushJobs
  <2>8. QED
    BY <2>2, <2>3, <2>4, <2>5, <2>6, <2>7
<1>4. ASSUME NEW a \in acked', NEW c \in a.to PROVE Holds(SubList(redis', a.q, c), a.m)
  <2>1. \A x \in AckRec : x.q \in Queue /\ x.to \subseteq Client
    BY DEF AckRec
  <2>2. Holds(SubList(redis, a.q, c), a.m) /\ a.q \in Queue /\ c \in Client
    <3>1. CASE a \in acked
      BY <1>4, <2>1, <3>1 DEF ServeInv, Shape
    <3>2. ASSUME NEW w \in Worker, IsPush(job[w]), job[w].pc = "pushed", a = job[w].ack
          PROVE  Holds(SubList(redis, a.q, c), a.m) /\ a.q \in Queue /\ c \in Client
      <4>1. a \in AckRec /\ a.q = job[w].q
        BY <3>2, PushFields
      <4>2. ~Ahead(job[w], c)
        BY <3>2 DEF Ahead
      <4>3. QED
        BY <1>4, <2>1, <3>2, <4>1, <4>2 DEF ServeInv, FanFits
    <3>3. QED
      BY <1>4, <3>1, <3>2, AckTo
  <2>3. PICK s, t : s = SubList(redis, a.q, c) /\ t = SubList(redis', a.q, c)
    OBVIOUS
  <2>4. Holds(t, a.m)
    BY <2>2, <2>3, ServeList
  <2>5. QED
    BY <2>3, <2>4
<1>5. QED
  BY <1>1, <1>3, <1>4 DEF ServeInv

\* With one worker, and clients that fetch only from queues they subscribed
\* to: a subscriber that was told SUCCESS gets every message whose send began
\* later and was answered SUCCESS, once, whatever restarts come between the
\* HMSET of its subscription, the push_back and the fan-out, and whatever "load
\* meta" no OpenQueue overlaps.
THEOREM SubscribersServed == Solo /\ ~StrayGet => (Spec => []EverySubscriberServed)
<1> SUFFICES ASSUME Solo, ~StrayGet PROVE Spec => []EverySubscriberServed
  OBVIOUS
<1>1. Init => Numbered /\ SubInv /\ ServeInv
  <2> SUFFICES ASSUME Init PROVE Numbered /\ SubInv /\ ServeInv
    OBVIOUS
  <2>1. \A w \in Worker : job[w] = Idle
    BY DEF Init
  <2>2. \A w \in Worker : ~IsPush(job[w])
    BY <2>1, IdleFields
  <2>3. cache = EmptyCache /\ loader = NoLoad /\ subscribed = {} /\ acked = {}
    BY DEF Init
  <2>4. \A q \in Queue : redis.submeta[q] = {}
    BY DEF Init, EmptyDb
  <2>5. SubInv
    BY <2>1, <2>3, <2>4, EmptyIsCache, FitsBy DEF SubInv, Listed
  <2>6. \A q \in Queue, c \in Client : SubKey(q, c) \in Keys
    BY KeysOf
  <2>7. ServeInv
    BY <2>2, <2>3, <2>6, EmptyLists DEF ServeInv, FanFits, Distinct, SubList
  <2>8. QED
    BY <2>5, <2>7, NumberedInit
<1>2. Shape /\ (~raced => ServeInv) => EverySubscriberServed
  <2> SUFFICES ASSUME Shape, ServeInv PROVE EverySubscriberServed
    BY DEF EverySubscriberServed
  <2>1. ASSUME NEW a \in acked, NEW c \in a.to PROVE Count(Through(SubKey(a.q, c)), a.m) = 1
    <3>1. a.q \in Queue /\ c \in Client
      BY <2>1 DEF Shape, AckRec
    <3>2. Distinct(SubList(redis, a.q, c)) /\ Holds(SubList(redis, a.q, c), a.m)
      BY <2>1, <3>1 DEF ServeInv
    <3>3. SubList(redis, a.q, c) = Through(SubKey(a.q, c))
      BY DEF SubList, ThroughOf, Through
    <3>4. QED
      BY <3>2, <3>3, CountOnce
  <2>2. QED
    BY <2>1 DEF EverySubscriberServed
<1>3. /\ Shape /\ Phase /\ (~raced => MirrorInv) /\ Numbered /\ (~raced => SubInv /\ ServeInv) /\ [Next]_vars
      => Numbered' /\ (~raced => SubInv /\ ServeInv)'
  BY NumberedStep, SubsStep, ServeStep, RacedStays
<1>4. Spec => [](Shape /\ Phase /\ (~raced => MirrorInv))
  BY Mirrored
<1>5. QED
  BY <1>1, <1>2, <1>3, <1>4, PTL DEF Spec
=============================================================================
