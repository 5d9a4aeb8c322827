---------------------------- MODULE NetMgrProofs ----------------------------
(***************************************************************************)
(* The network layer for any number of connections, addresses, descriptors *)
(* and requests and any limits.  With everything clients may do: a request *)
(* is in one place at a time, so none is answered twice, and no wake-up is *)
(* lost.  With orderly clients: descriptor, handler, address and client of *)
(* a connection belong together as long as an answer is outstanding, so    *)
(* that it goes to the connection that asked.                              *)
(***************************************************************************)
EXTENDS NetMgr, FiniteSetTheorems, SequenceTheorems, WellFoundedInduction, TLAPS

Id == Conn \X Nat
Msg == [id : Id, addr : Addr]
HandlerRec ==
  [addr : Addr, fd : Fd, rd : BOOLEAN, wr : BOOLEAN, out : Seq(Id), conn : Conn]

\* The shape of the state, in detail.
NetType ==
  /\ TypeOK
  /\ handlers \in Seq(HandlerRec)
  /\ registry \in [DOMAIN registry -> Handler]
  /\ requests \in Seq(Msg)
  /\ working \in SUBSET Msg
  /\ results \in Seq(Msg)
  /\ notifying \in Nat
  /\ pipe \in BOOLEAN
  /\ draining \in BOOLEAN
  /\ stranded \in Nat
  /\ asked \in [Conn -> Nat]
  /\ got \in SUBSET (Id \X Conn \X Nat)
----------------------------------------------------------------------------
(* Where a request is *)

Ids(s)   == {s[i].id : i \in DOMAIN s}
OutIds(o) == {o[i] : i \in DOMAIN o}

Requested   == Ids(requests)
Worked      == {m.id : m \in working}
Resulted    == Ids(results)
Buffered(h) == OutIds(handlers[h].out)
Sending     == UNION {Buffered(h) : h \in Handler}
Delivered   == {g[1] : g \in got}

Unanswered == Requested \cup Worked \cup Resulted \cup Sending

\* No two entries of s are for the same request.
Distinct(s) == \A i, j \in DOMAIN s : s[i].id = s[j].id => i = j

\* Five sets have nothing in common.
Apart(R, W, S, O, D) ==
  /\ R \cap (W \cup S \cup O \cup D) = {}
  /\ W \cap (S \cup O \cup D) = {}
  /\ S \cap (O \cup D) = {}
  /\ O \cap D = {}

\* No request is answered by two entries of a send buffer.
NoRepeat(o) == \A i, j \in DOMAIN o : o[i] = o[j] => i = j

\* A request is in one place, once.
OnePlace ==
  /\ Distinct(requests)
  /\ \A m, n \in working : m.id = n.id => m = n
  /\ Distinct(results)
  /\ \A h, k \in Handler : h # k => Buffered(h) \cap Buffered(k) = {}
  /\ \A h \in Handler : NoRepeat(handlers[h].out)
  /\ Apart(Requested, Worked, Resulted, Sending, Delivered)

\* There are no requests but those clients have sent.
Sent == \A id \in Unanswered \cup Delivered : id[2] \in 1..asked[id[1]]

\* The inductive invariant behind AnsweredOnce.
OnceInv == NetType /\ OnePlace /\ Sent /\ AnsweredOnce
----------------------------------------------------------------------------
(* Orderly clients *)

\* A handler is registered under its address and has a connection of its own.
Registered ==
  /\ \A h \in Handler : handlers[h].addr \in DOMAIN registry /\ registry[handlers[h].addr] = h
  /\ \A h \in Handler : client[handlers[h].conn] \in {"open", "gone"}
  /\ \A h, k \in Handler : handlers[h].conn = handlers[k].conn => h = k

\* Handler h can take an answer for connection c.
Serves(h, c) == handlers[h].conn = c /\ handlers[h].rd /\ client[c] = "open"

\* The requests that are in a queue or with a worker.
Members(s) == {s[i] : i \in DOMAIN s}
Pending == Members(requests) \cup working \cup Members(results)

\* The answer to request m will find a handler that can send it to the asker.
Cared(m) == \E h \in Handler : handlers[h].addr = m.addr /\ Serves(h, m.id[1])

\* Whoever has not been answered is still there.
AskerWaits ==
  /\ \A m \in Pending : Cared(m)
  /\ \A h \in Handler : \A id \in Buffered(h) : Serves(h, id[1])

\* The four names of a connection belong together as long as they are needed.
Order == Registered /\ AskerWaits /\ EventsOnOwnFd /\ AnswerToAsker

\* The inductive invariant behind AnswerToAsker.
OrderInv == OnceInv /\ Order
----------------------------------------------------------------------------
(* Handlers *)

\* One handler is changed and stays one.
LEMMA UpdateHandler ==
  ASSUME handlers \in Seq(HandlerRec), NEW h \in Handler, NEW r \in HandlerRec, NEW hs,
         hs = [handlers EXCEPT ![h] = r]
  PROVE  /\ hs \in Seq(HandlerRec) /\ Len(hs) = Len(handlers) /\ DOMAIN hs = Handler
         /\ hs[h] = r /\ \A k \in Handler : k # h => hs[k] = handlers[k]
  BY DEF Handler

\* The fields of a handler.
LEMMA HandlerFields ==
  ASSUME NetType, NEW h \in Handler
  PROVE  /\ handlers[h] \in HandlerRec
         /\ handlers[h].addr \in Addr /\ handlers[h].fd \in Fd /\ handlers[h].rd \in BOOLEAN
         /\ handlers[h].wr \in BOOLEAN /\ handlers[h].out \in Seq(Id) /\ handlers[h].conn \in Conn
<1>1. handlers[h] \in HandlerRec
  BY DEF NetType, Handler
<1>2. QED
  BY <1>1 DEF HandlerRec

\* Handler h becomes one with the given buffer and events.
With(h, out, rd, wr) == [handlers[h] EXCEPT !.out = out, !.rd = rd, !.wr = wr]

\* It keeps its address, descriptor and connection.
LEMMA WithFields ==
  ASSUME NetType, NEW h \in Handler, NEW out \in Seq(Id), NEW rd \in BOOLEAN, NEW wr \in BOOLEAN
  PROVE  /\ With(h, out, rd, wr) \in HandlerRec
         /\ With(h, out, rd, wr).out = out /\ With(h, out, rd, wr).rd = rd /\ With(h, out, rd, wr).wr = wr
         /\ With(h, out, rd, wr).addr = handlers[h].addr /\ With(h, out, rd, wr).fd = handlers[h].fd
         /\ With(h, out, rd, wr).conn = handlers[h].conn
<1>1. handlers[h] \in HandlerRec
  BY HandlerFields
<1>2. QED
  BY <1>1 DEF With, HandlerRec

\* What Close does.
LEMMA CloseShape ==
  ASSUME NetType, NEW h \in Handler, Close(h)
  PROVE  /\ handlers' = [handlers EXCEPT ![h] = With(h, handlers[h].out, FALSE, FALSE)]
         /\ fds' = CloseFd(fds, handlers[h].fd)
<1>1. handlers \in Seq(HandlerRec) /\ handlers[h] \in HandlerRec
  BY HandlerFields DEF NetType
<1>2. QED
  BY <1>1 DEF Close, With, HandlerRec, Handler

\* The answers in buffer out, sent to connection c.
Answers(out, c) == {<<out[i], c, Copy(out, i)>> : i \in DOMAIN out}

\* HandleOutput with out in the buffer: it fails, finishes, or has to wait.
LEMMA OutputShape ==
  ASSUME NetType, NEW h \in Handler, NEW out \in Seq(Id), HandleOutputTo(h, out),
         NEW c, c = fds[handlers[h].fd]
  PROVE  \/ /\ ~(c # Free /\ client[c] # "gone")
            /\ handlers' = [handlers EXCEPT ![h] = With(h, out, FALSE, FALSE)]
            /\ fds' = CloseFd(fds, handlers[h].fd)
            /\ got' = got
         \/ /\ c # Free
            /\ handlers' = [handlers EXCEPT ![h] = With(h, <<>>, handlers[h].rd, FALSE)]
            /\ fds' = FdsAfterSend(h)
            /\ \/ client[c] # "gone" /\ got' = got \cup Answers(out, c)
               \/ client[c] = "gone" /\ got' = got
         \/ /\ c # Free /\ client[c] # "gone"
            /\ handlers' = [handlers EXCEPT ![h] = With(h, out, handlers[h].rd, TRUE)]
            /\ fds' = fds
            /\ got' = got
<1>1. handlers \in Seq(HandlerRec) /\ handlers[h] \in HandlerRec
  BY HandlerFields DEF NetType
<1> DEFINE hs == [handlers EXCEPT ![h].out = out]
           there == c # Free /\ client[c] # "gone"
<1>2. [hs EXCEPT ![h].rd = FALSE, ![h].wr = FALSE] = [handlers EXCEPT ![h] = With(h, out, FALSE, FALSE)]
  BY <1>1 DEF With, HandlerRec, Handler
<1>3. AfterSend(hs, h) = [handlers EXCEPT ![h] = With(h, <<>>, handlers[h].rd, FALSE)]
  BY <1>1 DEF With, HandlerRec, Handler, AfterSend
<1>4. AfterEagain(hs, h) = [handlers EXCEPT ![h] = With(h, out, handlers[h].rd, TRUE)]
  BY <1>1 DEF With, HandlerRec, Handler, AfterEagain
<1>5. \/ /\ ~there
         /\ handlers' = [hs EXCEPT ![h].rd = FALSE, ![h].wr = FALSE]
         /\ fds' = CloseFd(fds, handlers[h].fd)
         /\ UNCHANGED got
      \/ /\ c # Free
         /\ handlers' = AfterSend(hs, h)
         /\ fds' = FdsAfterSend(h)
         /\ got' = IF there THEN got \cup Answers(out, c) ELSE got
      \/ /\ there
         /\ handlers' = AfterEagain(hs, h)
         /\ UNCHANGED <<fds, got>>
  BY DEF HandleOutputTo, Answers
<1> HIDE DEF hs
<1>6. QED
  BY <1>2, <1>3, <1>4, <1>5

\* What HandleOutput does to the types and to the places of requests.
LEMMA OutputMoves ==
  ASSUME NetType, NEW h \in Handler, NEW out \in Seq(Id), HandleOutputTo(h, out)
  PROVE  /\ handlers' \in Seq(HandlerRec) /\ Len(handlers') = Len(handlers) /\ Handler' = Handler
         /\ \A k \in Handler : k # h => handlers'[k] = handlers[k]
         /\ fds' \in [Fd -> Conn \cup {Free}]
         /\ \/ handlers'[h].out = out /\ got' = got
            \/ handlers'[h].out = <<>> /\ got' = got
            \/ /\ handlers'[h].out = <<>>
               /\ \E c \in Conn : got' = got \cup Answers(out, c)
<1>0. PICK c : c = fds[handlers[h].fd]
  OBVIOUS
<1>1. /\ handlers \in Seq(HandlerRec) /\ handlers[h].fd \in Fd /\ handlers[h].rd \in BOOLEAN
      /\ fds \in [Fd -> Conn \cup {Free}] /\ <<>> \in Seq(Id)
  BY HandlerFields DEF NetType, TypeOK
<1>2. c \in Conn \cup {Free}
  BY <1>0, <1>1
<1>3. CloseFd(fds, handlers[h].fd) \in [Fd -> Conn \cup {Free}] /\ FdsAfterSend(h) \in [Fd -> Conn \cup {Free}]
  BY <1>1 DEF CloseFd, FdsAfterSend
<1>4. ASSUME NEW o \in Seq(Id), NEW rd \in BOOLEAN, NEW wr \in BOOLEAN,
             handlers' = [handlers EXCEPT ![h] = With(h, o, rd, wr)]
      PROVE  /\ handlers' \in Seq(HandlerRec) /\ Len(handlers') = Len(handlers) /\ Handler' = Handler
             /\ \A k \in Handler : k # h => handlers'[k] = handlers[k]
             /\ handlers'[h].out = o
  <2>1. With(h, o, rd, wr) \in HandlerRec /\ With(h, o, rd, wr).out = o
    BY WithFields
  <2>2. /\ handlers' \in Seq(HandlerRec) /\ Len(handlers') = Len(handlers) /\ DOMAIN handlers' = Handler
        /\ handlers'[h] = With(h, o, rd, wr) /\ \A k \in Handler : k # h => handlers'[k] = handlers[k]
    BY <1>1, <1>4, <2>1, UpdateHandler
  <2>3. QED
    BY <2>1, <2>2 DEF Handler
<1>5. CASE /\ handlers' = [handlers EXCEPT ![h] = With(h, out, FALSE, FALSE)]
           /\ fds' = CloseFd(fds, handlers[h].fd)
           /\ got' = got
  BY <1>3, <1>4, <1>5
<1>6. CASE /\ c # Free
           /\ handlers' = [handlers EXCEPT ![h] = With(h, <<>>, handlers[h].rd, FALSE)]
           /\ fds' = FdsAfterSend(h)
           /\ \/ got' = got \cup Answers(out, c)
              \/ got' = got
  BY <1>1, <1>2, <1>3, <1>4, <1>6
<1>7. CASE /\ handlers' = [handlers EXCEPT ![h] = With(h, out, handlers[h].rd, TRUE)]
           /\ fds' = fds
           /\ got' = got
  BY <1>1, <1>4, <1>7
<1>8. QED
  BY <1>0, <1>5, <1>6, <1>7, OutputShape
----------------------------------------------------------------------------
(* The stacks *)

\* Pushing a message that is not there.
LEMMA PushIds ==
  ASSUME NEW s \in Seq(Msg), NEW m \in Msg, NEW t, t = <<m>> \o s
  PROVE  /\ t \in Seq(Msg) /\ Len(t) = Len(s) + 1 /\ Ids(t) = Ids(s) \cup {m.id}
         /\ Distinct(s) /\ m.id \notin Ids(s) => Distinct(t)
<1>1. t \in Seq(Msg) /\ Len(t) = Len(s) + 1 /\ DOMAIN t = 1..(Len(s) + 1) /\ DOMAIN s = 1..Len(s)
  OBVIOUS
<1>2. t[1] = m /\ \A i \in 1..Len(s) : t[i + 1] = s[i]
  OBVIOUS
<1>3. \A i \in DOMAIN t : i = 1 \/ (i - 1 \in 1..Len(s) /\ t[i] = s[i - 1])
  BY <1>1, <1>2
<1>4. Ids(t) = Ids(s) \cup {m.id}
  <2>1. \A x \in Ids(t) : x \in Ids(s) \cup {m.id}
    BY <1>1, <1>2, <1>3 DEF Ids
  <2>2. \A x \in Ids(s) : x \in Ids(t)
    <3> SUFFICES ASSUME NEW i \in DOMAIN s PROVE s[i].id \in Ids(t)
      BY DEF Ids
    <3>1. i + 1 \in DOMAIN t /\ t[i + 1] = s[i]
      BY <1>1, <1>2
    <3>2. QED
      BY <3>1 DEF Ids
  <2>3. m.id \in Ids(t)
    BY <1>1, <1>2 DEF Ids
  <2>4. QED
    BY <2>1, <2>2, <2>3
<1>5. ASSUME Distinct(s), m.id \notin Ids(s) PROVE Distinct(t)
  <2>1. \A i \in 1..Len(s) : s[i].id # m.id
    BY <1>1, <1>5 DEF Ids
  <2>2. \A i, j \in 1..Len(s) : s[i].id = s[j].id => i = j
    BY <1>1, <1>5 DEF Distinct
  <2> SUFFICES ASSUME NEW i \in DOMAIN t, NEW j \in DOMAIN t, t[i].id = t[j].id PROVE i = j
    BY DEF Distinct
  <2>3. QED
    BY <1>1, <1>2, <1>3, <2>1, <2>2
<1>6. QED
  BY <1>1, <1>4, <1>5

\* Taking the top message.
LEMMA PopIds ==
  ASSUME NEW s \in Seq(Msg), s # <<>>, Distinct(s)
  PROVE  /\ Head(s) \in Msg /\ Tail(s) \in Seq(Msg) /\ Len(Tail(s)) = Len(s) - 1
         /\ Head(s).id \in Ids(s) /\ Ids(Tail(s)) = Ids(s) \ {Head(s).id} /\ Distinct(Tail(s))
<1> DEFINE t == Tail(s)
<1>1. /\ t \in Seq(Msg) /\ Len(t) = Len(s) - 1 /\ DOMAIN t = 1..(Len(s) - 1) /\ DOMAIN s = 1..Len(s)
      /\ Len(s) \in Nat \ {0} /\ Head(s) = s[1] /\ s[1] \in Msg
  OBVIOUS
<1>2. \A i \in 1..(Len(s) - 1) : t[i] = s[i + 1] /\ i + 1 \in 1..Len(s)
  OBVIOUS
<1> HIDE DEF t
<1>3. \A i \in 1..Len(s) : i = 1 \/ (i - 1 \in 1..(Len(s) - 1) /\ s[i] = t[i - 1])
  BY <1>1, <1>2
<1>4. \A i, j \in 1..Len(s) : s[i].id = s[j].id => i = j
  BY <1>1 DEF Distinct
<1>5. Ids(t) = Ids(s) \ {Head(s).id}
  <2>1. ASSUME NEW i \in DOMAIN t PROVE t[i].id \in Ids(s) /\ t[i].id # s[1].id
    <3>1. i + 1 \in DOMAIN s /\ t[i] = s[i + 1] /\ i + 1 # 1
      BY <1>1, <1>2
    <3>2. QED
      BY <1>1, <1>4, <3>1 DEF Ids
  <2>2. ASSUME NEW i \in DOMAIN s, s[i].id # s[1].id PROVE s[i].id \in Ids(t)
    <3>1. i - 1 \in DOMAIN t /\ s[i] = t[i - 1]
      BY <1>1, <1>3, <2>2
    <3>2. QED
      BY <3>1 DEF Ids
  <2>3. QED
    BY <1>1, <2>1, <2>2 DEF Ids
<1>6. Distinct(t)
  <2> SUFFICES ASSUME NEW i \in DOMAIN t, NEW j \in DOMAIN t, t[i].id = t[j].id PROVE i = j
    BY DEF Distinct
  <2>1. t[i] = s[i + 1] /\ i + 1 \in 1..Len(s)
    BY <1>1, <1>2
  <2>2. t[j] = s[j + 1] /\ j + 1 \in 1..Len(s)
    BY <1>1, <1>2
  <2>3. s[i + 1].id = s[j + 1].id
    BY <2>1, <2>2
  <2>4. i + 1 = j + 1
    BY <1>4, <2>1, <2>2, <2>3
  <2>5. i \in Int /\ j \in Int
    BY <1>1
  <2>6. QED
    BY <2>4, <2>5
<1>7. Head(s).id \in Ids(s)
  BY <1>1 DEF Ids
<1>8. QED
  BY <1>1, <1>5, <1>6, <1>7 DEF t
----------------------------------------------------------------------------
(* Descriptors *)

\* Every set of numbers has a least one.
LEMMA LeastExists ==
  ASSUME NEW T, T \subseteq Nat, T # {}
  PROVE  \E x \in T : \A y \in T : x <= y
<1> DEFINE Less == {ss \in Nat \X Nat : ss[1] < ss[2]}
<1>1. IsWellFoundedOn(Less, Nat)
  BY NatLessThanWellFounded DEF OpToRel
<1> HIDE DEF Less
<1>2. PICK x \in T : \A y \in T : ~(<<y, x>> \in Less)
  BY <1>1, WFMin
<1>3. ASSUME NEW y \in T PROVE x <= y
  <2>1. ~(<<y, x>> \in Less)
    BY <1>2
  <2>2. QED
    BY <2>1 DEF Less
<1>4. QED
  BY <1>2, <1>3

\* accept gives a descriptor that is free.
LEMMA MinIn ==
  ASSUME NEW T, T \subseteq Nat, T # {}
  PROVE  Min(T) \in T
  BY LeastExists DEF Min

----------------------------------------------------------------------------
(* A request is in one place *)

\* A request that is in the buffer once and has no answer yet gets its first.
LEMMA FirstCopy ==
  ASSUME NEW out \in Seq(Id), NoRepeat(out), OutIds(out) \cap Delivered = {}
  PROVE  \A i \in DOMAIN out : out[i] \in Id /\ Copy(out, i) = 1
<1> SUFFICES ASSUME NEW i \in DOMAIN out PROVE out[i] \in Id /\ Copy(out, i) = 1
  OBVIOUS
<1>1. out[i] \in OutIds(out) /\ out[i] \in Id /\ i \in 1..Len(out) /\ Len(out) \in Nat
      /\ DOMAIN out = 1..Len(out)
  BY DEF OutIds
<1>2. {g \in got : g[1] = out[i]} = {}
  BY <1>1 DEF Delivered
<1>3. {j \in 1..i : out[j] = out[i]} = {i}
  BY <1>1 DEF NoRepeat
<1>4. Cardinality({i}) = 1
  BY FS_Singleton
<1>5. Cardinality({}) = 0
  BY FS_EmptySet
<1>6. Copy(out, i) = 0 + 1
  BY <1>2, <1>3, <1>4, <1>5, Zenon DEF Copy
<1>7. QED
  BY <1>1, <1>6

\* What is in the send buffers after HandleOutput with out in that of h.
LEMMA OutputOnce ==
  ASSUME NetType, AnsweredOnce, NEW h \in Handler, NEW out \in Seq(Id), HandleOutputTo(h, out),
         \A k, l \in Handler : k # l => Buffered(k) \cap Buffered(l) = {},
         Sending \cap Delivered = {},
         OutIds(out) \cap Delivered = {}, NoRepeat(out),
         \A k \in Handler : NoRepeat(handlers[k].out),
         \A k \in Handler : k # h => OutIds(out) \cap Buffered(k) = {}
  PROVE  /\ Sending' \cup Delivered' \subseteq Sending \cup Delivered \cup OutIds(out)
         /\ Sending' \cap Delivered' = {}
         /\ \A k, l \in Handler' : k # l => Buffered(k)' \cap Buffered(l)' = {}
         /\ \A k \in Handler' : NoRepeat(handlers'[k].out)
         /\ AnsweredOnce'
         /\ got' \in SUBSET (Id \X Conn \X Nat)
<1>1. /\ handlers' \in Seq(HandlerRec) /\ Handler' = Handler
      /\ \A k \in Handler : k # h => handlers'[k] = handlers[k]
      /\ \/ handlers'[h].out = out /\ got' = got
         \/ handlers'[h].out = <<>> /\ got' = got
         \/ /\ handlers'[h].out = <<>>
            /\ \E c \in Conn : got' = got \cup Answers(out, c)
  BY OutputMoves
<1>2. got \in SUBSET (Id \X Conn \X Nat)
  BY DEF NetType
<1>3. \A k \in Handler : k # h => Buffered(k)' = Buffered(k)
  BY <1>1 DEF Buffered
<1>4. OutIds(<<>>) = {}
  BY DEF OutIds
<1>5. \A k \in Handler : Buffered(k) \subseteq Sending
  BY DEF Sending
<1>6. Sending' = UNION {Buffered(k)' : k \in Handler}
  BY <1>1 DEF Sending
<1>0. \A k \in Handler' : NoRepeat(handlers'[k].out)
  <2>1. NoRepeat(<<>>)
    BY DEF NoRepeat
  <2>2. NoRepeat(handlers'[h].out)
    BY <1>1, <2>1
  <2>3. QED
    BY <1>1, <2>2
<1>7. CASE got' = got /\ (handlers'[h].out = out \/ handlers'[h].out = <<>>)
  <2>1. Buffered(h)' \subseteq OutIds(out) /\ Delivered' = Delivered
    BY <1>4, <1>7 DEF Buffered, Delivered
  <2>2. \A k, l \in Handler' : k # l => Buffered(k)' \cap Buffered(l)' = {}
    BY <1>1, <1>3, <2>1
  <2>3. \A k \in Handler : Buffered(k)' \subseteq Sending \cup OutIds(out) /\ Buffered(k)' \cap Delivered = {}
    BY <1>3, <1>5, <2>1
  <2>4. Sending' \subseteq Sending \cup OutIds(out) /\ Sending' \cap Delivered = {}
    BY <1>6, <2>3
  <2>5. QED
    BY <1>0, <1>2, <1>7, <2>1, <2>2, <2>4 DEF AnsweredOnce
<1>8. CASE handlers'[h].out = <<>> /\ \E c \in Conn : got' = got \cup Answers(out, c)
  <2>1. PICK c \in Conn : got' = got \cup Answers(out, c)
    BY <1>8
  <2>2. Delivered' = Delivered \cup OutIds(out)
    <3>1. \A g \in Answers(out, c) : g[1] \in OutIds(out)
      BY DEF Answers, OutIds
    <3>2. \A x \in OutIds(out) : \E g \in Answers(out, c) : g[1] = x
      <4> SUFFICES ASSUME NEW i \in DOMAIN out PROVE \E g \in Answers(out, c) : g[1] = out[i]
        BY DEF OutIds
      <4>1. <<out[i], c, Copy(out, i)>> \in Answers(out, c)
        BY DEF Answers
      <4>2. QED
        BY <4>1
    <3>3. QED
      BY <2>1, <3>1, <3>2 DEF Delivered
  <2>3. Buffered(h)' = {}
    BY <1>4, <1>8 DEF Buffered
  <2>4. \A k, l \in Handler' : k # l => Buffered(k)' \cap Buffered(l)' = {}
    BY <1>1, <1>3, <2>3
  <2>5. \A k \in Handler : Buffered(k)' \subseteq Sending /\ Buffered(k)' \cap (Delivered \cup OutIds(out)) = {}
    BY <1>3, <1>5, <2>3
  <2>6. Sending' \subseteq Sending /\ Sending' \cap Delivered' = {}
    BY <1>6, <2>2, <2>5
  <2>7. \A g \in Answers(out, c) :
          g \in Id \X Conn \X Nat /\ g[2] = c /\ g[3] = 1 /\ g[1] \in OutIds(out)
    <3>1. \A i \in DOMAIN out : out[i] \in Id /\ Copy(out, i) = 1
      BY FirstCopy
    <3>2. QED
      BY <3>1 DEF Answers, OutIds
  <2>8. \A g \in got : g[1] \in Delivered
    BY DEF Delivered
  <2>9. AnsweredOnce'
    <3> SUFFICES ASSUME NEW g \in got', NEW k \in got', g[1] = k[1] PROVE g = k
      BY DEF AnsweredOnce
    <3>1. g \in Id \X Conn \X Nat /\ k \in Id \X Conn \X Nat
      BY <1>2, <2>1, <2>7
    <3>2. CASE g \in Answers(out, c) /\ k \in Answers(out, c)
      BY <2>7, <3>1, <3>2
    <3>3. CASE g \in got /\ k \in got
      BY <3>3 DEF AnsweredOnce
    <3>4. QED
      BY <2>1, <2>7, <2>8, <3>2, <3>3
  <2>10. got' \in SUBSET (Id \X Conn \X Nat)
    BY <1>2, <2>1, <2>7
  <2>11. QED
    BY <1>0, <2>2, <2>4, <2>6, <2>9, <2>10
<1>9. QED
  BY <1>1, <1>7, <1>8

\* A new connection.
LEMMA AcceptOnce ==
  ASSUME OnceInv, NEW c \in Conn, NEW a \in Addr, Accept(c, a)
  PROVE  OnceInv'
<1> DEFINE f == Min({g \in Fd : fds[g] = Free})
           h == Len(handlers) + 1
           r == [addr |-> a, fd |-> f, rd |-> TRUE, wr |-> FALSE, out |-> <<>>, conn |-> c]
<1>1. UNCHANGED <<queues, sender, hist>>
  BY DEF Accept
<1>2. NetType /\ TypeOK
  BY DEF OnceInv, NetType
<1>3. /\ UNCHANGED <<requests, working, results, notifying, pipe, draining, stranded, asked, got>>
      /\ Requested' = Requested /\ Worked' = Worked /\ Resulted' = Resulted /\ Delivered' = Delivered
  BY <1>1 DEF queues, sender, hist, Requested, Worked, Resulted, Delivered
<1>4. CASE h > MaxConnection
  <2>1. client' = [client EXCEPT ![c] = "refused"] /\ UNCHANGED <<fds, handlers, registry>>
    BY <1>4 DEF Accept, net
  <2>2. NetType'
    BY <1>2, <1>3, <2>1 DEF NetType, TypeOK, Handler
  <2>3. Sending' = Sending /\ Handler' = Handler /\ \A k \in Handler : Buffered(k)' = Buffered(k)
    BY <2>1 DEF Sending, Handler, Buffered
  <2>4. QED
    BY <1>3, <2>1, <2>2, <2>3 DEF OnceInv, OnePlace, Sent, Unanswered, AnsweredOnce
<1>5. CASE ~(h > MaxConnection)
  <2>1. /\ client' = [client EXCEPT ![c] = "open"]
        /\ fds' = [fds EXCEPT ![f] = c]
        /\ handlers' = Append(handlers, r)
        /\ registry' = IF a \in DOMAIN registry THEN registry
                       ELSE [x \in DOMAIN registry \cup {a} |-> IF x = a THEN h ELSE registry[x]]
        /\ \E g \in Fd : fds[g] = Free
    BY <1>5 DEF Accept
  <2>2. f \in Fd
    <3>1. Fd \subseteq Nat
      BY BoundAssumption DEF Fd
    <3>2. QED
      BY <2>1, <3>1, MinIn
  <2> HIDE DEF f
  <2>3. r \in HandlerRec /\ r.out = <<>>
    BY <2>2 DEF HandlerRec
  <2> HIDE DEF r
  <2>4. handlers \in Seq(HandlerRec)
    BY <1>2 DEF NetType
  <2>5. /\ handlers' \in Seq(HandlerRec) /\ Len(handlers') = h /\ Handler' = Handler \cup {h}
        /\ handlers'[h] = r /\ h \notin Handler /\ \A k \in Handler : handlers'[k] = handlers[k]
    BY <2>1, <2>3, <2>4 DEF Handler
  <2>6. registry' \in [DOMAIN registry' -> Handler'] /\ DOMAIN registry' \subseteq Addr
    <3>1. CASE a \in DOMAIN registry
      BY <1>2, <2>1, <2>5, <3>1 DEF NetType, TypeOK
    <3>2. CASE a \notin DOMAIN registry
      <4>1. registry' = [x \in DOMAIN registry \cup {a} |-> IF x = a THEN h ELSE registry[x]]
        BY <2>1, <3>2
      <4>2. registry \in [DOMAIN registry -> Handler] /\ DOMAIN registry \subseteq Addr
        BY <1>2 DEF NetType, TypeOK
      <4>3. QED
        BY <2>5, <4>1, <4>2
    <3>3. QED
      BY <3>1, <3>2
  <2>7. h <= MaxConnection
    BY <1>5, <2>4, BoundAssumption
  <2>8. TypeOK'
    <3>1. client' \in [Conn -> {"new", "open", "gone", "refused"}] /\ fds' \in [Fd -> Conn \cup {Free}]
      BY <1>2, <2>1, <2>2 DEF TypeOK
    <3>2. QED
      BY <1>2, <1>3, <2>5, <2>6, <2>7, <3>1 DEF TypeOK
  <2>9. NetType'
    BY <1>2, <1>3, <2>5, <2>6, <2>8 DEF NetType
  <2>10. PICK n : n = h
    OBVIOUS
  <2>11. /\ Handler' = Handler \cup {n} /\ n \notin Handler
         /\ Buffered(n)' = {} /\ \A k \in Handler : Buffered(k)' = Buffered(k)
    BY <2>3, <2>5, <2>10 DEF Buffered, OutIds
  <2>12. Sending' = Sending
    BY <2>11 DEF Sending
  <2>13. \A k, l \in Handler' : k # l => Buffered(k)' \cap Buffered(l)' = {}
    BY <2>11 DEF OnceInv, OnePlace
  <2>14. OnePlace'
    <3>1. \A k \in Handler' : NoRepeat(handlers'[k].out)
      BY <2>3, <2>5 DEF OnceInv, OnePlace, NoRepeat
    <3>2. QED
      BY <1>3, <2>12, <2>13, <3>1 DEF OnceInv, OnePlace
  <2>15. QED
    BY <1>3, <2>9, <2>12, <2>14 DEF OnceInv, Sent, Unanswered, AnsweredOnce
<1>6. QED
  BY <1>4, <1>5

\* The handlers and what they have to send are untouched.
LEMMA SameHandlers ==
  ASSUME UNCHANGED handlers
  PROVE  /\ Handler' = Handler /\ Sending' = Sending /\ \A k \in Handler : Buffered(k)' = Buffered(k)
         /\ \A k \in Handler : handlers'[k].out = handlers[k].out
  BY DEF Handler, Sending, Buffered

\* What is in one of the places is the id of a request.
LEMMA IdsTyped ==
  ASSUME NetType
  PROVE  \A x \in Unanswered \cup Delivered : x \in Id
<1>1. ASSUME NEW s \in Seq(Msg) PROVE \A x \in Ids(s) : x \in Id
  <2>1. \A i \in DOMAIN s : s[i] \in Msg
    OBVIOUS
  <2>2. \A n \in Msg : n.id \in Id
    BY DEF Msg
  <2>3. QED
    BY <2>1, <2>2 DEF Ids
<1>2. \A x \in Requested \cup Resulted : x \in Id
  BY <1>1 DEF NetType, Requested, Resulted
<1>3. \A x \in Worked : x \in Id
  BY DEF NetType, Worked, Msg
<1>4. \A h \in Handler : \A x \in Buffered(h) : x \in Id
  <2> SUFFICES ASSUME NEW h \in Handler, NEW x \in Buffered(h) PROVE x \in Id
    OBVIOUS
  <2>1. handlers[h].out \in Seq(Id)
    BY HandlerFields
  <2>2. QED
    BY <2>1 DEF Buffered, OutIds
<1>5. \A x \in Delivered : x \in Id
  BY DEF NetType, Delivered
<1>6. QED
  BY <1>2, <1>3, <1>4, <1>5 DEF Unanswered, Sending

\* HandleInput: the id is one nobody has used.
LEMMA InputOnce ==
  ASSUME OnceInv, NEW h \in Handler, HandleInput(h)
  PROVE  OnceInv'
<1>1. PICK c : c = fds[handlers[h].fd]
  OBVIOUS
<1>2. /\ c # Free /\ asked' = [asked EXCEPT ![c] = @ + 1]
      /\ UNCHANGED <<client, net, working, results, notifying, pipe, sender, got>>
  BY <1>1 DEF HandleInput
<1>3. /\ NetType /\ TypeOK /\ c \in Conn /\ handlers[h].addr \in Addr /\ requests \in Seq(Msg)
      /\ asked \in [Conn -> Nat]
  BY <1>1, <1>2, HandlerFields DEF OnceInv, NetType, TypeOK
<1>4. UNCHANGED <<client, fds, handlers, registry, working, results, notifying, pipe, draining, stranded, got>>
  BY <1>2 DEF net, sender
<1>5. /\ Handler' = Handler /\ Sending' = Sending /\ \A k \in Handler : Buffered(k)' = Buffered(k)
      /\ Worked' = Worked /\ Resulted' = Resulted /\ Delivered' = Delivered
  BY <1>4, SameHandlers DEF Worked, Resulted, Delivered
<1>6. asked' \in [Conn -> Nat] /\ asked'[c] = asked[c] + 1 /\ \A d \in Conn : asked[d] <= asked'[d]
  BY <1>2, <1>3
<1> DEFINE id == <<c, asked[c] + 1>>
           m == [id |-> id, addr |-> handlers[h].addr]
<1>7. m \in Msg /\ m.id = id /\ id \in Id /\ id[1] = c /\ id[2] = asked[c] + 1
  BY <1>3 DEF Msg, Id
<1>8. id \notin Unanswered \cup Delivered
  BY <1>3, <1>7 DEF OnceInv, Sent
<1>9. \A x \in Unanswered \cup Delivered : x \in Id
  BY <1>3, IdsTyped
<1>10. \/ requests' = requests
       \/ requests' = <<m>> \o requests /\ Len(requests) < DefaultLimit
  <2>1. requests' = IF Len(requests) < DefaultLimit
                    THEN <<[id |-> <<c, asked[c] + 1>>, addr |-> handlers[h].addr]>> \o requests
                    ELSE requests
    BY <1>1 DEF HandleInput
  <2> HIDE DEF m
  <2>2. requests' = IF Len(requests) < DefaultLimit THEN <<m>> \o requests ELSE requests
    BY <2>1 DEF m
  <2>3. QED
    BY <2>2
<1> HIDE DEF m, id
<1>11. /\ requests' \in Seq(Msg) /\ Len(requests') <= DefaultLimit
       /\ Requested' \subseteq Requested \cup {id} /\ Distinct(requests')
  <2>1. CASE requests' = requests
    BY <1>3, <2>1 DEF OnceInv, OnePlace, TypeOK, Requested
  <2>2. CASE requests' = <<m>> \o requests /\ Len(requests) < DefaultLimit
    <3>1. m.id \notin Ids(requests) /\ Distinct(requests)
      BY <1>7, <1>8 DEF Unanswered, Requested, OnceInv, OnePlace
    <3>2. requests' \in Seq(Msg) /\ Len(requests') = Len(requests) + 1 /\ Distinct(requests')
          /\ Ids(requests') = Ids(requests) \cup {m.id}
      BY <1>3, <1>7, <2>2, <3>1, PushIds
    <3>3. QED
      BY <1>3, <1>7, <2>2, <3>2, BoundAssumption DEF Requested
  <2>3. QED
    BY <1>10, <2>1, <2>2
<1>12. TypeOK'
  BY <1>3, <1>4, <1>5, <1>11 DEF TypeOK
<1>13. NetType'
  BY <1>3, <1>4, <1>5, <1>6, <1>11, <1>12 DEF NetType
<1>14. Apart(Requested, Worked, Resulted, Sending, Delivered)'
  BY <1>5, <1>8, <1>11 DEF OnceInv, OnePlace, Apart, Unanswered
<1>15. OnePlace'
  BY <1>4, <1>5, <1>11, <1>14 DEF OnceInv, OnePlace
<1>16. Sent'
  <2> SUFFICES ASSUME NEW x \in Unanswered' \cup Delivered' PROVE x[2] \in 1..asked'[x[1]]
    BY DEF Sent
  <2>1. x \in Unanswered \cup Delivered \/ x = id
    BY <1>5, <1>11 DEF Unanswered
  <2>2. CASE x = id
    BY <1>3, <1>6, <1>7, <2>2
  <2>3. CASE x \in Unanswered \cup Delivered
    <3>1. x \in Id /\ x[2] \in 1..asked[x[1]]
      BY <1>9, <2>3 DEF OnceInv, Sent
    <3>2. x[1] \in Conn
      BY <3>1 DEF Id
    <3>3. asked[x[1]] \in Nat /\ asked'[x[1]] \in Nat /\ asked[x[1]] <= asked'[x[1]]
      BY <1>3, <1>6, <3>2
    <3>4. QED
      BY <3>1, <3>3
  <2>4. QED
    BY <2>1, <2>2, <2>3
<1>17. QED
  BY <1>4, <1>13, <1>15, <1>16 DEF OnceInv, AnsweredOnce

\* Nothing moves: notifications, and clients that leave.
LEMMA QuietOnce ==
  ASSUME OnceInv, \/ \E c \in Conn : Disconnect(c)
                  \/ Notify
                  \/ HandleNotify
                  \/ EndDrain
  PROVE  OnceInv'
<1>1. UNCHANGED <<fds, handlers, registry, requests, working, results, asked, got>>
  BY DEF Disconnect, Notify, HandleNotify, EndDrain, net, queues, hist
<1>2. /\ client' \in [Conn -> {"new", "open", "gone", "refused"}] /\ notifying' \in Nat
      /\ pipe' \in BOOLEAN /\ draining' \in BOOLEAN /\ stranded' \in Nat
  <2>1. /\ client \in [Conn -> {"new", "open", "gone", "refused"}] /\ notifying \in Nat
        /\ pipe \in BOOLEAN /\ draining \in BOOLEAN /\ stranded \in Nat
    BY DEF OnceInv, NetType, TypeOK
  <2>2. CASE \E c \in Conn : Disconnect(c)
    BY <2>1, <2>2 DEF Disconnect, queues, sender
  <2>3. CASE Notify
    BY <2>1, <2>3 DEF Notify, sender
  <2>4. CASE HandleNotify
    BY <2>1, <2>4 DEF HandleNotify
  <2>5. CASE EndDrain
    BY <2>1, <2>5 DEF EndDrain, queues
  <2>6. QED
    BY <2>2, <2>3, <2>4, <2>5
<1>3. /\ Handler' = Handler /\ Sending' = Sending /\ \A k \in Handler : Buffered(k)' = Buffered(k)
      /\ Requested' = Requested /\ Worked' = Worked /\ Resulted' = Resulted /\ Delivered' = Delivered
  BY <1>1, SameHandlers DEF Requested, Worked, Resulted, Delivered
<1>4. NetType'
  BY <1>1, <1>2, <1>3 DEF OnceInv, NetType, TypeOK
<1>5. QED
  BY <1>1, <1>3, <1>4 DEF OnceInv, OnePlace, Sent, Unanswered, AnsweredOnce

\* PopMsg: from the request stack to a worker.
LEMMA PopOnce ==
  ASSUME OnceInv, PopMsg
  PROVE  OnceInv'
<1>1. /\ requests # <<>> /\ working' = working \cup {Head(requests)} /\ requests' = Tail(requests)
      /\ UNCHANGED <<client, fds, handlers, registry, results, notifying, pipe, draining, stranded, asked, got>>
  BY DEF PopMsg, net, sender, hist
<1>2. NetType /\ TypeOK /\ requests \in Seq(Msg) /\ Distinct(requests) /\ working \in SUBSET Msg
  BY DEF OnceInv, NetType, OnePlace
<1>3. /\ Handler' = Handler /\ Sending' = Sending /\ \A k \in Handler : Buffered(k)' = Buffered(k)
      /\ Resulted' = Resulted /\ Delivered' = Delivered
  BY <1>1, SameHandlers DEF Resulted, Delivered
<1>4. PICK m : m = Head(requests)
  OBVIOUS
<1>5. /\ m \in Msg /\ requests' \in Seq(Msg) /\ Len(requests') = Len(requests) - 1
      /\ m.id \in Requested /\ Requested' = Requested \ {m.id} /\ Distinct(requests')
  BY <1>1, <1>2, <1>4, PopIds DEF Requested
<1>6. Worked' = Worked \cup {m.id}
  BY <1>1, <1>4 DEF Worked
<1>7. m.id \notin Worked
  BY <1>5 DEF OnceInv, OnePlace, Apart
<1>8. \A n, k \in working' : n.id = k.id => n = k
  BY <1>1, <1>4, <1>7 DEF OnceInv, OnePlace, Worked
<1>9. Apart(Requested, Worked, Resulted, Sending, Delivered)'
  BY <1>3, <1>5, <1>6 DEF OnceInv, OnePlace, Apart
<1>10. Len(requests') <= DefaultLimit
  BY <1>1, <1>2, <1>5, BoundAssumption DEF TypeOK
<1>11. TypeOK'
  BY <1>1, <1>2, <1>3, <1>10 DEF TypeOK
<1>12. NetType'
  BY <1>1, <1>2, <1>3, <1>4, <1>5, <1>11 DEF NetType
<1>13. OnePlace'
  BY <1>1, <1>3, <1>5, <1>8, <1>9 DEF OnceInv, OnePlace
<1>14. Unanswered' \cup Delivered' \subseteq Unanswered \cup Delivered
  BY <1>3, <1>5, <1>6 DEF Unanswered
<1>15. QED
  BY <1>1, <1>12, <1>13, <1>14 DEF OnceInv, Sent, AnsweredOnce

\* PushMsg: from a worker to the result stack, or lost.
LEMMA PushOnce ==
  ASSUME OnceInv, NEW m \in working, PushMsg(m)
  PROVE  OnceInv'
<1>1. /\ working' = working \ {m}
      /\ UNCHANGED <<client, fds, handlers, registry, requests, pipe, draining, stranded, asked, got>>
      /\ \/ Len(results) < DefaultLimit /\ results' = <<m>> \o results /\ notifying' = notifying + 1
         \/ UNCHANGED <<results, notifying>>
  BY DEF PushMsg, net, sender, hist
<1>2. /\ NetType /\ TypeOK /\ results \in Seq(Msg) /\ Distinct(results) /\ working \in SUBSET Msg /\ m \in Msg
      /\ notifying \in Nat
  BY DEF OnceInv, NetType, OnePlace
<1>3. /\ Handler' = Handler /\ Sending' = Sending /\ \A k \in Handler : Buffered(k)' = Buffered(k)
      /\ Requested' = Requested /\ Delivered' = Delivered
  BY <1>1, SameHandlers DEF Requested, Delivered
<1>4. m.id \in Worked /\ Worked' = Worked \ {m.id}
  BY <1>1 DEF Worked, OnceInv, OnePlace
<1>5. m.id \notin Resulted
  BY <1>4 DEF OnceInv, OnePlace, Apart
<1>6. /\ results' \in Seq(Msg) /\ Distinct(results') /\ Resulted' \subseteq Resulted \cup {m.id}
      /\ Len(results') <= DefaultLimit /\ notifying' \in Nat
  <2>1. CASE UNCHANGED <<results, notifying>>
    BY <1>2, <2>1 DEF TypeOK, Resulted
  <2>2. CASE Len(results) < DefaultLimit /\ results' = <<m>> \o results /\ notifying' = notifying + 1
    <3>1. /\ results' \in Seq(Msg) /\ Len(results') = Len(results) + 1 /\ Distinct(results')
          /\ Ids(results') = Ids(results) \cup {m.id}
      BY <1>2, <1>5, <2>2, PushIds DEF Resulted
    <3>2. QED
      BY <1>2, <2>2, <3>1, BoundAssumption DEF Resulted
  <2>3. QED
    BY <1>1, <2>1, <2>2
<1>7. Apart(Requested, Worked, Resulted, Sending, Delivered)'
  BY <1>3, <1>4, <1>6 DEF OnceInv, OnePlace, Apart
<1>8. TypeOK'
  BY <1>1, <1>2, <1>3, <1>6 DEF TypeOK
<1>9. NetType'
  BY <1>1, <1>2, <1>3, <1>6, <1>8 DEF NetType
<1>10. OnePlace'
  BY <1>1, <1>3, <1>6, <1>7 DEF OnceInv, OnePlace
<1>11. Unanswered' \cup Delivered' \subseteq Unanswered \cup Delivered
  BY <1>3, <1>4, <1>6 DEF Unanswered
<1>12. QED
  BY <1>1, <1>9, <1>10, <1>11 DEF OnceInv, Sent, AnsweredOnce

\* A step of the net thread that takes at most the top answer and moves ids
\* only from there to a send buffer, and on to the client.
LEMMA MoveOnce ==
  ASSUME OnceInv, UNCHANGED <<client, registry, requests, working, notifying, pipe, asked>>,
         draining' \in BOOLEAN, stranded' \in Nat,
         handlers' \in Seq(HandlerRec), Len(handlers') = Len(handlers), Handler' = Handler,
         fds' \in [Fd -> Conn \cup {Free}], got' \in SUBSET (Id \X Conn \X Nat), AnsweredOnce',
         results' \in Seq(Msg), Len(results') <= Len(results), Distinct(results'),
         NEW X, X \subseteq Resulted, Resulted' \subseteq Resulted \ X,
         Sending' \cup Delivered' \subseteq Sending \cup Delivered \cup X,
         Sending' \cap Delivered' = {},
         \A k, l \in Handler' : k # l => Buffered(k)' \cap Buffered(l)' = {},
         \A k \in Handler' : NoRepeat(handlers'[k].out)
  PROVE  OnceInv'
<1>1. NetType /\ TypeOK /\ results \in Seq(Msg)
  BY DEF OnceInv, NetType
<1>2. Requested' = Requested /\ Worked' = Worked
  BY DEF Requested, Worked
<1>3. Len(results') <= DefaultLimit
  BY <1>1, BoundAssumption DEF TypeOK
<1>4. TypeOK'
  BY <1>1, <1>3 DEF TypeOK
<1>5. NetType'
  BY <1>1, <1>4 DEF NetType
<1>6. Apart(Requested, Worked, Resulted, Sending, Delivered)'
  BY <1>2 DEF OnceInv, OnePlace, Apart
<1>7. OnePlace'
  BY <1>6 DEF OnceInv, OnePlace
<1>8. Unanswered' \cup Delivered' \subseteq Unanswered \cup Delivered
  BY <1>2 DEF Unanswered
<1>9. QED
  BY <1>5, <1>7, <1>8 DEF OnceInv, Sent

\* Close leaves the send buffer alone.
LEMMA ClosePlaces ==
  ASSUME NetType, NEW h \in Handler, Close(h)
  PROVE  /\ handlers' \in Seq(HandlerRec) /\ Len(handlers') = Len(handlers) /\ Handler' = Handler
         /\ \A k \in Handler : Buffered(k)' = Buffered(k) /\ handlers'[k].out = handlers[k].out
         /\ Sending' = Sending
         /\ fds' \in [Fd -> Conn \cup {Free}]
<1>1. /\ handlers \in Seq(HandlerRec) /\ handlers[h].fd \in Fd /\ handlers[h].out \in Seq(Id)
      /\ fds \in [Fd -> Conn \cup {Free}]
  BY HandlerFields DEF NetType, TypeOK
<1>2. PICK r : r = With(h, handlers[h].out, FALSE, FALSE)
  OBVIOUS
<1>3. handlers' = [handlers EXCEPT ![h] = r] /\ fds' = CloseFd(fds, handlers[h].fd)
  BY <1>2, CloseShape
<1>4. r \in HandlerRec /\ r.out = handlers[h].out
  BY <1>1, <1>2, WithFields
<1>5. /\ handlers' \in Seq(HandlerRec) /\ Len(handlers') = Len(handlers) /\ DOMAIN handlers' = Handler
      /\ handlers'[h] = r /\ \A k \in Handler : k # h => handlers'[k] = handlers[k]
  BY <1>1, <1>3, <1>4, UpdateHandler
<1>6. Handler' = Handler /\ \A k \in Handler : handlers'[k].out = handlers[k].out /\ Buffered(k)' = Buffered(k)
  BY <1>4, <1>5 DEF Handler, Buffered
<1>7. Sending' = Sending
  BY <1>6 DEF Sending
<1>8. QED
  BY <1>1, <1>3, <1>5, <1>6, <1>7 DEF CloseFd

\* HandleEof and HandleTimeout.
LEMMA CloseOnce ==
  ASSUME OnceInv, NEW h \in Handler, HandleEof(h) \/ HandleTimeout(h)
  PROVE  OnceInv'
<1>1. /\ Close(h)
      /\ UNCHANGED <<client, registry, requests, working, results, notifying, pipe, draining, stranded, asked, got>>
  BY DEF HandleEof, HandleTimeout, queues, sender, hist
<1>2. NetType
  BY DEF OnceInv
<1>3. /\ handlers' \in Seq(HandlerRec) /\ Len(handlers') = Len(handlers) /\ Handler' = Handler
      /\ \A k \in Handler : Buffered(k)' = Buffered(k) /\ handlers'[k].out = handlers[k].out
      /\ Sending' = Sending
      /\ fds' \in [Fd -> Conn \cup {Free}]
  BY <1>1, <1>2, ClosePlaces
<1>4. Resulted' = Resulted /\ Delivered' = Delivered /\ AnsweredOnce'
  BY <1>1 DEF Resulted, Delivered, OnceInv, AnsweredOnce
<1>5. /\ Sending' \cap Delivered' = {} /\ \A k, l \in Handler' : k # l => Buffered(k)' \cap Buffered(l)' = {}
      /\ \A k \in Handler' : NoRepeat(handlers'[k].out)
  BY <1>3, <1>4 DEF OnceInv, OnePlace, Apart
<1>6. /\ draining' \in BOOLEAN /\ stranded' \in Nat /\ got' \in SUBSET (Id \X Conn \X Nat)
      /\ results' \in Seq(Msg) /\ Len(results') <= Len(results) /\ Distinct(results')
  BY <1>1 DEF OnceInv, NetType, OnePlace
<1>7. PICK X : X = {}
  OBVIOUS
<1>8. /\ X \subseteq Resulted /\ Resulted' \subseteq Resulted \ X
      /\ Sending' \cup Delivered' \subseteq Sending \cup Delivered \cup X
  BY <1>3, <1>4, <1>7
<1>9. QED
  BY <1>1, <1>3, <1>4, <1>5, <1>6, <1>8, MoveOnce

\* HandleOutput when the socket is writable.
LEMMA OutputEventOnce ==
  ASSUME OnceInv, NEW h \in Handler, HandleOutput(h)
  PROVE  OnceInv'
<1>1. /\ HandleOutputTo(h, handlers[h].out)
      /\ UNCHANGED <<client, registry, requests, working, results, notifying, pipe, draining, stranded, asked>>
  BY DEF HandleOutput, queues, sender
<1>2. NetType /\ AnsweredOnce
  BY DEF OnceInv
<1>3. PICK out : out = handlers[h].out
  OBVIOUS
<1>4. out \in Seq(Id) /\ OutIds(out) = Buffered(h) /\ HandleOutputTo(h, out)
  BY <1>1, <1>2, <1>3, HandlerFields DEF Buffered
<1>5. /\ handlers' \in Seq(HandlerRec) /\ Len(handlers') = Len(handlers) /\ Handler' = Handler
      /\ fds' \in [Fd -> Conn \cup {Free}]
  BY <1>2, <1>4, OutputMoves
<1>6. /\ \A k, l \in Handler : k # l => Buffered(k) \cap Buffered(l) = {}
      /\ \A k \in Handler : NoRepeat(handlers[k].out)
      /\ Sending \cap Delivered = {}
  BY DEF OnceInv, OnePlace, Apart
<1>7. OutIds(out) \subseteq Sending
  BY <1>4 DEF Sending
<1>8. /\ OutIds(out) \cap Delivered = {} /\ \A k \in Handler : k # h => OutIds(out) \cap Buffered(k) = {}
      /\ NoRepeat(out)
  BY <1>3, <1>4, <1>6, <1>7
<1>9. /\ Sending' \cup Delivered' \subseteq Sending \cup Delivered \cup OutIds(out)
      /\ Sending' \cap Delivered' = {}
      /\ \A k, l \in Handler' : k # l => Buffered(k)' \cap Buffered(l)' = {}
      /\ \A k \in Handler' : NoRepeat(handlers'[k].out)
      /\ AnsweredOnce'
      /\ got' \in SUBSET (Id \X Conn \X Nat)
  BY <1>2, <1>4, <1>6, <1>8, OutputOnce
<1>10. /\ draining' \in BOOLEAN /\ stranded' \in Nat
       /\ results' \in Seq(Msg) /\ Len(results') <= Len(results) /\ Distinct(results')
  BY <1>1 DEF OnceInv, NetType, OnePlace
<1>11. PICK X : X = {}
  OBVIOUS
<1>12. /\ X \subseteq Resulted /\ Resulted' \subseteq Resulted \ X
       /\ Sending' \cup Delivered' \subseteq Sending \cup Delivered \cup X
  BY <1>1, <1>7, <1>9, <1>11 DEF Resulted
<1>13. QED
  BY <1>1, <1>5, <1>9, <1>10, <1>12, MoveOnce

\* Adding an answer to a send buffer.
LEMMA AppendOut ==
  ASSUME NEW o \in Seq(Id), NEW id \in Id
  PROVE  /\ Append(o, id) \in Seq(Id) /\ OutIds(Append(o, id)) = OutIds(o) \cup {id}
         /\ NoRepeat(o) /\ id \notin OutIds(o) => NoRepeat(Append(o, id))
<1> DEFINE t == Append(o, id)
<1>1. /\ t \in Seq(Id) /\ DOMAIN t = 1..(Len(o) + 1) /\ DOMAIN o = 1..Len(o) /\ Len(o) \in Nat
      /\ t[Len(o) + 1] = id /\ \A i \in 1..Len(o) : t[i] = o[i]
  OBVIOUS
<1> HIDE DEF t
<1>2. \A x \in OutIds(t) : x \in OutIds(o) \cup {id}
  BY <1>1 DEF OutIds
<1>3. \A x \in OutIds(o) \cup {id} : x \in OutIds(t)
  BY <1>1 DEF OutIds
<1>4. NoRepeat(o) /\ id \notin OutIds(o) => NoRepeat(t)
  BY <1>1 DEF NoRepeat, OutIds
<1>5. QED
  BY <1>1, <1>2, <1>3, <1>4 DEF t

\* PushMsgCallBack: the top answer goes into a send buffer and perhaps to the
\* client, or nowhere.
LEMMA SendOnce ==
  ASSUME OnceInv, NEW m, SendAnswer(m) \/ EncodeError(m)
  PROVE  OnceInv'
<1>1. /\ results # <<>> /\ m = Head(results) /\ results' = Tail(results)
      /\ UNCHANGED <<client, registry, requests, working, notifying, pipe, asked>>
  BY DEF SendAnswer, EncodeError, net, sender, hist
<1>2. NetType /\ AnsweredOnce /\ results \in Seq(Msg) /\ Distinct(results)
  BY DEF OnceInv, OnePlace, NetType
<1>3. /\ m \in Msg /\ results' \in Seq(Msg) /\ Len(results') = Len(results) - 1 /\ Len(results) \in Nat
      /\ m.id \in Resulted /\ Resulted' = Resulted \ {m.id} /\ Distinct(results')
  BY <1>1, <1>2, PopIds DEF Resulted
<1>4. Len(results) - 1 \in Nat /\ Len(results') <= Len(results) /\ m.id \in Id
  BY <1>1, <1>2, <1>3 DEF Msg
<1>5. draining' \in BOOLEAN /\ stranded' \in Nat
  <2>1. CASE SendAnswer(m)
    BY <1>2, <2>1 DEF SendAnswer, sender, NetType
  <2>2. CASE EncodeError(m)
    BY <1>4, <2>2 DEF EncodeError
  <2>3. QED
    BY <2>1, <2>2
<1>6. PICK X : X = {m.id}
  OBVIOUS
<1>7. X \subseteq Resulted /\ Resulted' \subseteq Resulted \ X
  BY <1>3, <1>6
<1>8. /\ \A k, l \in Handler : k # l => Buffered(k) \cap Buffered(l) = {}
      /\ \A k \in Handler : NoRepeat(handlers[k].out)
      /\ Sending \cap Delivered = {} /\ m.id \notin Sending /\ m.id \notin Delivered
  BY <1>3 DEF OnceInv, OnePlace, Apart
<1>9. CASE UNCHANGED <<fds, handlers, got>>
  <2>1. /\ Handler' = Handler /\ Sending' = Sending /\ \A k \in Handler : Buffered(k)' = Buffered(k)
        /\ \A k \in Handler : handlers'[k].out = handlers[k].out
        /\ Delivered' = Delivered
    BY <1>9, SameHandlers DEF Delivered
  <2>2. /\ handlers' \in Seq(HandlerRec) /\ Len(handlers') = Len(handlers)
        /\ fds' \in [Fd -> Conn \cup {Free}] /\ got' \in SUBSET (Id \X Conn \X Nat) /\ AnsweredOnce'
    BY <1>2, <1>9 DEF NetType, TypeOK, AnsweredOnce
  <2>3. /\ Sending' \cup Delivered' \subseteq Sending \cup Delivered \cup X /\ Sending' \cap Delivered' = {}
        /\ \A k, l \in Handler' : k # l => Buffered(k)' \cap Buffered(l)' = {}
        /\ \A k \in Handler' : NoRepeat(handlers'[k].out)
    BY <1>8, <2>1
  <2>4. QED
    BY <1>1, <1>3, <1>4, <1>5, <1>7, <2>1, <2>2, <2>3, MoveOnce
<1>10. ASSUME NEW h \in Handler, Close(h), UNCHANGED got PROVE OnceInv'
  <2>1. /\ handlers' \in Seq(HandlerRec) /\ Len(handlers') = Len(handlers) /\ Handler' = Handler
        /\ \A k \in Handler : Buffered(k)' = Buffered(k) /\ handlers'[k].out = handlers[k].out
        /\ Sending' = Sending
        /\ fds' \in [Fd -> Conn \cup {Free}]
    BY <1>2, <1>10, ClosePlaces
  <2>2. Delivered' = Delivered /\ got' \in SUBSET (Id \X Conn \X Nat) /\ AnsweredOnce'
    BY <1>2, <1>10 DEF NetType, AnsweredOnce, Delivered
  <2>3. /\ Sending' \cup Delivered' \subseteq Sending \cup Delivered \cup X /\ Sending' \cap Delivered' = {}
        /\ \A k, l \in Handler' : k # l => Buffered(k)' \cap Buffered(l)' = {}
        /\ \A k \in Handler' : NoRepeat(handlers'[k].out)
    BY <1>8, <2>1, <2>2
  <2>4. QED
    BY <1>1, <1>3, <1>4, <1>5, <1>7, <2>1, <2>2, <2>3, MoveOnce
<1>11. ASSUME NEW h \in Handler, HandleOutputTo(h, Append(handlers[h].out, m.id)) PROVE OnceInv'
  <2>1. PICK out : out = Append(handlers[h].out, m.id)
    OBVIOUS
  <2>2. out \in Seq(Id) /\ OutIds(out) = Buffered(h) \cup X /\ HandleOutputTo(h, out)
    BY <1>2, <1>4, <1>6, <1>11, <2>1, HandlerFields, AppendOut DEF Buffered
  <2>3. /\ handlers' \in Seq(HandlerRec) /\ Len(handlers') = Len(handlers) /\ Handler' = Handler
        /\ fds' \in [Fd -> Conn \cup {Free}]
    BY <1>2, <2>2, OutputMoves
  <2>4. \A k \in Handler : Buffered(k) \subseteq Sending
    BY DEF Sending
  <2>5. OutIds(out) \subseteq Sending \cup X
    BY <2>2, <2>4
  <2>6. /\ OutIds(out) \cap Delivered = {} /\ \A k \in Handler : k # h => OutIds(out) \cap Buffered(k) = {}
        /\ NoRepeat(out)
    <3>1. m.id \notin OutIds(handlers[h].out)
      BY <1>8, <2>4 DEF Buffered
    <3>2. NoRepeat(out)
      BY <1>2, <1>4, <1>8, <2>1, <3>1, HandlerFields, AppendOut
    <3>3. QED
      BY <1>6, <1>8, <2>2, <2>4, <2>5, <3>2
  <2>7. /\ Sending' \cup Delivered' \subseteq Sending \cup Delivered \cup OutIds(out)
        /\ Sending' \cap Delivered' = {}
        /\ \A k, l \in Handler' : k # l => Buffered(k)' \cap Buffered(l)' = {}
        /\ \A k \in Handler' : NoRepeat(handlers'[k].out)
        /\ AnsweredOnce'
        /\ got' \in SUBSET (Id \X Conn \X Nat)
    BY <1>2, <1>8, <2>2, <2>6, OutputOnce
  <2>8. Sending' \cup Delivered' \subseteq Sending \cup Delivered \cup X
    BY <2>5, <2>7
  <2>9. QED
    BY <1>1, <1>3, <1>4, <1>5, <1>7, <2>3, <2>7, <2>8, MoveOnce
<1>12. CASE SendAnswer(m)
  <2>1. m.addr \in DOMAIN registry => registry[m.addr] \in Handler
    BY <1>2 DEF NetType
  <2>2. QED
    BY <1>9, <1>10, <1>11, <1>12, <2>1 DEF SendAnswer
<1>13. CASE EncodeError(m)
  BY <1>9, <1>13 DEF EncodeError, net, hist
<1>14. QED
  BY <1>12, <1>13

\* Every step keeps it so.
LEMMA OnceStep ==
  ASSUME OnceInv, [Next]_vars
  PROVE  OnceInv'
<1>1. CASE \E c \in Conn, a \in Addr : Accept(c, a)
  BY <1>1, AcceptOnce
<1>2. CASE (\E c \in Conn : Disconnect(c)) \/ Notify \/ HandleNotify \/ EndDrain
  BY <1>2, QuietOnce
<1>3. CASE HandlerEvent
  BY <1>3, InputOnce, CloseOnce, OutputEventOnce DEF HandlerEvent
<1>4. CASE PopMsg \/ \E m \in working : PushMsg(m)
  BY <1>4, PopOnce, PushOnce
<1>5. CASE \E i \in DOMAIN results : SendAnswer(results[i]) \/ EncodeError(results[i])
  BY <1>5, SendOnce
<1>6. CASE UNCHANGED vars
  <2>1. UNCHANGED <<client, fds, handlers, registry, requests, working, results, notifying, pipe,
                    draining, stranded, asked, got>>
    BY <1>6 DEF vars, net, queues, sender, hist
  <2>2. /\ Handler' = Handler /\ Sending' = Sending /\ \A k \in Handler : Buffered(k)' = Buffered(k)
        /\ Requested' = Requested /\ Worked' = Worked /\ Resulted' = Resulted /\ Delivered' = Delivered
    BY <2>1, SameHandlers DEF Requested, Worked, Resulted, Delivered
  <2>3. NetType'
    BY <2>1, <2>2 DEF OnceInv, NetType, TypeOK
  <2>4. QED
    BY <2>1, <2>2, <2>3 DEF OnceInv, OnePlace, Sent, Unanswered, AnsweredOnce
<1>7. QED
  BY <1>1, <1>2, <1>3, <1>4, <1>5, <1>6 DEF Next, Work, Drain

\* A request is in one place, in every state.
LEMMA Once == Spec => []OnceInv
<1>1. Init => OnceInv
  <2> SUFFICES ASSUME Init PROVE OnceInv
    OBVIOUS
  <2>1. Handler = {} /\ registry = EmptyRegistry /\ DOMAIN registry = {}
    BY DEF Init, Handler, EmptyRegistry
  <2>2. TypeOK
    BY <2>1, BoundAssumption DEF Init, TypeOK
  <2>3. NetType
    <3>1. registry \in [DOMAIN registry -> Handler]
      BY <2>1 DEF EmptyRegistry
    <3>2. handlers \in Seq(HandlerRec) /\ requests \in Seq(Msg) /\ results \in Seq(Msg)
      BY DEF Init
    <3>3. /\ working \in SUBSET Msg /\ notifying \in Nat /\ pipe \in BOOLEAN /\ draining \in BOOLEAN
          /\ stranded \in Nat /\ asked \in [Conn -> Nat] /\ got \in SUBSET (Id \X Conn \X Nat)
      BY DEF Init
    <3>4. QED
      BY <2>2, <3>1, <3>2, <3>3 DEF NetType
  <2>4. Requested = {} /\ Worked = {} /\ Resulted = {} /\ Delivered = {} /\ Sending = {}
    BY <2>1 DEF Init, Requested, Worked, Resulted, Delivered, Sending, Ids
  <2>5. Distinct(requests) /\ Distinct(results) /\ working = {} /\ got = {}
    BY DEF Init, Distinct
  <2>6. QED
    BY <2>1, <2>3, <2>4, <2>5 DEF OnceInv, OnePlace, Apart, Sent, Unanswered, AnsweredOnce
<1>2. OnceInv /\ [Next]_vars => OnceInv'
  BY OnceStep
<1>3. QED
  BY <1>1, <1>2, PTL DEF Spec

\* Every variable keeps its shape, and _requestQueue and _resultQueue stay
\* within DEFAULT_LIMIT.
THEOREM TypeCorrect == Spec => []TypeOK
<1>1. OnceInv => TypeOK
  BY DEF OnceInv, NetType
<1>2. QED
  BY <1>1, Once, PTL

\* Whatever clients do, and whatever becomes of their connections, no request
\* is answered twice: a send buffer that survives Close, a descriptor that is
\* used again or an address that is registered again never doubles an answer.
THEOREM NeverTwice == Spec => []AnsweredOnce
<1>1. OnceInv => AnsweredOnce
  BY DEF OnceInv
<1>2. QED
  BY <1>1, Once, PTL

\* No answer is left in _resultQueue with the net thread asleep, except below
\* one that could not be encoded.
THEOREM NoWakeupLost == Spec => []NoLostWakeup
<1>1. Init => NoLostWakeup
  BY DEF Init, NoLostWakeup
<1>2. OnceInv /\ NoLostWakeup /\ [Next]_vars => NoLostWakeup'
  <2> SUFFICES ASSUME OnceInv, NoLostWakeup, [Next]_vars PROVE NoLostWakeup'
    OBVIOUS
  <2>1. /\ results \in Seq(Msg) /\ notifying \in Nat /\ stranded \in Nat /\ Len(results) \in Nat
        /\ working \in SUBSET Msg
    BY DEF OnceInv, NetType
  <2>2. CASE UNCHANGED <<results, stranded, pipe, draining, notifying>>
    BY <2>2 DEF NoLostWakeup
  <2>3. CASE \E m \in working : PushMsg(m)
    <3>1. PICK m \in working : PushMsg(m)
      BY <2>3
    <3>2. CASE Len(results) < DefaultLimit
      BY <2>1, <3>1, <3>2 DEF PushMsg, NoLostWakeup
    <3>3. CASE ~(Len(results) < DefaultLimit)
      BY <2>2, <3>1, <3>3 DEF PushMsg, sender
    <3>4. QED
      BY <3>2, <3>3
  <2>4. CASE Notify \/ HandleNotify
    BY <2>4 DEF Notify, HandleNotify, NoLostWakeup
  <2>5. CASE \E i \in DOMAIN results : SendAnswer(results[i])
    <3>1. draining' = TRUE
      BY <2>5 DEF SendAnswer, sender
    <3>2. QED
      BY <3>1 DEF NoLostWakeup
  <2>6. CASE \E i \in DOMAIN results : EncodeError(results[i])
    <3>1. results # <<>> /\ results' = Tail(results) /\ stranded' = Len(results) - 1
      BY <2>6 DEF EncodeError
    <3>2. Len(results') = Len(results) - 1
      BY <2>1, <3>1
    <3>3. QED
      BY <2>1, <3>1, <3>2 DEF NoLostWakeup
  <2>7. CASE EndDrain
    <3>1. results' = <<>> /\ stranded' = stranded
      BY <2>7 DEF EndDrain, queues
    <3>2. QED
      BY <2>1, <3>1 DEF NoLostWakeup
  <2>8. CASE \/ \E c \in Conn, a \in Addr : Accept(c, a)
             \/ \E c \in Conn : Disconnect(c)
             \/ HandlerEvent
             \/ PopMsg
             \/ UNCHANGED vars
    BY <2>2, <2>8 DEF Accept, Disconnect, HandlerEvent, HandleInput, HandleEof, HandleTimeout, HandleOutput,
                      PopMsg, vars, queues, sender
  <2>9. QED
    BY <2>3, <2>4, <2>5, <2>6, <2>7, <2>8 DEF Next, Work, Drain
<1>3. QED
  BY <1>1, <1>2, Once, PTL DEF Spec
----------------------------------------------------------------------------
(* Orderly clients: the answer goes to the asker *)

\* A client that has all its answers has no request anywhere.
LEMMA NothingPending ==
  ASSUME OnceInv, NEW c \in Conn, Answered(c)
  PROVE  \A id \in Unanswered : id[1] # c
<1> SUFFICES ASSUME NEW id \in Unanswered, id[1] = c PROVE FALSE
  OBVIOUS
<1>1. NetType /\ AnsweredOnce /\ asked \in [Conn -> Nat] /\ got \in SUBSET (Id \X Conn \X Nat)
  BY DEF OnceInv, NetType
<1>2. id \in Id /\ id[2] \in 1..asked[c] /\ id \notin Delivered /\ asked[c] \in Nat
  BY <1>1, IdsTyped DEF OnceInv, Sent, OnePlace, Apart, Unanswered
<1> DEFINE G == {g \in got : g[1][1] = c}
           T == 1..asked[c] \ {id[2]}
           f == [g \in G |-> g[1][2]]
<1>3. IsFiniteSet(1..asked[c]) /\ Cardinality(1..asked[c]) = asked[c]
  BY <1>2, FS_Interval
<1>4. IsFiniteSet(T) /\ Cardinality(T) = asked[c] - 1
  <2>1. PICK S : S = 1..asked[c]
    OBVIOUS
  <2>2. PICK n : n = id[2]
    OBVIOUS
  <2>3. IsFiniteSet(S) /\ n \in S /\ Cardinality(S) = asked[c]
    BY <1>2, <1>3, <2>1, <2>2
  <2>4. IsFiniteSet(S \ {n}) /\ Cardinality(S \ {n}) = Cardinality(S) - 1
    BY <2>3, FS_RemoveElement
  <2>5. QED
    BY <2>1, <2>2, <2>3, <2>4
<1>5. \A g \in G : g[1] \in Id /\ g[1] = <<c, g[1][2]>> /\ g[1] \in Delivered
  BY <1>1 DEF Id, Delivered
<1>6. \A g \in G : g[1][2] \in T
  <2> SUFFICES ASSUME NEW g \in G PROVE g[1][2] \in T
    OBVIOUS
  <2>1. g[1][2] \in 1..asked[c]
    BY <1>5 DEF OnceInv, Sent
  <2>2. id = <<c, id[2]>>
    BY <1>2 DEF Id
  <2>3. g[1][2] # id[2]
    BY <1>2, <1>5, <2>2
  <2>4. QED
    BY <2>1, <2>3
<1>7. \A g, k \in G : g[1][2] = k[1][2] => g = k
  BY <1>1, <1>5 DEF AnsweredOnce
<1> HIDE DEF G, T
<1>8. f \in Injection(G, T)
  BY <1>6, <1>7 DEF Injection, IsInjective
<1>9. Cardinality(G) <= Cardinality(T) /\ IsFiniteSet(G)
  BY <1>4, <1>8, FS_Injection
<1>10. Cardinality(G) = asked[c]
  BY DEF Answered, G
<1>11. QED
  BY <1>2, <1>4, <1>9, <1>10

\* One handler, whose descriptor is its own, gets another send buffer or other
\* events, and perhaps is closed.
LEMMA HandlerOrder ==
  ASSUME OnceInv, Order, NEW h \in Handler, NEW out \in Seq(Id), NEW rd \in BOOLEAN, NEW wr \in BOOLEAN,
         handlers' = [handlers EXCEPT ![h] = With(h, out, rd, wr)],
         \/ fds' = fds
         \/ fds' = CloseFd(fds, handlers[h].fd) /\ ~rd /\ ~wr,
         UNCHANGED <<client, registry>>,
         fds[handlers[h].fd] = handlers[h].conn,
         handlers[h].rd /\ client[handlers[h].conn] = "open" => rd,
         \A id \in OutIds(out) : Serves(h, id[1])
  PROVE  /\ Registered' /\ EventsOnOwnFd'
         /\ \A m : Cared(m) => Cared(m)'
         /\ \A k \in Handler' : \A id \in Buffered(k)' : Serves(k, id[1])'
<1>1. NetType /\ handlers \in Seq(HandlerRec) /\ fds \in [Fd -> Conn \cup {Free}]
  BY DEF OnceInv, NetType, TypeOK
<1>2. PICK r : r = With(h, out, rd, wr)
  OBVIOUS
<1>3. /\ r \in HandlerRec /\ r.out = out /\ r.rd = rd /\ r.wr = wr
      /\ r.addr = handlers[h].addr /\ r.fd = handlers[h].fd /\ r.conn = handlers[h].conn
  BY <1>1, <1>2, WithFields
<1>4. handlers' = [handlers EXCEPT ![h] = r]
  BY <1>2
<1>5. /\ DOMAIN handlers' = Handler /\ handlers'[h] = r
      /\ \A k \in Handler : k # h => handlers'[k] = handlers[k]
  BY <1>1, <1>3, <1>4, UpdateHandler
<1>6. Handler' = Handler
  BY <1>5 DEF Handler
<1>7. \A k \in Handler : handlers'[k].addr = handlers[k].addr /\ handlers'[k].fd = handlers[k].fd
                         /\ handlers'[k].conn = handlers[k].conn
  BY <1>3, <1>5
<1>8. Registered'
  BY <1>6, <1>7 DEF Order, Registered
<1>9. \A k \in Handler : \A d : Serves(k, d) => Serves(k, d)'
  <2> SUFFICES ASSUME NEW k \in Handler, NEW d, Serves(k, d) PROVE Serves(k, d)'
    OBVIOUS
  <2>1. CASE k = h
    BY <1>3, <1>5, <2>1 DEF Serves
  <2>2. CASE k # h
    BY <1>5, <2>2 DEF Serves
  <2>3. QED
    BY <2>1, <2>2
<1>10. \A m : Cared(m) => Cared(m)'
  BY <1>6, <1>7, <1>9 DEF Cared
<1>11. ASSUME NEW k \in Handler, handlers'[k].rd \/ handlers'[k].wr
       PROVE  fds'[handlers'[k].fd] = handlers'[k].conn
  <2>1. CASE k = h
    BY <1>3, <1>5, <1>11, <2>1
  <2>2. CASE k # h
    <3>1. fds[handlers[k].fd] = handlers[k].conn
      BY <1>5, <1>11, <2>2 DEF Order, EventsOnOwnFd
    <3>2. handlers[k].conn # handlers[h].conn
      BY <2>2 DEF Order, Registered
    <3>3. handlers[k].fd # handlers[h].fd /\ handlers[k].fd \in Fd
      BY <1>1, <3>1, <3>2, HandlerFields
    <3>4. fds'[handlers[k].fd] = fds[handlers[k].fd]
      BY <1>1, <3>3 DEF CloseFd
    <3>5. QED
      BY <1>7, <3>1, <3>4
  <2>3. QED
    BY <2>1, <2>2
<1>12. EventsOnOwnFd'
  BY <1>6, <1>11 DEF EventsOnOwnFd
<1>13. \A k \in Handler' : \A id \in Buffered(k)' : Serves(k, id[1])'
  <2> SUFFICES ASSUME NEW k \in Handler, NEW id \in Buffered(k)' PROVE Serves(k, id[1])'
    BY <1>6
  <2>1. CASE k = h
    BY <1>3, <1>5, <1>9, <2>1 DEF Buffered
  <2>2. CASE k # h
    BY <1>5, <1>9, <2>2 DEF Buffered, Order, AskerWaits
  <2>3. QED
    BY <2>1, <2>2
<1>14. QED
  BY <1>8, <1>10, <1>12, <1>13

\* HandleOutput of a handler on its own descriptor sends what it has to the
\* connection it is for.
LEMMA OutputOrder ==
  ASSUME OnceInv, Order, NEW h \in Handler, NEW out \in Seq(Id), HandleOutputTo(h, out),
         UNCHANGED <<client, registry>>,
         fds[handlers[h].fd] = handlers[h].conn,
         \A id \in OutIds(out) : Serves(h, id[1])
  PROVE  /\ Registered' /\ EventsOnOwnFd' /\ AnswerToAsker'
         /\ \A m : Cared(m) => Cared(m)'
         /\ \A k \in Handler' : \A id \in Buffered(k)' : Serves(k, id[1])'
<1>0. NetType
  BY DEF OnceInv
<1>1. /\ handlers[h].rd \in BOOLEAN /\ handlers[h].conn \in Conn /\ handlers[h].conn # Free
      /\ <<>> \in Seq(Id) /\ OutIds(<<>>) = {}
  BY <1>0, HandlerFields, ConnAssumption DEF Free, OutIds
<1>2. PICK c : c = fds[handlers[h].fd]
  OBVIOUS
<1>3. c = handlers[h].conn
  BY <1>2
<1>4. CASE /\ ~(c # Free /\ client[c] # "gone")
           /\ handlers' = [handlers EXCEPT ![h] = With(h, out, FALSE, FALSE)]
           /\ fds' = CloseFd(fds, handlers[h].fd)
           /\ got' = got
  <2>1. client[handlers[h].conn] # "open"
    BY <1>1, <1>3, <1>4
  <2>2. AnswerToAsker'
    BY <1>4 DEF Order, AnswerToAsker
  <2>3. QED
    BY <1>4, <2>1, <2>2, HandlerOrder
<1>5. CASE /\ c # Free
           /\ handlers' = [handlers EXCEPT ![h] = With(h, <<>>, handlers[h].rd, FALSE)]
           /\ fds' = FdsAfterSend(h)
           /\ \/ client[c] # "gone" /\ got' = got \cup Answers(out, c)
              \/ client[c] = "gone" /\ got' = got
  <2>1. \/ fds' = fds
        \/ fds' = CloseFd(fds, handlers[h].fd) /\ ~handlers[h].rd
    BY <1>5 DEF FdsAfterSend
  <2>2. AnswerToAsker'
    <3>1. \A g \in Answers(out, c) : g[1] \in OutIds(out) /\ g[2] = c
      BY DEF Answers, OutIds
    <3>2. \A id \in OutIds(out) : id[1] = c
      BY <1>3 DEF Serves
    <3>3. QED
      BY <1>5, <3>1, <3>2 DEF Order, AnswerToAsker
  <2>3. PICK rd \in BOOLEAN : rd = handlers[h].rd
    BY <1>1
  <2>4. PICK o \in Seq(Id) : o = <<>>
    BY <1>1
  <2>5. \A id \in OutIds(o) : Serves(h, id[1])
    BY <1>1, <2>4
  <2>6. /\ handlers' = [handlers EXCEPT ![h] = With(h, o, rd, FALSE)]
        /\ fds' = fds \/ (fds' = CloseFd(fds, handlers[h].fd) /\ ~rd)
        /\ handlers[h].rd /\ client[handlers[h].conn] = "open" => rd
    BY <1>5, <2>1, <2>3, <2>4
  <2>7. QED
    BY <2>2, <2>5, <2>6, HandlerOrder
<1>6. CASE /\ handlers' = [handlers EXCEPT ![h] = With(h, out, handlers[h].rd, TRUE)]
           /\ fds' = fds
           /\ got' = got
  <2>1. AnswerToAsker'
    BY <1>6 DEF Order, AnswerToAsker
  <2>2. QED
    BY <1>1, <1>6, <2>1, HandlerOrder
<1>7. QED
  BY <1>0, <1>2, <1>4, <1>5, <1>6, OutputShape

\* What the parts of Order need when handlers, clients and descriptors stay.
LEMMA SameNet ==
  ASSUME UNCHANGED <<client, fds, handlers, registry, got>>, Order
  PROVE  /\ Registered' /\ EventsOnOwnFd' /\ AnswerToAsker'
         /\ \A m : Cared(m)' <=> Cared(m)
         /\ \A k \in Handler' : \A id \in Buffered(k)' : Serves(k, id[1])'
<1>1. Handler' = Handler
  BY DEF Handler
<1>2. \A k, d : Serves(k, d)' <=> Serves(k, d)
  BY DEF Serves
<1>3. \A k \in Handler : Buffered(k)' = Buffered(k)
  BY DEF Buffered
<1>4. Registered' /\ EventsOnOwnFd' /\ AnswerToAsker'
  BY <1>1 DEF Order, Registered, EventsOnOwnFd, AnswerToAsker
<1>5. \A m : Cared(m)' <=> Cared(m)
  BY <1>1, <1>2 DEF Cared
<1>6. QED
  BY <1>1, <1>2, <1>3, <1>4, <1>5 DEF Order, AskerWaits

\* The members of a stack after a push and after a pop.
LEMMA StackMembers ==
  ASSUME NEW s \in Seq(Msg)
  PROVE  /\ \A m : Members(<<m>> \o s) \subseteq Members(s) \cup {m}
         /\ s # <<>> => /\ Head(s) \in Msg /\ Head(s) \in Members(s)
                        /\ Members(Tail(s)) \subseteq Members(s)
<1>1. ASSUME NEW m PROVE Members(<<m>> \o s) \subseteq Members(s) \cup {m}
  <2> DEFINE t == <<m>> \o s
  <2>1. /\ DOMAIN t = 1..(Len(s) + 1) /\ t[1] = m
        /\ \A i \in DOMAIN t : i # 1 => i - 1 \in DOMAIN s /\ t[i] = s[i - 1]
    OBVIOUS
  <2> HIDE DEF t
  <2>2. \A x \in Members(t) : x \in Members(s) \cup {m}
    BY <2>1 DEF Members
  <2>3. QED
    BY <2>2 DEF t
<1>2. ASSUME s # <<>>
      PROVE  Head(s) \in Msg /\ Head(s) \in Members(s) /\ Members(Tail(s)) \subseteq Members(s)
  <2>1. /\ 1 \in DOMAIN s /\ Head(s) = s[1] /\ s[1] \in Msg
        /\ \A i \in DOMAIN Tail(s) : i + 1 \in DOMAIN s /\ Tail(s)[i] = s[i + 1]
    BY <1>2
  <2>2. \A x \in Members(Tail(s)) : x \in Members(s)
    BY <2>1 DEF Members
  <2>3. QED
    BY <2>1, <2>2 DEF Members
<1>3. QED
  BY <1>1, <1>2

\* A new connection gets an address, a descriptor and a handler of its own.
LEMMA AcceptOrder ==
  ASSUME Orderly, OnceInv, Order, NEW c \in Conn, NEW a \in Addr, Accept(c, a)
  PROVE  Order'
<1>1. /\ a \notin DOMAIN registry /\ client[c] = "new" /\ got' = got /\ Pending' = Pending
  BY DEF Accept, queues, hist, Pending
<1>2. /\ NetType /\ TypeOK /\ handlers \in Seq(HandlerRec) /\ fds \in [Fd -> Conn \cup {Free}]
      /\ client \in [Conn -> {"new", "open", "gone", "refused"}]
  BY DEF OnceInv, NetType, TypeOK
<1>3. \A k \in Handler : handlers[k].conn # c /\ handlers[k].addr # a
  BY <1>1 DEF Order, Registered
<1>4. \A k, d : Serves(k, d) => d # c
  BY <1>1 DEF Serves
<1>5. AnswerToAsker'
  BY <1>1 DEF Order, AnswerToAsker
<1>6. CASE client' = [client EXCEPT ![c] = "refused"] /\ UNCHANGED net
  <2>1. UNCHANGED <<fds, handlers, registry>> /\ Handler' = Handler
    BY <1>6 DEF net, Handler
  <2>2. \A d : d # c => client'[d] = client[d]
    BY <1>2, <1>6
  <2>3. \A k, d : Serves(k, d) => Serves(k, d)'
    BY <1>4, <2>1, <2>2 DEF Serves
  <2>4. Registered'
    BY <1>3, <2>1, <2>2 DEF Order, Registered
  <2>5. EventsOnOwnFd'
    BY <2>1 DEF Order, EventsOnOwnFd
  <2>6. \A m : Cared(m) => Cared(m)'
    BY <2>1, <2>3 DEF Cared
  <2>7. \A k \in Handler' : \A id \in Buffered(k)' : Serves(k, id[1])'
    BY <2>1, <2>3 DEF Order, AskerWaits, Buffered
  <2>8. QED
    BY <1>1, <1>5, <2>4, <2>5, <2>6, <2>7 DEF Order, AskerWaits
<1>7. CASE ~(client' = [client EXCEPT ![c] = "refused"] /\ UNCHANGED net)
  <2> DEFINE F == Min({g \in Fd : fds[g] = Free})
  <2>1. /\ client' = [client EXCEPT ![c] = "open"]
        /\ fds' = [fds EXCEPT ![F] = c]
        /\ handlers' = Append(handlers,
             [addr |-> a, fd |-> F, rd |-> TRUE, wr |-> FALSE, out |-> <<>>, conn |-> c])
        /\ registry' = [x \in DOMAIN registry \cup {a} |-> IF x = a THEN Len(handlers) + 1 ELSE registry[x]]
        /\ \E g \in Fd : fds[g] = Free
    BY <1>1, <1>7 DEF Accept
  <2>2. F \in Fd /\ fds[F] = Free
    <3>1. Fd \subseteq Nat
      BY BoundAssumption DEF Fd
    <3>2. PICK T : T = {g \in Fd : fds[g] = Free}
      OBVIOUS
    <3>3. T \subseteq Nat /\ T # {}
      BY <2>1, <3>1, <3>2
    <3>4. Min(T) \in T
      BY <3>3, MinIn
    <3>5. QED
      BY <3>2, <3>4
  <2> HIDE DEF F
  <2>3. PICK f \in Fd : f = F
    BY <2>2
  <2>4. PICK n : n = Len(handlers) + 1
    OBVIOUS
  <2>5. PICK r : r = [addr |-> a, fd |-> f, rd |-> TRUE, wr |-> FALSE, out |-> <<>>, conn |-> c]
    OBVIOUS
  <2>6. /\ r.addr = a /\ r.fd = f /\ r.rd /\ r.out = <<>> /\ r.conn = c
    BY <2>5
  <2>7. /\ handlers' = Append(handlers, r) /\ fds' = [fds EXCEPT ![f] = c] /\ fds[f] = Free
    BY <2>1, <2>2, <2>3, <2>5
  <2>8. /\ Handler' = Handler \cup {n} /\ n \notin Handler /\ handlers'[n] = r
        /\ \A k \in Handler : handlers'[k] = handlers[k]
    BY <1>2, <2>4, <2>7 DEF Handler
  <2>9. /\ DOMAIN registry' = DOMAIN registry \cup {a} /\ registry'[a] = n
        /\ \A x \in DOMAIN registry : registry'[x] = registry[x]
    BY <1>1, <2>1, <2>4
  <2>10. client'[c] = "open" /\ \A d : d # c => client'[d] = client[d]
    BY <1>2, <2>1
  <2>11. Registered'
    <3>1. ASSUME NEW k \in Handler'
          PROVE  /\ handlers'[k].addr \in DOMAIN registry' /\ registry'[handlers'[k].addr] = k
                 /\ client'[handlers'[k].conn] \in {"open", "gone"}
      <4>1. CASE k = n
        BY <2>6, <2>8, <2>9, <2>10, <4>1
      <4>2. CASE k \in Handler
        BY <1>3, <2>8, <2>9, <2>10, <4>2 DEF Order, Registered
      <4>3. QED
        BY <2>8, <3>1, <4>1, <4>2
    <3>2. \A k, l \in Handler' : handlers'[k].conn = handlers'[l].conn => k = l
      BY <1>3, <2>6, <2>8 DEF Order, Registered
    <3>3. QED
      BY <3>1, <3>2 DEF Registered
  <2>12. EventsOnOwnFd'
    <3> SUFFICES ASSUME NEW k \in Handler', handlers'[k].rd \/ handlers'[k].wr
                 PROVE  fds'[handlers'[k].fd] = handlers'[k].conn
      BY DEF EventsOnOwnFd
    <3>1. CASE k = n
      BY <1>2, <2>6, <2>7, <2>8, <3>1
    <3>2. CASE k \in Handler
      <4>1. fds[handlers[k].fd] = handlers[k].conn /\ handlers[k].conn \in Conn /\ handlers[k].fd \in Fd
        BY <1>2, <2>8, <3>2, HandlerFields DEF Order, EventsOnOwnFd
      <4>2. handlers[k].fd # f
        BY <2>7, <4>1, ConnAssumption DEF Free
      <4>3. QED
        BY <1>2, <2>7, <2>8, <3>2, <4>1, <4>2
    <3>3. QED
      BY <2>8, <3>1, <3>2
  <2>13. \A k \in Handler : \A d : Serves(k, d) => Serves(k, d)'
    BY <1>4, <2>8, <2>10 DEF Serves
  <2>14. \A m : Cared(m) => Cared(m)'
    BY <2>8, <2>13 DEF Cared
  <2>15. \A k \in Handler' : \A id \in Buffered(k)' : Serves(k, id[1])'
    <3>1. Buffered(n)' = {} /\ \A k \in Handler : Buffered(k)' = Buffered(k)
      BY <2>6, <2>8 DEF Buffered, OutIds
    <3>2. QED
      BY <2>8, <2>13, <3>1 DEF Order, AskerWaits
  <2>16. QED
    BY <1>1, <1>5, <2>11, <2>12, <2>14, <2>15 DEF Order, AskerWaits
<1>8. QED
  BY <1>6, <1>7

\* A client leaves when it has its answers: nobody misses it.
LEMMA DisconnectOrder ==
  ASSUME Orderly, OnceInv, Order, NEW c \in Conn, Disconnect(c)
  PROVE  Order'
<1>1. /\ Answered(c) /\ client' = [client EXCEPT ![c] = "gone"]
      /\ UNCHANGED <<fds, handlers, registry, requests, working, results, got>>
  BY DEF Disconnect, net, queues, hist
<1>2. client \in [Conn -> {"new", "open", "gone", "refused"}]
  BY DEF OnceInv, NetType, TypeOK
<1>3. \A id \in Unanswered : id[1] # c
  BY <1>1, NothingPending
<1>4. Handler' = Handler /\ \A k \in Handler : Buffered(k)' = Buffered(k)
  BY <1>1, SameHandlers
<1>5. \A k, d : d # c /\ Serves(k, d) => Serves(k, d)'
  BY <1>1, <1>2 DEF Serves
<1>6. \A m : m.id[1] # c /\ Cared(m) => Cared(m)'
  BY <1>1, <1>4, <1>5 DEF Cared
<1>7. Pending' = Pending /\ \A m \in Pending : m.id \in Unanswered
  BY <1>1 DEF Pending, Members, Unanswered, Requested, Worked, Resulted, Ids
<1>8. \A m \in Pending' : Cared(m)'
  BY <1>3, <1>6, <1>7 DEF Order, AskerWaits
<1>10. \A k \in Handler' : \A id \in Buffered(k)' : Serves(k, id[1])'
  <2>1. \A k \in Handler : \A id \in Buffered(k) : id \in Unanswered
    BY DEF Unanswered, Sending
  <2>2. QED
    BY <1>3, <1>4, <1>5, <2>1 DEF Order, AskerWaits
<1>11. AskerWaits'
  BY <1>8, <1>10 DEF AskerWaits
<1>12. Registered' /\ EventsOnOwnFd' /\ AnswerToAsker'
  BY <1>1, <1>2, <1>4 DEF Order, Registered, EventsOnOwnFd, AnswerToAsker
<1>13. QED
  BY <1>11, <1>12 DEF Order

\* A request is attributed to the connection its bytes came from.
LEMMA InputOrder ==
  ASSUME OnceInv, Order, NEW h \in Handler, HandleInput(h)
  PROVE  Order'
<1>1. PICK c : c = fds[handlers[h].fd]
  OBVIOUS
<1>2. /\ handlers[h].rd /\ client[c] = "open"
      /\ UNCHANGED <<client, fds, handlers, registry, working, results, got>>
  BY <1>1 DEF HandleInput, net
<1>3. PICK m : m = [id |-> <<c, asked[c] + 1>>, addr |-> handlers[h].addr]
  OBVIOUS
<1>4. requests' = IF Len(requests) < DefaultLimit THEN <<m>> \o requests ELSE requests
  BY <1>1, <1>3 DEF HandleInput
<1>5. Cared(m)
  <2>1. m.addr = handlers[h].addr /\ m.id[1] = c
    BY <1>3
  <2>2. handlers[h].conn = c
    BY <1>1, <1>2 DEF Order, EventsOnOwnFd
  <2>3. QED
    BY <1>2, <2>1, <2>2 DEF Cared, Serves
<1>6. requests \in Seq(Msg)
  BY DEF OnceInv, NetType
<1>7. Pending' \subseteq Pending \cup {m}
  BY <1>2, <1>4, <1>6, StackMembers DEF Pending
<1>8. /\ Registered' /\ EventsOnOwnFd' /\ AnswerToAsker'
      /\ \A n : Cared(n)' <=> Cared(n)
      /\ \A k \in Handler' : \A id \in Buffered(k)' : Serves(k, id[1])'
  BY <1>2, SameNet
<1>9. QED
  BY <1>5, <1>7, <1>8 DEF Order, AskerWaits

\* Messages move between the stacks and the workers.
LEMMA WorkOrder ==
  ASSUME OnceInv, Order, PopMsg \/ \E m \in working : PushMsg(m)
  PROVE  Order'
<1>1. requests \in Seq(Msg) /\ results \in Seq(Msg) /\ working \in SUBSET Msg
  BY DEF OnceInv, NetType
<1>2. UNCHANGED <<client, fds, handlers, registry, got>>
  BY DEF PopMsg, PushMsg, net, hist
<1>3. /\ Registered' /\ EventsOnOwnFd' /\ AnswerToAsker'
      /\ \A n : Cared(n)' <=> Cared(n)
      /\ \A k \in Handler' : \A id \in Buffered(k)' : Serves(k, id[1])'
  BY <1>2, SameNet
<1>4. Pending' \subseteq Pending
  <2>1. CASE PopMsg
    <3>1. /\ requests # <<>> /\ working' = working \cup {Head(requests)} /\ requests' = Tail(requests)
          /\ results' = results
      BY <2>1 DEF PopMsg
    <3>2. QED
      BY <1>1, <3>1, StackMembers DEF Pending
  <2>2. ASSUME NEW m \in working, PushMsg(m) PROVE Pending' \subseteq Pending
    <3>1. /\ requests' = requests /\ working' = working \ {m}
          /\ results' = results \/ results' = <<m>> \o results
      BY <2>2 DEF PushMsg
    <3>2. Members(results') \subseteq Members(results) \cup {m}
      BY <1>1, <3>1, StackMembers
    <3>3. QED
      BY <2>2, <3>1, <3>2 DEF Pending
  <2>3. QED
    BY <2>1, <2>2
<1>5. QED
  BY <1>3, <1>4 DEF Order, AskerWaits

\* The handler of a client that has left is closed: nothing was in its buffer,
\* and the descriptor it closes is its own.
LEMMA EofOrder ==
  ASSUME OnceInv, Order, NEW h \in Handler, HandleEof(h)
  PROVE  Order'
<1>0. NetType
  BY DEF OnceInv
<1>1. /\ handlers[h].rd /\ client[fds[handlers[h].fd]] = "gone" /\ Close(h)
      /\ UNCHANGED <<client, registry, requests, working, results, got>>
  BY DEF HandleEof, queues, hist
<1>2. fds[handlers[h].fd] = handlers[h].conn
  BY <1>1 DEF Order, EventsOnOwnFd
<1>3. PICK out \in Seq(Id) : out = handlers[h].out
  BY <1>0, HandlerFields
<1>4. /\ handlers' = [handlers EXCEPT ![h] = With(h, out, FALSE, FALSE)]
      /\ fds' = CloseFd(fds, handlers[h].fd)
  BY <1>0, <1>1, <1>3, CloseShape
<1>5. \A id \in OutIds(out) : Serves(h, id[1])
  BY <1>3 DEF Order, AskerWaits, Buffered
<1>6. handlers[h].rd /\ client[handlers[h].conn] = "open" => FALSE
  BY <1>1, <1>2
<1>7. /\ Registered' /\ EventsOnOwnFd'
      /\ \A m : Cared(m) => Cared(m)'
      /\ \A k \in Handler' : \A id \in Buffered(k)' : Serves(k, id[1])'
  BY <1>1, <1>2, <1>4, <1>5, <1>6, HandlerOrder
<1>8. Pending' = Pending
  BY <1>1 DEF Pending
<1>9. QED
  BY <1>1, <1>7, <1>8 DEF Order, AskerWaits, AnswerToAsker

\* The socket is writable.
LEMMA OutputEventOrder ==
  ASSUME OnceInv, Order, NEW h \in Handler, HandleOutput(h)
  PROVE  Order'
<1>0. NetType
  BY DEF OnceInv
<1>1. /\ handlers[h].wr /\ HandleOutputTo(h, handlers[h].out)
      /\ UNCHANGED <<client, registry, requests, working, results>>
  BY DEF HandleOutput, queues
<1>2. fds[handlers[h].fd] = handlers[h].conn
  BY <1>1 DEF Order, EventsOnOwnFd
<1>3. PICK out \in Seq(Id) : out = handlers[h].out
  BY <1>0, HandlerFields
<1>4. HandleOutputTo(h, out) /\ \A id \in OutIds(out) : Serves(h, id[1])
  BY <1>1, <1>3 DEF Order, AskerWaits, Buffered
<1>5. /\ Registered' /\ EventsOnOwnFd' /\ AnswerToAsker'
      /\ \A m : Cared(m) => Cared(m)'
      /\ \A k \in Handler' : \A id \in Buffered(k)' : Serves(k, id[1])'
  BY <1>1, <1>2, <1>4, OutputOrder
<1>6. Pending' = Pending
  BY <1>1 DEF Pending
<1>7. QED
  BY <1>5, <1>6 DEF Order, AskerWaits

\* The top answer finds the handler of the asker.
LEMMA SendOrder ==
  ASSUME Orderly, OnceInv, Order, NEW m, SendAnswer(m)
  PROVE  Order'
<1>0. NetType /\ results \in Seq(Msg)
  BY DEF OnceInv, NetType
<1>1. /\ results # <<>> /\ m = Head(results) /\ results' = Tail(results)
      /\ UNCHANGED <<client, registry, requests, working>>
  BY DEF SendAnswer
<1>2. m \in Msg /\ m \in Pending /\ Pending' \subseteq Pending
  BY <1>0, <1>1, StackMembers DEF Pending
<1>3. m.id \in Id
  BY <1>2 DEF Msg
<1>4. PICK h \in Handler : handlers[h].addr = m.addr /\ Serves(h, m.id[1])
  BY <1>2 DEF Order, AskerWaits, Cared
<1>5. m.addr \in DOMAIN registry /\ registry[m.addr] = h
  BY <1>4 DEF Order, Registered
<1>6. PICK out : out = Append(handlers[h].out, m.id)
  OBVIOUS
<1>7. HandleOutputTo(h, out)
  BY <1>5, <1>6 DEF SendAnswer
<1>8. out \in Seq(Id) /\ OutIds(out) = Buffered(h) \cup {m.id}
  BY <1>0, <1>3, <1>6, HandlerFields, AppendOut DEF Buffered
<1>9. \A id \in OutIds(out) : Serves(h, id[1])
  BY <1>4, <1>8 DEF Order, AskerWaits
<1>10. fds[handlers[h].fd] = handlers[h].conn
  BY <1>4 DEF Serves, Order, EventsOnOwnFd
<1>11. /\ Registered' /\ EventsOnOwnFd' /\ AnswerToAsker'
       /\ \A n : Cared(n) => Cared(n)'
       /\ \A k \in Handler' : \A id \in Buffered(k)' : Serves(k, id[1])'
  BY <1>1, <1>7, <1>8, <1>9, <1>10, OutputOrder
<1>12. QED
  BY <1>2, <1>11 DEF Order, AskerWaits

\* With orderly clients, the names of a connection belong together.
LEMMA Ordered == Orderly => (Spec => []OrderInv)
<1> SUFFICES ASSUME Orderly PROVE Spec => []OrderInv
  OBVIOUS
<1>1. Init => Order
  BY DEF Init, Order, Registered, AskerWaits, Pending, Members, EventsOnOwnFd, AnswerToAsker, Handler
<1>2. OnceInv /\ Order /\ [Next]_vars => Order'
  <2> SUFFICES ASSUME OnceInv, Order, [Next]_vars PROVE Order'
    OBVIOUS
  <2>1. CASE \E c \in Conn, a \in Addr : Accept(c, a)
    BY <2>1, AcceptOrder
  <2>2. CASE \E c \in Conn : Disconnect(c)
    BY <2>2, DisconnectOrder
  <2>3. CASE HandlerEvent
    <3>1. \A h \in Handler : ~HandleTimeout(h)
      BY DEF HandleTimeout
    <3>2. QED
      BY <2>3, <3>1, InputOrder, EofOrder, OutputEventOrder DEF HandlerEvent
  <2>4. CASE PopMsg \/ \E m \in working : PushMsg(m)
    BY <2>4, WorkOrder
  <2>5. CASE \E i \in DOMAIN results : SendAnswer(results[i]) \/ EncodeError(results[i])
    <3>1. \A m : ~EncodeError(m)
      BY DEF EncodeError
    <3>2. QED
      BY <2>5, <3>1, SendOrder
  <2>6. CASE Notify \/ HandleNotify \/ EndDrain \/ UNCHANGED vars
    <3>1. UNCHANGED <<client, fds, handlers, registry, requests, working, results, got>>
      BY <2>6 DEF Notify, HandleNotify, EndDrain, vars, net, queues, hist
    <3>2. /\ Registered' /\ EventsOnOwnFd' /\ AnswerToAsker'
          /\ \A n : Cared(n)' <=> Cared(n)
          /\ \A k \in Handler' : \A id \in Buffered(k)' : Serves(k, id[1])'
      BY <3>1, SameNet
    <3>3. Pending' = Pending
      BY <3>1 DEF Pending
    <3>4. QED
      BY <3>2, <3>3 DEF Order, AskerWaits
  <2>7. QED
    BY <2>1, <2>2, <2>3, <2>4, <2>5, <2>6 DEF Next, Work, Drain
<1>3. QED
  BY <1>1, <1>2, Once, PTL DEF Spec, OrderInv

\* If clients wait for their answers, do not idle past the timeout and do not
\* come back under an address that is registered, every answer goes to the
\* connection that asked: without that, it is a matter of luck (run network_reuse).
THEOREM AnswersFindAsker == Orderly => (Spec => []AnswerToAsker)
<1>1. OrderInv => AnswerToAsker
  BY DEF OrderInv, Order
<1>2. QED
  BY <1>1, Ordered, PTL

\* Under the same conditions a handler's events are those of its own
\* connection: its descriptor is not closed and given away behind its back.
THEOREM OwnDescriptor == Orderly => (Spec => []EventsOnOwnFd)
<1>1. OrderInv => EventsOnOwnFd
  BY DEF OrderInv, Order
<1>2. QED
  BY <1>1, Ordered, PTL
=============================================================================
