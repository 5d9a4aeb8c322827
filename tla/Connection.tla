----------------------------- MODULE Connection -----------------------------
(***************************************************************************)
(* One client connection, byte by byte: NetMgrEventHandler                 *)
(* (netmgr/eventhandler.cpp) between a client and the coder, with its two  *)
(* MemBlocks.  TCP cuts both byte streams wherever it likes: a recv gives  *)
(* any part of what has been sent, a send takes any part of what it is     *)
(* given, or nothing (EAGAIN).                                             *)
(*                                                                         *)
(* Everything on the server's side happens in the net thread, one event    *)
(* at a time.  Other connections, descriptors and the answers' way through *)
(* the queues are in NetMgr.tla.                                           *)
(***************************************************************************)
EXTENDS Coder, MemBlock

CONSTANTS
  Kinds,        \* the coders a port may have: "json", "line"
  Sizes,        \* sizes of packages, head included
  RecvSize,     \* RECV_SIZE of HandleInput
  DefaultSize,  \* MemBlock::DEFAULT_SIZE
  EncodeSize,   \* what PushMsgCallBack's buffer takes
  SocketSize,   \* what the kernel buffers towards the client
  MaxReq        \* bound: packages the client sends

\* Clients of JsonRpcCoder send no empty body (DecodeRequest has no use for one).
ASSUME SizesAssumption == Sizes \subseteq Nat /\ \A s \in Sizes : s > HeadLen
ASSUME ConnectionAssumption ==
  /\ Kinds \subseteq {"json", "line"}
  /\ {RecvSize, DefaultSize, EncodeSize, SocketSize} \subseteq Nat \ {0}
  /\ MaxReq \in Nat

VARIABLES
  kind,      \* the port's coder
  there,     \* whether the client still has its end open
  sent,      \* history: packages the client has sent
  in,        \* bytes on their way to the server
  recvbuf,   \* _recvbuffer
  inbox,     \* history: what _extractMsgCallback has been called with
  open,      \* whether the handler has its read event, and its descriptor
  answered,  \* history: requests whose answer PushMsgCallBack has taken
  answers,   \* history: answers Send was called with while open
  sendbuf,   \* _sendbuffer
  wr,        \* whether the write event is registered
  out,       \* bytes on their way to the client
  read       \* bytes the client has read

client == <<kind, there, sent>>
input  == <<in, recvbuf, inbox>>
output == <<sendbuf, wr, out>>
hist   == <<answered, answers>>
vars   == <<client, input, open, output, hist, read>>

----------------------------------------------------------------------------
(* The client *)

ClientSend(p) ==
  /\ there
  /\ Len(sent) < MaxReq
  /\ kind = "line" => p.ok
  /\ sent' = Append(sent, p)
  /\ in' = in \o Bytes(p)
  /\ UNCHANGED <<kind, there, recvbuf, inbox, open, output, hist, read>>

\* sendAndRecv (network.py): recvn for the head, then for the rest it
\* announces.  This is how much the current recvn still wants.
Wanted ==
  LET whole == {n \in 0..Len(read) : n = 0 \/ read[n].at = read[n].of.size}
      begun == From(read, Max(whole) + 1)
  IN  IF kind = "line" THEN Len(out)
      ELSE IF Len(begun) < HeadLen THEN HeadLen - Len(begun)
      ELSE BodyLen(begun) - Len(begun)

\* A recv of recvn's loop.
ClientRecv(n) ==
  /\ there
  /\ n <= Wanted
  /\ n <= Len(out)
  /\ read' = read \o SubSeq(out, 1, n)
  /\ out' = From(out, n + 1)
  /\ UNCHANGED <<client, input, open, sendbuf, wr, hist>>

ClientClose ==
  /\ there
  /\ there' = FALSE
  /\ UNCHANGED <<kind, sent, input, open, output, hist, read>>
----------------------------------------------------------------------------
(* Reading *)

\* Close: both events go and the descriptor is closed.  Bytes that are still
\* unread make the kernel reset the connection: what is on its way to the
\* client may be dropped.
Close ==
  /\ open' = FALSE
  /\ wr' = FALSE
  /\ out' \in IF in' = <<>> THEN {out} ELSE {out, <<>>}

\* Room for a recv behind what the buffer holds.
RoomForRecv(b) == Resize(b, Size(b) + RecvSize)

\* Seeded fault: the content is moved and keeps its length.
UsedNotReduced(b, used) == IF used = 0 THEN b ELSE Copy(b, 0, From(b.data, used + 1))

\* What Extract has used is moved out of the buffer.
Used(b, used) ==
  IF used = 0 THEN b ELSE ReduceSpace(Copy(b, 0, From(b.data, used + 1)), used)

\* HandleInput: a recv gives n bytes.
HandleInput(n) ==
  LET b  == AddSpace(RoomForRecv(recvbuf), SubSeq(in, 1, n))
      ex == Extract(kind, b.data)
  IN  /\ open
      /\ n <= RecvSize
      /\ n <= Len(in)
      /\ in' = From(in, n + 1)
      /\ inbox' = inbox \o ex.msgs
      /\ IF ex.ok THEN recvbuf' = Used(b, ex.used) /\ UNCHANGED <<open, wr, out>>
         ELSE recvbuf' = b /\ Close
      /\ UNCHANGED <<client, sendbuf, hist, read>>

\* HandleInput at end of file, or with the error a reset gives at any time.
HandleEof ==
  /\ open
  /\ ~there
  /\ recvbuf' = RoomForRecv(recvbuf)
  /\ UNCHANGED in
  /\ Close
  /\ UNCHANGED <<client, inbox, sendbuf, hist, read>>

\* HandleTimeout of the read or of the write event.
HandleTimeout ==
  /\ open
  /\ UNCHANGED in
  /\ Close
  /\ UNCHANGED <<client, recvbuf, inbox, sendbuf, hist, read>>
----------------------------------------------------------------------------
(* Writing *)

\* Seeded fault: the content is cut to what is left, and not moved.
UnsentNotMoved(b, n) == IF n = Size(b) THEN Clear(b) ELSE Resize(b, Size(b) - n)

\* What is left in the send buffer when n bytes have been sent.
Unsent(b, n) ==
  IF n = Size(b) THEN Clear(b)
  ELSE LET moved == Copy(b, 0, From(b.data, n + 1)) IN Resize(moved, Size(moved) - n)

\* The socket takes n bytes; those for a client that has left go nowhere.
Sends(b, n) ==
  /\ n <= Size(b)
  /\ there => n <= SocketSize - Len(out)
  /\ out' = IF there THEN out \o SubSeq(b.data, 1, n) ELSE out
  /\ sendbuf' = Unsent(b, n)
  /\ wr' = (Size(Unsent(b, n)) > 0)
  /\ UNCHANGED open

\* Seeded fault: a full socket is not waited for.
EagainForgotten(b) ==
  /\ there
  /\ out # <<>>
  /\ sendbuf' = b
  /\ UNCHANGED <<open, wr, out>>

\* EAGAIN: as long as something is unread the socket may take nothing.
Eagain(b) ==
  /\ there
  /\ out # <<>>
  /\ sendbuf' = b
  /\ wr' = TRUE
  /\ UNCHANGED <<open, out>>

\* HandleOutput with b in the send buffer.
Output(b) ==
  \/ open /\ \E n \in 1..SocketSize : Sends(b, n)
  \/ open /\ Eagain(b)
  \/ open /\ ~there /\ sendbuf' = b /\ UNCHANGED in /\ Close
  \/ ~open /\ sendbuf' = b /\ UNCHANGED <<open, wr, out>>

\* The write event fires.
HandleOutput ==
  /\ open
  /\ wr
  /\ Output(sendbuf)
  /\ UNCHANGED <<client, input, hist, read>>

\* PushMsgCallBack with an answer for request k: an answer that cannot be
\* encoded is dropped, an empty one (a line) closes the connection, every
\* other one is sent.
PushMsg(k, size) ==
  LET p == [id |-> k, size |-> size, ok |-> TRUE]
  IN  /\ k \in DOMAIN inbox \ answered
      /\ answered' = answered \cup {k}
      /\ \/ /\ ~Encodes(kind, p, EncodeSize)
            /\ UNCHANGED <<open, output, answers>>
         \/ /\ kind = "line"
            /\ size = 0
            /\ UNCHANGED <<in, sendbuf, answers>>
            /\ Close
         \/ /\ size > 0
            /\ Encodes(kind, p, EncodeSize)
            /\ Output(AppendTo(sendbuf, Bytes(p)))
            /\ answers' = IF open THEN Append(answers, p) ELSE answers
      /\ UNCHANGED <<client, input, read>>
----------------------------------------------------------------------------
Init ==
  /\ kind \in Kinds
  /\ there = TRUE
  /\ sent = <<>>
  /\ in = <<>>
  /\ recvbuf = NewBlock(DefaultSize)
  /\ inbox = <<>>
  /\ open = TRUE
  /\ answered = {}
  /\ answers = <<>>
  /\ sendbuf = NewBlock(DefaultSize)
  /\ wr = FALSE
  /\ out = <<>>
  /\ read = <<>>

Client ==
  \/ \E s \in Sizes, ok \in BOOLEAN : ClientSend([id |-> Len(sent) + 1, size |-> s, ok |-> ok])
  \/ \E n \in 1..SocketSize : ClientRecv(n)
  \/ ClientClose

Input == \E n \in 1..RecvSize : HandleInput(n)

Next ==
  \/ Client
  \/ Input
  \/ HandleEof
  \/ HandleTimeout
  \/ HandleOutput
  \/ \E k \in DOMAIN inbox, s \in Sizes \cup {0} : PushMsg(k, s)

\* The net thread handles its events, and a client reads what it is sent.
Fairness ==
  /\ WF_vars(Input)
  /\ WF_vars(HandleOutput)
  /\ WF_vars(\E n \in 1..SocketSize : ClientRecv(n))

Spec == Init /\ [][Next]_vars /\ Fairness
----------------------------------------------------------------------------
(* Properties *)

\* However the stream is cut into recvs, the server is given the packages the
\* client sent, whole and in order, each as soon as its last byte is there;
\* what it has not been given is in the buffer or still to be read.
RequestsIntact ==
  /\ Len(inbox) <= Len(sent)
  /\ inbox = [i \in 1..Len(inbox) |-> Message(kind, sent[i])]
  /\ LET rest == From(sent, Len(inbox) + 1)
     IN  open => /\ recvbuf.data \o in = AllBytes(rest)
                 /\ rest # <<>> => Size(recvbuf) < Head(rest).size

\* However the answers are cut into sends and reads, the client reads them
\* whole and in the order they were sent.  While the connection holds no byte
\* is lost, and what is left to send has a write event.
AnswersIntact ==
  /\ IsPrefix(read, AllBytes(answers))
  /\ open /\ there => read \o out \o sendbuf.data = AllBytes(answers)
  /\ open /\ Size(sendbuf) > 0 => wr

\* The packages whose last byte is among the bytes.
PackagesOf(bytes) ==
  LET upto[n \in 0..Len(bytes)] ==
        IF n = 0 THEN <<>>
        ELSE IF bytes[n].at = bytes[n].of.size THEN Append(upto[n - 1], bytes[n].of)
        ELSE upto[n - 1]
  IN  upto[Len(bytes)]

Abstract ==
  INSTANCE Channel WITH requests <- sent,
                        inbox    <- [i \in DOMAIN inbox |-> inbox[i][1].of],
                        got      <- PackagesOf(read),
                        up       <- open

\* To its users a connection is a channel of packages: requests are delivered
\* once and in order and never after one that was bad, only what was delivered
\* is answered, and the client gets what was answered.
ImplementsChannel == Abstract!Spec

\* As long as both ends stay, every package sent is handed over and every
\* answer sent is read to its last byte.
BytesGetThrough ==
  \A k \in 1..MaxReq :
    /\ Len(sent) >= k ~> Len(inbox) >= k \/ ~open \/ ~there
    /\ Len(answers) >= k ~> Len(PackagesOf(read)) >= k \/ ~open \/ ~there
=============================================================================
