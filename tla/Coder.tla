------------------------------- MODULE Coder --------------------------------
(***************************************************************************)
(* The coders of netmgr/coder.cpp that mq.cfg can select: JsonRpcCoder,    *)
(* whose packages begin with their length in _headLen bytes, and           *)
(* LineCoder, whose packages end with a newline.                           *)
(*                                                                         *)
(* A package is [id, size, ok]: size counts all its bytes, the head        *)
(* included, and ok says whether Decode makes a message of it.  A byte of  *)
(* it is the package and the byte's place, which is what its value         *)
(* amounts to: the first HeadLen bytes of a package spell its size, and    *)
(* the last byte of a line is the newline.                                 *)
(***************************************************************************)
EXTENDS Integers, Sequences, SequencesExt, FiniteSetsExt

CONSTANT HeadLen  \* _headLen

ASSUME HeadLenAssumption == HeadLen \in Nat \ {0}

Bytes(p) == [i \in 1..p.size |-> [of |-> p, at |-> i]]

AllBytes(packages) ==
  LET upto[n \in 0..Len(packages)] ==
        IF n = 0 THEN <<>> ELSE upto[n - 1] \o Bytes(packages[n])
  IN  upto[Len(packages)]

\* The bytes from place i on.
From(bytes, i) == SubSeq(bytes, i, Len(bytes))

\* ntohl of the head.  Bytes that are no head spell some number; here one that
\* is never reached.
BodyLen(bytes) ==
  IF \A i \in 1..HeadLen : bytes[i] = [of |-> bytes[1].of, at |-> i]
  THEN bytes[1].of.size ELSE Len(bytes) + 1

\* JsonRpcCoder::Decode: the bytes must be the body of a package, whole.  A
\* body that is JSON without a string "method" (asCString asserts) or of a
\* class that is no Request (the NULL pointer is used) ends the process
\* instead; to this connection that is a close like any other.
Decode(body) ==
  \E p \in {body[i].of : i \in DOMAIN body} : p.ok /\ body = From(Bytes(p), HeadLen + 1)
----------------------------------------------------------------------------
\* Seeded fault: a package that ends where the bytes end is not seen.
PartialAtEnd(bytes) == Len(bytes) <= HeadLen \/ Len(bytes) <= BodyLen(bytes)

\* There is no package, or not all of it.
Partial(bytes) == Len(bytes) <= HeadLen \/ Len(bytes) < BodyLen(bytes)

\* ICoder::Extract: every package there is all of, from the front.  The first
\* that cannot be decoded ends it with -1, after the ones before it have gone
\* to _extractMsgCallback.
JsonExtract(bytes) ==
  LET extract[used \in 0..Len(bytes)] ==
        LET rest == From(bytes, used + 1)
            body == SubSeq(rest, HeadLen + 1, BodyLen(rest))
        IN  IF Partial(rest) THEN [used |-> used, msgs |-> <<>>, ok |-> TRUE]
            ELSE IF ~Decode(body) THEN [used |-> used, msgs |-> <<>>, ok |-> FALSE]
            ELSE [extract[used + BodyLen(rest)] EXCEPT !.msgs = <<body>> \o @]
  IN  extract[0]

\* LineCoder::Extract: everything up to each newline.  A line always decodes:
\* netmgr::LineMessage is a known type.
LineExtract(bytes) ==
  LET extract[used \in 0..Len(bytes)] ==
        LET newlines == {i \in used + 1..Len(bytes) : bytes[i].at = bytes[i].of.size}
            line     == SubSeq(bytes, used + 1, Min(newlines))
        IN  IF newlines = {} THEN [used |-> used, msgs |-> <<>>, ok |-> TRUE]
            ELSE [extract[Min(newlines)] EXCEPT !.msgs = <<line>> \o @]
  IN  extract[0]

Extract(kind, bytes) == IF kind = "line" THEN LineExtract(bytes) ELSE JsonExtract(bytes)

\* What Extract hands over of a package.
Message(kind, p) == IF kind = "line" THEN Bytes(p) ELSE From(Bytes(p), HeadLen + 1)

\* Encode into a buffer of len bytes: -1 when the data, which is the package
\* without its head, is longer than the buffer.  LineCoder does not look.
Encodes(kind, p, len) == kind = "line" \/ p.size - HeadLen <= len
=============================================================================
