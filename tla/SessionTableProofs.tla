------------------------ MODULE SessionTableProofs --------------------------
(***************************************************************************)
(* The session structures of QueueMgr are consistent, and they implement   *)
(* Sessions, for every set of codes, clients and queues, every session     *)
(* time and every sweep limit.                                             *)
(***************************************************************************)
EXTENDS SessionTable, SequenceTheorems, FiniteSetTheorems, TLAPS

----------------------------------------------------------------------------
(* The list operations *)

\* A function on 1..n is a list of length n.
LEMMA SeqIntro ==
  ASSUME NEW S, NEW n \in Nat, NEW f \in [1..n -> S]
  PROVE  f \in Seq(S) /\ Len(f) = n /\ DOMAIN f = 1..n
<1>1. f \in Seq(S)  BY SeqDef
<1>2. Len(f) \in Nat /\ DOMAIN f = 1..Len(f)  BY <1>1, LenProperties
<1>3. 1..n = 1..Len(f)  BY <1>2
<1>4. Len(f) = n  BY <1>2, <1>3
<1> QED  BY <1>1, <1>4

\* push_front puts the new item before every old one.
LEMMA PushFrontProps ==
  ASSUME NEW s \in Seq(Item), NEW c \in Code, NEW t \in Nat, NEW r,
         r = PushFront([code |-> c, time |-> t], s)
  PROVE  /\ r \in Seq(Item)
         /\ Len(r) = Len(s) + 1
         /\ r[1].code = c /\ r[1].time = t
         /\ \A i \in 1..Len(s) : r[i + 1] = s[i]
<1> DEFINE e == [code |-> c, time |-> t]
<1>1. e \in Item /\ e.code = c /\ e.time = t
  BY DEF Item
<1>2. r = [i \in 1..(Len(s) + 1) |-> IF i = 1 THEN e ELSE s[i - 1]]
  BY DEF PushFront
<1> HIDE DEF e
<1>3. Len(s) \in Nat /\ \A i \in 1..Len(s) : s[i] \in Item
  BY LenProperties
<1>4. r \in [1..(Len(s) + 1) -> Item]
  BY <1>1, <1>2, <1>3
<1>5. r \in Seq(Item) /\ Len(r) = Len(s) + 1
  BY <1>3, <1>4, SeqIntro
<1>6. r[1] = e
  BY <1>2, <1>3
<1>7. \A i \in 1..Len(s) : r[i + 1] = s[i]
  <2> TAKE i \in 1..Len(s)
  <2>1. i + 1 \in 1..(Len(s) + 1) /\ i + 1 # 1 /\ (i + 1) - 1 = i
    BY <1>3
  <2> QED  BY <2>1, <1>2
<1> QED  BY <1>1, <1>5, <1>6, <1>7

\* erase(pos) closes the gap.
LEMMA EraseAtProps ==
  ASSUME NEW S, NEW s \in Seq(S), NEW p \in 1..Len(s)
  PROVE  /\ EraseAt(s, p) \in Seq(S)
         /\ Len(EraseAt(s, p)) = Len(s) - 1
         /\ \A i \in 1..(Len(s) - 1) :
              EraseAt(s, p)[i] = IF i < p THEN s[i] ELSE s[i + 1]
<1>1. Len(s) \in Nat /\ Len(s) - 1 \in Nat /\ \A i \in 1..Len(s) : s[i] \in S
  BY LenProperties
<1>2. EraseAt(s, p) \in [1..(Len(s) - 1) -> S]
  BY <1>1 DEF EraseAt
<1> QED  BY <1>1, <1>2, SeqIntro DEF EraseAt

\* splice to the front keeps the length and the order of the other items.
LEMMA MoveToFrontProps ==
  ASSUME NEW S, NEW s \in Seq(S), NEW p \in 1..Len(s), NEW e \in S
  PROVE  /\ MoveToFront(s, p, e) \in Seq(S)
         /\ Len(MoveToFront(s, p, e)) = Len(s)
         /\ \A i \in 1..Len(s) :
              MoveToFront(s, p, e)[i] =
                IF i = 1 THEN e ELSE IF i <= p THEN s[i - 1] ELSE s[i]
<1>1. Len(s) \in Nat /\ \A i \in 1..Len(s) : s[i] \in S
  BY LenProperties
<1>2. MoveToFront(s, p, e) \in [1..Len(s) -> S]
  BY <1>1 DEF MoveToFront
<1> QED  BY <1>1, <1>2, SeqIntro DEF MoveToFront

\* erase(it.base(), end()) keeps a prefix.
LEMMA DropLastProps ==
  ASSUME NEW S, NEW s \in Seq(S), NEW k \in 0..Len(s)
  PROVE  /\ DropLast(s, k) \in Seq(S)
         /\ Len(DropLast(s, k)) = Len(s) - k
         /\ \A i \in 1..(Len(s) - k) : DropLast(s, k)[i] = s[i]
<1>1. Len(s) \in Nat /\ Len(s) - k \in Nat /\ \A i \in 1..Len(s) : s[i] \in S
  BY LenProperties
<1>2. DropLast(s, k) \in [1..(Len(s) - k) -> S]
  BY <1>1 DEF DropLast
<1> QED  BY <1>1, <1>2, SeqIntro DEF DropLast
----------------------------------------------------------------------------
(* The inductive invariant *)

\* No two of the parts are inductive alone: a new item's code is fresh only
\* by IssuedOnce, an erased position is the right one only by
\* ListMatchesMap, and the index stays sound only because the code it leads
\* to cannot be one that was just erased under another key.
IInv == TypeOK /\ IssuedOnce /\ ListMatchesMap /\ NewestFirst /\ IndexNeverDangles

\* A stored iterator points at the item of its own code.
LEMMA PosOfProps ==
  ASSUME TypeOK, ListMatchesMap, NEW c \in DOMAIN code2queue
  PROVE  PosOf(c) \in 1..Len(seq) /\ seq[PosOf(c)].code = c
<1>1. \E i \in 1..Len(seq) : seq[i].code = c
  BY DEF ListMatchesMap
<1> QED  BY <1>1 DEF PosOf, PosIn

\* Every list item has a code and a time.
LEMMA ItemAt ==
  ASSUME TypeOK
  PROVE  /\ Len(seq) \in Nat
         /\ \A i \in 1..Len(seq) : seq[i].code \in Code /\ seq[i].time \in Nat
<1>1. seq \in Seq(Item)  BY DEF TypeOK
<1>2. Len(seq) \in Nat /\ \A i \in 1..Len(seq) : seq[i] \in Item
  BY <1>1, LenProperties
<1> QED  BY <1>2 DEF Item

\* The initial state has no sessions.
LEMMA InitInv == Init => IInv
<1> SUFFICES ASSUME Init PROVE IInv
  OBVIOUS
<1>1. Len(seq) = 0 /\ seq \in Seq(Item)
  BY EmptySeq DEF Init
<1>2. DOMAIN code2queue = {} /\ DOMAIN client2code = {}
  BY DEF Init, EmptyMap
<1>3. TypeOK  BY <1>1, <1>2 DEF Init, TypeOK, EmptyMap
<1>4. IssuedOnce  BY <1>2 DEF IssuedOnce
<1>5. ListMatchesMap  BY <1>1, <1>2 DEF ListMatchesMap
<1>6. NewestFirst  BY <1>1 DEF NewestFirst
<1>7. IndexNeverDangles  BY <1>2 DEF IndexNeverDangles
<1> QED  BY <1>3, <1>4, <1>5, <1>6, <1>7 DEF IInv

\* Opening a queue adds one session under a fresh code.
LEMMA OpenQueueInv ==
  ASSUME IInv, NEW q \in Queue, NEW cl \in Client, OpenQueue(q, cl)
  PROVE  IInv'
<1>1. PICK c \in Code \ issued :
        /\ issued' = issued \cup {c}
        /\ seq' = PushFront([code |-> c, time |-> now], seq)
        /\ code2queue' = Put(code2queue, c, [queue |-> q, client |-> cl])
        /\ cached' = cached \cup {q}
        /\ client2code' = Put(client2code, <<cl, q>>, c)
        /\ now' = now
  BY DEF OpenQueue
<1>2. c \notin DOMAIN code2queue
  BY <1>1 DEF IInv, IssuedOnce
<1>4. /\ seq' \in Seq(Item)
      /\ Len(seq') = Len(seq) + 1
      /\ seq'[1].code = c /\ seq'[1].time = now
      /\ \A i \in 1..Len(seq) : seq'[i + 1] = seq[i]
  BY <1>1, PushFrontProps DEF IInv, TypeOK
<1>5. Len(seq) \in Nat
  BY LenProperties DEF IInv, TypeOK
<1>6. /\ DOMAIN code2queue' = DOMAIN code2queue \cup {c}
      /\ code2queue'[c] = [queue |-> q, client |-> cl]
      /\ \A d \in DOMAIN code2queue : code2queue'[d] = code2queue[d]
  BY <1>1, <1>2 DEF Put
<1>7. /\ DOMAIN client2code' = DOMAIN client2code \cup {<<cl, q>>}
      /\ client2code'[<<cl, q>>] = c
      /\ \A k \in DOMAIN client2code : k # <<cl, q>> => client2code'[k] = client2code[k]
  BY <1>1 DEF Put
<1>7a. \A i \in 1..Len(seq') : i = 1 \/ (i - 1 \in 1..Len(seq) /\ seq'[i] = seq[i - 1])
  <2> TAKE i \in 1..Len(seq')
  <2>1. CASE i # 1
    <3>1. i - 1 \in 1..Len(seq) /\ (i - 1) + 1 = i  BY <2>1, <1>4, <1>5
    <3> QED  BY <3>1, <1>4
  <2> QED  BY <2>1
<1>8. TypeOK'
  <2>1. code2queue' \in [DOMAIN code2queue' -> Session]
    BY <1>1 DEF IInv, TypeOK, Put, Session
  <2>2. client2code' \in [DOMAIN client2code' -> Code]
    BY <1>1 DEF IInv, TypeOK, Put
  <2>3. <<cl, q>> \in Key  BY DEF Key
  <2>4. DOMAIN client2code' \subseteq Key  BY <1>7, <2>3 DEF IInv, TypeOK
  <2> QED  BY <1>1, <1>4, <1>6, <2>1, <2>2, <2>4 DEF IInv, TypeOK
<1>9. IssuedOnce'
  BY <1>1, <1>6 DEF IInv, IssuedOnce
<1>10. ListMatchesMap'
  <2>1. \A i \in 1..Len(seq') : seq'[i].code \in DOMAIN code2queue'
    <3> TAKE i \in 1..Len(seq')
    <3>1. CASE i = 1
      BY <3>1, <1>4, <1>6
    <3>2. CASE i - 1 \in 1..Len(seq) /\ seq'[i] = seq[i - 1]
      <4>1. seq[i - 1].code \in DOMAIN code2queue
        BY <3>2 DEF IInv, ListMatchesMap
      <4> QED  BY <3>2, <4>1, <1>6
    <3> QED  BY <3>1, <3>2, <1>7a
  <2>2. \A d \in DOMAIN code2queue' : \E i \in 1..Len(seq') : seq'[i].code = d
    <3> SUFFICES ASSUME NEW d \in DOMAIN code2queue'
                 PROVE  \E i \in 1..Len(seq') : seq'[i].code = d
      OBVIOUS
    <3>1. CASE d = c
      BY <3>1, <1>4, <1>5
    <3>2. CASE d # c
      <4>1. PICK i \in 1..Len(seq) : seq[i].code = d
        BY <3>2, <1>6 DEF IInv, ListMatchesMap
      <4>2. i + 1 \in 1..Len(seq') /\ seq'[i + 1].code = d
        BY <4>1, <1>4, <1>5
      <4> QED  BY <4>2
    <3> QED  BY <3>1, <3>2
  <2>3. \A i, j \in 1..Len(seq') : seq'[i].code = seq'[j].code => i = j
    <3>1. \A i \in 1..Len(seq) : seq[i].code # c
      BY <1>2 DEF IInv, ListMatchesMap
    <3>2. \A i \in 1..Len(seq') : i # 1 => seq'[i].code # c
      BY <3>1, <1>7a
    <3>3. \A i, j \in 1..Len(seq) : seq[i].code = seq[j].code => i = j
      BY DEF IInv, ListMatchesMap
    <3> SUFFICES ASSUME NEW i \in 1..Len(seq'), NEW j \in 1..Len(seq'),
                        seq'[i].code = seq'[j].code, i # 1, j # 1
                 PROVE  i = j
      BY <3>2, <1>4
    <3>4. /\ i - 1 \in 1..Len(seq) /\ seq'[i] = seq[i - 1]
          /\ j - 1 \in 1..Len(seq) /\ seq'[j] = seq[j - 1]
      BY <1>7a
    <3>5. i - 1 = j - 1
      BY <3>3, <3>4
    <3> QED  BY <3>5
  <2> QED  BY <2>1, <2>2, <2>3 DEF ListMatchesMap
<1>11. NewestFirst'
  <2>1. \A i \in 1..Len(seq) : seq[i].time <= now
    BY DEF IInv, NewestFirst
  <2>2. \A i, j \in 1..Len(seq) : i < j => seq[i].time >= seq[j].time
    BY DEF IInv, NewestFirst
  <2>3. now \in Nat
    BY DEF IInv, TypeOK
  <2>4. \A i \in 1..Len(seq') : seq'[i].time <= now'
    <3> TAKE i \in 1..Len(seq')
    <3>1. CASE i = 1
      BY <3>1, <1>1, <1>4, <2>3
    <3>2. CASE i - 1 \in 1..Len(seq) /\ seq'[i] = seq[i - 1]
      BY <3>2, <1>1, <2>1
    <3> QED  BY <3>1, <3>2, <1>7a
  <2>5. \A i, j \in 1..Len(seq') : i < j => seq'[i].time >= seq'[j].time
    <3> SUFFICES ASSUME NEW i \in 1..Len(seq'), NEW j \in 1..Len(seq'), i < j
                 PROVE  seq'[i].time >= seq'[j].time
      OBVIOUS
    <3>1. j - 1 \in 1..Len(seq) /\ seq'[j] = seq[j - 1]
      BY <1>7a
    <3>2. CASE i = 1
      <4>1. seq[j - 1].time <= now  BY <3>1, <2>1
      <4>2. seq[j - 1].time \in Nat  BY <3>1, ItemAt DEF IInv
      <4> QED  BY <3>1, <3>2, <4>1, <4>2, <1>4, <2>3
    <3>3. CASE i # 1
      <4>1. i - 1 \in 1..Len(seq) /\ seq'[i] = seq[i - 1] /\ i - 1 < j - 1
        BY <3>3, <1>7a
      <4> QED  BY <4>1, <3>1, <2>2
    <3> QED  BY <3>2, <3>3
  <2> QED  BY <2>4, <2>5 DEF NewestFirst
<1>12. IndexNeverDangles'
  <2> SUFFICES ASSUME NEW k \in DOMAIN client2code'
               PROVE  /\ client2code'[k] \in DOMAIN code2queue'
                      /\ KeyOf(client2code[k])' = k
    BY DEF IndexNeverDangles
  <2>1. CASE k = <<cl, q>>
    BY <2>1, <1>6, <1>7 DEF KeyOf
  <2>2. CASE k # <<cl, q>>
    BY <2>2, <1>6, <1>7 DEF KeyOf, IInv, IndexNeverDangles
  <2> QED  BY <2>1, <2>2
<1> QED  BY <1>8, <1>9, <1>10, <1>11, <1>12 DEF IInv

\* Closing a session takes exactly its own item, entry and index key away.
LEMMA CloseQueueInv ==
  ASSUME IInv, NEW c \in Code, CloseQueue(c)
  PROVE  IInv'
<1> DEFINE p == PosOf(c)
<1>1. /\ c \in DOMAIN code2queue
      /\ client2code' = Erase(client2code, {KeyOf(c)})
      /\ seq' = EraseAt(seq, p)
      /\ code2queue' = Erase(code2queue, {c})
      /\ now' = now /\ issued' = issued /\ cached' = cached
  BY DEF CloseQueue
<1>2. p \in 1..Len(seq) /\ seq[p].code = c
  BY <1>1, PosOfProps DEF IInv
<1> HIDE DEF p
<1>3. Len(seq) \in Nat /\ \A i \in 1..Len(seq) : seq[i].code \in Code /\ seq[i].time \in Nat
  BY ItemAt DEF IInv
<1>4. seq' \in Seq(Item) /\ Len(seq') = Len(seq) - 1
  <2>1. seq \in Seq(Item)  BY DEF IInv, TypeOK
  <2>2. EraseAt(seq, p) \in Seq(Item) /\ Len(EraseAt(seq, p)) = Len(seq) - 1
    BY <2>1, <1>2, EraseAtProps
  <2> QED  BY <1>1, <2>2
<1> DEFINE old(i) == IF i < p THEN i ELSE i + 1
<1>5. \A i \in 1..Len(seq') : /\ old(i) \in 1..Len(seq) /\ old(i) # p
                              /\ seq'[i] = seq[old(i)]
  <2> TAKE i \in 1..Len(seq')
  <2>1. old(i) \in 1..Len(seq) /\ old(i) # p
    BY <1>2, <1>3, <1>4
  <2>2. i \in 1..(Len(seq) - 1)
    BY <1>4
  <2>3. EraseAt(seq, p)[i] = seq[old(i)]
    BY <2>2, <1>2 DEF EraseAt
  <2> QED  BY <2>1, <2>3, <1>1
<1>6. /\ DOMAIN code2queue' = DOMAIN code2queue \ {c}
      /\ \A d \in DOMAIN code2queue' : code2queue'[d] = code2queue[d]
  BY <1>1 DEF Erase
<1>7. /\ DOMAIN client2code' = DOMAIN client2code \ {KeyOf(c)}
      /\ \A k \in DOMAIN client2code' : client2code'[k] = client2code[k]
  BY <1>1 DEF Erase
<1>8. TypeOK'
  <2>1. code2queue' \in [DOMAIN code2queue' -> Session]
    BY <1>1 DEF IInv, TypeOK, Erase
  <2>2. client2code' \in [DOMAIN client2code' -> Code]
    BY <1>1 DEF IInv, TypeOK, Erase
  <2> QED  BY <1>1, <1>4, <1>6, <1>7, <2>1, <2>2 DEF IInv, TypeOK
<1>9. IssuedOnce'
  BY <1>1, <1>6 DEF IInv, IssuedOnce
<1>10. ListMatchesMap'
  <2>0. /\ \A i \in 1..Len(seq) : seq[i].code \in DOMAIN code2queue
        /\ \A d \in DOMAIN code2queue : \E i \in 1..Len(seq) : seq[i].code = d
        /\ \A i, j \in 1..Len(seq) : seq[i].code = seq[j].code => i = j
    BY DEF IInv, ListMatchesMap
  <2>1. \A i \in 1..Len(seq') : seq'[i].code \in DOMAIN code2queue'
    <3> TAKE i \in 1..Len(seq')
    <3>1. seq[old(i)].code \in DOMAIN code2queue /\ seq[old(i)].code # c
      BY <1>2, <1>5, <2>0
    <3> QED  BY <3>1, <1>5, <1>6
  <2>2. \A d \in DOMAIN code2queue' : \E i \in 1..Len(seq') : seq'[i].code = d
    <3> TAKE d \in DOMAIN code2queue'
    <3>1. PICK j \in 1..Len(seq) : seq[j].code = d
      BY <2>0, <1>6
    <3>2. j # p
      BY <3>1, <1>2, <1>6
    <3>3. CASE j < p
      <4>1. j \in 1..Len(seq') /\ old(j) = j
        BY <3>3, <1>2, <1>3, <1>4
      <4> QED  BY <4>1, <3>1, <1>5
    <3>4. CASE j > p
      <4>1. j - 1 \in 1..Len(seq') /\ old(j - 1) = j
        BY <3>4, <1>2, <1>3, <1>4
      <4> QED  BY <4>1, <3>1, <1>5
    <3> QED  BY <3>2, <3>3, <3>4, <1>2
  <2>3. \A i, j \in 1..Len(seq') : seq'[i].code = seq'[j].code => i = j
    <3> SUFFICES ASSUME NEW i \in 1..Len(seq'), NEW j \in 1..Len(seq'),
                        seq'[i].code = seq'[j].code
                 PROVE  i = j
      OBVIOUS
    <3>1. /\ old(i) \in 1..Len(seq) /\ old(j) \in 1..Len(seq)
          /\ seq[old(i)].code = seq[old(j)].code
      BY <1>5
    <3>2. old(i) = old(j)
      <4> HIDE DEF old
      <4> QED  BY <3>1, <2>0
    <3> QED  BY <3>2, <1>2, <1>3, <1>4
  <2> QED  BY <2>1, <2>2, <2>3 DEF ListMatchesMap
<1>11. NewestFirst'
  <2>0. /\ \A i \in 1..Len(seq) : seq[i].time <= now
        /\ \A i, j \in 1..Len(seq) : i < j => seq[i].time >= seq[j].time
    BY DEF IInv, NewestFirst
  <2>1. \A i \in 1..Len(seq') : seq'[i].time <= now'
    BY <1>1, <1>5, <2>0
  <2>2. \A i, j \in 1..Len(seq') : i < j => seq'[i].time >= seq'[j].time
    <3> SUFFICES ASSUME NEW i \in 1..Len(seq'), NEW j \in 1..Len(seq'), i < j
                 PROVE  seq'[i].time >= seq'[j].time
      OBVIOUS
    <3>1. old(i) < old(j)
      BY <1>2, <1>3, <1>4
    <3> QED  BY <3>1, <1>5, <2>0
  <2> QED  BY <2>1, <2>2 DEF NewestFirst
<1>12. IndexNeverDangles'
  <2> SUFFICES ASSUME NEW k \in DOMAIN client2code'
               PROVE  /\ client2code'[k] \in DOMAIN code2queue'
                      /\ KeyOf(client2code[k])' = k
    BY DEF IndexNeverDangles
  <2>1. client2code[k] \in DOMAIN code2queue /\ KeyOf(client2code[k]) = k
    BY <1>7 DEF IInv, IndexNeverDangles
  <2>2. client2code[k] # c
    BY <2>1, <1>7
  <2> QED  BY <2>1, <2>2, <1>6, <1>7 DEF KeyOf
<1> QED  BY <1>8, <1>9, <1>10, <1>11, <1>12 DEF IInv

\* Using a session moves its item to the front with the current time.
LEMMA GetQueueNameInv ==
  ASSUME IInv, NEW c \in Code, GetQueueName(c)
  PROVE  IInv'
<1> DEFINE p == PosOf(c)
           e == [code |-> c, time |-> now]
           old(i) == IF i = 1 THEN p ELSE IF i <= p THEN i - 1 ELSE i
<1>1. /\ c \in DOMAIN code2queue
      /\ seq' = MoveToFront(seq, p, e)
      /\ now' = now /\ issued' = issued /\ cached' = cached
      /\ code2queue' = code2queue /\ client2code' = client2code
  BY DEF GetQueueName
<1>2. p \in 1..Len(seq) /\ seq[p].code = c
  BY <1>1, PosOfProps DEF IInv
<1>3. Len(seq) \in Nat /\ \A i \in 1..Len(seq) : seq[i].code \in Code /\ seq[i].time \in Nat
  BY ItemAt DEF IInv
<1>4. e \in Item /\ e.code = c /\ e.time = now /\ now \in Nat
  BY DEF IInv, TypeOK, Item
<1> HIDE DEF p, e
<1>5. seq' \in Seq(Item) /\ Len(seq') = Len(seq)
  <2>1. seq \in Seq(Item)  BY DEF IInv, TypeOK
  <2>2. /\ MoveToFront(seq, p, e) \in Seq(Item)
        /\ Len(MoveToFront(seq, p, e)) = Len(seq)
    BY <2>1, <1>2, <1>4, MoveToFrontProps
  <2> QED  BY <1>1, <2>2
<1>6. \A i \in 1..Len(seq') :
        /\ old(i) \in 1..Len(seq)
        /\ (old(i) = p) <=> (i = 1)
        /\ seq'[i] = IF i = 1 THEN e ELSE seq[old(i)]
  <2> TAKE i \in 1..Len(seq')
  <2>1. old(i) \in 1..Len(seq) /\ (old(i) = p <=> i = 1)
    BY <1>2, <1>3, <1>5
  <2>2. i \in 1..Len(seq)
    BY <1>5
  <2>3. MoveToFront(seq, p, e)[i] = IF i = 1 THEN e ELSE seq[old(i)]
    BY <2>2 DEF MoveToFront
  <2> QED  BY <2>1, <2>3, <1>1
<1>7. \A i \in 1..Len(seq') : seq'[i].code = seq[old(i)].code
  BY <1>2, <1>4, <1>6
<1>8. TypeOK'
  BY <1>1, <1>5 DEF IInv, TypeOK
<1>9. IssuedOnce'
  BY <1>1 DEF IInv, IssuedOnce
<1>10. ListMatchesMap'
  <2>0. /\ \A i \in 1..Len(seq) : seq[i].code \in DOMAIN code2queue
        /\ \A d \in DOMAIN code2queue : \E i \in 1..Len(seq) : seq[i].code = d
        /\ \A i, j \in 1..Len(seq) : seq[i].code = seq[j].code => i = j
    BY DEF IInv, ListMatchesMap
  <2>1. \A i \in 1..Len(seq') : seq'[i].code \in DOMAIN code2queue'
    <3> TAKE i \in 1..Len(seq')
    <3>1. old(i) \in 1..Len(seq) /\ seq'[i].code = seq[old(i)].code
      BY <1>6, <1>7
    <3> HIDE DEF old
    <3> QED  BY <3>1, <1>1, <2>0
  <2>2. \A d \in DOMAIN code2queue' : \E i \in 1..Len(seq') : seq'[i].code = d
    <3> TAKE d \in DOMAIN code2queue'
    <3>1. PICK j \in 1..Len(seq) : seq[j].code = d
      BY <2>0, <1>1
    <3>2. CASE j = p
      <4>1. 1 \in 1..Len(seq') /\ old(1) = j
        BY <3>2, <1>2, <1>3, <1>5
      <4> QED  BY <4>1, <3>1, <1>7
    <3>3. CASE j < p
      <4>1. j + 1 \in 1..Len(seq') /\ old(j + 1) = j
        BY <3>3, <1>2, <1>3, <1>5
      <4> QED  BY <4>1, <3>1, <1>7
    <3>4. CASE j > p
      <4>1. j \in 1..Len(seq') /\ old(j) = j
        BY <3>4, <1>2, <1>3, <1>5
      <4> QED  BY <4>1, <3>1, <1>7
    <3> QED  BY <3>2, <3>3, <3>4, <1>2
  <2>3. \A i, j \in 1..Len(seq') : seq'[i].code = seq'[j].code => i = j
    <3> SUFFICES ASSUME NEW i \in 1..Len(seq'), NEW j \in 1..Len(seq'),
                        seq'[i].code = seq'[j].code
                 PROVE  i = j
      OBVIOUS
    <3>1. /\ old(i) \in 1..Len(seq) /\ old(j) \in 1..Len(seq)
          /\ seq[old(i)].code = seq[old(j)].code
      BY <1>6, <1>7
    <3>2. old(i) = old(j)
      <4> HIDE DEF old
      <4> QED  BY <3>1, <2>0
    <3> QED  BY <3>2, <1>2, <1>3, <1>5
  <2> QED  BY <2>1, <2>2, <2>3 DEF ListMatchesMap
<1>11. NewestFirst'
  <2>0. /\ \A i \in 1..Len(seq) : seq[i].time <= now
        /\ \A i, j \in 1..Len(seq) : i < j => seq[i].time >= seq[j].time
    BY DEF IInv, NewestFirst
  <2>1. \A i \in 1..Len(seq') : seq'[i].time <= now'
    <3> TAKE i \in 1..Len(seq')
    <3>1. CASE i = 1
      BY <3>1, <1>1, <1>4, <1>6
    <3>2. CASE i # 1
      BY <3>2, <1>1, <1>6, <2>0
    <3> QED  BY <3>1, <3>2
  <2>2. \A i, j \in 1..Len(seq') : i < j => seq'[i].time >= seq'[j].time
    <3> SUFFICES ASSUME NEW i \in 1..Len(seq'), NEW j \in 1..Len(seq'), i < j
                 PROVE  seq'[i].time >= seq'[j].time
      OBVIOUS
    <3>1. seq'[j] = seq[old(j)] /\ old(j) \in 1..Len(seq)
      BY <1>6
    <3>2. CASE i = 1
      <4>1. seq'[i].time = now
        BY <3>2, <1>4, <1>6
      <4>2. seq[old(j)].time <= now /\ seq[old(j)].time \in Nat
        BY <3>1, <2>0, <1>3
      <4> QED  BY <3>1, <4>1, <4>2, <1>4
    <3>3. CASE i # 1
      <4>1. seq'[i] = seq[old(i)] /\ old(i) \in 1..Len(seq)
        BY <3>3, <1>6
      <4>2. old(i) < old(j)
        BY <3>3, <1>2, <1>3, <1>5
      <4> QED  BY <3>1, <4>1, <4>2, <2>0
    <3> QED  BY <3>2, <3>3
  <2> QED  BY <2>1, <2>2 DEF NewestFirst
<1>12. IndexNeverDangles'
  BY <1>1 DEF IInv, IndexNeverDangles, KeyOf
<1> QED  BY <1>8, <1>9, <1>10, <1>11, <1>12 DEF IInv

\* A sweep takes the tail of the list, and with it the entries and the index
\* keys of exactly the codes in that tail.
LEMMA SweepInv ==
  ASSUME IInv, RemoveExpireMsgQueueCode
  PROVE  IInv'
<1> DEFINE Dead(k) == {seq[i].code : i \in (Len(seq) - k + 1)..Len(seq)}
<1>1. PICK k \in 0..Len(seq) :
        /\ client2code' = Erase(client2code, {KeyOf(c) : c \in Dead(k)})
        /\ code2queue' = Erase(code2queue, Dead(k))
        /\ seq' = DropLast(seq, k)
        /\ now' = now /\ issued' = issued /\ cached' = cached
  BY DEF RemoveExpireMsgQueueCode
<1>2. Len(seq) \in Nat /\ \A i \in 1..Len(seq) : seq[i].code \in Code /\ seq[i].time \in Nat
  BY ItemAt DEF IInv
<1>3. seq' \in Seq(Item) /\ Len(seq') = Len(seq) - k
  <2>1. seq \in Seq(Item)  BY DEF IInv, TypeOK
  <2>2. DropLast(seq, k) \in Seq(Item) /\ Len(DropLast(seq, k)) = Len(seq) - k
    BY <2>1, DropLastProps
  <2> QED  BY <1>1, <2>2
<1>4. \A i \in 1..Len(seq') : i \in 1..Len(seq) /\ i < Len(seq) - k + 1 /\ seq'[i] = seq[i]
  <2> TAKE i \in 1..Len(seq')
  <2>1. i \in 1..(Len(seq) - k) /\ i \in 1..Len(seq) /\ i < Len(seq) - k + 1
    BY <1>2, <1>3
  <2>2. DropLast(seq, k)[i] = seq[i]
    BY <2>1 DEF DropLast
  <2> QED  BY <2>1, <2>2, <1>1
<1>5. \A i \in 1..Len(seq) : i \notin 1..Len(seq') => i \in (Len(seq) - k + 1)..Len(seq)
  BY <1>2, <1>3
<1>6. /\ DOMAIN code2queue' = DOMAIN code2queue \ Dead(k)
      /\ \A d \in DOMAIN code2queue' : code2queue'[d] = code2queue[d]
  BY <1>1 DEF Erase
<1>7. /\ DOMAIN client2code' = DOMAIN client2code \ {KeyOf(c) : c \in Dead(k)}
      /\ \A x \in DOMAIN client2code' : client2code'[x] = client2code[x]
  BY <1>1 DEF Erase
<1>8. TypeOK'
  <2>1. code2queue' \in [DOMAIN code2queue' -> Session]
    BY <1>6, <1>1 DEF IInv, TypeOK, Erase
  <2>2. client2code' \in [DOMAIN client2code' -> Code]
    BY <1>7, <1>1 DEF IInv, TypeOK, Erase
  <2> QED  BY <1>1, <1>3, <1>6, <1>7, <2>1, <2>2 DEF IInv, TypeOK
<1>9. IssuedOnce'
  BY <1>1, <1>6 DEF IInv, IssuedOnce
<1>10. ListMatchesMap'
  <2>0. /\ \A i \in 1..Len(seq) : seq[i].code \in DOMAIN code2queue
        /\ \A d \in DOMAIN code2queue : \E i \in 1..Len(seq) : seq[i].code = d
        /\ \A i, j \in 1..Len(seq) : seq[i].code = seq[j].code => i = j
    BY DEF IInv, ListMatchesMap
  <2>1. \A i \in 1..Len(seq') : seq'[i].code \in DOMAIN code2queue'
    <3> TAKE i \in 1..Len(seq')
    <3>1. seq[i].code \notin Dead(k)
      <4> SUFFICES ASSUME NEW j \in (Len(seq) - k + 1)..Len(seq), seq[j].code = seq[i].code
                   PROVE  FALSE
        OBVIOUS
      <4>1. j \in 1..Len(seq) /\ i # j
        BY <1>2, <1>4
      <4> QED  BY <4>1, <1>4, <2>0
    <3> QED  BY <3>1, <1>4, <1>6, <2>0
  <2>2. \A d \in DOMAIN code2queue' : \E i \in 1..Len(seq') : seq'[i].code = d
    <3> TAKE d \in DOMAIN code2queue'
    <3>1. PICK j \in 1..Len(seq) : seq[j].code = d
      BY <2>0, <1>6
    <3>2. j \in 1..Len(seq')
      BY <3>1, <1>5, <1>6
    <3> QED  BY <3>1, <3>2, <1>4
  <2>3. \A i, j \in 1..Len(seq') : seq'[i].code = seq'[j].code => i = j
    BY <1>4, <2>0
  <2> QED  BY <2>1, <2>2, <2>3 DEF ListMatchesMap
<1>11. NewestFirst'
  BY <1>1, <1>4 DEF IInv, NewestFirst
<1>12. IndexNeverDangles'
  <2> SUFFICES ASSUME NEW x \in DOMAIN client2code'
               PROVE  /\ client2code'[x] \in DOMAIN code2queue'
                      /\ KeyOf(client2code[x])' = x
    BY DEF IndexNeverDangles
  <2>1. client2code[x] \in DOMAIN code2queue /\ KeyOf(client2code[x]) = x
    BY <1>7 DEF IInv, IndexNeverDangles
  <2>2. client2code[x] \notin Dead(k)
    BY <2>1, <1>7
  <2> QED  BY <2>1, <2>2, <1>6, <1>7 DEF KeyOf
<1> QED  BY <1>8, <1>9, <1>10, <1>11, <1>12 DEF IInv

\* A restart forgets every session.
LEMMA RestartInv ==
  ASSUME IInv, Restart
  PROVE  IInv'
<1>1. Len(seq') = 0 /\ seq' \in Seq(Item)
  BY EmptySeq DEF Restart
<1>2. DOMAIN code2queue' = {} /\ DOMAIN client2code' = {}
  BY DEF Restart, EmptyMap
<1>3. TypeOK'  BY <1>1, <1>2 DEF Restart, IInv, TypeOK, EmptyMap
<1>4. IssuedOnce'  BY <1>2 DEF IssuedOnce
<1>5. ListMatchesMap'  BY <1>1, <1>2 DEF ListMatchesMap
<1>6. NewestFirst'  BY <1>1 DEF NewestFirst
<1>7. IndexNeverDangles'  BY <1>2 DEF IndexNeverDangles
<1> QED  BY <1>3, <1>4, <1>5, <1>6, <1>7 DEF IInv

\* Reloading the queue names and the passing of time leave the sessions alone.
LEMMA QuietInv ==
  ASSUME IInv, LoadQueues \/ Tick \/ UNCHANGED vars
  PROVE  IInv'
<1>1. /\ seq' = seq /\ code2queue' = code2queue /\ client2code' = client2code
      /\ issued' = issued /\ cached' \in SUBSET Queue
      /\ now' \in Nat /\ now' >= now
  BY DEF IInv, TypeOK, LoadQueues, Tick, vars
<1>2. TypeOK'  BY <1>1 DEF IInv, TypeOK
<1>3. IssuedOnce'  BY <1>1 DEF IInv, IssuedOnce
<1>4. ListMatchesMap'  BY <1>1 DEF IInv, ListMatchesMap
<1>5. NewestFirst'
  <2>1. Len(seq) \in Nat /\ now \in Nat /\ \A i \in 1..Len(seq) : seq[i].time \in Nat
    BY ItemAt DEF IInv, TypeOK
  <2> QED  BY <1>1, <2>1 DEF IInv, NewestFirst
<1>6. IndexNeverDangles'  BY <1>1 DEF IInv, IndexNeverDangles, KeyOf
<1> QED  BY <1>2, <1>3, <1>4, <1>5, <1>6 DEF IInv

\* Every step of QueueMgr keeps the invariant.
LEMMA NextInv == IInv /\ [Next]_vars => IInv'
<1> SUFFICES ASSUME IInv, [Next]_vars PROVE IInv'
  OBVIOUS
<1>1. ASSUME NEW q \in Queue, NEW cl \in Client, OpenQueue(q, cl) PROVE IInv'
  BY <1>1, OpenQueueInv
<1>2. ASSUME NEW c \in Code, CloseQueue(c) PROVE IInv'
  BY <1>2, CloseQueueInv
<1>3. ASSUME NEW c \in Code, GetQueueName(c) PROVE IInv'
  BY <1>3, GetQueueNameInv
<1>4. CASE RemoveExpireMsgQueueCode
  BY <1>4, SweepInv
<1>5. CASE Restart
  BY <1>5, RestartInv
<1>6. CASE LoadQueues \/ Tick \/ UNCHANGED vars
  BY <1>6, QuietInv
<1> QED  BY <1>1, <1>2, <1>3, <1>4, <1>5, <1>6 DEF Next

\* The inductive invariant holds of every reachable state.
THEOREM Invariance == Spec => []IInv
<1>1. Init => IInv  BY InitInv
<1>2. IInv /\ [Next]_vars => IInv'  BY NextInv
<1> QED  BY <1>1, <1>2, PTL DEF Spec

\* The containers keep their types.
THEOREM TypeCorrect == Spec => []TypeOK
<1>1. IInv => TypeOK  BY DEF IInv
<1> QED  BY <1>1, Invariance, PTL

\* Every stored list iterator is valid and the sweep never dereferences the
\* end of _msgQueueCode2QueueName.
THEOREM IteratorsValid == Spec => []ListMatchesMap
<1>1. IInv => ListMatchesMap  BY DEF IInv
<1> QED  BY <1>1, Invariance, PTL

\* The list stays in order of last use, whatever sessions are used, closed
\* and swept.
THEOREM ListInOrder == Spec => []NewestFirst
<1>1. IInv => NewestFirst  BY DEF IInv
<1> QED  BY <1>1, Invariance, PTL

\* The client index never leads to a dead session.
THEOREM IndexSound == Spec => []IndexNeverDangles
<1>1. IInv => IndexNeverDangles  BY DEF IInv
<1> QED  BY <1>1, Invariance, PTL

----------------------------------------------------------------------------
(* SessionTable implements Sessions *)

\* In a list without duplicate codes a code has one position.
LEMMA PosInUnique ==
  ASSUME NEW s, NEW i \in 1..Len(s),
         \A a, b \in 1..Len(s) : s[a].code = s[b].code => a = b
  PROVE  PosIn(s, s[i].code) = i
BY DEF PosIn

\* What the abstraction says of the session whose item is at position i.
LEMMA LiveAt ==
  ASSUME IInv, NEW i \in 1..Len(seq)
  PROVE  /\ seq[i].code \in DOMAIN code2queue
         /\ Live[seq[i].code].last = seq[i].time
<1>1. /\ seq[i].code \in DOMAIN code2queue
      /\ \A a, b \in 1..Len(seq) : seq[a].code = seq[b].code => a = b
  BY DEF IInv, ListMatchesMap
<1>2. PosIn(seq, seq[i].code) = i
  BY <1>1, PosInUnique
<1> QED  BY <1>1, <1>2 DEF Live, PosOf

\* Opening is Open: the new item pushes every other one back by one place.
LEMMA OpenRefines ==
  ASSUME IInv, IInv', NEW q \in Queue, NEW cl \in Client, OpenQueue(q, cl)
  PROVE  Abstract!Open
<1>1. PICK c \in Code \ issued :
        /\ issued' = issued \cup {c}
        /\ seq' = PushFront([code |-> c, time |-> now], seq)
        /\ code2queue' = Put(code2queue, c, [queue |-> q, client |-> cl])
        /\ now' = now
  BY DEF OpenQueue
<1>2. c \notin DOMAIN code2queue
  BY <1>1 DEF IInv, IssuedOnce
<1>3. /\ DOMAIN code2queue' = DOMAIN code2queue \cup {c}
      /\ code2queue'[c].queue = q /\ code2queue'[c].client = cl
      /\ \A d \in DOMAIN code2queue : code2queue'[d] = code2queue[d]
  BY <1>1, <1>2 DEF Put
<1>4. Len(seq) \in Nat
  BY ItemAt DEF IInv
<1>5. /\ Len(seq') = Len(seq) + 1
      /\ seq'[1].code = c /\ seq'[1].time = now
      /\ \A i \in 1..Len(seq) : seq'[i + 1] = seq[i]
  BY <1>1, PushFrontProps DEF IInv, TypeOK
<1>6. \A a, b \in 1..Len(seq') : seq'[a].code = seq'[b].code => a = b
  BY DEF IInv, ListMatchesMap
<1>7. seq'[PosIn(seq', c)].time = now
  <2>1. 1 \in 1..Len(seq')
    BY <1>4, <1>5
  <2>2. PosIn(seq', seq'[1].code) = 1
    BY <2>1, <1>6, PosInUnique
  <2> QED  BY <2>2, <1>5
<1>8. \A d \in DOMAIN code2queue : seq'[PosIn(seq', d)].time = seq[PosIn(seq, d)].time
  <2> TAKE d \in DOMAIN code2queue
  <2> DEFINE i == PosIn(seq, d)
  <2>1. i \in 1..Len(seq) /\ seq[i].code = d
    BY PosOfProps DEF IInv, PosOf
  <2> HIDE DEF i
  <2>2. i + 1 \in 1..Len(seq') /\ seq'[i + 1] = seq[i]
    BY <2>1, <1>4, <1>5
  <2>3. PosIn(seq', seq'[i + 1].code) = i + 1
    BY <2>2, <1>6, PosInUnique
  <2> QED  BY <2>1, <2>2, <2>3 DEF i
<1>9. Live' = [d \in DOMAIN Live \cup {c} |->
                 IF d = c THEN [queue |-> q, client |-> cl, last |-> now] ELSE Live[d]]
  <2>1. DOMAIN Live = DOMAIN code2queue
    BY DEF Live
  <2>2. Live' = [d \in DOMAIN code2queue' |->
                   [queue |-> code2queue'[d].queue, client |-> code2queue'[d].client,
                    last |-> seq'[PosIn(seq', d)].time]]
    BY DEF Live, PosOf
  <2>3. \A d \in DOMAIN code2queue :
          Live[d] = [queue |-> code2queue[d].queue, client |-> code2queue[d].client,
                     last |-> seq[PosIn(seq, d)].time]
    BY DEF Live, PosOf
  <2> QED  BY <2>1, <2>2, <2>3, <1>2, <1>3, <1>7, <1>8
<1> QED  BY <1>1, <1>9 DEF Abstract!Open

\* Closing is Close: the other items keep their codes and their times.
LEMMA CloseRefines ==
  ASSUME IInv, IInv', NEW c \in Code, CloseQueue(c)
  PROVE  Abstract!Close
<1> DEFINE p == PosOf(c)
           old(i) == IF i < p THEN i ELSE i + 1
<1>1. /\ c \in DOMAIN code2queue
      /\ seq' = EraseAt(seq, p)
      /\ code2queue' = Erase(code2queue, {c})
      /\ now' = now /\ issued' = issued
  BY DEF CloseQueue
<1>2. p \in 1..Len(seq) /\ seq[p].code = c
  BY <1>1, PosOfProps DEF IInv
<1>3. Len(seq) \in Nat /\ seq \in Seq(Item)
  BY ItemAt DEF IInv, TypeOK
<1> HIDE DEF p
<1>4. \A j \in 1..Len(seq) : j # p =>
        \E i \in 1..Len(seq') : seq'[i] = seq[j]
  <2>1. Len(seq') = Len(seq) - 1
    BY <1>1, <1>2, <1>3, EraseAtProps
  <2>2. \A i \in 1..(Len(seq) - 1) : seq'[i] = seq[old(i)]
    BY <1>1 DEF EraseAt
  <2> SUFFICES ASSUME NEW j \in 1..Len(seq), j # p
               PROVE  \E i \in 1..Len(seq') : seq'[i] = seq[j]
    OBVIOUS
  <2>3. CASE j < p
    <3>1. j \in 1..(Len(seq) - 1) /\ j \in 1..Len(seq') /\ old(j) = j
      BY <2>1, <2>3, <1>2, <1>3
    <3>2. seq'[j] = seq[j]
      BY <3>1, <2>2
    <3> QED  BY <3>1, <3>2
  <2>4. CASE j > p
    <3>1. j - 1 \in 1..(Len(seq) - 1) /\ j - 1 \in 1..Len(seq') /\ old(j - 1) = j
      BY <2>1, <2>4, <1>2, <1>3
    <3>2. seq'[j - 1] = seq[j]
      BY <3>1, <2>2
    <3> QED  BY <3>1, <3>2
  <2> QED  BY <2>3, <2>4, <1>2, <1>3
<1>5. /\ DOMAIN code2queue' = DOMAIN code2queue \ {c}
      /\ \A d \in DOMAIN code2queue' : code2queue'[d] = code2queue[d]
  BY <1>1 DEF Erase
<1>6. \A d \in DOMAIN code2queue' : seq'[PosIn(seq', d)].time = seq[PosIn(seq, d)].time
  <2> TAKE d \in DOMAIN code2queue'
  <2> DEFINE j == PosIn(seq, d)
  <2>1. j \in 1..Len(seq) /\ seq[j].code = d
    BY <1>5, PosOfProps DEF IInv, PosOf
  <2> HIDE DEF j
  <2>2. j # p
    BY <2>1, <1>2, <1>5
  <2>3. PICK i \in 1..Len(seq') : seq'[i] = seq[j]
    BY <2>1, <2>2, <1>4
  <2>4. \A a, b \in 1..Len(seq') : seq'[a].code = seq'[b].code => a = b
    BY DEF IInv, ListMatchesMap
  <2>5. PosIn(seq', seq'[i].code) = i
    BY <2>4, PosInUnique
  <2> QED  BY <2>1, <2>3, <2>5 DEF j
<1>7. Live' = [d \in DOMAIN Live \ {c} |-> Live[d]]
  BY <1>5, <1>6 DEF Live, PosOf
<1>8. c \in DOMAIN Live
  BY <1>1 DEF Live
<1> QED  BY <1>1, <1>7, <1>8 DEF Abstract!Close

\* A use is Use: only the session's own time changes.
LEMMA UseRefines ==
  ASSUME IInv, IInv', NEW c \in Code, GetQueueName(c)
  PROVE  Abstract!Use
<1> DEFINE p == PosOf(c)
           e == [code |-> c, time |-> now]
<1>1. /\ c \in DOMAIN code2queue
      /\ seq' = MoveToFront(seq, p, e)
      /\ now' = now /\ issued' = issued /\ code2queue' = code2queue
  BY DEF GetQueueName
<1>2. p \in 1..Len(seq) /\ seq[p].code = c
  BY <1>1, PosOfProps DEF IInv
<1>3. Len(seq) \in Nat /\ seq \in Seq(Item)
  BY ItemAt DEF IInv, TypeOK
<1>4. e \in Item /\ e.code = c /\ e.time = now
  BY DEF IInv, TypeOK, Item
<1> HIDE DEF p, e
<1>5. Len(seq') = Len(seq)
  BY <1>1, <1>2, <1>3, <1>4, MoveToFrontProps
<1>6. \A i \in 1..Len(seq) :
        seq'[i] = IF i = 1 THEN e ELSE IF i <= p THEN seq[i - 1] ELSE seq[i]
  BY <1>1 DEF MoveToFront
<1>7. \A a, b \in 1..Len(seq') : seq'[a].code = seq'[b].code => a = b
  BY DEF IInv, ListMatchesMap
<1>8. seq'[PosIn(seq', c)].time = now
  <2>1. 1 \in 1..Len(seq') /\ seq'[1] = e
    BY <1>2, <1>3, <1>5, <1>6
  <2>2. PosIn(seq', seq'[1].code) = 1
    BY <2>1, <1>7, PosInUnique
  <2> QED  BY <2>1, <2>2, <1>4
<1>9. \A d \in DOMAIN code2queue :
        d # c => seq'[PosIn(seq', d)].time = seq[PosIn(seq, d)].time
  <2> SUFFICES ASSUME NEW d \in DOMAIN code2queue, d # c
               PROVE  seq'[PosIn(seq', d)].time = seq[PosIn(seq, d)].time
    OBVIOUS
  <2> DEFINE j == PosIn(seq, d)
  <2>1. j \in 1..Len(seq) /\ seq[j].code = d
    BY PosOfProps DEF IInv, PosOf
  <2> HIDE DEF j
  <2>2. j # p
    BY <2>1, <1>2
  <2>3. \E i \in 1..Len(seq') : seq'[i] = seq[j]
    <3>1. CASE j < p
      <4>1. /\ j + 1 \in 1..Len(seq) /\ j + 1 \in 1..Len(seq')
            /\ j + 1 # 1 /\ j + 1 <= p /\ (j + 1) - 1 = j
        BY <3>1, <2>1, <1>2, <1>3, <1>5
      <4>2. seq'[j + 1] = seq[j]
        BY <4>1, <1>6
      <4> QED  BY <4>1, <4>2
    <3>2. CASE j > p
      <4>1. j \in 1..Len(seq') /\ j # 1 /\ ~(j <= p)
        BY <3>2, <2>1, <1>2, <1>3, <1>5
      <4>2. seq'[j] = seq[j]
        BY <4>1, <2>1, <1>6
      <4> QED  BY <4>1, <4>2
    <3> QED  BY <3>1, <3>2, <2>1, <2>2, <1>2, <1>3
  <2>4. PICK i \in 1..Len(seq') : seq'[i] = seq[j]
    BY <2>3
  <2>5. PosIn(seq', seq'[i].code) = i
    BY <1>7, PosInUnique
  <2> QED  BY <2>1, <2>4, <2>5 DEF j
<1>10. Live' = [d \in DOMAIN Live |->
                  IF d = c THEN [Live[d] EXCEPT !.last = now] ELSE Live[d]]
  BY <1>1, <1>8, <1>9 DEF Live, PosOf
<1>11. c \in DOMAIN Live
  BY <1>1 DEF Live
<1> QED  BY <1>1, <1>10, <1>11 DEF Abstract!Use

\* As many codes die in a sweep as it takes items from the list.
LEMMA TailCardinality ==
  ASSUME IInv, NEW k \in 0..Len(seq)
  PROVE  Cardinality({seq[i].code : i \in (Len(seq) - k + 1)..Len(seq)}) = k
<1> DEFINE I == (Len(seq) - k + 1)..Len(seq)
           D == {seq[i].code : i \in I}
           f == [i \in I |-> seq[i].code]
<1>1. Len(seq) \in Nat
  BY ItemAt DEF IInv
<1>2. IsFiniteSet(I) /\ Cardinality(I) = k
  <2>1. Len(seq) - k + 1 \in Int /\ Len(seq) \in Int /\ k \in Int
    BY <1>1
  <2>2. /\ IsFiniteSet(I)
        /\ Cardinality(I) = IF Len(seq) - k + 1 > Len(seq) THEN 0
                            ELSE Len(seq) - (Len(seq) - k + 1) + 1
    BY <2>1, FS_Interval
  <2> QED  BY <2>1, <2>2
<1>3. I \subseteq 1..Len(seq)
  BY <1>1
<1>4. \A a, b \in I : seq[a].code = seq[b].code => a = b
  BY <1>3 DEF IInv, ListMatchesMap
<1> HIDE DEF I
<1>5. f \in Surjection(I, D)
  BY DEF Surjection
<1>6. f \in Injection(I, D)
  BY <1>4 DEF Injection, IsInjective
<1> HIDE DEF D, f
<1>7. Cardinality(D) = Cardinality(I)
  BY <1>2, <1>5, <1>6, FS_Surjection
<1> QED  BY <1>2, <1>7 DEF D, I

\* A sweep is Expire.  Stopping at the first unexpired item from the back is
\* right because everything before that item was used even later.
LEMMA SweepRefines ==
  ASSUME IInv, IInv', RemoveExpireMsgQueueCode
  PROVE  Abstract!Expire
<1> DEFINE expireTime == now - SessionTime
<1>1. PICK k \in 0..Len(seq) :
        LET dead == {seq[i].code : i \in (Len(seq) - k + 1)..Len(seq)}
        IN  /\ SweepCount(k, expireTime)
            /\ code2queue' = Erase(code2queue, dead)
            /\ seq' = DropLast(seq, k)
            /\ now' = now /\ issued' = issued
  BY DEF RemoveExpireMsgQueueCode
<1> DEFINE dead == {seq[i].code : i \in (Len(seq) - k + 1)..Len(seq)}
<1>2. /\ Len(seq) \in Nat /\ k \in Nat /\ k <= Len(seq)
      /\ now \in Nat /\ expireTime \in Int
      /\ \A i \in 1..Len(seq) : seq[i].time \in Nat
  BY ItemAt, SessionTimeAssumption DEF IInv, TypeOK
<1>3. /\ k <= RemoveOnceCount
      /\ \A i \in (Len(seq) - k + 1)..Len(seq) : seq[i].time < expireTime
      /\ k < Len(seq) /\ k < RemoveOnceCount => seq[Len(seq) - k].time >= expireTime
  BY <1>1 DEF SweepCount
<1>4. \A i, j \in 1..Len(seq) : i < j => seq[i].time >= seq[j].time
  BY DEF IInv, NewestFirst
<1>5. /\ \A i \in 1..Len(seq) : seq[i].code \in DOMAIN code2queue
      /\ \A d \in DOMAIN code2queue : \E i \in 1..Len(seq) : seq[i].code = d
      /\ \A i, j \in 1..Len(seq) : seq[i].code = seq[j].code => i = j
  BY DEF IInv, ListMatchesMap
<1>6. DOMAIN Live = DOMAIN code2queue
  BY DEF Live
<1>7. \A c \in dead : \E i \in (Len(seq) - k + 1)..Len(seq) :
        i \in 1..Len(seq) /\ seq[i].code = c /\ Live[c].last = seq[i].time
  BY <1>2, LiveAt
<1>8. \A c \in DOMAIN Live \ dead : \E i \in 1..(Len(seq) - k) :
        i \in 1..Len(seq) /\ seq[i].code = c /\ Live[c].last = seq[i].time
  <2> TAKE c \in DOMAIN Live \ dead
  <2>1. PICK i \in 1..Len(seq) : seq[i].code = c
    BY <1>5, <1>6
  <2>2. i \notin (Len(seq) - k + 1)..Len(seq)
    BY <2>1
  <2>3. i \in 1..(Len(seq) - k)
    BY <2>1, <2>2, <1>2
  <2> QED  BY <2>1, <2>3, LiveAt
<1>9. dead \in SUBSET DOMAIN Live
  BY <1>2, <1>5, <1>6
<1>10. Cardinality(dead) = k
  BY TailCardinality
<1>11. DOMAIN code2queue' = DOMAIN code2queue \ dead
  BY <1>1 DEF Erase
<1> HIDE DEF dead
<1>12. \A c \in dead : Live[c].last < expireTime
  BY <1>3, <1>7
<1>13. Cardinality(dead) <= RemoveOnceCount
  BY <1>3, <1>10
<1>14. Cardinality(dead) < RemoveOnceCount =>
         \A c \in DOMAIN Live \ dead : Live[c].last >= expireTime
  <2> SUFFICES ASSUME k < RemoveOnceCount, NEW c \in DOMAIN Live \ dead
               PROVE  Live[c].last >= expireTime
    BY <1>10
  <2>1. PICK i \in 1..(Len(seq) - k) : i \in 1..Len(seq) /\ Live[c].last = seq[i].time
    BY <1>8
  <2>2. k < Len(seq) /\ Len(seq) - k \in 1..Len(seq)
    BY <2>1, <1>2
  <2>3. seq[Len(seq) - k].time >= expireTime
    BY <2>2, <1>3
  <2>4. seq[i].time >= seq[Len(seq) - k].time
    <3>1. CASE i = Len(seq) - k
      BY <3>1, <2>1, <1>2
    <3>2. CASE i < Len(seq) - k
      BY <3>2, <2>1, <2>2, <1>4
    <3> QED  BY <3>1, <3>2, <2>1, <1>2
  <2> QED  BY <2>1, <2>2, <2>3, <2>4, <1>2
<1>15. \A c \in dead, d \in DOMAIN Live \ dead : Live[c].last <= Live[d].last
  <2> SUFFICES ASSUME NEW c \in dead, NEW d \in DOMAIN Live \ dead
               PROVE  Live[c].last <= Live[d].last
    OBVIOUS
  <2>1. PICK i \in (Len(seq) - k + 1)..Len(seq) :
          i \in 1..Len(seq) /\ Live[c].last = seq[i].time
    BY <1>7
  <2>2. PICK j \in 1..(Len(seq) - k) : j \in 1..Len(seq) /\ Live[d].last = seq[j].time
    BY <1>8
  <2>3. j < i
    BY <2>1, <2>2, <1>2
  <2>4. seq[j].time >= seq[i].time
    BY <2>1, <2>2, <2>3, <1>4
  <2> QED  BY <2>1, <2>2, <2>4, <1>2
<1>16. Live' = [c \in DOMAIN Live \ dead |-> Live[c]]
  <2>1. \A d \in DOMAIN code2queue' : code2queue'[d] = code2queue[d]
    BY <1>1 DEF Erase, dead
  <2>2. \A d \in DOMAIN code2queue' : seq'[PosIn(seq', d)].time = seq[PosIn(seq, d)].time
    <3> TAKE d \in DOMAIN code2queue'
    <3>1. PICK i \in 1..(Len(seq) - k) : i \in 1..Len(seq) /\ seq[i].code = d
      BY <1>6, <1>8, <1>11
    <3>2. seq' \in Seq(Item) /\ Len(seq') = Len(seq) - k
      <4>1. seq \in Seq(Item)  BY DEF IInv, TypeOK
      <4> QED  BY <1>1, <4>1, DropLastProps
    <3>3. seq'[i] = seq[i] /\ i \in 1..Len(seq')
      BY <1>1, <3>1, <3>2 DEF DropLast
    <3>4. \A a, b \in 1..Len(seq') : seq'[a].code = seq'[b].code => a = b
      BY DEF IInv, ListMatchesMap
    <3>5. PosIn(seq', seq'[i].code) = i
      BY <3>3, <3>4, PosInUnique
    <3>6. PosIn(seq, seq[i].code) = i
      BY <3>1, <1>5, PosInUnique
    <3> QED  BY <3>1, <3>3, <3>5, <3>6
  <2> QED  BY <2>1, <2>2, <1>6, <1>11 DEF Live, PosOf
<1>17. Abstract!Cardinality(dead) = Cardinality(dead)
  BY DEF Abstract!Cardinality, Cardinality
<1> QED
  BY <1>1, <1>9, <1>12, <1>13, <1>14, <1>15, <1>16, <1>17 DEF Abstract!Expire

\* The abstraction of the initial state is the abstract initial state.
LEMMA InitRefines == Init => Abstract!Init
BY DEF Init, Abstract!Init, Live, EmptyMap

\* Every step of SessionTable is a step of Sessions or changes nothing in it.
LEMMA NextRefines ==
  ASSUME IInv, IInv', [Next]_vars
  PROVE  [Abstract!Next]_(Abstract!vars)
<1>1. ASSUME NEW q \in Queue, NEW cl \in Client, OpenQueue(q, cl) PROVE Abstract!Next
  BY <1>1, OpenRefines DEF Abstract!Next
<1>2. ASSUME NEW c \in Code, CloseQueue(c) PROVE Abstract!Next
  BY <1>2, CloseRefines DEF Abstract!Next
<1>3. ASSUME NEW c \in Code, GetQueueName(c) PROVE Abstract!Next
  BY <1>3, UseRefines DEF Abstract!Next
<1>4. CASE RemoveExpireMsgQueueCode
  BY <1>4, SweepRefines DEF Abstract!Next
<1>5. CASE Restart
  <2>1. Abstract!Reset
    BY <1>5 DEF Restart, Abstract!Reset, Live, EmptyMap
  <2> QED  BY <2>1 DEF Abstract!Next
<1>6. CASE Tick
  <2>1. Abstract!Tick
    BY <1>6 DEF Tick, Abstract!Tick, Live, PosOf
  <2> QED  BY <2>1 DEF Abstract!Next
<1>7. CASE LoadQueues \/ UNCHANGED vars
  BY <1>7 DEF LoadQueues, vars, Abstract!vars, Live, PosOf
<1> QED  BY <1>1, <1>2, <1>3, <1>4, <1>5, <1>6, <1>7 DEF Next

\* The list with its early-stopping sweep keeps the promise of Sessions: no
\* session used within SessionTime is ever expired, the longest unused go
\* first, and a sweep below its limit leaves no expired session behind.
THEOREM Refinement == Spec => ImplementsSessions
<1>1. Init => Abstract!Init  BY InitRefines
<1>2. IInv /\ IInv' /\ [Next]_vars => [Abstract!Next]_(Abstract!vars)
  BY NextRefines
<1> QED  BY <1>1, <1>2, Invariance, PTL DEF Spec, ImplementsSessions, Abstract!Spec
=============================================================================
