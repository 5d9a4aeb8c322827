-------------------------- MODULE ObjectQueueProofs -------------------------
(***************************************************************************)
(* NobodySleepsOverWork for any number of threads, any limit and either    *)
(* order.  With the types of the two variables it is inductive: a put      *)
(* signals a sleeper if there is one, a thread that takes an element       *)
(* either was on its way or leaves the one that was with less to find, and *)
(* a thread falls asleep only when there is nothing.                       *)
(***************************************************************************)
EXTENDS ObjectQueue, FiniteSetTheorems, SequenceTheorems, TLAPS

WaitState == {"out", "in", "woken", "timedout"}

\* The shape of the state.
QTypeOK ==
  /\ data \in Seq(Value)
  /\ wait \in [Getter -> WaitState]

\* The inductive invariant.
QInv == QTypeOK /\ NobodySleepsOverWork

\* The woken threads can be counted.
LEMMA WokenCount ==
  ASSUME IsFiniteSet(Getter)
  PROVE  IsFiniteSet(Woken) /\ Cardinality(Woken) \in Nat
<1>1. IsFiniteSet(Woken)
  BY FS_Subset DEF Woken
<1>2. QED
  BY <1>1, FS_CardinalityType

\* PutImplement preserves the invariant.
LEMMA PutQInv ==
  ASSUME IsFiniteSet(Getter), QInv, NEW v \in Value, Put(v)
  PROVE  QInv'
<1>1. CASE Len(data) >= Limit
  BY <1>1 DEF Put, QInv, QTypeOK, NobodySleepsOverWork, Waiting, Woken
<1>2. CASE ~(Len(data) >= Limit)
  <2>1. data \in Seq(Value)
    BY DEF QInv, QTypeOK
  <2>2. data' = (IF Stack THEN <<v>> \o data ELSE Append(data, v)) /\ Signal
    BY <1>2 DEF Put
  <2>3. data' \in Seq(Value) /\ Len(data') = Len(data) + 1
    BY <2>1, <2>2
  <2>4. CASE Waiting = {}
    <3>1. wait' = wait
      BY <2>2, <2>4 DEF Signal
    <3>2. QED
      BY <2>3, <2>4, <3>1 DEF QInv, QTypeOK, NobodySleepsOverWork, Waiting
  <2>5. CASE Waiting # {}
    <3>1. PICK t \in Waiting : wait' = [wait EXCEPT ![t] = "woken"]
      BY <2>2, <2>5 DEF Signal, Becomes
    <3>2. Woken' = Woken \cup {t} /\ t \notin Woken
      BY <3>1 DEF QInv, QTypeOK, Waiting, Woken
    <3>3. Cardinality(Woken') = Cardinality(Woken) + 1
      BY <3>2, WokenCount, FS_AddElement
    <3>4. Len(data) <= Cardinality(Woken)
      BY <2>5 DEF QInv, NobodySleepsOverWork
    <3>5. Len(data') <= Cardinality(Woken')
      BY <2>1, <2>3, <3>3, <3>4, WokenCount
    <3>6. QED
      BY <2>3, <3>1, <3>5 DEF QInv, QTypeOK, WaitState, Waiting, NobodySleepsOverWork
  <2>6. QED
    BY <2>4, <2>5
<1>3. QED
  BY <1>1, <1>2

\* Every step of GetImplement preserves the invariant.
LEMMA GetQInv ==
  ASSUME IsFiniteSet(Getter), QInv, NEW t \in Getter, Get(t)
  PROVE  QInv'
<1> USE DEF QInv, QTypeOK, WaitState, Becomes
<1>1. CASE Take(t)
  <2>1. data \in Seq(Value) /\ data # <<>> /\ data' = Tail(data)
        /\ wait' = [wait EXCEPT ![t] = "out"] /\ wait[t] \in {"out", "woken"}
    BY <1>1 DEF Take, Looks
  <2>2. data' \in Seq(Value) /\ Len(data') = Len(data) - 1 /\ Len(data) \in Nat
    BY <2>1
  <2>3. Waiting' = Waiting /\ Woken' = Woken \ {t}
    BY <2>1 DEF Waiting, Woken
  <2>4. Waiting # {} => Len(data) <= Cardinality(Woken)
    BY DEF NobodySleepsOverWork
  <2>5. Cardinality(Woken') \in {Cardinality(Woken), Cardinality(Woken) - 1}
    <3>1. CASE t \in Woken
      BY <2>3, <3>1, WokenCount, FS_RemoveElement
    <3>2. CASE t \notin Woken
      <4>1. Woken' = Woken
        BY <2>3, <3>2
      <4>2. QED
        BY <4>1
    <3>3. QED
      BY <3>1, <3>2
  <2>6. Waiting # {} => Len(data') <= Cardinality(Woken')
    <3> HIDE DEF QInv, QTypeOK, WaitState, Becomes
    <3> QED
      BY <2>2, <2>4, <2>5, WokenCount
  <2>7. NobodySleepsOverWork'
    BY <2>3, <2>6 DEF NobodySleepsOverWork
  <2>8. wait' \in [Getter -> WaitState]
    BY <2>1
  <2>9. QED
    BY <2>2, <2>7, <2>8
<1>2. CASE Block(t)
  <2>1. data = <<>> /\ data' = data /\ wait' = [wait EXCEPT ![t] = "in"]
    BY <1>2 DEF Block
  <2>2. IsFiniteSet(Woken') /\ Woken' \subseteq Getter
    BY FS_Subset DEF Woken
  <2>3. Cardinality(Woken') \in Nat
    BY <2>2, FS_CardinalityType
  <2>4. Len(data') = 0
    BY <2>1
  <2>5. Len(data') <= Cardinality(Woken')
    BY <2>3, <2>4
  <2>6. QED
    BY <2>1, <2>5 DEF NobodySleepsOverWork
<1>3. CASE TimeOut(t) \/ GiveUp(t)
  <2>1. PICK s \in {"timedout", "out"} : /\ wait[t] \in {"in", "timedout"}
                                         /\ wait' = [wait EXCEPT ![t] = s] /\ data' = data
    BY <1>3 DEF TimeOut, GiveUp
  <2>2. Waiting' \subseteq Waiting /\ Woken' = Woken
    BY <2>1 DEF Waiting, Woken
  <2>3. QED
    BY <2>1, <2>2 DEF NobodySleepsOverWork
<1>4. QED
  BY <1>1, <1>2, <1>3 DEF Get

\* The invariant holds of a new queue.
LEMMA InitQInv == Init => QInv
  BY DEF Init, QInv, QTypeOK, WaitState, NobodySleepsOverWork, Waiting

\* Every step preserves the invariant.
LEMMA NextQInv ==
  ASSUME IsFiniteSet(Getter), QInv, [Next]_<<data, wait>>
  PROVE  QInv'
<1>1. ASSUME NEW v \in Value, Put(v) PROVE QInv'
  BY <1>1, PutQInv
<1>2. ASSUME NEW t \in Getter, Get(t) PROVE QInv'
  BY <1>2, GetQInv
<1>3. CASE UNCHANGED <<data, wait>>
  BY <1>3 DEF QInv, QTypeOK, NobodySleepsOverWork, Waiting, Woken
<1>4. QED
  BY <1>1, <1>2, <1>3 DEF Next

\* No signal is lost: as long as a thread sleeps in Get, there are no more
\* elements than threads on their way to them.
THEOREM NoLostSignal == IsFiniteSet(Getter) => (Spec => []NobodySleepsOverWork)
<1> SUFFICES ASSUME IsFiniteSet(Getter)
             PROVE  Spec => []NobodySleepsOverWork
  OBVIOUS
<1>1. QInv /\ [Next]_<<data, wait>> => QInv'
  BY NextQInv
<1>2. QInv => NobodySleepsOverWork
  BY DEF QInv
<1>3. QED
  BY <1>1, <1>2, InitQInv, PTL DEF Spec
=============================================================================
