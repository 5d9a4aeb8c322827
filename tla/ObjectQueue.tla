---------------------------- MODULE ObjectQueue -----------------------------
(***************************************************************************)
(* SyncObjectQueue and SyncObjectStack (framework/base/util/objectqueue.h):*)
(* a list under a mutex with one condition variable, on which a thread in  *)
(* Get waits for at most usBlockTime.  Everything between lock and unlock  *)
(* is one step; pthread_cond_timedwait is two, because a thread that has   *)
(* been signalled or whose time is up must get the mutex again before it   *)
(* goes on, and others may put and take meanwhile.                         *)
(*                                                                         *)
(* The getters of a queue share usBlockTime, which is not 0 (Get without   *)
(* waiting is Take, or nothing).  Timeouts here come at any time; the      *)
(* module that uses a queue says when.                                     *)
(***************************************************************************)
EXTENDS Integers, Sequences, FiniteSets

CONSTANTS
  Getter,  \* the threads that call Get
  Value,   \* what is put
  Limit,   \* _max
  Stack    \* TRUE for SyncObjectStack

VARIABLES
  data,    \* _data, its front first
  wait     \* per getter: "out" of timedwait, "in" it, "woken" by a signal, or
           \* "timedout"; the last two wait for the mutex

Waiting == {t \in Getter : wait[t] = "in"}
Woken   == {t \in Getter : wait[t] = "woken"}

Becomes(t, s) == wait' = [wait EXCEPT ![t] = s]
----------------------------------------------------------------------------
\* Seeded fault: only the first element of an empty queue is signalled.
SignalFirstOnly ==
  IF Waiting = {} \/ data # <<>> THEN UNCHANGED wait ELSE \E t \in Waiting : Becomes(t, "woken")

\* pthread_cond_signal wakes one of the waiting threads, if any.
Signal ==
  IF Waiting = {} THEN UNCHANGED wait ELSE \E t \in Waiting : Becomes(t, "woken")

\* PutImplement: refused at the limit; push_front or push_back, and a signal.
Put(v) ==
  IF Len(data) >= Limit THEN UNCHANGED <<data, wait>>
  ELSE /\ data' = IF Stack THEN <<v>> \o data ELSE Append(data, v)
       /\ Signal

\* GetImplement has the mutex and looks at _data: on entering, and again after
\* a signal.
Looks(t) == wait[t] \in {"out", "woken"}

\* There is something: Get returns it.
Take(t) ==
  /\ Looks(t)
  /\ data # <<>>
  /\ data' = Tail(data)
  /\ Becomes(t, "out")

\* There is nothing: into pthread_cond_timedwait, with a new deadline.
Block(t) ==
  /\ Looks(t)
  /\ data = <<>>
  /\ Becomes(t, "in")
  /\ UNCHANGED data

\* The deadline passes before a signal comes.
TimeOut(t) ==
  /\ wait[t] = "in"
  /\ Becomes(t, "timedout")
  /\ UNCHANGED data

\* ETIMEDOUT: Get returns -1 without another look at _data.
GiveUp(t) ==
  /\ wait[t] = "timedout"
  /\ Becomes(t, "out")
  /\ UNCHANGED data
----------------------------------------------------------------------------
Init ==
  /\ data = <<>>
  /\ wait = [t \in Getter |-> "out"]

Get(t) == Take(t) \/ Block(t) \/ TimeOut(t) \/ GiveUp(t)

Next ==
  \/ \E v \in Value : Put(v)
  \/ \E t \in Getter : Get(t)

Spec == Init /\ [][Next]_<<data, wait>>
----------------------------------------------------------------------------
\* While a thread sleeps in Get, every element in the queue has been signalled
\* to another that is on its way: no signal is lost, however puts, timeouts and
\* threads that take without having slept interleave.
NobodySleepsOverWork == Waiting # {} => Len(data) <= Cardinality(Woken)
=============================================================================
