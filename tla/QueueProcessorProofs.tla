------------------------ MODULE QueueProcessorProofs ------------------------
(***************************************************************************)
(* QueueProcessor uses its two queues as queues: seen through either, its  *)
(* behaviours are behaviours of ObjectQueue, whatever the main thread, the *)
(* workers, operators and reloads do around them.  What ObjectQueueProofs  *)
(* proves of a queue therefore holds of both, for any number of threads    *)
(* and any limits.                                                         *)
(***************************************************************************)
EXTENDS QueueProcessor, FiniteSetTheorems, TLAPS

InboxProofs    == INSTANCE ObjectQueueProofs WITH Getter <- {"main"}, Value <- Request \cup Line,
                    Limit <- InboxLimit, Stack <- TRUE, data <- inbox, wait <- mainWait
RequestsProofs == INSTANCE ObjectQueueProofs WITH Getter <- Thread, Value <- Request,
                    Limit <- QueueLimit, Stack <- FALSE, data <- queue, wait <- thrWait

\* Every step is a step of the main thread's stack, or leaves it alone.
LEMMA InboxStep ==
  ASSUME [Next]_vars
  PROVE  [Inbox!Next]_<<inbox, mainWait>>
<1>1. ASSUME NEW kind \in Request \cup Line, Arrive(kind) PROVE Inbox!Next
  BY <1>1 DEF Arrive, Inbox!Next
<1>2. ASSUME NEW kinds, Receive(kinds) PROVE Inbox!Next
  BY <1>2 DEF Receive, Inbox!Next, Inbox!Get
<1>3. ASSUME PopWait PROVE Inbox!Next
  BY <1>3 DEF PopWait, Inbox!Next, Inbox!Get
<1>4. ASSUME PopExpires PROVE Inbox!Next
  BY <1>4 DEF PopExpires, Inbox!Next, Inbox!Get
<1>5. ASSUME GiveUp PROVE Inbox!Next
  BY <1>5 DEF GiveUp, Inbox!Next, Inbox!Get
<1>6. ASSUME MainStep PROVE Inbox!Next \/ UNCHANGED <<inbox, mainWait>>
  BY <1>2, <1>3, <1>5, <1>6
     DEF MainStep, Forward, Report, Exit, Reload, StartThread, PushLive, EndStart, PopTimeout, in
<1>7. ASSUME NEW t \in Thread, ThreadStep(t) PROVE UNCHANGED <<inbox, mainWait>>
  BY <1>7 DEF ThreadStep, ThreadRun, Destory, WorkerWait, Serve, in
<1>8. ASSUME SendStop \/ Tick \/ UNCHANGED vars PROVE UNCHANGED <<inbox, mainWait>>
  BY <1>8 DEF SendStop, Tick, vars, in
<1>9. QED
  BY <1>1, <1>4, <1>6, <1>7, <1>8 DEF Next

\* Every step is a step of the workers' queue, or leaves it alone.
LEMMA RequestsStep ==
  ASSUME [Next]_vars
  PROVE  [Requests!Next]_<<queue, thrWait>>
<1>1. ASSUME NEW t \in Thread, ThreadStep(t)
      PROVE  Requests!Next \/ UNCHANGED <<queue, thrWait>>
  <2>1. CASE WorkerWait(t)
    BY <2>1 DEF WorkerWait, Requests!Next, Requests!Get
  <2>2. CASE Serve(t)
    BY <2>2 DEF Serve, Requests!Next, Requests!Get
  <2>3. CASE ThreadRun(t) \/ Destory(t)
    BY <2>3 DEF ThreadRun, Destory, work
  <2>4. QED
    BY <1>1, <2>1, <2>2, <2>3 DEF ThreadStep
<1>2. ASSUME Forward PROVE Requests!Next
  BY <1>2 DEF Forward, Receive, Requests!Next
<1>3. ASSUME MainStep, ~Forward PROVE UNCHANGED <<queue, thrWait>>
  BY <1>3 DEF MainStep, PopWait, Report, Exit, Reload, StartThread, PushLive, EndStart, PopTimeout, work
<1>4. ASSUME NEW kind, Arrive(kind) PROVE UNCHANGED <<queue, thrWait>>
  BY <1>4 DEF Arrive, work
<1>5. ASSUME SendStop \/ PopExpires \/ Tick \/ UNCHANGED vars PROVE UNCHANGED <<queue, thrWait>>
  BY <1>5 DEF SendStop, PopExpires, Tick, vars, work
<1>6. QED
  BY <1>1, <1>2, <1>3, <1>4, <1>5 DEF Next

\* Both queues of the processor behave as ObjectQueue says.
THEOREM TwoQueues == Spec => Inbox!Spec /\ Requests!Spec
<1>1. Init => Inbox!Init /\ Requests!Init
  BY DEF Init
<1>2. [Next]_vars => [Inbox!Next]_<<inbox, mainWait>> /\ [Requests!Next]_<<queue, thrWait>>
  BY InboxStep, RequestsStep
<1>3. QED
  BY <1>1, <1>2, PTL DEF Spec, Inbox!Spec, Requests!Spec

\* The inductive invariant: that of either queue.
QueuesInv == InboxProofs!QInv /\ RequestsProofs!QInv

\* Neither the main thread nor a worker sleeps while there is a message nobody
\* is on the way to.
THEOREM NobodySleeps == Spec => []NobodySleepsOverWork
<1>1. Init => QueuesInv
  <2>1. Init => InboxProofs!Init /\ RequestsProofs!Init
    BY DEF Init, Inbox!Init, Requests!Init, InboxProofs!Init, RequestsProofs!Init
  <2>2. QED
    BY <2>1, InboxProofs!InitQInv, RequestsProofs!InitQInv DEF QueuesInv
<1>2. QueuesInv /\ [Next]_vars => QueuesInv'
  <2> SUFFICES ASSUME QueuesInv, [Next]_vars PROVE QueuesInv'
    OBVIOUS
  <2>1. [InboxProofs!Next]_<<inbox, mainWait>>
    BY InboxStep
       DEF Inbox!Next, Inbox!Put, Inbox!Signal, Inbox!Get, Inbox!Take, Inbox!Block, Inbox!TimeOut,
           Inbox!GiveUp, Inbox!Looks, Inbox!Becomes, Inbox!Waiting,
           InboxProofs!Next, InboxProofs!Put, InboxProofs!Signal, InboxProofs!Get, InboxProofs!Take,
           InboxProofs!Block, InboxProofs!TimeOut, InboxProofs!GiveUp, InboxProofs!Looks,
           InboxProofs!Becomes, InboxProofs!Waiting
  <2>2. [RequestsProofs!Next]_<<queue, thrWait>>
    BY RequestsStep
       DEF Requests!Next, Requests!Put, Requests!Signal, Requests!Get, Requests!Take, Requests!Block,
           Requests!TimeOut, Requests!GiveUp, Requests!Looks, Requests!Becomes, Requests!Waiting,
           RequestsProofs!Next, RequestsProofs!Put, RequestsProofs!Signal, RequestsProofs!Get,
           RequestsProofs!Take, RequestsProofs!Block, RequestsProofs!TimeOut, RequestsProofs!GiveUp,
           RequestsProofs!Looks, RequestsProofs!Becomes, RequestsProofs!Waiting
  <2>3. IsFiniteSet({"main"}) /\ IsFiniteSet(Thread)
    BY ThreadAssumption, FS_Singleton
  <2>4. InboxProofs!QInv'
    BY <2>1, <2>3, InboxProofs!NextQInv
       DEF QueuesInv, IsFiniteSet, InboxProofs!IsFiniteSet
  <2>5. RequestsProofs!QInv'
    BY <2>2, <2>3, RequestsProofs!NextQInv
       DEF QueuesInv, IsFiniteSet, RequestsProofs!IsFiniteSet
  <2>6. QED
    BY <2>4, <2>5 DEF QueuesInv
<1>3. QueuesInv => NobodySleepsOverWork
  <2>1. InboxProofs!NobodySleepsOverWork => Inbox!NobodySleepsOverWork
    BY DEF InboxProofs!NobodySleepsOverWork, InboxProofs!Waiting, InboxProofs!Woken,
           Inbox!NobodySleepsOverWork, Inbox!Waiting, Inbox!Woken,
           InboxProofs!Cardinality, Inbox!Cardinality
  <2>2. RequestsProofs!NobodySleepsOverWork => Requests!NobodySleepsOverWork
    BY DEF RequestsProofs!NobodySleepsOverWork, RequestsProofs!Waiting, RequestsProofs!Woken,
           Requests!NobodySleepsOverWork, Requests!Waiting, Requests!Woken,
           RequestsProofs!Cardinality, Requests!Cardinality
  <2>3. QED
    BY <2>1, <2>2 DEF QueuesInv, InboxProofs!QInv, RequestsProofs!QInv, NobodySleepsOverWork
<1>4. QED
  BY <1>1, <1>2, <1>3, PTL DEF Spec
----------------------------------------------------------------------------
(* The pool *)

\* The threads that exist.
Existing == {t \in Thread : thr[t] \notin {"none", "ended"}}

\* _livethreads is the set of the threads there are, but for one that Start has
\* created and not recorded yet.  That one may have run to Destory's assertion,
\* after which nothing runs; so the thread is missing only while all is well.
\* Nothing is said once a push_back has met an erase.
PoolInv ==
  /\ thr \in [Thread -> {"none", "created", "serving", "exiting", "ended", "unknown thread", "no result"}]
  /\ live \subseteq Thread
  /\ main.pc = "push" => main.t \in Thread
  /\ Running /\ torn = {} /\ main.pc # "push" => live = Existing
  /\ Running /\ torn = {} /\ main.pc = "push" => main.t \in Existing /\ live = Existing \ {main.t}

\* Between two messages, what "status" reports as the number of threads is the
\* number there are, for any number of threads and through every reload, as
\* long as no worker has left the list while Start was putting one in.
THEOREM PoolIsCounted == Spec => []PoolIsLive
<1>1. Init => PoolInv
  BY ThreadAssumption DEF Init, PoolInv, Existing
<1>2. PoolInv /\ [Next]_vars => PoolInv'
  <2> SUFFICES ASSUME PoolInv, [Next]_vars PROVE PoolInv'
    OBVIOUS
  <2>0. Pop.pc # "push" /\ Done.pc # "push" /\ Pop # Done
    BY DEF Pop, Done
  <2> USE <2>0 DEF PoolInv, Existing, Running, Aborted
  <2>1. CASE UNCHANGED <<main, thr, live, torn>>
    BY <2>1
  <2>2. ASSUME Exit \/ PopTimeout PROVE PoolInv'
    <3>1. main.pc # "push" /\ UNCHANGED <<thr, live, torn>> /\ main' \in {main, Done}
      <4>1. main.pc # "push"
        BY <2>2 DEF Exit, PopTimeout, GiveUp, Receive
      <4>2. UNCHANGED <<thr, live, torn>>
        BY <2>2 DEF Exit, PopTimeout, list
      <4>3. main' \in {main, Done}
        BY <2>2 DEF Exit, PopTimeout
      <4>4. QED
        BY <4>1, <4>2, <4>3
    <3>2. CASE main' = main
      BY <3>1, <3>2
    <3>3. CASE main' = Done
      BY <3>1, <3>3
    <3>4. QED
      BY <3>1, <3>2, <3>3
  <2>3. ASSUME Reload PROVE PoolInv'
    <3>1. Running /\ main.pc # "push"
      BY <2>3 DEF Reload, Receive
    <3>2. main'.pc # "push"
      <4>1. main' = Pop \/ \E n \in ThreadCounts : main' = [pc |-> "start", left |-> n - Cardinality(live)]
        BY <2>3 DEF Reload
      <4>2. ASSUME NEW n, main' = [pc |-> "start", left |-> n] PROVE main'.pc # "push"
        BY <4>2
      <4>3. CASE main' = Pop
        BY <4>3
      <4>4. QED
        BY <4>1, <4>2, <4>3, Zenon
    <3>3. QED
      BY <2>3, <3>1, <3>2 DEF Reload, list
  <2>4. ASSUME NEW t \in Thread, StartThread(t) PROVE PoolInv'
    BY <2>4 DEF StartThread, list
  <2>5. ASSUME PushLive \/ EndStart PROVE PoolInv'
    <3>1. CASE main' = [pc |-> "start", left |-> main.left - 1] /\ PushLive
      <4>1. main'.pc # "push"
        BY <3>1
      <4>2. PICK t \in Thread : t = main.t
        BY <3>1 DEF PushLive
      <4>3. /\ Running /\ UNCHANGED <<thr, torn>>
            /\ live' = live \cup {t} \/ (torn # {} /\ live' = live)
            /\ torn = {} => t \in Existing /\ live = Existing \ {t}
        BY <3>1, <4>2 DEF PushLive
      <4>4. live' \subseteq Thread
        BY <4>2, <4>3
      <4>5. Existing' = Existing
        BY <4>3
      <4>6. ASSUME torn' = {} PROVE live' = Existing'
        <5>1. live' = live \cup {t} /\ t \in Existing /\ live = Existing \ {t}
          BY <4>3, <4>6
        <5>2. QED
          BY <4>5, <5>1
      <4>7. QED
        BY <4>1, <4>3, <4>4, <4>6
    <3>2. CASE main' = Pop /\ UNCHANGED <<thr, live, torn>> /\ Running /\ main.pc # "push"
      BY <3>2
    <3>3. CASE main' = Done /\ UNCHANGED <<thr, live, torn>>
      BY <3>3
    <3>4. QED
      BY <2>5, <3>1, <3>2, <3>3 DEF PushLive, EndStart, pool, list
  <2>6. ASSUME NEW t \in Thread, ThreadRun(t) PROVE PoolInv'
    BY <2>6 DEF ThreadRun, list
  <2>7. ASSUME NEW t \in Thread, Destory(t) PROVE PoolInv'
    BY <2>7 DEF Destory
  <2>8. ASSUME NEW t \in Thread, Serve(t) PROVE PoolInv'
    <3>1. main' = main /\ live' = live /\ torn' = torn /\ Running /\ thr[t] = "serving"
      BY <2>8 DEF Serve, list
    <3>2. thr' = thr \/ thr' = [thr EXCEPT ![t] = "no result"]
      BY <2>8 DEF Serve
    <3>3. CASE thr' = thr
      BY <3>1, <3>3
    <3>4. CASE thr' = [thr EXCEPT ![t] = "no result"]
      <4>1. Existing' = Existing
        BY <3>1, <3>4
      <4>2. QED
        BY <3>1, <3>4, <4>1
    <3>5. QED
      BY <3>2, <3>3, <3>4, Zenon
  <2>9. QED
    BY <2>1, <2>2, <2>3, <2>4, <2>5, <2>6, <2>7, <2>8
       DEF Next, MainStep, ThreadStep, Arrive, SendStop, PopWait, Forward, Report, PopExpires, Tick,
           WorkerWait, pool, list, vars
<1>3. PoolInv => PoolIsLive
  <2>1. main = Pop => main.pc # "push"
    BY DEF Pop
  <2>2. QED
    BY <2>1 DEF PoolInv, PoolIsLive, Existing
<1>4. QED
  BY <1>1, <1>2, <1>3, PTL DEF Spec
=============================================================================
