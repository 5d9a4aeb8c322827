--------------------------- MODULE QueueProcessor ---------------------------
(***************************************************************************)
(* The child process's threads (mq/src/queueprocessor.cpp and              *)
(* framework/base/thread/threadpool.cpp) and the two queues between them   *)
(* (ObjectQueue.tla).  The main thread takes messages from the net thread, *)
(* handles operator lines itself and hands requests to the workers through *)
(* _requestQueue; only when no message has come for PopMsgBlockTimeUs does *)
(* it look at the control socket and sweep expired sessions.  "reload"     *)
(* stops the pool and starts it again.                                     *)
(*                                                                         *)
(* Time passes in ticks, and only while the threads have nothing to do:    *)
(* handling a message takes no time next to the second-long timeouts.  One *)
(* session stands for any; idle is how long ago it was used.               *)
(***************************************************************************)
EXTENDS Integers, Sequences, FiniteSets

CONSTANTS
  Thread,        \* worker threads that can ever be created
  ThreadCounts,  \* the values App.ThreadCount may have, at start-up and at a reload
  InboxLimit,    \* DEFAULT_LIMIT of ConnectionMgr's _requestQueue
  QueueLimit,    \* DEFAULT_LIMIT of QueueProcessor's _requestQueue
  BlockTime,     \* App.PopMsgBlockTimeUs, in ticks
  SessionTime,   \* App.MsgCodeSessionTime, in ticks
  MaxReq,        \* bound: requests
  MaxLine        \* bound: operator lines

ASSUME ThreadAssumption ==
  /\ IsFiniteSet(Thread)
  /\ ThreadCounts \subseteq 1..Cardinality(Thread)
ASSUME TimeAssumption == BlockTime \in Nat \ {0} /\ SessionTime \in Nat
ASSUME BoundAssumption == {InboxLimit, QueueLimit, MaxReq, MaxLine} \subseteq Nat

VARIABLES
  inbox,    \* ConnectionMgr's _requestQueue, a stack
  mainWait, \* the main thread in its Get
  waited,   \* ticks the main thread has been in timedwait
  main,     \* what the main thread is doing
  queue,    \* _requestQueue
  thrWait,  \* the workers in its Get
  thr,      \* per thread: "none", "created", "serving", "exiting", "ended", or what
            \* aborted it: "unknown thread" or "no result"
  live,     \* _livethreads
  torn,     \* history: the threads Destory has erased from _livethreads during a
            \* push_back
  stop,     \* _stop
  control,  \* what is on the control socket: "" or "stop"
  session,  \* [live, idle] of the session
  reqs, lines

in     == <<inbox, mainWait>>
work   == <<queue, thrWait>>
list   == <<live, torn>>
pool   == <<thr, list, stop>>
counts == <<reqs, lines>>
vars   == <<in, waited, main, work, pool, control, session, counts>>

Pop  == [pc |-> "pop"]
Done == [pc |-> "done"]

\* A message of kind "use" is a GetMsgRequest or SendMsgRequest on the session,
\* "open" and "close" are requests of some other client; the rest are operator
\* lines.
Request == {"use", "open", "close"}
Line    == {"status", "reload", "exit"}

Inbox    == INSTANCE ObjectQueue WITH Getter <- {"main"}, Value <- Request \cup Line,
              Limit <- InboxLimit, Stack <- TRUE, data <- inbox, wait <- mainWait
Requests == INSTANCE ObjectQueue WITH Getter <- Thread, Value <- Request,
              Limit <- QueueLimit, Stack <- FALSE, data <- queue, wait <- thrWait

\* QueueMsgFactory::KnownTypes, what MappedMsgFactory has registered.
KnownTypes ==
  {"OpenMsgQueueRequest", "OpenMsgQueueResult", "CloseMsgQueueRequest",
   "GetMsgRequest", "GetMsgResult", "SendMsgRequest", "SendMsgResult"}

\* The result type _PROCESS_MSG asks the factory for; MappedMsgFactory::Create
\* gives NULL for a type nobody registered.
ResultType == [use |-> "GetMsgResult", open |-> "OpenMsgQueueResult", close |-> "CloseMsgQueueResult"]
CreatesResult(kind) == ResultType[kind] \in KnownTypes

\* exit() and abort() end every thread.
Aborted(t) == thr[t] \in {"unknown thread", "no result"}
Running == main # Done /\ \A t \in Thread : ~Aborted(t)
----------------------------------------------------------------------------
(* What comes in *)

\* The net thread starts in Run, after Open's Start; it goes on during a reload.
Arrive(kind) ==
  /\ Running
  /\ stop \/ main = Pop
  /\ Inbox!Put(kind)
  /\ IF kind \in Request THEN reqs < MaxReq /\ reqs' = reqs + 1 /\ UNCHANGED lines
                         ELSE lines < MaxLine /\ lines' = lines + 1 /\ UNCHANGED reqs
  /\ UNCHANGED <<waited, main, work, pool, control, session>>

\* The parent sends "stop" on the control socket.
SendStop ==
  /\ Running
  /\ control' = "stop"
  /\ UNCHANGED <<in, waited, main, work, pool, session, counts>>
----------------------------------------------------------------------------
(* The main thread *)

\* PopMsg returns a message.
Receive(kinds) ==
  /\ Running
  /\ main = Pop
  /\ Inbox!Take("main")
  /\ Head(inbox) \in kinds
  /\ waited' = 0

\* PopMsg finds nothing and waits.
PopWait ==
  /\ Running
  /\ main = Pop
  /\ Inbox!Block("main")
  /\ waited' = 0
  /\ UNCHANGED <<main, work, pool, control, session, counts>>

\* A request goes to the workers; if _requestQueue is full it is gone, and
\* the client gets no answer.
Forward ==
  /\ Receive(Request)
  /\ Requests!Put(Head(inbox))
  /\ UNCHANGED <<main, pool, control, session, counts>>

\* "status", "get client", "all queue" and the like only report.
Report ==
  /\ Receive({"status"})
  /\ UNCHANGED <<main, work, pool, control, session, counts>>

\* "exit" (and "exitthread") make Run return; Close and exit follow.
Exit ==
  /\ Receive({"exit"})
  /\ main' = Done
  /\ stop' = TRUE
  /\ UNCHANGED <<work, thr, list, control, session, counts>>

\* "reload": StopAll, then Open, which ends in Start with the ThreadCount now
\* in the file (livecount is read once) unless the file or the metadata cannot
\* be read.  _stop is never cleared.
Reload ==
  /\ Receive({"reload"})
  /\ stop' = TRUE
  /\ main' \in {Pop} \cup {[pc |-> "start", left |-> n - Cardinality(live)] : n \in ThreadCounts}
  /\ UNCHANGED <<work, thr, list, control, session, counts>>

\* ThreadPool::Start creates a thread, which runs from here on, ...
StartThread(t) ==
  /\ Running
  /\ main.pc = "start"
  /\ main.left > 0
  /\ thr[t] = "none"
  /\ thr' = [thr EXCEPT ![t] = "created"]
  /\ main' = [pc |-> "push", left |-> main.left, t |-> t]
  /\ UNCHANGED <<in, waited, work, list, stop, control, session, counts>>

\* Seeded fault: the new thread is not recorded.
PushLiveForgets ==
  /\ Running
  /\ main.pc = "push"
  /\ main' = [pc |-> "start", left |-> main.left - 1]
  /\ UNCHANGED <<in, waited, work, pool, control, session, counts>>

\* ... and puts it into _livethreads, without _mutex: if Destory is at the list
\* at the same time the new entry may be lost, or the process dies.
PushLive ==
  /\ Running
  /\ main.pc = "push"
  /\ \/ /\ live' \in {live \cup {main.t}} \cup (IF torn # {} THEN {live} ELSE {})
        /\ main' = [pc |-> "start", left |-> main.left - 1]
     \/ torn # {} /\ main' = Done /\ UNCHANGED live
  /\ UNCHANGED <<in, waited, work, thr, torn, stop, control, session, counts>>

\* There are enough threads, or one cannot be created; nobody looks which.
EndStart ==
  /\ Running
  /\ main.pc = "start"
  /\ main' = Pop
  /\ UNCHANGED <<in, waited, work, pool, control, session, counts>>

\* What the sweep does to the session.
Sweep == IF session.idle > SessionTime THEN [session EXCEPT !.live = FALSE] ELSE session

\* PopMsgBlockTimeUs is over.
PopExpires ==
  /\ Running
  /\ waited = BlockTime
  /\ Inbox!TimeOut("main")
  /\ UNCHANGED <<waited, main, work, pool, control, session, counts>>

\* PopMsg returns NULL, whether or not a message has come by now.
GiveUp ==
  /\ Running
  /\ main = Pop
  /\ Inbox!GiveUp("main")
  /\ waited' = 0

\* Seeded fault: the control socket is not looked at.
PopTimeoutNoControl ==
  /\ GiveUp
  /\ session' = Sweep
  /\ UNCHANGED <<main, work, pool, control, counts>>

\* Seeded fault: the sweep is left out.
PopTimeoutNoSweep ==
  /\ GiveUp
  /\ main' = IF control = "stop" THEN Done ELSE main
  /\ UNCHANGED <<work, pool, control, session, counts>>

\* PopMsg has timed out: the control socket, then the sweep.
PopTimeout ==
  /\ GiveUp
  /\ IF control = "stop"
     THEN main' = Done /\ stop' = TRUE /\ UNCHANGED session
     ELSE session' = Sweep /\ UNCHANGED <<main, stop>>
  /\ UNCHANGED <<work, thr, list, control, counts>>
----------------------------------------------------------------------------
(* The workers *)

\* WorkerThread::Run looks at _stop once before it enters RunOnce, which does
\* not return.
ThreadRun(t) ==
  /\ Running
  /\ thr[t] = "created"
  /\ thr' = [thr EXCEPT ![t] = IF stop THEN "exiting" ELSE "serving"]
  /\ UNCHANGED <<in, waited, main, work, list, stop, control, session, counts>>

\* Destory asserts that the thread is in _livethreads, and takes it out.
Destory(t) ==
  /\ Running
  /\ thr[t] = "exiting"
  /\ thr' = [thr EXCEPT ![t] = IF t \in live THEN "ended" ELSE "unknown thread"]
  /\ live' = live \ {t}
  /\ torn' = IF t \in live /\ main.pc = "push" THEN torn \cup {t} ELSE torn
  /\ UNCHANGED <<in, waited, main, work, stop, control, session, counts>>

\* RunOnce finds nothing in _requestQueue, or waits for _heartBeatMs and
\* pings Redis (RedisConnector.tla).
WorkerWait(t) ==
  /\ Running
  /\ thr[t] = "serving"
  /\ Requests!Block(t) \/ Requests!TimeOut(t) \/ Requests!GiveUp(t)
  /\ UNCHANGED <<in, waited, main, pool, control, session, counts>>

\* Seeded fault: a stopped pool's workers take up nothing more.
ServeUnlessStopped(t) ==
  /\ Running
  /\ ~stop
  /\ thr[t] = "serving"
  /\ Requests!Take(t)
  /\ UNCHANGED <<in, waited, main, pool, control, session, counts>>

\* A worker takes the oldest request.  _PROCESS_MSG asserts that the factory
\* makes the result; GetQueueName refreshes a session that is still in the
\* table, however old.
Serve(t) ==
  /\ Running
  /\ thr[t] = "serving"
  /\ Requests!Take(t)
  /\ thr' = IF CreatesResult(Head(queue)) THEN thr ELSE [thr EXCEPT ![t] = "no result"]
  /\ session' = IF Head(queue) = "use" /\ session.live THEN [session EXCEPT !.idle = 0] ELSE session
  /\ UNCHANGED <<in, waited, main, list, stop, control, counts>>
----------------------------------------------------------------------------
\* How far idle is counted.
IdleCap == SessionTime + BlockTime + 1

\* A second passes: the main thread is waiting and the workers, if there are
\* any, are idle.
Tick ==
  /\ Running
  /\ mainWait["main"] = "in"
  /\ queue = <<>> \/ \A t \in Thread : thr[t] \notin {"created", "serving"}
  /\ waited < BlockTime
  /\ waited' = waited + 1
  /\ session' = [session EXCEPT !.idle = IF @ = IdleCap THEN @ ELSE @ + 1]
  /\ UNCHANGED <<in, main, work, pool, control, counts>>

\* Open has run: QueueProcessor::Open's Start begins with an empty pool.
Init ==
  /\ Inbox!Init
  /\ waited = 0
  /\ main \in [pc : {"start"}, left : ThreadCounts]
  /\ Requests!Init
  /\ thr = [t \in Thread |-> "none"]
  /\ live = {}
  /\ torn = {}
  /\ stop = FALSE
  /\ control = ""
  /\ session = [live |-> TRUE, idle |-> 0]
  /\ reqs = 0
  /\ lines = 0

MainStep ==
  \/ PopWait
  \/ Forward
  \/ Report
  \/ Exit
  \/ Reload
  \/ \E t \in Thread : StartThread(t)
  \/ PushLive
  \/ EndStart
  \/ PopTimeout

ThreadStep(t) ==
  \/ ThreadRun(t)
  \/ Destory(t)
  \/ WorkerWait(t)
  \/ Serve(t)

Next ==
  \/ \E kind \in Request \cup Line : Arrive(kind)
  \/ SendStop
  \/ MainStep
  \/ \E t \in Thread : ThreadStep(t)
  \/ PopExpires
  \/ Tick

\* The scheduler runs every thread and the clock goes on; what clients,
\* operators and the parent do is theirs to choose.
Fairness ==
  /\ WF_vars(MainStep)
  /\ WF_vars(Tick)
  /\ WF_vars(PopExpires)
  /\ \A t \in Thread : WF_vars(ThreadStep(t))

Spec == Init /\ [][Next]_vars /\ Fairness
----------------------------------------------------------------------------
(* Properties *)

\* Between two messages _livethreads is the set of threads there are: what
\* "status" reports is the number of workers, unless a push_back and an erase
\* have met.
PoolIsLive == Running /\ main = Pop /\ torn = {} => live = {t \in Thread : thr[t] \notin {"none", "ended"}}

\* A "stop" from the parent ends the process once the clients pause.
StopIsHonoured == control = "stop" ~> ~Running

\* An expired session is swept (or used again) once the clients pause.
ExpiryHappens ==
  session.idle > SessionTime ~> ~session.live \/ session.idle = 0 \/ ~Running

\* A worker never sleeps in Get while there is a request nobody is on the way
\* to, and neither does the main thread; "reload" may add workers meanwhile.
NobodySleepsOverWork == Inbox!NobodySleepsOverWork /\ Requests!NobodySleepsOverWork

\* _PROCESS_MSG's assert(res): the factory knows every result type.
ResultIsMade == \A t \in Thread : thr[t] # "no result"

\* Once a worker has begun, a request in _requestQueue is taken up, also while
\* and after the pool is reloaded.  (A reload that comes before any worker has
\* tested _stop ends them all, and those Start creates after it.)
RequestsAreServed ==
  queue # <<>> /\ (\E t \in Thread : thr[t] = "serving") ~> queue = <<>> \/ ~Running
=============================================================================
