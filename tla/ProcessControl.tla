--------------------------- MODULE ProcessControl ---------------------------
(***************************************************************************)
(* The parent process (mq/src/processcontrol.cpp and main.cpp): it forks   *)
(* the child that serves, looks twice a second whether the child is still  *)
(* there, forks another if not, and on SIGINT sends "stop" down the socket *)
(* pair and waits for its children.  The child opens (reads the            *)
(* configuration, listens, loads the metadata), serves, and reads its end  *)
(* of the pair when no message has come for a while (QueueProcessor.tla);  *)
(* it may die at any time.                                                 *)
(*                                                                         *)
(* The parent may be killed too (only SIGINT is caught) and started again. *)
(* Its children then go on without it: end-of-file on the control socket   *)
(* is an empty string to Run, which is not "stop".  Such an orphan keeps   *)
(* the listening address; init reaps it when it dies.                      *)
(*                                                                         *)
(* A pid is never given out twice here: the kernel does not reuse the pid  *)
(* of a zombie, and Run forks as soon as it has reaped one.                *)
(***************************************************************************)
EXTENDS Integers, FiniteSets

CONSTANTS
  MaxFd,        \* descriptors the parent may have open for its socket pairs
  MaxPid,       \* bound: processes forked
  MaxForkFail,  \* bound: forks that fail
  MaxKill       \* bound: times the parent is killed

ASSUME BoundAssumption == {MaxFd, MaxPid, MaxForkFail, MaxKill} \subseteq Nat

VARIABLES
  pc,         \* where the parent is: "check", "create", "sleep", "uninit", "wait",
              \* "exited" or "killed"
  stop,       \* _stop
  childPid,   \* _childPid, -1 at first and after a failed fork
  fd,         \* _fd: whose socket the parent writes to, or NoFd
  open,       \* how many ends of socket pairs the parent holds
  proc,       \* per pid: "none", "opening", "listening", "serving", "zombie" or "reaped"
  orphans,    \* the processes whose parent was killed
  paired,     \* the children that were given a control socket
  control,    \* the children with "stop" in their socket
  forkFails, kills

kernel == <<proc, orphans>>
bounds == <<forkFails, kills>>
vars == <<pc, stop, childPid, fd, open, kernel, paired, control, bounds>>

Pid == 1..MaxPid
NoFd == 0
Listeners == {p \in Pid : proc[p] \in {"listening", "serving"}}
Alive     == {p \in Pid : proc[p] \in {"opening", "listening", "serving"}}
Unused    == {p \in Pid : proc[p] = "none"}
Children  == {p \in Pid : proc[p] \in {"opening", "listening", "serving", "zombie"}} \ orphans
----------------------------------------------------------------------------
(* Run *)

\* Seeded fault: waitpid is not called, and kill(pid, 0) succeeds on a zombie.
ChildDeadKillOnly(dead) ==
  /\ dead = IF childPid = -1 THEN Children = {} ELSE proc[childPid] = "reaped"
  /\ UNCHANGED proc

\* Seeded fault: any answer of waitpid but an error counts, 0 ("still
\* running") as well.
ChildDeadAnyAnswer(dead) ==
  /\ dead = TRUE
  /\ proc' = IF childPid # -1 /\ proc[childPid] = "zombie"
             THEN [proc EXCEPT ![childPid] = "reaped"] ELSE proc

\* ChildDead: ESRCH, or waitpid reaps it.  For pid -1 waitpid means any child
\* and answers -1, the pid asked for, when there is none.
ChildDead(dead) ==
  IF childPid = -1
  THEN dead = (Children = {}) /\ UNCHANGED proc
  ELSE /\ dead = (proc[childPid] \in {"zombie", "reaped"})
       /\ proc' = IF proc[childPid] = "zombie" THEN [proc EXCEPT ![childPid] = "reaped"] ELSE proc

Check ==
  /\ pc = "check"
  /\ \E dead \in BOOLEAN :
       /\ ChildDead(dead)
       /\ pc' = IF dead THEN "create" ELSE "sleep"
  /\ UNCHANGED <<stop, childPid, fd, open, orphans, paired, control, bounds>>

\* socketpair finds two free descriptors.
PairFits == open + 2 <= MaxFd

\* What is left of the parent's descriptors after close of n that were never
\* initialised: any of them may be hit.
AfterStrayCloses(n) == {k \in 0..open : open - n <= k}

\* fork: the new child is process p.
Fork(p) ==
  /\ pc = "create"
  /\ p = Cardinality(Pid \ Unused) + 1
  /\ proc' = [proc EXCEPT ![p] = "opening"]
  /\ childPid' = p
  /\ pc' = "sleep"
  /\ UNCHANGED <<stop, orphans, control, bounds>>

\* Seeded fault: the parent keeps writing to the first child's socket.
CreateKeepsFd(p) ==
  /\ Fork(p)
  /\ fd' = IF fd = NoFd THEN p ELSE fd
  /\ paired' = paired \cup {p}
  /\ UNCHANGED open

\* Create: a socket pair and a child.  The old _fd is overwritten, not closed.
\* If socketpair fails Create goes on with two descriptors it has not set: the
\* child gets no socket of its own, the parent closes whatever the one number
\* stands for and takes the other for _fd.
Create(p) ==
  /\ Fork(p)
  /\ IF PairFits
     THEN fd' = p /\ open' = open + 1 /\ paired' = paired \cup {p}
     ELSE fd' = NoFd /\ open' \in AfterStrayCloses(1) /\ UNCHANGED paired

\* fork fails, or there are no more processes.
ForkFails ==
  /\ pc = "create"
  /\ forkFails < MaxForkFail \/ Unused = {}
  /\ forkFails' = IF forkFails < MaxForkFail THEN forkFails + 1 ELSE forkFails
  /\ childPid' = -1
  /\ pc' = "sleep"
  /\ UNCHANGED <<stop, fd, kernel, paired, control, kills>>

\* Seeded fault: the pair is not closed when fork fails.
CreateFailsLeaks ==
  /\ ForkFails
  /\ open' = IF PairFits THEN open + 2 ELSE open

\* fork fails: the pair is closed, _fd is what it was, the pid is -1.
CreateFails ==
  /\ ForkFails
  /\ IF PairFits THEN UNCHANGED open ELSE open' \in AfterStrayCloses(2)

\* The loop's condition is looked at after the half second's sleep, which a
\* signal may cut short.
Slept ==
  /\ pc = "sleep"
  /\ pc' = IF stop THEN "uninit" ELSE "check"
  /\ UNCHANGED <<stop, childPid, fd, open, kernel, paired, control, bounds>>

\* SIGINT: prog_exit calls Stop.
Stop ==
  /\ pc \notin {"exited", "killed"}
  /\ ~stop
  /\ stop' = TRUE
  /\ UNCHANGED <<pc, childPid, fd, open, kernel, paired, control, bounds>>
----------------------------------------------------------------------------
(* Uninit *)

\* SendMsg("stop"): it fails, unnoticed, if there is nobody at the other end.
SendStop ==
  /\ pc = "uninit"
  /\ control' = IF fd \in Alive THEN control \cup {fd} ELSE control
  /\ pc' = "wait"
  /\ UNCHANGED <<stop, childPid, fd, open, kernel, paired, bounds>>

\* wait(NULL) until ECHILD: every child is reaped.
Wait ==
  /\ pc = "wait"
  /\ IF Children = {}
     THEN pc' = "exited" /\ UNCHANGED proc
     ELSE \E p \in Children : /\ proc[p] = "zombie"
                              /\ proc' = [proc EXCEPT ![p] = "reaped"]
                              /\ UNCHANGED pc
  /\ UNCHANGED <<stop, childPid, fd, open, orphans, paired, control, bounds>>
----------------------------------------------------------------------------
(* The parent is killed and started again *)

\* A signal the parent does not catch, or an assertion: init takes over its
\* children and reaps the dead ones.
KillParent ==
  /\ pc \notin {"exited", "killed"}
  /\ kills < MaxKill
  /\ kills' = kills + 1
  /\ pc' = "killed"
  /\ orphans' = orphans \cup Alive
  /\ proc' = [p \in Pid |-> IF p \in Children \ Alive THEN "reaped" ELSE proc[p]]
  /\ UNCHANGED <<stop, childPid, fd, open, paired, control, forkFails>>

\* main runs again: MsgQueueProcessManager's constructor, without a word about
\* children of an earlier one.
StartParent ==
  /\ pc = "killed"
  /\ pc' = "check"
  /\ stop' = FALSE
  /\ childPid' = -1
  /\ fd' = NoFd
  /\ open' = 0
  /\ UNCHANGED <<kernel, paired, control, bounds>>
----------------------------------------------------------------------------
(* The child *)

Become(p, s) ==
  /\ proc' = [proc EXCEPT ![p] = IF s = "zombie" /\ p \in orphans THEN "reaped" ELSE s]
  /\ UNCHANGED <<pc, stop, childPid, fd, open, orphans, paired, control, bounds>>

\* Seeded fault: Open's result is not looked at, and a child that cannot bind
\* goes on without a listening socket.
ListenOrNot(p) ==
  /\ proc[p] = "opening"
  /\ Become(p, IF Listeners = {} THEN "listening" ELSE "mute")

\* QueueProcessor::Open opens the acceptors before it loads the metadata; bind
\* fails while another process listens, SO_REUSEADDR or not.
Listen(p) ==
  /\ proc[p] = "opening"
  /\ Become(p, IF Listeners = {} THEN "listening" ELSE "zombie")

\* QueueProcessor::Open returns 0.
Opened(p) ==
  /\ proc[p] = "listening"
  /\ Become(p, "serving")

\* Run finds "stop" in the socket and returns; Close and exit follow.
Stopped(p) ==
  /\ proc[p] = "serving"
  /\ p \in control
  /\ Become(p, "zombie")

\* Open fails (the control descriptor, the configuration, Redis), an
\* assertion, SIGTERM or another signal, the "exit" line.
Dies(p) ==
  /\ p \in Alive
  /\ Become(p, "zombie")
----------------------------------------------------------------------------
Init ==
  /\ pc = "check"
  /\ stop = FALSE
  /\ childPid = -1
  /\ fd = NoFd
  /\ open = 0
  /\ proc = [p \in Pid |-> "none"]
  /\ orphans = {}
  /\ paired = {}
  /\ control = {}
  /\ forkFails = 0
  /\ kills = 0

Parent ==
  \/ Check
  \/ \E p \in Unused : Create(p)
  \/ CreateFails
  \/ Slept
  \/ SendStop
  \/ Wait

Child(p) == Listen(p) \/ Opened(p) \/ Stopped(p)

Next ==
  \/ Parent
  \/ Stop
  \/ KillParent
  \/ StartParent
  \/ \E p \in Pid : Child(p) \/ Dies(p)

\* The parent is scheduled, Open returns, and a serving child's clients pause
\* for PopMsgBlockTimeUs now and then, so that it looks at its socket
\* (QueueProcessor!StopIsHonoured).  Nothing makes a process die, SIGINT come
\* or a killed parent start again.
Fairness ==
  /\ WF_vars(Parent)
  /\ \A p \in Pid : WF_vars(Child(p))

Spec == Init /\ [][Next]_vars /\ Fairness
----------------------------------------------------------------------------
(* Properties *)

\* The only child not reaped yet is the one in _childPid: a new one is never
\* forked beside one that still runs, and no zombie is left that nobody asks
\* waitpid about, however forks fail and parents are killed.
OneChild == Children \subseteq {childPid}

\* The living child is the one whose socket the parent holds, so that "stop"
\* reaches it, however many children came before, forks failed and parents
\* were killed; unless there was no socket pair for it.
StopReachesChild == (Alive \ orphans) \cap paired \subseteq {fd}

\* Create leaks one descriptor for each child and no more: it takes MaxFd
\* respawns before a child is left without a control socket.
DeafOnlyAtLimit == \A p \in Pid : proc[p] # "none" /\ p < MaxFd => p \in paired

\* A child that dies, in Open or while serving, is replaced, unless the parent
\* has been told to stop or is killed (or the model has run out of pids).
Supervised ==
  Alive \ orphans = {} ~> Alive \ orphans # {} \/ stop \/ pc = "killed" \/ Unused = {}

\* Whenever nobody serves, somebody will: the child that fails to bind because
\* an orphan of a killed parent has the address is followed by others, until
\* the orphan has gone and one of them gets it (same exceptions).
ServiceResumes ==
  Listeners = {} ~> (\E p \in Pid : proc[p] = "serving") \/ stop \/ pc = "killed" \/ Unused = {}

\* Once told to stop, the parent comes to its end: it sends "stop" even if the
\* child dies, or is forked, at the same time, and waits for nothing else but
\* a child that has no control socket.
StopEnds == stop ~> pc \in {"exited", "killed"} \/ Alive \ (orphans \cup paired) # {}
=============================================================================
