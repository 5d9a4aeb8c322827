------------------------ MODULE ProcessControlProofs ------------------------
(***************************************************************************)
(* OneChild, StopReachesChild and DeafOnlyAtLimit for any number of pids,  *)
(* descriptors, failed forks and killed parents.  None of them is          *)
(* inductive.  They need that a process the parent has not reaped is the   *)
(* one in _childPid and, if it has a socket, the one at the other end of   *)
(* _fd; that there is none when the parent is about to fork or was killed; *)
(* and that the parent holds no more descriptors than there have been      *)
(* forks.                                                                  *)
(***************************************************************************)
EXTENDS ProcessControl, FiniteSetTheorems, TLAPS

PState == {"none", "opening", "listening", "serving", "zombie", "reaped"}

\* The shape of the state.
PTypeOK ==
  /\ pc \in {"check", "create", "sleep", "uninit", "wait", "exited", "killed"}
  /\ childPid \in Pid \cup {-1}
  /\ open \in Nat
  /\ proc \in [Pid -> PState]

Used == Pid \ Unused

\* The child there is is the one the parent knows.
KnownChild ==
  /\ Children \subseteq {childPid}
  /\ Children \cap paired \subseteq {fd}
  /\ childPid # -1 => proc[childPid] # "none"
  /\ pc \in {"create", "killed"} => Children = {}

\* At most one descriptor for each fork, and what follows from it.
FewDescriptors == open <= Cardinality(Used) /\ paired \subseteq Used /\ DeafOnlyAtLimit

\* The inductive invariant.
IInv == PTypeOK /\ KnownChild /\ FewDescriptors

\* The parent starts without children.
LEMMA InitIInv == Init => IInv
<1> SUFFICES ASSUME Init PROVE IInv
  OBVIOUS
<1>1. PTypeOK /\ KnownChild
  BY DEF Init, PTypeOK, KnownChild, PState, Children
<1>2. Used = {}
  BY DEF Init, Used, Unused
<1>3. Cardinality({}) = 0
  BY FS_EmptySet
<1>4. FewDescriptors
  BY <1>2, <1>3 DEF Init, FewDescriptors, DeafOnlyAtLimit
<1>5. QED
  BY <1>1, <1>4 DEF IInv

\* There are finitely many pids.
LEMMA UsedFinite == IsFiniteSet(Used) /\ Cardinality(Used) \in Nat
<1>1. MaxPid \in Nat
  BY BoundAssumption
<1>2. IsFiniteSet(1..MaxPid)
  BY <1>1, FS_Interval
<1>3. IsFiniteSet(Used)
  BY <1>2, FS_Subset DEF Used, Pid
<1>4. QED
  BY <1>3, FS_CardinalityType

\* A step that forks nothing keeps the pids and does not add a descriptor.
LEMMA NoForkFew ==
  ASSUME IInv, PTypeOK', open' <= open, paired' = paired,
         \A p \in Pid : proc'[p] = "none" <=> proc[p] = "none"
  PROVE  FewDescriptors'
<1>1. Used' = Used
  BY DEF Used, Unused
<1>2. open' <= Cardinality(Used)
  BY UsedFinite DEF IInv, FewDescriptors, PTypeOK
<1>3. DeafOnlyAtLimit' /\ paired' \subseteq Used'
  BY <1>1 DEF IInv, FewDescriptors, DeafOnlyAtLimit, Pid
<1>4. QED
  BY <1>1, <1>2, <1>3 DEF FewDescriptors

\* Creating a child, with or without a socket pair, preserves the invariant.
LEMMA CreateIInv == ASSUME IInv, NEW p \in Unused, Create(p) PROVE IInv'
<1>1. p \in Pid /\ proc[p] = "none"
  BY DEF Unused
<1>2. /\ proc' = [proc EXCEPT ![p] = "opening"] /\ childPid' = p /\ pc' = "sleep"
      /\ orphans' = orphans /\ p = Cardinality(Used) + 1
  BY DEF Create, Fork, Used
<1>3. Children = {}
  BY DEF Create, Fork, IInv, KnownChild
<1>4. open' \in Nat
  BY DEF Create, AfterStrayCloses, IInv, PTypeOK
<1>5. PTypeOK'
  BY <1>1, <1>2, <1>4 DEF IInv, PTypeOK, PState
<1>6. Children' \subseteq {p}
  BY <1>1, <1>2, <1>3 DEF IInv, PTypeOK, PState, Children
<1>7. Children' \cap paired' \subseteq {fd'}
  <2>1. CASE PairFits
    BY <1>6, <2>1 DEF Create
  <2>2. CASE ~PairFits
    <3>1. paired' = paired
      BY <2>2 DEF Create
    <3>2. p \notin paired
      BY <1>1 DEF IInv, FewDescriptors, Used
    <3>3. QED
      BY <1>6, <3>1, <3>2
  <2>3. QED
    BY <2>1, <2>2
<1>8. KnownChild'
  BY <1>1, <1>2, <1>6, <1>7 DEF IInv, PTypeOK, KnownChild
<1>10. Used' = Used \cup {p} /\ p \notin Used
  BY <1>1, <1>2 DEF Used, Unused, IInv, PTypeOK
<1>11. Cardinality(Used') = Cardinality(Used) + 1
  BY <1>10, UsedFinite, FS_AddElement
<1>12. open' <= open + 1
  BY DEF Create, AfterStrayCloses, IInv, PTypeOK
<1>13. open' <= Cardinality(Used')
  BY <1>4, <1>11, <1>12, UsedFinite DEF IInv, PTypeOK, FewDescriptors
<1>14. DeafOnlyAtLimit'
  <2>1. p < MaxFd => p \in paired'
    <3>1. MaxFd \in Nat
      BY BoundAssumption
    <3>2. p < MaxFd => PairFits
      BY <1>2, <3>1, UsedFinite DEF PairFits, IInv, PTypeOK, FewDescriptors
    <3>3. QED
      BY <3>2 DEF Create
  <2>2. paired \subseteq paired'
    BY DEF Create
  <2>3. \A r \in Pid : r # p => (proc'[r] # "none" <=> proc[r] # "none")
    BY <1>1, <1>2 DEF IInv, PTypeOK
  <2>4. QED
    BY <2>1, <2>2, <2>3 DEF IInv, FewDescriptors, DeafOnlyAtLimit, Pid
<1>15. paired' \subseteq Used'
  BY <1>10 DEF Create, IInv, FewDescriptors
<1>16. QED
  BY <1>5, <1>8, <1>13, <1>14, <1>15 DEF IInv, FewDescriptors

\* A step of a child, orphan or not, preserves the invariant.
LEMMA BecomeIInv ==
  ASSUME IInv, NEW p \in Alive, NEW s \in {"listening", "serving", "zombie"}, Become(p, s)
  PROVE  IInv'
<1>1. p \in Pid /\ proc[p] \in {"opening", "listening", "serving"}
  BY DEF Alive
<1>2. PICK t \in {"listening", "serving", "zombie", "reaped"} :
        proc' = [proc EXCEPT ![p] = t]
  BY DEF Become
<1>3. PTypeOK'
  BY <1>1, <1>2 DEF Become, IInv, PTypeOK, PState
<1>4. Children' \subseteq Children
  BY <1>1, <1>2 DEF Become, IInv, PTypeOK, Children
<1>5. \A r \in Pid : proc'[r] = "none" <=> proc[r] = "none"
  BY <1>1, <1>2 DEF IInv, PTypeOK
<1>6. KnownChild'
  BY <1>4, <1>5 DEF Become, IInv, PTypeOK, KnownChild
<1>8. FewDescriptors'
  BY <1>3, <1>5, NoForkFew DEF Become, IInv, PTypeOK
<1>9. QED
  BY <1>3, <1>6, <1>8 DEF IInv

\* A step of the parent that reaps nothing and forks nothing, or reaps one
\* zombie, preserves the invariant.
LEMMA ReapIInv ==
  ASSUME IInv, PTypeOK', UNCHANGED <<fd, orphans, paired>>, open' <= open,
         childPid' \in {childPid, -1},
         childPid' # childPid => Children = {},
         pc' \in {"create", "killed"} => Children' = {},
         \/ proc' = proc
         \/ \E p \in Pid : proc[p] = "zombie" /\ proc' = [proc EXCEPT ![p] = "reaped"]
  PROVE  IInv'
<1>1. Children' \subseteq Children
  BY DEF IInv, PTypeOK, Children
<1>2. \A r \in Pid : proc'[r] = "none" <=> proc[r] = "none"
  BY DEF IInv, PTypeOK
<1>3. KnownChild'
  BY <1>1, <1>2 DEF IInv, PTypeOK, KnownChild
<1>5. FewDescriptors'
  BY <1>2, NoForkFew
<1>6. QED
  BY <1>3, <1>5 DEF IInv

\* Every step of the parent, of a child and of whoever sends signals preserves
\* the invariant.
LEMMA NextIInv == IInv /\ [Next]_vars => IInv'
<1> SUFFICES ASSUME IInv, [Next]_vars
             PROVE  IInv'
  OBVIOUS
<1>t. PTypeOK
  BY DEF IInv
<1>n. open <= open
  BY <1>t DEF PTypeOK
<1>1. CASE Check
  <2>1. PICK dead \in BOOLEAN : ChildDead(dead) /\ pc' = IF dead THEN "create" ELSE "sleep"
    BY <1>1 DEF Check
  <2>2. UNCHANGED <<fd, orphans, paired, open, childPid>>
    BY <1>1 DEF Check
  <2>3. CASE childPid = -1
    <3>1. proc' = proc /\ (pc' = "create" => Children = {}) /\ pc' \in {"create", "sleep"}
      BY <2>1, <2>3 DEF ChildDead
    <3>2. PTypeOK' /\ (pc' = "create" => Children' = {})
      BY <2>2, <3>1 DEF IInv, PTypeOK, Children
    <3>3. QED
      BY <1>n, <2>2, <3>1, <3>2, ReapIInv
  <2>4. CASE childPid # -1
    <3>1. childPid \in Pid
      BY <2>4 DEF IInv, PTypeOK
    <3>2. \/ proc' = proc
          \/ proc[childPid] = "zombie" /\ proc' = [proc EXCEPT ![childPid] = "reaped"]
      BY <2>1, <2>4 DEF ChildDead
    <3>3. PTypeOK'
      BY <2>1, <2>2, <3>1, <3>2 DEF IInv, PTypeOK, PState
    <3>4. pc' = "create" => proc'[childPid] = "reaped"
      BY <2>1, <2>4, <3>1 DEF ChildDead, IInv, PTypeOK
    <3>5. Children' \subseteq {childPid}
      BY <2>2, <3>1, <3>2 DEF IInv, PTypeOK, KnownChild, Children
    <3>6. pc' = "create" => Children' = {}
      BY <3>4, <3>5 DEF Children
    <3>7. QED
      BY <1>n, <2>1, <2>2, <3>1, <3>2, <3>3, <3>6, ReapIInv
  <2>5. QED
    BY <2>3, <2>4
<1>2. ASSUME NEW p \in Unused, Create(p)
      PROVE  IInv'
  BY <1>2, CreateIInv
<1>3. CASE CreateFails
  <2>1. /\ UNCHANGED <<fd, orphans, paired, proc>> /\ childPid' = -1 /\ pc' = "sleep"
        /\ Children = {}
    BY <1>3 DEF CreateFails, ForkFails, kernel, IInv, KnownChild
  <2>2. open' \in Nat /\ open' <= open
    BY <1>3 DEF CreateFails, AfterStrayCloses, IInv, PTypeOK
  <2>3. PTypeOK'
    BY <2>1, <2>2 DEF IInv, PTypeOK
  <2>4. QED
    BY <2>1, <2>2, <2>3, ReapIInv
<1>4. CASE Slept \/ Stop \/ SendStop
  <2>1. /\ UNCHANGED <<fd, orphans, paired, proc, open, childPid>> /\ PTypeOK'
        /\ pc' \in {pc, "uninit", "check", "wait"}
    BY <1>4 DEF Slept, Stop, SendStop, kernel, IInv, PTypeOK
  <2>2. Children' = Children
    BY <2>1 DEF Children
  <2>3. pc' \in {"create", "killed"} => Children' = {}
    BY <2>1, <2>2 DEF IInv, KnownChild
  <2>4. QED
    BY <1>n, <2>1, <2>3, ReapIInv
<1>6. CASE Wait
  <2>1. UNCHANGED <<fd, orphans, paired, open, childPid>>
    BY <1>6 DEF Wait
  <2>2. CASE Children = {}
    <3>1. pc' = "exited" /\ proc' = proc
      BY <1>6, <2>2 DEF Wait
    <3>2. PTypeOK' /\ Children' = {}
      BY <2>1, <2>2, <3>1 DEF IInv, PTypeOK, Children
    <3>3. QED
      BY <1>n, <2>1, <3>1, <3>2, ReapIInv
  <2>3. CASE Children # {}
    <3>1. PICK p \in Children : proc[p] = "zombie" /\ proc' = [proc EXCEPT ![p] = "reaped"]
                                /\ UNCHANGED pc
      BY <1>6, <2>3 DEF Wait
    <3>2. p \in Pid /\ pc' = "wait"
      BY <1>6, <3>1 DEF Wait, Children
    <3>3. PTypeOK'
      BY <2>1, <3>1, <3>2 DEF IInv, PTypeOK, PState
    <3>4. QED
      BY <1>n, <2>1, <3>1, <3>2, <3>3, ReapIInv
  <2>4. QED
    BY <2>2, <2>3
<1>7. CASE KillParent
  <2>1. /\ UNCHANGED <<fd, open, childPid, paired>> /\ pc' = "killed"
        /\ orphans' = orphans \cup Alive
        /\ proc' = [p \in Pid |-> IF p \in Children \ Alive THEN "reaped" ELSE proc[p]]
    BY <1>7 DEF KillParent
  <2>2. PTypeOK'
    BY <2>1 DEF IInv, PTypeOK, PState
  <2>3. Children' = {}
    BY <2>1 DEF IInv, PTypeOK, Children, Alive
  <2>4. \A r \in Pid : proc'[r] = "none" <=> proc[r] = "none"
    BY <2>1 DEF IInv, PTypeOK, Children
  <2>5. KnownChild'
    BY <2>1, <2>3, <2>4 DEF IInv, PTypeOK, KnownChild
  <2>7. QED
    BY <1>n, <2>1, <2>2, <2>4, <2>5, NoForkFew DEF IInv
<1>8. CASE StartParent
  <2>1. /\ pc = "killed" /\ pc' = "check" /\ childPid' = -1 /\ open' = 0
        /\ UNCHANGED <<proc, orphans, paired>>
    BY <1>8 DEF StartParent, kernel
  <2>2. PTypeOK'
    BY <2>1 DEF IInv, PTypeOK
  <2>3. Children' = {}
    BY <2>1 DEF IInv, KnownChild, Children
  <2>4. KnownChild'
    BY <2>1, <2>3 DEF IInv, KnownChild
  <2>5. open' <= open
    BY <2>1 DEF IInv, PTypeOK
  <2>6. QED
    BY <2>1, <2>2, <2>4, <2>5, NoForkFew DEF IInv
<1>9. ASSUME NEW p \in Pid, Child(p) \/ Dies(p)
      PROVE  IInv'
  <2>1. CASE Listen(p) \/ Opened(p)
    <3>1. p \in Alive
      BY <2>1 DEF Listen, Opened, Alive
    <3>2. PICK s \in {"listening", "serving", "zombie"} : Become(p, s)
      BY <2>1 DEF Listen, Opened
    <3>3. QED
      BY <3>1, <3>2, BecomeIInv
  <2>3. CASE Stopped(p) \/ Dies(p)
    <3>1. p \in Alive /\ Become(p, "zombie")
      BY <2>3 DEF Stopped, Dies, Alive
    <3>2. QED
      BY <3>1, BecomeIInv
  <2>4. QED
    BY <1>9, <2>1, <2>3 DEF Child
<1>10. CASE UNCHANGED vars
  <2>1. UNCHANGED <<pc, fd, orphans, paired, open, childPid, proc>>
    BY <1>10 DEF vars, kernel
  <2>2. PTypeOK' /\ Children' = Children
    BY <2>1 DEF IInv, PTypeOK, Children
  <2>3. pc' \in {"create", "killed"} => Children' = {}
    BY <2>1, <2>2 DEF IInv, KnownChild
  <2>4. QED
    BY <1>n, <2>1, <2>2, <2>3, ReapIInv
<1>11. QED
  BY <1>1, <1>2, <1>3, <1>4, <1>6, <1>7, <1>8, <1>9, <1>10 DEF Next, Parent

\* The invariant holds throughout.
THEOREM Invariance == Spec => []IInv
BY InitIInv, NextIInv, PTL DEF Spec

\* The parent's socket is that of the child that is alive, unless socketpair
\* has failed.
THEOREM StopIsDeliverable == Spec => []StopReachesChild
<1>1. IInv => StopReachesChild
  BY DEF IInv, KnownChild, StopReachesChild, Alive, Children
<1>2. QED
  BY <1>1, Invariance, PTL

\* Every child that is not reaped is the one the parent knows, so it never has
\* two, and none escapes its waitpid.
THEOREM SingleChild == Spec => []OneChild
<1>1. IInv => OneChild
  BY DEF IInv, KnownChild, OneChild
<1>2. QED
  BY <1>1, Invariance, PTL

\* Only a child that comes after MaxFd - 1 others is without a control socket.
THEOREM SlowLeak == Spec => []DeafOnlyAtLimit
<1>1. IInv => DeafOnlyAtLimit
  BY DEF IInv, FewDescriptors
<1>2. QED
  BY <1>1, Invariance, PTL
=============================================================================
