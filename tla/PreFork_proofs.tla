--------------------------- MODULE PreFork_proofs ---------------------------
(***************************************************************************)
(* Proofs about the supervisor, for every set of process ids, every pool   *)
(* size and every restart count.                                           *)
(***************************************************************************)
EXTENDS PreFork, FiniteSetTheorems, TLAPS

(* What TypeOK needs to be inductive: the cursor starts at slot 0 and runs *)
(* off PIDList only in the step in which the parent returns.               *)
CursorInv ==
  /\ TypeOK
  /\ pc \in {"loop", "reap"} => cursor = 0
  /\ pc # "signalled" => cursor < NoProcs
  /\ pc = "signalled" => cursor = NoProcs

LEMMA ReapTypes ==
  ASSUME TypeOK, NEW p \in Pid, ReapChild(p)
  PROVE  TypeOK'
<1>1. list' \in [Slot -> Pid \cup {NoPid, Stranger}]
  <2>1. CASE \E i \in Slot : list[i] = p
    <3>1. PICK j : list' = [i \in Slot |->
                      IF i < j THEN list[i]
                      ELSE IF i + 1 \in Slot THEN list[i + 1] ELSE NoPid]
      BY <2>1 DEF ReapChild, Removed
    <3>2. QED  BY <3>1 DEF TypeOK
  <2>2. CASE ~ \E i \in Slot : list[i] = p
    BY <2>2 DEF ReapChild, Removed, TypeOK
  <2>3. QED  BY <2>1, <2>2
<1>2. /\ noProcs' \in 0 .. NoProcs /\ childrenToOpen' \in 0 .. NoProcs
      /\ restartCount' \in 0 .. RestartCount
  BY CountAssumption DEF ReapChild, CountExit, CountFailure, TypeOK
<1>3. proc' \in [Pid -> ProcState]
  BY DEF ReapChild, TypeOK, ProcState
<1>4. QED
  BY <1>1, <1>2, <1>3 DEF ReapChild, TurnEnds, TypeOK, setting

LEMMA CursorStep == CursorInv /\ [Next]_vars => CursorInv'
<1> SUFFICES ASSUME CursorInv, [Next]_vars PROVE CursorInv'
  OBVIOUS
<1> USE CountAssumption
<1>1. ASSUME NEW p \in Pid, ForkChild(p) PROVE CursorInv'
  BY <1>1 DEF CursorInv, TypeOK, ForkChild, PoolShort, Slot, Process,
              ProcState, setting
<1>2. CASE ForkFails
  BY <1>2 DEF CursorInv, TypeOK, ForkFails, PoolShort, setting
<1>3. CASE Detach
  BY <1>3 DEF CursorInv, TypeOK, Detach, counters, setting
<1>4. CASE TestShutdown
  BY <1>4 DEF CursorInv, TypeOK, TestShutdown, counters, setting
<1>5. CASE KillSlot
  <2>1. cursor \in Slot
    BY <1>5 DEF KillSlot, CursorInv, TypeOK, Slot
  <2>2. shutdown' \in [Process -> BOOLEAN]
    BY <1>5 DEF KillSlot, CursorInv, TypeOK, Process, Live
  <2>3. QED
    BY <1>5, <2>1, <2>2 DEF CursorInv, TypeOK, KillSlot, Slot, counters, setting
<1>6. ASSUME NEW p \in Pid, ReapChild(p) PROVE CursorInv'
  <2>1. TypeOK'  BY <1>6, ReapTypes DEF CursorInv
  <2>2. QED      BY <1>6, <2>1 DEF CursorInv, ReapChild, TurnEnds
<1>7. CASE ReapNothing
  BY <1>7 DEF CursorInv, TypeOK, ReapNothing, TurnEnds, setting
<1>8. ASSUME NEW p \in Pid, NEW how \in {"exit0", "exit1"}, WorkerEnds(p, how)
      PROVE  CursorInv'
  BY <1>8 DEF CursorInv, TypeOK, WorkerEnds, ProcState, Dead, parentVars,
              counters, setting
<1>9. ASSUME NEW p \in Pid, WorkerKilled(p) PROVE CursorInv'
  BY <1>9 DEF CursorInv, TypeOK, WorkerKilled, ProcState, Dead, parentVars,
              counters, setting
<1>10. ASSUME NEW p \in Pid, WorkerStops(p) \/ WorkerContinues(p)
       PROVE  CursorInv'
  BY <1>10 DEF CursorInv, TypeOK, WorkerStops, WorkerContinues, ProcState,
               parentVars, counters, setting
<1>11. ASSUME NEW q \in Process, Terminate(q) PROVE CursorInv'
  BY <1>11 DEF CursorInv, TypeOK, Terminate, parentVars, counters, setting
<1>12. CASE UNCHANGED vars
  BY <1>12 DEF CursorInv, TypeOK, vars, counters, setting
<1>13. QED
  BY <1>1, <1>2, <1>3, <1>4, <1>5, <1>6, <1>7, <1>8, <1>9, <1>10, <1>11, <1>12
     DEF Next, Supervise, Finished

\* Every variable of the supervisor keeps its type: slot numbers stay inside
\* PIDList and the counters of CreateHandlers inside 0 .. NoProcs.
THEOREM TypeCorrect == Spec => []TypeOK
<1>1. Init => CursorInv
  BY CountAssumption DEF Init, CursorInv, TypeOK, ProcState
<1>2. CursorInv => TypeOK
  BY DEF CursorInv
<1>3. QED
  BY <1>1, <1>2, CursorStep, PTL DEF Spec

-----------------------------------------------------------------------------
(***************************************************************************)
(* PIDList.  A slot names at most one child, every child is named, and     *)
(* below noProcs.  The slots are not packed: a worker that failed when no  *)
(* restart was left leaves noProcs one too high for good, and a later fork *)
(* then writes above a hole.  What counts is that removal lowers noProcs   *)
(* by one at most and moves every later slot down by one.                  *)
(***************************************************************************)
ListInv ==
  /\ noProcs <= childrenToOpen
  /\ \A p \in Pid : proc[p] \notin {"stopped", "suspended"}
  /\ \A p \in Children : \E i \in Slot : i < noProcs /\ list[i] = p
  /\ \A i \in Slot : list[i] \in Pid => i < noProcs /\ list[i] \in Children
  /\ \A i, j \in Slot : list[i] \in Pid /\ list[i] = list[j] => i = j

(* SIGUSR1 has gone to every slot the cursor has passed.                   *)
SignalInv ==
  pc \in {"kill", "signalled"} =>
    \A i \in Slot : i < cursor /\ list[i] \in Live => shutdown[list[i]]

DrainInv == pc = "drained" => childrenToOpen = 0

PoolInv == ~jobControl => ListInv /\ SignalInv /\ DrainInv

Inv == CursorInv /\ PoolInv

LEMMA ListAfterReap ==
  ASSUME CursorInv, ListInv, NEW p \in Children
  PROVE  \E j \in Slot :
           /\ j < noProcs /\ list[j] = p
           /\ Removed(list, p) =
                [i \in Slot |-> IF i < j THEN list[i]
                                ELSE IF i + 1 \in Slot THEN list[i + 1] ELSE NoPid]
<1>1. PICK j \in Slot : j < noProcs /\ list[j] = p
  BY DEF ListInv
<1>2. \A k \in 0 .. j - 1 : list[k] # p
  BY <1>1, CountAssumption DEF ListInv, Slot, Children
<1>3. ASSUME NEW i \in Slot, list[i] = p PROVE i = j
  BY <1>1, <1>3 DEF ListInv, Children
<1>4. j = CHOOSE i \in Slot : list[i] = p /\ \A k \in 0 .. i - 1 : list[k] # p
  BY <1>1, <1>2, <1>3
<1>5. QED
  BY <1>1, <1>4 DEF Removed

LEMMA ReapKeepsList ==
  ASSUME CursorInv, ~jobControl, ListInv, NEW p \in Pid, ReapChild(p)
  PROVE  ListInv'
<1> USE CountAssumption
<1>1. p \in Children /\ proc' = [proc EXCEPT ![p] = "free"]
  BY DEF ReapChild, Reportable, Children, ListInv, Dead
<1>2. PICK j \in Slot :
        /\ j < noProcs /\ list[j] = p
        /\ list' = [i \in Slot |-> IF i < j THEN list[i]
                                   ELSE IF i + 1 \in Slot THEN list[i + 1] ELSE NoPid]
  BY <1>1, ListAfterReap DEF ReapChild
<1>3. /\ noProcs' \in Int /\ noProcs \in Int /\ noProcs' >= noProcs - 1
      /\ noProcs' <= childrenToOpen'
  BY <1>2 DEF ReapChild, CountExit, CountFailure, ListInv, CursorInv, TypeOK, Slot
<1>4. Children' = Children \ {p}
  BY <1>1 DEF Children, CursorInv, TypeOK
<1>5. ASSUME NEW i \in Slot, list'[i] \in Pid
      PROVE  \E k \in Slot : /\ list'[i] = list[k] /\ k # j /\ i < noProcs'
                             /\ k = IF i < j THEN i ELSE i + 1
  <2>1. CASE i < j
    BY <1>2, <1>3, <2>1 DEF Slot
  <2>2. CASE ~(i < j)
    <3>1. i + 1 \in Slot /\ list'[i] = list[i + 1]
      BY <1>2, <1>5, <2>2, PidAssumption
    <3>2. i + 1 < noProcs
      BY <3>1, <1>5 DEF ListInv
    <3>3. QED  BY <1>2, <1>3, <2>2, <3>1, <3>2 DEF Slot
  <2>3. QED  BY <2>1, <2>2
<1>6. ASSUME NEW i \in Slot, list'[i] \in Pid
      PROVE  i < noProcs' /\ list'[i] \in Children'
  BY <1>2, <1>4, <1>5, <1>6 DEF ListInv, Children
<1>7. ASSUME NEW i \in Slot, NEW k \in Slot, list'[i] \in Pid, list'[i] = list'[k]
      PROVE  i = k
  BY <1>5, <1>7 DEF ListInv, Slot
<1>8. ASSUME NEW q \in Children'
      PROVE  \E i \in Slot : i < noProcs' /\ list'[i] = q
  <2>1. PICK k \in Slot : k < noProcs /\ list[k] = q /\ k # j
    BY <1>2, <1>4, <1>8 DEF ListInv
  <2>2. CASE k < j
    <3>1. list'[k] = q  BY <1>2, <2>1, <2>2
    <3>2. QED  BY <1>2, <1>3, <2>2, <3>1 DEF Slot
  <2>3. CASE k > j
    <3>1. k - 1 \in Slot /\ list'[k - 1] = q
      BY <1>2, <2>1, <2>3 DEF Slot
    <3>2. QED  BY <1>3, <2>1, <3>1 DEF Slot
  <2>4. QED  BY <2>1, <2>2, <2>3 DEF Slot
<1>9. \A q \in Pid : proc'[q] \notin {"stopped", "suspended"}
  BY <1>1 DEF ListInv, CursorInv, TypeOK
<1>10. QED
  BY <1>3, <1>6, <1>7, <1>8, <1>9 DEF ListInv

LEMMA PoolStep == Inv /\ [Next]_vars => PoolInv'
<1> SUFFICES ASSUME Inv, [Next]_vars, ~jobControl'
             PROVE  ListInv' /\ SignalInv' /\ DrainInv'
  BY DEF PoolInv
<1> USE CountAssumption
<1>a. ~jobControl
  BY DEF Next, vars, setting, Supervise, ForkChild, ForkFails, Detach,
         TestShutdown, KillSlot, ReapChild, ReapNothing, WorkerEnds,
         WorkerKilled, WorkerStops, WorkerContinues, Terminate, Finished,
         parentVars
<1>b. CursorInv /\ ListInv /\ SignalInv /\ DrainInv
  BY <1>a DEF Inv, PoolInv
<1>1. ASSUME NEW p \in Pid, ForkChild(p) PROVE ListInv' /\ SignalInv' /\ DrainInv'
  <2>1. noProcs \in Slot /\ list[noProcs] \notin Pid /\ p \notin Children
    BY <1>1, <1>b DEF ForkChild, PoolShort, ListInv, CursorInv, TypeOK, Slot, Children
  <2>2. Children' = Children \cup {p}
    BY <1>1, <1>b DEF ForkChild, Children, CursorInv, TypeOK
  <2>3. \A i \in Slot : list[i] # p
    BY <1>b, <2>1 DEF ListInv
  <2>4. ListInv'
    BY <1>1, <1>b, <2>1, <2>2, <2>3
       DEF ForkChild, PoolShort, ListInv, CursorInv, TypeOK, Slot
  <2>5. QED  BY <1>1, <2>4 DEF ForkChild, SignalInv, DrainInv
<1>2. CASE ForkFails
  BY <1>2, <1>b DEF ForkFails, PoolShort, ListInv, SignalInv, DrainInv, Children,
                    CursorInv, TypeOK
<1>3. CASE Detach \/ TestShutdown
  <2>1. ListInv'
    BY <1>3, <1>b DEF Detach, TestShutdown, ListInv, Children, counters
  <2>2. DrainInv'
    BY <1>3, <1>b DEF Detach, TestShutdown, DrainInv, counters
  <2>3. cursor' = cursor /\ list' = list /\ shutdown' = shutdown /\ proc' = proc
    BY <1>3 DEF Detach, TestShutdown
  <2>4. SignalInv'
    BY <1>3, <2>3, <1>b DEF Detach, TestShutdown, SignalInv, CursorInv, Slot
  <2>5. QED  BY <2>1, <2>2, <2>4
<1>4. CASE KillSlot
  <2>1. ListInv' /\ DrainInv'
    BY <1>4, <1>b DEF KillSlot, ListInv, DrainInv, Children, counters
  <2>2. ASSUME NEW i \in Slot, i < cursor', list'[i] \in Live'
        PROVE  shutdown'[list'[i]]
    <3>1. list' = list /\ Live' = Live /\ cursor' = cursor + 1 /\ cursor \in Nat
      BY <1>4, <1>b DEF KillSlot, Live, CursorInv, TypeOK
    <3>2. list[i] \in Live /\ list[i] \in Process
      BY <2>2, <3>1 DEF Live, Process
    <3>3. CASE i = cursor
      BY <1>4, <1>b, <3>1, <3>2, <3>3 DEF KillSlot, CursorInv, TypeOK
    <3>4. CASE i < cursor
      <4>1. shutdown[list[i]]
        BY <1>4, <1>b, <3>2, <3>4 DEF SignalInv, KillSlot
      <4>2. QED
        BY <1>4, <1>b, <3>1, <3>2, <4>1 DEF KillSlot, CursorInv, TypeOK, Process, Live
    <3>5. QED  BY <2>2, <3>1, <3>3, <3>4 DEF Slot
  <2>3. QED  BY <2>1, <2>2 DEF SignalInv
<1>5. ASSUME NEW p \in Pid, ReapChild(p) PROVE ListInv' /\ SignalInv' /\ DrainInv'
  <2>1. ListInv'
    BY <1>5, <1>a, <1>b, ReapKeepsList
  <2>2. QED  BY <1>5, <2>1 DEF ReapChild, TurnEnds, SignalInv, DrainInv
<1>6. CASE ReapNothing
  BY <1>6, <1>b DEF ReapNothing, TurnEnds, ListInv, SignalInv, DrainInv, Children
<1>7. ASSUME NEW p \in Pid, NEW how \in Dead,
             /\ p \in Live
             /\ proc' = [proc EXCEPT ![p] = how]
             /\ UNCHANGED <<parentVars, shutdown>>
      PROVE  ListInv' /\ SignalInv' /\ DrainInv'
  <2>1. Children' = Children /\ Live' \subseteq Live
    BY <1>7, <1>b DEF Children, Live, Dead, CursorInv, TypeOK
  <2>2. \A q \in Pid : proc'[q] \notin {"stopped", "suspended"}
    BY <1>7, <1>b DEF ListInv, Dead, CursorInv, TypeOK
  <2>3. ListInv'
    BY <1>7, <1>b, <2>1, <2>2 DEF ListInv, parentVars, counters
  <2>4. SignalInv' /\ DrainInv'
    BY <1>7, <1>b, <2>1 DEF SignalInv, DrainInv, parentVars, counters
  <2>5. QED  BY <2>3, <2>4
<1>8. ASSUME NEW p \in Pid, WorkerStops(p) \/ WorkerContinues(p) PROVE FALSE
  BY <1>8, <1>a, <1>b DEF WorkerStops, WorkerContinues, ListInv
<1>9. ASSUME NEW q \in Process, Terminate(q)
      PROVE  ListInv' /\ SignalInv' /\ DrainInv'
  <2>1. ListInv' /\ DrainInv'
    BY <1>9, <1>b DEF Terminate, ListInv, DrainInv, Children, parentVars, counters
  <2>2. \A r \in Process : shutdown[r] => shutdown'[r]
    BY <1>9, <1>b DEF Terminate, CursorInv, TypeOK
  <2>3. Live' = Live /\ list' = list /\ cursor' = cursor /\ pc' = pc
    BY <1>9 DEF Terminate, parentVars, Live
  <2>4. SignalInv'
    BY <1>b, <2>2, <2>3 DEF SignalInv, Live, Process
  <2>5. QED  BY <2>1, <2>4
<1>10. CASE UNCHANGED vars
  <2>1. Children' = Children /\ Live' = Live
    BY <1>10 DEF vars, Children, Live
  <2>2. QED
    BY <1>10, <1>b, <2>1 DEF vars, ListInv, SignalInv, DrainInv, counters
<1>11. ASSUME NEW p \in Pid,
              WorkerEnds(p, "exit0") \/ WorkerEnds(p, "exit1") \/ WorkerKilled(p)
       PROVE  ListInv' /\ SignalInv' /\ DrainInv'
  BY <1>7, <1>11 DEF WorkerEnds, WorkerKilled, Live, Dead
<1>12. QED
  BY <1>1, <1>2, <1>3, <1>4, <1>5, <1>6, <1>8, <1>9, <1>10, <1>11
     DEF Next, Supervise, Finished

LEMMA Invariance == Spec => []Inv
<1>1. Init => Inv
  BY CountAssumption, PidAssumption
     DEF Init, Inv, CursorInv, PoolInv, ListInv, SignalInv, DrainInv, TypeOK,
         ProcState, Children
<1>2. Inv /\ [Next]_vars => Inv'
  BY CursorStep, PoolStep DEF Inv
<1>3. QED
  BY <1>1, <1>2, PTL DEF Spec

\* The next fork overwrites the pid of no child: every child not yet reaped is
\* in a slot below noProcs.
THEOREM ChildrenListed == Spec => []EveryChildListed
<1>1. Inv => EveryChildListed
  BY DEF Inv, PoolInv, ListInv, EveryChildListed
<1>2. QED
  BY <1>1, Invariance, PTL

\* The parent that returns "drained" leaves no child behind, running or zombie.
THEOREM DrainedLeavesNone == Spec => []DrainedHasNoChild
<1>1. Inv => DrainedHasNoChild
  BY CountAssumption
     DEF Inv, PoolInv, ListInv, DrainInv, DrainedHasNoChild, CursorInv, TypeOK, Slot
<1>2. QED
  BY <1>1, Invariance, PTL

\* The parent that returns "signalled" has told every living worker to stop.
THEOREM ShutdownReachesAll == Spec => []SignalledReachesAll
<1>1. Inv => SignalledReachesAll
  <2> SUFFICES ASSUME Inv, ~jobControl, pc = "signalled", NEW p \in Live
               PROVE  shutdown[p]
    BY DEF SignalledReachesAll, AllSignalled
  <2>1. PICK i \in Slot : list[i] = p
    BY DEF Inv, PoolInv, ListInv, Live, Children
  <2>2. i < cursor
    BY CountAssumption DEF Inv, CursorInv, Slot
  <2>3. QED
    BY <2>1, <2>2 DEF Inv, PoolInv, SignalInv
<1>2. QED
  BY <1>1, Invariance, PTL

\* However often workers end and are forked again, there are never more of
\* them than {NoProcs}: the slots that name them map them one to one.
THEOREM PoolNeverExceeded == Spec => []PoolBounded
<1>1. Inv => PoolBounded
  <2> SUFFICES ASSUME Inv, ~jobControl PROVE Cardinality(Children) <= NoProcs
    BY DEF PoolBounded
  <2> DEFINE slotOf == [p \in Children |-> CHOOSE i \in Slot : list[i] = p]
  <2>1. \A p \in Children : slotOf[p] \in Slot /\ list[slotOf[p]] = p
    BY DEF Inv, PoolInv, ListInv
  <2>2. slotOf \in Injection(Children, Slot)
    BY <2>1 DEF Injection, IsInjective
  <2>3. IsFiniteSet(Slot) /\ Cardinality(Slot) = NoProcs
    BY FS_Interval, CountAssumption DEF Slot
  <2>4. QED
    BY <2>2, <2>3, FS_Injection
<1>2. QED
  BY <1>1, Invariance, PTL
-----------------------------------------------------------------------------
(***************************************************************************)
(* The way to the end.  StepsToEnd is a natural number, so that a parent   *)
(* that is scheduled cannot go on descending for ever.                     *)
(***************************************************************************)
LEMMA StepsAreNumbers == CursorInv => StepsToEnd \in 0 .. 2 * NoProcs + 2
BY CountAssumption DEF CursorInv, TypeOK, StepsToEnd, ToFork, PoolShort, Ended

LEMMA SuperviseDescends ==
  ASSUME CursorInv, CursorInv', shutdown[Parent], Supervise
  PROVE  StepsToEnd' < StepsToEnd
<1> USE CountAssumption DEF CursorInv, TypeOK, StepsToEnd, ToFork, PoolShort, Ended
<1>1. ASSUME NEW p \in Pid, ForkChild(p) PROVE StepsToEnd' < StepsToEnd
  BY <1>1 DEF ForkChild
<1>2. CASE ForkFails
  BY <1>2 DEF ForkFails
<1>3. CASE Detach
  BY <1>3 DEF Detach
<1>4. CASE TestShutdown
  BY <1>4 DEF TestShutdown, counters
<1>5. CASE KillSlot
  BY <1>5 DEF KillSlot
<1>6. ASSUME NEW p \in Pid, ReapChild(p) PROVE StepsToEnd' < StepsToEnd
  BY <1>6 DEF ReapChild, TurnEnds
<1>7. CASE ReapNothing
  BY <1>7 DEF ReapNothing, TurnEnds
<1>8. QED
  BY <1>1, <1>2, <1>3, <1>4, <1>5, <1>6, <1>7 DEF Supervise

LEMMA OthersLeaveParent == Next => Supervise \/ UNCHANGED parentVars
BY DEF Next, WorkerEnds, WorkerKilled, WorkerStops, WorkerContinues, Terminate,
       Finished, vars, parentVars, counters, setting

\* Once it is to shut down the parent has at most 2 * NoProcs + 2 steps left,
\* whatever the workers do meanwhile; that it takes them is fairness.
THEOREM ShutdownBounded == Spec => ShutdownDescends
<1>1. CursorInv /\ CursorInv' /\ [Next]_vars
        => (shutdown[Parent] => StepsToEnd' < StepsToEnd \/ UNCHANGED parentVars)
  BY SuperviseDescends, OthersLeaveParent DEF vars, parentVars
<1>2. Inv => CursorInv
  BY DEF Inv
<1>3. QED
  BY <1>1, <1>2, Invariance, PTL DEF Spec, ShutdownDescends
=============================================================================
