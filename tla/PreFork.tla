------------------------------ MODULE PreFork ------------------------------
(***************************************************************************)
(* The pre-fork supervisor of libs/http: HTTPServer::CreateHandlers forks  *)
(* {NoProcs} workers, polls wait3 for those that ended, forks them again   *)
(* within {RestartCount}, and on SIGUSR1 or SIGTERM passes the signal on   *)
(* to every worker its PIDList names.                                      *)
(*                                                                         *)
(* A worker is a black box here: while it runs it may end with 0, end with *)
(* a failure, be killed or be stopped at any moment.  HttpServer opens the *)
(* box and implements this specification.                                  *)
(*                                                                         *)
(* The branch for {NoProcs} <= 1, which forks nothing, is left out.        *)
(***************************************************************************)
EXTENDS Integers, FiniteSets

CONSTANTS
  Pid,          \* the process ids fork can return; a reaped one is used again
  Parent,       \* the supervisor, where a process is meant that is not in Pid
  NoPid,        \* 0 in a slot of PIDList
  Stranger,     \* what an uninitialised slot of PIDList holds, when not 0
  NoProcs,      \* {NoProcs} of the configuration file
  RestartCount  \* {RestartCount} of the configuration file

ASSUME PidAssumption == Parent \notin Pid /\ NoPid \notin Pid /\ Stranger \notin Pid
ASSUME StrangerAssumption == NoPid # Stranger
ASSUME CountAssumption == NoProcs \in Nat /\ NoProcs >= 2 /\ RestartCount \in Nat

VARIABLES
  pc,              \* where CreateHandlers is
  cursor,          \* the next slot _killChildren looks at
  list,            \* PIDList::list
  noProcs,         \* HTTPServer::noProcs, reused to count the forked workers
  childrenToOpen,  \* local childrenToOpen: the size of pool aimed at
  restartCount,    \* HTTPServer::restartCount
  waitForChildren, \* HTTPServer::waitForChildren, fixed once loaded
  shutdown,        \* the static HTTPServer::shutdown of each process
  proc,            \* the kernel's process table, for Pid
  jobControl       \* whether anyone stops and continues workers: never changes

counters == <<noProcs, childrenToOpen, restartCount>>
setting == <<waitForChildren, jobControl>>
vars == <<pc, cursor, list, counters, setting, shutdown, proc>>

Slot == 0 .. NoProcs - 1
Process == Pid \cup {Parent}

Dead == {"exit0", "exit1", "killed"}         \* zombies, with what wait3 will say
ProcState == Dead \cup {"free", "running", "stopped", "suspended"}

Live == {p \in Pid : proc[p] \in {"running", "stopped", "suspended"}}
Children == {p \in Pid : proc[p] # "free"}   \* forked and not yet reaped

\* "detached": not asked to wait; "drained": no child wanted any more;
\* "signalled": SIGUSR1 sent down PIDList.  All three return 0.
Ended == pc \in {"detached", "drained", "signalled"}

-----------------------------------------------------------------------------
\* PIDList takes its slots from new pid_t[noOf], which leaves them as they are.
Init ==
  /\ pc = "loop"
  /\ cursor = 0
  /\ list \in [Slot -> {NoPid, Stranger}]
  /\ noProcs = 0
  /\ childrenToOpen = NoProcs
  /\ restartCount = RestartCount
  /\ waitForChildren \in BOOLEAN
  /\ shutdown = [q \in Process |-> FALSE]
  /\ proc = [p \in Pid |-> "free"]
  /\ jobControl \in BOOLEAN

-----------------------------------------------------------------------------
(* The supervisor.  Forking comes before every other test of the loop.     *)

\* Mutant: one worker too many is forked.
PoolShortByOne == noProcs <= childrenToOpen

PoolShort == noProcs < childrenToOpen

\* fork: the child has the parent's memory, and so its shutdown flag.
ForkChild(p) ==
  /\ pc = "loop" /\ PoolShort
  /\ proc[p] = "free"
  /\ proc' = [proc EXCEPT ![p] = "running"]
  /\ shutdown' = [shutdown EXCEPT ![p] = shutdown[Parent]]
  /\ list' = [list EXCEPT ![noProcs] = p]
  /\ noProcs' = noProcs + 1
  /\ UNCHANGED <<pc, cursor, childrenToOpen, restartCount, setting>>

ForkFails ==
  /\ pc = "loop" /\ PoolShort
  /\ childrenToOpen' = childrenToOpen - 1
  /\ UNCHANGED <<pc, cursor, list, noProcs, restartCount, setting,
                 shutdown, proc>>

Detach ==
  /\ pc = "loop" /\ ~PoolShort
  /\ ~waitForChildren
  /\ pc' = "detached"
  /\ UNCHANGED <<cursor, list, counters, setting, shutdown, proc>>

\* The test of shutdown: a signal that comes after it waits for the next turn.
TestShutdown ==
  /\ pc = "loop" /\ ~PoolShort
  /\ waitForChildren
  /\ pc' = IF shutdown[Parent] THEN "kill" ELSE "reap"
  /\ UNCHANGED <<cursor, list, counters, setting, shutdown, proc>>

\* Mutant: the loop stops before the last slot.
KillSlotMissesLast ==
  /\ pc = "kill"
  /\ shutdown' = IF list[cursor] \in Live
                 THEN [shutdown EXCEPT ![list[cursor]] = TRUE]
                 ELSE shutdown
  /\ cursor' = cursor + 1
  /\ pc' = IF cursor + 2 >= NoProcs THEN "signalled" ELSE "kill"
  /\ UNCHANGED <<list, counters, setting, proc>>

\* Mutant: the return after _killChildren is missing.
KillSlotPollsOn ==
  /\ pc = "kill"
  /\ shutdown' = IF list[cursor] \in Live
                 THEN [shutdown EXCEPT ![list[cursor]] = TRUE]
                 ELSE shutdown
  /\ cursor' = (cursor + 1) % NoProcs
  /\ pc' = IF cursor' = 0 THEN "reap" ELSE "kill"
  /\ UNCHANGED <<list, counters, setting, proc>>

\* One turn of _killChildren: kill(list[i], SIGUSR1).
KillSlot ==
  /\ pc = "kill"
  /\ shutdown' = IF list[cursor] \in Live
                 THEN [shutdown EXCEPT ![list[cursor]] = TRUE]
                 ELSE shutdown
  /\ cursor' = cursor + 1
  /\ pc' = IF cursor + 1 = NoProcs THEN "signalled" ELSE "kill"
  /\ UNCHANGED <<list, counters, setting, proc>>

\* wait3 has something to say of p: it is a zombie, or newly stopped.
Reportable(p) == proc[p] \in Dead \cup {"stopped"}

\* WEXITSTATUS is 0 for a process a signal ended, and the number of the
\* signal for one that is merely stopped.
StatusIsZero(p) == proc[p] \in {"exit0", "killed"}

\* Mutant: the slot is cleared and the others stay where they are.
RemovedInPlace(l, p) == [i \in Slot |-> IF l[i] = p THEN NoPid ELSE l[i]]

\* The first slot with p is closed, those after it move down, the last is 0.
Removed(l, p) ==
  IF \E i \in Slot : l[i] = p
  THEN LET j == CHOOSE i \in Slot : l[i] = p /\ \A k \in 0 .. i - 1 : l[k] # p
       IN  [i \in Slot |-> IF i < j THEN l[i]
                           ELSE IF i + 1 \in Slot THEN l[i + 1] ELSE NoPid]
  ELSE l

\* What _waitForChildren does to the counters for a nonzero status ...
CountFailure ==
  /\ IF restartCount > 0 /\ noProcs > 0
     THEN noProcs' = noProcs - 1 /\ restartCount' = restartCount - 1
     ELSE UNCHANGED <<noProcs, restartCount>>
  /\ UNCHANGED childrenToOpen

\* ... and for status zero.
CountExit ==
  /\ noProcs' = IF noProcs > 0 THEN noProcs - 1 ELSE noProcs
  /\ childrenToOpen' = IF childrenToOpen > 0 THEN childrenToOpen - 1
                       ELSE childrenToOpen
  /\ UNCHANGED restartCount

\* Mutant: the parent returns one child too early.
TurnEndsEarly == pc' = IF childrenToOpen' <= 1 THEN "drained" ELSE "loop"

\* The end of a turn: with no child wanted any more the parent returns.
TurnEnds == pc' = IF childrenToOpen' = 0 THEN "drained" ELSE "loop"

ReapChild(p) ==
  /\ pc = "reap"
  /\ Reportable(p)
  /\ proc' = [proc EXCEPT ![p] = IF @ = "stopped" THEN "suspended" ELSE "free"]
  /\ list' = Removed(list, p)
  /\ IF StatusIsZero(p) THEN CountExit ELSE CountFailure
  /\ TurnEnds
  /\ UNCHANGED <<cursor, setting, shutdown>>

\* Mutant: wait3 < 0 for <= 0, so that "nothing" counts as a worker that failed.
ReapNothingCounts ==
  /\ pc = "reap"
  /\ \A p \in Pid : ~Reportable(p)
  /\ CountFailure
  /\ TurnEnds
  /\ UNCHANGED <<cursor, list, setting, shutdown, proc>>

\* wait3 found nothing: sleep, and allow the restarts of a new burst.
ReapNothing ==
  /\ pc = "reap"
  /\ \A p \in Pid : ~Reportable(p)
  /\ restartCount' = IF childrenToOpen = 0 THEN restartCount ELSE RestartCount
  /\ UNCHANGED <<noProcs, childrenToOpen>>
  /\ TurnEnds
  /\ UNCHANGED <<cursor, list, setting, shutdown, proc>>

Supervise ==
  \/ \E p \in Pid : ForkChild(p)
  \/ ForkFails
  \/ Detach
  \/ TestShutdown
  \/ KillSlot
  \/ \E p \in Pid : ReapChild(p)
  \/ ReapNothing

-----------------------------------------------------------------------------
(* The workers and the operator.                                           *)

parentVars == <<pc, cursor, list, counters, setting>>

WorkerEnds(p, how) ==
  /\ proc[p] = "running"
  /\ proc' = [proc EXCEPT ![p] = how]
  /\ UNCHANGED <<parentVars, shutdown>>

WorkerKilled(p) ==
  /\ p \in Live
  /\ proc' = [proc EXCEPT ![p] = "killed"]
  /\ UNCHANGED <<parentVars, shutdown>>

WorkerStops(p) ==
  /\ jobControl
  /\ proc[p] = "running"
  /\ proc' = [proc EXCEPT ![p] = "stopped"]
  /\ UNCHANGED <<parentVars, shutdown>>

WorkerContinues(p) ==
  /\ proc[p] \in {"stopped", "suspended"}
  /\ proc' = [proc EXCEPT ![p] = "running"]
  /\ UNCHANGED <<parentVars, shutdown>>

\* SIGTERM or SIGUSR1 from outside; ShutdownHandler sets the flag.
Terminate(q) ==
  /\ IF q = Parent THEN ~Ended ELSE q \in Live
  /\ ~shutdown[q]
  /\ shutdown' = [shutdown EXCEPT ![q] = TRUE]
  /\ UNCHANGED <<parentVars, proc>>

\* The parent has returned and so has every worker.
Finished == Ended /\ Live = {} /\ UNCHANGED vars

Next ==
  \/ Supervise
  \/ \E p \in Pid :
       \/ WorkerEnds(p, "exit0")
       \/ WorkerEnds(p, "exit1")
       \/ WorkerKilled(p)
       \/ WorkerStops(p)
       \/ WorkerContinues(p)
  \/ \E q \in Process : Terminate(q)
  \/ Finished

Spec == Init /\ [][Next]_vars

\* The kernel keeps scheduling the parent; workers and operator owe nothing.
FairSpec == Spec /\ WF_vars(Supervise)

-----------------------------------------------------------------------------
TypeOK ==
  /\ pc \in {"loop", "reap", "kill", "detached", "drained", "signalled"}
  /\ cursor \in 0 .. NoProcs
  /\ list \in [Slot -> Pid \cup {NoPid, Stranger}]
  /\ noProcs \in 0 .. NoProcs
  /\ childrenToOpen \in 0 .. NoProcs
  /\ restartCount \in 0 .. RestartCount
  /\ waitForChildren \in BOOLEAN
  /\ jobControl \in BOOLEAN
  /\ shutdown \in [Process -> BOOLEAN]
  /\ proc \in [Pid -> ProcState]

\* As long as nobody stops a worker, the parent knows every child it has:
\* each is named in a slot below noProcs, so that the next fork, which writes
\* slot noProcs, overwrites none of them.
EveryChildListed ==
  ~jobControl => \A p \in Children : \E i \in Slot : i < noProcs /\ list[i] = p

\* Reaping and forking again never runs more workers than {NoProcs}.
PoolBounded == ~jobControl => Cardinality(Children) <= NoProcs

\* "No need to handle children amymore": when the parent returns because
\* childrenToOpen is 0, no child is running and none is left as a zombie.
DrainedHasNoChild == ~jobControl /\ pc = "drained" => Children = {}

\* "Required to kill child processes": once the parent has sent SIGUSR1 down
\* its list and returned, every worker still alive has its shutdown flag set,
\* those forked after the signal came included.
AllSignalled == pc = "signalled" => \A p \in Live : shutdown[p]
SignalledReachesAll == ~jobControl => AllSignalled

\* A parent asked to shut down gets to its end, whatever the workers do.
ShutdownEnds == shutdown[Parent] ~> Ended

\* A bound on the steps the supervisor still takes once it is to shut down.
ToFork == IF PoolShort THEN childrenToOpen - noProcs ELSE 0
StepsToEnd ==
  CASE pc = "reap" -> 2 * NoProcs + 2
    [] pc = "loop" -> NoProcs + 1 + ToFork
    [] pc = "kill" -> NoProcs - cursor
    [] Ended       -> 0

\* What makes ShutdownEnds true: after the signal each of the parent's steps,
\* the forks it still owes included, brings it nearer to its end, and no step
\* of a worker or of the operator takes it back.  It polls once more at most.
ShutdownDescends ==
  [][shutdown[Parent] => StepsToEnd' < StepsToEnd \/ UNCHANGED parentVars]_vars

\* "terminating parent": a parent that waits for its children and is left
\* without any does not go on without any for ever.
ChildlessParentEnds ==
  (waitForChildren /\ Children = {}) ~> (Children # {} \/ Ended)
=============================================================================
