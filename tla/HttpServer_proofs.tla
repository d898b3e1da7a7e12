-------------------------- MODULE HttpServer_proofs --------------------------
(***************************************************************************)
(* Proofs about the workers, for every set of processes and clients, and   *)
(* any number of faults.                                                   *)
(***************************************************************************)
EXTENDS HttpServer, PreFork_proofs

\* The server implements PreFork: its workers, which run WaitForCall and share
\* the semaphore, do to the supervisor only what the black boxes of PreFork may
\* do, and so all that is proved of PreFork holds of the whole server.
THEOREM Implementation == HSpec => Spec
<1>1. HInit => Init
  BY DEF HInit
<1>2. [HNext]_hvars => [Next]_vars
  <2> SUFFICES ASSUME HNext PROVE Next \/ UNCHANGED vars
    BY DEF hvars
  <2>1. CASE HSupervise
    BY <2>1 DEF HSupervise, Next, Supervise
  <2>2. ASSUME NEW p \in Pid, Work(p) PROVE Next \/ UNCHANGED vars
    BY <2>2 DEF Work, StartUp, CheckShutdown, Lock, NoConnection, Connection,
                Accept, Serve, Leaves, Next
  <2>3. ASSUME NEW p \in Pid, WorkFails(p) PROVE Next \/ UNCHANGED vars
    BY <2>3 DEF WorkFails, StartUpThrows, LockFails, AcceptRefused,
                AcceptThrows, ServeThrows, Hang, Crash, Leaves, Next
  <2>4. CASE (\E q \in Process : HTerminate(q)) \/ HFinished
    BY <2>4 DEF HTerminate, HFinished, hvars, Next
  <2>5. CASE \E c \in Client : Connect(c)
    BY <2>5 DEF Connect
  <2>6. QED
    BY <2>1, <2>2, <2>3, <2>4, <2>5 DEF HNext
<1>3. QED
  BY <1>1, <1>2, PTL DEF HSpec, Spec

-----------------------------------------------------------------------------
(***************************************************************************)
(* The semaphore.  Its owner is exactly the worker between Lock and the    *)
(* end of the scope of its Mutex, so that nobody shortens the backlog      *)
(* between that worker's WaitConnect and its Open.                         *)
(***************************************************************************)
Holding(p) == at[p] \in {"wait", "open"}

WorkerTypes ==
  /\ ~jobControl
  /\ at \in [Pid -> Place]
  /\ owner \in Pid \cup {NoPid}
  /\ backlog \in Seq(Client)
  /\ faults \in 0 .. MaxFaults

LockInv ==
  /\ \A p \in Pid : at[p] = "gone" <=> proc[p] # "running"
  /\ \A p \in Pid : Holding(p) <=> owner = p
  /\ \A p \in Pid : at[p] = "open" => backlog # <<>>

WorkerInv == WorkerTypes /\ LockInv

LEMMA AwayFromMutex ==
  ASSUME WorkerInv, proc' = proc, owner' = owner, backlog' = backlog,
         UNCHANGED <<jobControl, faults>>,
         NEW p \in Pid, NEW here \in {"start", "loop", "serve"},
         NEW there \in {"loop", "mutex"}, Moves(p, here, there)
  PROVE  WorkerInv'
BY DEF WorkerInv, WorkerTypes, LockInv, Holding, Moves, Place

\* A worker's end, from any place and with any status, frees the semaphore.
LEMMA EndFreesMutex ==
  ASSUME TypeOK, WorkerInv, NEW p \in Pid, NEW how \in Dead,
         proc' = [proc EXCEPT ![p] = how], at' = [at EXCEPT ![p] = "gone"],
         Unlock(p), UNCHANGED <<jobControl, backlog>>,
         UNCHANGED faults \/ Fault
  PROVE  WorkerInv'
<1>1. WorkerTypes'
  BY MaxFaultsAssumption DEF WorkerInv, WorkerTypes, Unlock, Fault, Place
<1>2. LockInv'
  BY PidAssumption
     DEF WorkerInv, WorkerTypes, LockInv, Holding, Unlock, TypeOK, Dead
<1>3. QED  BY <1>1, <1>2 DEF WorkerInv

LEMMA WorkerStep == TypeOK /\ WorkerInv /\ [HNext]_hvars => WorkerInv'
<1> SUFFICES ASSUME TypeOK, WorkerInv, [HNext]_hvars PROVE WorkerInv'
  OBVIOUS
<1> USE MaxFaultsAssumption, PidAssumption
<1>1. ASSUME NEW p \in Pid, ForkChild(p), at' = [at EXCEPT ![p] = "start"],
             UNCHANGED <<owner, backlog, faults>>
      PROVE  WorkerInv'
  BY <1>1 DEF ForkChild, WorkerInv, WorkerTypes, LockInv, Holding, TypeOK, Place, setting
<1>2. ASSUME ForkFails \/ Detach \/ TestShutdown \/ KillSlot \/ ReapNothing,
             UNCHANGED faults \/ Fault, UNCHANGED <<at, owner, backlog>>
      PROVE  WorkerInv'
  <2>1. proc' = proc /\ jobControl' = jobControl
    BY <1>2 DEF ForkFails, Detach, TestShutdown, KillSlot, ReapNothing, setting
  <2>2. QED
    BY <1>2, <2>1 DEF Fault, WorkerInv, WorkerTypes, LockInv, Holding
<1>3. ASSUME NEW p \in Pid, ReapChild(p), UNCHANGED workerVars PROVE WorkerInv'
  <2>1. jobControl' = jobControl /\ \A q \in Pid : proc[q] = "running" <=> proc'[q] = "running"
    BY <1>3 DEF ReapChild, Reportable, Dead, TypeOK, setting
  <2>2. QED
    BY <1>3, <2>1 DEF workerVars, WorkerInv, WorkerTypes, LockInv, Holding
<1>4. ASSUME NEW p \in Pid, Work(p) PROVE WorkerInv'
  <2>1. CASE StartUp(p) \/ Serve(p)
    BY <2>1, AwayFromMutex DEF StartUp, Serve, vars, setting
  <2>2. CASE CheckShutdown(p)
    <3>1. CASE shutdown[p]
      BY <2>2, <3>1, EndFreesMutex
         DEF CheckShutdown, Leaves, Moves, WorkerEnds, parentVars, setting, Dead
    <3>2. CASE ~shutdown[p]
      BY <2>2, <3>2, AwayFromMutex DEF CheckShutdown, vars, setting
    <3>3. QED  BY <3>1, <3>2
  <2>3. CASE Lock(p)
    BY <2>3 DEF Lock, Moves, WorkerInv, WorkerTypes, LockInv, Holding, Place, vars, setting
  <2>4. CASE NoConnection(p)
    <3>1. CASE shutdown[p]
      BY <2>4, <3>1, EndFreesMutex
         DEF NoConnection, Leaves, Moves, WorkerEnds, parentVars, setting, Dead
    <3>2. CASE ~shutdown[p]
      BY <2>4, <3>2 DEF NoConnection, Moves, Unlock, WorkerInv, WorkerTypes,
                        LockInv, Holding, Place, vars, setting
    <3>3. QED  BY <3>1, <3>2
  <2>5. CASE Connection(p)
    BY <2>5 DEF Connection, Moves, WorkerInv, WorkerTypes, LockInv, Holding,
                Place, vars, setting
  <2>6. CASE Accept(p)
    BY <2>6 DEF Accept, Moves, Unlock, WorkerInv, WorkerTypes, LockInv, Holding,
                Place, vars, setting
  <2>7. QED
    BY <1>4, <2>1, <2>2, <2>3, <2>4, <2>5, <2>6 DEF Work
<1>5. ASSUME NEW p \in Pid, WorkFails(p) PROVE WorkerInv'
  <2>1. CASE AcceptRefused(p)
    BY <2>1 DEF AcceptRefused, Moves, Unlock, Fault, WorkerInv, WorkerTypes,
                LockInv, Holding, Place, vars, setting
  <2>2. CASE StartUpThrows(p) \/ LockFails(p) \/ AcceptThrows(p) \/ ServeThrows(p)
    BY <2>2, EndFreesMutex
       DEF StartUpThrows, LockFails, AcceptThrows, ServeThrows, Leaves, Moves,
           WorkerEnds, parentVars, setting, Dead
  <2>3. CASE Crash(p)
    BY <2>3, EndFreesMutex DEF Crash, WorkerKilled, parentVars, setting, Dead
  <2>4. CASE Hang(p)
    BY <2>4 DEF Hang, Moves, Fault, WorkerInv, WorkerTypes, LockInv, Holding, Place,
                vars, setting
  <2>5. QED
    BY <1>5, <2>1, <2>2, <2>3, <2>4 DEF WorkFails
<1>6. ASSUME NEW q \in Process, HTerminate(q) PROVE WorkerInv'
  BY <1>6 DEF HTerminate, Terminate, workerVars, WorkerInv, WorkerTypes, LockInv,
              Holding, parentVars, setting
<1>7. ASSUME NEW c \in Client, Connect(c) PROVE WorkerInv'
  <2>1. backlog' \in Seq(Client) /\ backlog' # <<>>
    BY <1>7 DEF Connect, WorkerInv, WorkerTypes
  <2>2. QED
    BY <1>7, <2>1 DEF Connect, WorkerInv, WorkerTypes, LockInv, Holding, vars, setting
<1>8. CASE UNCHANGED hvars
  BY <1>8 DEF hvars, vars, workerVars, setting, WorkerInv, WorkerTypes, LockInv, Holding
<1>9. QED
  BY <1>1, <1>2, <1>3, <1>4, <1>5, <1>6, <1>7, <1>8
     DEF HNext, HSupervise, workerVars, HFinished, hvars

LEMMA WorkerInvariance == HSpec => [](TypeOK /\ WorkerInv)
<1>1. HInit => WorkerInv
  BY PidAssumption, MaxFaultsAssumption
     DEF HInit, Init, WorkerInv, WorkerTypes, LockInv, Holding, Place
<1>2. QED
  BY <1>1, WorkerStep, Implementation, TypeCorrect, PTL DEF HSpec

\* Every variable of the server keeps its type.
THEOREM ServerTypeCorrect == HSpec => []HTypeOK
<1>1. TypeOK /\ WorkerInv => HTypeOK
  BY DEF WorkerInv, WorkerTypes, HTypeOK
<1>2. QED
  BY <1>1, WorkerInvariance, PTL

\* From WaitConnect to Open the backlog is the semaphore owner's alone: Open
\* never blocks.
THEOREM OpenNeverBlocks == HSpec => []OpenFindsConnection
<1>1. WorkerInv => OpenFindsConnection
  BY DEF WorkerInv, LockInv, OpenFindsConnection
<1>2. QED
  BY <1>1, WorkerInvariance, PTL

\* Only the owner of the semaphore waits for connections and accepts, and no
\* worker that has ended, for whatever reason, still owns it.
THEOREM MutexReleased == HSpec => []OwnerIsWaiting
<1>1. WorkerInv => OwnerIsWaiting
  BY DEF WorkerInv, WorkerTypes, LockInv, Holding, OwnerIsWaiting
<1>2. QED
  BY <1>1, WorkerInvariance, PTL
-----------------------------------------------------------------------------
(***************************************************************************)
(* A worker winds down.  What is needed of the supervisor is PreFork's     *)
(* invariant, that every worker alive was signalled; what is needed of the *)
(* worker is that it tests shutdown at the top of its loop, whatever it    *)
(* did before.                                                             *)
(***************************************************************************)
WindsDown(p) == at'[p] # at[p] => StepsLeft[at'[p]] < StepsLeft[at[p]]

LEMMA MovesOne ==
  ASSUME WorkerInv, NEW p \in Pid, NEW q \in Pid, NEW here, NEW there \in Place,
         Moves(p, here, there), StepsLeft[there] < StepsLeft[here]
  PROVE  WindsDown(q)
BY DEF Moves, WindsDown, WorkerInv, WorkerTypes

LEMMA WorkWindsDown ==
  ASSUME WorkerInv, NEW p \in Pid, NEW q \in Pid,
         proc[p] = "running" => shutdown[p], Work(p)
  PROVE  WindsDown(q)
<1> USE MovesOne DEF Leaves, StepsLeft, Place
<1>1. CASE StartUp(p)
  BY <1>1 DEF StartUp
<1>2. CASE CheckShutdown(p)
  BY <1>2 DEF CheckShutdown, Moves
<1>3. CASE Lock(p)
  BY <1>3 DEF Lock
<1>4. CASE NoConnection(p)
  BY <1>4 DEF NoConnection
<1>5. CASE Connection(p)
  BY <1>5 DEF Connection
<1>6. CASE Accept(p)
  BY <1>6 DEF Accept
<1>7. CASE Serve(p)
  BY <1>7 DEF Serve
<1>8. QED
  BY <1>1, <1>2, <1>3, <1>4, <1>5, <1>6, <1>7 DEF Work

LEMMA FailureWindsDown ==
  ASSUME WorkerInv, NEW p \in Pid, NEW q \in Pid, WorkFails(p)
  PROVE  WindsDown(q)
<1>1. CASE StartUpThrows(p) \/ LockFails(p) \/ AcceptThrows(p) \/ ServeThrows(p)
  BY <1>1, MovesOne
     DEF StartUpThrows, LockFails, AcceptThrows, ServeThrows, Leaves, StepsLeft, Place
<1>2. CASE AcceptRefused(p)
  BY <1>2, MovesOne DEF AcceptRefused, StepsLeft, Place
<1>3. CASE Crash(p)
  BY <1>3 DEF Crash, WindsDown, StepsLeft, WorkerInv, WorkerTypes, Place
<1>4. CASE Hang(p)
  BY <1>4, MovesOne DEF Hang, StepsLeft, Place
<1>5. QED
  BY <1>1, <1>2, <1>3, <1>4 DEF WorkFails

\* After the parent has returned "signalled" every worker has at most five steps
\* and one connection left, for any pool and any backlog of clients.
THEOREM WorkersWindDown == HSpec => SignalledWindsDown
<1> DEFINE AllDown == pc = "signalled" => \A q \in Pid : WindsDown(q)
<1>1. WorkerInv /\ SignalledReachesAll /\ [HNext]_hvars => AllDown
  <2> SUFFICES ASSUME WorkerInv, SignalledReachesAll, [HNext]_hvars,
                      pc = "signalled", NEW q \in Pid
               PROVE  WindsDown(q)
    OBVIOUS
  <2>1. \A p \in Pid : proc[p] = "running" => shutdown[p]
    BY DEF SignalledReachesAll, AllSignalled, Live, WorkerInv, WorkerTypes
  <2>2. CASE HSupervise
    BY <2>2 DEF HSupervise, ForkChild, WindsDown
  <2>3. ASSUME NEW p \in Pid, Work(p) \/ WorkFails(p) PROVE WindsDown(q)
    BY <2>1, <2>3, WorkWindsDown, FailureWindsDown
  <2>4. CASE UNCHANGED at
    BY <2>4 DEF WindsDown
  <2>5. QED
    BY <2>2, <2>3, <2>4 DEF HNext, HTerminate, HFinished, Connect, workerVars, hvars
<1>2. HSpec => []SignalledReachesAll
  BY Implementation, ShutdownReachesAll
<1>3. AllDown <=> (pc = "signalled" =>
        \A p \in Pid : at'[p] # at[p] => StepsLeft[at'[p]] < StepsLeft[at[p]])
  BY DEF WindsDown
<1>4. QED
  BY <1>1, <1>2, <1>3, WorkerInvariance, PTL DEF HSpec, SignalledWindsDown
=============================================================================
