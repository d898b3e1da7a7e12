---------------------------- MODULE HttpServer ----------------------------
(***************************************************************************)
(* The workers of libs/http under the supervisor of PreFork: each runs     *)
(* ServiceStart and HTTPServer::WaitForCall, where one worker at a time,   *)
(* the holder of a semaphore shared by all of them, waits for a connection *)
(* and accepts it, and then serves it without the semaphore.               *)
(*                                                                         *)
(* Clients, the kernel's queue of connections, tCBSockServer and Mutex are *)
(* not in the repository: they are modelled as WaitForCall uses them.      *)
(* Nobody stops a worker here (PreFork covers that).                       *)
(***************************************************************************)
EXTENDS PreFork, Sequences, SequencesExt

CONSTANTS
  Client,    \* each is the sender of at most one connection not yet accepted
  MaxFaults  \* bound: how many things go wrong in one behaviour

ASSUME MaxFaultsAssumption == MaxFaults \in Nat

VARIABLES
  at,       \* where each worker is in ServiceStart and WaitForCall
  owner,    \* who holds the semaphore, or NoPid
  backlog,  \* connections no worker has accepted yet
  faults    \* how many faults there have been

workerVars == <<at, owner, backlog, faults>>
hvars == <<vars, workerVars>>

Place == {"start", "loop", "mutex", "wait", "open", "serve", "stuck", "gone"}

HInit ==
  /\ Init /\ ~jobControl
  /\ at = [p \in Pid |-> "gone"]
  /\ owner = NoPid
  /\ backlog = <<>>
  /\ faults = 0

-----------------------------------------------------------------------------
Moves(p, here, there) ==
  /\ proc[p] = "running" /\ at[p] = here
  /\ at' = [at EXCEPT ![p] = there]

\* The Mutex object of WaitForCall goes out of scope.
Unlock(p) == owner' = IF owner = p THEN NoPid ELSE owner

\* Mutant: a return or a throw leaves the semaphore taken.
LeavesLocked(p, here, how) ==
  /\ Moves(p, here, "gone")
  /\ WorkerEnds(p, how)
  /\ UNCHANGED owner

\* WaitForCall returns (exit0) or throws (exit1), and main with it.
Leaves(p, here, how) ==
  /\ Moves(p, here, "gone")
  /\ WorkerEnds(p, how)
  /\ Unlock(p)

Fault == faults < MaxFaults /\ faults' = faults + 1

-----------------------------------------------------------------------------
(* ServiceStart: log on to the database, then WaitForCall.                 *)

StartUp(p) ==
  /\ Moves(p, "start", "loop")
  /\ UNCHANGED <<vars, owner, backlog, faults>>

StartUpThrows(p) ==
  /\ Leaves(p, "start", "exit1") /\ Fault
  /\ UNCHANGED backlog

\* Mutant: the test is missing.
CheckShutdownMissing(p) ==
  /\ Moves(p, "loop", "mutex")
  /\ UNCHANGED <<vars, owner, backlog, faults>>

\* The test of shutdown at the top of either loop of WaitForCall.
CheckShutdown(p) ==
  /\ IF shutdown[p]
     THEN Leaves(p, "loop", "exit0")
     ELSE Moves(p, "loop", "mutex") /\ UNCHANGED <<vars, owner>>
  /\ UNCHANGED <<backlog, faults>>

\* Mutant: no semaphore around WaitConnect and Open.
LockIsOpen(p) ==
  /\ Moves(p, "mutex", "wait")
  /\ owner' = p
  /\ UNCHANGED <<vars, backlog, faults>>

Lock(p) ==
  /\ Moves(p, "mutex", "wait")
  /\ owner = NoPid /\ owner' = p
  /\ UNCHANGED <<vars, backlog, faults>>

\* wait.failed, as when a signal interrupts the wait.
LockFails(p) ==
  /\ Leaves(p, "mutex", "exit0") /\ Fault
  /\ UNCHANGED backlog

\* WaitConnect times out or is interrupted: 0.
NoConnection(p) ==
  /\ backlog = <<>>
  /\ IF shutdown[p]
     THEN Leaves(p, "wait", "exit0")
     ELSE Moves(p, "wait", "loop") /\ Unlock(p) /\ UNCHANGED vars
  /\ UNCHANGED <<backlog, faults>>

Connection(p) ==
  /\ Moves(p, "wait", "open")
  /\ backlog # <<>>
  /\ UNCHANGED <<vars, owner, backlog, faults>>

\* Mutant: the semaphore is kept while the connection is served.
AcceptLocked(p) ==
  /\ Moves(p, "open", "serve")
  /\ backlog # <<>> /\ backlog' = Tail(backlog)
  /\ UNCHANGED <<vars, owner, faults>>

\* sockServer->Open() and the break that ends the scope of the Mutex.
Accept(p) ==
  /\ Moves(p, "open", "serve")
  /\ backlog # <<>> /\ backlog' = Tail(backlog)
  /\ Unlock(p)
  /\ UNCHANGED <<vars, faults>>

\* "SockSocket error 76": the connection is gone; try for another.
AcceptRefused(p) ==
  /\ Moves(p, "open", "loop")
  /\ backlog # <<>> /\ backlog' = Tail(backlog)
  /\ Unlock(p) /\ Fault
  /\ UNCHANGED vars

\* Any other xSockErr leaves WaitForCall.
AcceptThrows(p) ==
  /\ Leaves(p, "open", "exit1") /\ Fault
  /\ UNCHANGED backlog

\* Read the request, serve it, answer, Close.
Serve(p) ==
  /\ Moves(p, "serve", "loop")
  /\ UNCHANGED <<vars, owner, backlog, faults>>

\* The client closed before all of its body came: the loop that reads the rest
\* of it asks the closed socket for ever.  It tests no signal: only what kills
\* the process ends it.
Hang(p) ==
  /\ Moves(p, "serve", "stuck") /\ Fault
  /\ UNCHANGED <<vars, owner, backlog>>

\* writeError400 throws inside a handler.
ServeThrows(p) ==
  /\ Leaves(p, "serve", "exit1") /\ Fault
  /\ UNCHANGED backlog

\* The kernel undoes the semaphore of a process that dies holding it.
Crash(p) ==
  /\ WorkerKilled(p) /\ Fault
  /\ at' = [at EXCEPT ![p] = "gone"]
  /\ Unlock(p)
  /\ UNCHANGED backlog

-----------------------------------------------------------------------------
(* The supervisor's steps, and the world's.                                *)

HSupervise ==
  \/ \E p \in Pid : /\ ForkChild(p)
                    /\ at' = [at EXCEPT ![p] = "start"]
                    /\ UNCHANGED <<owner, backlog, faults>>
  \/ /\ \/ ForkFails /\ Fault
        \/ (Detach \/ TestShutdown \/ KillSlot \/ ReapNothing) /\ UNCHANGED faults
        \/ (\E p \in Pid : ReapChild(p)) /\ UNCHANGED faults
     /\ UNCHANGED <<at, owner, backlog>>

\* The listening socket is open in the parent and in every worker.
Connect(c) ==
  /\ ~Ended \/ Live # {}
  /\ c \notin ToSet(backlog)
  /\ backlog' = Append(backlog, c)
  /\ UNCHANGED <<vars, at, owner, faults>>

\* The workers still alive all hang in a call.
OnlyStuck == \A p \in Live : at[p] = "stuck"

\* The parent has returned, and nobody it left behind will ever move again.
HFinished == Ended /\ OnlyStuck /\ UNCHANGED hvars

HTerminate(q) == Terminate(q) /\ UNCHANGED workerVars

Work(p) ==
  \/ StartUp(p) \/ CheckShutdown(p) \/ Lock(p) \/ NoConnection(p)
  \/ Connection(p) \/ Accept(p) \/ Serve(p)

WorkFails(p) ==
  \/ StartUpThrows(p) \/ LockFails(p) \/ AcceptRefused(p) \/ AcceptThrows(p)
  \/ ServeThrows(p) \/ Hang(p) \/ Crash(p)

HNext ==
  \/ HSupervise
  \/ \E p \in Pid : Work(p) \/ WorkFails(p)
  \/ \E q \in Process : HTerminate(q)
  \/ \E c \in Client : Connect(c)
  \/ HFinished

HSpec == HInit /\ [][HNext]_hvars

\* The kernel schedules every process and WaitConnect has its timeout.  A call is
\* not assumed to come back: it does, or it fails, or it hangs, and a worker that
\* hangs has no step of Work left.
HFairSpec ==
  HSpec /\ WF_hvars(HSupervise) /\ \A p \in Pid : WF_hvars(Work(p))

-----------------------------------------------------------------------------
HTypeOK ==
  /\ TypeOK /\ ~jobControl
  /\ at \in [Pid -> Place]
  /\ owner \in Pid \cup {NoPid}
  /\ backlog \in Seq(Client)
  /\ faults \in 0 .. MaxFaults

\* "ERROR 76 poss requires a semaphore": from WaitConnect's answer to Open no
\* other worker takes the connection, so that Open finds one and never blocks
\* a worker that holds the semaphore.
OpenFindsConnection == \A p \in Pid : at[p] = "open" => backlog # <<>>

\* The semaphore belongs to whoever is between its Mutex and the end of its
\* scope: one worker at a time waits on the socket, and none that ended, however
\* it ended, keeps the semaphore.
OwnerIsWaiting ==
  /\ \A p \in Pid : at[p] \in {"wait", "open"} <=> owner = p
  /\ owner # NoPid => proc[owner] = "running"

\* When the parent waits for its children, a shutdown ends all processes, but for
\* the workers that hang in a call (httprequest.cpp:143) and the parent that waits
\* for them: whatever else a worker was doing, it sees the signal and ends.
ShutdownDrains ==
  shutdown[Parent] /\ waitForChildren ~> OnlyStuck /\ (Live = {} => Ended)

\* How many more steps a worker takes from each place to its end, at most.
StepsLeft ==
  [gone |-> 0, loop |-> 1, stuck |-> 1, serve |-> 2, start |-> 2, open |-> 3,
   wait |-> 4, mutex |-> 5]

\* What makes ShutdownDrains true: once the parent has passed the signal on and
\* returned, no worker begins another round of its loop.  It may take the one
\* connection it was waiting for and serve it, or hang in it, and every step it
\* takes brings it nearer to its end; nothing is forked any more.
SignalledWindsDown ==
  [][pc = "signalled" =>
       \A p \in Pid : at'[p] # at[p] => StepsLeft[at'[p]] < StepsLeft[at[p]]]_hvars

\* Every connection is accepted, unless the server loses all its workers, to
\* their ends or to calls that hang: one that does neither is enough.
ConnectionAccepted ==
  \/ \A c \in Client : c \in ToSet(backlog) ~> c \notin ToSet(backlog)
  \/ <>[]OnlyStuck
=============================================================================
