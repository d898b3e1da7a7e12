------------------------------ MODULE Notifier ------------------------------
(***************************************************************************)
(* The monitor that hands requests from the listener to the worker         *)
(* threads of the BINU server: Notifier.java, and Channel.java, the same   *)
(* class in the Crackle run time.  get and put are synchronized: what a    *)
(* thread does between taking the lock and giving it up, in wait or at the *)
(* end, is one step here.  Getters and putters wait in the one wait set    *)
(* an object has.                                                          *)
(***************************************************************************)
EXTENDS Sequences

CONSTANTS
  Thread,  \* the threads that share the notifier
  Parcel,  \* what is put; the null parcel of Server.listener is one of them
  None     \* null in the parcel field, and the result of no call yet

ASSUME NoneAssumption == None \notin Parcel

VARIABLES
  parcel,   \* Notifier.parcel
  message,  \* Notifier.message
  call,     \* what each thread is calling: "get", or the parcel it puts
  where,    \* where in that call the thread is
  result    \* what each thread's last get returned

vars == <<parcel, message, call, where, result>>

\* "away": in no call; "entering": at the lock; "waiting": in the wait set.
Where == {"away", "entering", "waiting"}
Get == [op |-> "get"]
PutOf(p) == [op |-> "put", parcel |-> p]
Call == {Get} \cup {PutOf(p) : p \in Parcel}

Init ==
  /\ parcel = None
  /\ message = FALSE
  /\ call = [t \in Thread |-> Get]
  /\ where = [t \in Thread |-> "away"]
  /\ result = [t \in Thread |-> None]

\* Whether the while loop of t's call keeps it waiting.
MustWait(t) == (call[t] = Get) # message

\* A thread calls get or put and comes to the lock.
Invoke(t) ==
  /\ where[t] = "away"
  /\ \E c \in Call : call' = [call EXCEPT ![t] = c]
  /\ where' = [where EXCEPT ![t] = "entering"]
  /\ UNCHANGED <<parcel, message, result>>

\* wait(): the loop's condition holds, the lock is given up.
Wait(t) ==
  /\ where[t] = "entering"
  /\ MustWait(t)
  /\ where' = [where EXCEPT ![t] = "waiting"]
  /\ UNCHANGED <<parcel, message, call, result>>

\* Mutant: notify() wakes one waiting thread, of the JVM's choice.
LeaveNotifyingOne(t) ==
  IF \E u \in Thread : where[u] = "waiting"
    THEN \E u \in {v \in Thread : where[v] = "waiting"} :
           where' = [where EXCEPT ![t] = "away", ![u] = "entering"]
    ELSE where' = [where EXCEPT ![t] = "away"]

\* Mutant: nobody is notified.
LeaveSilently(t) == where' = [where EXCEPT ![t] = "away"]

\* notifyAll() and the end of the call: all who waited contend for the lock.
Leave(t) ==
  where' = [u \in Thread |-> CASE u = t -> "away"
                               [] where[u] = "waiting" -> "entering"
                               [] OTHER -> where[u]]

\* Mutant: an if where the loop is: a thread that woke up goes on regardless.
WakenAndTake(t) ==
  /\ where[t] = "entering"
  /\ call[t] = Get
  /\ message' = FALSE
  /\ result' = [result EXCEPT ![t] = parcel]
  /\ Leave(t)
  /\ UNCHANGED <<parcel, call>>

\* get: the field keeps its value; only message says that it was taken.
Take(t) ==
  /\ where[t] = "entering"
  /\ call[t] = Get
  /\ ~MustWait(t)
  /\ message' = FALSE
  /\ result' = [result EXCEPT ![t] = parcel]
  /\ Leave(t)
  /\ UNCHANGED <<parcel, call>>

\* Mutant: parcel = parcel, without the this., assigns the parameter to itself.
PutShadowed(t) ==
  /\ where[t] = "entering"
  /\ call[t] # Get
  /\ ~MustWait(t)
  /\ message' = TRUE
  /\ Leave(t)
  /\ UNCHANGED <<parcel, call, result>>

Put(t) ==
  /\ where[t] = "entering"
  /\ call[t] # Get
  /\ ~MustWait(t)
  /\ parcel' = call[t].parcel
  /\ message' = TRUE
  /\ Leave(t)
  /\ UNCHANGED <<call, result>>

\* wait() may return unasked, or throw: both loops catch, and test again.
WakeUnasked(t) ==
  /\ where[t] = "waiting"
  /\ where' = [where EXCEPT ![t] = "entering"]
  /\ UNCHANGED <<parcel, message, call, result>>

Next ==
  \E t \in Thread : \/ Invoke(t) \/ WakeUnasked(t)
                    \/ Wait(t) \/ Take(t) \/ Put(t)

Spec == Init /\ [][Next]_vars

\* A thread at the lock gets it in the end: no section holds it for ever.
\* No thread has to call, and no wait has to end unasked.
FairSpec == Spec /\ \A t \in Thread : WF_vars(Wait(t) \/ Take(t) \/ Put(t))

-----------------------------------------------------------------------------
(* Properties.                                                             *)

\* Notifier.java:5-6: the fields, and the calls that are under way.
TypeOK ==
  /\ parcel \in Parcel \cup {None}
  /\ message \in BOOLEAN
  /\ call \in [Thread -> Call]
  /\ where \in [Thread -> Where]
  /\ result \in [Thread -> Parcel \cup {None}]
  /\ message => parcel \in Parcel

\* No wake-up is lost: nobody stays in the wait set, which getters and
\* putters share, once its condition has come true (Notifier.java:20, 37).
NoLostWakeup == \A t \in Thread : where[t] = "waiting" => MustWait(t)

\* Whoever the lock goes to, a parcel is taken once, by one get, and no put
\* overwrites a parcel that was not taken.
Abstract == INSTANCE OnePlace
  WITH place <- IF message THEN <<parcel>> ELSE <<>>
ImplementsOnePlace == Abstract!Spec

Inside(t) == where[t] # "away"

\* The notifier never jams: with a parcel there and a get inside, a parcel is
\* taken; with the place empty and a put inside, it is filled.
Progress ==
  /\ message /\ (\E t \in Thread : Inside(t) /\ call[t] = Get) ~> ~message
  /\ ~message /\ (\E t \in Thread : Inside(t) /\ call[t] # Get) ~> message
=============================================================================
