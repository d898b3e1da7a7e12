--------------------------- MODULE Notifier_proofs ---------------------------
(***************************************************************************)
(* Proofs about the notifier, for every set of threads and of parcels.     *)
(* NoLostWakeup is inductive by itself: a thread begins to wait only where *)
(* it must, and whoever changes message empties the wait set.              *)
(***************************************************************************)
EXTENDS Notifier, TLAPS

\* A call that is not a get puts a parcel.
LEMMA PutsParcel ==
  ASSUME NEW c \in Call, c # Get
  PROVE  c.parcel \in Parcel
BY DEF Call, Get, PutOf

LEMMA InitType == Init => TypeOK
BY DEF Init, TypeOK, Where, Call

LEMMA TypeStep == TypeOK /\ [Next]_vars => TypeOK'
<1> SUFFICES ASSUME TypeOK, [Next]_vars PROVE TypeOK'
  OBVIOUS
<1> USE DEF TypeOK
<1>1. ASSUME NEW t \in Thread, Invoke(t) PROVE TypeOK'
  BY <1>1 DEF Invoke, Where
<1>2. ASSUME NEW t \in Thread, Wait(t) \/ WakeUnasked(t) PROVE TypeOK'
  BY <1>2 DEF Wait, WakeUnasked, Where
<1>3. ASSUME NEW t \in Thread, Leave(t) PROVE where' \in [Thread -> Where]
  BY <1>3 DEF Leave, Where
<1>4. ASSUME NEW t \in Thread, Take(t) PROVE TypeOK'
  BY <1>3, <1>4 DEF Take
<1>5. ASSUME NEW t \in Thread, Put(t) PROVE TypeOK'
  BY <1>3, <1>5, PutsParcel DEF Put
<1>6. CASE UNCHANGED vars
  BY <1>6 DEF vars
<1>7. QED
  BY <1>1, <1>2, <1>4, <1>5, <1>6 DEF Next

\* The fields and the calls keep their types, and a notifier that says it has a
\* parcel has one: an empty field is never given to a getter.
THEOREM NotifierTypes == Spec => []TypeOK
BY InitType, TypeStep, PTL DEF Spec

-----------------------------------------------------------------------------
(* The wait set.                                                           *)

LEMMA WakeupStep == TypeOK /\ NoLostWakeup /\ [Next]_vars => NoLostWakeup'
<1> SUFFICES ASSUME TypeOK, NoLostWakeup, [Next]_vars,
                    NEW u \in Thread, where'[u] = "waiting"
             PROVE  MustWait(u)'
  BY DEF NoLostWakeup
<1> USE DEF TypeOK, NoLostWakeup, MustWait
<1>1. ASSUME NEW t \in Thread, Invoke(t) PROVE MustWait(u)'
  BY <1>1 DEF Invoke
<1>2. ASSUME NEW t \in Thread, Wait(t) \/ WakeUnasked(t) PROVE MustWait(u)'
  BY <1>2 DEF Wait, WakeUnasked
<1>3. ASSUME NEW t \in Thread, Take(t) \/ Put(t) PROVE MustWait(u)'
  <2>1. where'[u] # "waiting"
    BY <1>3 DEF Take, Put, Leave
  <2>2. QED  BY <2>1
<1>4. CASE UNCHANGED vars
  BY <1>4 DEF vars
<1>5. QED
  BY <1>1, <1>2, <1>3, <1>4 DEF Next

\* Nobody waits for what has already happened: not a getter when there is a
\* parcel, not a putter when the place is empty.
THEOREM NobodyMissesWakeup == Spec => []NoLostWakeup
<1>1. Init => NoLostWakeup
  BY DEF Init, NoLostWakeup
<1>2. QED
  BY <1>1, NotifierTypes, WakeupStep, PTL DEF Spec

\* Getters and putters share the wait set but are never in it together, which
\* is why a thread that is woken in vain can only have lost a race.
THEOREM OneKindWaits ==
  Spec => [](\A t, u \in Thread : where[t] = "waiting" /\ where[u] = "waiting"
                                    => (call[t] = Get <=> call[u] = Get))
<1> DEFINE OneKind ==
      \A t, u \in Thread : where[t] = "waiting" /\ where[u] = "waiting"
                             => (call[t] = Get <=> call[u] = Get)
<1>1. NoLostWakeup /\ TypeOK => OneKind
  BY DEF NoLostWakeup, TypeOK, MustWait
<1>2. QED
  BY <1>1, NotifierTypes, NobodyMissesWakeup, PTL

-----------------------------------------------------------------------------
(* The notifier is a place for one parcel.                                 *)

LEMMA OnePlaceInit == Init => Abstract!Init
BY DEF Init, Abstract!Init

LEMMA OnePlaceStep == TypeOK /\ [Next]_vars => [Abstract!Next]_Abstract!vars
<1> SUFFICES ASSUME TypeOK, [Next]_vars
             PROVE  Abstract!Next \/ UNCHANGED Abstract!vars
  OBVIOUS
<1>1. ASSUME NEW t \in Thread, Invoke(t) \/ Wait(t) \/ WakeUnasked(t)
      PROVE  UNCHANGED Abstract!vars
  BY <1>1 DEF Invoke, Wait, WakeUnasked, Abstract!vars
<1>2. ASSUME NEW t \in Thread, Take(t) PROVE Abstract!Take(t)
  <2>1. message /\ ~message'
    BY <1>2 DEF Take, MustWait, TypeOK
  <2>2. result' = [result EXCEPT ![t] = Head(<<parcel>>)]
    BY <1>2 DEF Take
  <2>3. QED  BY <2>1, <2>2 DEF Abstract!Take
<1>3. ASSUME NEW t \in Thread, Put(t) PROVE Abstract!Put
  <2>1. ~message /\ message' /\ UNCHANGED result
    BY <1>3 DEF Put, MustWait, TypeOK
  <2>2. parcel' \in Parcel
    BY <1>3, PutsParcel DEF Put, TypeOK
  <2>3. QED  BY <2>1, <2>2 DEF Abstract!Put
<1>4. CASE UNCHANGED vars
  BY <1>4 DEF vars, Abstract!vars
<1>5. QED
  BY <1>1, <1>2, <1>3, <1>4 DEF Next, Abstract!Next

\* The monitor implements the one place: no parcel is lost, given twice or
\* overwritten, whatever the threads do and whenever a wait ends.
THEOREM NotifierIsOnePlace == Spec => ImplementsOnePlace
BY OnePlaceInit, NotifierTypes, OnePlaceStep, PTL
   DEF Spec, ImplementsOnePlace, Abstract!Spec
=============================================================================
