------------------------------ MODULE OnePlace ------------------------------
(***************************************************************************)
(* What a Notifier promises the threads that share it: a place for one     *)
(* parcel.  A put fills the empty place, a get empties the full one and    *)
(* gives its thread the parcel that was there; nothing is overwritten,     *)
(* and no parcel is given out twice.                                       *)
(***************************************************************************)
EXTENDS Sequences

CONSTANTS
  Thread,  \* the threads that share the place
  Parcel,  \* what is put; the null parcel of Server.listener is one of them
  None     \* the result of a thread that has not taken a parcel yet

VARIABLES
  place,   \* the parcel waiting to be taken: a sequence of length 0 or 1
  result   \* the parcel each thread took last

vars == <<place, result>>

Init == place = <<>> /\ result = [t \in Thread |-> None]

Put ==
  /\ place = <<>>
  /\ \E p \in Parcel : place' = <<p>>
  /\ UNCHANGED result

Take(t) ==
  /\ place # <<>>
  /\ result' = [result EXCEPT ![t] = Head(place)]
  /\ place' = <<>>

Next == Put \/ \E t \in Thread : Take(t)

Spec == Init /\ [][Next]_vars
=============================================================================
