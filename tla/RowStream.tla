----------------------------- MODULE RowStream -----------------------------
(***************************************************************************)
(* What a select promises to the loop that reads it: a stream of the rows  *)
(* 1 .. size[q], read one at a time and in order.  There is no batch, no   *)
(* buffer and no other query here.                                         *)
(*                                                                         *)
(* The stream may be interrupted: a Fetch that ends the loop or throws in  *)
(* the middle takes the row it was to return with it (Skip).  The driver's *)
(* own end of data (End) comes only when there is no row left.             *)
(***************************************************************************)
EXTENDS Naturals, Sequences

CONSTANTS
  Query,   \* the selects of one connector
  MaxSize  \* bound: the rows a select finds

VARIABLES
  loop,  \* where the caller's loop over each query is
  size,  \* how many rows the select finds
  seen,  \* how many of them have been passed
  got    \* the rows the caller has been given

svars == <<loop, size, seen, got>>

LoopState == {"idle", "fetching", "ended", "thrown"}
Reading(q) == loop[q] \in {"fetching", "ended"}

SInit ==
  /\ loop = [q \in Query |-> "idle"]
  /\ size = [q \in Query |-> 0]
  /\ seen = [q \in Query |-> 0]
  /\ got = [q \in Query |-> <<>>]

Start(q, n) ==
  /\ loop[q] = "idle" /\ loop' = [loop EXCEPT ![q] = "fetching"]
  /\ size' = [size EXCEPT ![q] = n]
  /\ UNCHANGED <<seen, got>>

Return(q) ==
  /\ Reading(q) /\ loop' = [loop EXCEPT ![q] = "fetching"]
  /\ seen[q] < size[q] /\ seen' = [seen EXCEPT ![q] = @ + 1]
  /\ got' = [got EXCEPT ![q] = Append(@, seen[q] + 1)]
  /\ UNCHANGED size

\* The loop ends, and the row it was to get is passed over.
Skip(q) ==
  /\ Reading(q) /\ loop' = [loop EXCEPT ![q] = "ended"]
  /\ seen[q] < size[q] /\ seen' = [seen EXCEPT ![q] = @ + 1]
  /\ UNCHANGED <<size, got>>

End(q) ==
  /\ Reading(q) /\ loop' = [loop EXCEPT ![q] = "ended"]
  /\ seen[q] = size[q]
  /\ UNCHANGED <<size, seen, got>>

\* An exception reaches the caller, who has to close the query.
Throw(q) ==
  /\ loop[q] # "thrown" /\ loop' = [loop EXCEPT ![q] = "thrown"]
  /\ size' = [size EXCEPT ![q] = 0]
  /\ seen' = [seen EXCEPT ![q] = 0]
  /\ UNCHANGED got

Stop(q) ==
  /\ loop[q] # "idle" /\ loop' = [loop EXCEPT ![q] = "idle"]
  /\ size' = [size EXCEPT ![q] = 0]
  /\ seen' = [seen EXCEPT ![q] = 0]
  /\ got' = [got EXCEPT ![q] = <<>>]

SNext ==
  \E q \in Query :
    \/ \E n \in 0 .. MaxSize : Start(q, n)
    \/ Return(q) \/ Skip(q) \/ End(q) \/ Throw(q) \/ Stop(q)

SSpec == SInit /\ [][SNext]_svars
=============================================================================
