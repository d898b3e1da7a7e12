------------------------------ MODULE RowQueue ------------------------------
(***************************************************************************)
(* What a bulk insert promises its caller: a queue of rows.  A row put in  *)
(* goes to the end of it; now and then the queue is sent, and is empty     *)
(* after that.  The database may refuse a row and all after it, but then   *)
(* the caller hears of it, and nothing of what arrived is committed by the *)
(* send.  There is no buffer, no batch and no index here.                  *)
(*                                                                         *)
(* A row is its number in the order in which the rows are put in.          *)
(***************************************************************************)
EXTENDS Integers, Sequences

VARIABLES
  queue,    \* the rows put in and not yet sent
  table,    \* the rows that arrived
  durable,  \* how many of them are committed
  filled,   \* how many rows were put in
  warned    \* whether the caller was told, or decided, that rows may be missing

qvars == <<queue, table, durable, filled, warned>>

QInit ==
  /\ queue = <<>> /\ table = <<>> /\ durable = 0
  /\ filled = 0
  /\ warned = FALSE

MayWarn == warned' \in {warned, TRUE}

WithNext == Append(queue, filled + 1)

Put ==
  /\ filled' = filled + 1
  /\ queue' = WithNext
  /\ MayWarn
  /\ UNCHANGED <<table, durable>>

\* The first k rows of q arrive.
Send(q) ==
  /\ \E k \in 0 .. Len(q) :
       /\ table' = table \o SubSeq(q, 1, k)
       /\ k < Len(q) => warned' = TRUE /\ durable' = durable
  /\ queue' = <<>>
  /\ durable' \in {durable, Len(table')}
  /\ MayWarn

PutAndSend == Send(WithNext) /\ filled' = filled + 1
SendRest == Send(queue) /\ UNCHANGED filled

\* The caller closes the query instead of sending what it put in.
Discard ==
  /\ queue' = <<>>
  /\ UNCHANGED <<table, durable, filled, warned>>

\* An exception that has nothing to do with the queue.
Warn ==
  /\ warned' = TRUE
  /\ UNCHANGED <<queue, table, durable, filled>>

Commit ==
  /\ durable' = Len(table)
  /\ UNCHANGED <<queue, table, filled, warned>>

Rollback ==
  /\ table' = SubSeq(table, 1, durable)
  /\ warned' = TRUE
  /\ UNCHANGED <<queue, durable, filled>>

QNext ==
  \/ Put \/ PutAndSend \/ SendRest
  \/ Discard \/ Warn \/ Commit \/ Rollback

QSpec == QInit /\ [][QNext]_qvars
=============================================================================
