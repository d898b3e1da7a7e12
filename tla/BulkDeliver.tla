----------------------------- MODULE BulkDeliver -----------------------------
(***************************************************************************)
(* The bulk side of libs/oci11: a generated class with Init, Fill and Done *)
(* over TJQuery::OpenArray, Put and Deliver.  Fill puts a row into the     *)
(* buffer; when the buffer is full, or on Done, the rows in it are sent    *)
(* with one OCIStmtExecute and, if so asked, committed.                    *)
(*                                                                         *)
(* A step is one call; other statements of the connector and its commits   *)
(* and rollbacks come between any two.  The database is modelled as        *)
(* JP_Deliver uses it.  A row is its number in the order of Fill, and 0 is *)
(* what JP_SetupArray leaves in the buffer.                                *)
(***************************************************************************)
EXTENDS Integers, Sequences

CONSTANTS
  MaxNoRows,  \* bound: the rows a buffer holds
  MaxRows     \* bound: the rows the caller has, and those Done finds sent

ASSUME BulkAssumption == MaxNoRows \in Nat \ {0} /\ MaxRows \in Nat

VARIABLES
  result,     \* TJConnector::result, shared by all queries
  isOpen,     \* TJQuery::isOpen, and so on
  rowsIndex,
  doCommit,
  noRows,     \* NOROWS of the generated class: never changes
  data,       \* the buffer of the query
  table,      \* the database: the rows that arrived, in order
  durable,    \* the database: how many of them are committed
  call,       \* the caller: how far it is
  filled,     \* the caller: how many rows it has put in
  disturbed,  \* the caller: whether it has seen an exception or rolled back
  tidy        \* the caller: whether it calls Init and Done once: never changes

query == <<isOpen, rowsIndex, doCommit, data>>
database == <<table, durable>>
caller == <<call, filled, disturbed>>
habit == <<noRows, tidy>>
bvars == <<result, query, database, caller, habit>>

\* OCI_SUCCESS, which is 0, OCI_SUCCESS_WITH_INFO and OCI_ERROR.
Outcome == {"success", "info", "error"}

Cell == 0 .. MaxNoRows - 1
Empty == [i \in Cell |-> 0]

BInit ==
  /\ result = "success"
  /\ isOpen = FALSE /\ rowsIndex = 0 /\ doCommit = FALSE
  /\ noRows \in 1 .. MaxNoRows
  /\ data = Empty
  /\ table = <<>> /\ durable = 0
  /\ call = "new" /\ filled = 0 /\ disturbed = FALSE
  /\ tidy \in BOOLEAN

-----------------------------------------------------------------------------
(* Init of a generated class: OpenArray, SetCommit and BindArray.  Nothing *)
(* in it sets rowsIndex.                                                   *)

MayInit ==
  \/ call = "new"
  \/ ~tidy /\ call # "failed"

\* JP_Open does nothing for a query that is open, and answers with the
\* result that happens to be there.
OpenSucceeds == isOpen => result = "success"

Init(commit) ==
  /\ MayInit /\ OpenSucceeds
  /\ result' = "success"
  /\ isOpen' = TRUE
  /\ doCommit' = commit
  /\ data' = Empty
  /\ call' = "filling"
  /\ UNCHANGED <<rowsIndex, database, filled, disturbed, habit>>

\* JP_Open fails, or a BindArray after it.
InitThrows(commit) ==
  /\ MayInit
  /\ \/ /\ IF isOpen THEN result # "success" /\ UNCHANGED result
                     ELSE result' = "error"
        /\ UNCHANGED <<isOpen, doCommit, data>>
     \/ /\ OpenSucceeds
        /\ result' = "error"
        /\ isOpen' = TRUE /\ doCommit' = commit /\ data' = Empty
  /\ call' = "failed" /\ disturbed' = TRUE
  /\ UNCHANGED <<rowsIndex, database, filled, habit>>

-----------------------------------------------------------------------------
(* JP_Deliver.                                                             *)

\* The caller gets an exception for any result but OCI_SUCCESS.
Answers == disturbed' = (disturbed \/ result' # "success")

\* Mutant: what was sent is not committed.
CommitsNothing(sent) == UNCHANGED durable /\ result' = "success"

\* JP_Commit, if Init was asked for it.  It may fail.
Commits(sent) ==
  \/ /\ result' = "success"
     /\ durable' = IF doCommit THEN Len(sent) ELSE durable
  \/ doCommit /\ result' = "error" /\ UNCHANGED durable

Rows(buffer, n) == [i \in 1 .. n |-> buffer[i - 1]]

\* Mutant: rowsIndex is set to 0 only when the rows have arrived.
ExecuteKeepsRows(buffer, n) ==
  \/ /\ n > 0 /\ table' = table \o Rows(buffer, n)
     /\ \/ Commits(table')
        \/ result' = "info" /\ UNCHANGED durable
     /\ rowsIndex' = 0
  \/ /\ \E k \in 0 .. n : (k < n \/ n = 0) /\ table' = table \o Rows(buffer, k)
     /\ result' = "error" /\ UNCHANGED durable
     /\ UNCHANGED rowsIndex

\* OCIStmtExecute with n rows.  All of them arrive, with a warning or without;
\* or one is refused, and those before it stay; or n is 0, which is an error.
\* Only after OCI_SUCCESS is there a commit, and rowsIndex is 0 in any case.
Execute(buffer, n) ==
  /\ \/ /\ n > 0 /\ table' = table \o Rows(buffer, n)
        /\ \/ Commits(table')
           \/ result' = "info" /\ UNCHANGED durable
     \/ /\ \E k \in 0 .. n : (k < n \/ n = 0) /\ table' = table \o Rows(buffer, k)
        /\ result' = "error" /\ UNCHANGED durable
  /\ rowsIndex' = 0

\* Mutant: > for >=.
FullOffByOne == rowsIndex + 1 > noRows

Full == rowsIndex + 1 >= noRows

\* The buffer has room: the answer is the result that happens to be there.
Defer ==
  /\ rowsIndex' = rowsIndex + 1
  /\ UNCHANGED <<result, database>>

-----------------------------------------------------------------------------
(* Fill is Put of every column and Deliver(0); Done is Deliver(1).  After  *)
(* Done only a caller that is not tidy goes on.                            *)

MayGoOn == call = "filling" \/ (~tidy /\ call = "done")

\* Mutant: a full buffer is sent without the row just put in.
FillForgetsRow ==
  /\ MayGoOn /\ filled < MaxRows
  /\ filled' = filled + 1
  /\ data' = [data EXCEPT ![rowsIndex] = filled + 1]
  /\ IF Full THEN Execute(data', rowsIndex) ELSE Defer
  /\ Answers
  /\ call' = "filling"
  /\ UNCHANGED <<isOpen, doCommit, habit>>

Fill ==
  /\ MayGoOn /\ filled < MaxRows
  /\ filled' = filled + 1
  /\ data' = [data EXCEPT ![rowsIndex] = filled + 1]
  /\ IF Full THEN Execute(data', rowsIndex + 1) ELSE Defer
  /\ Answers
  /\ call' = "filling"
  /\ UNCHANGED <<isOpen, doCommit, habit>>

\* The bound on table stops a caller that calls Done for ever.
Done ==
  /\ MayGoOn /\ (tidy \/ Len(table) <= MaxRows)
  /\ call' = "done"
  /\ IF Full \/ rowsIndex > 0 THEN Execute(data, rowsIndex) ELSE Defer
  /\ Answers
  /\ UNCHANGED <<isOpen, doCommit, data, filled, habit>>

\* JP_Close, r what OCIHandleFree answers.  rowsIndex stays as it is.
Close(r) ==
  /\ call \notin {"new", "closed"}
  /\ isOpen' = FALSE
  /\ result' = IF isOpen /\ result = "success" THEN r ELSE result
  /\ data' = Empty
  /\ call' = "closed"
  /\ UNCHANGED <<rowsIndex, doCommit, database, filled, disturbed, habit>>

-----------------------------------------------------------------------------
(* The other users of the connector.                                       *)

\* Any statement through another query leaves its result here.
Statement(r) ==
  /\ result' = r
  /\ UNCHANGED <<query, database, caller, habit>>

\* TJConnector::Commit and Rollback.
Commit ==
  /\ \/ result' = "success" /\ durable' = Len(table)
     \/ result' = "error" /\ UNCHANGED durable
  /\ UNCHANGED <<query, table, caller, habit>>

Rollback ==
  /\ \/ result' = "success" /\ table' = SubSeq(table, 1, durable)
     \/ result' = "error" /\ UNCHANGED table
  /\ disturbed' = TRUE
  /\ UNCHANGED <<query, durable, call, filled, habit>>

BNext ==
  \/ \E commit \in BOOLEAN : Init(commit) \/ InitThrows(commit)
  \/ Fill \/ Done
  \/ \E r \in {"success", "error"} : Close(r)
  \/ \E r \in Outcome : Statement(r)
  \/ Commit \/ Rollback

BSpec == BInit /\ [][BNext]_bvars

-----------------------------------------------------------------------------
BTypeOK ==
  /\ result \in Outcome
  /\ isOpen \in BOOLEAN
  /\ noRows \in 1 .. MaxNoRows
  /\ rowsIndex \in 0 .. noRows - 1
  /\ doCommit \in BOOLEAN
  /\ data \in [Cell -> 0 .. MaxRows]
  /\ table \in Seq(0 .. MaxRows)
  /\ durable \in 0 .. Len(table)
  /\ call \in {"new", "filling", "done", "failed", "closed"}
  /\ filled \in 0 .. MaxRows
  /\ disturbed \in BOOLEAN
  /\ tidy \in BOOLEAN

\* No row arrives twice or out of order, and none that was never put in: not
\* after a batch that failed in the middle, nor after exceptions for another
\* statement's result that the caller caught before it went on filling.
RowsArriveOnce ==
  tidy =>
    /\ \A i \in DOMAIN table : table[i] \in 1 .. filled
    /\ \A i, j \in DOMAIN table : i < j => table[i] < table[j]

\* A caller that got through to the end of Done without an exception has every
\* row in the table, whether its last batch was full, in part or empty.
DoneSendsAll ==
  tidy /\ call = "done" /\ ~disturbed => table = [i \in 1 .. filled |-> i]

\* With Init(1) whatever has arrived is committed, until an exception says
\* otherwise.
BatchesCommitted == tidy /\ doCommit /\ ~disturbed => durable = Len(table)

\* What a tidy caller has in the buffer, in the table and so on; nothing is
\* claimed for another.
InQueue == IF tidy /\ call = "filling" THEN Rows(data, rowsIndex) ELSE <<>>
InTable == IF tidy THEN table ELSE <<>>
Committed == IF tidy THEN durable ELSE 0
PutIn == IF tidy THEN filled ELSE 0
Warned == tidy /\ disturbed

Queue == INSTANCE RowQueue
  WITH queue <- InQueue, table <- InTable, durable <- Committed, filled <- PutIn,
       warned <- Warned

\* For a tidy caller buffer, rowsIndex and batches are a queue of rows: what was
\* put in is sent once and in order, and rows that are refused or left behind
\* are never passed over in silence.
ImplementsRowQueue == Queue!QSpec

\* "0 indicates defer doing it if not full", "1 indicates doit now": a row that
\* was put in once is sent once.
SentOnce == \A i, j \in DOMAIN table : i # j => table[i] # table[j]
=============================================================================
