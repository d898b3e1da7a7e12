----------------------------- MODULE CliCursors -----------------------------
(***************************************************************************)
(* The fetch side of libs/cli9: selects read through TJQuery, a batch of   *)
(* {noRows} rows at a time, by loops that share one TJConnector with each  *)
(* other and with every other statement of the program.                    *)
(*                                                                         *)
(* A step is one call of a generated class (Exec, Fetch, Close) or one     *)
(* other statement or transaction call: a connector belongs to one thread, *)
(* and its calls come in any order.  The driver (SQLExecute, SQLFetch,     *)
(* SQLFreeHandle, SQLEndTran) is modelled as TJQuery uses it.  A row is    *)
(* its number in the result set, and 0 is what Clear leaves in the buffer. *)
(***************************************************************************)
EXTENDS Integers, Sequences

CONSTANTS
  Query,    \* the selects: objects of generated classes
  NoRows,   \* rows in a batch, TJQuery::noRows
  MaxSize   \* bound: the rows a select finds

ASSUME NoRowsAssumption == NoRows \in Nat \ {0}
ASSUME MaxSizeAssumption == MaxSize \in Nat

VARIABLES
  result,         \* TJConnector::result, shared by all queries
  isOpen,         \* TJQuery::isOpen, and so on, for each query
  rowsDone,
  totalRowsRead,
  rowsRead,
  rowsIndex,
  error,
  data,           \* the batch buffer of TJQuery
  size,           \* the driver: rows of the result set
  pos,            \* the driver: rows it has delivered
  loop,           \* the caller: where its loop over the query is
  got             \* the caller: the rows Fetch has given it

counters == <<rowsDone, totalRowsRead, rowsRead, rowsIndex, error>>
driver == <<size, pos>>
caller == <<loop, got>>
cvars == <<result, isOpen, counters, data, driver, caller>>

\* SQL_SUCCESS, SQL_SUCCESS_WITH_INFO, SQL_NO_DATA_FOUND, any other.
Outcome == {"success", "info", "nodata", "error"}

\* Mutant: SQL_SUCCESS_WITH_INFO is not in the switch.
AllowNoInfo(r) == r \in {"success", "nodata"}

Allow(r) == r # "error"

Cell == 0 .. NoRows - 1
Empty == [i \in Cell |-> 0]

CInit ==
  /\ result = "success"
  /\ isOpen = [q \in Query |-> FALSE]
  /\ rowsDone = [q \in Query |-> 0]
  /\ totalRowsRead = [q \in Query |-> 0]
  /\ rowsRead = [q \in Query |-> 0]
  /\ rowsIndex = [q \in Query |-> 0]
  /\ error = [q \in Query |-> "success"]
  /\ data = [q \in Query |-> Empty]
  /\ size = [q \in Query |-> 0]
  /\ pos = [q \in Query |-> 0]
  /\ loop = [q \in Query |-> "idle"]
  /\ got = [q \in Query |-> <<>>]

-----------------------------------------------------------------------------
(* Exec of a generated class: TJQuery::Open, Bind, Define and Exec.        *)

Throws(q) == loop' = [loop EXCEPT ![q] = "thrown"] /\ UNCHANGED got

\* Mutant: rowsDone is not reset.
ResetCountersNotRowsDone(q) ==
  /\ totalRowsRead' = [totalRowsRead EXCEPT ![q] = 0]
  /\ rowsRead' = [rowsRead EXCEPT ![q] = 0]
  /\ rowsIndex' = [rowsIndex EXCEPT ![q] = 0]
  /\ error' = [error EXCEPT ![q] = "success"]
  /\ UNCHANGED rowsDone

\* JP_Exec up to the call of SQLExecute.
ResetCounters(q) ==
  /\ rowsDone' = [rowsDone EXCEPT ![q] = 0]
  /\ totalRowsRead' = [totalRowsRead EXCEPT ![q] = 0]
  /\ rowsRead' = [rowsRead EXCEPT ![q] = 0]
  /\ rowsIndex' = [rowsIndex EXCEPT ![q] = 0]
  /\ error' = [error EXCEPT ![q] = "success"]

Exec(q, n, r) ==
  /\ loop[q] = "idle" /\ ~isOpen[q]
  /\ isOpen' = [isOpen EXCEPT ![q] = TRUE]
  /\ result' = r
  /\ ResetCounters(q)
  /\ data' = [data EXCEPT ![q] = Empty]
  /\ size' = [size EXCEPT ![q] = n]
  /\ pos' = [pos EXCEPT ![q] = 0]
  /\ loop' = [loop EXCEPT ![q] = "fetching"]
  /\ UNCHANGED got

\* JP_Open fails, or a Bind, a Define or SQLExecute of a query it opened.
ExecThrows(q) ==
  /\ loop[q] = "idle" /\ ~isOpen[q]
  /\ \/ UNCHANGED <<isOpen, counters, data>>
     \/ /\ isOpen' = [isOpen EXCEPT ![q] = TRUE]
        /\ data' = [data EXCEPT ![q] = Empty]
        /\ UNCHANGED counters \/ ResetCounters(q)
  /\ result' = "error"
  /\ Throws(q)
  /\ UNCHANGED driver

\* Exec of a query that is open: JP_Open does nothing and answers with
\* whatever the result of the connector is; SQLExecute refuses (24000).
ExecAgain(q) ==
  /\ isOpen[q] /\ loop[q] # "thrown"
  /\ IF Allow(result)
     THEN ResetCounters(q) /\ data' = [data EXCEPT ![q] = Empty]
     ELSE UNCHANGED <<counters, data>>
  /\ result' = "error"
  /\ Throws(q)
  /\ UNCHANGED <<isOpen, driver>>

-----------------------------------------------------------------------------
(* Fetch of a generated class: TJQuery::Fetch over JP_Fetch, then Get.     *)

Reading(q) == loop[q] \in {"fetching", "ended"}

\* What the caller makes of JP_Fetch's answer.  Get copies the cell of data
\* at rowsIndex, both as JP_Fetch leaves them.
Answers(q, r) ==
  /\ loop' = [loop EXCEPT ![q] = IF r = "nodata" THEN "ended"
                                 ELSE IF Allow(r) THEN "fetching" ELSE "thrown"]
  /\ got' = IF r = "nodata" \/ ~Allow(r) THEN got
            ELSE [got EXCEPT ![q] = Append(@, data'[q][rowsIndex'[q]])]

\* Mutant: <= for <, the other way round from rowsDone >= totalRowsRead.
InBatchOrAtItsEnd(q) == rowsDone[q] <= totalRowsRead[q]

\* The batch in the buffer is not used up.
InBatch(q) == rowsDone[q] < totalRowsRead[q]

\* Mutant: return qry.error = _Result(qry).
FetchFromBatchSetsError(q) ==
  /\ Reading(q) /\ InBatch(q)
  /\ rowsIndex' = [rowsIndex EXCEPT ![q] = @ + 1]
  /\ rowsDone' = [rowsDone EXCEPT ![q] = @ + 1]
  /\ error' = [error EXCEPT ![q] = result]
  /\ UNCHANGED <<result, isOpen, totalRowsRead, rowsRead, data, driver>>
  /\ Answers(q, result)

\* The next row of the batch, and with it the result of the connector, which
\* this query has not touched since it read the batch.
FetchFromBatch(q) ==
  /\ Reading(q) /\ InBatch(q)
  /\ rowsIndex' = [rowsIndex EXCEPT ![q] = @ + 1]
  /\ rowsDone' = [rowsDone EXCEPT ![q] = @ + 1]
  /\ UNCHANGED <<result, isOpen, totalRowsRead, rowsRead, error, data, driver>>
  /\ Answers(q, result)

\* The end was seen by an earlier call.
FetchPastEnd(q) ==
  /\ Reading(q) /\ ~InBatch(q)
  /\ error[q] = "nodata"
  /\ UNCHANGED <<result, isOpen, counters, data, driver>>
  /\ Answers(q, "nodata")

\* SQLFetch is called, with the buffer cleared unless it is the first time.
CallsDriver(q) ==
  /\ Reading(q) /\ ~InBatch(q)
  /\ error[q] # "nodata"

Cleared(q) == IF rowsDone[q] > 0 THEN Empty ELSE data[q]

Batch(q) == IF size[q] - pos[q] < NoRows THEN size[q] - pos[q] ELSE NoRows

\* Mutant: noRows is added to totalRowsRead, a part of a batch or not.
FetchNextBatchAddsNoRows(q, r) ==
  /\ CallsDriver(q)
  /\ Batch(q) > 0
  /\ result' = r
  /\ data' = [data EXCEPT ![q] =
                [i \in Cell |-> IF i < Batch(q) THEN pos[q] + i + 1 ELSE Cleared(q)[i]]]
  /\ pos' = [pos EXCEPT ![q] = @ + Batch(q)]
  /\ rowsRead' = [rowsRead EXCEPT ![q] = Batch(q)]
  /\ totalRowsRead' = [totalRowsRead EXCEPT ![q] = @ + NoRows]
  /\ rowsIndex' = [rowsIndex EXCEPT ![q] = 0]
  /\ rowsDone' = [rowsDone EXCEPT ![q] = @ + 1]
  /\ UNCHANGED <<isOpen, error, size>>
  /\ Answers(q, r)

FetchNextBatch(q, r) ==
  /\ CallsDriver(q)
  /\ Batch(q) > 0
  /\ result' = r
  /\ data' = [data EXCEPT ![q] =
                [i \in Cell |-> IF i < Batch(q) THEN pos[q] + i + 1 ELSE Cleared(q)[i]]]
  /\ pos' = [pos EXCEPT ![q] = @ + Batch(q)]
  /\ rowsRead' = [rowsRead EXCEPT ![q] = Batch(q)]
  /\ totalRowsRead' = [totalRowsRead EXCEPT ![q] = @ + Batch(q)]
  /\ rowsIndex' = [rowsIndex EXCEPT ![q] = 0]
  /\ rowsDone' = [rowsDone EXCEPT ![q] = @ + 1]
  /\ UNCHANGED <<isOpen, error, size>>
  /\ Answers(q, r)

\* SQL_NO_DATA_FOUND: kept in error, so that the result of the connector can
\* be success again.
FetchNoData(q) ==
  /\ CallsDriver(q)
  /\ Batch(q) = 0
  /\ error' = [error EXCEPT ![q] = "nodata"]
  /\ result' = "success"
  /\ data' = [data EXCEPT ![q] = Cleared(q)]
  /\ rowsRead' = [rowsRead EXCEPT ![q] = 0]
  /\ rowsIndex' = [rowsIndex EXCEPT ![q] = 0]
  /\ UNCHANGED <<isOpen, rowsDone, totalRowsRead, driver>>
  /\ Answers(q, "nodata")

\* SQLFetch fails, at any time.
FetchThrows(q) ==
  /\ CallsDriver(q)
  /\ error' = [error EXCEPT ![q] = "error"]
  /\ result' = "error"
  /\ data' = [data EXCEPT ![q] = Cleared(q)]
  /\ Throws(q)
  /\ UNCHANGED <<isOpen, rowsDone, totalRowsRead, rowsRead, rowsIndex, driver>>

-----------------------------------------------------------------------------
\* JP_Close, r what SQLFreeHandle answers.  The counters stay as they are.
Close(q, r) ==
  /\ loop[q] # "idle"
  /\ isOpen' = [isOpen EXCEPT ![q] = FALSE]
  /\ result' = IF isOpen[q] /\ result = "success" THEN r ELSE result
  /\ data' = [data EXCEPT ![q] = Empty]
  /\ size' = [size EXCEPT ![q] = 0]
  /\ pos' = [pos EXCEPT ![q] = 0]
  /\ loop' = [loop EXCEPT ![q] = "idle"]
  /\ got' = [got EXCEPT ![q] = <<>>]
  /\ UNCHANGED counters

\* An insert, update or delete through another TJQuery of the connector, from
\* its Exec to its Close: "nodata" when no row satisfies its condition.
Statement(r) ==
  /\ result' = r
  /\ UNCHANGED <<isOpen, counters, data, driver, caller>>

\* TJConnector::Commit and Rollback.  Cursors that this closes are among
\* those for which SQLFetch fails from now on.
EndTran(r) ==
  /\ result' = r
  /\ UNCHANGED <<isOpen, counters, data, driver, caller>>

Fetch(q) ==
  \/ FetchFromBatch(q)
  \/ FetchPastEnd(q)
  \/ \E r \in {"success", "info"} : FetchNextBatch(q, r)
  \/ FetchNoData(q)
  \/ FetchThrows(q)

CNext ==
  \/ \E q \in Query :
       \/ \E n \in 0 .. MaxSize, r \in {"success", "info"} : Exec(q, n, r)
       \/ ExecThrows(q) \/ ExecAgain(q)
       \/ Fetch(q)
       \/ \E r \in {"success", "error"} : Close(q, r)
  \/ \E r \in Outcome : Statement(r)
  \/ \E r \in Outcome \ {"nodata"} : EndTran(r)

CSpec == CInit /\ [][CNext]_cvars

-----------------------------------------------------------------------------
CTypeOK ==
  /\ result \in Outcome
  /\ isOpen \in [Query -> BOOLEAN]
  /\ rowsDone \in [Query -> 0 .. MaxSize]
  /\ totalRowsRead \in [Query -> 0 .. MaxSize]
  /\ rowsRead \in [Query -> 0 .. NoRows]
  /\ rowsIndex \in [Query -> Cell]
  /\ error \in [Query -> Outcome]
  /\ data \in [Query -> [Cell -> 0 .. MaxSize]]
  /\ size \in [Query -> 0 .. MaxSize]
  /\ pos \in [Query -> 0 .. MaxSize]
  /\ loop \in [Query -> {"idle", "fetching", "ended", "thrown"}]
  /\ got \in [Query -> Seq(0 .. MaxSize)]

\* Whatever happens on the connector between two calls, a loop never gets a
\* row twice, nor one out of order, nor one of a cleared buffer.
RowsInOrder ==
  \A q \in Query :
    /\ \A i \in DOMAIN got[q] : got[q][i] \in 1 .. MaxSize
    /\ \A i, j \in DOMAIN got[q] : i < j => got[q][i] < got[q][j]

\* A query comes to hold SQL_NO_DATA_FOUND in its error only when all rows of
\* its result set have been taken out of the buffer.
EndOnlyAfterLastRow ==
  \A q \in Query : Reading(q) /\ error[q] = "nodata" => rowsDone[q] = size[q]

\* A row that leaves the buffer reaches the caller, as long as no other
\* statement has left an error or "no data" in the result of the connector.
NoRowSwallowed ==
  [][\A q \in Query :
       Fetch(q) /\ result \in {"success", "info"}
       => rowsDone'[q] - rowsDone[q] = Len(got'[q]) - Len(got[q])]_cvars

\* Batches, buffer and shared connector behave as streams of single rows.
Stream == INSTANCE RowStream WITH
  size <- [q \in Query |-> IF Reading(q) THEN size[q] ELSE 0],
  seen <- [q \in Query |-> IF Reading(q) THEN rowsDone[q] ELSE 0]
ImplementsRowStream == Stream!SSpec

\* "Fetch returns false if no more data": a loop that ended has had all rows.
FetchedAll ==
  \A q \in Query : loop[q] = "ended" => Len(got[q]) = size[q]
=============================================================================
