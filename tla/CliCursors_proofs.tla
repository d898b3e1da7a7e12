-------------------------- MODULE CliCursors_proofs --------------------------
(***************************************************************************)
(* Proofs about the selects of one connector, for any number of them, any  *)
(* batch and any size of result set.                                       *)
(*                                                                         *)
(* The invariant ties the four counters of a TJQuery to the buffer: the    *)
(* last batch holds the rows totalRowsRead - rowsRead + 1 .. totalRowsRead, *)
(* and while it is not used up the row at rowsIndex is row rowsDone.       *)
(***************************************************************************)
EXTENDS CliCursors, TLAPS

Positions(q) ==
  Reading(q) =>
    /\ pos[q] = totalRowsRead[q]
    /\ totalRowsRead[q] <= size[q]
    /\ rowsDone[q] <= totalRowsRead[q]
    /\ error[q] = "nodata" => rowsDone[q] = size[q]

Buffer(q) ==
  Reading(q) /\ InBatch(q) =>
    /\ rowsIndex[q] = rowsDone[q] - 1 - (totalRowsRead[q] - rowsRead[q])
    /\ \A i \in Cell : i < rowsRead[q]
         => data[q][i] = totalRowsRead[q] - rowsRead[q] + i + 1

Handed(q) ==
  /\ loop[q] = "idle" => got[q] = <<>>
  /\ Reading(q) => \A i \in DOMAIN got[q] : got[q][i] <= rowsDone[q]

CInv ==
  /\ CTypeOK
  /\ RowsInOrder
  /\ \A q \in Query : Positions(q) /\ Buffer(q) /\ Handed(q)

LEMMA InitInv == CInit => CInv
BY NoRowsAssumption, MaxSizeAssumption
   DEF CInit, CInv, CTypeOK, RowsInOrder, Positions, Buffer, Handed, Reading,
       Cell, Empty, Outcome

\* What Answers does to the loop and to the rows handed over.
LEMMA AppendRow ==
  ASSUME NEW s \in Seq(0 .. MaxSize), NEW row \in 1 .. MaxSize,
         \A i \in DOMAIN s : s[i] \in 1 .. MaxSize /\ s[i] < row,
         \A i, j \in DOMAIN s : i < j => s[i] < s[j]
  PROVE  LET t == Append(s, row)
         IN  /\ t \in Seq(0 .. MaxSize)
             /\ Len(t) = Len(s) + 1
             /\ \A i \in DOMAIN t : t[i] \in 1 .. MaxSize /\ t[i] <= row
             /\ \A i, j \in DOMAIN t : i < j => t[i] < t[j]
BY MaxSizeAssumption

\* The row at the head of the buffer is the one after the last one taken.
LEMMA NextInBatch ==
  ASSUME CInv, NEW q \in Query, Reading(q), InBatch(q)
  PROVE  /\ rowsIndex[q] + 1 \in Cell
         /\ data[q][rowsIndex[q] + 1] = rowsDone[q] + 1
         /\ rowsDone[q] + 1 \in 1 .. size[q]
<1>1. rowsIndex[q] + 1 < rowsRead[q] /\ rowsRead[q] <= NoRows
  BY NoRowsAssumption DEF CInv, CTypeOK, Positions, Buffer, InBatch, Cell
<1>2. rowsIndex[q] + 1 \in Cell
  BY SMTT(30), <1>1, NoRowsAssumption DEF CInv, CTypeOK, Cell
<1>3. rowsDone[q] + 1 \in 1 .. size[q]
  BY MaxSizeAssumption DEF CInv, CTypeOK, Positions, InBatch
<1>4. data[q][rowsIndex[q] + 1] = rowsDone[q] + 1
  BY SMTT(30), <1>1, <1>2 DEF CInv, CTypeOK, Positions, Buffer, InBatch, Cell
<1>5. QED  BY <1>2, <1>3, <1>4

\* A row taken out of the buffer, whether the caller gets it or not.
LEMMA RowTaken ==
  ASSUME CInv, NEW q \in Query, NEW r \in Outcome, Reading(q),
         rowsDone[q] + 1 \in 1 .. MaxSize,
         rowsDone' = [rowsDone EXCEPT ![q] = @ + 1],
         data'[q][rowsIndex'[q]] = rowsDone[q] + 1,
         Answers(q, r)
  PROVE  /\ loop' \in [Query -> {"idle", "fetching", "ended", "thrown"}]
         /\ got' \in [Query -> Seq(0 .. MaxSize)]
         /\ RowsInOrder'
         /\ \A p \in Query : Handed(p)'
<1> DEFINE row == rowsDone[q] + 1
<1>1. /\ got[q] \in Seq(0 .. MaxSize)
      /\ \A i \in DOMAIN got[q] : got[q][i] \in 1 .. MaxSize /\ got[q][i] < row
      /\ \A i, j \in DOMAIN got[q] : i < j => got[q][i] < got[q][j]
  BY DEF CInv, CTypeOK, RowsInOrder, Handed
<1>2. CASE r = "nodata" \/ ~Allow(r)
  <2>1. got' = got /\ \E there \in {"ended", "thrown"} :
                        loop' = [loop EXCEPT ![q] = there]
    BY <1>2 DEF Answers, Allow
  <2>2. \A p \in Query : rowsDone'[p] \in Nat /\ rowsDone[p] <= rowsDone'[p]
    BY SMTT(30), MaxSizeAssumption DEF CInv, CTypeOK
  <2>3. \A p \in Query : Handed(p)'
    BY SMTT(30), <2>1, <2>2, MaxSizeAssumption DEF CInv, CTypeOK, Handed, Reading
  <2>4. QED
    BY <2>1, <2>3 DEF CInv, CTypeOK, RowsInOrder
<1>3. CASE ~(r = "nodata" \/ ~Allow(r))
  <2> DEFINE t == Append(got[q], row)
  <2>1. got' = [got EXCEPT ![q] = t] /\ loop' = [loop EXCEPT ![q] = "fetching"]
    BY <1>3 DEF Answers
  <2>2. /\ t \in Seq(0 .. MaxSize)
        /\ \A i \in DOMAIN t : t[i] \in 1 .. MaxSize /\ t[i] <= row
        /\ \A i, j \in DOMAIN t : i < j => t[i] < t[j]
    BY <1>1, AppendRow
  <2> HIDE DEF t
  <2>3. got'[q] = t /\ \A p \in Query \ {q} : got'[p] = got[p]
    BY <2>1 DEF CInv, CTypeOK
  <2>4. RowsInOrder'
    BY <2>2, <2>3 DEF CInv, RowsInOrder
  <2>5. \A p \in Query : Handed(p)'
    BY <2>1, <2>2, <2>3 DEF CInv, CTypeOK, Handed, Reading
  <2>6. QED
    BY <2>1, <2>2, <2>4, <2>5 DEF CInv, CTypeOK
<1>4. QED  BY <1>2, <1>3

\* A step after which q is read no more, or hands over no row.
LEMMA NoRowTaken ==
  ASSUME CInv, NEW q \in Query, NEW there \in {"ended", "thrown"},
         loop' = [loop EXCEPT ![q] = there], UNCHANGED got,
         there = "ended" => rowsDone'[q] = rowsDone[q] /\ Reading(q),
         \A p \in Query \ {q} : rowsDone'[p] = rowsDone[p]
  PROVE  /\ loop' \in [Query -> {"idle", "fetching", "ended", "thrown"}]
         /\ got' \in [Query -> Seq(0 .. MaxSize)]
         /\ RowsInOrder'
         /\ \A p \in Query : Handed(p)'
BY DEF CInv, CTypeOK, RowsInOrder, Handed, Reading

\* What a step of q leaves alone for the other queries.
LEMMA Others ==
  ASSUME CInv, NEW p \in Query,
         rowsDone'[p] = rowsDone[p], totalRowsRead'[p] = totalRowsRead[p],
         rowsRead'[p] = rowsRead[p], rowsIndex'[p] = rowsIndex[p],
         error'[p] = error[p], data'[p] = data[p], size'[p] = size[p],
         pos'[p] = pos[p], loop'[p] = loop[p]
  PROVE  Positions(p)' /\ Buffer(p)'
BY DEF CInv, Positions, Buffer, Reading, InBatch

LEMMA FromBatchStep ==
  ASSUME CInv, NEW q \in Query, FetchFromBatch(q) PROVE CInv'
<1>1. /\ rowsIndex[q] + 1 \in Cell
      /\ data[q][rowsIndex[q] + 1] = rowsDone[q] + 1
      /\ rowsDone[q] + 1 \in 1 .. size[q]
  BY NextInBatch DEF FetchFromBatch
<1>2. /\ result \in Outcome
      /\ rowsDone[q] + 1 \in 1 .. MaxSize
      /\ data'[q][rowsIndex'[q]] = rowsDone[q] + 1
  BY <1>1 DEF FetchFromBatch, CInv, CTypeOK
<1>3. /\ loop' \in [Query -> {"idle", "fetching", "ended", "thrown"}]
      /\ got' \in [Query -> Seq(0 .. MaxSize)]
      /\ RowsInOrder'
      /\ \A p \in Query : Handed(p)'
  BY <1>2, RowTaken DEF FetchFromBatch
<1>4. CTypeOK'
  <2>1. rowsIndex' \in [Query -> Cell]
    BY <1>1 DEF FetchFromBatch, CInv, CTypeOK
  <2>2. rowsDone' \in [Query -> 0 .. MaxSize]
    BY <1>2, MaxSizeAssumption DEF FetchFromBatch, CInv, CTypeOK
  <2>3. QED
    BY <1>3, <2>1, <2>2 DEF FetchFromBatch, CInv, CTypeOK, driver
<1>5. Positions(q)'
  BY <1>4 DEF FetchFromBatch, CInv, CTypeOK, Positions, InBatch, Reading, driver
<1>6. Buffer(q)'
  <2>1. Buffer(q) /\ InBatch(q) /\ Reading(q)
    BY DEF FetchFromBatch, CInv
  <2>2. rowsIndex'[q] = rowsIndex[q] + 1 /\ rowsDone'[q] = rowsDone[q] + 1
    BY DEF FetchFromBatch, CInv, CTypeOK
  <2>3. rowsIndex[q] \in Int /\ rowsDone[q] \in Int /\ totalRowsRead[q] \in Int
        /\ rowsRead[q] \in Int
    BY NoRowsAssumption DEF CInv, CTypeOK, Cell
  <2>4. QED
    BY <2>1, <2>2, <2>3 DEF FetchFromBatch, Buffer
<1>7. \A p \in Query \ {q} : Positions(p)' /\ Buffer(p)'
  BY Others DEF FetchFromBatch, Answers, CInv, CTypeOK, driver
<1>8. QED
  BY <1>3, <1>4, <1>5, <1>6, <1>7 DEF CInv

\* A fetched batch: its first row goes out, and the others lie behind it.
LEMMA FirstOfBatch ==
  ASSUME CInv, NEW q \in Query, NEW r \in {"success", "info"},
         FetchNextBatch(q, r)
  PROVE  /\ Batch(q) \in 1 .. NoRows /\ pos[q] + Batch(q) <= size[q]
         /\ rowsDone[q] = totalRowsRead[q] /\ pos[q] = totalRowsRead[q]
         /\ pos[q] \in Nat /\ size[q] \in 0 .. MaxSize
         /\ rowsDone[q] < size[q]
         /\ \A i \in Cell : i < Batch(q) => data'[q][i] = pos[q] + i + 1
         /\ 0 \in Cell /\ rowsIndex'[q] = 0
         /\ data'[q][rowsIndex'[q]] = rowsDone[q] + 1
<1> DEFINE n == Batch(q)
<1>1. /\ n \in 1 .. NoRows /\ pos[q] + n <= size[q]
      /\ rowsDone[q] = totalRowsRead[q] /\ pos[q] = totalRowsRead[q]
      /\ pos[q] \in Nat /\ size[q] \in 0 .. MaxSize
  BY NoRowsAssumption, MaxSizeAssumption
     DEF FetchNextBatch, CallsDriver, Batch, InBatch, CInv, CTypeOK, Positions
<1>2. \A i \in Cell : i < n => data'[q][i] = pos[q] + i + 1
  BY DEF FetchNextBatch, CInv, CTypeOK
<1>3. 0 \in Cell /\ rowsIndex'[q] = 0
  BY NoRowsAssumption DEF FetchNextBatch, CInv, CTypeOK, Cell
<1>4. data'[q][rowsIndex'[q]] = rowsDone[q] + 1 /\ rowsDone[q] < size[q]
  BY <1>1, <1>2, <1>3, MaxSizeAssumption
<1>5. QED  BY <1>1, <1>2, <1>3, <1>4

LEMMA NextBatchStep ==
  ASSUME CInv, NEW q \in Query, NEW r \in {"success", "info"},
         FetchNextBatch(q, r)
  PROVE  CInv'
<1> DEFINE n == Batch(q)
<1>1. /\ n \in 1 .. NoRows /\ pos[q] + n <= size[q]
      /\ rowsDone[q] = totalRowsRead[q] /\ pos[q] = totalRowsRead[q]
      /\ pos[q] \in Nat /\ size[q] \in 0 .. MaxSize
  BY FirstOfBatch
<1>2. \A i \in Cell : i < n => data'[q][i] = pos[q] + i + 1
  BY FirstOfBatch
<1>3. 0 \in Cell /\ rowsIndex'[q] = 0
  BY FirstOfBatch
<1>4. data'[q][rowsIndex'[q]] = rowsDone[q] + 1 /\ rowsDone[q] + 1 \in 1 .. MaxSize
  BY <1>1, <1>2, <1>3, FirstOfBatch, MaxSizeAssumption
<1>5. /\ loop' \in [Query -> {"idle", "fetching", "ended", "thrown"}]
      /\ got' \in [Query -> Seq(0 .. MaxSize)]
      /\ RowsInOrder'
      /\ \A p \in Query : Handed(p)'
  BY <1>4, RowTaken DEF FetchNextBatch, CallsDriver, Outcome
<1>6. CTypeOK'
  <2>1. data' \in [Query -> [Cell -> 0 .. MaxSize]]
    <3>1. \A i \in Cell : i < n => pos[q] + i + 1 \in 0 .. MaxSize
      BY <1>1, NoRowsAssumption, MaxSizeAssumption DEF Cell
    <3>2. Cleared(q) \in [Cell -> 0 .. MaxSize]
      BY MaxSizeAssumption DEF Cleared, Empty, CInv, CTypeOK
    <3>3. QED  BY <3>1, <3>2 DEF FetchNextBatch, CInv, CTypeOK
  <2>2. QED
    BY SMTT(30), <1>1, <1>3, <1>4, <1>5, <2>1, MaxSizeAssumption, NoRowsAssumption
       DEF FetchNextBatch, CInv, CTypeOK, Outcome
<1>7. Positions(q)'
  BY <1>1, <1>6 DEF FetchNextBatch, CallsDriver, CInv, CTypeOK, Positions
<1>8. Buffer(q)'
  BY <1>1, <1>2, <1>3, <1>6 DEF FetchNextBatch, CInv, CTypeOK, Buffer
<1>9. \A p \in Query \ {q} : Positions(p)' /\ Buffer(p)'
  BY Others DEF FetchNextBatch, Answers, CInv, CTypeOK
<1>10. QED
  BY <1>5, <1>6, <1>7, <1>8, <1>9 DEF CInv

\* A step that changes what is kept of q only.
OnlyCounters(q) ==
  \A p \in Query \ {q} :
    /\ rowsDone'[p] = rowsDone[p] /\ totalRowsRead'[p] = totalRowsRead[p]
    /\ rowsRead'[p] = rowsRead[p] /\ rowsIndex'[p] = rowsIndex[p]
    /\ error'[p] = error[p]

OnlyRest(q) ==
  \A p \in Query \ {q} :
    /\ data'[p] = data[p] /\ size'[p] = size[p] /\ pos'[p] = pos[p]
    /\ loop'[p] = loop[p] /\ got'[p] = got[p]

\* A step after which q is no longer read keeps the invariant, if it leaves
\* types alone and the other queries.
LEMMA AwayStep ==
  ASSUME CInv, NEW q \in Query, CTypeOK', ~Reading(q)',
         got'[q] \in {got[q], <<>>}, loop'[q] = "idle" => got'[q] = <<>>,
         OnlyCounters(q), OnlyRest(q)
  PROVE  CInv'
<1>1. RowsInOrder'
  BY DEF CInv, RowsInOrder, OnlyRest
<1>2. \A p \in Query \ {q} : Positions(p)' /\ Buffer(p)' /\ Handed(p)'
  BY Others DEF CInv, Handed, Reading, OnlyCounters, OnlyRest
<1>3. Positions(q)' /\ Buffer(q)' /\ Handed(q)'
  BY DEF Positions, Buffer, Handed
<1>4. QED  BY <1>1, <1>2, <1>3 DEF CInv

LEMMA Blank ==
  /\ 0 \in Cell /\ 0 \in 0 .. NoRows /\ 0 \in 0 .. MaxSize
  /\ Empty \in [Cell -> 0 .. MaxSize]
BY NoRowsAssumption, MaxSizeAssumption DEF Cell, Empty

LEMMA ResetTypes ==
  ASSUME CInv, NEW q \in Query, ResetCounters(q)
  PROVE  /\ rowsDone' \in [Query -> 0 .. MaxSize]
         /\ totalRowsRead' \in [Query -> 0 .. MaxSize]
         /\ rowsRead' \in [Query -> 0 .. NoRows]
         /\ rowsIndex' \in [Query -> Cell]
         /\ error' \in [Query -> Outcome]
BY Blank DEF ResetCounters, CInv, CTypeOK, Outcome

LEMMA ResetOnly ==
  ASSUME CInv, NEW q \in Query, ResetCounters(q)
  PROVE  OnlyCounters(q)
BY DEF ResetCounters, CInv, CTypeOK, OnlyCounters

LEMMA ExecStep ==
  ASSUME CInv, NEW q \in Query, NEW n \in 0 .. MaxSize,
         NEW r \in {"success", "info"}, Exec(q, n, r)
  PROVE  CInv'
<1>1. CTypeOK'
  BY Blank, ResetTypes DEF Exec, CInv, CTypeOK, Outcome
<1>2. RowsInOrder'
  BY DEF Exec, CInv, RowsInOrder
<1>3. Positions(q)' /\ Buffer(q)' /\ Handed(q)'
  BY MaxSizeAssumption
     DEF Exec, ResetCounters, CInv, CTypeOK, Positions, Buffer, InBatch, Handed
<1>4. \A p \in Query \ {q} : Positions(p)' /\ Buffer(p)' /\ Handed(p)'
  BY Others DEF Exec, ResetCounters, CInv, CTypeOK, Handed, Reading
<1>5. QED  BY <1>1, <1>2, <1>3, <1>4 DEF CInv

\* The calls that throw, and Close.
LEMMA LeavingStep ==
  ASSUME CInv, NEW q \in Query,
         \/ ExecThrows(q) \/ ExecAgain(q) \/ FetchThrows(q)
         \/ \E r \in {"success", "error"} : Close(q, r)
  PROVE  CInv'
<1>1. CASE ExecThrows(q)
  <2>1. /\ rowsDone' \in [Query -> 0 .. MaxSize]
        /\ totalRowsRead' \in [Query -> 0 .. MaxSize]
        /\ rowsRead' \in [Query -> 0 .. NoRows]
        /\ rowsIndex' \in [Query -> Cell]
        /\ error' \in [Query -> Outcome]
        /\ OnlyCounters(q)
    <3>1. CASE UNCHANGED counters
      BY <3>1 DEF CInv, CTypeOK, counters, OnlyCounters
    <3>2. CASE ResetCounters(q)
      BY <3>2, ResetTypes, ResetOnly
    <3>3. QED  BY <1>1, <3>1, <3>2 DEF ExecThrows, counters
  <2>2. CTypeOK'
    <3>1. isOpen' \in [Query -> BOOLEAN] /\ data' \in [Query -> [Cell -> 0 .. MaxSize]]
      BY ZenonT(40), <1>1, Blank DEF ExecThrows, CInv, CTypeOK
    <3>2. QED
      BY <1>1, <2>1, <3>1 DEF ExecThrows, Throws, CInv, CTypeOK, driver, Outcome
  <2>3. OnlyRest(q)
    BY <1>1 DEF ExecThrows, Throws, CInv, CTypeOK, driver, OnlyRest
  <2>4. loop'[q] = "thrown" /\ got'[q] = got[q]
    BY <1>1 DEF ExecThrows, Throws, CInv, CTypeOK
  <2>5. QED
    BY <2>1, <2>2, <2>3, <2>4, AwayStep DEF Reading
<1>2. CASE ExecAgain(q)
  <2>1. /\ rowsDone' \in [Query -> 0 .. MaxSize]
        /\ totalRowsRead' \in [Query -> 0 .. MaxSize]
        /\ rowsRead' \in [Query -> 0 .. NoRows]
        /\ rowsIndex' \in [Query -> Cell]
        /\ error' \in [Query -> Outcome]
        /\ OnlyCounters(q)
    <3>1. CASE UNCHANGED counters
      BY <3>1 DEF CInv, CTypeOK, counters, OnlyCounters
    <3>2. CASE ResetCounters(q)
      BY <3>2, ResetTypes, ResetOnly
    <3>3. QED  BY <1>2, <3>1, <3>2 DEF ExecAgain, counters
  <2>2. CTypeOK'
    BY <1>2, <2>1, Blank DEF ExecAgain, Throws, CInv, CTypeOK, driver, Outcome
  <2>3. OnlyRest(q)
    BY <1>2 DEF ExecAgain, Throws, CInv, CTypeOK, driver, OnlyRest
  <2>4. loop'[q] = "thrown" /\ got'[q] = got[q]
    BY <1>2 DEF ExecAgain, Throws, CInv, CTypeOK
  <2>5. QED
    BY <2>1, <2>2, <2>3, <2>4, AwayStep DEF Reading
<1>3. CASE FetchThrows(q)
  <2>1. Cleared(q) \in [Cell -> 0 .. MaxSize]
    BY Blank DEF Cleared, CInv, CTypeOK
  <2>2. CTypeOK'
    BY <1>3, <2>1 DEF FetchThrows, Throws, CInv, CTypeOK, driver, Outcome
  <2>3. QED
    BY ZenonT(40), <1>3, <2>2, AwayStep
       DEF FetchThrows, Throws, CInv, CTypeOK, driver, Reading, OnlyCounters, OnlyRest
<1>4. ASSUME NEW r \in {"success", "error"}, Close(q, r) PROVE CInv'
  <2>1. CTypeOK'
    BY <1>4, Blank DEF Close, CInv, CTypeOK, counters, Outcome
  <2>2. QED
    BY <1>4, <2>1, AwayStep
       DEF Close, CInv, CTypeOK, counters, Reading, OnlyCounters, OnlyRest
<1>5. QED  BY <1>1, <1>2, <1>3, <1>4

\* Both ways Fetch has of saying that there is no more data.
LEMMA EndStep ==
  ASSUME CInv, NEW q \in Query, FetchPastEnd(q) \/ FetchNoData(q)
  PROVE  CInv'
<1> USE NoRowsAssumption, MaxSizeAssumption
<1>1. loop' = [loop EXCEPT ![q] = "ended"] /\ got' = got
  BY DEF FetchPastEnd, FetchNoData, Answers
<1>2. /\ loop' \in [Query -> {"idle", "fetching", "ended", "thrown"}]
      /\ got' \in [Query -> Seq(0 .. MaxSize)]
      /\ RowsInOrder'
      /\ \A p \in Query : Handed(p)'
  BY <1>1, NoRowTaken DEF FetchPastEnd, FetchNoData, CallsDriver, counters
<1>3. CTypeOK'
  <2>1. Cleared(q) \in [Cell -> 0 .. MaxSize]
    BY Blank DEF Cleared, CInv, CTypeOK
  <2>2. CASE FetchPastEnd(q)
    BY <1>2, <2>2 DEF FetchPastEnd, CInv, CTypeOK, counters, driver
  <2>3. CASE FetchNoData(q)
    BY <1>2, <2>1, <2>3, Blank DEF FetchNoData, CInv, CTypeOK, driver, Outcome
  <2>4. QED  BY <2>2, <2>3
<1>4. Positions(q)' /\ Buffer(q)'
  <2>1. CASE FetchPastEnd(q)
    BY <2>1 DEF FetchPastEnd, CInv, Positions, Buffer, InBatch, counters, driver
  <2>2. CASE FetchNoData(q)
    <3>1. rowsDone[q] = totalRowsRead[q] /\ pos[q] = size[q] /\ pos[q] = totalRowsRead[q]
      BY <2>2 DEF FetchNoData, CallsDriver, Batch, InBatch, CInv, CTypeOK, Positions
    <3>2. QED
      BY <2>2, <3>1 DEF FetchNoData, CInv, CTypeOK, Positions, Buffer, InBatch, driver
  <2>3. QED  BY <2>1, <2>2
<1>5. \A p \in Query \ {q} : Positions(p)' /\ Buffer(p)'
  BY <1>1, Others DEF FetchPastEnd, FetchNoData, CInv, CTypeOK, counters, driver
<1>6. QED
  BY <1>2, <1>3, <1>4, <1>5 DEF CInv

\* Statements of other queries, transactions, and steps of nobody.
LEMMA OutsideStep ==
  ASSUME CInv, result' \in Outcome,
         UNCHANGED <<isOpen, counters, data, driver, caller>>
  PROVE  CInv'
<1>1. \A p \in Query : Positions(p)' /\ Buffer(p)'
  BY Others DEF counters, driver, caller
<1>2. QED
  BY <1>1 DEF CInv, CTypeOK, RowsInOrder, Handed, Reading, counters, driver, caller

LEMMA CStep == CInv /\ [CNext]_cvars => CInv'
<1> SUFFICES ASSUME CInv, [CNext]_cvars PROVE CInv'
  OBVIOUS
<1>1. ASSUME NEW q \in Query, NEW n \in 0 .. MaxSize,
             NEW r \in {"success", "info"}, Exec(q, n, r)
      PROVE  CInv'
  BY <1>1, ExecStep
<1>2. ASSUME NEW q \in Query, Fetch(q) PROVE CInv'
  BY <1>2, FromBatchStep, NextBatchStep, EndStep, LeavingStep DEF Fetch
<1>3. ASSUME NEW q \in Query,
             \/ ExecThrows(q) \/ ExecAgain(q)
             \/ \E r \in {"success", "error"} : Close(q, r)
      PROVE  CInv'
  BY <1>3, LeavingStep
<1>4. CASE \E r \in Outcome : Statement(r) \/ EndTran(r)
  BY <1>4, OutsideStep DEF Statement, EndTran
<1>5. CASE UNCHANGED cvars
  BY <1>5, OutsideStep DEF cvars, CInv, CTypeOK
<1>6. QED
  BY <1>1, <1>2, <1>3, <1>4, <1>5 DEF CNext

LEMMA CInvariance == CSpec => []CInv
BY InitInv, CStep, PTL DEF CSpec

-----------------------------------------------------------------------------
\* Every variable keeps its type, and the index of a row stays in the buffer.
THEOREM CursorsTyped == CSpec => []CTypeOK
<1>1. CInv => CTypeOK
  BY DEF CInv
<1>2. QED  BY <1>1, CInvariance, PTL

\* No loop gets a row twice, out of order or from a cleared buffer.
THEOREM RowsKeepOrder == CSpec => []RowsInOrder
<1>1. CInv => RowsInOrder
  BY DEF CInv
<1>2. QED  BY <1>1, CInvariance, PTL

\* The end of data is recorded only after the last row of the last batch.
THEOREM EndComesLast == CSpec => []EndOnlyAfterLastRow
<1>1. CInv => EndOnlyAfterLastRow
  BY DEF CInv, Positions, EndOnlyAfterLastRow
<1>2. QED  BY <1>1, CInvariance, PTL

-----------------------------------------------------------------------------
LEMMA LongerByOne ==
  ASSUME CInv, NEW q \in Query, NEW row, got' = [got EXCEPT ![q] = Append(@, row)]
  PROVE  Len(got'[q]) = Len(got[q]) + 1
BY DEF CInv, CTypeOK

\* As long as the others leave the result of the connector in order, each row
\* that leaves the buffer goes to the caller.
THEOREM NothingSwallowed == CSpec => NoRowSwallowed
<1>1. ASSUME CInv, NEW q \in Query, Fetch(q), result \in {"success", "info"}
      PROVE  rowsDone'[q] - rowsDone[q] = Len(got'[q]) - Len(got[q])
  <2>1. rowsDone[q] \in Int /\ Len(got[q]) \in Int
    BY <1>1, MaxSizeAssumption DEF CInv, CTypeOK
  <2>2. CASE FetchFromBatch(q)
    <3>1. rowsDone'[q] = rowsDone[q] + 1
      BY <1>1, <2>2 DEF FetchFromBatch, CInv, CTypeOK
    <3>2. Len(got'[q]) = Len(got[q]) + 1
      BY <1>1, <2>2, LongerByOne DEF FetchFromBatch, Answers, Allow
    <3>3. QED  BY <2>1, <3>1, <3>2
  <2>3. ASSUME NEW r \in {"success", "info"}, FetchNextBatch(q, r)
        PROVE  rowsDone'[q] - rowsDone[q] = Len(got'[q]) - Len(got[q])
    <3>1. rowsDone'[q] = rowsDone[q] + 1
      BY <2>3, <1>1 DEF FetchNextBatch, CInv, CTypeOK
    <3>2. Len(got'[q]) = Len(got[q]) + 1
      BY <1>1, <2>3, LongerByOne DEF FetchNextBatch, Answers, Allow
    <3>3. QED  BY <2>1, <3>1, <3>2
  <2>4. CASE FetchPastEnd(q) \/ FetchNoData(q) \/ FetchThrows(q)
    <3>1. rowsDone' = rowsDone /\ got' = got
      BY <2>4 DEF FetchPastEnd, FetchNoData, FetchThrows, Answers, Throws, counters
    <3>2. QED  BY <2>1, <3>1
  <2>5. QED
    BY <1>1, <2>2, <2>3, <2>4 DEF Fetch
<1>2. CInv => \A q \in Query :
               Fetch(q) /\ result \in {"success", "info"}
               => rowsDone'[q] - rowsDone[q] = Len(got'[q]) - Len(got[q])
  BY <1>1
<1>3. QED
  BY <1>2, CInvariance, PTL DEF NoRowSwallowed

-----------------------------------------------------------------------------
(***************************************************************************)
(* The refinement.  size and seen of RowStream are the values of size and  *)
(* rowsDone while the query is read, and 0 otherwise.                      *)
(***************************************************************************)
SizeBar == [q \in Query |-> IF Reading(q) THEN size[q] ELSE 0]
SeenBar == [q \in Query |-> IF Reading(q) THEN rowsDone[q] ELSE 0]

\* A step of q, as the abstract variables see it.
LEMMA BarOfStep ==
  ASSUME NEW q \in Query, OnlyCounters(q), OnlyRest(q)
  PROVE  /\ SizeBar' = [SizeBar EXCEPT ![q] = IF Reading(q)' THEN size'[q] ELSE 0]
         /\ SeenBar' = [SeenBar EXCEPT ![q] = IF Reading(q)' THEN rowsDone'[q] ELSE 0]
BY DEF SizeBar, SeenBar, OnlyCounters, OnlyRest, Reading

LEMMA BarOfQuery ==
  ASSUME NEW q \in Query
  PROVE  /\ SizeBar[q] = IF Reading(q) THEN size[q] ELSE 0
         /\ SeenBar[q] = IF Reading(q) THEN rowsDone[q] ELSE 0
BY DEF SizeBar, SeenBar

LEMMA StepOfOne ==
  ASSUME CInv, NEW q \in Query,
         \/ \E n \in 0 .. MaxSize, r \in {"success", "info"} : Exec(q, n, r)
         \/ ExecThrows(q) \/ ExecAgain(q) \/ Fetch(q)
         \/ \E r \in {"success", "error"} : Close(q, r)
  PROVE  OnlyCounters(q) /\ OnlyRest(q)
<1>1. OnlyCounters(q)
  <2>1. CASE UNCHANGED counters
    BY <2>1 DEF counters, OnlyCounters
  <2>2. CASE ResetCounters(q)
    BY <2>2, ResetOnly
  <2>3. CASE Fetch(q)
    BY <2>3 DEF Fetch, FetchFromBatch, FetchPastEnd, FetchNextBatch, FetchNoData,
                FetchThrows, OnlyCounters, counters, CInv, CTypeOK
  <2>4. QED
    BY <2>1, <2>2, <2>3 DEF Exec, ExecThrows, ExecAgain, Close, counters
<1>2. OnlyRest(q)
  <2>1. CASE Fetch(q)
    BY SMTT(30), <2>1 DEF Fetch, FetchFromBatch, FetchPastEnd, FetchNextBatch, FetchNoData,
                FetchThrows, Answers, Throws, OnlyRest, driver, CInv, CTypeOK
  <2>2. CASE ExecThrows(q) \/ ExecAgain(q)
    BY <2>2 DEF ExecThrows, ExecAgain, Throws, OnlyRest, driver, CInv, CTypeOK
  <2>3. CASE \/ \E n \in 0 .. MaxSize, r \in {"success", "info"} : Exec(q, n, r)
             \/ \E r \in {"success", "error"} : Close(q, r)
    BY <2>3 DEF Exec, Close, OnlyRest, CInv, CTypeOK
  <2>4. QED  BY <2>1, <2>2, <2>3
<1>3. QED  BY <1>1, <1>2

\* Batches, buffer and shared connector implement streams of single rows.
THEOREM CursorsAreStreams == CSpec => ImplementsRowStream
<1>1. CInit => Stream!SInit
  BY DEF CInit, Stream!SInit, Reading
<1>2. ASSUME CInv, [CNext]_cvars
      PROVE  [Stream!SNext]_Stream!svars
  <2>1. CASE \/ UNCHANGED cvars
             \/ \E r \in Outcome : Statement(r) \/ EndTran(r)
    <3>1. UNCHANGED <<loop, got, size, rowsDone>>
      BY <2>1 DEF cvars, Statement, EndTran, counters, driver, caller
    <3>2. QED
      BY <3>1 DEF Stream!svars, Reading
  <2>2. ASSUME NEW q \in Query, NEW n \in 0 .. MaxSize,
               NEW r \in {"success", "info"}, Exec(q, n, r)
        PROVE  Stream!Start(q, n)
    <3>1. Reading(q)' /\ ~Reading(q) /\ size'[q] = n /\ rowsDone'[q] = 0
      BY <1>2, <2>2 DEF Exec, ResetCounters, CInv, CTypeOK, Reading
    <3>2. SizeBar' = [SizeBar EXCEPT ![q] = n] /\ SeenBar' = [SeenBar EXCEPT ![q] = 0]
      BY <1>2, <2>2, <3>1, StepOfOne, BarOfStep
    <3>3. SeenBar' = SeenBar
      BY <3>1, <3>2 DEF SeenBar
    <3>4. QED
      BY <2>2, <3>2, <3>3 DEF Exec, Stream!Start, SizeBar, SeenBar
  <2>3. ASSUME NEW q \in Query, NEW r \in {"success", "error"}, Close(q, r)
        PROVE  Stream!Stop(q)
    <3>1. ~Reading(q)'
      BY <1>2, <2>3 DEF Close, CInv, CTypeOK, Reading
    <3>2. SizeBar' = [SizeBar EXCEPT ![q] = 0] /\ SeenBar' = [SeenBar EXCEPT ![q] = 0]
      BY <1>2, <2>3, <3>1, StepOfOne, BarOfStep
    <3>3. QED
      BY <2>3, <3>2 DEF Close, Stream!Stop, SizeBar, SeenBar
  <2>4. ASSUME NEW q \in Query, ExecThrows(q) \/ ExecAgain(q) \/ Fetch(q),
               Throws(q), loop[q] # "thrown"
        PROVE  Stream!Throw(q)
    <3>1. ~Reading(q)'
      BY <1>2, <2>4 DEF Throws, CInv, CTypeOK, Reading
    <3>2. SizeBar' = [SizeBar EXCEPT ![q] = 0] /\ SeenBar' = [SeenBar EXCEPT ![q] = 0]
      BY <1>2, <2>4, <3>1, StepOfOne, BarOfStep
    <3>3. QED
      BY <2>4, <3>2 DEF Throws, Stream!Throw, SizeBar, SeenBar
  <2>5. ASSUME NEW q \in Query, NEW r \in Outcome, Fetch(q), Reading(q),
               r # "error", UNCHANGED size,
               rowsDone' = [rowsDone EXCEPT ![q] = @ + 1],
               data'[q][rowsIndex'[q]] = rowsDone[q] + 1,
               rowsDone[q] < size[q],
               Answers(q, r)
        PROVE  Stream!Return(q) \/ Stream!Skip(q)
    <3>1. Reading(q)' /\ rowsDone'[q] = rowsDone[q] + 1
      BY <1>2, <2>5 DEF Answers, Allow, CInv, CTypeOK, Reading
    <3>2. SizeBar[q] = size[q] /\ SeenBar[q] = rowsDone[q]
      BY <2>5 DEF SizeBar, SeenBar
    <3>3. SizeBar' = SizeBar /\ SeenBar' = [SeenBar EXCEPT ![q] = @ + 1]
      <4>1. SizeBar' = [SizeBar EXCEPT ![q] = size[q]]
            /\ SeenBar' = [SeenBar EXCEPT ![q] = rowsDone[q] + 1]
        BY <1>2, <2>5, <3>1, StepOfOne, BarOfStep
      <4>2. QED  BY <3>2, <4>1 DEF SizeBar, SeenBar
    <3>4. CASE r = "nodata"
      BY <2>5, <3>2, <3>3, <3>4 DEF Stream!Skip, Answers, SizeBar, SeenBar, Stream!Reading, Reading
    <3>5. CASE r # "nodata"
      BY <2>5, <3>2, <3>3, <3>5
         DEF Stream!Return, Answers, Allow, SizeBar, SeenBar, Stream!Reading, Reading
    <3>6. QED  BY <3>4, <3>5
  <2>6. ASSUME NEW q \in Query, FetchPastEnd(q) \/ FetchNoData(q)
        PROVE  Stream!End(q)
    <3>1. /\ loop' = [loop EXCEPT ![q] = "ended"] /\ Reading(q)
          /\ UNCHANGED <<got, size, rowsDone>>
      BY <2>6 DEF FetchPastEnd, FetchNoData, CallsDriver, Answers, counters, driver
    <3>2. rowsDone[q] = size[q]
      <4>1. CASE FetchPastEnd(q)
        BY <1>2, <4>1 DEF FetchPastEnd, CInv, Positions
      <4>2. CASE FetchNoData(q)
        BY <1>2, <4>2, NoRowsAssumption, MaxSizeAssumption
           DEF FetchNoData, CallsDriver, Batch, InBatch, CInv, CTypeOK, Positions
      <4>3. QED  BY <2>6, <4>1, <4>2
    <3>3. SizeBar' = SizeBar /\ SeenBar' = SeenBar /\ SizeBar[q] = SeenBar[q]
      <4>1. \A p \in Query : Reading(p)' <=> Reading(p)
        BY <1>2, <3>1 DEF Reading, CInv, CTypeOK
      <4>2. QED  BY <3>1, <3>2, <4>1 DEF SizeBar, SeenBar
    <3>4. QED
      BY <3>1, <3>3 DEF Stream!End, Stream!Reading, Reading, SizeBar, SeenBar
  <2>7. ASSUME NEW q \in Query, FetchFromBatch(q)
        PROVE  Stream!Return(q) \/ Stream!Skip(q) \/ Stream!Throw(q)
    <3>1. /\ data'[q][rowsIndex'[q]] = rowsDone[q] + 1
          /\ rowsDone[q] < size[q]
      <4>1. /\ rowsIndex[q] + 1 \in Cell
            /\ data[q][rowsIndex[q] + 1] = rowsDone[q] + 1
            /\ rowsDone[q] + 1 \in 1 .. size[q]
        BY <1>2, <2>7, NextInBatch DEF FetchFromBatch
      <4>2. rowsIndex'[q] = rowsIndex[q] + 1 /\ data' = data
            /\ rowsDone[q] \in 0 .. MaxSize /\ size[q] \in 0 .. MaxSize
        BY <1>2, <2>7 DEF FetchFromBatch, CInv, CTypeOK
      <4>3. QED  BY <4>1, <4>2, MaxSizeAssumption
    <3>2. CASE result = "error"
      BY <2>4, <2>7, <3>2 DEF Fetch, FetchFromBatch, Answers, Allow, Throws, Reading
    <3>3. CASE result # "error"
      BY <1>2, <2>5, <2>7, <3>1, <3>3 DEF Fetch, FetchFromBatch, driver, CInv, CTypeOK
    <3>4. QED  BY <3>2, <3>3
  <2>8. ASSUME NEW q \in Query, NEW r \in {"success", "info"}, FetchNextBatch(q, r)
        PROVE  Stream!Return(q) \/ Stream!Skip(q)
    <3>1. /\ data'[q][rowsIndex'[q]] = rowsDone[q] + 1
          /\ rowsDone[q] < size[q]
      BY <1>2, <2>8, FirstOfBatch
    <3>2. QED
      BY <2>5, <2>8, <3>1 DEF Fetch, FetchNextBatch, CallsDriver, Outcome
  <2>9. ASSUME NEW q \in Query, ExecThrows(q) \/ ExecAgain(q) \/ FetchThrows(q)
        PROVE  Stream!Throw(q)
    BY <2>4, <2>9 DEF ExecThrows, ExecAgain, Fetch, FetchThrows, CallsDriver, Reading
  <2>10. QED
    BY <1>2, <2>1, <2>2, <2>3, <2>6, <2>7, <2>8, <2>9 DEF CNext, Fetch, Stream!SNext
<1>3. QED
  BY <1>1, <1>2, CInvariance, PTL DEF CSpec, ImplementsRowStream, Stream!SSpec
=============================================================================
