------------------------- MODULE BulkDeliver_proofs -------------------------
(***************************************************************************)
(* Proofs about the bulk insert, for any size of buffer and any number of  *)
(* rows.                                                                   *)
(*                                                                         *)
(* The invariant says what waits in the buffer of a tidy caller: the last  *)
(* rowsIndex rows it put in, in order.  All rows in the table come before  *)
(* them, and, if nothing went wrong, all rows before them are there.       *)
(***************************************************************************)
EXTENDS BulkDeliver, SequenceTheorems, TLAPS

\* The rows of s are in order and none is above m.
InOrder(s, m) ==
  /\ \A i \in DOMAIN s : s[i] \in 1 .. m
  /\ \A i, j \in DOMAIN s : i < j => s[i] < s[j]

\* How many rows of a tidy caller are no longer waiting.
Passed == IF call = "filling" THEN filled - rowsIndex ELSE filled

Waiting ==
  call = "filling" =>
    /\ rowsIndex <= filled
    /\ \A i \in 0 .. rowsIndex - 1 : data[i] = filled - rowsIndex + i + 1

Fresh == call = "new" => filled = 0 /\ rowsIndex = 0 /\ table = <<>>

Complete ==
  ~disturbed /\ call \in {"filling", "done"} =>
    Len(table) = Passed /\ \A i \in DOMAIN table : table[i] = i

BInv ==
  /\ BTypeOK
  /\ tidy => Waiting /\ Fresh /\ InOrder(table, Passed) /\ Complete
  /\ BatchesCommitted

LEMMA InitHolds == BInit => BInv
BY BulkAssumption
   DEF BInit, BInv, BTypeOK, Waiting, Fresh, InOrder, Passed, Complete,
       BatchesCommitted, Outcome, Cell, Empty

-----------------------------------------------------------------------------
(* What a send of k rows does to the table.                                *)

LEMMA Sent ==
  ASSUME NEW s \in Seq(0 .. MaxRows), NEW buffer \in [Cell -> 0 .. MaxRows],
         NEW k \in 0 .. MaxNoRows
  PROVE  LET t == s \o Rows(buffer, k)
         IN  /\ t \in Seq(0 .. MaxRows)
             /\ Len(t) = Len(s) + k
             /\ \A i \in 1 .. Len(s) : t[i] = s[i]
             /\ \A i \in 1 .. k : t[Len(s) + i] = buffer[i - 1]
<1> DEFINE r == Rows(buffer, k)
<1>1. r \in Seq(0 .. MaxRows) /\ Len(r) = k /\ \A i \in 1 .. k : r[i] = buffer[i - 1]
  BY BulkAssumption DEF Rows, Cell
<1> HIDE DEF r
<1>2. s \o r \in Seq(0 .. MaxRows) /\ Len(s \o r) = Len(s) + k
  BY <1>1
<1>3. \A i \in 1 .. Len(s) : (s \o r)[i] = s[i]
  BY <1>1
<1>4. \A i \in 1 .. k : (s \o r)[Len(s) + i] = r[i]
  BY <1>1
<1>5. QED
  BY <1>1, <1>2, <1>3, <1>4 DEF r

LEMMA SentInOrder ==
  ASSUME NEW s \in Seq(0 .. MaxRows), NEW buffer \in [Cell -> 0 .. MaxRows],
         NEW k \in 0 .. MaxNoRows, NEW m \in Nat,
         InOrder(s, m), \A i \in 0 .. k - 1 : buffer[i] = m + i + 1
  PROVE  LET t == s \o Rows(buffer, k)
         IN  /\ InOrder(t, m + k)
             /\ Len(s) = m /\ (\A i \in DOMAIN s : s[i] = i)
                => \A i \in DOMAIN t : t[i] = i
<1> DEFINE t == s \o Rows(buffer, k)
<1>1. /\ t \in Seq(0 .. MaxRows)
      /\ Len(t) = Len(s) + k
      /\ \A i \in 1 .. Len(s) : t[i] = s[i]
      /\ \A i \in 1 .. k : t[Len(s) + i] = buffer[i - 1]
  BY Sent
<1> HIDE DEF t
<1>2. \A i \in DOMAIN t : i \in 1 .. Len(s) \/ i - Len(s) \in 1 .. k
  BY <1>1, BulkAssumption
<1>3. \A i \in DOMAIN t : i - Len(s) \in 1 .. k => t[i] = m + i - Len(s)
  <2> SUFFICES ASSUME NEW i \in DOMAIN t, i - Len(s) \in 1 .. k
               PROVE  t[i] = m + i - Len(s)
    OBVIOUS
  <2>1. i \in Nat /\ Len(s) \in Nat /\ i - Len(s) - 1 \in 0 .. k - 1
    BY <1>1, SMTT(30)
  <2>2. t[Len(s) + (i - Len(s))] = buffer[i - Len(s) - 1]
    BY <1>1
  <2>3. Len(s) + (i - Len(s)) = i
    BY <2>1
  <2>4. QED
    BY <2>1, <2>2, <2>3
<1>4. \A i \in DOMAIN t : i \in 1 .. Len(s) => t[i] = s[i] /\ i \in DOMAIN s
  BY <1>1
<1>5. \A i \in DOMAIN t : t[i] \in 1 .. m + k
  BY <1>1, <1>2, <1>3, <1>4, SMTT(30) DEF InOrder
<1>6. ASSUME NEW i \in DOMAIN t, NEW j \in DOMAIN t, i < j PROVE t[i] < t[j]
  <2>0. i \in Nat /\ j \in Nat /\ Len(s) \in Nat
    BY <1>1
  <2>1. CASE j \in 1 .. Len(s)
    <3>1. i \in 1 .. Len(s)
      BY <2>0, <2>1, <1>1, <1>6
    <3>2. t[i] = s[i] /\ t[j] = s[j] /\ i \in DOMAIN s /\ j \in DOMAIN s
      BY <2>1, <3>1, <1>4
    <3>3. QED  BY <3>2, <1>6 DEF InOrder
  <2>2. CASE j - Len(s) \in 1 .. k /\ i \in 1 .. Len(s)
    <3>1. t[i] \in 1 .. m /\ t[j] = m + j - Len(s)
      BY <2>2, <1>3, <1>4 DEF InOrder
    <3>2. QED  BY <2>0, <2>2, <3>1
  <2>3. CASE j - Len(s) \in 1 .. k /\ i - Len(s) \in 1 .. k
    BY <2>0, <2>3, <1>3, <1>6
  <2>4. QED
    BY <2>1, <2>2, <2>3, <1>2
<1>7. ASSUME Len(s) = m, \A i \in DOMAIN s : s[i] = i, NEW i \in DOMAIN t
      PROVE  t[i] = i
  <2>1. i \in Nat  BY <1>1
  <2>2. QED  BY <2>1, <1>2, <1>3, <1>4, <1>7
<1>8. QED
  BY <1>5, <1>6, <1>7 DEF InOrder, t

\* OCIStmtExecute sends some k of the n rows: all of them when the answer is
\* success.
SendsSome(buffer, n) ==
  \E k \in 0 .. n : /\ table' = table \o Rows(buffer, k)
                    /\ result' = "success" => k = n

LEMMA ExecuteSends ==
  ASSUME NEW buffer, NEW n \in 0 .. MaxNoRows, Execute(buffer, n)
  PROVE  /\ SendsSome(buffer, n)
         /\ result' \in Outcome /\ rowsIndex' = 0
         /\ durable' = durable \/ durable' = Len(table')
         /\ result' = "success" /\ doCommit => durable' = Len(table')
<1>1. \E k \in 0 .. n : /\ table' = table \o Rows(buffer, k)
                        /\ result' = "success" => k = n
  <2>1. CASE n > 0 /\ table' = table \o Rows(buffer, n)
    BY <2>1
  <2>2. CASE /\ \E k \in 0 .. n : (k < n \/ n = 0) /\ table' = table \o Rows(buffer, k)
             /\ result' = "error"
    BY <2>2
  <2>3. QED
    BY <2>1, <2>2 DEF Execute
<1>2. QED
  BY <1>1 DEF Execute, Commits, Outcome, SendsSome

LEMMA ExecuteTypes ==
  ASSUME BTypeOK, NEW buffer \in [Cell -> 0 .. MaxRows], NEW n \in 0 .. MaxNoRows,
         Execute(buffer, n)
  PROVE  /\ table' \in Seq(0 .. MaxRows) /\ durable' \in 0 .. Len(table')
         /\ result' \in Outcome /\ rowsIndex' = 0
<1>1. PICK k \in 0 .. n : table' = table \o Rows(buffer, k)
  BY ExecuteSends DEF SendsSome
<1>2. k \in 0 .. MaxNoRows /\ table \in Seq(0 .. MaxRows) /\ durable \in 0 .. Len(table)
  BY BulkAssumption DEF BTypeOK
<1>3. table' \in Seq(0 .. MaxRows) /\ Len(table') = Len(table) + k
  BY <1>1, <1>2, Sent
<1>4. durable' = durable \/ durable' = Len(table')
  BY ExecuteSends
<1>5. QED
  BY <1>2, <1>3, <1>4, ExecuteSends

\* The n rows that wait, the last of which has number m + n, are sent.
LEMMA ExecuteKeepsOrder ==
  ASSUME BTypeOK, NEW buffer \in [Cell -> 0 .. MaxRows], NEW n \in 0 .. MaxNoRows,
         NEW m \in Nat, Execute(buffer, n),
         InOrder(table, m), \A i \in 0 .. n - 1 : buffer[i] = m + i + 1
  PROVE  /\ InOrder(table', m + n)
         /\ /\ result' = "success"
            /\ Len(table) = m /\ (\A i \in DOMAIN table : table[i] = i)
            => Len(table') = m + n /\ \A i \in DOMAIN table' : table'[i] = i
<1>1. PICK k \in 0 .. n : /\ table' = table \o Rows(buffer, k)
                          /\ result' = "success" => k = n
  <2>1. SendsSome(buffer, n)
    BY ExecuteSends
  <2>2. QED  BY <2>1 DEF SendsSome
<1>2. k \in 0 .. MaxNoRows /\ table \in Seq(0 .. MaxRows)
      /\ \A i \in 0 .. k - 1 : buffer[i] = m + i + 1
  BY BulkAssumption DEF BTypeOK
<1>3. /\ InOrder(table', m + k)
      /\ Len(table) = m /\ (\A i \in DOMAIN table : table[i] = i)
           => \A i \in DOMAIN table' : table'[i] = i
  BY <1>1, <1>2, SentInOrder
<1>4. Len(table') = Len(table) + k
  BY <1>1, <1>2, Sent
<1>5. InOrder(table', m + n)
  BY <1>3 DEF InOrder
<1>6. QED
  BY <1>1, <1>3, <1>4, <1>5

-----------------------------------------------------------------------------
(* The steps of the caller.                                                *)

LEMMA FillStep == BInv /\ Fill => BInv'
<1> SUFFICES ASSUME BInv, Fill PROVE BInv'
  OBVIOUS
<1> USE BulkAssumption
<1>1. /\ BTypeOK /\ BatchesCommitted
      /\ rowsIndex \in Cell /\ rowsIndex + 1 \in 0 .. MaxNoRows
      /\ filled' = filled + 1 /\ filled' \in 0 .. MaxRows
  BY DEF BInv, BTypeOK, Cell, Fill
<1>2. data' = [data EXCEPT ![rowsIndex] = filled + 1] /\ data' \in [Cell -> 0 .. MaxRows]
  BY <1>1 DEF BTypeOK, Fill
<1>3. /\ call' = "filling" /\ Answers
      /\ UNCHANGED <<isOpen, doCommit, noRows, tidy>>
  BY DEF Fill, habit
<1>4. ASSUME tidy
      PROVE  /\ call = "filling" /\ rowsIndex <= filled
             /\ InOrder(table, filled - rowsIndex)
             /\ filled - rowsIndex \in Nat
             /\ \A i \in 0 .. rowsIndex : data'[i] = filled - rowsIndex + i + 1
             /\ ~disturbed => /\ Len(table) = filled - rowsIndex
                              /\ \A i \in DOMAIN table : table[i] = i
  <2>1. call = "filling"
    BY <1>4 DEF Fill, MayGoOn
  <2>2. Waiting /\ InOrder(table, filled - rowsIndex) /\ Complete
    BY <1>4, <2>1 DEF BInv, Passed
  <2>3. ASSUME NEW i \in 0 .. rowsIndex
        PROVE  data'[i] = filled - rowsIndex + i + 1
    <3>1. i \in Cell  BY <1>1 DEF Cell
    <3>2. QED  BY <1>1, <1>2, <2>1, <2>2, <3>1 DEF Waiting, BTypeOK
  <2>4. rowsIndex <= filled /\ filled - rowsIndex \in Nat
    BY <1>1, <2>1, <2>2 DEF Waiting, BTypeOK
  <2>5. ~disturbed => Len(table) = filled - rowsIndex /\ \A i \in DOMAIN table : table[i] = i
    BY <2>1, <2>2 DEF Complete, Passed
  <2>6. QED
    BY <2>1, <2>2, <2>3, <2>4, <2>5
<1>5. CASE Full
  <2>1. Execute(data', rowsIndex + 1)
    BY <1>5 DEF Fill
  <2>2. BTypeOK'
    <3>1. /\ table' \in Seq(0 .. MaxRows) /\ durable' \in 0 .. Len(table')
          /\ result' \in Outcome /\ rowsIndex' = 0
      BY <1>1, <1>2, <2>1, ExecuteTypes
    <3>2. QED
      BY <1>1, <1>2, <1>3, <3>1 DEF BTypeOK, Answers
  <2>3. BatchesCommitted'
    BY <1>1, <1>3, <2>1, ExecuteSends DEF BatchesCommitted, Answers
  <2>4. ASSUME tidy' PROVE (Waiting /\ Fresh /\ InOrder(table, Passed) /\ Complete)'
    <3>1. rowsIndex' = 0 /\ Passed' = filled + 1
      BY <1>1, <1>3, <2>1, ExecuteSends DEF Passed, BTypeOK
    <3>2. \A i \in 0 .. (rowsIndex + 1) - 1 : data'[i] = filled - rowsIndex + i + 1
      BY <1>1, <1>3, <1>4, <2>4 DEF Cell
    <3>3. filled - rowsIndex + (rowsIndex + 1) = filled + 1
      BY <1>1 DEF BTypeOK
    <3>4. /\ InOrder(table', filled + 1)
          /\ /\ result' = "success"
             /\ Len(table) = filled - rowsIndex /\ (\A i \in DOMAIN table : table[i] = i)
             => Len(table') = filled + 1 /\ \A i \in DOMAIN table' : table'[i] = i
      <4> DEFINE m == filled - rowsIndex
                 n == rowsIndex + 1
      <4>1. m \in Nat /\ InOrder(table, m) /\ n \in 0 .. MaxNoRows
        BY <1>1, <1>3, <1>4, <2>4
      <4>2. m + n = filled + 1 /\ \A i \in 0 .. n - 1 : data'[i] = m + i + 1
        BY <3>2, <3>3
      <4>3. Execute(data', n)
        BY <2>1
      <4> HIDE DEF m, n
      <4>4. /\ InOrder(table', m + n)
            /\ /\ result' = "success"
               /\ Len(table) = m /\ (\A i \in DOMAIN table : table[i] = i)
               => Len(table') = m + n /\ \A i \in DOMAIN table' : table'[i] = i
        BY <1>1, <1>2, <4>1, <4>2, <4>3, ExecuteKeepsOrder
      <4>5. QED  BY <4>2, <4>4 DEF m
    <3>5. ~disturbed' => ~disturbed /\ result' = "success"
      BY <1>1, <1>3 DEF Answers, BTypeOK
    <3>6. QED
      BY <1>1, <1>3, <1>4, <2>4, <3>1, <3>4, <3>5 DEF Waiting, Fresh, Complete
  <2>5. QED
    BY <2>2, <2>3, <2>4 DEF BInv
<1>6. CASE ~Full
  <2>1. /\ rowsIndex' = rowsIndex + 1 /\ rowsIndex + 1 < noRows
        /\ UNCHANGED <<result, table, durable>>
    BY <1>1, <1>6 DEF Fill, Defer, Full, database, BTypeOK
  <2>2. BTypeOK'
    BY <1>1, <1>2, <1>3, <2>1 DEF BTypeOK, Answers
  <2>3. BatchesCommitted'
    BY <1>1, <1>3, <2>1 DEF BatchesCommitted, Answers
  <2>4. ASSUME tidy' PROVE (Waiting /\ Fresh /\ InOrder(table, Passed) /\ Complete)'
    <3>1. filled' - rowsIndex' = filled - rowsIndex
      BY <1>1, <2>1 DEF BTypeOK
    <3>2. Passed' = filled - rowsIndex
      BY <1>3, <3>1 DEF Passed
    <3>3. Waiting'
      BY <1>1, <1>3, <1>4, <2>1, <2>4, <3>1 DEF Waiting, BTypeOK
    <3>4. ~disturbed' => ~disturbed
      BY <1>1, <1>3 DEF Answers, BTypeOK
    <3>5. QED
      BY <1>3, <1>4, <2>1, <2>4, <3>2, <3>3, <3>4 DEF Fresh, Complete
  <2>5. QED
    BY <2>2, <2>3, <2>4 DEF BInv
<1>7. QED
  BY <1>5, <1>6

LEMMA DoneStep == BInv /\ Done => BInv'
<1> SUFFICES ASSUME BInv, Done PROVE BInv'
  OBVIOUS
<1> USE BulkAssumption
<1>1. /\ BTypeOK /\ BatchesCommitted
      /\ rowsIndex \in 0 .. MaxNoRows /\ data \in [Cell -> 0 .. MaxRows]
  BY DEF BInv, BTypeOK
<1>2. /\ call' = "done" /\ Answers
      /\ UNCHANGED <<isOpen, doCommit, data, filled, noRows, tidy>>
  BY DEF Done, habit
<1>3. ASSUME tidy
      PROVE  /\ InOrder(table, filled - rowsIndex)
             /\ filled - rowsIndex \in Nat
             /\ \A i \in 0 .. rowsIndex - 1 : data[i] = filled - rowsIndex + i + 1
             /\ ~disturbed => /\ Len(table) = filled - rowsIndex
                              /\ \A i \in DOMAIN table : table[i] = i
  <2>1. call = "filling"
    BY <1>3 DEF Done, MayGoOn
  <2>2. Waiting /\ InOrder(table, filled - rowsIndex) /\ Complete
    BY <1>3, <2>1 DEF BInv, Passed
  <2>3. filled - rowsIndex \in Nat
    BY <1>1, <2>1, <2>2 DEF Waiting, BTypeOK
  <2>4. ~disturbed => Len(table) = filled - rowsIndex /\ \A i \in DOMAIN table : table[i] = i
    BY <2>1, <2>2 DEF Complete, Passed
  <2>5. QED
    BY <2>1, <2>2, <2>3, <2>4 DEF Waiting
<1>4. CASE Full \/ rowsIndex > 0
  <2>1. Execute(data, rowsIndex)
    BY <1>4 DEF Done
  <2>2. /\ table' \in Seq(0 .. MaxRows) /\ durable' \in 0 .. Len(table')
        /\ result' \in Outcome /\ rowsIndex' = 0
    BY <1>1, <2>1, ExecuteTypes
  <2>3. BTypeOK'
    BY <1>1, <1>2, <2>2 DEF BTypeOK, Answers
  <2>4. BatchesCommitted'
    BY <1>1, <1>2, <2>1, ExecuteSends DEF BatchesCommitted, Answers
  <2>5. ASSUME tidy' PROVE (Waiting /\ Fresh /\ InOrder(table, Passed) /\ Complete)'
    <3> DEFINE m == filled - rowsIndex
    <3>1. m \in Nat /\ InOrder(table, m) /\ \A i \in 0 .. rowsIndex - 1 : data[i] = m + i + 1
      BY <1>2, <1>3, <2>5
    <3>2. ~disturbed => Len(table) = m /\ \A i \in DOMAIN table : table[i] = i
      BY <1>2, <1>3, <2>5
    <3>3. m + rowsIndex = filled
      BY <1>1 DEF BTypeOK
    <3> HIDE DEF m
    <3>4. /\ InOrder(table', m + rowsIndex)
          /\ /\ result' = "success"
             /\ Len(table) = m /\ (\A i \in DOMAIN table : table[i] = i)
             => Len(table') = m + rowsIndex /\ \A i \in DOMAIN table' : table'[i] = i
      BY <1>1, <2>1, <3>1, ExecuteKeepsOrder
    <3>5. ~disturbed' => ~disturbed /\ result' = "success"
      BY <1>1, <1>2 DEF Answers, BTypeOK
    <3>6. Passed' = filled
      BY <1>2 DEF Passed
    <3>7. QED
      BY <1>2, <3>2, <3>3, <3>4, <3>5, <3>6 DEF Waiting, Fresh, Complete
  <2>6. QED
    BY <2>3, <2>4, <2>5 DEF BInv
<1>5. CASE ~(Full \/ rowsIndex > 0)
  <2>1. /\ rowsIndex = 0 /\ rowsIndex' = 1 /\ 1 < noRows
        /\ UNCHANGED <<result, table, durable>>
    BY <1>1, <1>5 DEF Done, Defer, Full, database, BTypeOK
  <2>2. BTypeOK'
    BY <1>1, <1>2, <2>1 DEF BTypeOK, Answers
  <2>3. BatchesCommitted'
    BY <1>1, <1>2, <2>1 DEF BatchesCommitted, Answers
  <2>4. ASSUME tidy' PROVE (Waiting /\ Fresh /\ InOrder(table, Passed) /\ Complete)'
    <3>1. Passed' = filled /\ filled - rowsIndex = filled
      BY <1>1, <1>2, <2>1 DEF Passed, BTypeOK
    <3>2. ~disturbed' => ~disturbed
      BY <1>1, <1>2 DEF Answers, BTypeOK
    <3>3. QED
      BY <1>2, <1>3, <2>1, <2>4, <3>1, <3>2 DEF Waiting, Fresh, Complete
  <2>5. QED
    BY <2>2, <2>3, <2>4 DEF BInv
<1>6. QED
  BY <1>4, <1>5

LEMMA InitStep ==
  ASSUME BInv, NEW commit \in BOOLEAN, Init(commit) \/ InitThrows(commit)
  PROVE  BInv'
<1> USE BulkAssumption
<1>1. /\ BTypeOK /\ BatchesCommitted
      /\ UNCHANGED <<rowsIndex, table, durable, filled, noRows, tidy>>
      /\ call' \in {"filling", "failed"}
  BY DEF BInv, Init, InitThrows, database, habit
<1>2. BTypeOK'
  <2>1. /\ result' \in Outcome /\ isOpen' \in BOOLEAN /\ doCommit' \in BOOLEAN
        /\ disturbed' \in BOOLEAN
        /\ data' = data \/ data' = Empty
    BY <1>1 DEF BTypeOK, Init, InitThrows, Outcome
  <2>2. Empty \in [Cell -> 0 .. MaxRows]
    BY DEF Empty
  <2>3. QED  BY <1>1, <2>1, <2>2 DEF BTypeOK
<1>3. ASSUME tidy
      PROVE  /\ filled = 0 /\ rowsIndex = 0 /\ table = <<>> /\ durable = 0
             /\ Passed' = 0
  BY <1>1, <1>3 DEF BInv, Fresh, Passed, Init, InitThrows, MayInit, BTypeOK
<1>4. tidy' => (Waiting /\ Fresh /\ InOrder(table, Passed) /\ Complete)'
  BY <1>1, <1>3 DEF Waiting, Fresh, InOrder, Complete
<1>5. BatchesCommitted'
  BY <1>1, <1>3 DEF BatchesCommitted
<1>6. QED
  BY <1>2, <1>4, <1>5 DEF BInv

LEMMA RollbackStep == BInv /\ Rollback => BInv'
<1> SUFFICES ASSUME BInv, Rollback PROVE BInv'
  OBVIOUS
<1> DEFINE kept == SubSeq(table, 1, durable)
<1>1. /\ BTypeOK /\ disturbed' = TRUE
      /\ UNCHANGED <<isOpen, rowsIndex, doCommit, data, durable, call, filled,
                     noRows, tidy>>
      /\ table' = table \/ table' = kept
      /\ result' \in {"success", "error"}
  BY DEF BInv, Rollback, query, habit
<1>2. /\ kept \in Seq(0 .. MaxRows) /\ Len(kept) = durable
      /\ \A i \in 1 .. durable : kept[i] = table[i] /\ i \in DOMAIN table
  <2>1. table \in Seq(0 .. MaxRows) /\ durable \in 0 .. Len(table) /\ Len(table) \in Nat
    BY <1>1 DEF BTypeOK
  <2>2. 1 \in Int /\ durable \in Int /\ \A i \in 1 .. durable : table[i] \in 0 .. MaxRows
    <3>1. \A i \in 1 .. Len(table) : table[i] \in 0 .. MaxRows
      BY <2>1, ElementOfSeq
    <3>2. \A i \in 1 .. durable : i \in 1 .. Len(table)
      BY <2>1
    <3>3. QED  BY <2>1, <3>1, <3>2
  <2>3. /\ kept \in Seq(0 .. MaxRows)
        /\ Len(kept) = IF 1 <= durable THEN durable - 1 + 1 ELSE 0
        /\ \A i \in 1 .. durable - 1 + 1 : kept[i] = table[1 + i - 1]
    BY <2>2, SubSeqProperties
  <2>4. QED  BY <2>1, <2>3
<1> HIDE DEF kept
<1>3. BTypeOK'
  BY <1>1, <1>2 DEF BTypeOK, Outcome
<1>4. Passed' = Passed
  BY <1>1 DEF Passed
<1>5. ASSUME tidy, InOrder(table, Passed) PROVE InOrder(table', Passed)
  <2>1. DOMAIN kept = 1 .. durable
    BY <1>1, <1>2 DEF BTypeOK
  <2>2. InOrder(kept, Passed)
    BY <1>2, <1>5, <2>1 DEF InOrder
  <2>3. QED  BY <1>1, <1>5, <2>2
<1>6. ASSUME tidy, table = <<>> PROVE table' = <<>>
  <2>1. durable = 0
    BY <1>1, <1>6 DEF BTypeOK
  <2>2. QED  BY <1>1, <1>2, <1>6, <2>1
<1>7. tidy' => (Waiting /\ Fresh /\ InOrder(table, Passed) /\ Complete)'
  BY <1>1, <1>4, <1>5, <1>6 DEF BInv, Waiting, Fresh, Complete
<1>8. QED
  BY <1>1, <1>3, <1>7 DEF BInv, BatchesCommitted

LEMMA BStep == BInv /\ [BNext]_bvars => BInv'
<1> SUFFICES ASSUME BInv, [BNext]_bvars PROVE BInv'
  OBVIOUS
<1>1. ASSUME NEW commit \in BOOLEAN, Init(commit) \/ InitThrows(commit) PROVE BInv'
  BY <1>1, InitStep
<1>2. CASE Fill      BY <1>2, FillStep
<1>3. CASE Done      BY <1>3, DoneStep
<1>4. CASE Rollback  BY <1>4, RollbackStep
<1>5. ASSUME NEW r \in {"success", "error"}, Close(r) PROVE BInv'
  <2>1. BTypeOK'
    <3>1. Empty \in [Cell -> 0 .. MaxRows]
      BY BulkAssumption DEF Empty
    <3>2. QED
      BY <1>5, <3>1 DEF BInv, BTypeOK, Close, Outcome, database, habit
  <2>2. tidy' => (Waiting /\ Fresh /\ Complete)' /\ Passed' = filled
    BY <1>5 DEF Close, Waiting, Fresh, Complete, Passed, habit
  <2>3. tidy => InOrder(table, filled)
    BY BulkAssumption DEF BInv, BTypeOK, Passed, InOrder, Waiting
  <2>4. QED
    BY <1>5, <2>1, <2>2, <2>3 DEF BInv, BatchesCommitted, Close, InOrder,
                                  database, habit
<1>6. ASSUME NEW r \in Outcome, Statement(r) PROVE BInv'
  BY <1>6 DEF BInv, BTypeOK, Waiting, Fresh, Passed, Complete, InOrder,
              BatchesCommitted, Statement, query, database, caller, habit
<1>7. CASE Commit
  <2>1. durable' \in 0 .. Len(table) /\ (durable' = durable \/ durable' = Len(table))
    BY <1>7 DEF BInv, BTypeOK, Commit
  <2>2. QED
    BY <1>7, <2>1 DEF BInv, BTypeOK, Waiting, Fresh, Passed, Complete, InOrder,
                      BatchesCommitted, Commit, query, caller, habit, Outcome
<1>8. CASE UNCHANGED bvars
  BY <1>8 DEF BInv, BTypeOK, Waiting, Fresh, Passed, Complete, InOrder,
              BatchesCommitted, bvars, query, database, caller, habit
<1>9. QED
  BY <1>1, <1>2, <1>3, <1>4, <1>5, <1>6, <1>7, <1>8 DEF BNext

LEMMA BulkInvariant == BSpec => []BInv
BY InitHolds, BStep, PTL DEF BSpec

-----------------------------------------------------------------------------
\* rowsIndex stays inside the buffer, so that no Put writes behind it.
THEOREM BulkTyped == BSpec => []BTypeOK
<1>1. BInv => BTypeOK
  BY DEF BInv
<1>2. QED
  BY <1>1, BulkInvariant, PTL

\* No row of a tidy caller arrives twice, out of order or without having been
\* put in, whatever fails.
THEOREM ArrivalOnce == BSpec => []RowsArriveOnce
<1>1. BInv => RowsArriveOnce
  BY BulkAssumption DEF BInv, BTypeOK, RowsArriveOnce, InOrder, Passed
<1>2. QED
  BY <1>1, BulkInvariant, PTL

\* Init, any number of Fills and Done send every row, if none of them throws.
THEOREM NothingLeftBehind == BSpec => []DoneSendsAll
<1>1. BInv => DoneSendsAll
  <2> SUFFICES ASSUME BInv, tidy, call = "done", ~disturbed
               PROVE  table = [i \in 1 .. filled |-> i]
    BY DEF DoneSendsAll
  <2>1. Len(table) = filled /\ \A i \in DOMAIN table : table[i] = i
    BY DEF BInv, Complete, Passed
  <2>2. table \in Seq(0 .. MaxRows)
    BY DEF BInv, BTypeOK
  <2>3. QED
    BY <2>1, <2>2
<1>2. QED
  BY <1>1, BulkInvariant, PTL

\* With Init(1) each batch is committed as it is sent.
THEOREM CommittedAsSent == BSpec => []BatchesCommitted
<1>1. BInv => BatchesCommitted
  BY DEF BInv
<1>2. QED
  BY <1>1, BulkInvariant, PTL
-----------------------------------------------------------------------------
(***************************************************************************)
(* The buffer of a tidy caller is a queue of rows.  What waits in it is    *)
(* Rows(data, rowsIndex); a Fill appends to that, a send takes a prefix of *)
(* it, and nothing else of the query touches it.                           *)
(***************************************************************************)
LEMMA RowsAreSequence ==
  ASSUME NEW buffer \in [Cell -> 0 .. MaxRows], NEW n \in 0 .. MaxNoRows
  PROVE  /\ Rows(buffer, n) \in Seq(0 .. MaxRows) /\ Len(Rows(buffer, n)) = n
         /\ \A i \in 1 .. n : Rows(buffer, n)[i] = buffer[i - 1]
BY BulkAssumption DEF Rows, Cell

LEMMA RowsPrefix ==
  ASSUME NEW buffer \in [Cell -> 0 .. MaxRows], NEW n \in 0 .. MaxNoRows, NEW k \in 0 .. n
  PROVE  SubSeq(Rows(buffer, n), 1, k) = Rows(buffer, k)
<1> DEFINE all == Rows(buffer, n)
           prefix == SubSeq(all, 1, k)
<1>1. /\ all \in Seq(0 .. MaxRows) /\ Len(all) = n /\ k \in 0 .. MaxNoRows
      /\ \A i \in 1 .. n : all[i] = buffer[i - 1]
  BY RowsAreSequence, BulkAssumption
<1> HIDE DEF all
<1>2. \A i \in 1 .. k : i \in 1 .. n /\ all[i] \in 0 .. MaxRows
  <2>1. \A i \in 1 .. n : all[i] \in 0 .. MaxRows
    BY <1>1, ElementOfSeq
  <2>2. \A i \in 1 .. k : i \in 1 .. n
    BY BulkAssumption
  <2>3. QED
    BY <2>1, <2>2
<1>3. /\ prefix \in Seq(0 .. MaxRows)
      /\ Len(prefix) = IF 1 <= k THEN k - 1 + 1 ELSE 0
      /\ \A i \in 1 .. k - 1 + 1 : prefix[i] = all[1 + i - 1]
  BY <1>2, SubSeqProperties
<1>4. Len(prefix) = k /\ \A i \in 1 .. k : prefix[i] = buffer[i - 1]
  BY <1>1, <1>2, <1>3
<1> HIDE DEF prefix
<1>5. /\ Rows(buffer, k) \in Seq(0 .. MaxRows) /\ Len(Rows(buffer, k)) = k
      /\ \A i \in 1 .. k : Rows(buffer, k)[i] = buffer[i - 1]
  BY <1>1, RowsAreSequence
<1>6. prefix = Rows(buffer, k)
  BY <1>3, <1>4, <1>5, SeqEqual
<1>7. QED
  BY <1>6 DEF prefix, all

LEMMA RowsAppend ==
  ASSUME NEW buffer \in [Cell -> 0 .. MaxRows], NEW n \in Cell, NEW row \in 0 .. MaxRows
  PROVE  Append(Rows(buffer, n), row) = Rows([buffer EXCEPT ![n] = row], n + 1)
<1> DEFINE next == [buffer EXCEPT ![n] = row]
<1>1. /\ next \in [Cell -> 0 .. MaxRows] /\ next[n] = row
      /\ \A i \in 1 .. n : next[i - 1] = buffer[i - 1]
      /\ n \in 0 .. MaxNoRows /\ n + 1 \in 0 .. MaxNoRows
  BY BulkAssumption DEF Cell
<1> HIDE DEF next
<1>2. /\ Rows(buffer, n) \in Seq(0 .. MaxRows) /\ Len(Rows(buffer, n)) = n
      /\ \A i \in 1 .. n : Rows(buffer, n)[i] = buffer[i - 1]
  BY <1>1, RowsAreSequence
<1>3. /\ Append(Rows(buffer, n), row) \in Seq(0 .. MaxRows)
      /\ Len(Append(Rows(buffer, n), row)) = n + 1
      /\ \A i \in 1 .. n : Append(Rows(buffer, n), row)[i] = buffer[i - 1]
      /\ Append(Rows(buffer, n), row)[n + 1] = row
  BY <1>2, AppendProperties
<1>4. /\ Rows(next, n + 1) \in Seq(0 .. MaxRows) /\ Len(Rows(next, n + 1)) = n + 1
      /\ \A i \in 1 .. n + 1 : Rows(next, n + 1)[i] = next[i - 1]
  BY <1>1, RowsAreSequence
<1>5. \A i \in 1 .. n + 1 : Append(Rows(buffer, n), row)[i] = Rows(next, n + 1)[i]
  <2> SUFFICES ASSUME NEW i \in 1 .. n + 1
               PROVE  Append(Rows(buffer, n), row)[i] = next[i - 1]
    BY <1>4
  <2>1. CASE i = n + 1
    <3>1. i - 1 = n
      BY <1>1, <2>1
    <3>2. QED
      BY <1>1, <1>3, <2>1, <3>1
  <2>2. CASE i \in 1 .. n
    <3>1. next[i - 1] = buffer[i - 1]
      BY <1>1, <2>2
    <3>2. QED
      BY <1>3, <2>2, <3>1
  <2>3. n \in Nat /\ (i = n + 1 \/ i \in 1 .. n)
    BY <1>1, BulkAssumption
  <2>4. QED
    BY <2>1, <2>2, <2>3
<1>6. Append(Rows(buffer, n), row) = Rows(next, n + 1)
  BY <1>3, <1>4, <1>5, SeqEqual
<1>7. QED
  BY <1>6 DEF next

\* A send: what arrives is a prefix of the queue, and less than all of it only
\* with a warning and without a commit.
PrefixArrives(q) ==
  \E k \in 0 .. Len(q) : /\ table' = table \o SubSeq(q, 1, k)
                         /\ k < Len(q) => disturbed' = TRUE /\ durable' = durable

LEMMA ExecuteSendsPrefix ==
  ASSUME BTypeOK, NEW buffer \in [Cell -> 0 .. MaxRows], NEW n \in 0 .. MaxNoRows,
         Execute(buffer, n), Answers
  PROVE  PrefixArrives(Rows(buffer, n)) /\ durable' \in {durable, Len(table')}
<1>1. \E k \in 0 .. n : /\ table' = table \o Rows(buffer, k)
                        /\ k < n => result' # "success" /\ durable' = durable
  <2>1. CASE n > 0 /\ table' = table \o Rows(buffer, n)
    BY <2>1
  <2>2. CASE /\ \E k \in 0 .. n : (k < n \/ n = 0) /\ table' = table \o Rows(buffer, k)
             /\ result' = "error" /\ UNCHANGED durable
    BY <2>2
  <2>3. QED
    BY <2>1, <2>2 DEF Execute
<1>2. PICK k \in 0 .. n : /\ table' = table \o Rows(buffer, k)
                          /\ k < n => result' # "success" /\ durable' = durable
  BY <1>1
<1>3. Len(Rows(buffer, n)) = n /\ SubSeq(Rows(buffer, n), 1, k) = Rows(buffer, k)
  BY RowsAreSequence, RowsPrefix
<1>4. durable' = durable \/ durable' = Len(table')
  BY ExecuteSends
<1>5. disturbed' \in {disturbed, TRUE} /\ (result' # "success" => disturbed' = TRUE)
  BY DEF Answers, BTypeOK
<1>6. k < n => disturbed' = TRUE /\ durable' = durable
  BY <1>2, <1>5
<1>7. ASSUME NEW q, NEW j \in 0 .. Len(q), table' = table \o SubSeq(q, 1, j),
             j < Len(q) => disturbed' = TRUE /\ durable' = durable
      PROVE  PrefixArrives(q)
  BY <1>7 DEF PrefixArrives
<1>8. k \in 0 .. Len(Rows(buffer, n))
      /\ table' = table \o SubSeq(Rows(buffer, n), 1, k)
      /\ (k < Len(Rows(buffer, n)) => disturbed' = TRUE /\ durable' = durable)
  BY <1>2, <1>3, <1>6
<1>9. QED
  BY <1>4, <1>7, <1>8

\* The queue of a tidy caller, before and after a step.
LEMMA Mapped ==
  ASSUME BTypeOK, tidy
  PROVE  /\ InQueue = IF call = "filling" THEN Rows(data, rowsIndex) ELSE <<>>
         /\ InTable = table /\ Committed = durable /\ PutIn = filled
         /\ Warned = disturbed
BY DEF BTypeOK, InQueue, InTable, Committed, PutIn, Warned

LEMMA MappedNext ==
  ASSUME BTypeOK', tidy'
  PROVE  /\ InQueue' = IF call' = "filling" THEN Rows(data', rowsIndex') ELSE <<>>
         /\ InTable' = table' /\ Committed' = durable' /\ PutIn' = filled'
         /\ Warned' = disturbed'
BY DEF BTypeOK, InQueue, InTable, Committed, PutIn, Warned

LEMMA NoRowsWait == \A buffer : Rows(buffer, 0) = <<>>
BY DEF Rows

LEMMA FillOnQueue ==
  ASSUME BInv, BTypeOK', tidy, Fill
  PROVE  Queue!Put \/ Queue!PutAndSend
<1> USE BulkAssumption
<1>1. /\ BTypeOK /\ rowsIndex \in Cell /\ rowsIndex + 1 \in 0 .. MaxNoRows
      /\ data \in [Cell -> 0 .. MaxRows] /\ filled + 1 \in 0 .. MaxRows
  BY SMTT(30) DEF BInv, BTypeOK, Cell, Fill
<1>2. /\ data' = [data EXCEPT ![rowsIndex] = filled + 1]
      /\ data' \in [Cell -> 0 .. MaxRows]
      /\ filled' = filled + 1 /\ tidy'
      /\ call = "filling" /\ call' = "filling" /\ Answers
  BY <1>1 DEF Fill, MayGoOn, habit
<1>3. /\ InQueue = Rows(data, rowsIndex) /\ InTable = table /\ Committed = durable
      /\ PutIn = filled /\ Warned = disturbed
  BY <1>1, <1>2, Mapped
<1>4. /\ InQueue' = Rows(data', rowsIndex') /\ InTable' = table'
      /\ Committed' = durable' /\ PutIn' = filled' /\ Warned' = disturbed'
  BY <1>2, MappedNext
<1> DEFINE q == Rows(data', rowsIndex + 1)
<1>5. Append(InQueue, filled + 1) = q
  BY <1>1, <1>2, <1>3, RowsAppend
<1>6. disturbed' \in {disturbed, TRUE}
  BY <1>1, <1>2 DEF Answers, BTypeOK
<1>7. CASE Full
  <2>1. Execute(data', rowsIndex + 1) /\ rowsIndex' = 0
    BY <1>7 DEF Fill, Execute
  <2>2. InQueue' = <<>>
    BY <1>4, <2>1, NoRowsWait
  <2>3. PrefixArrives(q) /\ durable' \in {durable, Len(table')}
    BY <1>1, <1>2, <2>1, ExecuteSendsPrefix
  <2> HIDE DEF q
  <2>4. QED
    BY <1>2, <1>3, <1>4, <1>5, <1>6, <2>2, <2>3
       DEF PrefixArrives, Queue!PutAndSend, Queue!Send, Queue!WithNext, Queue!MayWarn
<1>8. CASE ~Full
  <2>1. rowsIndex' = rowsIndex + 1 /\ UNCHANGED <<table, durable>>
    BY <1>8 DEF Fill, Defer, database
  <2>2. InQueue' = q
    BY <1>4, <2>1
  <2> HIDE DEF q
  <2>3. QED
    BY <1>2, <1>3, <1>4, <1>5, <1>6, <2>1, <2>2
       DEF Queue!Put, Queue!WithNext, Queue!MayWarn
<1>9. QED
  BY <1>7, <1>8

LEMMA DoneOnQueue ==
  ASSUME BInv, BTypeOK', tidy, Done
  PROVE  Queue!SendRest \/ Queue!Warn \/ UNCHANGED Queue!qvars
<1> USE BulkAssumption
<1>1. /\ BTypeOK /\ rowsIndex \in 0 .. MaxNoRows /\ data \in [Cell -> 0 .. MaxRows]
  BY DEF BInv, BTypeOK
<1>2. /\ call = "filling" /\ call' = "done" /\ Answers
      /\ filled' = filled /\ tidy'
  BY DEF Done, MayGoOn, habit
<1> DEFINE q == Rows(data, rowsIndex)
<1>3. /\ InQueue = q /\ InTable = table /\ Committed = durable /\ PutIn = filled
      /\ Warned = disturbed
  BY <1>1, <1>2, Mapped
<1>4. /\ InQueue' = <<>> /\ InTable' = table' /\ Committed' = durable'
      /\ PutIn' = filled' /\ Warned' = disturbed'
  BY <1>2, MappedNext
<1>5. disturbed' \in {disturbed, TRUE}
  BY <1>1, <1>2 DEF Answers, BTypeOK
<1>6. CASE Full \/ rowsIndex > 0
  <2>1. Execute(data, rowsIndex)
    BY <1>6 DEF Done
  <2>2. PrefixArrives(q) /\ durable' \in {durable, Len(table')}
    BY <1>1, <1>2, <2>1, ExecuteSendsPrefix
  <2> HIDE DEF q
  <2>3. QED
    BY <1>2, <1>3, <1>4, <1>5, <2>2
       DEF PrefixArrives, Queue!SendRest, Queue!Send, Queue!MayWarn
<1>7. CASE ~(Full \/ rowsIndex > 0)
  <2>1. rowsIndex = 0 /\ UNCHANGED <<table, durable>>
    BY <1>1, <1>7 DEF Done, Defer, database, BTypeOK
  <2>2. InQueue = <<>>
    BY <1>3, <2>1, NoRowsWait
  <2>3. QED
    BY <1>2, <1>3, <1>4, <1>5, <2>1, <2>2 DEF Queue!Warn, Queue!qvars
<1>8. QED
  BY <1>6, <1>7

LEMMA OthersOnQueue ==
  ASSUME BInv, BTypeOK', tidy, NEW commit \in BOOLEAN, NEW r,
         \/ Init(commit) \/ InitThrows(commit) \/ Close(r)
         \/ Statement(r) \/ Commit \/ Rollback
  PROVE  [Queue!QNext]_Queue!qvars
<1>1. /\ InQueue = IF call = "filling" THEN Rows(data, rowsIndex) ELSE <<>>
      /\ InTable = table /\ Committed = durable /\ PutIn = filled
      /\ Warned = disturbed
  BY Mapped DEF BInv
<1>2. tidy'
  BY DEF Init, InitThrows, Close, Statement, Commit, Rollback, caller, habit
<1>3. /\ InQueue' = IF call' = "filling" THEN Rows(data', rowsIndex') ELSE <<>>
      /\ InTable' = table' /\ Committed' = durable' /\ PutIn' = filled'
      /\ Warned' = disturbed'
  BY <1>2, MappedNext
<1> USE DEF Queue!QNext, Queue!qvars
<1>4. CASE Init(commit) \/ InitThrows(commit)
  <2>1. call = "new" /\ rowsIndex = 0
    BY <1>4 DEF Init, InitThrows, MayInit, BInv, Fresh
  <2>2. InQueue = <<>> /\ InQueue' = <<>>
    BY <1>1, <1>3, <1>4, <2>1, NoRowsWait DEF Init, InitThrows
  <2>3. QED
    BY <1>1, <1>3, <1>4, <2>2 DEF Init, InitThrows, Queue!Warn, database, habit
<1>5. CASE Close(r)
  BY <1>1, <1>3, <1>5 DEF Close, Queue!Discard, database, habit
<1>6. CASE Statement(r)
  BY <1>1, <1>3, <1>6 DEF Statement, query, database, caller, habit
<1>7. CASE Commit
  BY <1>1, <1>3, <1>7 DEF Commit, Queue!Commit, query, caller, habit
<1>8. CASE Rollback
  BY <1>1, <1>3, <1>8 DEF Rollback, Queue!Rollback, Queue!Warn, query, habit
<1>9. QED
  BY <1>4, <1>5, <1>6, <1>7, <1>8

LEMMA QueueStep == BInv /\ BTypeOK' /\ [BNext]_bvars => [Queue!QNext]_Queue!qvars
<1> SUFFICES ASSUME BInv, BTypeOK', [BNext]_bvars PROVE [Queue!QNext]_Queue!qvars
  OBVIOUS
<1>1. CASE ~tidy
  <2>1. tidy' = tidy
    BY DEF BNext, Init, InitThrows, Fill, Done, Close, Statement, Commit, Rollback,
           bvars, habit
  <2>2. QED
    BY <1>1, <2>1 DEF Queue!qvars, InQueue, InTable, Committed, PutIn, Warned
<1>2. CASE tidy /\ UNCHANGED bvars
  BY <1>2 DEF bvars, query, database, caller, habit, Queue!qvars,
              InQueue, InTable, Committed, PutIn, Warned
<1>3. CASE tidy /\ Fill
  BY <1>3, FillOnQueue DEF Queue!QNext
<1>4. CASE tidy /\ Done
  BY <1>4, DoneOnQueue DEF Queue!QNext
<1>5. QED
  BY <1>1, <1>2, <1>3, <1>4, OthersOnQueue DEF BNext

\* For a tidy caller the array interface is a queue of rows, for every size of
\* buffer, every failure and whatever else the connector is used for.
THEOREM BulkIsRowQueue == BSpec => ImplementsRowQueue
<1>1. BInit => Queue!QInit
  BY DEF BInit, Queue!QInit, InQueue, InTable, Committed, PutIn, Warned
<1>2. BInv => BTypeOK
  BY DEF BInv
<1>3. QED
  BY <1>1, <1>2, QueueStep, BulkInvariant, PTL DEF BSpec, ImplementsRowQueue, Queue!QSpec
=============================================================================
