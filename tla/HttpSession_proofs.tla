-------------------------- MODULE HttpSession_proofs --------------------------
(***************************************************************************)
(* Proofs about a call, for heads and bodies of every length and every way *)
(* of cutting them up.  What is known of the reads (ReadInv) and of the    *)
(* answers (AnswerInv) is stated for each place of the worker.             *)
(***************************************************************************)
EXTENDS HttpSession, SequenceTheorems, TLAPS

Place == Over \cup {"await", "first", "rest", "promise", "awaitContinued",
                    "continued", "serve", "error"}

Types ==
  /\ pc \in Place
  /\ req \in Request /\ seen \in CutsOf(req.head)
  /\ closed \in BOOLEAN /\ steady \in BOOLEAN
  /\ sent \in 0 .. Units /\ read \in 0 .. sent
  /\ mark \in 0 .. read /\ first \in 0 .. mark
  /\ text \in 0 .. read /\ input \in 0 .. read

\* Where loadHeaders leaves bp: behind the head, or where the head was cut.
Start == IF first < HeadLen THEN first ELSE HeadLen

\* The loop's text is no longer than what was read from bp on; what is served
\* without a 100 is as long as Content-Length told, and all of the body if the
\* head was whole; a 100 is promised to a client that expects it.
ReadInv ==
  /\ pc \in {"await", "first"} => seen = NoHeaders /\ first = 0 /\ mark = 0 /\ text = 0
  /\ first >= HeadLen => seen = req.head
  /\ pc = "rest" => text + Start <= mark
  /\ pc \in {"promise", "awaitContinued", "continued"} => seen.expect
  /\ pc = "serve" /\ ~seen.expect =>
       text >= seen.len /\ (first >= HeadLen => text <= req.head.len)

Final == {200, 204, 400}

\* No answer yet, or the promise that one will come.
Unanswered == {<<>>, <<100>>}

AnswerInv ==
  /\ pc \in {"idle", "await", "first", "rest", "promise", "crashed"} => answers = <<>>
  /\ pc \in {"awaitContinued", "continued"} => answers = <<100>>
  /\ pc \in {"serve", "error", "left"} => answers \in Unanswered
  /\ pc = "closed" =>
       \E code \in Final : answers = <<code>> \/ answers = <<100, code>>
  /\ pc = "left" => closed

LEMMA UnitsAreNumbers ==
  ASSUME NEW r \in Request
  PROVE  /\ r.head \in Headers /\ r.bad \in BOOLEAN /\ r.nul \in Nat
         /\ r.head.len \in Nat /\ r.nul <= r.head.len
         /\ HeadLen \in Nat /\ HeadLen >= 1
BY UnitsAssumption DEF Request, Headers

LEMMA CutsAreHeaders ==
  ASSUME NEW h \in Headers, NEW c \in CutsOf(h)
  PROVE  c.len \in Nat /\ c.len <= h.len /\ c.expect \in BOOLEAN /\ c.auth \in BOOLEAN
BY UnitsAssumption DEF CutsOf, Headers

\* A head is a cut of itself, and nothing is one of every head.
LEMMA CutsExist ==
  ASSUME NEW h \in Headers
  PROVE  h \in CutsOf(h) /\ NoHeaders \in CutsOf(h)
BY UnitsAssumption DEF CutsOf, Headers, NoHeaders

\* A C string is no longer than the units it is counted in.
LEMMA LengthIsBounded ==
  ASSUME req \in Request, NEW from \in Nat, NEW to \in Nat, from <= to
  PROVE  Length(from, to) \in 0 .. to - from
BY UnitsAreNumbers DEF Length, Nul

\* So is what another readData adds.
LEMMA AppendedIsBounded ==
  ASSUME Types, NEW t \in Appended
  PROVE  t \in Nat /\ text <= t /\ t <= text + (read - mark)
<1>1. text \in Nat /\ mark \in Nat /\ read \in Nat /\ mark <= read
  BY UnitsAreNumbers DEF Types, Units
<1>2. Length(mark, read) \in 0 .. read - mark
  BY <1>1, LengthIsBounded DEF Types
<1>3. t \in {text, text + Length(mark, read)}
  BY DEF Appended
<1>4. QED
  BY <1>1, <1>2, <1>3

-----------------------------------------------------------------------------
(* What was read, and what is handed to ServiceClient.                     *)

LEMMA ReadInit == Init => Types /\ ReadInv /\ WholeBody
<1> SUFFICES ASSUME Init PROVE Types /\ ReadInv /\ WholeBody
  OBVIOUS
<1>1. req \in Request /\ NoHeaders \in Headers /\ req.head = NoHeaders
  BY UnitsAssumption DEF Init, Request, Headers, NoHeaders
<1>2. seen \in CutsOf(req.head)
  BY <1>1, CutsExist DEF Init
<1>3. Types
  BY <1>1, <1>2, UnitsAreNumbers DEF Init, Types, Place, Over, Units
<1>4. ReadInv /\ WholeBody
  BY UnitsAssumption DEF Init, ReadInv, WholeBody, Served
<1>5. QED
  BY <1>3, <1>4

LEMMA ReadNumbers ==
  ASSUME Types
  PROVE  /\ read \in Nat /\ mark \in Nat /\ first \in Nat /\ text \in Nat
         /\ mark <= read /\ read <= HeadLen + req.head.len /\ Start \in Nat
BY UnitsAreNumbers DEF Types, Units, Start

\* The loop's text stays within what was read.
LEMMA LoopInBounds ==
  ASSUME Types, text + Start <= mark, NEW t \in Appended
  PROVE  t \in Nat /\ t + Start <= read /\ t <= read
<1>1. t \in Nat /\ t <= text + (read - mark)
  BY AppendedIsBounded
<1>2. QED
  BY <1>1, ReadNumbers

LEMMA ReadStep ==
  Types /\ ReadInv /\ [Next]_vars => (Types /\ ReadInv)'
<1> SUFFICES ASSUME Types, ReadInv, [Next]_vars PROVE (Types /\ ReadInv)'
  OBVIOUS
<1> USE UnitsAreNumbers DEF Types, ReadInv, Units, Place, Over, Start
<1>0. /\ req.head \in Headers /\ req.head.len \in Nat /\ HeadLen \in Nat /\ HeadLen >= 1
      /\ seen.len \in Nat /\ seen.expect \in BOOLEAN /\ seen.auth \in BOOLEAN
  BY CutsAreHeaders
<1>1. CASE Send
  BY <1>0, <1>1 DEF Send, buffer
<1>2. CASE Hangup
  BY <1>0, <1>2 DEF Hangup, buffer
<1>3. CASE Open
  <2>1. req' \in Request /\ req'.head \in Headers /\ req'.head.len \in Nat
    BY <1>3 DEF Open
  <2>2. seen' = NoHeaders /\ seen' \in CutsOf(req'.head) /\ pc' = "await"
    BY <1>3, <2>1, CutsExist DEF Open, NewRequest
  <2>3. sent' = 0 /\ read' = 0 /\ first' = 0 /\ mark' = 0 /\ text' = 0 /\ input' = 0
        /\ closed' \in BOOLEAN /\ steady' \in BOOLEAN
    BY <1>3 DEF Open
  <2>4. QED
    BY <1>0, <2>1, <2>2, <2>3
<1>4. CASE Readable \/ TimesOut \/ NothingRead
  BY <1>0, <1>4 DEF Readable, TimesOut, NothingRead, client, buffer
<1>5. CASE ReadStream
  BY <1>0, <1>5 DEF ReadStream, InReadData, Waiting, client
<1>6. CASE LoadHeaders
  <2>1. /\ UNCHANGED <<req, sent, closed, steady, read, input>> /\ pc = "first"
        /\ read >= HeadLen /\ first' = read /\ mark' = read /\ seen' = req.head
        /\ text' = Length(HeadLen, read)
        /\ pc' \in {"error", After(req.head, text')}
    BY <1>6 DEF LoadHeaders, client
  <2>2. text' \in 0 .. read - HeadLen
    BY <1>0, <2>1, LengthIsBounded
  <2>3. seen' \in CutsOf(req.head)
    BY <1>0, <2>1, CutsExist
  <2>4. Types'
    BY <1>0, <2>1, <2>2, <2>3 DEF After
  <2>5. CASE pc' = "error"
    BY <1>0, <2>1, <2>4, <2>5
  <2>6. CASE pc' = After(req.head, text')
    BY <1>0, <2>1, <2>2, <2>3, <2>4, <2>6, CutsAreHeaders DEF After, WantsMore
  <2>7. QED
    BY <2>1, <2>5, <2>6
<1>7. CASE LoadCutHeaders
  <2>1. /\ UNCHANGED <<req, sent, closed, steady, read, input>> /\ pc = "first"
        /\ read < HeadLen /\ first' = read /\ mark' = read /\ text' = 0
        /\ seen' \in CutsOf(req.head) /\ pc' \in {After(seen', 0), "error", "crashed"}
    BY <1>0, <1>7 DEF LoadCutHeaders, client
  <2>2. seen'.len \in Nat /\ seen'.expect \in BOOLEAN /\ seen'.auth \in BOOLEAN
    BY <1>0, <2>1, CutsAreHeaders
  <2>3. CASE pc' \in {"error", "crashed"}
    BY <1>0, <2>1, <2>3
  <2>4. CASE pc' = After(seen', 0)
    BY <1>0, <2>1, <2>2, <2>4 DEF After, WantsMore
  <2>5. QED
    BY <2>1, <2>3, <2>4
<1>8. CASE LoopForRest
  <2>1. /\ UNCHANGED <<req, sent, closed, steady, read, first, seen, input>> /\ pc = "rest"
        /\ mark' = read /\ text' \in Appended /\ pc' = After(seen, text')
    BY <1>8 DEF LoopForRest, client
  <2>2. text' \in Nat /\ text' + Start <= read /\ text' <= read
    BY <2>1, LoopInBounds
  <2>3. Types'
    BY <1>0, <2>1, <2>2 DEF After
  <2>4. CASE pc' = "rest"
    BY <1>0, <2>1, <2>2, <2>3, <2>4
  <2>5. CASE pc' # "rest" /\ seen.expect
    BY <1>0, <2>1, <2>3, <2>5 DEF After
  <2>6. CASE pc' # "rest" /\ ~seen.expect
    <3>1. pc' = "serve" /\ text' >= seen.len
      BY <1>0, <2>1, <2>2, <2>6 DEF After, WantsMore
    <3>2. first >= HeadLen => text' <= req.head.len
      BY <1>0, <2>2, ReadNumbers
    <3>3. QED
      BY <1>0, <2>1, <2>3, <2>6, <3>1, <3>2
  <2>7. QED
    BY <2>4, <2>5, <2>6
<1>9. CASE Promise
  BY <1>0, <1>9 DEF Promise, Write, client
<1>10. CASE BodyRead
  <2>1. Length(mark, read) \in 0 .. read - mark
    BY ReadNumbers, LengthIsBounded
  <2>2. QED
    BY <1>0, <1>10, <2>1 DEF BodyRead, client
<1>11. CASE Serve
  BY <1>0, <1>11 DEF Serve, Write, client, buffer
<1>12. CASE WriteError
  BY <1>0, <1>12 DEF WriteError, Write, client, buffer
<1>13. CASE UNCHANGED vars
  BY <1>13 DEF vars, client, buffer
<1>14. QED
  BY <1>1, <1>2, <1>3, <1>4, <1>5, <1>6, <1>7, <1>8, <1>9, <1>10, <1>11, <1>12, <1>13
     DEF Next, Worker

-----------------------------------------------------------------------------
(* The answers.                                                            *)

LEMMA Concatenations ==
  ASSUME NEW a
  PROVE  <<>> \o <<a>> = <<a>> /\ <<100>> \o <<a>> = <<100, a>>
<1>1. <<>> \o <<a>> = <<a>>
  <2>1. <<a>> \in Seq({a})
    OBVIOUS
  <2>2. QED
    BY <2>1, ConcatEmptySeq
<1>2. <<100>> \o <<a>> = <<100, a>>
  <2>1. /\ <<100>> \in Seq({100, a}) /\ <<a>> \in Seq({100, a})
        /\ <<100, a>> \in Seq({100, a})
    OBVIOUS
  <2> DEFINE both == <<100>> \o <<a>>
  <2>2. /\ both \in Seq({100, a}) /\ Len(both) = 2
        /\ \A i \in 1 .. 2 : both[i] = IF i <= 1 THEN <<100>>[i] ELSE <<a>>[i - 1]
    BY <2>1, ConcatProperties
  <2>3. \A i \in 1 .. 2 : both[i] = <<100, a>>[i]
    BY <2>2
  <2>4. Len(<<100, a>>) = 2
    OBVIOUS
  <2> HIDE DEF both
  <2>5. both = <<100, a>>
    BY <2>1, <2>2, <2>3, <2>4, SeqEqual
  <2>6. QED
    BY <2>5 DEF both
<1>3. QED
  BY <1>1, <1>2

\* A Write of one code, after nothing or after a 100.
LEMMA WriteAppends ==
  ASSUME answers \in Unanswered, NEW code, NEW next, NEW onThrow,
         Write(<<code>>, next, onThrow)
  PROVE  \/ pc' = next /\ (answers' = <<code>> \/ answers' = <<100, code>>)
         \/ pc' = onThrow /\ closed /\ answers' = answers
BY Concatenations DEF Write, Unanswered

LEMMA AnswerStep ==
  Types /\ ReadInv /\ AnswerInv /\ [Next]_vars => AnswerInv'
<1> SUFFICES ASSUME Types, ReadInv, AnswerInv, [Next]_vars PROVE AnswerInv'
  OBVIOUS
<1> USE DEF AnswerInv, Unanswered, Over
<1>1. CASE Send \/ Hangup
  BY <1>1 DEF Send, Hangup
<1>2. CASE Open
  BY <1>2 DEF Open
<1>3. CASE Readable \/ TimesOut \/ ReadStream \/ NothingRead
  BY <1>3 DEF Readable, TimesOut, ReadStream, NothingRead, InReadData, client
<1>4. CASE LoadHeaders \/ LoadCutHeaders \/ LoopForRest
  BY <1>4 DEF LoadHeaders, LoadCutHeaders, LoopForRest, After, client
<1>5. CASE Promise
  <2>1. answers = <<>> /\ pc = "promise" /\ UNCHANGED closed
    BY <1>5 DEF Promise, client
  <2>2. \/ pc' = "awaitContinued" /\ answers' = <<100>>
        \/ pc' = "error" /\ answers' = answers
    BY <1>5, <2>1, Concatenations DEF Promise, Write
  <2>3. QED
    BY <2>1, <2>2
<1>6. CASE BodyRead
  BY <1>6 DEF BodyRead, client
<1>7. CASE Serve
  <2>1. answers \in Unanswered /\ UNCHANGED closed
    BY <1>7 DEF Serve, client
  <2>2. CASE pc' = "error" /\ UNCHANGED answers
    BY <2>1, <2>2
  <2>3. ASSUME NEW output \in Output, Write(Response(output), "closed", "error")
        PROVE  AnswerInv'
    <3>1. PICK code \in Final : Response(output) = <<code>>
      BY DEF Response, Output, Final
    <3>2. \/ pc' = "closed" /\ (answers' = <<code>> \/ answers' = <<100, code>>)
          \/ pc' = "error" /\ answers' = answers
      BY <2>1, <2>3, <3>1, WriteAppends
    <3>3. QED
      BY <2>1, <3>1, <3>2
  <2>4. QED
    BY <1>7, <2>2, <2>3 DEF Serve
<1>8. CASE WriteError
  <2>1. answers \in Unanswered /\ UNCHANGED closed
    BY <1>8 DEF WriteError, client
  <2>2. \/ pc' = "closed" /\ (answers' = <<400>> \/ answers' = <<100, 400>>)
        \/ pc' = "left" /\ closed /\ answers' = answers
    BY <1>8, <2>1, WriteAppends DEF WriteError
  <2>3. QED
    BY <2>1, <2>2 DEF Final
<1>9. CASE UNCHANGED vars
  BY <1>9 DEF vars, client
<1>10. QED
  BY <1>1, <1>2, <1>3, <1>4, <1>5, <1>6, <1>7, <1>8, <1>9 DEF Next, Worker

-----------------------------------------------------------------------------
(* The whole body.                                                         *)

\* Only Serve can make a call a served one.
LEMMA WholeBodyStep ==
  Types /\ ReadInv /\ AnswerInv /\ WholeBody /\ [Next]_vars => WholeBody'
<1> SUFFICES ASSUME Types, ReadInv, AnswerInv, WholeBody, [Next]_vars
             PROVE  WholeBody'
  OBVIOUS
<1> USE DEF WholeBody, Served
<1>1. CASE Serve
  <2>1. seen.expect \/ (input' >= seen.len /\ (first >= HeadLen => input' = req.head.len))
    <3>1. seen.len \in Nat /\ seen.expect \in BOOLEAN /\ req.head.len \in Nat
      BY UnitsAreNumbers, CutsAreHeaders DEF Types
    <3>2. text \in Nat /\ first \in Nat /\ HeadLen \in Nat
      BY UnitsAreNumbers DEF Types, Units
    <3>3. QED
      BY <1>1, <3>1, <3>2 DEF Serve, ReadInv
  <2>2. UNCHANGED <<seen, first, req>>
    BY <1>1 DEF Serve, client, buffer
  <2>3. QED
    BY <2>1, <2>2
<1>2. CASE WriteError
  <2>1. answers \in Unanswered
    BY <1>2 DEF WriteError, AnswerInv
  <2>2. pc' = "closed" => answers' = <<400>> \/ answers' = <<100, 400>>
    BY <1>2, <2>1, WriteAppends DEF WriteError
  <2>3. ~Served'
    BY <2>2
  <2>4. QED
    BY <2>3
<1>3. CASE Promise
  BY <1>3 DEF Promise, Write
<1>4. CASE LoadHeaders \/ LoadCutHeaders \/ LoopForRest
  BY <1>4 DEF LoadHeaders, LoadCutHeaders, LoopForRest, After
<1>5. CASE Send \/ Hangup \/ Open \/ Readable \/ TimesOut \/ ReadStream \/ NothingRead
           \/ BodyRead
  BY <1>5 DEF Send, Hangup, Open, Readable, TimesOut, ReadStream, NothingRead, BodyRead,
              Over, InReadData
<1>6. CASE UNCHANGED vars
  BY <1>6 DEF vars, client, buffer
<1>7. QED
  BY <1>1, <1>2, <1>3, <1>4, <1>5, <1>6 DEF Next, Worker

-----------------------------------------------------------------------------
(* The theorems.                                                           *)

LEMMA Invariance == Spec => [](Types /\ ReadInv /\ AnswerInv /\ WholeBody)
<1>1. Init => AnswerInv
  BY DEF Init, AnswerInv
<1>2. QED
  BY <1>1, ReadInit, ReadStep, AnswerStep, WholeBodyStep, PTL DEF Spec

\* Nothing is read that was not sent, nothing served that was not read, and the
\* request one call has seen is not seen by the next.
THEOREM SessionTypes == Spec => []TypeOK
<1>1. Types /\ AnswerInv => answers \in Seq({100, 200, 204, 400})
  <2> SUFFICES ASSUME Types, AnswerInv PROVE answers \in Seq({100, 200, 204, 400})
    OBVIOUS
  <2>1. \/ answers = <<>> \/ answers = <<100>>
        \/ \E code \in Final : answers = <<code>> \/ answers = <<100, code>>
    BY DEF Types, Place, Over, AnswerInv, Unanswered
  <2>2. \A code \in Final : code \in {100, 200, 204, 400}
    BY DEF Final
  <2>3. <<>> \in Seq({100, 200, 204, 400}) /\ <<100>> \in Seq({100, 200, 204, 400})
    OBVIOUS
  <2>4. ASSUME NEW code \in {100, 200, 204, 400}
        PROVE  /\ <<code>> \in Seq({100, 200, 204, 400})
               /\ <<100, code>> \in Seq({100, 200, 204, 400})
    OBVIOUS
  <2>5. CASE answers = <<>> \/ answers = <<100>>
    BY <2>3, <2>5
  <2>6. ASSUME NEW code \in Final, answers = <<code>> \/ answers = <<100, code>>
        PROVE  answers \in Seq({100, 200, 204, 400})
    <3>1. code \in {100, 200, 204, 400}
      BY <2>2
    <3>2. CASE answers = <<code>>
      BY <2>4, <3>1, <3>2
    <3>3. CASE answers = <<100, code>>
      BY <2>4, <3>1, <3>3
    <3>4. QED
      BY <2>6, <3>2, <3>3
  <2>7. QED
    BY <2>1, <2>5, <2>6
<1>2. Types /\ AnswerInv => TypeOK
  BY <1>1 DEF Types, TypeOK, Place, Over
<1>3. QED
  BY <1>2, Invariance, PTL

\* A request whose head came whole is not served before the whole of its body was
\* read, however its body was cut up, unless its client expects a 100; one whose
\* head a pause has cut is served with no fewer units than it told of, the rest
\* of the head counted.
THEOREM NoPartialBody == Spec => []WholeBody
BY Invariance, PTL

\* No call is answered twice, whichever write or handler throws.
THEOREM NoSecondAnswer == Spec => []OneAnswer
<1>1. Types /\ AnswerInv => OneAnswer
  <2> SUFFICES ASSUME Types, AnswerInv PROVE OneAnswer
    OBVIOUS
  <2>1. CASE pc = "closed"
    <3>1. PICK code \in Final : answers = <<code>> \/ answers = <<100, code>>
      BY <2>1 DEF AnswerInv
    <3>2. QED
      BY <3>1 DEF OneAnswer, Final
  <2>2. CASE pc # "closed"
    <3>1. answers \in Unanswered
      BY <2>2 DEF Types, AnswerInv, Unanswered, Place, Over
    <3>2. QED
      BY <3>1 DEF OneAnswer, Unanswered
  <2>3. QED
    BY <2>1, <2>2
<1>2. QED
  BY <1>1, Invariance, PTL

\* No connection is closed without an answer, and only the loss of its client
\* can throw a worker out of its loop.
THEOREM NoSilentClose == Spec => []AnsweredBeforeClose
<1>1. AnswerInv => AnsweredBeforeClose
  <2> SUFFICES ASSUME AnswerInv PROVE AnsweredBeforeClose
    OBVIOUS
  <2>1. CASE pc = "closed"
    <3>1. PICK code \in Final : answers = <<code>> \/ answers = <<100, code>>
      BY <2>1 DEF AnswerInv
    <3>2. QED
      BY <2>1, <3>1 DEF AnsweredBeforeClose, Final
  <2>2. CASE pc # "closed"
    BY <2>2 DEF AnswerInv, AnsweredBeforeClose
  <2>3. QED
    BY <2>1, <2>2
<1>2. QED
  BY <1>1, Invariance, PTL
-----------------------------------------------------------------------------
(***************************************************************************)
(* The way to the end of a call.  ToDo is a natural number.                *)
(***************************************************************************)
LEMMA ToDoIsNumber == Types => ToDo \in 0 .. 3 * Units + 10
<1> SUFFICES ASSUME Types PROVE ToDo \in 0 .. 3 * Units + 10
  OBVIOUS
<1>1. req.head.len \in Nat
  BY UnitsAreNumbers DEF Types
<1>2. Stage[pc] \in 0 .. 9
  BY DEF Types, Place, Over, Stage
<1>3. QED
  BY <1>1, <1>2, UnitsAssumption DEF Types, ToDo, Units

\* A step that leaves the client and the reading alone and goes to a later place.
LEMMA LaterPlace ==
  ASSUME Types, UNCHANGED <<client, read>>, mark' \in mark .. read, Stage[pc'] < Stage[pc],
         Stage[pc'] \in Int, Stage[pc] \in Int
  PROVE  ToDo' < ToDo
<1>1. req.head.len \in Nat
  BY UnitsAreNumbers DEF Types
<1>2. QED
  BY <1>1, UnitsAssumption DEF Types, ToDo, Units, client

LEMMA StepShrinks ==
  ASSUME Types, Next, pc \notin Over
  PROVE  ToDo' < ToDo \/ UNCHANGED vars
<1>0. /\ req.head.len \in Nat /\ HeadLen \in Nat /\ Stage[pc] \in Int
      /\ mark \in mark .. read /\ read \in mark .. read
  BY UnitsAreNumbers DEF Types, Place, Over, Stage, Units
<1>1. CASE Send
  BY <1>0, <1>1 DEF Send, buffer, Types, ToDo, Units
<1>2. CASE Hangup
  BY <1>0, <1>2 DEF Hangup, buffer, Types, ToDo, Units
<1>3. CASE ReadStream
  BY <1>0, <1>3 DEF ReadStream, Waiting, client, Types, ToDo, Units
<1>4. CASE LoopForRest
  <2>1. CASE pc' = "rest" /\ mark = read
    <3>1. text' = text
      BY <1>4, <2>1, AppendedIsBounded DEF LoopForRest, Types, Units
    <3>2. QED
      BY <1>4, <2>1, <3>1 DEF LoopForRest, vars, client, buffer
  <2>2. CASE pc' = "rest" /\ mark # read
    <3>1. /\ pc' = pc /\ mark' = read /\ UNCHANGED <<req, sent, closed, read>>
          /\ mark < read /\ mark \in Nat /\ read \in Nat /\ sent \in Nat
      BY <1>4, <2>2, UnitsAreNumbers DEF LoopForRest, client, Types, Units
    <3>2. QED
      BY <1>0, <3>1 DEF ToDo, Units
  <2>3. CASE pc' # "rest"
    BY <1>0, <1>4, <2>3, LaterPlace DEF LoopForRest, After, Stage, client
  <2>4. QED
    BY <2>1, <2>2, <2>3
<1>5. CASE Readable \/ TimesOut \/ NothingRead
  BY <1>0, <1>5, LaterPlace DEF Readable, TimesOut, NothingRead, Stage, buffer
<1>6. CASE LoadHeaders \/ LoadCutHeaders
  <2>1. pc' \in {"error", "crashed", "rest", "promise", "serve"}
    BY <1>6 DEF LoadHeaders, LoadCutHeaders, After
  <2>2. QED
    BY <1>0, <1>6, <2>1, LaterPlace DEF LoadHeaders, LoadCutHeaders, Stage
<1>7. CASE Promise
  BY <1>0, <1>7, LaterPlace DEF Promise, Write, Stage, buffer
<1>8. CASE BodyRead
  BY <1>0, <1>8, LaterPlace DEF BodyRead, Stage, buffer
<1>9. CASE Serve
  BY <1>0, <1>9, LaterPlace DEF Serve, Write, Stage, buffer
<1>10. CASE WriteError
  BY <1>0, <1>10, LaterPlace DEF WriteError, Write, Stage, buffer
<1>11. CASE Open
  BY <1>11 DEF Open, Over
<1>12. QED
  BY <1>1, <1>2, <1>3, <1>4, <1>5, <1>6, <1>7, <1>8, <1>9, <1>10, <1>11
     DEF Next, Worker

\* A call of a request of n units is over after at most 3 * n + 10 steps that
\* change anything, for every client and every way of cutting the request up.
THEOREM CallIsBounded == Spec => SessionShrinks
<1>1. Types /\ [Next]_vars => (pc \notin Over => ToDo' < ToDo) \/ UNCHANGED vars
  BY StepShrinks
<1>2. QED
  BY <1>1, Invariance, PTL DEF Spec, SessionShrinks
=============================================================================
