---------------------------- MODULE HttpSession ----------------------------
(***************************************************************************)
(* One call after another on a worker of libs/http: HTTPRequest reads a    *)
(* request off the stream, WaitForCall has it served and answered and      *)
(* closes the connection.  The stream has no frames: where a read ends is  *)
(* decided by pauses of the client, and by Content-Length.                 *)
(*                                                                         *)
(* A request is a head, the request line and the headers, and a body, both *)
(* of some units: a pause can cut either anywhere.  Of a head that was cut *)
(* loadHeaders sees a part, and takes what comes after the cut for body.   *)
(* One unit of the body may be a NUL byte, where C counts no further.      *)
(* tCBSockServer and TBChar are external: WaitRead says whether there is   *)
(* something to read, or the client closed; ReadStream takes what there    *)
(* is, and 0 means nothing is; Write throws only when the client is gone.  *)
(***************************************************************************)
EXTENDS Integers, Sequences

CONSTANTS
  HeadLen,  \* the units of a head
  MaxBody   \* bound: the units of the longest body

ASSUME UnitsAssumption == HeadLen \in Nat \ {0} /\ MaxBody \in Nat

\* What a head tells: Content-Length, Expect and Authorization.
Headers == [len : 0 .. MaxBody, expect : BOOLEAN, auth : BOOLEAN]
NoHeaders == [len |-> 0, expect |-> FALSE, auth |-> FALSE]

\* bad: the request line or Content-Type is one loadHeaders throws for.
\* nul: which unit of the body is a NUL byte, or 0.
Request ==
  {r \in [head : Headers, bad : BOOLEAN, nul : 0 .. MaxBody] : r.nul <= r.head.len}

VARIABLES
  pc,       \* where the worker is in WaitForCall
  req,      \* the request the client sends
  sent,     \* how many of its units are on the stream
  closed,   \* the client has closed its side
  steady,   \* this client sends everything, and closes after the answer only
  read,     \* how many units the worker has read
  first,    \* how many of them readRequest gave to loadHeaders
  mark,     \* how many of them were read when the readData under way began
  seen,     \* what loadHeaders made of the head it was given
  text,     \* the length of the C string that is to be the input
  input,    \* the length of the input ServiceClient was given
  answers   \* the status codes written

client == <<req, sent, closed, steady>>
buffer == <<read, first, mark, seen, text>>
vars == <<pc, client, buffer, input, answers>>

Units == HeadLen + req.head.len
Waiting == sent - read          \* what a read would find
\* "idle": no call yet; "left": an exception went out of WaitForCall; "crashed":
\* a signal ended the worker.
Over == {"idle", "closed", "left", "crashed"}

Init ==
  /\ pc = "idle"
  /\ req = [head |-> NoHeaders, bad |-> FALSE, nul |-> 0]
  /\ sent = 0 /\ closed = TRUE /\ steady \in BOOLEAN
  /\ read = 0 /\ first = 0 /\ mark = 0 /\ seen = NoHeaders /\ text = 0
  /\ input = 0 /\ answers = <<>>

-----------------------------------------------------------------------------
(* The client.                                                             *)

Send ==
  /\ ~closed /\ pc \notin Over
  /\ \E n \in sent + 1 .. Units : sent' = n
  /\ UNCHANGED <<pc, req, closed, steady, buffer, input, answers>>

Hangup ==
  /\ ~closed /\ ~steady /\ pc \notin Over
  /\ closed' = TRUE
  /\ UNCHANGED <<pc, req, sent, steady, buffer, input, answers>>

-----------------------------------------------------------------------------
(* The worker.  Its states: "first", "rest" and "continued" are in         *)
(* readData, called for the three reasons there are; "await" and           *)
(* "awaitContinued" in the WaitRead before it.                             *)

\* Mutant: one HTTPRequest for all calls of the worker.
KeepRequest == UNCHANGED seen

\* httprequest.h:34: a new HTTPRequest has seen nothing.
NewRequest == seen' = NoHeaders

\* Open: the next client is accepted.
Open ==
  /\ pc \in {"idle", "closed"}
  /\ pc' = "await"
  /\ req' \in Request /\ sent' = 0 /\ closed' = FALSE /\ steady' \in BOOLEAN
  /\ NewRequest
  /\ read' = 0 /\ first' = 0 /\ mark' = 0 /\ text' = 0
  /\ input' = 0 /\ answers' = <<>>

\* WaitRead(10000).
Readable ==
  /\ Waiting > 0 \/ closed
  /\ \/ pc = "await" /\ pc' = "first"
     \/ pc = "awaitContinued" /\ pc' = "continued"
  /\ UNCHANGED <<client, buffer, input, answers>>

\* ERR_HTTP_READWAIT_FAILED: nothing came in ten seconds.
TimesOut ==
  /\ pc \in {"await", "awaitContinued"}
  /\ Waiting = 0 /\ ~closed
  /\ pc' = "error"
  /\ UNCHANGED <<client, buffer, input, answers>>

InReadData == pc \in {"first", "rest", "continued"}

ReadStream ==
  /\ InReadData /\ Waiting > 0
  /\ \E n \in 1 .. Waiting : read' = read + n
  /\ UNCHANGED <<pc, client, first, mark, seen, text, input, answers>>

\* readData ends when ReadStream finds nothing, or nothing comes for 10 ms.
Quiet == Waiting = 0

\* The place of the NUL byte, and what C counts of the units after one and up to
\* another.
Nul == IF req.nul = 0 THEN 0 ELSE HeadLen + req.nul
Length(from, to) == (IF from < Nul /\ Nul <= to THEN Nul - 1 ELSE to) - from

\* Mutant: the loop for the body runs once too often.
WantsMoreEqual(h, length) == h.len > 0 /\ ~h.expect /\ length <= h.len

\* Mutant: what came with the head, and no more, is taken for the body.
WantsNoMore(h, length) == FALSE

\* The loop for the body: strlen(bp), and not for a client that expects a 100.
WantsMore(h, length) == h.len > 0 /\ ~h.expect /\ length < h.len

\* Where a head leads: the loop, or lines 204-211 of readRequest.
After(h, length) ==
  IF WantsMore(h, length) THEN "rest"
  ELSE IF h.auth /\ h.expect THEN "promise" ELSE "serve"

NothingRead ==
  /\ pc = "first" /\ Quiet /\ read = 0
  /\ pc' = "error"
  /\ UNCHANGED <<client, buffer, input, answers>>

\* loadHeaders, of a head that is all there.
LoadHeaders ==
  /\ pc = "first" /\ Quiet /\ read >= HeadLen
  /\ first' = read /\ mark' = read
  /\ seen' = req.head
  /\ text' = Length(HeadLen, read)
  /\ pc' = IF req.bad THEN "error" ELSE After(req.head, text')
  /\ UNCHANGED <<client, read, input, answers>>

\* What may be seen of a head that is cut: headers are missing, or the last one
\* is cut in two, and a number is then smaller.
CutsOf(h) ==
  {c \in Headers : c.len <= h.len /\ (c.expect => h.expect) /\ (c.auth => h.auth)}

\* loadHeaders, of a head that a pause has cut: a Content-Type cut in two throws,
\* a request line cut in two leaves strchr without its blank, and bp past 0.
LoadCutHeaders ==
  /\ pc = "first" /\ Quiet /\ read \in 1 .. HeadLen - 1
  /\ first' = read /\ mark' = read
  /\ text' = 0
  /\ seen' \in CutsOf(req.head)
  /\ pc' \in {After(seen', 0), "error", "crashed"}
  /\ UNCHANGED <<client, read, input, answers>>

\* What another readData brought is appended as a C string.  Behind a NUL byte of
\* the first read it is out of strlen's sight, if it is put there at all.
Appended ==
  IF req.nul # 0 /\ Nul <= first
  THEN {text, text + Length(mark, read)}
  ELSE {text + Length(mark, read)}

\* The test of the loop after another readData, which may have read nothing.
LoopForRest ==
  /\ pc = "rest" /\ Quiet
  /\ mark' = read
  /\ text' \in Appended
  /\ pc' = After(seen, text')
  /\ UNCHANGED <<client, read, first, seen, input, answers>>

\* Write returns, or throws when the client is gone.
Write(codes, next, onThrow) ==
  \/ answers' = answers \o codes /\ pc' = next
  \/ closed /\ UNCHANGED answers /\ pc' = onThrow

\* getAuthorizedData: the buffer is cleared of what came with the head.
Promise ==
  /\ pc = "promise"
  /\ Write(<<100>>, "awaitContinued", "error")
  /\ mark' = read /\ text' = 0
  /\ UNCHANGED <<client, read, first, seen, input>>

\* Mutant: where nothing came after the 100, another is sent.
BodyReadPromisesAgain ==
  /\ pc = "continued" /\ Quiet
  /\ pc' = IF read > mark THEN "serve" ELSE "promise"
  /\ text' = Length(mark, read)
  /\ UNCHANGED <<client, read, first, mark, seen, input, answers>>

BodyRead ==
  /\ pc = "continued" /\ Quiet
  /\ pc' = "serve"
  /\ text' = Length(mark, read)
  /\ UNCHANGED <<client, read, first, mark, seen, input, answers>>

Output == {"text", "none", "ERR400"}

\* Mutant: no return after the error of an output that begins with ERR400.
ResponseWithoutReturn(output) ==
  CASE output = "ERR400" -> <<400, 200>>
    [] output = "text" -> <<200>> [] output = "none" -> <<204>>

\* writeResponse.
Response(output) ==
  CASE output = "ERR400" -> <<400>>
    [] output = "text" -> <<200>> [] output = "none" -> <<204>>

\* ServiceClient and its answer; what it throws is answered in the handlers.
Serve ==
  /\ pc = "serve"
  /\ input' = text
  /\ \/ \E output \in Output : Write(Response(output), "closed", "error")
     \/ pc' = "error" /\ UNCHANGED answers
  /\ UNCHANGED <<client, buffer>>

\* Mutant: the handler of an exception closes and writes nothing.
CloseSilently ==
  /\ pc = "error"
  /\ pc' = "closed"
  /\ UNCHANGED <<client, buffer, input, answers>>

\* writeError400 in the handlers: a Write that throws again leaves WaitForCall.
WriteError ==
  /\ pc = "error"
  /\ Write(<<400>>, "closed", "left")
  /\ UNCHANGED <<client, buffer, input>>

Worker ==
  \/ Readable \/ TimesOut \/ ReadStream
  \/ NothingRead \/ LoadHeaders \/ LoadCutHeaders \/ LoopForRest
  \/ Promise \/ BodyRead \/ Serve \/ WriteError

Next == Send \/ Hangup \/ Open \/ Worker

Spec == Init /\ [][Next]_vars

\* The worker is scheduled, a steady client goes on sending.
FairSpec == Spec /\ WF_vars(Worker) /\ WF_vars(steady /\ Send)

-----------------------------------------------------------------------------
(* Properties.                                                             *)

\* The fields of the request and of the stream: nothing is read that was not
\* sent, and nothing is served that was not read.
TypeOK ==
  /\ pc \in Over \cup {"await", "first", "rest", "promise", "awaitContinued",
                       "continued", "serve", "error"}
  /\ req \in Request /\ seen \in CutsOf(req.head)
  /\ closed \in BOOLEAN /\ steady \in BOOLEAN
  /\ sent \in 0 .. Units /\ read \in 0 .. sent
  /\ mark \in 0 .. read /\ first \in 0 .. mark
  /\ text \in 0 .. read /\ input \in 0 .. read
  /\ answers \in Seq({100, 200, 204, 400})

\* A request whose head came whole is not served before all of its body was read
\* (httprequest.cpp:141-155), however the body was cut up and whatever it holds:
\* unless the client expects a 100, whose body is what comes in one go (188-190).
\* Of a head that a pause of 10 ms has cut (174) only this is left: as many units
\* are served as the Content-Length seen of it told, and the rest of the head,
\* which counts as body, is among them.
Served == pc = "closed" /\ answers # <<>> /\ answers[Len(answers)] \in {200, 204}
WholeBody ==
  Served /\ ~seen.expect =>
    input >= seen.len /\ (first >= HeadLen => input = req.head.len)

\* No call gets two answers (httpserver.cpp:184-203, httprequest.cpp:243-248):
\* at most a 100 comes before the one that counts, and that one is the last.
OneAnswer ==
  \/ answers \in {<<>>, <<100>>}
  \/ \E code \in {200, 204, 400} : answers \in {<<code>>, <<100, code>>}

\* A connection is closed only with its answer written, even when it failed
\* (httpserver.cpp:187-204); a worker that is thrown out of the loop has lost
\* its client.  (A worker that a signal ends, "crashed", answers nobody.)
AnsweredBeforeClose ==
  /\ pc = "closed" => answers # <<>> /\ answers[Len(answers)] # 100
  /\ pc = "left" => closed

\* How much of a call is left: the places the worker has before it, what the
\* client may still send, what is still to be read and to be appended, and the
\* client's close.
Stage ==
  [await |-> 9, first |-> 8, rest |-> 7, promise |-> 6, awaitContinued |-> 5,
   continued |-> 4, serve |-> 3, error |-> 2, closed |-> 0, left |-> 0, crashed |-> 0,
   idle |-> 0]
ToDo ==
  Stage[pc] + (Units - sent) + (Units - read) + (Units - mark)
    + (IF closed THEN 0 ELSE 1)

\* What makes SessionEnds true, and true of any client until it falls silent: no
\* step of a call repeats, whoever takes it and whatever throws.  The one thing
\* done again is a readData for the body that found nothing
\* (httprequest.cpp:143), which changes nothing.
SessionShrinks == [][pc \notin Over => ToDo' < ToDo]_vars

\* A worker is not kept by a client that goes on sending, however it cuts its
\* request up: the call is over at some time (httprequest.cpp:143).  Not so when
\* the body has a NUL byte in it, for strlen never counts to the end of it, nor
\* when the client closes early.
SessionEnds == steady /\ req.nul = 0 /\ pc \notin Over ~> pc \in Over
=============================================================================
