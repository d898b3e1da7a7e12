# A verification project for JPortal

JPortal is a set of code generators (Java) and the run-time libraries (C++ and
Java) that the generated code is linked with. The generators turn a definition
into source text and stop; the programs that result read and write databases
through the run times under `libs/`, and serve requests through `libs/http` and
the RPC run times. State that lives, is shared and goes wrong is in the run
times, and so is this project: TLA+ modules of them, configurations that check
the modules with TLC, and theorems that TLAPS checks for all values of the
constants. All paths below are relative to the root of the repository, `src/`
in `PROJECT.json`.

`PROJECT.json` holds the lists: components, runs, mutants, the lines of code
behind each definition, hazards, findings and theorems.

## 1. Inventory

| component | state it keeps | operations | what is hard | what makes it correct |
|---|---|---|---|---|
| `libs/http`: supervisor (`HTTPServer::CreateHandlers`) | list of pids, three counters, a shutdown flag set by signals, the kernel's process table | fork, reap, restart, pass the shutdown on | children end, fail, are killed and stopped at any time; signals between any two steps | knows all its children; never more than `{NoProcs}`; a shutdown reaches all of them and ends |
| `libs/http`: workers (`ServiceStart`, `WaitForCall`) | semaphore shared by all, a connection each | lock, wait, accept, serve, close | every exit path, a time-out against an arriving connection, shutdown during a wait | one accepts at a time; nobody blocks while it holds the semaphore; no connection is forgotten |
| `libs/http`: requests (`httprequest.cpp`, the handlers of `WaitForCall`) | buffer, headers, bytes still to come | read, 100-continue, answer | the client closes or is slow; pauses decide where a read ends; an answer already sent | a body is served whole; one answer for each call, before it is closed; the worker is free again |
| `libs/cli9`: DB2 run time (`TJConnector`, `TJQuery`) | a result shared by all queries of a connector; per query a batch buffer and four counters | Open, Exec, Fetch, Close, Commit, Rollback, array insert | calls on several queries in any order; ends of batches; errors in between | each loop reads all rows, once and in order |
| `libs/oci11`, `libs/oci9`: Oracle run time | the same, and the buffer of a bulk insert | the same, and `JP_Deliver` (generated Init, Fill, Done) | last part of a batch, failing execute or commit | each row put in is sent once |
| `libs/pg8`, `libs/lite3`, `libs/myapi` | a result set, a row index | the same, without batches | use after the end | end stays end |
| calendar of the run times (a copy in each) | none | number of a date, date of a number | ends of February, of centuries | the two are inverse; the next day has the next number |
| BINU server (`binuj/java/server`) | a monitor with one place (`Notifier`), threads | put, get, accept | threads, wake-ups | parcels are neither lost nor doubled; nobody waits without need |
| Crackle RPC (`generators/vlab/crackle/{rw,rpc,rdc}`) | sockets, a monitor (`Channel`), static event number | read, write, call | end of stream, several clients | an answer reaches its caller |
| `tools/anydbMake.py` | the times of files, in seconds | find what is stale, remove, generate, join, hand on | edits during a build, interrupted and failed builds | what is stale is rebuilt; what is not is left alone |
| generators, decompilers, `binuc`, `sharp/` | none that outlives a run | parse, write text | nothing concurrent | out of scope |

Interaction: the generated `main` (`PopHTTPServer.java`) makes an `HTTPServer`
and calls `CreateHandlers`, which forks workers; each worker calls the generated
`ServiceStart`, which logs on to the database and calls `WaitForCall`; that
calls the generated `ServiceClient` for each request, whose code runs queries
through the classes that `CliCCode.java` and its siblings generate over a
`TJConnector`. Parent and workers share the listening socket, the semaphore
and, through signals, the shutdown; queries share their connector. A Java server
that is built with BINU or Crackle has a listener and worker threads instead,
which share a `Notifier` or `Channel`. `anydbMake.py` is how a project gets its
generated sources: it calls `jportal.jar`, then `crackle.jar` or `pickle.jar`.

## 2. Plan

Each module's constants are parameters with named assumptions, an action is one
operation, and nothing is declared RECURSIVE, so that everything can be proved
about as well as checked.

1. `PreFork`: the supervisor over black-box workers. It is also the abstract
   specification of the server.
2. `HttpServer`: EXTENDS it with what the workers do, and composes both.
3. `RowStream`: what a select promises; `CliCursors`: what the DB2 run time
   does, shown to implement it.
4. `RowQueue`: what a bulk insert promises; `BulkDeliver`: that of `libs/oci11`,
   with execute and commit failing at any batch, shown to implement it.
5. `OnePlace`: what a monitor with one place promises; `Notifier`: the monitor
   of the BINU server and of `Channel.java` with its wait set, shown to
   implement it.
6. `HttpSession`: one call after another between Open and Close (waits, the loop
   over Content-Length, 100-continue, answers and handlers): what the steps
   `Serve`, `ServeThrows` and `Hang` of `HttpServer` stand for.
7. `AnydbMake`: times, staleness, and builds that fail or are interrupted.
8. `JulianDate`: the calendar of the run times, as operators.
9. Proofs of 1 to 8.

All of it is done. What could follow: `HttpSession` inside `HttpServer`, worker by
worker, in place of the steps `Serve` and `Hang`; a run of its own for the
supplied `.ic` files (section 5); proofs of what holds in `BulkDeliver` for a caller that calls Init
again after Close; array insert and sequences of `libs/cli9`; the `.pi` part of
`AnydbMake` with the properties that survive its finding.

## 3. Modules and how they correspond to the code

**`PreFork`** (`libs/http/src/httpserver.cpp` 18-25, 253-394). One action for
each way through the loop of `CreateHandlers`. The variables are the code's:
`list` is `PIDList::list`, `noProcs` the field that `CreateHandlers` sets to 0
and reuses as a count of the forked workers, `childrenToOpen` its local,
`restartCount` the field with `RestartCount` as `origRestartCount`. `pc` says
whether the parent is at the top of the loop, past the test of `shutdown` (a
signal that comes then waits for the next turn), in the middle of
`_killChildren` (`cursor`) or has returned, and by which way. `proc` is the
kernel's table: a worker that ended stays a zombie with its status until
`wait3` reports it, and its pid is then free to be used again. `wait3` is called
with WUNTRACED: a stopped worker is reported too. `shutdown` has a flag for each
process, because `fork` copies it. `jobControl` is chosen once and says whether
anybody stops workers; the properties that need it say `~jobControl`. Slots of
`PIDList` start as 0 or as a number that is no child of ours (`Stranger`),
because `new pid_t[n]` sets nothing.

**`HttpServer`** EXTENDS `PreFork` and gives each worker a place, `at`, in
`ServiceStart` and `WaitForCall` (108-207). `Mutex` is an object whose destructor
releases the semaphore (`Unlock`), on every way out of its scope: `continue`,
`break`, `return`, a throw; a process that dies has it undone by the kernel. The
sources of `Mutex` and `tCBSockServer` are not in the repository; both are
modelled as `WaitForCall` uses them. A call comes back (`Serve`), throws out of
`WaitForCall` (`ServeThrows`), or never ends (`Hang`): the loop of
`httprequest.cpp` 143 goes on for ever when the client closes before
Content-Length bytes have come. The worker is then at "stuck", where it tests no
shutdown and only a signal that kills it ends it. The supervisor's steps and the ends of
workers are `PreFork`'s own, conjoined with what they mean here, and so every
behaviour of `HttpServer` is one of `PreFork` (theorem `Implementation`).

**`RowStream`** is the abstract specification of a select: rows 1 to `size`, one
at a time. `Skip` admits that a row may be passed over when the loop is
interrupted, which the code does (see findings).

**`CliCursors`** (`libs/cli9/src/cliapi.cpp` 252-318, 388-393, 576-588, 641-654,
925-935, 1088-1223, and the callers that `CliCCode.java` generates). One action
for each way through `JP_Fetch`: a row of the batch, past the end, a new batch,
no data, an error. `result` is the connector's, one for all queries; the five
counters and `data` are the query's. The driver is `size` and `pos`: SQLFetch
delivers the next `NoRows` rows or what is left, with or without a warning, or
fails, at any call. `Statement` is any other statement of the program on the
same connector; all it leaves is a result. A connector belongs to one thread, so
a step is a whole call. The caller is the usual loop `while (q.Fetch())`; it may
go on after false (`FetchPastEnd`, or the next row after a `Skip`) but not after
an exception: then it has to Close.

The refinement mapping of `CliCursors` to `RowStream` is `seen <- rowsDone`, `size <- size` for
queries that are being read, and 0 for the others.

**`RowQueue`** is the abstract specification of a bulk insert: rows that were put
in wait in a queue, and now and then all that wait are sent. Rows that the
database refuses are dropped, but then the caller is told and nothing of that
send is committed by it. It has no buffer, no index and no batches.

**`BulkDeliver`** (`libs/oci11/src/ociapi.cpp` 307-312, 499-503, 722-778,
822-893, 1039-1055 and the classes that `OciCCode.java` 813-873 generates). A
row is put into the buffer at `rowsIndex` by `Fill`; `JP_Deliver` sends the
buffer when it is full, and `Done` sends what is left. `result` is again the
connector's, and `Statement` any other statement on it, among them the one with
which `Fill` gets a number from a sequence. `table` is what arrived, `durable` how much of it is committed. The
database is external and taken as OCI documents it for an array insert: rows
arrive in order, a refused row ends the call with an error and keeps those
before it, a warning keeps all, and no rows at all is an error, so a `Done` with
`NOROWS` 1, which always sends, always throws. `disturbed` says whether the
caller has seen an exception or somebody rolled back. `tidy` is chosen once and
tells callers apart: a tidy one calls Init once and Done once, at the end; it
may catch exceptions and go on filling. The others call anything in any order.
The properties that hold for the tidy caller only say so; the finding is about
the others. The refinement mapping to `RowQueue` is, for a tidy caller, `queue <-`
the first `rowsIndex` cells of the buffer while it fills, and `table`, `durable`,
`filled`, `warned <- disturbed`; for the others nothing is claimed, and all five
stay as they began.

**`OnePlace`** is the abstract specification of a notifier: a place for one
parcel, which `Put` fills and `Take` empties.

**`Notifier`** (`binuj/java/server/vlab/binu/Notifier.java` 5-39, and with the same
text `generators/vlab/crackle/rw/Channel.java` 23-57). `parcel` and `message` are
the fields; `where` says whether a thread is outside, at the lock or in the
object's wait set. `get` and `put` are synchronized: what a thread does between
taking the lock and giving it up, in `wait` or at its return, is one step.
`Leave` is `notifyAll` and the return: all who waited go back to the lock, and
who gets it is open. A `wait` may end unasked or by an interrupt, which the loops
catch. `get` leaves `parcel` as it is; only `message` says that it was taken.
Callers are not restricted: every thread gets and puts as it likes. The
refinement mapping is `place <- IF message THEN <<parcel>> ELSE <<>>`.

**`HttpSession`** (`libs/http/src/httprequest.cpp` 30-276, `httprequest.h` 34,
`httpserver.cpp` 124-206). A request is a head of `HeadLen` units (the request
line, the headers) and a body; the client sends it in pieces of any size, closes
when it likes, and a new call begins when the last one was closed. `readData`
takes what is there and ends at the first pause of 10 ms: the model lets it end
whenever everything sent was read, so that head and body can be cut anywhere.
`first` is what `loadHeaders` was given. When that is the whole head it sees what
the head tells (`LoadHeaders`). When it is less (`LoadCutHeaders`), headers are
missing or the last one is cut in two (`CutsOf`: a Content-Length is then smaller,
Expect and Authorization may be there or not), what follows of the head counts as
body, and a request line that is cut leaves `strchr` (34, 38) without its blank,
which may end the worker by a signal ("crashed").

`text` is the length of the C string that becomes the input: `Length` counts as
`strlen` does, up to the first NUL byte, of which a body may have one (`nul`). What
a later `readData` brings is appended as a C string (153); behind a NUL of the first
read it is out of `strlen`'s sight, if `TBChar`, whose source is not in the
repository, puts it there at all, and so `Appended` leaves that open. `WantsMore` is
the condition of the loop for the body, `After` the tests of `readRequest` that
follow, `Promise` and `BodyRead` the two halves of `getAuthorizedData`, `Response`
the branches of `writeResponse`, `WriteError` the handlers of `WaitForCall`.
`written` of the code is tested in one handler only and can be left out: after
`writeResponse` returned nothing in the block throws any more, and a Write that
throws has written no answer. `steady` is chosen for each client: such a one sends
everything and closes after the answer.

**`AnydbMake`** (`tools/anydbMake.py` 58-100, 444-603, and jportal,
`Compiler.java` 32-107, 202-217). `stamp` and `edited` are the times that
`lastmod` finds, in whole seconds; `good` and `copied` say which files hold what
the inputs now give. `Begin` takes the times of the supplied files and of the
tool (`due`: one is newer than the whole), compares, removes the targets of what
is out of date and collects the snippets of the rest; `Read` and `Write` are
jportal, which reads a source and then lets each generator write its file; `Join`
and `Crackle` are what follows. The inputs of the whole are the sources' snippets,
the module file (`Module`, whose time is taken at the join, 525), the supplied
`.ii` and `.ib` files (`Supplied`) and the supplied `.ic` files (`IcFile`), which are
compared and never copied (`Joined` is `Part` without them). The part of the script
for `.pi` files and pickle repeats that for `.ii` files and crackle line by line,
with two differences: the extension in line 503 (constant `Ext`, a finding), and
that it has no third kind of supplied files (`Compared`).

The script learns of the snippets from the lines "Code: " in jportal's log.
jportal keeps them in a buffer (`logged`) and flushes it when the last generator
of a source is done (`Compiler.java` 106), or in `main` when one threw (215).
`Flush` is the first, `GeneratorThrows` the second. `JportalKilled` and
`JportalKilledWriting` are jportal ended by a signal while the script, which drops
its exit code (71), goes on to the join: the buffer is lost, unless it was full
and had been written (`LogIsCut`). `lost` holds the sources whose snippets were
written without the script hearing of it. `Interrupt` and `InterruptWriting` end the
script too. Inputs are edited at any time, sources do not parse, crackle fails; a
file that was being written when something failed is `torn`. `careful` tells users
apart: a careful one edits and starts builds only in a second in which no file was
made, and does not edit what jportal has read and not yet finished with.

**`JulianDate`** (`libs/cli9/src/cliapi.cpp` 122-140, 162-182; the same in
`libs/oci11`, `libs/oci9`, `libs/pg8`): the two conversions with the code's
variables named, beside them the Gregorian calendar as the reference, and the
seconds that `TimeStamp` (365-367) computes from a day number, with the int they
have to fit.

The `MC*` modules give the constants values. `MCCliCursors` also holds
`ThereAndBack` and `BackAndThere`, with which TLC evaluates `JulianDate` on every
date and every number of 23 years: both sides of leap years, centuries and four
centuries, 1970 and 2038.

## 4. Runs

| run | bounds | states | what it shows |
|---|---|---|---|
| `prefork` | 2 slots, 3 pids, 1 restart | 929 044 | `EveryChildListed`, `PoolBounded`, `DrainedHasNoChild`, `SignalledReachesAll`, `ShutdownDescends`, `ShutdownEnds` |
| `http` | as above, 2 clients, 2 faults | 556 411 | `OpenFindsConnection`, `OwnerIsWaiting`, `SignalledWindsDown`, `ShutdownDrains`, `ConnectionAccepted` |
| `cli_cursors` | 2 selects, batches of 2, up to 5 rows | 178 084 | `RowsInOrder`, `EndOnlyAfterLastRow`, `NoRowSwallowed`, `ImplementsRowStream` |
| `bulk_deliver` | buffers of 1, 2 and 3 rows, 4 rows | 2 322 996 | `RowsArriveOnce`, `DoneSendsAll`, `BatchesCommitted`, `ImplementsRowQueue` |
| `notifier` | 3 threads, 2 parcels | 36 445 | `NoLostWakeup`, `ImplementsOnePlace`, `Progress` |
| `http_session` | heads of 3 units, bodies of up to 3, one NUL byte | 196 985 | `WholeBody`, `OneAnswer`, `AnsweredBeforeClose`, `SessionShrinks`, `SessionEnds` |
| `anydb` | 2 sources, 3 seconds, 2 inputs edited (1 by a user who is not careful) | 5 474 976 | `StaleIsSeen`, `BuildIsComplete`, `NoNeedlessWork`, `UpToDateIsLeftAlone` |
| `prefork_stop` | as `prefork` | | violated: `AllSignalled` |
| `prefork_childless` | as `prefork` | | violated: `ChildlessParentEnds` |
| `cli_lost_rows` | as `cli_cursors` | | violated: `FetchedAll` |
| `bulk_sent_twice` | as `bulk_deliver` | | violated: `SentOnce` |
| `anydb_app` | as `anydb`, with `.pi` | | violated: `WholeHoldsGenerated` |

Why the bounds are enough to be of use. Two slots are the least with which
closing a slot moves another and with which the first and the last slot differ;
three pids leave one for a fork while two workers live or are zombies, and pids
are used again. One restart gives a restart, and the case in which none is left.
Two clients are a connection taken while another waits; two faults are a fault
while another is being cleaned up, or one worker that hangs while the other goes on, or
both that hang. Five rows in batches of two are two full
batches and a part of one, and 2 and 4 rows the batch that is exactly full. Two
selects are one that disturbs another. Four rows leave a buffer of three with a
part of a batch, one of two with nothing, and one of one row with no room to
wait; `MaxRows` also ends a caller that calls Done for ever. Three threads are the least with which a getter and a
putter wait while a third is served, and so the least that tells `notifyAll` from
`notify`; two parcels tell one that was taken twice from two. A body of three
units comes in one unit with the head and two more after pauses, and the loop for
it runs twice; a head of three units can be cut before and behind the line with
the length, and its rest be longer or shorter than the body it is taken for. One
NUL byte at any place is enough, as `strlen` stops at the first. Two sources are one that is out of date beside one that is not
(they are symmetric, and symmetry is used: no property of that run is a liveness property);
three seconds are a build, an edit after it and a build after that, with any
number of failures and builds within each second. `MaxEdited` bounds how many
different inputs have been edited after the first second, each as often as the
clock allows: two, for one edited before and one during a build, and one for the
user who is not careful, of whom only `NoNeedlessWork`, `UpToDateIsLeftAlone` and
the types are claimed. The theorems below do
not have these bounds.

Deadlock is checked in all runs but three. In `http_session` a worker that is
thrown out of `WaitForCall`, or crashes, ends, and in `anydb` and `anydb_app` the clock stops at
`MaxTime`, after which a careful user may have nothing left to do. `PreFork` and
`HttpServer` may end; a step that changes nothing (`Finished`, `HFinished`) says so,
enabled only when the parent has returned and no worker is left, in `HttpServer`
none that does not hang, so that any other stop is an error.

Each property of a passing run has a mutant in `PROJECT.json`: an operator
beside the one it replaces, with the change a plausible bug would make, under
which TLC finds that property violated.

**Fairness.** `prefork`: weak fairness of the supervisor's step, that is, the
kernel goes on scheduling a process that is always ready (its only wait is
`usleep(10000)`, and `fork` and `wait3` do not block). Nothing is assumed of
workers or operator. `http`: the same, and weak fairness of each worker's normal
steps: its process is scheduled, and `WaitConnect` has a time-out and so returns.
Nothing is assumed of calls: one may hang, and a worker that does has no step left
to be fair to. So `ShutdownDrains` and `ConnectionAccepted` except what such workers
cause, as the code does not exclude them: a shutdown ends all processes but these
(and a parent that waits for them), and a connection is accepted unless every
worker that is left hangs. One worker that is left and does not hang is enough:
the one that hangs holds no semaphore. What is assumed of a call that does not
hang is that it ends; `SessionEnds` of `HttpSession` says for which clients the
reading and answering does. `Lock` needs only weak fairness for what is
stated: no property claims that a given worker gets the semaphore, only that
connections are accepted.

`http_session`: weak fairness of the worker's steps, as its process is scheduled
and its waits have time-outs, and of a steady client's sending, which is what
"steady" means; nothing of other clients. `SessionEnds` is stated of steady clients
whose body has no NUL byte: with one, `strlen` never counts up to Content-Length, and
the loop goes on for ever even though everything was sent. `notifier`: weak fairness of each
thread's step at the lock. Sections of the monitor are a few statements and never
block while they hold it, so the lock is free again and again, and Java lets
somebody have it; what is stated needs only that some thread gets on, not that
each does. Nobody has to call, and no `wait` has to end unasked.

## 5. Findings

1. `prefork_stop`: a worker that is stopped (SIGSTOP, a debugger) is taken for
   one that ended: `wait3` is asked for stopped children too, and nobody tests
   which it was. Its slot is closed, it is counted as a failure, and when it is
   continued it serves on but is not sent the signal of a shutdown.
2. `prefork_childless`: workers that fail when no restart is left are neither
   replaced nor subtracted. When all have gone that way the parent polls for
   ever, with a listening socket on which nobody accepts. Neither the restarts
   granted again in the next idle turn nor the branch "No need to handle
   children" helps, because both counters stay equal.
3. `cli_lost_rows`: `JP_Fetch` in mid-batch answers with the result of the
   connector. An update that matches no row, made between two fetches, leaves
   "no data" there, and the loop ends early and silently.
4. `bulk_sent_twice`: `Done` on an empty buffer, right after a full batch or
   twice in a row, defers like a `Fill` and counts a row nobody put in. Neither
   Close nor Init takes it back, and the next batch sends a row of the old
   buffer once more. For a tidy caller this is harmless: it is at its end.
5. `anydb_app`: the snippets of sources that need no compilation are collected
   by the extension `.ii` only. An application file that is joined after one source
   changed lacks the `.pi` snippets of all others, and nothing is newer than it
   afterwards, so no later build adds them.

Beside these the model shows a disagreement with the manual that has no run of its
own. `anydbMake.md:43` says that the imfile "is used to create the 'idlfile'
together with all supplied 'iifile' and generated 'iifile' followed by all supplied
'ibfile' and 'icfile'". The script compares the `.ic` files (536-538), so that a newer
one makes it build the idlfile again, and then copies module file, `.ii` and `.ib`
files only (540-554). In the model `Joined` lacks `IcFile`; `BuildIsComplete` says
of an undisturbed build that the whole then holds every part but these
(`copied = Part \ {IcFile}`), which is to say that no such build ever does what
line 43 of the manual promises when there is an `.ic` file.

No text of the repository contradicts the following, which the models have too,
and which the properties except by name: a file that was being written when a
build failed is taken for up to date afterwards (`torn`); a snippet whose name was in
the log of a jportal that was killed is missing from the whole that is joined then,
and, as that is newer than the snippet, nothing has the whole joined again until
some other part changes (`lost`); a
crackle that failed is not run again; an edit in the second its target is made is
missed; a head that a pause cuts is served with a part of its body, with none, with
the rest of the head in its place, or crashes the worker; a client that closes early,
or a NUL byte in a body, keeps a worker for ever.

## 6. Proofs

All theorems are in `*_proofs.tla`, for any constants that satisfy the named
assumptions: `PidAssumption` (supervisor, "no pid" and "stranger" are not pids),
`StrangerAssumption`, `CountAssumption` (two slots or more), `MaxFaultsAssumption`,
`NoRowsAssumption` (a batch holds a row), `MaxSizeAssumption`, `BulkAssumption`
(a buffer holds a row, `MaxRows` is a number), `NoneAssumption` (null is not a
parcel's value), `UnitsAssumption`
(a head has a unit), `InputAssumption` (there is a source, and the
inputs are different files), `FileAssumption`, `ExtAssumption`, and
`TargetAssumption` (the whole and its outputs are not targets
of jportal).

`PreFork_proofs`. `TypeOK` is not inductive: `KillSlot` reads `list[cursor]` and
the last call moves `cursor` past the slots. `CursorInv` adds where `cursor` is
for each `pc`. `ListInv` (as long as nobody
stops workers): every child is named in a slot below `noProcs`, every pid in a
slot is a child and below `noProcs`, no pid is named twice, and `noProcs` does
not exceed `childrenToOpen`. The slots need not be packed: a failure beyond the
restarts leaves `noProcs` one too high for good and a later fork writes above a
hole; what counts is that a removal lowers `noProcs` by one at most and moves
every later slot down by one. `PoolBounded` follows from it by mapping children
to their slots (`FiniteSetTheorems`). `SignalInv`: every slot the cursor has
passed and that names a living worker names one whose flag is set; when the
cursor has passed all slots, `ListInv` says that these are all workers.
`DrainInv`: the parent that drained wants no child; with `ListInv` it has none.
`ShutdownBounded` is about steps: with the flag set, `StepsToEnd` (the forks still
owed, the test of the flag, the slots the cursor has before it) goes down with
every step of the parent, from `2 * NoProcs + 2` at most, and no other process
touches what it is computed from. With the flag set the parent polls once more at most (when the signal came after
its test), forks what it still owes, and walks its list.

`HttpServer_proofs`. `Implementation` (`HSpec => Spec`) carries `PreFork`'s theorems
over; it is a step simulation with the identity as the mapping.
`LockInv` says that the owner of the semaphore is exactly the worker at "wait"
or "open" (which `OwnerIsWaiting` repeats: one accepts at a time), that a worker's place is "gone"
exactly when its process does not run, and that the worker at "open" has a
connection: only it can shorten the backlog. `WorkersWindDown` rests on
`SignalledReachesAll`: every running worker has its flag, so `CheckShutdown` ends it
at the top of the loop and no step leads back to `mutex`. A worker whose call hangs
takes no step, which the theorem allows: its only one is to be killed.

`CliCursors_proofs`. `CInv` ties counters to buffer: while a select is read,
`pos = totalRowsRead <= size` and `rowsDone <= totalRowsRead`; inside a batch
`rowsIndex = rowsDone - 1 - (totalRowsRead - rowsRead)` and cell `i` of the
buffer holds row `totalRowsRead - rowsRead + i + 1`; rows handed over are not
above `rowsDone`. `RowsInOrder` alone is not inductive, because the next row
comes out of the buffer. From `CInv` follow the order of the rows, the place of
the end, `NoRowSwallowed`, and that each step is a step of `RowStream` or
changes nothing there (`CursorsAreStreams`), including the initial states.

`BulkDeliver_proofs`. `Waiting` says what is in the buffer of a tidy caller: its
last `rowsIndex` rows, in order. All rows in the table come before these
(`InOrder`), and until something goes wrong all rows before these are in the
table (`Complete`). `RowsArriveOnce` alone is not inductive, because the rows
that arrive next come out of the buffer. The lemmas on `Execute` (`Sent`,
`SentInOrder`) say what appending the first rows of the buffer to the table
does, with `SequenceTheorems`; `Rollback` cuts the table with `SubSeq`. That
`rowsIndex` stays inside the buffer (`BulkTyped`) is proved of all callers.
`BulkIsRowQueue` is a step simulation under the same invariant. What it needs
beyond it: that the buffer with one more row is the queue with one more row
(`RowsAppend`), that the rows a call sends are a prefix of the buffer
(`ExecuteSendsPrefix`), and that a full buffer is sent in the step that fills it,
so that a step of the code is `Put` or `PutAndSend` and nothing in between.

`Notifier_proofs`. `NoLostWakeup` is inductive with `TypeOK`: a thread joins the
wait set only when it must wait, and whoever changes `message` empties the set.
From it follows `OneKindWaits`: getters and putters never wait at the same time,
which is why one wait set does. The refinement is a step simulation: `Take` and
`Put` map to those of `OnePlace`, all other steps leave the place alone.

`HttpSession_proofs`. `WholeBody` alone is not inductive, because what is served
was read earlier. The invariant says for each place of the worker how much of the
text has been read and what has been answered: in the loop the text is no longer than what was
read after the head, or, when the head was cut, after the cut (`LoopInBounds`);
past the loop it is at least `seen.len`, or the client expects a 100. For a head that
came whole the two bounds meet: the body is no longer than Content-Length, so at
least `seen.len` of it is all of it, and no NUL byte can be in it. Of a cut head only
the lower bound is left, and that is what `NoPartialBody` states of it.
`CallIsBounded`: with `ToDo`, the places ahead of the worker plus the units not yet
sent, not yet read and not yet appended, every step of a call goes down, for
clients that are not steady too; a call takes `3 * Units + 10` changing steps at
most.

`AnydbMake_proofs`. The three properties rest on one invariant, `Inv`. `ClockInv`:
no time is later than `now`. `ListedInv`: until the join, a snippet that is there is
listed, or in the buffer of the log, or lost; here `Ext = ".ii"` is needed. `CalmInv`:
what an undisturbed build has done up to each stage, that every lost snippet has
come up again in its list, and that `due` still says what the times of the inputs
say. `CarefulInv`: of a careful user, that inputs jportal has loaded are as
they were (`ReadInv`), that each target which is not good is torn, missing, or
older than an input of its own, target by target (`TargetInv`; `Outdated` speaks
of some target of the source, which is too weak to survive the writing of one of
two), and that parts the whole lacks are newer than it, lost, or `.ic` files
(`PartInv`). The invariant with `lost` in it shows how far the loss of a log goes: a
build that is not disturbed lists every snippet that is up to date, lost or not, but
joins only when some part is newer.
`NothingGoodIsTouched` needs none of it, neither `.ii` nor a careful user: only that
what jportal has still to write is not there and that no source is given to it
twice (`GoneInv`).

`JulianDate_proofs`. No invariant: `CenturyAndBack`, `YearAndBack` and `MonthAndBack`
take a number apart in the order in which it was put together, each with the
bound on what remains that makes the truncated quotient come out right (a century
of 36525 days only as the last of four, a year of 366 only as the last of four,
the last month no longer than its February). `DateOfNumber` puts them together.
`NextNumber` rests on the lengths of years and centuries. `NumberOfDate` is the
other direction: `CenturyForth`, `YearForth` and `MonthForth` show that the parts
`JP_CalendarDate` takes off a number are parts of a date, so that the two
functions are inverse on all dates from 0001-01-01 on. `NumbersInOrder` reads the
order of dates off their numbers part by part (`LaterCentury`, `LaterYear`,
`LaterInYear`): if a later part had no larger number, the quotient that finds it
back could not be larger either. `SecondsFitUntil2038` applies it to the int of
`TimeStamp`.

**Only model-checked**: the liveness properties `ShutdownEnds`,
`ShutdownDrains`, `ConnectionAccepted`, `Progress` and `SessionEnds` (liveness under
fairness and ENABLED are out of the prover's reach), and the violations. Of three
of them the half that is not about fairness is proved: `ShutdownBounded`,
`WorkersWindDown` and `CallIsBounded` give a number that each step lowers, and what
TLC alone shows is that a step is always possible and taken. `ConnectionAccepted`
and `Progress` have no such number: any count of other calls may come first.

## 7. Not modelled, and why

* Debug mode and `{NoProcs}` of 1: no fork, one process, nothing to supervise.
* Exceptions out of `CreateHandlers` in the parent: nothing it calls between
  the forks throws.
* The contents of requests, rows and answers: no property is about them. A row
  is its number; a request is the length of its body and the headers that change
  what is done with it.
* The parsing of a head: lines beyond the 512 bytes of `line`, a cut between CR and
  LF or inside a name that `_getline` reads past, percent-encoding; and the pointer into the buffer that `loadHeaders` keeps
  while it appends to it (line 143 reads through it): memory is not modelled.
* The listener of the BINU server: `Server.java` 99 calls `run` where `start` is
  meant, so that the first worker waits for ever in the thread that should start
  the listener. There is one thread in one call and nothing to explore; the
  monitor is modelled with threads that do run.
* `anydbMake`: the parsing of the project file, the options `--build`, `--sources`
  and `--targets`, projects without a module file (which call crackle every time),
  wildcard targets, a target that cannot be removed.
* The conversions of dates from and to text, and of the clock around `JulianDate`
  what follows the seconds (doubles, `gmtime`).
* `WIFSIGNALED`: what is done with a killed worker is modelled (it counts as a
  return with 0), but no text in the repository says what should be done.
* `JP_Fetch` of `libs/oci11`: `CliCursors` models its design. LOBs, conversions
  and logon of both run times.
* Array insert, logon, sequences and coordinated transactions of `libs/cli9`.
* What commit and rollback do to open cursors: the driver decides; SQLFetch may
  fail at any call, which covers a cursor that was closed.
* Generators and decompilers: text to text. Vendored code: not this project's.

The run times, the server and the build script are a few thousand lines of a
repository whose bulk is SQLite, jsoncpp, the headers of database vendors,
generated parsers and the templates of forty generators. The share of the
repository's lines that `map` covers is small for that reason and will stay so.
