----------------------------- MODULE AnydbMake -----------------------------
(***************************************************************************)
(* tools/anydbMake.py, the build of a project: it compares file times in   *)
(* whole seconds, removes the targets of every source that is out of date, *)
(* has jportal generate them again, joins the module file and the snippets *)
(* (.ii or .pi) generated for all sources into one file when that is older *)
(* than a part, and runs crackle or pickle on it.  The .ii part of the     *)
(* script and the .pi part differ in the extension Ext.                    *)
(*                                                                         *)
(* Which snippets jportal made the script learns from a log, which jportal *)
(* keeps in a buffer until the last file of a source is written.           *)
(*                                                                         *)
(* Beside the build stand the user, who edits and interrupts, and the      *)
(* failures of the generators, whose exit codes the script drops.  What a  *)
(* file holds is abstracted to whether it is what the inputs now give.     *)
(* A project without a module file is left out: it has no join.            *)
(***************************************************************************)
EXTENDS Integers, FiniteSets

CONSTANTS
  Source,    \* the .si files of the project
  Jar,       \* jportal.jar
  Module,    \* the imfile or pmfile
  Supplied,  \* the iifile and ibfile, or pifile and prfile, the project names
  IcFile,    \* the icfile the project names
  Tool,      \* crackle.jar or pickle.jar
  Whole,     \* the idlfile or appfile that is joined
  Outputs,   \* what crackle or pickle makes of it
  Ext,       \* the snippets that are joined: ".ii" or ".pi"
  MaxTime,   \* bound: the last second of the clock
  MaxEdited  \* bound: how many inputs a careful user, MaxEdited[TRUE], and another
             \* one, MaxEdited[FALSE], edit after the first second

Given == {Jar, Module, Supplied, IcFile, Tool}

ASSUME InputAssumption ==
  /\ Source # {} /\ Source \cap Given = {}
  /\ Jar \notin {Module, Supplied, IcFile, Tool}
  /\ Module \notin {Supplied, IcFile, Tool}
  /\ Supplied \notin {IcFile, Tool} /\ IcFile # Tool
ASSUME FileAssumption == Whole # Outputs
ASSUME ExtAssumption == Ext \in {".ii", ".pi"}

Snippet(s) == <<s, "snippet">>
TargetsOf(s) == {s} \X {"code", "snippet"}
Target == Source \X {"code", "snippet"}
Input == Source \cup Given
\* What the manual has the whole made of, and what the script makes it of: the
\* .ic files are compared like the others (536-538), and never copied (539-554).
Part == Source \cup {Module, Supplied, IcFile}
Joined == Part \ {IcFile}
Stamped == Target \cup {Whole}

ASSUME TargetAssumption == Whole \notin Target /\ Outputs \notin Target

VARIABLES
  now,      \* the clock, in the seconds ST_MTIME has
  edited,   \* the time of each input
  stamp,    \* the time of each target and of the whole, 0 when it is missing
  good,     \* the targets, and the outputs, that are what the inputs now give
  copied,   \* the parts whose current content is in the whole
  torn,     \* files a failure left written in part, and nobody removed
  lost,     \* the sources whose snippets no log has told of, nor a join taken in
  pc,       \* the stage of the build
  due,      \* an input was newer than the whole when the build took their times
  todo,     \* the sources jportal was given and has not come to
  left,     \* the targets of the source it has read that it has still to write
  loaded,   \* the inputs read by jportal that are as they were when read
  logged,   \* the sources whose snippets are in the buffer of jportal's log
  listed,   \* iiFiles or piFiles: the sources whose snippets will be joined
  calm,     \* no edit and no failure since the last build began
  careful   \* the user keeps to Leisure: never changes

files == <<stamp, good, copied, torn, lost>>
run == <<due, todo, left, loaded, logged, listed>>
vars == <<now, edited, files, pc, run, calm, careful>>

Init ==
  /\ now = 1
  /\ edited = [f \in Input |-> 1]
  /\ stamp = [f \in Stamped |-> 0]
  /\ good = {} /\ copied = {} /\ torn = {} /\ lost = {}
  /\ pc = "idle" /\ due = FALSE
  /\ todo = {} /\ left = {} /\ loaded = {} /\ logged = {} /\ listed = {}
  /\ calm = FALSE
  /\ careful \in BOOLEAN

-----------------------------------------------------------------------------
(* The tests of the script: all compare whole seconds, strictly.           *)

\* Mutant: a source as old as its target is compiled again.
OutdatedOrEqual(s) ==
  \E t \in TargetsOf(s) : edited[s] >= stamp[t] \/ edited[Jar] >= stamp[t]

\* Mutant: a new jportal.jar is not looked at.
OutdatedBySource(s) == \E t \in TargetsOf(s) : edited[s] > stamp[t]

Outdated(s) ==
  \E t \in TargetsOf(s) : edited[s] > stamp[t] \/ edited[Jar] > stamp[t]

\* The inputs of the whole whose times are taken when the script starts.
Compared == {Supplied, Tool} \cup (IF Ext = ".ii" THEN {IcFile} ELSE {})
NewerInput == \E f \in Compared : edited[f] > stamp[Whole]

\* The times of the module file and of the snippets are taken at the join.
MustJoin(newer, snippets) ==
  \/ newer
  \/ edited[Module] > stamp[Whole]
  \/ \E s \in snippets : stamp[Snippet(s)] > stamp[Whole]

\* What a user can do to be safe from the one-second clock: edit, and start a
\* build, in a second in which no file was made; and not edit what is in use.
Leisure == \A f \in Stamped : stamp[f] < now

-----------------------------------------------------------------------------
(* The user and the clock.                                                 *)

Tick ==
  /\ now < MaxTime
  /\ now' = now + 1
  /\ UNCHANGED <<edited, files, pc, run, calm, careful>>

\* What an input decides: targets, the outputs, and parts of the whole.
Affected(f) ==
  {t \in Target : f \in {Jar, t[1]}} \cup (IF f = IcFile THEN {} ELSE {Outputs})
PartsOf(f) == CASE f = Jar -> Source [] f \in Joined -> {f} [] OTHER -> {}

Edit(f) ==
  /\ Cardinality({f} \cup {g \in Input : edited[g] > 1}) <= MaxEdited[careful]
  /\ careful => Leisure /\ f \notin loaded
  /\ edited' = [edited EXCEPT ![f] = now]
  /\ good' = good \ Affected(f)
  /\ copied' = copied \ PartsOf(f)
  /\ loaded' = loaded \ {f}
  /\ calm' = FALSE
  /\ UNCHANGED <<now, stamp, torn, lost, pc, due, todo, left, logged, listed, careful>>

-----------------------------------------------------------------------------
(* The build.                                                              *)

\* Mutant: the snippets of sources that are up to date are forgotten.
ListNone(s) == FALSE

\* The script collects the snippets of an up-to-date source by the .ii alone.
ListUpToDate(s) == Ext = ".ii" /\ ~Outdated(s)

Begin ==
  /\ pc = "idle"
  /\ careful => Leisure
  /\ LET old == {s \in Source : Outdated(s)}
         removed == UNION {TargetsOf(s) : s \in old}
     IN /\ todo' = old
        /\ stamp' = [f \in Stamped |-> IF f \in removed THEN 0 ELSE stamp[f]]
        /\ good' = good \ removed
        /\ torn' = torn \ removed
        /\ lost' = lost \ old
        /\ pc' = IF old = {} THEN "join" ELSE "jportal"
  /\ listed' = {s \in Source : ListUpToDate(s)}
  /\ loaded' = IF pc' = "jportal" THEN {Jar} ELSE {}
  /\ due' = NewerInput
  /\ calm' = TRUE
  /\ UNCHANGED <<now, edited, copied, left, logged, careful>>

\* Mutant: the source is given once for each of its targets that is out of date.
ReadGivenTwice(s) ==
  /\ pc = "jportal" /\ left = {} /\ logged = {} /\ s \in todo
  /\ todo' \in {todo, todo \ {s}}
  /\ left' = TargetsOf(s)
  /\ loaded' = loaded \cup {s}
  /\ UNCHANGED <<now, edited, files, pc, due, logged, listed, calm, careful>>

\* compile: the next source is parsed, then every generator writes its file.
Read(s) ==
  /\ pc = "jportal" /\ left = {} /\ logged = {} /\ s \in todo
  /\ todo' = todo \ {s}
  /\ left' = TargetsOf(s)
  /\ loaded' = loaded \cup {s}
  /\ UNCHANGED <<now, edited, files, pc, due, logged, listed, calm, careful>>

\* A generator logs "Code: " and the name, then creates and fills the file.
Named(t) == {s \in Source : t = Snippet(s)}

Write(t) ==
  /\ pc = "jportal" /\ t \in left
  /\ left' = left \ {t}
  /\ stamp' = [stamp EXCEPT ![t] = now]
  /\ good' = IF {Jar, t[1]} \subseteq loaded THEN good \cup {t} ELSE good \ {t}
  /\ torn' = torn \ {t}
  /\ lost' = lost \ Named(t)
  /\ logged' = logged \cup Named(t)
  /\ UNCHANGED <<now, edited, copied, pc, due, todo, loaded, listed, calm, careful>>

\* The last generator of a source is done: outLog.flush().
Flush ==
  /\ pc = "jportal" /\ left = {} /\ logged # {}
  /\ listed' = listed \cup logged
  /\ logged' = {}
  /\ UNCHANGED <<now, edited, files, pc, due, todo, left, loaded, calm, careful>>

\* Mutant: what the failing jportal had still to write stays to be written.
JportalStopsHalfway ==
  /\ pc' = "join"
  /\ todo' = {} /\ loaded' = {} /\ logged' = {} /\ UNCHANGED <<left, due>>

\* jportal is over, however it ended; its exit code is dropped.
JportalStops ==
  /\ pc' = "join"
  /\ todo' = {} /\ left' = {} /\ loaded' = {} /\ logged' = {} /\ UNCHANGED due

\* The whole build is over.
BuildStops ==
  /\ pc' = "idle"
  /\ due' = FALSE
  /\ todo' = {} /\ left' = {} /\ loaded' = {} /\ logged' = {} /\ listed' = {}

JportalEnds ==
  /\ pc = "jportal" /\ todo = {} /\ left = {} /\ logged = {}
  /\ JportalStops
  /\ UNCHANGED <<now, edited, files, listed, calm, careful>>

\* A source does not parse: jportal ends with 1, and the build goes on.
ParseFails ==
  /\ pc = "jportal" /\ todo # {} /\ left = {} /\ logged = {}
  /\ JportalStops
  /\ calm' = FALSE
  /\ UNCHANGED <<now, edited, files, listed, careful>>

\* A file that jportal was writing is left as it is.
HalfWritten(t) ==
  /\ pc = "jportal" /\ t \in left
  /\ stamp' = [stamp EXCEPT ![t] = now]
  /\ good' = good \ {t}
  /\ torn' = torn \cup {t}
  /\ calm' = FALSE
  /\ UNCHANGED <<now, edited, copied, careful>>

\* A generator throws: main catches it, flushes the log and ends.
GeneratorThrows(t) ==
  /\ HalfWritten(t)
  /\ JportalStops
  /\ listed' = listed \cup logged \cup Named(t)
  /\ UNCHANGED lost

\* jportal is killed and the script goes on: what was in the buffer of the log is
\* lost, unless the buffer was full and had been written before.
LogIsCut(names) ==
  /\ listed' \in {listed, listed \cup names}
  /\ lost' = lost \cup (names \ listed')

JportalKilled ==
  /\ pc = "jportal"
  /\ JportalStops
  /\ LogIsCut(logged)
  /\ calm' = FALSE
  /\ UNCHANGED <<now, edited, stamp, good, copied, torn, careful>>

JportalKilledWriting(t) ==
  /\ HalfWritten(t)
  /\ JportalStops
  /\ LogIsCut(logged \cup Named(t))

\* The whole build is interrupted, the script too.
InterruptWriting(t) ==
  /\ HalfWritten(t)
  /\ BuildStops
  /\ UNCHANGED lost

\* The module file, the supplied files and every listed snippet, current or not,
\* are copied.
Join ==
  /\ pc = "join" /\ MustJoin(due, listed)
  /\ stamp' = [stamp EXCEPT ![Whole] = now]
  /\ copied' = {Module, Supplied} \cup {s \in listed : Snippet(s) \in good}
  /\ torn' = torn \ {Whole}
  /\ lost' = lost \ listed
  /\ good' = good \ {Outputs}
  /\ pc' = "crackle"
  /\ UNCHANGED <<now, edited, run, calm, careful>>

NothingToJoin ==
  /\ pc = "join" /\ ~MustJoin(due, listed)
  /\ BuildStops
  /\ UNCHANGED <<now, edited, files, calm, careful>>

TearWhole ==
  /\ pc = "join" /\ MustJoin(due, listed)
  /\ stamp' = [stamp EXCEPT ![Whole] = now]
  /\ copied' = {}
  /\ torn' = torn \cup {Whole}
  /\ good' = good \ {Outputs}
  /\ BuildStops
  /\ calm' = FALSE
  /\ UNCHANGED <<now, edited, lost, careful>>

Crackle ==
  /\ pc = "crackle"
  /\ good' = IF copied = Joined THEN good \cup {Outputs} ELSE good
  /\ torn' = torn \ {Outputs}
  /\ BuildStops
  /\ UNCHANGED <<now, edited, stamp, copied, lost, calm, careful>>

\* crackle fails, or is never started: the whole is new, its outputs are not.
CrackleFails ==
  /\ pc = "crackle"
  /\ torn' = torn \cup {Outputs}
  /\ BuildStops
  /\ calm' = FALSE
  /\ UNCHANGED <<now, edited, stamp, good, copied, lost, careful>>

\* The build is interrupted between two files.
Interrupt ==
  /\ pc \in {"jportal", "join"}
  /\ BuildStops
  /\ calm' = FALSE
  /\ UNCHANGED <<now, edited, files, careful>>

User == Tick \/ \E f \in Input : Edit(f)

Build ==
  \/ Begin \/ Flush \/ JportalEnds \/ Join \/ NothingToJoin \/ Crackle
  \/ \E s \in Source : Read(s)
  \/ \E t \in Target : Write(t)

Failure ==
  \/ ParseFails \/ JportalKilled \/ TearWhole \/ CrackleFails \/ Interrupt
  \/ \E t \in Target : GeneratorThrows(t) \/ JportalKilledWriting(t) \/ InterruptWriting(t)

Next == User \/ Build \/ Failure

Spec == Init /\ [][Next]_vars

-----------------------------------------------------------------------------
(* Properties.                                                             *)

\* The build's variables and files; between builds nothing is left to do, and
\* jportal writes the targets of one source at a time.
TypeOK ==
  /\ now \in Nat /\ edited \in [Input -> Nat] /\ stamp \in [Stamped -> Nat]
  /\ good \subseteq Target \cup {Outputs} /\ copied \subseteq Joined
  /\ torn \subseteq Target \cup {Whole, Outputs} /\ lost \subseteq Source
  /\ pc \in {"idle", "jportal", "join", "crackle"}
  /\ todo \subseteq Source /\ logged \subseteq Source /\ listed \subseteq Source
  /\ loaded \subseteq Input /\ due \in BOOLEAN
  /\ left = {} \/ \E s \in Source : left \subseteq TargetsOf(s)
  /\ calm \in BOOLEAN /\ careful \in BOOLEAN
  /\ pc # "jportal" => todo = {} /\ left = {} /\ logged = {}

\* A target that is not what the inputs now give is older than one of them, or
\* missing, so that the next build makes it again (anydbMake.py:480-487): unless
\* a failure left it half written.
StaleTargetIsOlder ==
  \A s \in Source, t \in Target :
    t \in TargetsOf(s) => t \in good \/ t \in torn \/ Outdated(s)

\* A part the whole does not hold as it now is will be newer than the whole
\* when the next build comes to join (anydbMake.py:526-538): unless a snippet is
\* half written, or the log of a jportal that was killed lost the name of it and a
\* join without it followed.
StalePartIsNewer ==
  Whole \notin torn =>
    /\ \A f \in {Module, Supplied} : f \in copied \/ edited[f] > stamp[Whole]
    /\ \A s \in Source : \/ s \in copied
                         \/ Outdated(s) \/ Snippet(s) \in torn \/ s \in lost
                         \/ stamp[Snippet(s)] > stamp[Whole]

\* Outputs that are not what the inputs now give are made again with the whole
\* (anydbMake.py:560): only a failure of crackle is never made up for.
StaleOutputsAreRemade ==
  pc # "crackle" =>
    \/ Outputs \in good \/ Outputs \in torn
    \/ edited[Tool] > stamp[Whole] \/ copied # Joined

\* Whatever was edited since, and wherever earlier builds failed, the next build
\* of a careful user sees by the times of the files what it has to make again: of
\* all but the .ic files, which no build takes in (anydbMake.md:43 says it does).
StaleIsSeen ==
  careful => StaleTargetIsOlder /\ StalePartIsNewer /\ StaleOutputsAreRemade

\* A build that nothing disturbed leaves every file as the inputs give it, and in
\* the whole every part but the .ic files, unless an earlier failure left a file
\* half written, or a jportal killed earlier lost its log (anydbMake.py:468-561).
BuildIsComplete ==
  careful /\ calm /\ pc = "idle" /\ torn = {} /\ lost = {}
    => good = Target \cup {Outputs} /\ copied = Part \ {IcFile}

\* A build right after one that nothing disturbed has nothing to do, careful
\* user or not: times are compared strictly (anydbMake.py:480, 484, 526-538).
NoNeedlessWork ==
  calm /\ pc = "idle" => (\A s \in Source : ~Outdated(s)) /\ ~MustJoin(NewerInput, Source)

\* A target is removed or written only while its source is out of date: nothing a
\* failure or an interruption left over of an earlier build, and no edit during
\* one, makes jportal write a file that was good (anydbMake.py:480-494).
UpToDateIsLeftAlone ==
  [][\A t \in Target :
       stamp'[t] # stamp[t] \/ (t \in torn' /\ t \notin torn) => Outdated(t[1])]_vars

\* anydbMake.md:52: the appfile is made of the pmfile "together with all supplied
\* 'pifile' and generated 'pifile'": every source's snippet is joined.
WholeHoldsGenerated ==
  careful /\ calm /\ pc = "crackle" /\ torn = {} /\ lost = {} => Source \subseteq copied
=============================================================================
