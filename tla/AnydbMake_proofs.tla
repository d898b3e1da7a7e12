-------------------------- MODULE AnydbMake_proofs --------------------------
(***************************************************************************)
(* Proofs about the build, for every set of sources and without a last     *)
(* second of the clock.  A target is out of date by itself here (Older),   *)
(* where the script asks whether some target of a source is: StaleIsSeen   *)
(* is inductive only so, for a build removes all targets of a source but   *)
(* writes them one at a time.                                              *)
(***************************************************************************)
EXTENDS AnydbMake, TLAPS

\* What the proofs need to know of targets as pairs.
LEMMA Targets ==
  /\ \A t \in Target : t[1] \in Source /\ t \in TargetsOf(t[1])
  /\ \A s \in Source : \A t \in TargetsOf(s) : t \in Target /\ t[1] = s
  /\ \A s \in Source : Snippet(s) \in Target /\ Snippet(s)[1] = s
  /\ \A s, r \in Source : Snippet(s) = Snippet(r) => s = r
  /\ Whole \notin Target /\ Outputs \notin Target /\ Whole # Outputs
BY TargetAssumption, FileAssumption DEF Target, TargetsOf, Snippet

LEMMA Inputs ==
  /\ Source \subseteq Input /\ Jar \in Input /\ Module \in Input /\ Supplied \in Input
  /\ Tool \in Input /\ Compared \subseteq Input /\ Joined \subseteq Input
  /\ Joined = Source \cup {Module, Supplied} /\ Tool \in Compared /\ Supplied \in Compared
  /\ Source # {} /\ Jar \notin Joined /\ Tool \notin Joined /\ Jar # Tool
  /\ IcFile \notin Joined /\ IcFile # Tool /\ IcFile # Jar
  /\ Module \notin Source /\ Supplied \notin Source /\ Module # Supplied
  /\ Jar \notin Source /\ Tool \notin Source
BY InputAssumption DEF Input, Given, Part, Joined, Compared

Older(t) == edited[t[1]] > stamp[t] \/ edited[Jar] > stamp[t]

Newer(s) == stamp[Snippet(s)] > stamp[Whole]

LEMMA OutdatedIsOlder ==
  ASSUME NEW s \in Source
  PROVE  Outdated(s) <=> \E t \in Target : t[1] = s /\ Older(t)
BY Targets DEF Outdated, Older

-----------------------------------------------------------------------------
(* The parts of the invariant.                                             *)

\* Nothing is from the future, and every input has been there from the start.
ClockInv ==
  /\ \A f \in Input : 1 <= edited[f] /\ edited[f] <= now
  /\ \A f \in Stamped : stamp[f] <= now

\* The snippets a running build has not been told of are not there, or lost.
ListedInv ==
  pc \in {"jportal", "join"} =>
    \A s \in Source : s \in listed \/ s \in logged \/ s \in lost \/ stamp[Snippet(s)] = 0

\* What an undisturbed build has passed is up to date; it has been told of every
\* snippet there is, and the times it has taken are those of the files.
CalmInv ==
  calm =>
    /\ \A t \in Target : t[1] \in todo \/ t \in left \/ ~Older(t)
    /\ pc \in {"jportal", "join"} => lost \subseteq listed \cup logged /\ due = NewerInput
    /\ pc \in {"crackle", "idle"} => ~MustJoin(NewerInput, Source)

\* What jportal has read does not change under a careful user's hands, and the
\* whole is from an earlier second than the build.
ReadInv ==
  /\ pc = "jportal" => Jar \in loaded
  /\ \A t \in left : t[1] \in loaded
  /\ pc \in {"jportal", "join"} => stamp[Whole] < now

TargetInv == \A t \in Target : t \in good \/ t \in torn \/ Older(t)

PartInv ==
  Whole \notin torn =>
    /\ \A f \in {Module, Supplied} : f \in copied \/ edited[f] > stamp[Whole]
    /\ \A s \in Source : \/ s \in copied \/ Snippet(s) \in torn \/ s \in lost
                         \/ Older(Snippet(s)) \/ Newer(s)

CarefulInv == careful => ReadInv /\ TargetInv /\ PartInv /\ StaleOutputsAreRemade

-----------------------------------------------------------------------------
(* Types and the clock.                                                    *)

LEMMA TypeInit == Init => TypeOK /\ ClockInv
<1> SUFFICES ASSUME Init PROVE TypeOK /\ ClockInv
  OBVIOUS
<1>1. edited \in [Input -> Nat] /\ stamp \in [Stamped -> Nat]
  BY DEF Init
<1>2. TypeOK
  BY <1>1 DEF Init, TypeOK
<1>3. ClockInv
  BY DEF Init, ClockInv
<1>4. QED
  BY <1>2, <1>3

\* A failure that leaves a file half written, whatever becomes of the build.
Broken(t) == GeneratorThrows(t) \/ JportalKilledWriting(t) \/ InterruptWriting(t)

LEMMA BrokenFile ==
  ASSUME NEW t \in Target, Broken(t)
  PROVE  /\ pc = "jportal" /\ t \in left
         /\ stamp' = [stamp EXCEPT ![t] = now] /\ good' = good \ {t}
         /\ torn' = torn \cup {t} /\ UNCHANGED <<now, edited, copied, careful>>
         /\ calm' = FALSE /\ left' = {} /\ todo' = {} /\ pc' # "jportal"
BY DEF Broken, GeneratorThrows, JportalKilledWriting, InterruptWriting, HalfWritten,
       JportalStops, BuildStops

\* The steps, with the failures of one file together.
LEMMA Steps ==
  ASSUME Next
  PROVE  \/ Tick \/ Begin \/ Flush \/ JportalEnds \/ ParseFails \/ JportalKilled
         \/ Join \/ NothingToJoin \/ TearWhole \/ Crackle \/ CrackleFails \/ Interrupt
         \/ (\E f \in Input : Edit(f)) \/ (\E s \in Source : Read(s))
         \/ (\E t \in Target : Write(t)) \/ (\E t \in Target : Broken(t))
BY DEF Next, User, Build, Failure, Broken

LEMMA TypeStep == TypeOK /\ [Next]_vars => TypeOK'
<1> SUFFICES ASSUME TypeOK, [Next]_vars PROVE TypeOK'
  OBVIOUS
<1> USE Targets, Inputs DEF TypeOK, Stamped
<1>1. CASE Tick
  BY <1>1 DEF Tick, files, run
<1>2. ASSUME NEW f \in Input, Edit(f) PROVE TypeOK'
  BY <1>2 DEF Edit
<1>3. CASE Begin
  <2>1. NewerInput \in BOOLEAN
    BY DEF NewerInput
  <2>2. /\ stamp' \in [Stamped -> Nat] /\ good' \subseteq good /\ torn' \subseteq torn
        /\ lost' \subseteq lost /\ todo' \subseteq Source /\ listed' \subseteq Source
    BY <1>3 DEF Begin
  <2>3. /\ pc' = "jportal" \/ (pc' = "join" /\ todo' = {})
        /\ left = {} /\ logged = {} /\ calm' = TRUE /\ due' = NewerInput
        /\ loaded' \subseteq Input /\ UNCHANGED <<now, edited, copied, left, logged, careful>>
    BY <1>3 DEF Begin
  <2>4. QED
    BY <2>1, <2>2, <2>3
<1>4. ASSUME NEW s \in Source, Read(s) PROVE TypeOK'
  BY <1>4 DEF Read, files
<1>5. ASSUME NEW t \in Target, Write(t) PROVE TypeOK'
  BY <1>5 DEF Write, Named
<1>6. CASE Flush \/ JportalEnds \/ ParseFails \/ JportalKilled
  BY ZenonT(40), <1>6 DEF Flush, JportalEnds, ParseFails, JportalKilled, LogIsCut,
                          JportalStops, files
<1>7. ASSUME NEW t \in Target, Broken(t) PROVE TypeOK'
  <2>1. /\ stamp' = [stamp EXCEPT ![t] = now] /\ good' = good \ {t}
        /\ torn' = torn \cup {t} /\ UNCHANGED <<now, edited, copied, careful>>
        /\ calm' = FALSE
    BY <1>7, BrokenFile
  <2>2. /\ lost' \subseteq Source /\ listed' \subseteq Source
        /\ pc' \in {"join", "idle"} /\ due' \in BOOLEAN
        /\ todo' = {} /\ left' = {} /\ loaded' = {} /\ logged' = {}
    <3>1. Named(t) \subseteq Source
      BY DEF Named
    <3>2. QED
      BY ZenonT(40), <1>7, <3>1
         DEF Broken, GeneratorThrows, JportalKilledWriting, InterruptWriting, LogIsCut,
             JportalStops, BuildStops
  <2>3. stamp' \in [Stamped -> Nat]
    BY <2>1
  <2>4. good' \subseteq Target \cup {Outputs} /\ torn' \subseteq Target \cup {Whole, Outputs}
    BY <2>1
  <2>5. QED
    BY ZenonT(60), <2>1, <2>2, <2>3, <2>4
<1>8. CASE Join
  BY <1>8 DEF Join, run
<1>9. CASE NothingToJoin \/ Interrupt
  BY <1>9 DEF NothingToJoin, Interrupt, BuildStops, files
<1>10. CASE TearWhole
  BY <1>10 DEF TearWhole, BuildStops
<1>11. CASE Crackle \/ CrackleFails
  BY <1>11 DEF Crackle, CrackleFails, BuildStops
<1>12. CASE UNCHANGED vars
  BY <1>12 DEF vars, files, run
<1>13. QED
  BY <1>1, <1>2, <1>3, <1>4, <1>5, <1>6, <1>7, <1>8, <1>9, <1>10, <1>11, <1>12, Steps

\* The variables and files keep their types; nothing is left to do between
\* builds, and the targets of two sources are never half written at once.
THEOREM AnydbTypes == Spec => []TypeOK
BY TypeInit, TypeStep, PTL DEF Spec

LEMMA ClockStep == TypeOK /\ ClockInv /\ [Next]_vars => ClockInv'
<1> SUFFICES ASSUME TypeOK, ClockInv, [Next]_vars PROVE ClockInv'
  OBVIOUS
<1> USE DEF TypeOK, ClockInv
<1>1. CASE Tick
  BY <1>1 DEF Tick, files
<1>2. ASSUME NEW f \in Input, Edit(f) PROVE ClockInv'
  BY <1>2 DEF Edit
<1>3. CASE UNCHANGED <<now, edited>> /\ \E f \in Stamped : stamp' = [stamp EXCEPT ![f] = now]
  BY <1>3
<1>4. CASE UNCHANGED <<now, edited, stamp>>
  BY <1>4
<1>5. CASE Begin
  BY <1>5 DEF Begin
<1>6. CASE (\E t \in Target : Write(t) \/ Broken(t)) \/ Join \/ TearWhole
  BY <1>3, <1>6, BrokenFile DEF Write, Join, TearWhole, Stamped
<1>7. CASE (\E s \in Source : Read(s)) \/ Flush \/ JportalEnds \/ ParseFails
           \/ JportalKilled \/ NothingToJoin \/ Interrupt \/ Crackle \/ CrackleFails
           \/ UNCHANGED vars
  BY <1>4, <1>7 DEF Read, Flush, JportalEnds, ParseFails, JportalKilled, NothingToJoin,
                    Interrupt, Crackle, CrackleFails, vars, files
<1>8. QED
  BY <1>1, <1>2, <1>5, <1>6, <1>7, Steps

-----------------------------------------------------------------------------
(* The snippets listed, and the undisturbed build.                         *)

\* A build removes the targets that are out of date with all of their source's.
LEMMA Removal ==
  ASSUME TypeOK, ClockInv, Begin, NEW t \in Target
  PROVE  IF Outdated(t[1])
           THEN stamp'[t] = 0 /\ t[1] \in todo' /\ t \notin good' /\ t \notin torn'
           ELSE /\ stamp'[t] = stamp[t] /\ t[1] \notin todo'
                /\ (t \in good' <=> t \in good) /\ (t \in torn' <=> t \in torn)
<1> DEFINE old == {s \in Source : Outdated(s)}
           removed == UNION {TargetsOf(s) : s \in old}
<1>1. t \in removed <=> t[1] \in old
  BY Targets
<1>2. t[1] \in old <=> Outdated(t[1])
  BY Targets
<1>3. t \in Stamped
  BY DEF Stamped
<1>4. /\ todo' = old
      /\ stamp' = [f \in Stamped |-> IF f \in removed THEN 0 ELSE stamp[f]]
      /\ good' = good \ removed /\ torn' = torn \ removed
  BY DEF Begin
<1> HIDE DEF old, removed
<1>5. QED
  BY <1>1, <1>2, <1>3, <1>4

\* Everything else keeps its stamp, and its place in good and torn.
LEMMA RemovalOfTargetsOnly ==
  ASSUME TypeOK, Begin, NEW f \in {Whole, Outputs}
  PROVE  /\ stamp'[Whole] = stamp[Whole]
         /\ (f \in good' <=> f \in good) /\ (f \in torn' <=> f \in torn)
<1> DEFINE removed == UNION {TargetsOf(s) : s \in {r \in Source : Outdated(r)}}
<1>1. f \notin removed /\ Whole \notin removed
  BY Targets
<1>2. /\ stamp' = [g \in Stamped |-> IF g \in removed THEN 0 ELSE stamp[g]]
      /\ good' = good \ removed /\ torn' = torn \ removed
  BY DEF Begin
<1> HIDE DEF removed
<1>3. QED
  BY <1>1, <1>2 DEF Stamped

LEMMA ListedStep ==
  ASSUME Ext = ".ii", TypeOK, ClockInv, ListedInv, [Next]_vars
  PROVE  ListedInv'
<1> USE DEF ListedInv
<1>1. CASE Begin
  <2> SUFFICES ASSUME NEW s \in Source, s \notin listed' PROVE stamp'[Snippet(s)] = 0
    OBVIOUS
  <2>1. Outdated(s)
    BY <1>1 DEF Begin, ListUpToDate
  <2>2. QED
    BY <1>1, <2>1, Removal, Targets
<1>2. ASSUME NEW t \in Target, NEW known, stamp' = [stamp EXCEPT ![t] = now],
             known = listed' \cup logged' \cup lost',
             listed \cup logged \cup lost \cup Named(t) \subseteq known, pc = "jportal"
      PROVE  ListedInv'
  BY <1>2, Targets DEF Named, TypeOK, Stamped
<1>3. ASSUME NEW t \in Target, Write(t) PROVE ListedInv'
  <2>1. lost \ Named(t) \subseteq lost' /\ Named(t) \subseteq logged'
    BY <1>3 DEF Write
  <2>2. QED
    BY <1>2, <1>3, <2>1 DEF Write
<1>4. ASSUME NEW t \in Target, Broken(t) PROVE ListedInv'
  <2>1. CASE InterruptWriting(t)
    BY <2>1 DEF InterruptWriting, BuildStops
  <2>2. CASE GeneratorThrows(t) \/ JportalKilledWriting(t)
    <3>1. listed \cup logged \cup lost \cup Named(t) \subseteq listed' \cup logged' \cup lost'
      BY <2>2 DEF GeneratorThrows, JportalKilledWriting, LogIsCut
    <3>2. stamp' = [stamp EXCEPT ![t] = now] /\ pc = "jportal"
      BY <1>4, BrokenFile
    <3>3. QED
      BY <1>2, <3>1, <3>2
  <2>3. QED
    BY <1>4, <2>1, <2>2 DEF Broken
<1>5. CASE Join \/ TearWhole \/ NothingToJoin \/ Interrupt \/ Crackle \/ CrackleFails
  BY <1>5 DEF Join, TearWhole, NothingToJoin, Interrupt, Crackle, CrackleFails, BuildStops
<1>6. CASE Flush \/ JportalEnds \/ ParseFails
  BY <1>6 DEF Flush, JportalEnds, ParseFails, JportalStops, files
<1>7. CASE JportalKilled
  BY <1>7 DEF JportalKilled, LogIsCut, JportalStops
<1>8. CASE Tick \/ (\E f \in Input : Edit(f)) \/ (\E s \in Source : Read(s)) \/ UNCHANGED vars
  BY <1>8 DEF Tick, Edit, Read, vars, files, run
<1>9. QED
  BY <1>1, <1>3, <1>4, <1>5, <1>6, <1>7, <1>8, Steps

\* The comparison of the inputs with the whole changes only with their times.
LEMMA SameInputs ==
  ASSUME UNCHANGED edited, stamp'[Whole] = stamp[Whole]
  PROVE  NewerInput' = NewerInput
BY DEF NewerInput, Compared

LEMMA CalmStep ==
  ASSUME Ext = ".ii", TypeOK, ClockInv, ListedInv, CalmInv, [Next]_vars
  PROVE  CalmInv'
<1> USE DEF CalmInv
<1> DEFINE Passed == \A t \in Target : t[1] \in todo \/ t \in left \/ ~Older(t)
           Told == lost \subseteq listed \cup logged /\ due = NewerInput
<1>1. CASE Begin
  <2>1. ASSUME NEW t \in Target PROVE (t[1] \in todo \/ ~Older(t))'
    BY <1>1, <2>1, Removal, OutdatedIsOlder, Targets DEF Older, Begin
  <2>2. pc' \notin {"crackle", "idle"}
    BY <1>1 DEF Begin
  <2>3. lost' \subseteq listed'
    BY <1>1 DEF Begin, ListUpToDate, TypeOK
  <2>4. due' = NewerInput /\ UNCHANGED edited /\ stamp'[Whole] = stamp[Whole]
    BY <1>1, RemovalOfTargetsOnly DEF Begin
  <2>5. QED
    BY <2>1, <2>2, <2>3, <2>4, SameInputs
<1>2. CASE (\E s \in Source : Read(s)) \/ Flush
  <2>1. UNCHANGED <<edited, stamp, lost, due, calm, pc>> /\ pc = "jportal"
    BY <1>2 DEF Read, Flush, files
  <2>2. listed \cup logged \subseteq listed' \cup logged'
    BY <1>2 DEF Read, Flush
  <2>3. \A t \in Target : t[1] \in todo \/ t \in left => t[1] \in todo' \/ t \in left'
    BY <1>2, Targets DEF Read, Flush
  <2>4. QED
    BY <2>1, <2>2, <2>3, SameInputs DEF Older
<1>3. ASSUME NEW t \in Target, Write(t) PROVE CalmInv'
  <2>1. edited[t[1]] <= now /\ edited[Jar] <= now /\ now \in Nat
        /\ edited[t[1]] \in Nat /\ edited[Jar] \in Nat
    BY Targets, Inputs DEF ClockInv, TypeOK
  <2>2. stamp'[t] = now /\ \A u \in Stamped : u # t => stamp'[u] = stamp[u]
    BY <1>3 DEF Write, TypeOK, Stamped
  <2>3. ~Older(t)'
    BY <1>3, <2>1, <2>2 DEF Older, Write
  <2>4. ASSUME NEW u \in Target, u # t PROVE Older(u)' <=> Older(u)
    BY <1>3, <2>2, <2>4 DEF Older, Write, Stamped
  <2>5. calm => Passed'
    BY <1>3, <2>3, <2>4 DEF Write
  <2>6. lost \subseteq listed \cup logged => lost' \subseteq listed' \cup logged'
    BY <1>3 DEF Write
  <2>7. UNCHANGED <<due, edited, calm, pc>> /\ pc = "jportal"
        /\ stamp'[Whole] = stamp[Whole]
    BY <1>3, <2>2, Targets DEF Write, Stamped
  <2>8. QED
    BY <2>5, <2>6, <2>7, SameInputs
<1>4. CASE JportalEnds
  <2>1. UNCHANGED <<edited, stamp, lost, listed, due, calm>> /\ pc = "jportal"
        /\ pc' = "join" /\ logged = {} /\ todo = {} /\ left = {}
    BY <1>4 DEF JportalEnds, JportalStops, files
  <2>2. QED
    BY <2>1, SameInputs DEF Older
<1>5. CASE Join
  <2>1. ASSUME calm PROVE Passed'
    <3>1. \A u \in Target : stamp'[u] = stamp[u]
      BY <1>5, Targets DEF Join, TypeOK, Stamped
    <3>2. QED
      BY <1>5, <2>1, <3>1 DEF Join, run, Older
  <2>2. ~MustJoin(NewerInput, Source)'
    <3>1. stamp'[Whole] = now /\ UNCHANGED edited
          /\ \A s \in Source : stamp'[Snippet(s)] = stamp[Snippet(s)]
      BY <1>5, Targets DEF Join, TypeOK, Stamped
    <3>2. /\ \A f \in Input : edited[f] <= now
          /\ \A s \in Source : stamp[Snippet(s)] <= now
      BY Targets DEF ClockInv, Stamped
    <3>3. /\ now \in Nat /\ \A f \in Input : edited[f] \in Nat
          /\ \A s \in Source : stamp[Snippet(s)] \in Nat
      BY Targets DEF TypeOK, Stamped
    <3>4. ~NewerInput'
      BY <3>1, <3>2, <3>3, Inputs DEF NewerInput
    <3>5. QED
      BY <3>1, <3>2, <3>3, <3>4, Inputs DEF MustJoin
  <2>3. QED
    BY <1>5, <2>1, <2>2 DEF Join
<1>6. CASE NothingToJoin
  <2>1. logged = {} /\ left = {} /\ todo = {}
    BY <1>6 DEF NothingToJoin, TypeOK
  <2>2. ASSUME calm, NEW s \in Source, stamp[Snippet(s)] > stamp[Whole] PROVE s \in listed
    <3>1. stamp[Snippet(s)] # 0
      BY <2>2, Targets DEF TypeOK, Stamped
    <3>2. s \in listed \/ s \in lost
      BY <1>6, <2>1, <3>1 DEF ListedInv, NothingToJoin
    <3>3. QED
      BY <1>6, <2>1, <2>2, <3>2 DEF NothingToJoin
  <2>3. ASSUME calm PROVE ~MustJoin(NewerInput, Source)
    BY <1>6, <2>2, <2>3 DEF NothingToJoin, MustJoin
  <2>4. UNCHANGED <<edited, stamp, calm>> /\ pc' = "idle" /\ pc = "join"
    BY <1>6 DEF NothingToJoin, BuildStops, files
  <2>5. calm => ~MustJoin(NewerInput, Source)'
    BY <2>3, <2>4, SameInputs DEF MustJoin
  <2>6. QED
    BY <2>1, <2>4, <2>5 DEF Older
<1>7. CASE Crackle
  <2>1. UNCHANGED <<edited, stamp, calm>> /\ pc' = "idle" /\ pc = "crackle"
        /\ left = {} /\ todo = {}
    BY <1>7 DEF Crackle, BuildStops, TypeOK
  <2>2. QED
    BY <2>1, SameInputs DEF Older, MustJoin
<1>8. CASE Tick \/ UNCHANGED vars
  <2>1. UNCHANGED <<edited, stamp, lost, calm, pc, due, todo, left, logged, listed>>
    BY <1>8 DEF Tick, vars, files, run
  <2>2. QED
    BY <2>1, SameInputs DEF Older, MustJoin
<1>9. CASE calm' = FALSE
  BY <1>9
<1>10. CASE (\E f \in Input : Edit(f)) \/ (\E t \in Target : Broken(t)) \/ ParseFails
            \/ JportalKilled \/ TearWhole \/ CrackleFails \/ Interrupt
  BY <1>9, <1>10, BrokenFile
     DEF Edit, ParseFails, JportalKilled, TearWhole, CrackleFails, Interrupt
<1>11. QED
  BY <1>1, <1>2, <1>3, <1>4, <1>5, <1>6, <1>7, <1>8, <1>10, Steps

-----------------------------------------------------------------------------
(* What is up to date is left alone, by whatever part of the script.       *)

\* What jportal was given and has not yet written is not there, and it is given
\* no source twice.
GoneInv == \A t \in Target : /\ t[1] \in todo \/ t \in left => stamp[t] = 0
                             /\ t \in left => t[1] \notin todo

AloneInv == TypeOK /\ ClockInv /\ GoneInv

LEMMA GoneIsOutdated ==
  ASSUME AloneInv, NEW t \in Target, t[1] \in todo \/ t \in left
  PROVE  Outdated(t[1])
<1>1. edited[t[1]] > stamp[t]
  BY Targets, Inputs DEF AloneInv, GoneInv, ClockInv, TypeOK
<1>2. QED
  BY <1>1, OutdatedIsOlder, Targets DEF Older

LEMMA GoneStep ==
  ASSUME AloneInv, [Next]_vars
  PROVE  GoneInv'
<1> USE DEF AloneInv, GoneInv
<1>1. CASE Begin
  BY <1>1, Removal DEF Begin, TypeOK
<1>2. ASSUME NEW s \in Source, Read(s) PROVE GoneInv'
  BY <1>2, Targets DEF Read, files
<1>3. ASSUME NEW t \in Target, Write(t) PROVE GoneInv'
  <2>1. \A u \in Target : u # t => stamp'[u] = stamp[u]
    BY <1>3 DEF Write, TypeOK, Stamped
  <2>2. t \notin left' /\ t[1] \notin todo' /\ left' \subseteq left /\ todo' = todo
    BY <1>3 DEF Write
  <2>3. QED
    BY <2>1, <2>2
<1>4. CASE Join
  <2>1. \A u \in Target : stamp'[u] = stamp[u]
    BY <1>4, Targets DEF Join, TypeOK, Stamped
  <2>2. QED
    BY <1>4, <2>1 DEF Join, run
<1>5. CASE (\E t \in Target : Broken(t)) \/ JportalEnds \/ ParseFails \/ JportalKilled
           \/ NothingToJoin \/ Crackle \/ TearWhole \/ CrackleFails \/ Interrupt
  BY <1>5, BrokenFile DEF JportalEnds, ParseFails, JportalKilled, NothingToJoin, Crackle,
     TearWhole, CrackleFails, Interrupt, JportalStops, BuildStops
<1>6. CASE Tick \/ (\E f \in Input : Edit(f)) \/ Flush \/ UNCHANGED vars
  BY <1>6 DEF Tick, Edit, Flush, vars, files, run
<1>7. QED
  BY <1>1, <1>2, <1>3, <1>4, <1>5, <1>6, Steps

LEMMA StepLeavesAlone ==
  ASSUME AloneInv, [Next]_vars, NEW t \in Target,
         stamp'[t] # stamp[t] \/ (t \in torn' /\ t \notin torn)
  PROVE  Outdated(t[1])
<1> USE DEF AloneInv
<1>1. CASE Begin
  BY <1>1, Removal
<1>2. ASSUME NEW u \in Target, Write(u) \/ Broken(u) PROVE Outdated(t[1])
  <2>1. u \in left /\ stamp' = [stamp EXCEPT ![u] = now] /\ torn' \subseteq torn \cup {u}
    BY <1>2, BrokenFile DEF Write
  <2>2. t = u
    BY <2>1 DEF TypeOK, Stamped
  <2>3. QED
    BY <2>1, <2>2, GoneIsOutdated
<1>3. CASE Join \/ TearWhole
  BY <1>3, Targets DEF Join, TearWhole, TypeOK, Stamped
<1>4. CASE Crackle \/ CrackleFails
  BY <1>4, Targets DEF Crackle, CrackleFails
<1>5. CASE UNCHANGED <<stamp, torn>>
  BY <1>5
<1>6. CASE Tick \/ (\E f \in Input : Edit(f)) \/ (\E s \in Source : Read(s)) \/ Flush
           \/ JportalEnds \/ ParseFails \/ JportalKilled \/ NothingToJoin \/ Interrupt
           \/ UNCHANGED vars
  BY <1>5, <1>6 DEF Tick, Edit, Read, Flush, JportalEnds, ParseFails, JportalKilled,
                    NothingToJoin, Interrupt, vars, files
<1>7. QED
  BY <1>1, <1>2, <1>3, <1>4, <1>6, Steps

\* Whoever edits and whatever fails meanwhile, for .ii and .pi alike: no build
\* touches a target of a source that is up to date.
THEOREM NothingGoodIsTouched == Spec => UpToDateIsLeftAlone
<1> DEFINE Alone == \A t \in Target :
             stamp'[t] # stamp[t] \/ (t \in torn' /\ t \notin torn) => Outdated(t[1])
<1>1. Init => AloneInv
  BY TypeInit DEF Init, AloneInv, GoneInv
<1>2. AloneInv /\ [Next]_vars => AloneInv'
  BY TypeStep, ClockStep, GoneStep DEF AloneInv
<1>3. AloneInv /\ [Next]_vars => [Alone]_vars
  BY StepLeavesAlone
<1>4. QED
  BY <1>1, <1>2, <1>3, PTL DEF Spec, UpToDateIsLeftAlone

-----------------------------------------------------------------------------
(* The careful user.                                                       *)

\* What both a write and a failing one do to the other files.
LEMMA WriteOrBreak ==
  ASSUME NEW t \in Target, Write(t) \/ Broken(t)
  PROVE  /\ pc = "jportal"
         /\ stamp' = [stamp EXCEPT ![t] = now]
         /\ UNCHANGED <<edited, copied>>
         /\ good' \in {good \cup {t}, good \ {t}}
         /\ torn' \in {torn \cup {t}, torn \ {t}}
         /\ lost \ Named(t) \subseteq lost'
<1>1. CASE Write(t)
  BY <1>1 DEF Write
<1>2. CASE Broken(t)
  BY <1>2, BrokenFile DEF Broken, GeneratorThrows, JportalKilledWriting,
                          InterruptWriting, LogIsCut
<1>3. QED
  BY <1>1, <1>2

\* A file made in this second, and the others as they were.
LEMMA OneStamp ==
  ASSUME TypeOK, NEW f \in Stamped, stamp' = [stamp EXCEPT ![f] = now]
  PROVE  stamp'[f] = now /\ \A g \in Stamped : g # f => stamp'[g] = stamp[g]
BY DEF TypeOK

LEMMA Numbers ==
  ASSUME TypeOK
  PROVE  /\ now \in Nat /\ \A f \in Input : edited[f] \in Nat
         /\ \A f \in Stamped : stamp[f] \in Nat
         /\ \A t \in Target : t \in Stamped /\ t[1] \in Input
         /\ \A s \in Source : Snippet(s) \in Stamped
         /\ Whole \in Stamped
BY Targets, Inputs DEF TypeOK, Stamped

LEMMA ReadInvStep ==
  ASSUME TypeOK, careful, ReadInv, [Next]_vars
  PROVE  ReadInv'
<1> USE Targets, Numbers DEF ReadInv
<1>1. CASE Tick
  BY <1>1 DEF Tick, files, run
<1>2. ASSUME NEW f \in Input, Edit(f) PROVE ReadInv'
  BY <1>2 DEF Edit
<1>3. CASE Begin
  <2>1. stamp'[Whole] = stamp[Whole] /\ stamp[Whole] < now /\ UNCHANGED <<now, left>>
    BY <1>3, RemovalOfTargetsOnly DEF Begin, Leisure
  <2>2. left = {}
    BY <1>3 DEF Begin, TypeOK
  <2>3. QED
    BY <1>3, <2>1, <2>2 DEF Begin
<1>4. ASSUME NEW s \in Source, Read(s) PROVE ReadInv'
  BY <1>4 DEF Read, files
<1>5. ASSUME NEW t \in Target, Write(t) PROVE ReadInv'
  BY <1>5, OneStamp DEF Write
<1>6. CASE Flush \/ JportalEnds \/ ParseFails \/ JportalKilled
  BY <1>6 DEF Flush, JportalEnds, ParseFails, JportalKilled, JportalStops, files
<1>7. ASSUME NEW t \in Target, Broken(t) PROVE ReadInv'
  <2>1. /\ stamp' = [stamp EXCEPT ![t] = now] /\ UNCHANGED now
        /\ pc = "jportal" /\ pc' # "jportal" /\ left' = {}
    BY <1>7, BrokenFile
  <2>2. stamp'[Whole] = stamp[Whole]
    BY <2>1, OneStamp
  <2>3. QED
    BY <2>1, <2>2
<1>8. CASE Join
  BY <1>8 DEF Join, run, TypeOK
<1>9. CASE TearWhole \/ NothingToJoin \/ Interrupt \/ Crackle \/ CrackleFails
  BY <1>9 DEF TearWhole, NothingToJoin, Interrupt, Crackle, CrackleFails, BuildStops
<1>10. CASE UNCHANGED vars
  BY <1>10 DEF vars, files, run
<1>11. QED
  BY <1>1, <1>2, <1>3, <1>4, <1>5, <1>6, <1>7, <1>8, <1>9, <1>10, Steps

LEMMA TargetStep ==
  ASSUME TypeOK, ClockInv, careful, ReadInv, TargetInv, [Next]_vars
  PROVE  TargetInv'
<1> SUFFICES ASSUME NEW u \in Target PROVE (u \in good \/ u \in torn \/ Older(u))'
  BY DEF TargetInv
<1>0. u \in good \/ u \in torn \/ Older(u)
  BY DEF TargetInv
<1> USE Targets, Numbers, Inputs
<1>1. ASSUME NEW f \in Input, Edit(f) PROVE (u \in good \/ u \in torn \/ Older(u))'
  <2>1. stamp[u] < now /\ UNCHANGED <<stamp, torn>>
    BY <1>1 DEF Edit, Leisure
  <2>2. edited'[f] = now /\ \A g \in Input : g # f => edited'[g] = edited[g]
    BY <1>1 DEF Edit, TypeOK
  <2>3. CASE f = Jar \/ f = u[1]
    BY <2>1, <2>2, <2>3 DEF Older
  <2>4. CASE f # Jar /\ f # u[1]
    <3>1. u \notin Affected(f)
      BY <2>4, u # Outputs DEF Affected
    <3>2. u \in good' <=> u \in good
      BY <1>1, <3>1 DEF Edit
    <3>3. Older(u)' <=> Older(u)
      BY <2>1, <2>2, <2>4 DEF Older
    <3>4. QED
      BY <1>0, <2>1, <3>2, <3>3
  <2>5. QED
    BY <2>3, <2>4
<1>2. CASE Begin
  <2>1. edited'[u[1]] >= 1 /\ UNCHANGED edited
    BY <1>2 DEF Begin, ClockInv
  <2>2. QED
    BY <1>0, <1>2, <2>1, Removal DEF Older
<1>3. ASSUME NEW t \in Target, Write(t) PROVE (u \in good \/ u \in torn \/ Older(u))'
  <2>1. CASE u = t
    BY <1>3, <2>1 DEF Write, ReadInv
  <2>2. CASE u # t
    <3>1. stamp'[u] = stamp[u] /\ UNCHANGED edited
      BY <1>3, <2>2, OneStamp DEF Write
    <3>2. QED
      BY <1>0, <1>3, <2>2, <3>1 DEF Write, Older
  <2>3. QED
    BY <2>1, <2>2
<1>4. ASSUME NEW t \in Target, Broken(t) PROVE (u \in good \/ u \in torn \/ Older(u))'
  <2>0. /\ stamp' = [stamp EXCEPT ![t] = now] /\ UNCHANGED edited
        /\ good' = good \ {t} /\ torn' = torn \cup {t}
    BY <1>4, BrokenFile
  <2>1. CASE u = t
    BY <2>0, <2>1
  <2>2. CASE u # t
    <3>1. stamp'[u] = stamp[u]
      BY <2>0, <2>2, OneStamp
    <3>2. QED
      BY <1>0, <2>0, <2>2, <3>1 DEF Older
  <2>3. QED
    BY <2>1, <2>2
<1>5. CASE Join \/ TearWhole
  <2>1. stamp' = [stamp EXCEPT ![Whole] = now] /\ UNCHANGED edited
    BY <1>5 DEF Join, TearWhole
  <2>2. stamp'[u] = stamp[u]
    BY <2>1, OneStamp
  <2>3. QED
    BY <1>0, <1>5, <2>1, <2>2 DEF Join, TearWhole, Older
<1>6. CASE Crackle \/ CrackleFails
  BY <1>0, <1>6 DEF Crackle, CrackleFails, Older
<1>7. CASE Tick \/ (\E s \in Source : Read(s)) \/ Flush \/ JportalEnds \/ ParseFails
           \/ JportalKilled \/ NothingToJoin \/ Interrupt \/ UNCHANGED vars
  <2>1. UNCHANGED <<edited, stamp, good, torn>>
    BY <1>7 DEF Tick, Read, Flush, JportalEnds, ParseFails, JportalKilled, NothingToJoin,
                Interrupt, vars, files
  <2>2. QED
    BY <1>0, <2>1 DEF Older
<1>8. QED
  BY <1>1, <1>2, <1>3, <1>4, <1>5, <1>6, <1>7, Steps

\* A part the whole holds as it now is, or that is newer than the whole; and a
\* snippet the whole may not hold as it now is.
Kept(f) == f \in copied \/ edited[f] > stamp[Whole]
Pending(s) ==
  Snippet(s) \in torn \/ s \in lost \/ Older(Snippet(s)) \/ Newer(s)

LEMMA PartStep ==
  ASSUME Ext = ".ii", TypeOK, ClockInv, ListedInv, careful, ReadInv, TargetInv, PartInv,
         [Next]_vars
  PROVE  PartInv'
<1> DEFINE Parts == /\ \A f \in {Module, Supplied} : Kept(f)
                    /\ \A s \in Source : s \in copied \/ Pending(s)
<1> SUFFICES ASSUME Whole \notin torn' PROVE Parts'
  BY DEF PartInv, Pending, Kept
<1> USE Targets, Numbers, Inputs
<1>0. Whole \notin torn => Parts
  BY DEF PartInv, Pending, Kept
<1>1. ASSUME NEW f \in Input, Edit(f) PROVE Parts'
  <2>1. UNCHANGED <<stamp, torn, lost>> /\ \A g \in Stamped : stamp[g] < now
    BY <1>1 DEF Edit, Leisure
  <2>2. edited'[f] = now /\ \A g \in Input : g # f => edited'[g] = edited[g]
    BY <1>1 DEF Edit, TypeOK
  <2>3. ASSUME NEW m \in {Module, Supplied} PROVE Kept(m)'
    <3>1. CASE f = m
      BY <2>1, <2>2, <3>1 DEF Kept
    <3>2. CASE f # m
      <4>1. m \in copied' <=> m \in copied
        BY <1>1, <3>2 DEF Edit, PartsOf
      <4>2. QED
        BY <1>0, <2>1, <2>2, <3>2, <4>1 DEF Kept
    <3>3. QED
      BY <3>1, <3>2
  <2>4. ASSUME NEW s \in Source PROVE (s \in copied \/ Pending(s))'
    <3>1. CASE f = Jar \/ f = s
      <4>1. Older(Snippet(s))'
        BY <2>1, <2>2, <3>1 DEF Older
      <4>2. QED
        BY <4>1 DEF Pending
    <3>2. CASE f # Jar /\ f # s
      <4>1. s \in copied' <=> s \in copied
        BY <1>1, <3>2 DEF Edit, PartsOf
      <4>2. Pending(s)' <=> Pending(s)
        BY <2>1, <2>2, <3>2 DEF Pending, Older, Newer
      <4>3. QED
        BY <1>0, <2>1, <4>1, <4>2
    <3>3. QED
      BY <3>1, <3>2
  <2>5. QED
    BY <2>3, <2>4
<1>2. CASE Begin
  <2>1. stamp'[Whole] = stamp[Whole] /\ UNCHANGED <<edited, copied>> /\ Whole \notin torn
    BY <1>2, RemovalOfTargetsOnly DEF Begin
  <2>2. ASSUME NEW s \in Source, Pending(s) PROVE Pending(s)'
    <3>1. CASE Outdated(s)
      <4>1. stamp'[Snippet(s)] = 0 /\ edited'[s] >= 1
        BY <1>2, <2>1, <3>1, Removal DEF ClockInv
      <4>2. QED
        BY <2>1, <4>1 DEF Pending, Older
    <3>2. CASE ~Outdated(s)
      <4>1. /\ stamp'[Snippet(s)] = stamp[Snippet(s)]
            /\ Snippet(s) \in torn' <=> Snippet(s) \in torn
        BY <1>2, <3>2, Removal
      <4>2. s \in lost => s \in lost'
        BY <1>2, <3>2 DEF Begin
      <4>3. QED
        BY <2>1, <2>2, <4>1, <4>2 DEF Pending, Older, Newer
    <3>3. QED
      BY <3>1, <3>2
  <2>3. QED
    BY <1>0, <2>1, <2>2 DEF Kept
<1>3. ASSUME NEW t \in Target, Write(t) \/ Broken(t) PROVE Parts'
  <2>1. /\ stamp'[t] = now /\ \A g \in Stamped : g # t => stamp'[g] = stamp[g]
        /\ UNCHANGED <<edited, copied>>
    <3>1. stamp' = [stamp EXCEPT ![t] = now] /\ UNCHANGED <<edited, copied>>
      BY <1>3, WriteOrBreak
    <3>2. stamp'[t] = now
      BY <3>1 DEF TypeOK
    <3>3. \A g \in Stamped : g # t => stamp'[g] = stamp[g]
      BY <3>1 DEF TypeOK
    <3>4. QED
      BY <3>1, <3>2, <3>3
  <2>2. stamp'[Whole] = stamp[Whole] /\ stamp[Whole] < now /\ Whole \notin torn
    BY <1>3, <2>1, WriteOrBreak DEF ReadInv
  <2>3. ASSUME NEW s \in Source, Pending(s) PROVE Pending(s)'
    <3>1. CASE t = Snippet(s)
      <4>1. Newer(s)'
        BY <2>1, <2>2, <3>1 DEF Newer
      <4>2. QED
        BY <4>1 DEF Pending
    <3>2. CASE t # Snippet(s)
      <4>1. /\ Snippet(s) \in torn' <=> Snippet(s) \in torn
            /\ s \in lost => s \in lost'
        BY <1>3, <3>2, WriteOrBreak DEF Named
      <4>2. QED
        BY <2>1, <2>2, <2>3, <3>2, <4>1 DEF Pending, Older, Newer
    <3>3. QED
      BY <3>1, <3>2
  <2>4. QED
    BY <1>0, <2>1, <2>2, <2>3 DEF Kept
<1>4. CASE Join
  <2>1. Module \in copied' /\ Supplied \in copied'
    BY <1>4 DEF Join
  <2>2. UNCHANGED edited /\ \A t \in Target : stamp'[t] = stamp[t]
    BY <1>4, OneStamp DEF Join
  <2>3. ASSUME NEW s \in Source, s \notin copied' PROVE Pending(s)'
    <3>1. s \notin listed \/ Snippet(s) \notin good
      BY <1>4, <2>3 DEF Join
    <3>2. CASE s \notin listed
      <4>1. CASE s \in lost
        BY <1>4, <3>2, <4>1 DEF Join, Pending
      <4>2. CASE s \notin lost
        <5>1. s \notin logged
          BY <1>4 DEF Join, TypeOK
        <5>2. stamp[Snippet(s)] = 0 /\ edited[s] >= 1
          BY <1>4, <3>2, <4>2, <5>1 DEF Join, ListedInv, ClockInv
        <5>3. Older(Snippet(s))'
          BY <2>2, <5>2 DEF Older
        <5>4. QED
          BY <5>3 DEF Pending
      <4>3. QED
        BY <4>1, <4>2
    <3>3. CASE Snippet(s) \notin good
      <4>1. Snippet(s) \in torn \/ Older(Snippet(s))
        BY <3>3 DEF TargetInv
      <4>2. Snippet(s) \in torn' <=> Snippet(s) \in torn
        BY <1>4 DEF Join
      <4>3. Older(Snippet(s))' <=> Older(Snippet(s))
        BY <2>2 DEF Older
      <4>4. QED
        BY <4>1, <4>2, <4>3 DEF Pending
    <3>4. QED
      BY <3>1, <3>2, <3>3
  <2>4. QED
    BY <2>1, <2>3 DEF Kept
<1>5. CASE TearWhole
  BY <1>5 DEF TearWhole
<1>6. CASE Crackle \/ CrackleFails
  <2>1. UNCHANGED <<edited, stamp, copied, lost>>
    BY <1>6 DEF Crackle, CrackleFails
  <2>2. \A f \in Target \cup {Whole} : f \in torn' <=> f \in torn
    BY <1>6 DEF Crackle, CrackleFails
  <2>3. ASSUME NEW s \in Source PROVE Pending(s)' <=> Pending(s)
    BY <2>1, <2>2 DEF Pending, Older, Newer
  <2>4. QED
    BY <1>0, <2>1, <2>2, <2>3 DEF Kept
<1>7. CASE Tick \/ (\E s \in Source : Read(s)) \/ Flush \/ JportalEnds \/ ParseFails
           \/ JportalKilled \/ NothingToJoin \/ Interrupt \/ UNCHANGED vars
  <2>1. UNCHANGED <<edited, stamp, copied, torn>> /\ lost \subseteq lost'
    BY <1>7 DEF Tick, Read, Flush, JportalEnds, ParseFails, JportalKilled, LogIsCut,
                NothingToJoin, Interrupt, vars, files
  <2>2. QED
    BY <1>0, <2>1 DEF Pending, Kept, Older, Newer
<1>8. QED
  BY <1>1, <1>2, <1>3, <1>4, <1>5, <1>6, <1>7, Steps

LEMMA OutputStep ==
  ASSUME TypeOK, careful, StaleOutputsAreRemade, [Next]_vars
  PROVE  StaleOutputsAreRemade'
<1> USE Targets, Numbers, Inputs DEF StaleOutputsAreRemade
<1>1. ASSUME NEW f \in Input, Edit(f) PROVE StaleOutputsAreRemade'
  <2>1. UNCHANGED <<stamp, torn, pc>> /\ stamp[Whole] < now
    BY <1>1 DEF Edit, Leisure
  <2>2. edited'[f] = now /\ \A g \in Input : g # f => edited'[g] = edited[g]
    BY <1>1 DEF Edit, TypeOK
  <2>3. CASE f = Tool
    BY <2>1, <2>2, <2>3
  <2>4. CASE f = IcFile
    <3>1. Outputs \notin Affected(f) /\ PartsOf(f) = {}
      BY <2>4 DEF Affected, PartsOf
    <3>2. copied' = copied /\ (Outputs \in good' <=> Outputs \in good)
      BY <1>1, <3>1 DEF Edit
    <3>3. QED
      BY <2>1, <2>2, <2>4, <3>2
  <2>5. CASE f \notin {Tool, IcFile}
    <3>1. PartsOf(f) # {} /\ PartsOf(f) \subseteq Joined
      BY <2>5 DEF PartsOf, Input, Given
    <3>2. copied' # Joined
      BY <1>1, <3>1 DEF Edit
    <3>3. QED
      BY <3>2
  <2>6. QED
    BY <2>3, <2>4, <2>5
<1>2. CASE Begin
  <2>1. /\ stamp'[Whole] = stamp[Whole] /\ UNCHANGED <<edited, copied>> /\ pc = "idle"
        /\ (Outputs \in good' <=> Outputs \in good)
        /\ (Outputs \in torn' <=> Outputs \in torn)
    BY <1>2, RemovalOfTargetsOnly DEF Begin
  <2>2. QED
    BY <2>1
<1>3. ASSUME NEW t \in Target, Write(t) \/ Broken(t) PROVE StaleOutputsAreRemade'
  <2>1. stamp'[Whole] = stamp[Whole] /\ UNCHANGED <<edited, copied>> /\ pc = "jportal"
    <3>1. pc = "jportal" /\ stamp' = [stamp EXCEPT ![t] = now]
          /\ UNCHANGED <<edited, copied>>
      BY <1>3, WriteOrBreak
    <3>2. t \in Stamped /\ Whole \in Stamped /\ t # Whole
      OBVIOUS
    <3>3. QED
      BY <3>1, <3>2, OneStamp
  <2>2. /\ Outputs \in good' <=> Outputs \in good
        /\ Outputs \in torn' <=> Outputs \in torn
    BY <1>3, WriteOrBreak
  <2>3. QED
    BY <2>1, <2>2
<1>4. CASE Join
  BY <1>4 DEF Join
<1>5. CASE TearWhole
  BY <1>5 DEF TearWhole
<1>6. CASE Crackle
  BY <1>6 DEF Crackle
<1>7. CASE CrackleFails
  BY <1>7 DEF CrackleFails
<1>8. CASE Tick \/ (\E s \in Source : Read(s)) \/ Flush \/ JportalEnds \/ ParseFails
           \/ JportalKilled \/ NothingToJoin \/ Interrupt \/ UNCHANGED vars
  <2>1. UNCHANGED <<edited, stamp, good, copied, torn>> /\ (pc' = pc \/ pc # "crackle")
    BY <1>8 DEF Tick, Read, Flush, JportalEnds, ParseFails, JportalKilled, NothingToJoin,
                Interrupt, vars, files
  <2>2. QED
    BY <2>1
<1>9. QED
  BY <1>1, <1>2, <1>3, <1>4, <1>5, <1>6, <1>7, <1>8, Steps

-----------------------------------------------------------------------------
(* The theorems.                                                           *)

Inv == TypeOK /\ ClockInv /\ ListedInv /\ CalmInv /\ CarefulInv

LEMMA Invariance ==
  ASSUME Ext = ".ii"
  PROVE  Spec => []Inv
<1>1. Init => Inv
  <2> SUFFICES ASSUME Init PROVE Inv
    OBVIOUS
  <2>1. TypeOK /\ ClockInv
    BY TypeInit
  <2>2. ListedInv /\ CalmInv
    BY DEF Init, ListedInv, CalmInv
  <2>3. ReadInv /\ StaleOutputsAreRemade
    BY Inputs DEF Init, ReadInv, StaleOutputsAreRemade, Stamped
  <2>4. TargetInv /\ PartInv
    BY Targets, Inputs DEF Init, TargetInv, PartInv, Older, Stamped
  <2>5. QED
    BY <2>1, <2>2, <2>3, <2>4 DEF Inv, CarefulInv
<1>2. Inv /\ [Next]_vars => Inv'
  <2> SUFFICES ASSUME Inv, [Next]_vars PROVE Inv'
    OBVIOUS
  <2>1. TypeOK' /\ ClockInv' /\ ListedInv' /\ CalmInv'
    BY TypeStep, ClockStep, ListedStep, CalmStep DEF Inv
  <2>2. careful' = careful
    BY Steps, BrokenFile
       DEF Tick, Edit, Begin, Read, Write, Flush, JportalEnds, ParseFails, JportalKilled,
           Join, NothingToJoin, TearWhole, Crackle, CrackleFails, Interrupt, vars
  <2>3. CarefulInv'
    BY <2>2, ReadInvStep, TargetStep, PartStep, OutputStep DEF Inv, CarefulInv
  <2>4. QED
    BY <2>1, <2>3 DEF Inv
<1>3. QED
  BY <1>1, <1>2, PTL DEF Spec

\* The .ii part of the script does not lose sight of a stale file of a careful
\* user, whatever was edited and whatever failed, with four exceptions: a file a
\* failure left half written, a snippet whose name went with the log of a jportal
\* that was killed, outputs crackle failed to make, and the .ic files, which no
\* build takes in.
THEOREM NothingStaleIsMissed ==
  ASSUME Ext = ".ii"
  PROVE  Spec => []StaleIsSeen
<1>1. Inv => StaleIsSeen
  <2> SUFFICES ASSUME Inv, careful
               PROVE  StaleTargetIsOlder /\ StalePartIsNewer /\ StaleOutputsAreRemade
    BY DEF StaleIsSeen
  <2>1. \A s \in Source : Older(Snippet(s)) => Outdated(s)
    BY OutdatedIsOlder, Targets
  <2>2. StaleTargetIsOlder
    BY OutdatedIsOlder, Targets DEF Inv, CarefulInv, TargetInv, StaleTargetIsOlder
  <2>3. StalePartIsNewer
    BY <2>1 DEF Inv, CarefulInv, PartInv, Newer, StalePartIsNewer
  <2>4. QED
    BY <2>2, <2>3 DEF Inv, CarefulInv
<1>2. QED
  BY <1>1, Invariance, PTL

\* A build right after an undisturbed one does nothing.
THEOREM NothingIsDoneTwice ==
  ASSUME Ext = ".ii"
  PROVE  Spec => []NoNeedlessWork
<1>1. Inv => NoNeedlessWork
  BY OutdatedIsOlder, Targets DEF Inv, CalmInv, TypeOK, NoNeedlessWork
<1>2. QED
  BY <1>1, Invariance, PTL

\* An undisturbed build of a careful user leaves every target and the outputs as
\* the inputs give them, and in the whole every part but the .ic files, unless an
\* earlier failure left a file half written or lost jportal's log.
THEOREM BuildsAreComplete ==
  ASSUME Ext = ".ii"
  PROVE  Spec => []BuildIsComplete
<1>1. Inv => BuildIsComplete
  <2> SUFFICES ASSUME Inv, careful, calm, pc = "idle", torn = {}, lost = {}
               PROVE  good = Target \cup {Outputs} /\ copied = Joined
    BY DEF BuildIsComplete, Joined
  <2>1. \A t \in Target : ~Older(t)
    BY DEF Inv, CalmInv, TypeOK
  <2>2. Target \subseteq good
    BY <2>1 DEF Inv, CarefulInv, TargetInv
  <2>3. /\ \A f \in {Module, Supplied, Tool} : ~(edited[f] > stamp[Whole])
        /\ \A s \in Source : ~Newer(s)
    BY Inputs DEF Inv, CalmInv, MustJoin, NewerInput, Newer
  <2>4. Joined \subseteq copied
    BY <2>1, <2>3, Targets, Inputs DEF Inv, CarefulInv, PartInv
  <2>5. Outputs \in good
    BY <2>3, <2>4 DEF Inv, CarefulInv, StaleOutputsAreRemade, TypeOK
  <2>6. QED
    BY <2>2, <2>4, <2>5 DEF Inv, TypeOK
<1>2. QED
  BY <1>1, Invariance, PTL
=============================================================================
