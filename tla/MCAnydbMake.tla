---------------------------- MODULE MCAnydbMake ----------------------------
(* Two sources, and time for a build, an edit in a later second and the    *)
(* builds that follow it.  The files of a careful user are from few        *)
(* seconds, those of another one from any: so that one edits more.         *)
EXTENDS AnydbMake, TLC
CONSTANTS si1, si2

MCSource == {si1, si2}
MCMaxEdited == [carefully \in BOOLEAN |-> IF carefully THEN 2 ELSE 1]
SourceSymmetry == Permutations(MCSource)
=============================================================================
