--------------------------- MODULE MCSourceRelease ---------------------------
(***************************************************************************)
(* SourceRelease on a small instance.                                      *)
(***************************************************************************)
EXTENDS SourceRelease, TLC

CONSTANTS s1, d1, d2, d3, none

OneSource  == {s1}
ThreeTexts == {d1, d2, d3}
NoRules    == {}
NoDepends  == << >>
SameThree  == Permutations(ThreeTexts)
=============================================================================
