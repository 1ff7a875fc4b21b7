---------------------------- MODULE MCEditHistory ---------------------------
(***************************************************************************)
(* Texts whose front and back overlap, and two states of the fields.       *)
(***************************************************************************)
EXTENDS EditHistory, TLC

CONSTANTS x, y

TwoLines == {x, y}
ThreeTexts == {<<x>>, <<y>>, <<x, x>>}
=============================================================================
