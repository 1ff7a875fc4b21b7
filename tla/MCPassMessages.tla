--------------------------- MODULE MCPassMessages ---------------------------
(***************************************************************************)
(* Every set of marks over a few messages, in chunks of two.               *)
(***************************************************************************)
EXTENDS PassMessages, TLC

AllKinds == {"copy", "move", "here", "delete"}
=============================================================================
