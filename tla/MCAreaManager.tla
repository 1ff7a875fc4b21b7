--------------------------- MODULE MCAreaManager ---------------------------
(***************************************************************************)
(* One or two areas, nothing on the disk at first.                         *)
(***************************************************************************)
EXTENDS AreaManager, TLC

CONSTANTS echo, netmail

Both == {echo, netmail}
=============================================================================
