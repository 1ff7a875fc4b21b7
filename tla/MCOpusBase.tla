----------------------------- MODULE MCOpusBase -----------------------------
(***************************************************************************)
(* A tosser that writes messages and writes them again, and a reader that  *)
(* writes and marks them.  Both remove.                                    *)
(***************************************************************************)
EXTENDS OpusBase, TLC

CONSTANTS reader, tosser, a, b

MCProc == {reader, tosser}
MCText == {a}
MCCalls == reader :> {"write", "seen", "remove"}
           @@ tosser :> {"write", "replace", "remove"}
=============================================================================
