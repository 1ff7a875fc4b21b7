---------------------------- MODULE MCSquishBase ----------------------------
(***************************************************************************)
(* Small instances of SquishBase: a short text and a long one, so that a   *)
(* message can outgrow its frame and a hole be too small.                  *)
(***************************************************************************)
EXTENDS SquishBase

CONSTANTS reader, tosser, short, long

MCProc == {reader, tosser}
MCText == {short, long}
MCRoom == [t \in MCText |-> IF t = short THEN 1 ELSE 2]
MCDrafts == {[text |-> short, rcvd |-> FALSE], [text |-> long, rcvd |-> FALSE]}
WriteFaults == {"io", "crash"} \X {"write"}

\* One process with room for chains of holes, or two at work on few messages.
Alone == [procs |-> {tosser}, ops |-> {"write", "replace", "remove"},
          frames |-> 4, uids |-> 4]
Shared == [procs |-> MCProc, ops |-> {"write", "replace", "remove", "mark"},
           frames |-> 3, uids |-> 2]
AloneOrShared == {Alone, Shared}
AppendsCutShort == {[procs |-> {tosser}, ops |-> {"write", "remove"},
                     frames |-> 4, uids |-> 4]}
=============================================================================
