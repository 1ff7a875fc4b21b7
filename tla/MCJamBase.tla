----------------------------- MODULE MCJamBase -----------------------------
(***************************************************************************)
(* Two processes of one JAM base.  a is a short text, b one twice as long  *)
(* with the same subfields, c one that is longer with other subfields.     *)
(***************************************************************************)
EXTENDS JamBase, TLC

CONSTANTS reader, tosser, a, b, c

MCProc == {reader, tosser}
MCText == {a, b, c}
MCTextLen == [t \in Text |-> IF t = a THEN 1 ELSE 2]
MCSubsLen == [t \in Text |-> IF t = c THEN 2 ELSE 1]

\* Every change one process can make.
Alone == [procs |-> {tosser},
          calls |-> tosser :> {"write", "replace", "remove"},
          texts |-> MCText, headers |-> 3, units |-> 4, set |-> 1, faults |-> 0]

\* What one writes again under another's stale table.
Rewritten == [procs |-> MCProc,
              calls |-> tosser :> {"write", "replace"} @@ reader :> {"remove", "seen", "rcvd"},
              texts |-> {a, c}, headers |-> 2, units |-> 5, set |-> 1, faults |-> 0]

\* Sets and removals cut short under a reader.
CutShort == [procs |-> MCProc,
             calls |-> tosser :> {"write", "remove"} @@ reader :> {"write", "seen"},
             texts |-> {a, b}, headers |-> 2, units |-> 5, set |-> 2, faults |-> 1]

MCScopes == {Alone, Rewritten, CutShort}
=============================================================================
