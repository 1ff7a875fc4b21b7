---------------------------- MODULE MCBaseFiles ----------------------------
(***************************************************************************)
(* A base of two files and one of three, each found with any of them there *)
(* and holding anything.                                                   *)
(***************************************************************************)
EXTENDS BaseFiles, TLC

Squish == <<"sqi", "sqd">>
Jam == <<"jdx", "jdt", "jhr">>
BothFormats == {Squish, Jam}
TheProcesses == Permutations(Processes)
=============================================================================
