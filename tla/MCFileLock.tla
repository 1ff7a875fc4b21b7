----------------------------- MODULE MCFileLock -----------------------------
(***************************************************************************)
(* Two processes that name the files of a Squish base in the order this    *)
(* program does and a third that names them the other way round, each      *)
(* trying twice.                                                           *)
(***************************************************************************)
EXTENDS FileLock

CONSTANTS reader, tosser, packer, sqd, sqi, nobody

MCProc == {reader, tosser, packer}
MCFile == {sqd, sqi}
MCOrder == [p \in MCProc |-> IF p = packer THEN <<sqi, sqd>>
                                           ELSE <<sqd, sqi>>]
=============================================================================
