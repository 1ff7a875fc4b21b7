------------------------------- MODULE Mutex -------------------------------
(***************************************************************************)
(* What a message base asks of the lock it is written under: "Nothing      *)
(* writes to a base without it" (msgbase/file_lock.hpp).  The abstract     *)
(* lock has one holder at most, is taken in one step and given back in     *)
(* one step.  FileLock implements it with one fcntl lock per file.         *)
(***************************************************************************)
CONSTANT Proc      \* the processes that have the base open

VARIABLE holders   \* the processes writing to the base

MutexInit == holders = {}

Enter(p) == holders = {} /\ holders' = {p}

Leave(p) == holders = {p} /\ holders' = {}

MutexNext == \E p \in Proc : Enter(p) \/ Leave(p)

MutexSpec == MutexInit /\ [][MutexNext]_holders
=============================================================================
