------------------------------ MODULE FileLock ------------------------------
(***************************************************************************)
(* The exclusive lock a base is written under (msgbase/file_lock.cpp): an  *)
(* advisory whole-file lock on each file the base is made of, taken        *)
(* without waiting, in the order the format names them, and given back in  *)
(* the opposite order.  A file somebody else holds makes acquire() let go  *)
(* of everything, pause and start again, kAttempts times in all.           *)
(*                                                                         *)
(* Every call into the kernel is a step of its own, so two processes may   *)
(* interleave between any two of them, and a process may be killed at any  *)
(* point, after which the kernel closes its descriptors one by one.        *)
(***************************************************************************)
EXTENDS Naturals, Sequences

CONSTANTS
    Proc,        \* the processes sharing the base
    File,        \* the files of the base
    Order,       \* Order[p]: the open files p asks for, in its order
    kAttempts,   \* how often acquire() tries the whole list
    NoProc       \* the owner of a file nobody has locked

ASSUME AttemptsAssumption == kAttempts \in Nat \ {0}

ASSUME OrderAssumption ==
    /\ Order \in [Proc -> Seq(File)]
    /\ \A p \in Proc : Order[p] # <<>>
    /\ \A p \in Proc : \A i, j \in DOMAIN Order[p] :
            Order[p][i] = Order[p][j] => i = j

ASSUME NoProcAssumption == NoProc \notin Proc

VARIABLES
    stage,      \* where each process is in acquire() or release()
    attempt,    \* acquire()'s loop counter
    got,        \* how many files of Order[p] are in locked_, a prefix of it
    owner       \* the kernel's table: who holds each file

lockVars == <<stage, attempt, got, owner>>

Files(p) == {Order[p][i] : i \in DOMAIN Order[p]}

Stage == {"idle", "trying", "backing", "pausing", "held", "releasing", "dying"}

TypeOK ==
    /\ stage \in [Proc -> Stage]
    /\ attempt \in [Proc -> 0 .. kAttempts - 1]
    /\ got \in [Proc -> Nat]
    /\ \A p \in Proc : got[p] <= Len(Order[p])
    /\ owner \in [File -> Proc \cup {NoProc}]

FileLockInit ==
    /\ stage = [p \in Proc |-> "idle"]
    /\ attempt = [p \in Proc |-> 0]
    /\ got = [p \in Proc |-> 0]
    /\ owner = [f \in File |-> NoProc]
-----------------------------------------------------------------------------
\* A writing call builds a FileLock and calls acquire(); release() first has
\* nothing to give back.
Acquire(p) ==
    /\ stage[p] = "idle"
    /\ stage' = [stage EXCEPT ![p] = "trying"]
    /\ attempt' = [attempt EXCEPT ![p] = 0]
    /\ UNCHANGED <<got, owner>>

\* Mutant: one file of the base is taken for all of them.
LockFirstOnly(p) ==
    LET f == Order[p][got[p] + 1] IN
    /\ stage[p] = "trying"
    /\ owner[f] = NoProc
    /\ owner' = [owner EXCEPT ![f] = p]
    /\ got' = [got EXCEPT ![p] = got[p] + 1]
    /\ stage' = [stage EXCEPT ![p] = "held"]
    /\ UNCHANGED attempt

\* lockWholeFile() took the next file of the list; after the last one
\* acquire() returns with everything held.
LockNext(p) ==
    LET f == Order[p][got[p] + 1] IN
    /\ stage[p] = "trying"
    /\ owner[f] = NoProc
    /\ owner' = [owner EXCEPT ![f] = p]
    /\ got' = [got EXCEPT ![p] = got[p] + 1]
    /\ stage' = [stage EXCEPT ![p] = IF got[p] + 1 = Len(Order[p])
                                     THEN "held" ELSE "trying"]
    /\ UNCHANGED attempt

\* Mutant: the files already locked are kept over the pause.
RefusedKeeping(p) ==
    /\ stage[p] = "trying"
    /\ owner[Order[p][got[p] + 1]] # NoProc
    /\ stage' = [stage EXCEPT ![p] = "pausing"]
    /\ UNCHANGED <<attempt, got, owner>>

\* lockWholeFile() was refused: the loop breaks and release() begins.
Refused(p) ==
    /\ stage[p] = "trying"
    /\ owner[Order[p][got[p] + 1]] # NoProc
    /\ stage' = [stage EXCEPT ![p] = "backing"]
    /\ UNCHANGED <<attempt, got, owner>>

\* Mutant: the first file of locked_ is given back first.
UnlockForwards(p) ==
    LET turn == IF stage[p] = "releasing" THEN Len(Order[p]) - got[p] + 1
                                          ELSE got[p] IN
    /\ stage[p] \in {"backing", "releasing"}
    /\ got[p] # 0
    /\ owner' = [owner EXCEPT ![Order[p][turn]] = NoProc]
    /\ got' = [got EXCEPT ![p] = got[p] - 1]
    /\ UNCHANGED <<stage, attempt>>

\* One turn of release()'s loop, the last file of locked_ first.
Unlock(p) ==
    /\ stage[p] \in {"backing", "releasing"}
    /\ got[p] # 0
    /\ owner' = [owner EXCEPT ![Order[p][got[p]]] = NoProc]
    /\ got' = [got EXCEPT ![p] = got[p] - 1]
    /\ UNCHANGED <<stage, attempt>>

\* Mutant: one attempt more than kAttempts.
PauseOnceMore(p) ==
    /\ stage[p] = "backing"
    /\ got[p] = 0
    /\ stage' = [stage EXCEPT ![p] = IF attempt[p] < kAttempts THEN "pausing"
                                                               ELSE "idle"]
    /\ UNCHANGED <<attempt, got, owner>>

\* release() has emptied locked_ after a refused file: the next attempt
\* waits kRetryPause, and the last one answers that the base is busy.
GiveUpOrPause(p) ==
    /\ stage[p] = "backing"
    /\ got[p] = 0
    /\ stage' = [stage EXCEPT ![p] = IF attempt[p] + 1 < kAttempts
                                     THEN "pausing" ELSE "idle"]
    /\ UNCHANGED <<attempt, got, owner>>

\* Mutant: the attempts are not counted.
RetryForEver(p) ==
    /\ stage[p] = "pausing"
    /\ stage' = [stage EXCEPT ![p] = "trying"]
    /\ UNCHANGED <<attempt, got, owner>>

\* waitABit() is over and the loop comes round.
Retry(p) ==
    /\ stage[p] = "pausing"
    /\ stage' = [stage EXCEPT ![p] = "trying"]
    /\ attempt' = [attempt EXCEPT ![p] = attempt[p] + 1]
    /\ UNCHANGED <<got, owner>>

\* The write is over: the FileLock goes out of scope.
BeginRelease(p) ==
    /\ stage[p] = "held"
    /\ stage' = [stage EXCEPT ![p] = "releasing"]
    /\ UNCHANGED <<attempt, got, owner>>

\* release() has gone through the whole of locked_.
Released(p) ==
    /\ stage[p] = "releasing"
    /\ got[p] = 0
    /\ stage' = [stage EXCEPT ![p] = "idle"]
    /\ UNCHANGED <<attempt, got, owner>>

\* The process is killed, wherever it is in the above.
Die(p) ==
    /\ stage[p] \notin {"idle", "dying"}
    /\ stage' = [stage EXCEPT ![p] = "dying"]
    /\ got' = [got EXCEPT ![p] = 0]
    /\ UNCHANGED <<attempt, owner>>

\* Mutant: a lock that outlives its process, as a lock file would.
KernelKeeps(p, f) ==
    /\ stage[p] = "dying"
    /\ owner[f] = p
    /\ UNCHANGED lockVars

\* The kernel closes a descriptor of a dead process, and the lock with it.
KernelUnlock(p, f) ==
    /\ stage[p] = "dying"
    /\ owner[f] = p
    /\ owner' = [owner EXCEPT ![f] = NoProc]
    /\ UNCHANGED <<stage, attempt, got>>

\* Everything the dead process had open is closed; it is started again.
Restart(p) ==
    /\ stage[p] = "dying"
    /\ \A f \in File : owner[f] # p
    /\ stage' = [stage EXCEPT ![p] = "idle"]
    /\ UNCHANGED <<attempt, got, owner>>
-----------------------------------------------------------------------------
\* What runs by itself once it has begun: the code between a call of acquire()
\* and its answer, the end of a write, and the kernel.
Step(p) ==
    \/ LockNext(p)
    \/ Refused(p)
    \/ Unlock(p)
    \/ GiveUpOrPause(p)
    \/ Retry(p)
    \/ BeginRelease(p)
    \/ Released(p)
    \/ \E f \in File : KernelUnlock(p, f)
    \/ Restart(p)

FileLockNext == \E p \in Proc : Acquire(p) \/ Step(p) \/ Die(p)

\* A process that has begun a call carries it on, and so does the kernel; no
\* process has to write, and none has to die.
Fairness == \A p \in Proc : WF_lockVars(Step(p))

FileLockSpec == FileLockInit /\ [][FileLockNext]_lockVars /\ Fairness
-----------------------------------------------------------------------------
Writing == {p \in Proc : stage[p] = "held"}

\* Two processes that name a file in common never write at the same time
\* ("Half a written frame ... a message counted twice": what a base looks like
\* when two writers meet), deaths and retries included.
MutualExclusion ==
    \A p, q \in Writing : Files(p) \cap Files(q) # {} => p = q

\* acquire() "locks every file, or none of them": a process that was told it
\* has the lock has each of its files, one that is idle or between attempts
\* has none, and the kernel never holds a file for anyone who is not in a call.
EveryFileOrNone ==
    \A p \in Proc :
        /\ stage[p] = "held" => \A f \in Files(p) : owner[f] = p
        /\ stage[p] \in {"idle", "pausing"} => \A f \in File : owner[f] # p

\* The comment in release(): the first file of the list "is the last to come
\* free and cannot be taken while we still hold the rest".  So a process that
\* has got its first file is never refused a later one by a process that names
\* the files in the same order, unless the kernel is still closing those of a
\* process that died.
FirstFileDecides ==
    \A p \in Proc :
        stage[p] = "trying" /\ got[p] # 0 =>
            \A q \in Proc : /\ owner[Order[p][got[p] + 1]] = q
                            /\ Order[q] = Order[p]
                            => stage[q] = "dying"

\* "Waiting for ever is not on offer": every acquire() comes back, with the
\* lock or without it, whatever the other processes do and in whatever order
\* they name the files.
AcquireReturns ==
    \A p \in Proc :
        stage[p] = "trying" ~> stage[p] \in {"held", "idle", "dying"}

\* A process that dies does not leave the base locked ("dropped by the kernel
\* if this one dies").
DeathFreesTheBase ==
    \A p \in Proc : stage[p] = "dying" ~> \A f \in File : owner[f] # p

\* The lock of several files taken one at a time is one lock: FileLock
\* implements Mutex when every process names the same files.
Abstract == INSTANCE Mutex WITH holders <- Writing

ImplementsMutex == Abstract!MutexSpec
=============================================================================
