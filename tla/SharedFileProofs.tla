-------------------------- MODULE SharedFileProofs --------------------------
(***************************************************************************)
(* The files that several processes share.  What FileLock guarantees for   *)
(* every number of processes, files and attempts, and for every order in   *)
(* which each process names its files; and, of the files that are written  *)
(* without it, what LastRead guarantees for every number of processes,     *)
(* every area and every width of the marks.                                *)
(***************************************************************************)
EXTENDS FileLock, LastRead, TLAPS

(***************************************************************************)
(* The base lock                                                           *)
(***************************************************************************)

\* How far through its list a process can be, by where it is in the code.
Counted ==
    \A p \in Proc :
        /\ stage[p] \in {"idle", "pausing", "dying"} => got[p] = 0
        /\ stage[p] = "held" => got[p] = Len(Order[p])
        /\ stage[p] = "trying" => got[p] < Len(Order[p])
        /\ stage[p] = "pausing" => attempt[p] + 1 < kAttempts

\* What a living process has in locked_ is what the kernel has for it.
KernelAgrees ==
    \A p \in Proc : stage[p] # "dying" =>
        \A f \in File : owner[f] = p <=> \E i \in 1 .. got[p] : Order[p][i] = f

\* The inductive invariant.
LockInv == TypeOK /\ Counted /\ KernelAgrees

\* What the assumptions on the constants say of one process.
LEMMA OrderFacts ==
    ASSUME NEW p \in Proc
    PROVE  /\ Order[p] \in Seq(File)
           /\ Len(Order[p]) \in Nat \ {0}
           /\ \A i \in 1 .. Len(Order[p]) : Order[p][i] \in File
           /\ \A i, j \in 1 .. Len(Order[p]) :
                    Order[p][i] = Order[p][j] => i = j
           /\ p # NoProc
  <1>1. Order[p] \in Seq(File) /\ Order[p] # <<>>
    BY OrderAssumption
  <1>2. DOMAIN Order[p] = 1 .. Len(Order[p])
    BY <1>1
  <1>3. \A i, j \in DOMAIN Order[p] : Order[p][i] = Order[p][j] => i = j
    BY OrderAssumption
  <1>4. QED
    BY <1>1, <1>2, <1>3, NoProcAssumption

\* Nobody is in a call at the start and no file is locked.
LEMMA LockInitInvariant == FileLockInit => LockInv
  BY AttemptsAssumption, NoProcAssumption, OrderFacts
  DEF FileLockInit, LockInv, TypeOK, Counted, KernelAgrees, Stage

\* One lemma for each kind of step.  The steps that touch no lock.
LEMMA QuietStepInvariant ==
    ASSUME LockInv, NEW p \in Proc,
           \/ Acquire(p) \/ Refused(p) \/ GiveUpOrPause(p)
           \/ Retry(p) \/ BeginRelease(p) \/ Released(p)
    PROVE  LockInv'
  <1>1. TypeOK /\ Counted /\ KernelAgrees
    BY DEF LockInv
  <1>2. Len(Order[p]) \in Nat \ {0}
    BY OrderFacts
  <1>3. UNCHANGED <<got, owner>> /\ stage[p] # "dying" /\ stage'[p] # "dying"
        /\ \A q \in Proc \ {p} : stage'[q] = stage[q]
    BY <1>1 DEF TypeOK, Acquire, Refused, GiveUpOrPause, Retry, BeginRelease,
                Released
  <1>4. TypeOK'
    <2>1. stage' \in [Proc -> Stage]
      BY <1>1 DEF TypeOK, Stage, Acquire, Refused, GiveUpOrPause, Retry,
                  BeginRelease, Released
    <2>2. attempt' \in [Proc -> 0 .. kAttempts - 1]
      <3>1. CASE Acquire(p)
        BY <1>1, <3>1, AttemptsAssumption DEF TypeOK, Acquire
      <3>2. CASE Retry(p)
        BY <1>1, <3>2, AttemptsAssumption DEF TypeOK, Counted, Retry
      <3>3. CASE ~Acquire(p) /\ ~Retry(p)
        BY <1>1, <3>3 DEF TypeOK, Refused, GiveUpOrPause, BeginRelease,
                          Released
      <3>4. QED
        BY <3>1, <3>2, <3>3
    <2>3. QED
      BY <1>1, <1>3, <2>1, <2>2 DEF TypeOK
  <1>5. Counted'
    BY <1>1, <1>2
    DEF TypeOK, Counted, Acquire, Refused, GiveUpOrPause, Retry, BeginRelease,
        Released
  <1>6. KernelAgrees'
    BY <1>1, <1>3 DEF KernelAgrees
  <1>7. QED
    BY <1>4, <1>5, <1>6 DEF LockInv

\* A file is taken that nobody had.
LEMMA LockNextInvariant ==
    ASSUME LockInv, NEW p \in Proc, LockNext(p)
    PROVE  LockInv'
  <1> DEFINE f == Order[p][got[p] + 1]
  <1>1. TypeOK /\ Counted /\ KernelAgrees
    BY DEF LockInv
  <1>2. got[p] \in Nat /\ got[p] < Len(Order[p]) /\ f \in File
    BY <1>1, OrderFacts DEF TypeOK, Counted, LockNext
  <1>3. /\ stage[p] = "trying" /\ owner[f] = NoProc
        /\ owner' = [owner EXCEPT ![f] = p]
        /\ got' = [got EXCEPT ![p] = got[p] + 1]
        /\ stage' = [stage EXCEPT ![p] = IF got[p] + 1 = Len(Order[p])
                                         THEN "held" ELSE "trying"]
        /\ attempt' = attempt
    BY DEF LockNext
  <1>4. TypeOK'
    BY <1>1, <1>2, <1>3, OrderFacts DEF TypeOK, Stage
  <1>5. Counted'
    BY <1>1, <1>2, <1>3, OrderFacts DEF TypeOK, Counted
  <1>6. KernelAgrees'
    <2> SUFFICES ASSUME NEW q \in Proc, stage'[q] # "dying", NEW g \in File
                 PROVE  owner'[g] = q
                            <=> \E i \in 1 .. got'[q] : Order[q][i] = g
      BY DEF KernelAgrees
    <2>1. CASE q = p
      <3>1. owner[g] = p <=> \E i \in 1 .. got[p] : Order[p][i] = g
        BY <1>1, <1>3 DEF KernelAgrees
      <3>2. 1 .. got'[p] = (1 .. got[p]) \cup {got[p] + 1}
        BY <1>1, <1>2, <1>3 DEF TypeOK
      <3>3. owner'[g] = p <=> owner[g] = p \/ g = f
        BY <1>1, <1>2, <1>3 DEF TypeOK
      <3>4. QED
        BY <2>1, <3>1, <3>2, <3>3
    <2>2. CASE q # p
      <3>1. stage[q] # "dying" /\ got'[q] = got[q]
        BY <1>1, <1>3, <2>2 DEF TypeOK
      <3>2. owner'[g] = q <=> owner[g] = q
        BY <1>1, <1>2, <1>3, <2>2, OrderFacts DEF TypeOK
      <3>3. QED
        BY <1>1, <3>1, <3>2 DEF KernelAgrees
    <2>3. QED
      BY <2>1, <2>2
  <1>7. QED
    BY <1>4, <1>5, <1>6 DEF LockInv

\* The last file of locked_ is given back; the others of the list are not the
\* same file.
LEMMA UnlockInvariant ==
    ASSUME LockInv, NEW p \in Proc, Unlock(p)
    PROVE  LockInv'
  <1> DEFINE f == Order[p][got[p]]
  <1>1. TypeOK /\ Counted /\ KernelAgrees
    BY DEF LockInv
  <1>2. /\ stage[p] \in {"backing", "releasing"} /\ got[p] # 0
        /\ owner' = [owner EXCEPT ![f] = NoProc]
        /\ got' = [got EXCEPT ![p] = got[p] - 1]
        /\ stage' = stage /\ attempt' = attempt
    BY DEF Unlock
  <1>3. got[p] \in 1 .. Len(Order[p]) /\ f \in File
    BY <1>1, <1>2, OrderFacts DEF TypeOK
  <1>4. owner[f] = p
    BY <1>1, <1>2, <1>3 DEF KernelAgrees
  <1>5. TypeOK'
    BY <1>1, <1>2, <1>3, OrderFacts DEF TypeOK
  <1>6. Counted'
    BY <1>1, <1>2 DEF TypeOK, Counted
  <1>7. KernelAgrees'
    <2> SUFFICES ASSUME NEW q \in Proc, stage'[q] # "dying", NEW g \in File
                 PROVE  owner'[g] = q
                            <=> \E i \in 1 .. got'[q] : Order[q][i] = g
      BY DEF KernelAgrees
    <2>1. owner[g] = q <=> \E i \in 1 .. got[q] : Order[q][i] = g
      BY <1>1, <1>2 DEF KernelAgrees
    <2>2. CASE q = p
      <3>1. 1 .. got[p] = (1 .. got'[p]) \cup {got[p]}
        BY <1>1, <1>2, <1>3 DEF TypeOK
      <3>2. \A i \in 1 .. got'[p] : Order[p][i] # f
        BY <1>1, <1>2, <1>3, OrderFacts DEF TypeOK
      <3>3. owner'[g] = p <=> owner[g] = p /\ g # f
        BY <1>1, <1>2, <1>3, OrderFacts DEF TypeOK
      <3>4. QED
        BY <2>1, <2>2, <3>1, <3>2, <3>3
    <2>3. CASE q # p
      <3>1. got'[q] = got[q]
        BY <1>1, <1>2, <2>3 DEF TypeOK
      <3>2. owner'[g] = q <=> owner[g] = q
        BY <1>1, <1>2, <1>3, <1>4, <2>3, OrderFacts DEF TypeOK
      <3>3. QED
        BY <2>1, <3>1, <3>2
    <2>4. QED
      BY <2>2, <2>3
  <1>8. QED
    BY <1>5, <1>6, <1>7 DEF LockInv

\* A process dies, the kernel takes back what it had, and it starts again.
LEMMA DeathInvariant ==
    ASSUME LockInv, NEW p \in Proc,
           Die(p) \/ (\E f \in File : KernelUnlock(p, f)) \/ Restart(p)
    PROVE  LockInv'
  <1>1. TypeOK /\ Counted /\ KernelAgrees
    BY DEF LockInv
  <1>2. CASE Die(p)
    <2>1. TypeOK' /\ Counted'
      BY <1>1, <1>2, OrderFacts DEF TypeOK, Stage, Counted, Die
    <2>2. KernelAgrees'
      BY <1>1, <1>2 DEF TypeOK, KernelAgrees, Die
    <2>3. QED
      BY <2>1, <2>2 DEF LockInv
  <1>3. ASSUME NEW f \in File, KernelUnlock(p, f)
        PROVE  LockInv'
    <2>1. TypeOK' /\ Counted'
      BY <1>1, <1>3 DEF TypeOK, Counted, KernelUnlock
    <2>2. \A q \in Proc \ {p} : \A g \in File :
                owner'[g] = q <=> owner[g] = q
      BY <1>1, <1>3, OrderFacts DEF TypeOK, KernelUnlock
    <2>3. KernelAgrees'
      BY <1>1, <1>3, <2>2 DEF KernelAgrees, KernelUnlock
    <2>4. QED
      BY <2>1, <2>3 DEF LockInv
  <1>4. CASE Restart(p)
    <2>1. TypeOK' /\ Counted'
      BY <1>1, <1>4 DEF TypeOK, Stage, Counted, Restart
    <2>2. got[p] = 0 /\ \A f \in File : owner[f] # p
      BY <1>1, <1>4 DEF Counted, Restart
    <2>3. KernelAgrees'
      BY <1>1, <1>4, <2>2 DEF TypeOK, KernelAgrees, Restart
    <2>4. QED
      BY <2>1, <2>3 DEF LockInv
  <1>5. QED
    BY <1>2, <1>3, <1>4

\* Every step keeps the inductive invariant.
LEMMA LockNextKeeps == LockInv /\ [FileLockNext]_lockVars => LockInv'
  <1> SUFFICES ASSUME LockInv, [FileLockNext]_lockVars PROVE LockInv'
    OBVIOUS
  <1>1. CASE UNCHANGED lockVars
    BY <1>1 DEF lockVars, LockInv, TypeOK, Counted, KernelAgrees
  <1>2. ASSUME NEW p \in Proc, Acquire(p) \/ Step(p) \/ Die(p)
        PROVE  LockInv'
    <2>1. CASE \/ Acquire(p) \/ Refused(p) \/ GiveUpOrPause(p)
               \/ Retry(p) \/ BeginRelease(p) \/ Released(p)
      BY <2>1, QuietStepInvariant
    <2>2. CASE LockNext(p)
      BY <2>2, LockNextInvariant
    <2>3. CASE Unlock(p)
      BY <2>3, UnlockInvariant
    <2>4. CASE Die(p) \/ (\E f \in File : KernelUnlock(p, f)) \/ Restart(p)
      BY <2>4, DeathInvariant
    <2>5. QED
      BY <1>2, <2>1, <2>2, <2>3, <2>4 DEF Step
  <1>3. QED
    BY <1>1, <1>2 DEF FileLockNext

\* The inductive invariant holds throughout.
THEOREM Invariance == FileLockSpec => []LockInv
  BY LockInitInvariant, LockNextKeeps, PTL DEF FileLockSpec
-----------------------------------------------------------------------------
\* acquire()'s counter stays below kAttempts and locked_ within its list.
THEOREM TypeCorrectness == FileLockSpec => []TypeOK
  <1>1. LockInv => TypeOK
    BY DEF LockInv
  <1>2. QED
    BY <1>1, Invariance, PTL

\* acquire() "locks every file, or none of them".
LEMMA InvariantEveryFile == LockInv => EveryFileOrNone
  <1> SUFFICES ASSUME LockInv, NEW p \in Proc
               PROVE  /\ stage[p] = "held" => \A f \in Files(p) : owner[f] = p
                      /\ stage[p] \in {"idle", "pausing"} =>
                            \A f \in File : owner[f] # p
    BY DEF EveryFileOrNone
  <1>1. TypeOK /\ Counted /\ KernelAgrees
    BY DEF LockInv
  <1>2. ASSUME stage[p] = "held" PROVE \A f \in Files(p) : owner[f] = p
    <2>1. got[p] = Len(Order[p])
      BY <1>1, <1>2 DEF Counted
    <2>2. \A i \in 1 .. Len(Order[p]) : Order[p][i] \in File
      BY OrderFacts
    <2>3. Files(p) = {Order[p][i] : i \in 1 .. Len(Order[p])}
      BY OrderFacts DEF Files
    <2>4. QED
      BY <1>1, <1>2, <2>1, <2>2, <2>3 DEF KernelAgrees
  <1>3. ASSUME stage[p] \in {"idle", "pausing"}
        PROVE  \A f \in File : owner[f] # p
    BY <1>1, <1>3 DEF Counted, KernelAgrees
  <1>4. QED
    BY <1>2, <1>3

\* A process that was told it has the lock has each of its files, and one that
\* is idle or pausing between attempts keeps none, for any lists of files.
THEOREM AllOrNothing == FileLockSpec => []EveryFileOrNone
  BY Invariance, InvariantEveryFile, PTL

\* Two writers cannot each own a file they have in common.
LEMMA InvariantExclusion == LockInv => MutualExclusion
  BY InvariantEveryFile DEF MutualExclusion, EveryFileOrNone, Writing

\* Two processes that name a file in common never write at the same time, in
\* whatever orders they name their files and whoever dies.
THEOREM Exclusion == FileLockSpec => []MutualExclusion
  BY Invariance, InvariantExclusion, PTL

\* What release() going backwards is for.
LEMMA InvariantFirstFile == LockInv => FirstFileDecides
  <1> SUFFICES ASSUME LockInv, NEW p \in Proc, NEW q \in Proc,
                      stage[p] = "trying", got[p] # 0,
                      owner[Order[p][got[p] + 1]] = q, Order[q] = Order[p],
                      stage[q] # "dying"
               PROVE  FALSE
    BY DEF FirstFileDecides
  <1>1. TypeOK /\ Counted /\ KernelAgrees
    BY DEF LockInv
  <1>2. got[p] \in Nat /\ got[p] # 0 /\ got[p] < Len(Order[p])
        /\ got[q] \in 0 .. Len(Order[q])
    BY <1>1, OrderFacts DEF TypeOK, Counted
  <1>3. Order[p][1] \in File /\ Order[p][got[p] + 1] \in File
    BY <1>2, OrderFacts
  <1>4. owner[Order[p][1]] = p
    BY <1>1, <1>2, <1>3 DEF KernelAgrees
  <1>5. PICK i \in 1 .. got[q] : Order[q][i] = Order[p][got[p] + 1]
    BY <1>1, <1>3 DEF KernelAgrees
  <1>6. i = got[p] + 1
    BY <1>2, <1>5, OrderFacts
  <1>7. owner[Order[q][1]] = q
    BY <1>1, <1>2, <1>3, <1>5 DEF KernelAgrees
  <1>8. p = q
    BY <1>4, <1>7
  <1>9. QED
    BY <1>2, <1>5, <1>6, <1>8

\* A process that has got the first file of its list is refused a later one by
\* no living process that names the same files in the same order.
THEOREM FirstFileIsTheLock == FileLockSpec => []FirstFileDecides
  BY Invariance, InvariantFirstFile, PTL
-----------------------------------------------------------------------------
\* The processes share one base: any two of them name a file in common.
OneBase == \A p, q \in Proc : Files(p) \cap Files(q) # {}

\* A step of FileLock is a step of Mutex or leaves its holders alone.
LEMMA StepSimulation ==
    ASSUME OneBase, LockInv, LockInv', [FileLockNext]_lockVars
    PROVE  [Abstract!MutexNext]_Writing
  <1>1. \A p, q \in Writing : p = q
    BY InvariantExclusion DEF MutualExclusion, OneBase, Writing
  <1>2. \A p, q \in Writing' : p = q
    <2>1. MutualExclusion'
      BY InvariantExclusion, PTL
    <2>2. QED
      BY <2>1 DEF MutualExclusion, OneBase, Writing, Files
  <1>3. stage \in [Proc -> Stage]
    BY DEF LockInv, TypeOK
  <1>4. CASE UNCHANGED lockVars
    BY <1>4 DEF lockVars, Writing
  <1>5. ASSUME NEW p \in Proc, Acquire(p) \/ Step(p) \/ Die(p)
        PROVE  [Abstract!MutexNext]_Writing
    <2>1. \A q \in Proc \ {p} : stage'[q] = stage[q]
      BY <1>3, <1>5
      DEF Step, Acquire, LockNext, Refused, Unlock, GiveUpOrPause, Retry,
          BeginRelease, Released, KernelUnlock, Restart, Die
    <2>2. CASE stage[p] = "held" <=> stage'[p] = "held"
      BY <2>1, <2>2 DEF Writing
    <2>3. CASE stage[p] # "held" /\ stage'[p] = "held"
      <3>1. Writing' = Writing \cup {p} /\ p \notin Writing
        BY <2>1, <2>3 DEF Writing
      <3>2. Abstract!Enter(p)
        BY <1>2, <3>1 DEF Abstract!Enter
      <3>3. QED
        BY <3>2 DEF Abstract!MutexNext
    <2>4. CASE stage[p] = "held" /\ stage'[p] # "held"
      <3>1. Writing' = Writing \ {p} /\ p \in Writing
        BY <2>1, <2>4 DEF Writing
      <3>2. Abstract!Leave(p)
        BY <1>1, <3>1 DEF Abstract!Leave
      <3>3. QED
        BY <3>2 DEF Abstract!MutexNext
    <2>5. QED
      BY <2>2, <2>3, <2>4
  <1>6. QED
    BY <1>4, <1>5 DEF FileLockNext

\* The lock of several files taken one at a time is one lock, among processes
\* any two of which have a file in common.
THEOREM Refinement ==
    ASSUME OneBase
    PROVE  FileLockSpec => ImplementsMutex
  <1>1. FileLockInit => Abstract!MutexInit
    BY DEF FileLockInit, Writing, Abstract!MutexInit
  <1>2. LockInv /\ LockInv' /\ [FileLockNext]_lockVars
            => [Abstract!MutexNext]_Writing
    BY StepSimulation
  <1>3. QED
    BY <1>1, <1>2, Invariance, PTL
    DEF FileLockSpec, ImplementsMutex, Abstract!MutexSpec

(***************************************************************************)
(* The last-read marks                                                     *)
(***************************************************************************)


Steps == {"idle", "end", "open", "create", "put"}
Busy(u) == pc[u] \in {"open", "create", "put"}

Typed ==
    /\ volume \in Volumes
    /\ file \in Seq(Record) \cup {NoFile}
    /\ pc \in [User -> Steps]
    /\ job \in [User -> [uid : 0 .. MaxUid, at : Nat, high : Nat]]
    /\ mark \in [User -> Nat]
    /\ exposed \subseteq User

\* The record a user reads: that of the name, or that of the number.
Mine(u, i) == IF Format = "Jam" THEN Records[i].crc = Crc[u] ELSE i = Number[u] + 1

\* A user has one record at the most, and writes where it is, or where there is
\* none of his; what a writer remembers of its HighReadMsg is not behind it.
Placed ==
    /\ \A u \in volume.users, i, j \in DOMAIN Records : Mine(u, i) /\ Mine(u, j) => i = j
    /\ \A u \in volume.users :
          pc[u] = "end" => Format = "Jam" /\ \A i \in DOMAIN Records : ~ Mine(u, i)
    /\ \A u \in volume.users : Busy(u) =>
          /\ job[u].at # 0
          /\ Format # "Jam" => job[u].at = Number[u] + 1
          /\ Format = "Opus" => job[u].uid <= WordMax
          /\ \A i \in DOMAIN Records : Mine(u, i) => i = job[u].at
          /\ Format = "Jam" =>
                \A i \in DOMAIN Records : Mine(u, i) => Records[i].high <= job[u].high

\* What keeps the mark of a user who is not exposed: nobody is about to empty a
\* file it is in, and nobody is about to write over it.
Safe ==
    \A u \in volume.users \ exposed :
        /\ GetLastRead(u) = mark[u]
        /\ (\E w \in volume.users : pc[w] = "create") => mark[u] = 0
        /\ \A w \in volume.users \ {u} :
              Busy(w) /\ job[w].at \in DOMAIN Records => ~ Mine(u, job[w].at)

IInv == Typed /\ Placed /\ Safe

\* A user's record in a sequence of records, if there is one, is the first found.
LEMMA FoundIn ==
    ASSUME NEW records \in Seq(Record), NEW c, NEW i \in DOMAIN records,
           records[i].crc = c,
           \A j \in DOMAIN records : records[j].crc = c => j = i
    PROVE  LET mine == {j \in DOMAIN records : records[j].crc = c}
           IN  mine # {} /\ Min(mine) = i
  <1>1. {j \in DOMAIN records : records[j].crc = c} = {i}
    OBVIOUS
  <1>2. i \in Nat
    OBVIOUS
  <1>3. Min({i}) = i
    <2>1. \A x \in {i} : (\A y \in {i} : x =< y) <=> x = i
      BY <1>2
    <2>2. QED
      BY <2>1 DEF Min
  <1>4. QED
    BY <1>1, <1>3

\* What getLastRead() answers: the mark of the user's record, or zero.
Shown(last) == IF last = Cleared THEN 0 ELSE last

LEMMA RecordsTyped ==
    ASSUME Typed
    PROVE  Records \in Seq(Record) /\ DOMAIN Records = 1 .. Len(Records) /\ Len(Records) \in Nat
  BY DEF Typed, Records

LEMMA ReadsOwn ==
    ASSUME Typed, Placed, NEW u \in volume.users
    PROVE  /\ \A i \in DOMAIN Records : Mine(u, i) => GetLastRead(u) = Shown(Records[i].last)
           /\ (\A i \in DOMAIN Records : ~ Mine(u, i)) => GetLastRead(u) = 0
           /\ \A i \in DOMAIN Records : Mine(u, i) /\ Format = "Jam" => FindRecord(u) = i
           /\ (\A i \in DOMAIN Records : ~ Mine(u, i)) /\ Format = "Jam" => FindRecord(u) = 0
  <1>1. Records \in Seq(Record) /\ DOMAIN Records = 1 .. Len(Records) /\ Len(Records) \in Nat
    BY RecordsTyped
  <1>2. CASE Format = "Jam"
    <2>1. ASSUME NEW i \in DOMAIN Records, Mine(u, i)
          PROVE  FindRecord(u) = i
      <3>1. Records[i].crc = Crc[u]
            /\ \A j \in DOMAIN Records : Records[j].crc = Crc[u] => j = i
        BY <1>2, <2>1 DEF Placed, Mine
      <3>2. QED
        BY <1>1, <3>1, FoundIn DEF FindRecord
    <2>2. ASSUME \A i \in DOMAIN Records : ~ Mine(u, i)
          PROVE  FindRecord(u) = 0
      BY <1>2, <2>2 DEF FindRecord, Mine
    <2>3. 0 \notin DOMAIN Records /\ Cleared # 0
      BY <1>1, WidthAssumption DEF Cleared
    <2>4. QED
      BY <1>2, <2>1, <2>2, <2>3 DEF GetLastRead, Shown
  <1>3. CASE Format # "Jam"
    BY <1>3, WidthAssumption DEF GetLastRead, Shown, Mine, Cleared
  <1>4. QED
    BY <1>2, <1>3

\* The same after a step.
LEMMA ReadsOwnNext ==
    ASSUME Typed', Placed', NEW u \in volume'.users
    PROVE  /\ \A i \in DOMAIN Records' : Mine(u, i)' => GetLastRead(u)' = Shown(Records[i].last)'
           /\ (\A i \in DOMAIN Records' : ~ Mine(u, i)') => GetLastRead(u)' = 0
  <1>1. Records' \in Seq(Record) /\ DOMAIN Records' = 1 .. Len(Records') /\ Len(Records') \in Nat
    BY DEF Typed, Records
  <1>2. CASE Format' = "Jam"
    <2>1. ASSUME NEW i \in DOMAIN Records', Mine(u, i)'
          PROVE  FindRecord(u)' = i
      <3>1. Records'[i].crc = Crc'[u]
            /\ \A j \in DOMAIN Records' : Records'[j].crc = Crc'[u] => j = i
        BY <1>2, <2>1 DEF Placed, Mine
      <3>2. QED
        BY <1>1, <3>1, FoundIn DEF FindRecord
    <2>2. ASSUME \A i \in DOMAIN Records' : ~ Mine(u, i)'
          PROVE  FindRecord(u)' = 0
      BY <1>2, <2>2 DEF FindRecord, Mine
    <2>3. 0 \notin DOMAIN Records' /\ Cleared # 0
      BY <1>1, WidthAssumption DEF Cleared
    <2>4. QED
      BY <1>2, <2>1, <2>2, <2>3 DEF GetLastRead, Shown, Cleared
  <1>3. CASE Format' # "Jam"
    BY <1>3, WidthAssumption DEF GetLastRead, Shown, Mine, Cleared
  <1>4. QED
    BY <1>2, <1>3

LEMMA InitInvariant == Init => IInv
  <1> SUFFICES ASSUME Init
               PROVE  IInv
    OBVIOUS
  <1>1. volume \in Volumes /\ volume.users \subseteq User /\ file = volume.before
        /\ file \in Seq(Record) \cup {NoFile}
    BY VolumesAssumption DEF Init
  <1>2. Records \in Seq(Record) /\ DOMAIN Records = 1 .. Len(Records)
    BY <1>1 DEF Records
  <1>3. ASSUME NEW u \in User
        PROVE  GetLastRead(u) \in Nat
    <2>1. \A i \in DOMAIN Records : Records[i] \in Record
      BY <1>2
    <2>2. \A i \in DOMAIN Records : Records[i].last \in Nat
      BY <2>1 DEF Record
    <2>3. QED
      BY <2>2 DEF GetLastRead
  <1>4. Typed
    <2>1. NoJob \in [uid : 0 .. MaxUid, at : Nat, high : Nat]
      BY WidthAssumption DEF NoJob
    <2>2. QED
      BY <1>1, <1>3, <2>1 DEF Init, Typed, Steps
  <1>5. Placed
    <2>1. ASSUME NEW u \in volume.users, NEW i \in DOMAIN Records, NEW j \in DOMAIN Records,
                 Mine(u, i), Mine(u, j)
          PROVE  i = j
      <3>1. CASE Format # "Jam"
        BY <2>1, <3>1 DEF Mine
      <3>2. CASE Format = "Jam" /\ file # NoFile
        <4>1. Records = volume.before /\ volume.before # NoFile /\ volume.format = "Jam"
          BY <1>1, <3>2 DEF Records, Format
        <4>2. volume.before[i].crc = volume.crc[u] /\ volume.before[j].crc = volume.crc[u]
          BY <2>1, <3>2, <4>1 DEF Mine, Crc
        <4>3. QED
          BY <1>1, <2>1, <4>1, <4>2, VolumesAssumption
      <3>3. CASE file = NoFile
        BY <2>1, <3>3 DEF Records
      <3>4. QED
        BY <3>1, <3>2, <3>3
    <2>2. QED
      BY <1>1, <2>1 DEF Placed, Init, Busy
  <1>6. Safe
    BY <1>1 DEF Safe, Init, Busy
  <1>7. QED
    BY <1>4, <1>5, <1>6 DEF IInv

\* What the assumptions say of two users of one area.
LEMMA UsersApart ==
    ASSUME Typed, NEW u \in volume.users, NEW w \in volume.users, u # w
    PROVE  /\ u \in User /\ Crc[u] # NoCrc
           /\ Number[u] \in Nat
           /\ Format = "Jam" => Crc[u] # Crc[w]
           /\ Format # "Jam" => Number[u] # Number[w]
  BY VolumesAssumption DEF Typed, Format, Crc, Number

LEMMA UserFacts ==
    ASSUME Typed, NEW u \in volume.users
    PROVE  u \in User /\ Crc[u] # NoCrc /\ Number[u] \in Nat
           /\ Crc[u] \in UNION {{v.crc[w] : w \in User} : v \in Volumes}
  BY VolumesAssumption DEF Typed, Format, Crc, Number

\* The steps that touch no file.
LEMMA QuietStep ==
    ASSUME IInv, NEW u \in volume.users, UNCHANGED volume,
           \/ SetLastRead(u) \/ AtTheEnd(u) \/ OpenKeeping(u) \/ GiveUp(u)
    PROVE  IInv'
  <1>1. Typed /\ Placed /\ Safe /\ u \in User
    BY UserFacts DEF IInv
  <1>2. Records \in Seq(Record) /\ DOMAIN Records = 1 .. Len(Records) /\ Len(Records) \in Nat
        /\ \A i \in DOMAIN Records : Records[i] \in Record /\ Records[i].high \in Nat
    <2>1. Records \in Seq(Record) /\ DOMAIN Records = 1 .. Len(Records) /\ Len(Records) \in Nat
      BY <1>1, RecordsTyped
    <2>2. \A i \in DOMAIN Records : Records[i] \in Record
      BY <2>1
    <2>3. QED
      BY <2>1, <2>2 DEF Record
  <1>3. UNCHANGED <<volume, file, mark, exposed>>
    BY DEF SetLastRead, SetArray, SetJam, AtTheEnd, OpenKeeping, GiveUp
  <1>4. /\ Records' = Records /\ Format' = Format /\ Number' = Number /\ Crc' = Crc
        /\ \A w : GetLastRead(w)' = GetLastRead(w)
        /\ \A w, i : Mine(w, i)' = Mine(w, i)
    BY <1>3 DEF Records, Format, Number, Crc, GetLastRead, FindRecord, Mine
  <1>5. \A w \in User \ {u} : pc'[w] = pc[w] /\ job'[w] = job[w]
    BY <1>1 DEF Typed, SetLastRead, SetArray, SetJam, AtTheEnd, OpenKeeping, GiveUp, Goto
  <1>6. volume.users \subseteq User
    BY <1>1, UserFacts
  \* What each of the steps comes to for the process itself.
  <1>7. /\ pc' \in [User -> Steps]
        /\ job' \in [User -> [uid : 0 .. MaxUid, at : Nat, high : Nat]]
        /\ pc'[u] = "create" => file = NoFile
        /\ \/ pc'[u] = "idle"
           \/ pc'[u] = "end" /\ Format = "Jam" /\ \A i \in DOMAIN Records : ~ Mine(u, i)
           \/ /\ pc'[u] \in {"open", "create", "put"}
              /\ job'[u].at # 0
              /\ Format # "Jam" => job'[u].at = Number[u] + 1
              /\ Format = "Opus" => job'[u].uid <= WordMax
              /\ \A i \in DOMAIN Records : Mine(u, i) => i = job'[u].at
              /\ Format = "Jam" =>
                    \A i \in DOMAIN Records : Mine(u, i) => Records[i].high <= job'[u].high
              /\ \A w \in volume.users \ {u} :
                    job'[u].at \in DOMAIN Records =>
                       \/ ~ Mine(w, job'[u].at)
                       \/ Busy(u) /\ job'[u].at = job[u].at
    <2>1. ASSUME NEW uid \in Uid \cup {0}, SetArray(u, uid)
          PROVE  <1>7!:
      <3>1. uid \in 0 .. MaxUid /\ Number[u] + 1 \in Nat \ {0}
        BY <1>1, UserFacts, WidthAssumption DEF Uid
      <3>2. /\ Format # "Jam" /\ (Format = "Opus" => uid <= WordMax)
            /\ pc' = [pc EXCEPT ![u] = "open"]
            /\ job' = [job EXCEPT ![u] = [uid |-> uid, at |-> Number[u] + 1, high |-> 0]]
        BY <2>1 DEF SetArray, Goto, Sayable
      <3>3. \A w \in volume.users \ {u} : ~ Mine(w, Number[u] + 1)
        BY <1>1, <3>2, UserFacts, UsersApart DEF Mine
      <3>4. QED
        BY <1>1, <3>1, <3>2, <3>3 DEF Typed, Steps, Mine
    <2>2. ASSUME NEW uid \in Uid \cup {0}, SetJam(u, uid), FindRecord(u) = 0
          PROVE  <1>7!:
      <3>1. uid \in 0 .. MaxUid
        BY WidthAssumption DEF Uid
      <3>2. /\ Format = "Jam"
            /\ pc' = [pc EXCEPT ![u] = "end"]
            /\ job' = [job EXCEPT ![u] = [uid |-> uid, at |-> 0, high |-> 0]]
        BY <2>2 DEF SetJam, Goto
      <3>3. \A i \in DOMAIN Records : ~ Mine(u, i)
        BY <1>1, <1>2, <2>2, <3>2, ReadsOwn
      <3>4. QED
        BY <1>1, <3>1, <3>2, <3>3 DEF Typed, Steps
    <2>3. ASSUME NEW uid \in Uid \cup {0}, SetJam(u, uid), FindRecord(u) # 0
          PROVE  <1>7!:
      <3> DEFINE at == FindRecord(u)
      <3>1. uid \in 0 .. MaxUid
        BY WidthAssumption DEF Uid
      <3>2. /\ Format = "Jam"
            /\ pc' = [pc EXCEPT ![u] = "open"]
            /\ job' = [job EXCEPT ![u] = [uid |-> uid, at |-> at, high |-> Records[at].high]]
        BY <2>3 DEF SetJam, Goto
      <3>3. at \in DOMAIN Records /\ Mine(u, at) /\ \A i \in DOMAIN Records : Mine(u, i) => i = at
        BY <1>1, <2>3, <3>2, ReadsOwn
      <3>4. at \in Nat /\ Records[at].high \in Nat
        BY <1>2, <3>3
      <3>5. \A w \in volume.users \ {u} : ~ Mine(w, at)
        BY <1>1, <3>2, <3>3, UsersApart DEF Mine
      <3> HIDE DEF at
      <3>6. QED
        BY <1>1, <2>3, <3>1, <3>2, <3>3, <3>4, <3>5 DEF Typed, Steps, at
    <2>4. ASSUME AtTheEnd(u)
          PROVE  <1>7!:
      <3>1. /\ pc[u] = "end" /\ pc' = [pc EXCEPT ![u] = "open"]
            /\ job' = [job EXCEPT ![u].at = Len(Records) + 1]
        BY <2>4 DEF AtTheEnd, Goto
      <3>2. Format = "Jam" /\ \A i \in DOMAIN Records : ~ Mine(u, i)
        BY <1>1, <3>1 DEF Placed
      <3>3. Len(Records) + 1 \in Nat \ {0} /\ Len(Records) + 1 \notin DOMAIN Records
        BY <1>2
      <3>4. QED
        BY <1>1, <3>1, <3>2, <3>3 DEF Typed, Steps
    <2>5. ASSUME OpenKeeping(u)
          PROVE  <1>7!:
      <3>1. /\ pc[u] = "open" /\ job' = job
            /\ pc' = [pc EXCEPT ![u] = IF file = NoFile THEN "create" ELSE "put"]
        BY <2>5 DEF OpenKeeping, Goto
      <3>2. Busy(u)
        BY <3>1 DEF Busy
      <3>3. QED
        BY <1>1, <3>1, <3>2 DEF Typed, Steps, Placed
    <2>6. ASSUME GiveUp(u)
          PROVE  <1>7!:
      BY <1>1, <2>6, WidthAssumption DEF Typed, Steps, GiveUp, Goto, NoJob
    <2>7. QED
      BY <2>1, <2>2, <2>3, <2>4, <2>5, <2>6 DEF SetLastRead
  <1>8. Typed'
    BY <1>1, <1>3, <1>7 DEF Typed
  <1>9. Placed'
    BY <1>1, <1>3, <1>4, <1>5, <1>6, <1>7 DEF Placed, Busy
  <1>10. Safe'
    <2> SUFFICES ASSUME NEW v \in volume.users \ exposed
                 PROVE  /\ GetLastRead(v)' = mark'[v]
                        /\ (\E w \in volume.users : pc'[w] = "create") => mark'[v] = 0
                        /\ \A w \in volume.users \ {v} :
                              Busy(w)' /\ job'[w].at \in DOMAIN Records => ~ Mine(v, job'[w].at)
      BY <1>3, <1>4 DEF Safe
    <2>1. GetLastRead(v)' = mark'[v]
      BY <1>1, <1>3, <1>4 DEF Safe
    <2>2. file = NoFile => GetLastRead(v) = 0
      BY DEF GetLastRead, Records
    <2>3. (\E w \in volume.users : pc'[w] = "create") => mark'[v] = 0
      BY <1>1, <1>3, <1>5, <1>6, <1>7, <2>2 DEF Safe
    <2>4. ASSUME NEW w \in volume.users \ {v}, Busy(w)', job'[w].at \in DOMAIN Records
          PROVE  ~ Mine(v, job'[w].at)
      <3>1. CASE w # u
        BY <1>1, <1>5, <1>6, <2>4, <3>1 DEF Safe, Busy
      <3>2. CASE w = u
        BY <1>1, <1>7, <2>4, <3>2 DEF Safe, Busy
      <3>3. QED
        BY <3>1, <3>2
    <2>5. QED
      BY <2>1, <2>3, <2>4
  <1>11. QED
    BY <1>8, <1>9, <1>10 DEF IInv

\* The file is made, or emptied.  Those who are not exposed have nothing in it.
LEMMA CreateStep ==
    ASSUME IInv, NEW u \in volume.users, UNCHANGED volume, Create(u)
    PROVE  IInv'
  <1>1. Typed /\ Placed /\ Safe /\ u \in User /\ volume.users \subseteq User
    BY UserFacts DEF IInv
  <1>2. /\ pc[u] = "create" /\ file' = <<>> /\ pc' = [pc EXCEPT ![u] = "put"]
        /\ UNCHANGED <<volume, job, mark, exposed>>
    BY DEF Create, Goto
  <1>3. Records' = <<>> /\ DOMAIN Records' = {}
    BY <1>2 DEF Records
  <1>4. Typed'
    BY <1>1, <1>2 DEF Typed, Steps
  <1>5. Placed'
    BY <1>1, <1>2, <1>3 DEF Placed, Busy, Typed, Format, Number
  <1>6. Safe'
    <2> SUFFICES ASSUME NEW v \in volume.users \ exposed
                 PROVE  /\ GetLastRead(v)' = mark'[v]
                        /\ (\E w \in volume.users : pc'[w] = "create") => mark'[v] = 0
      BY <1>2, <1>3 DEF Safe
    <2>1. mark[v] = 0
      BY <1>1, <1>2 DEF Safe
    <2>2. GetLastRead(v)' = 0
      BY <1>3, <1>4, <1>5, <1>2, ReadsOwnNext
    <2>3. QED
      BY <1>2, <2>1, <2>2
  <1>7. QED
    BY <1>4, <1>5, <1>6 DEF IInv

\* What is written: the user's own record, its HighReadMsg not behind.
LEMMA WrittenFacts ==
    ASSUME Typed, Placed, NEW u \in volume.users, Busy(u)
    PROVE  /\ Written(u) \in Record
           /\ Written(u).last = job[u].uid
           /\ Format = "Jam" => Written(u).crc = Crc[u] /\ job[u].high <= Written(u).high
           /\ Format # "Jam" => Written(u).crc = NoCrc
  <1>1. u \in User /\ job[u] \in [uid : 0 .. MaxUid, at : Nat, high : Nat]
        /\ job[u].uid \in Nat /\ job[u].high \in Nat
    BY UserFacts, WidthAssumption DEF Typed
  <1>2. CASE Format = "Jam"
    <2>1. HighOf(job[u].high, job[u].uid) \in Nat
          /\ job[u].high <= HighOf(job[u].high, job[u].uid)
      BY <1>1 DEF HighOf
    <2>2. Written(u) = [crc |-> Crc[u], last |-> job[u].uid,
                        high |-> HighOf(job[u].high, job[u].uid)]
      BY <1>2 DEF Written
    <2>3. QED
      BY <1>1, <1>2, <2>1, <2>2, UserFacts DEF Record
  <1>3. CASE Format = "Opus"
    <2>1. job[u].uid <= WordMax
      BY <1>3 DEF Placed
    <2>2. job[u].uid % (WordMax + 1) = job[u].uid
      BY <1>1, <2>1, WidthAssumption
    <2>3. Written(u) = [Blank EXCEPT !.last = job[u].uid]
      BY <1>3, <2>2 DEF Written
    <2>4. QED
      BY <1>1, <1>3, <2>3 DEF Blank, Record
  <1>4. CASE Format \notin {"Jam", "Opus"}
    <2>1. Written(u) = [Blank EXCEPT !.last = job[u].uid]
      BY <1>4 DEF Written
    <2>2. QED
      BY <1>1, <1>4, <2>1 DEF Blank, Record
  <1>5. QED
    BY <1>2, <1>3, <1>4

\* What a write does to the records: the writer's is the one put, everybody
\* else's is as it was unless it stood there.
LEMMA PutFacts ==
    ASSUME Typed, Placed, NEW u \in volume.users, UNCHANGED volume, Put(u)
    PROVE  LET at == job[u].at IN
           /\ Busy(u) /\ u \in User /\ at \in Nat \ {0}
           /\ file' \in Seq(Record) /\ Records' = file'
           /\ pc' = [pc EXCEPT ![u] = "idle"] /\ job' = [job EXCEPT ![u] = NoJob]
           /\ mark' = [mark EXCEPT ![u] = job[u].uid]
           /\ Format' = Format /\ Number' = Number /\ Crc' = Crc
           /\ DOMAIN Records \subseteq DOMAIN Records' /\ at \in DOMAIN Records'
           /\ Records'[at] = Written(u)
           /\ \A i \in DOMAIN Records \ {at} : Records'[i] = Records[i]
           /\ \A i \in DOMAIN Records' \ (DOMAIN Records \cup {at}) : Records'[i] = Blank
  <1>1. u \in User /\ pc[u] = "put" /\ Busy(u)
    BY UserFacts DEF Put, Busy
  <1>2. job[u].at \in Nat \ {0}
    BY <1>1 DEF Typed, Placed
  <1>3. Records \in Seq(Record) /\ Written(u) \in Record
    BY <1>1, RecordsTyped, WrittenFacts
  <1>4. file' = PutAt(Records, job[u].at, Written(u))
    BY DEF Put
  <1>5. /\ file' \in Seq(Record)
        /\ DOMAIN Records \subseteq DOMAIN file' /\ job[u].at \in DOMAIN file'
        /\ file'[job[u].at] = Written(u)
        /\ \A i \in DOMAIN Records \ {job[u].at} : file'[i] = Records[i]
        /\ \A i \in DOMAIN file' \ (DOMAIN Records \cup {job[u].at}) : file'[i] = Blank
    <2> DEFINE at == job[u].at
               n == Max({at, Len(Records)})
    <2>1. Len(Records) \in Nat /\ DOMAIN Records = 1 .. Len(Records)
          /\ \A i \in DOMAIN Records : Records[i] \in Record
      BY <1>3
    <2>2. n \in Nat /\ at <= n /\ Len(Records) <= n
      <3>1. \E x \in {at, Len(Records)} : \A y \in {at, Len(Records)} : x >= y
        <4>1. CASE at >= Len(Records)
          BY <1>2, <2>1, <4>1
        <4>2. CASE ~ (at >= Len(Records))
          BY <1>2, <2>1, <4>2
        <4>3. QED
          BY <4>1, <4>2
      <3>2. n \in {at, Len(Records)} /\ \A y \in {at, Len(Records)} : n >= y
        BY <3>1 DEF Max
      <3>3. QED
        BY <1>2, <2>1, <3>2
    <2>3. Blank \in Record
      BY DEF Blank, Record
    <2>4. file' = [i \in 1 .. n |-> IF i = at THEN Written(u)
                                    ELSE IF i \in DOMAIN Records THEN Records[i] ELSE Blank]
      BY <1>4 DEF PutAt
    <2>5. at \in Nat \ {0}
      BY <1>2
    <2> HIDE DEF at, n
    <2>6. file' \in Seq(Record) /\ DOMAIN file' = 1 .. n
      BY <1>3, <2>1, <2>2, <2>3, <2>4
    <2>7. /\ DOMAIN Records \subseteq DOMAIN file' /\ at \in DOMAIN file'
          /\ file'[at] = Written(u)
          /\ \A i \in DOMAIN Records \ {at} : file'[i] = Records[i]
          /\ \A i \in DOMAIN file' \ (DOMAIN Records \cup {at}) : file'[i] = Blank
      BY <2>1, <2>2, <2>4, <2>5, <2>6
    <2>8. QED
      BY <2>6, <2>7 DEF at
  <1>6. Records' = file'
    <2>1. file' # NoFile
      BY <1>5, NoFileAssumption
    <2>2. QED
      BY <2>1 DEF Records
  <1>7. QED
    BY <1>1, <1>2, <1>5, <1>6 DEF Put, Goto, Format, Number, Crc

LEMMA PutStep ==
    ASSUME IInv, NEW u \in volume.users, UNCHANGED volume, Put(u)
    PROVE  IInv'
  <1> DEFINE at == job[u].at
  <1>1. Typed /\ Placed /\ Safe /\ volume.users \subseteq User
    BY UserFacts DEF IInv
  <1>2. /\ Busy(u) /\ u \in User /\ at \in Nat \ {0}
        /\ file' \in Seq(Record) /\ Records' = file'
        /\ pc' = [pc EXCEPT ![u] = "idle"] /\ job' = [job EXCEPT ![u] = NoJob]
        /\ mark' = [mark EXCEPT ![u] = job[u].uid]
        /\ Format' = Format /\ Number' = Number /\ Crc' = Crc
        /\ DOMAIN Records \subseteq DOMAIN Records' /\ at \in DOMAIN Records'
        /\ Records'[at] = Written(u)
        /\ \A i \in DOMAIN Records \ {at} : Records'[i] = Records[i]
        /\ \A i \in DOMAIN Records' \ (DOMAIN Records \cup {at}) : Records'[i] = Blank
    BY <1>1, PutFacts
  <1>3. /\ Written(u).last = job[u].uid /\ job[u].uid \in 0 .. MaxUid
        /\ Format = "Jam" => Written(u).crc = Crc[u]
        /\ Format # "Jam" => at = Number[u] + 1
    BY <1>1, <1>2, WrittenFacts DEF Typed, Placed
  <1> HIDE DEF at
  \* Whose record is where, afterwards.
  <1>4. \A i \in DOMAIN Records' : Mine(u, i)' <=> i = at
    <2>1. CASE Format = "Jam"
      <3>1. \A i \in DOMAIN Records : Mine(u, i) => i = at
        BY <1>1, <1>2 DEF Placed, at
      <3>2. Blank.crc = NoCrc /\ Crc[u] # NoCrc
        BY <1>1, UserFacts DEF Blank
      <3>3. QED
        BY <1>2, <1>3, <2>1, <3>1, <3>2 DEF Mine
    <2>2. CASE Format # "Jam"
      BY <1>2, <1>3, <2>2 DEF Mine
    <2>3. QED
      BY <2>1, <2>2
  <1>5. ASSUME NEW v \in volume.users \ {u}, NEW i \in DOMAIN Records', Mine(v, i)'
        PROVE  /\ i # at
               /\ i \in DOMAIN Records => Mine(v, i) /\ Records'[i] = Records[i]
               /\ i \notin DOMAIN Records => Format # "Jam" /\ Records'[i] = Blank
    <2>1. Format = "Jam" => Crc[v] # Crc[u] /\ Crc[v] # NoCrc
      BY <1>1, UsersApart
    <2>2. Format # "Jam" => Number[v] # Number[u] /\ Number[v] \in Nat /\ Number[u] \in Nat
      BY <1>1, UsersApart, UserFacts
    <2>3. Blank.crc = NoCrc
      BY DEF Blank
    <2>4. CASE Format = "Jam"
      BY <1>2, <1>3, <1>5, <2>1, <2>3, <2>4 DEF Mine
    <2>5. CASE Format # "Jam"
      BY <1>2, <1>3, <1>5, <2>2, <2>5 DEF Mine
    <2>6. QED
      BY <2>4, <2>5
  <1>6. ASSUME NEW v \in volume.users \ {u}, NEW i \in DOMAIN Records, Mine(v, i), i # at
        PROVE  i \in DOMAIN Records' /\ Mine(v, i)' /\ Records'[i] = Records[i]
    BY <1>2, <1>6 DEF Mine
  <1>7. Typed'
    <2>1. NoJob \in [uid : 0 .. MaxUid, at : Nat, high : Nat]
      BY WidthAssumption DEF NoJob
    <2>2. exposed' \subseteq User
      BY <1>1, <1>2 DEF Put, Typed
    <2>3. QED
      BY <1>1, <1>2, <1>3, <2>1, <2>2 DEF Typed, Steps
  <1>8. \A v \in volume.users \ {u} : pc'[v] = pc[v] /\ job'[v] = job[v]
    BY <1>1, <1>2 DEF Typed
  <1>9. Placed'
    <2>1. ASSUME NEW v \in volume.users, NEW i \in DOMAIN Records', NEW j \in DOMAIN Records',
                 Mine(v, i)', Mine(v, j)'
          PROVE  i = j
      <3>1. CASE v = u
        BY <1>4, <2>1, <3>1
      <3>2. CASE v # u /\ Format # "Jam"
        BY <1>2, <2>1, <3>2 DEF Mine
      <3>3. CASE v # u /\ Format = "Jam"
        BY <1>1, <1>5, <2>1, <3>3 DEF Placed
      <3>4. QED
        BY <3>1, <3>2, <3>3
    <2>2. ASSUME NEW v \in volume.users, pc'[v] = "end"
          PROVE  Format = "Jam" /\ \A i \in DOMAIN Records' : ~ Mine(v, i)'
      <3>1. v # u /\ pc[v] = "end"
        BY <1>1, <1>2, <1>8, <2>2 DEF Typed
      <3>2. QED
        BY <1>1, <1>5, <3>1 DEF Placed
    <2>3. ASSUME NEW v \in volume.users, Busy(v)'
          PROVE  /\ job'[v].at # 0
                 /\ Format # "Jam" => job'[v].at = Number[v] + 1
                 /\ Format = "Opus" => job'[v].uid <= WordMax
                 /\ \A i \in DOMAIN Records' : Mine(v, i)' => i = job'[v].at
                 /\ Format = "Jam" =>
                       \A i \in DOMAIN Records' : Mine(v, i)' => Records'[i].high <= job'[v].high
      <3>1. v # u /\ Busy(v) /\ job'[v] = job[v]
        BY <1>1, <1>2, <1>8, <2>3 DEF Busy, Typed
      <3>2. \A i \in DOMAIN Records' : Mine(v, i)' /\ Format = "Jam" =>
                 i \in DOMAIN Records /\ Mine(v, i) /\ Records'[i] = Records[i]
        BY <1>5, <3>1
      <3>3. \A i \in DOMAIN Records' : Mine(v, i)' /\ Format # "Jam" => i = Number[v] + 1
        BY <1>2 DEF Mine
      <3>4. QED
        BY <1>1, <3>1, <3>2, <3>3 DEF Placed
    <2>4. QED
      BY <1>2, <2>1, <2>2, <2>3 DEF Placed
  <1>10. Safe'
    <2> SUFFICES ASSUME NEW v \in volume.users \ exposed'
                 PROVE  /\ GetLastRead(v)' = mark'[v]
                        /\ (\E w \in volume.users : pc'[w] = "create") => mark'[v] = 0
                        /\ \A w \in volume.users \ {v}, i \in DOMAIN Records' :
                              Busy(w)' /\ i = job'[w].at => ~ Mine(v, i)'
      BY DEF Safe, Mine
    <2>1. CASE v = u
      <3>1. Racing(u) = {}
        BY <1>1, <1>2, <2>1 DEF Put
      <3>2. \A w \in volume.users \ {u} :
               pc[w] # "create" /\ (pc[w] \in {"open", "put"} => job[w].at # at)
        BY <3>1 DEF Racing, at
      <3>3. GetLastRead(u)' = mark'[u]
        <4>1. \A i \in DOMAIN Records' : i = at => GetLastRead(u)' = Shown(Records[i].last)'
          BY <1>2, <1>4, <1>7, <1>9, ReadsOwnNext
        <4>2. job[u].uid # Cleared
          BY <1>3, WidthAssumption DEF Cleared
        <4>3. \A i \in DOMAIN Records' : i = at => Shown(Records[i].last)' = job[u].uid
          BY <1>2, <1>3, <4>2 DEF Shown, Cleared
        <4>4. QED
          BY <1>1, <1>2, <4>1, <4>3 DEF Typed
      <3>4. \A w \in volume.users : pc'[w] # "create"
        BY <1>1, <1>2, <1>8, <3>2 DEF Typed
      <3>5. ASSUME NEW w \in volume.users \ {u}, NEW i \in DOMAIN Records',
                   Busy(w)', i = job'[w].at
            PROVE  ~ Mine(u, i)'
        <4>1. pc[w] \in {"open", "create", "put"} /\ job[w].at = i
          BY <1>8, <3>5 DEF Busy
        <4>2. QED
          BY <1>4, <3>2, <3>5, <4>1
      <3>6. QED
        BY <2>1, <3>3, <3>4, <3>5
    <2>2. CASE v # u
      <3>1. /\ v \in volume.users \ {u} /\ v \notin exposed /\ mark'[v] = mark[v]
            /\ GetLastRead(v) = mark[v]
        BY <1>1, <1>2, <2>2 DEF Put, Safe, Typed
      <3>2. at \in DOMAIN Records => ~ Mine(v, at)
        BY <1>1, <1>2, <3>1 DEF Safe, at
      <3>3. GetLastRead(v)' = GetLastRead(v)
        <4>1. ASSUME NEW i \in DOMAIN Records', Mine(v, i)', i \in DOMAIN Records
              PROVE  GetLastRead(v)' = GetLastRead(v)
          <5>1. Mine(v, i) /\ Records'[i] = Records[i]
            BY <1>5, <3>1, <4>1
          <5>2. GetLastRead(v) = Shown(Records[i].last)
            BY <1>1, <4>1, <5>1, ReadsOwn
          <5>3. GetLastRead(v)' = Shown(Records[i].last)'
            BY <1>2, <1>7, <1>9, <4>1, ReadsOwnNext
          <5>4. QED
            BY <5>1, <5>2, <5>3 DEF Shown, Cleared
        <4>2. ASSUME NEW i \in DOMAIN Records', Mine(v, i)', i \notin DOMAIN Records
              PROVE  GetLastRead(v)' = GetLastRead(v)
          <5>1. Format # "Jam" /\ Records'[i] = Blank
            BY <1>5, <3>1, <4>2
          <5>2. \A j \in DOMAIN Records : ~ Mine(v, j)
            BY <1>2, <4>2, <5>1 DEF Mine
          <5>3. GetLastRead(v) = 0
            BY <1>1, <5>2, ReadsOwn
          <5>4. GetLastRead(v)' = Shown(Records[i].last)'
            BY <1>2, <1>7, <1>9, <4>2, ReadsOwnNext
          <5>5. QED
            BY <5>1, <5>3, <5>4 DEF Shown, Cleared, Blank
        <4>3. ASSUME \A i \in DOMAIN Records' : ~ Mine(v, i)'
              PROVE  GetLastRead(v)' = GetLastRead(v)
          <5>1. \A i \in DOMAIN Records : ~ Mine(v, i)
            BY <1>6, <3>1, <3>2, <4>3
          <5>2. GetLastRead(v) = 0
            BY <1>1, <5>1, ReadsOwn
          <5>3. GetLastRead(v)' = 0
            BY <1>2, <1>7, <1>9, <4>3, ReadsOwnNext
          <5>4. QED
            BY <5>2, <5>3
        <4>4. QED
          BY <4>1, <4>2, <4>3
      <3>4. (\E w \in volume.users : pc'[w] = "create") => mark'[v] = 0
        BY <1>1, <1>2, <1>8, <3>1 DEF Safe, Typed
      <3>5. ASSUME NEW w \in volume.users \ {v}, NEW i \in DOMAIN Records',
                   Busy(w)', i = job'[w].at
            PROVE  ~ Mine(v, i)'
        <4>1. w # u /\ Busy(w) /\ job[w].at = i
          BY <1>1, <1>2, <1>8, <3>5 DEF Busy, Typed
        <4>2. i \in DOMAIN Records => ~ Mine(v, i)
          BY <1>1, <3>1, <3>5, <4>1 DEF Safe
        <4>3. CASE i \in DOMAIN Records
          BY <1>5, <3>1, <3>5, <4>2, <4>3
        <4>4. CASE i \notin DOMAIN Records /\ Format # "Jam"
          <5>1. i = Number[w] + 1
            BY <1>1, <4>1, <4>4 DEF Placed
          <5>2. Number[w] # Number[v] /\ Number[w] \in Nat /\ Number[v] \in Nat
            BY <1>1, <3>1, <4>4, UsersApart, UserFacts
          <5>3. QED
            BY <1>2, <4>4, <5>1, <5>2 DEF Mine
        <4>5. CASE i \notin DOMAIN Records /\ Format = "Jam"
          BY <1>5, <3>1, <3>5, <4>5
        <4>6. QED
          BY <4>3, <4>4, <4>5
      <3>6. QED
        BY <3>1, <3>3, <3>4, <3>5
    <2>3. QED
      BY <2>1, <2>2
  <1>11. QED
    BY <1>7, <1>9, <1>10 DEF IInv

\* Every step keeps the invariant.
LEMMA NextInvariant == IInv /\ [Next]_vars => IInv'
  <1> SUFFICES ASSUME IInv, [Next]_vars
               PROVE  IInv'
    OBVIOUS
  <1>1. ASSUME NEW u \in volume.users, UNCHANGED volume,
               \/ SetLastRead(u) \/ AtTheEnd(u) \/ OpenKeeping(u) \/ GiveUp(u)
        PROVE  IInv'
    BY <1>1, QuietStep
  <1>2. ASSUME NEW u \in volume.users, UNCHANGED volume, Create(u)
        PROVE  IInv'
    BY <1>2, CreateStep
  <1>3. ASSUME NEW u \in volume.users, UNCHANGED volume, Put(u)
        PROVE  IInv'
    BY <1>3, PutStep
  <1>4. CASE UNCHANGED vars
    <2>1. UNCHANGED <<volume, file, pc, job, mark, exposed, Records, Format, Number, Crc>>
      BY <1>4 DEF vars, Records, Format, Number, Crc
    <2>2. \A u : GetLastRead(u)' = GetLastRead(u)
      BY <2>1 DEF GetLastRead, FindRecord
    <2>3. Typed'
      BY <2>1 DEF IInv, Typed
    <2>4. Placed'
      BY <2>1 DEF IInv, Placed, Busy, Mine
    <2>5. Safe'
      BY <2>1, <2>2 DEF IInv, Safe, Busy, Mine
    <2>6. QED
      BY <2>3, <2>4, <2>5 DEF IInv
  <1>5. QED
    BY <1>1, <1>2, <1>3, <1>4 DEF Next

\* In every state a user has one record at the most, and a writer writes where
\* it is.
THEOREM InvariantHolds == Spec => []IInv
  <1>1. QED
    BY InitInvariant, NextInvariant, PTL DEF Spec

\* However many processes write their marks at once, in whatever area, a mark
\* on the disk is what its user reads, unless it was written while another
\* process was about to make the file or to write in the same place.
THEOREM MarksAreKept == Spec => []MarkKept
  <1>1. IInv => MarkKept
    BY DEF IInv, Safe, MarkKept
  <1>2. QED
    BY <1>1, InvariantHolds, PTL

\* A write never takes the HighReadMsg of its user's record back.
LEMMA HighForwardStep ==
    ASSUME IInv, [Next]_vars, NEW i \in DOMAIN Records \cap DOMAIN Records',
           Records[i].crc # NoCrc, Records'[i].crc = Records[i].crc
    PROVE  Records[i].high <= Records'[i].high
  <1>1. Records[i].high \in Nat
    <2>1. Records[i] \in Record
      BY RecordsTyped DEF IInv
    <2>2. QED
      BY <2>1 DEF Record
  <1>2. CASE Records' = Records
    BY <1>1, <1>2
  <1>3. ASSUME NEW u \in volume.users, Create(u)
        PROVE  FALSE
    BY <1>3 DEF Create, Records
  <1>4. ASSUME NEW u \in volume.users, UNCHANGED volume, Put(u)
        PROVE  Records[i].high <= Records'[i].high
    <2> DEFINE at == job[u].at
    <2>1. Typed /\ Placed /\ Busy(u) /\ u \in User
          /\ Records'[at] = Written(u)
          /\ \A j \in DOMAIN Records \ {at} : Records'[j] = Records[j]
      BY <1>4, PutFacts DEF IInv
    <2> HIDE DEF at
    <2>2. CASE i # at
      BY <1>1, <2>1, <2>2
    <2>3. CASE i = at
      <3>1. /\ Written(u).high \in Nat /\ job[u].high \in Nat
            /\ Format = "Jam" => Written(u).crc = Crc[u] /\ job[u].high <= Written(u).high
            /\ Format # "Jam" => Written(u).crc = NoCrc
        BY <2>1, WrittenFacts DEF Typed, Record
      <3>2. Format = "Jam" /\ Mine(u, i)
        BY <2>1, <2>3, <3>1 DEF Mine
      <3>3. Records[i].high <= job[u].high
        BY <2>1, <3>2 DEF Placed
      <3>4. QED
        BY <1>1, <2>1, <2>3, <3>1, <3>2, <3>3
    <2>4. QED
      BY <2>2, <2>3
  <1>5. QED
    <2>1. CASE UNCHANGED vars
      BY <1>2, <2>1 DEF vars, Records
    <2>2. ASSUME NEW u \in volume.users,
                 \/ SetLastRead(u) \/ AtTheEnd(u) \/ OpenKeeping(u) \/ GiveUp(u)
          PROVE  Records' = Records
      BY <2>2 DEF SetLastRead, SetArray, SetJam, AtTheEnd, OpenKeeping, GiveUp, Records
    <2>3. QED
      BY <1>2, <1>3, <1>4, <2>1, <2>2 DEF Next

\* As long as a .jlr record is the same user's, its HighReadMsg never goes
\* back, whoever else writes in the file meanwhile.
THEOREM HighNeverBack == Spec => HighOnlyForward
  <1>1. IInv /\ [Next]_vars =>
           [\A i \in DOMAIN Records \cap DOMAIN Records' :
               Records[i].crc # NoCrc /\ Records'[i].crc = Records[i].crc
                   => Records[i].high <= Records'[i].high]_vars
    BY HighForwardStep
  <1>2. QED
    BY <1>1, InvariantHolds, PTL DEF Spec, HighOnlyForward
=============================================================================
