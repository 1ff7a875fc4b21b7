------------------------------ MODULE OpusBase ------------------------------
(***************************************************************************)
(* The Opus-style *.msg base (msgbase/opus_base.cpp): a directory in which *)
(* message N is the file N.msg.  There is no base file and no lock over    *)
(* it.  A new message is kept apart from another by exclusive creation, a  *)
(* message written again by a lock on its own file, and a removal by       *)
(* nothing at all; numbers_, the listing a process works from, is as old   *)
(* as its last scan().                                                     *)
(*                                                                         *)
(* Each call into the file system is a step.  A file that has lost its     *)
(* name lives on for whoever has it open, and its number can be given to   *)
(* another; so files have an identity of their own here, in the order      *)
(* they were made.                                                         *)
(***************************************************************************)
EXTENDS Naturals, Sequences, FiniteSetsExt

CONSTANTS
    Proc,        \* the processes that share the area
    Text,        \* what a message can say
    Calls,       \* the calls each makes: "write", "remove", "replace", and the
                 \* marks "seen", the read count, and "rcvd", MSGREAD
    Echo,        \* an echo area, where 1.msg is not a message
    kAttempts,   \* appendOne()'s attempts at a number (8 in the code)
    MaxNumber,   \* bound: the highest message number
    MaxFile,     \* bound: files ever made
    MaxSet,      \* bound: drafts in one writeAll()
    MaxFaults,   \* bound: refused writes and deaths, together
    NoProc,      \* the lock of a file nobody has locked
    NoText       \* a header or a body not yet written

ASSUME BoundsAssumption ==
    /\ kAttempts \in Nat \ {0}
    /\ MaxNumber \in Nat /\ MaxFile \in Nat /\ MaxSet \in Nat
ASSUME MarkerAssumption == NoProc \notin Proc /\ NoText \notin Text

VARIABLES
    dir,       \* the directory: the file each number names, 0 for none
    file,      \* what each file holds
    made,      \* how many files were ever made
    locked,    \* who holds the lock of each file
    pc,        \* where each process is in a call
    numbers,   \* per process, numbers_: the i-th smallest is message i
    job,       \* per process, the call's own variables
    faults     \* what has gone wrong so far, to bound it

disk == <<dir, file, made, locked>>
vars == <<disk, pc, numbers, job, faults>>

Number == 1 .. MaxNumber
File == 1 .. MaxFile
Header == [text : Text \cup {NoText}, seen : BOOLEAN, rcvd : BOOLEAN]
NoHeader == [text |-> NoText, seen |-> FALSE, rcvd |-> FALSE]
Content == [head : Header, body : Text \cup {NoText}]
EmptyFile == [head |-> NoHeader, body |-> NoText]

\* number and id: the file in hand, its name and its identity; was: the header
\* read under the lock; rest: the drafts still to write; targets: the numbers
\* still to remove; mine: the files this writeAll() has finished, in order.
NoJob == [kind |-> "none", number |-> 0, id |-> 0, was |-> NoHeader,
          rest |-> <<>>, targets |-> {}, attempt |-> 0, mine |-> <<>>]

Kind == {"none", "write", "remove", "replace", "seen", "rcvd"}
Job == [kind : Kind, number : 0 .. MaxNumber, id : 0 .. MaxFile,
        was : Header, rest : Seq(Text), targets : SUBSET Number,
        attempt : 0 .. kAttempts - 1, mine : Seq(File)]

PC == {"closed", "open", "create", "rescan", "head", "body", "cleanup",
       "opening", "locking", "reading", "rehead", "rebody", "patch", "unlink"}

Appending == {"head", "body", "cleanup"}
Holding == {"reading", "rehead", "rebody", "patch"}
-----------------------------------------------------------------------------
Init ==
    /\ dir = [n \in Number |-> 0]
    /\ file = [f \in File |-> EmptyFile]
    /\ made = 0
    /\ locked = [f \in File |-> NoProc]
    /\ pc = [p \in Proc |-> "closed"]
    /\ numbers = [p \in Proc |-> {}]
    /\ job = [p \in Proc |-> NoJob]
    /\ faults = 0

At(p, here) == pc[p] = here
Goto(p, there) == pc' = [pc EXCEPT ![p] = there]

\* p closes or unlinks the file f, which leaves the names of d: what it held
\* is gone with its last name and the last process that has it open.
Closed(fs, d, p, f) ==
    IF /\ f # 0
       /\ \A n \in Number : d[n] # f
       /\ \A q \in Proc \ {p} : job[q].id # f
    THEN [fs EXCEPT ![f] = EmptyFile]
    ELSE fs

\* scan(): the numbers in the directory.
Listing == {n \in Number : dir[n] # 0}
Scan(p) == numbers' = [numbers EXCEPT ![p] = Listing]

Open(p) ==
    /\ At(p, "closed")
    /\ Scan(p)
    /\ Goto(p, "open")
    /\ UNCHANGED <<disk, job, faults>>

Close(p) ==
    /\ At(p, "open")
    /\ numbers' = [numbers EXCEPT ![p] = {}]
    /\ Goto(p, "closed")
    /\ UNCHANGED <<disk, job, faults>>
-----------------------------------------------------------------------------
(***************************************************************************)
(* writeAll(): the listing once, then appendOne() for each draft.          *)
(***************************************************************************)
WriteAll(p) ==
    \E drafts \in UNION {[1 .. k -> Text] : k \in 1 .. MaxSet} :
        /\ At(p, "open")
        /\ "write" \in Calls[p]
        /\ Scan(p)
        /\ job' = [job EXCEPT ![p] = [NoJob EXCEPT !.kind = "write",
                                                   !.rest = drafts]]
        /\ Goto(p, "create")
        /\ UNCHANGED <<disk, faults>>

\* Mutant: the first number that no file has, looked for in the directory.
FirstGap(p) ==
    Min({n \in (IF Echo THEN 2 ELSE 1) .. MaxNumber + 1 : n \notin Listing})

\* One past the last of the listing; the first of an echo area is 2.
NextNumber(p) ==
    LET number == 1 + Max({0} \cup numbers[p])
    IN  IF Echo /\ number = 1 THEN 2 ELSE number

\* There is room for a file under that number.
Room(n) == n \in Number /\ made < MaxFile

\* Mutant: the file is opened where it is there already, as without O_EXCL.
CreateOver(p) ==
    LET n == NextNumber(p)
        id == IF dir[n] # 0 THEN dir[n] ELSE made + 1
    IN  /\ At(p, "create")
        /\ Room(n)
        /\ made' = IF dir[n] # 0 THEN made ELSE made + 1
        /\ dir' = [dir EXCEPT ![n] = id]
        /\ file' = [file EXCEPT ![id] = EmptyFile]
        /\ job' = [job EXCEPT ![p].number = n, ![p].id = id]
        /\ Goto(p, "head")
        /\ UNCHANGED <<locked, numbers, faults>>

\* BinaryFile::create(): the file is made if nothing has its name.
Create(p) ==
    LET n == NextNumber(p)
    IN  /\ At(p, "create")
        /\ Room(n)
        /\ dir[n] = 0
        /\ made' = made + 1
        /\ dir' = [dir EXCEPT ![n] = made + 1]
        /\ file' = [file EXCEPT ![made + 1] = EmptyFile]
        /\ job' = [job EXCEPT ![p].number = n, ![p].id = made + 1]
        /\ Goto(p, "head")
        /\ UNCHANGED <<locked, numbers, faults>>

\* It is refused, somebody else having the number or there being no room.
Taken(p) ==
    /\ At(p, "create")
    /\ Room(NextNumber(p)) => dir[NextNumber(p)] # 0
    /\ Goto(p, "rescan")
    /\ UNCHANGED <<disk, numbers, job, faults>>

\* Mutant: the attempts are not counted.
RescanForEver(p) ==
    /\ At(p, "rescan")
    /\ Scan(p)
    /\ job' = [job EXCEPT ![p].attempt = @ + 1]
    /\ Goto(p, "create")
    /\ UNCHANGED <<disk, faults>>

\* The loser of the race lists the directory again, and gives up after
\* kAttempts of them.
Rescan(p) ==
    LET again == job[p].attempt + 1 < kAttempts
    IN  /\ At(p, "rescan")
        /\ Scan(p)
        /\ job' = [job EXCEPT ![p] =
                        IF again THEN [job[p] EXCEPT !.attempt = @ + 1]
                        ELSE NoJob]
        /\ Goto(p, IF again THEN "create" ELSE "open")
        /\ UNCHANGED <<disk, faults>>

PutHead(p) ==
    /\ At(p, "head")
    /\ file' = [file EXCEPT ![job[p].id].head =
                    [NoHeader EXCEPT !.text = Head(job[p].rest)]]
    /\ Goto(p, "body")
    /\ UNCHANGED <<dir, made, locked, numbers, job, faults>>

\* The body ends the message; the next draft, if there is one, begins.
PutBody(p) ==
    LET j == job[p]
        left == Tail(j.rest)
    IN  /\ At(p, "body")
        /\ file' = Closed([file EXCEPT ![j.id].body = Head(j.rest)],
                          dir, p, j.id)
        /\ numbers' = [numbers EXCEPT ![p] = @ \cup {j.number}]
        /\ job' = [job EXCEPT ![p] =
                        IF left = <<>> THEN NoJob
                        ELSE [NoJob EXCEPT !.kind = "write", !.rest = left,
                                           !.mine = Append(j.mine, j.id)]]
        /\ Goto(p, IF left = <<>> THEN "open" ELSE "create")
        /\ UNCHANGED <<dir, made, locked, faults>>

\* A write is refused: "half a message is worse than none", and the file of
\* that name is removed.
WriteFails(p) ==
    /\ pc[p] \in {"head", "body"}
    /\ faults < MaxFaults
    /\ faults' = faults + 1
    /\ Goto(p, "cleanup")
    /\ UNCHANGED <<disk, numbers, job>>

Cleanup(p) ==
    /\ At(p, "cleanup")
    /\ dir' = [dir EXCEPT ![job[p].number] = 0]
    /\ file' = Closed(file, dir', p, job[p].id)
    /\ job' = [job EXCEPT ![p] = NoJob]
    /\ Goto(p, "open")
    /\ UNCHANGED <<made, locked, numbers, faults>>
-----------------------------------------------------------------------------
(***************************************************************************)
(* replace(), markSeen() and markReceived(): a file opened by its name,    *)
(* and changed under its own lock.                                         *)
(***************************************************************************)
Change(p, kind, text) ==
    \E n \in numbers[p] :
        /\ At(p, "open")
        /\ kind \in Calls[p]
        /\ job' = [job EXCEPT ![p] = [NoJob EXCEPT !.kind = kind,
                                                   !.number = n,
                                                   !.rest = text]]
        /\ Goto(p, "opening")
        /\ UNCHANGED <<disk, numbers, faults>>

Replace(p) == \E text \in Text : Change(p, "replace", <<text>>)
Mark(p) == \E mark \in {"seen", "rcvd"} : Change(p, mark, <<>>)

\* The call returns with the file holding fs: its lock and its descriptor go.
Return(p, fs) ==
    /\ file' = Closed(fs, dir, p, job[p].id)
    /\ locked' = [f \in File |-> IF locked[f] = p THEN NoProc ELSE locked[f]]
    /\ job' = [job EXCEPT ![p] = NoJob]
    /\ Goto(p, "open")

OpenFile(p) ==
    LET id == dir[job[p].number]
    IN  /\ At(p, "opening")
        /\ IF id # 0
           THEN /\ job' = [job EXCEPT ![p].id = id]
                /\ Goto(p, "locking")
                /\ UNCHANGED <<file, locked>>
           ELSE Return(p, file)
        /\ UNCHANGED <<dir, made, numbers, faults>>

\* Mutant: the answer of acquire() is not looked at.
LockRegardless(p) ==
    /\ At(p, "locking")
    /\ locked' = [locked EXCEPT ![job[p].id] = p]
    /\ Goto(p, "reading")
    /\ UNCHANGED <<dir, file, made, numbers, job, faults>>

\* FileLock of the one file; busy() when every attempt met a holder.
Lock(p) ==
    /\ At(p, "locking")
    /\ locked[job[p].id] = NoProc
    /\ locked' = [locked EXCEPT ![job[p].id] = p]
    /\ Goto(p, "reading")
    /\ UNCHANGED <<dir, file, made, numbers, job, faults>>

Busy(p) ==
    /\ At(p, "locking")
    /\ locked[job[p].id] # NoProc
    /\ Return(p, file)
    /\ UNCHANGED <<dir, made, numbers, faults>>

\* The header as it is under the lock.  One that is not there yet cannot be
\* read, and a mark already made is left.
ReadHeader(p) ==
    LET j == job[p]
        was == file[j.id].head
        done == was.text = NoText \/ (j.kind = "seen" /\ was.seen)
                                  \/ (j.kind = "rcvd" /\ was.rcvd)
    IN  /\ At(p, "reading")
        /\ IF done THEN Return(p, file)
           ELSE /\ job' = [job EXCEPT ![p].was = was]
                /\ Goto(p, IF j.kind = "replace" THEN "rehead" ELSE "patch")
                /\ UNCHANGED <<file, locked>>
        /\ UNCHANGED <<dir, made, numbers, faults>>

\* replace() writes the draft's header, but for how often it was read.
PutHeader(p) ==
    LET j == job[p]
    IN  /\ At(p, "rehead")
        /\ file' = [file EXCEPT ![j.id].head =
                        [text |-> Head(j.rest), seen |-> j.was.seen,
                         rcvd |-> FALSE]]
        /\ Goto(p, "rebody")
        /\ UNCHANGED <<dir, made, locked, numbers, job, faults>>

\* Then the body; what the old one had beyond it is cut off, past the NUL a
\* reader stops at.
PutText(p) ==
    LET j == job[p]
    IN  /\ At(p, "rebody")
        /\ Return(p, [file EXCEPT ![j.id].body = Head(j.rest)])
        /\ UNCHANGED <<dir, made, numbers, faults>>

\* A mark: the one word of the header it stands in.
Patch(p) ==
    LET j == job[p]
    IN  /\ At(p, "patch")
        /\ Return(p, [file EXCEPT ![j.id].head =
                        IF j.kind = "seen" THEN [@ EXCEPT !.seen = TRUE]
                                           ELSE [@ EXCEPT !.rcvd = TRUE]])
        /\ UNCHANGED <<dir, made, numbers, faults>>
-----------------------------------------------------------------------------
(***************************************************************************)
(* removeAll(): file by file, by name, up to the first that will not go.   *)
(***************************************************************************)
RemoveAll(p) ==
    \E S \in (SUBSET numbers[p]) \ {{}} :
        /\ At(p, "open")
        /\ "remove" \in Calls[p]
        /\ job' = [job EXCEPT ![p] = [NoJob EXCEPT !.kind = "remove",
                                                   !.targets = S]]
        /\ Goto(p, "unlink")
        /\ UNCHANGED <<disk, numbers, faults>>

Unlink(p) ==
    LET n == Min(job[p].targets)
        left == job[p].targets \ {n}
        gone == dir[n] # 0
    IN  /\ At(p, "unlink")
        /\ dir' = [dir EXCEPT ![n] = 0]
        /\ file' = Closed(file, dir', p, dir[n])
        /\ numbers' = [numbers EXCEPT ![p] = IF gone THEN @ \ {n} ELSE @]
        /\ job' = [job EXCEPT ![p] = IF gone /\ left # {}
                                     THEN [@ EXCEPT !.targets = left]
                                     ELSE NoJob]
        /\ Goto(p, IF gone /\ left # {} THEN "unlink" ELSE "open")
        /\ UNCHANGED <<made, locked, faults>>
-----------------------------------------------------------------------------
\* The process dies in the middle of an append; what it made stays.
Die(p) ==
    /\ pc[p] \in Appending
    /\ faults < MaxFaults
    /\ faults' = faults + 1
    /\ file' = Closed(file, dir, p, job[p].id)
    /\ job' = [job EXCEPT ![p] = NoJob]
    /\ numbers' = [numbers EXCEPT ![p] = {}]
    /\ Goto(p, "closed")
    /\ UNCHANGED <<dir, made, locked>>

Step(p) ==
    \/ Open(p) \/ Close(p)
    \/ WriteAll(p) \/ Create(p) \/ Taken(p) \/ Rescan(p)
    \/ PutHead(p) \/ PutBody(p) \/ WriteFails(p) \/ Cleanup(p)
    \/ Replace(p) \/ Mark(p)
    \/ OpenFile(p) \/ Lock(p) \/ Busy(p) \/ ReadHeader(p)
    \/ PutHeader(p) \/ PutText(p) \/ Patch(p)
    \/ RemoveAll(p) \/ Unlink(p) \/ Die(p)

Next == \E p \in Proc : Step(p)

Spec == Init /\ [][Next]_vars
-----------------------------------------------------------------------------
TypeOK ==
    /\ dir \in [Number -> 0 .. made]
    /\ made \in 0 .. MaxFile
    /\ file \in [File -> Content]
    /\ locked \in [File -> Proc \cup {NoProc}]
    /\ pc \in [Proc -> PC]
    /\ numbers \in [Proc -> SUBSET Number]
    /\ job \in [Proc -> Job]
    /\ \A p \in Proc : job[p].id <= made

\* The files of a writeAll() under way, in the order of its drafts.
Made(p) ==
    IF pc[p] \in Appending THEN Append(job[p].mine, job[p].id) ELSE job[p].mine

\* opus_base.hpp: "two editors picking the same number cannot both have it".
\* No two drafts under way are in one file, whoever is writing them.
OneDraftOneFile ==
    \A p, q \in Proc : \A i \in DOMAIN Made(p), j \in DOMAIN Made(q) :
        Made(p)[i] = Made(q)[j] => p = q /\ i = j

\* The name of a file, if it still has one.
NameOf(f) == {n \in Number : dir[n] = f}

\* The comment in markSeen(): replace() may be rewriting the header meanwhile,
\* "including the word this patches".  So a mark that was made is not lost to
\* a replacement that began before it.
SeenStays ==
    [][\A f \in File : file[f].head.seen /\ NameOf(f)' # {} =>
                        file'[f].head.seen]_vars

\* format_driver.hpp on writeAll(): "The drafts go in in the order they are
\* given".  Whatever others remove and write meanwhile, those still there are
\* read in that order.
SetInOrder ==
    \A p \in Proc : \A i, j \in DOMAIN Made(p) :
        i < j => \A m \in NameOf(Made(p)[i]), n \in NameOf(Made(p)[j]) : m < n
=============================================================================
