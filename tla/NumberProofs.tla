---------------------------- MODULE NumberProofs ----------------------------
(***************************************************************************)
(* Messages that are named by a number while others come and go.  What     *)
(* OpusBase guarantees for every number of processes, texts, message       *)
(* numbers, drafts in a set, attempts and faults; and what a run of        *)
(* PassMessages keeps, for any number of messages, any set of them, chunks *)
(* of any size, and whenever a tosser appends and a packer takes out.      *)
(***************************************************************************)
EXTENDS OpusBase, PassMessages, WellFoundedInduction, TLAPS

(***************************************************************************)
(* The directory of numbered files                                         *)
(***************************************************************************)

\* A call is at a step of its own kind, and has the drafts that step writes.
KindOfCall ==
    \A p \in Proc :
        /\ pc[p] \in {"create", "rescan"} \cup Appending => job[p].kind = "write"
        /\ pc[p] \in {"rehead", "rebody"} => job[p].kind = "replace"
        /\ job[p].kind \in {"write", "replace"} => job[p].rest # <<>>

\* The file in hand, and those finished before it, are files that were made.
FilesInHand ==
    \A p \in Proc :
        /\ pc[p] \in {"locking"} \cup Appending \cup Holding => job[p].id # 0
        /\ pc[p] \in {"opening"} \cup Appending => job[p].number # 0
        /\ \A i \in DOMAIN job[p].mine : job[p].mine[i] \in 1 .. made

\* Every step's common ground.
Ground == TypeOK /\ KindOfCall /\ FilesInHand

\* What the assumptions on the bounds say of the sets made from them.
LEMMA BoundFacts ==
    /\ \A f \in 1 .. made : made \in 0 .. MaxFile => f \in File
    /\ NoJob \in Job
    /\ EmptyFile \in Content /\ NoHeader \in Header
    /\ 0 .. kAttempts - 1 \subseteq Nat
  BY BoundsAssumption DEF File, NoJob, Job, Kind, EmptyFile, Content, NoHeader, Header

\* The fields of NoJob, which need not be expanded then.
LEMMA NoJobFacts ==
    /\ NoJob \in Job
    /\ NoJob.kind = "none" /\ NoJob.id = 0 /\ NoJob.rest = <<>>
    /\ NoJob.attempt = 0 /\ NoJob.mine = <<>> /\ NoJob.targets = {}
  BY BoundFacts DEF NoJob

\* A file closed is as it was, or empty for want of a name and of an opener.
LEMMA ClosedFacts ==
    ASSUME NEW fs \in [File -> Content], NEW d, NEW p, NEW f
    PROVE  /\ Closed(fs, d, p, f) \in [File -> Content]
           /\ \A g \in File :
                \/ Closed(fs, d, p, f)[g] = fs[g]
                \/ /\ Closed(fs, d, p, f)[g] = EmptyFile
                   /\ g = f
                   /\ \A n \in Number : d[n] # g
                   /\ \A q \in Proc \ {p} : job[q].id # g
  BY BoundFacts DEF Closed

\* A step of p leaves the calls of the others where they are.
LEMMA OthersStay ==
    ASSUME TypeOK, NEW p \in Proc, Step(p), NEW q \in Proc, q # p
    PROVE  /\ pc'[q] = pc[q]
           /\ job'[q] = job[q]
           /\ numbers'[q] = numbers[q]
  <1>1. /\ pc \in [Proc -> PC] /\ job \in [Proc -> Job]
        /\ numbers \in [Proc -> SUBSET Number]
    BY DEF TypeOK
  <1>2. QED
    BY <1>1
    DEF Step, Open, Close, WriteAll, Create, Taken, Rescan, PutHead, PutBody,
        WriteFails, Cleanup, Replace, Mark, Change, OpenFile, Lock, Busy,
        ReadHeader, PutHeader, PutText, Patch, RemoveAll, Unlink, Die, Return,
        Scan, Goto
-----------------------------------------------------------------------------
LEMMA InitGround == Init => Ground
  BY BoundFacts, BoundsAssumption, MarkerAssumption
  DEF Init, Ground, TypeOK, KindOfCall, FilesInHand, PC, Appending, Holding,
      NoJob, File, Number

\* What a call may become: its step, its variables and the listing.
Fits(c, j, m) ==
    /\ c \in PC /\ j \in Job /\ j.id <= m
    /\ c \in {"create", "rescan"} \cup Appending => j.kind = "write"
    /\ c \in {"rehead", "rebody"} => j.kind = "replace"
    /\ j.kind \in {"write", "replace"} => j.rest # <<>>
    /\ c \in {"locking"} \cup Appending \cup Holding => j.id # 0
    /\ c \in {"opening"} \cup Appending => j.number # 0
    /\ \A i \in DOMAIN j.mine : j.mine[i] \in 1 .. m

\* Ground says of the calls no more than that each fits.
LEMMA GroundIsFit ==
    Ground <=> /\ dir \in [Number -> 0 .. made]
               /\ made \in 0 .. MaxFile
               /\ file \in [File -> Content]
               /\ locked \in [File -> Proc \cup {NoProc}]
               /\ pc \in [Proc -> PC]
               /\ numbers \in [Proc -> SUBSET Number]
               /\ job \in [Proc -> Job]
               /\ \A p \in Proc : Fits(pc[p], job[p], made)
  BY DEF Ground, TypeOK, KindOfCall, FilesInHand, Fits

\* It is enough to look at the call that takes the step.
LEMMA CallGround ==
    ASSUME Ground, NEW p \in Proc, NEW c, NEW j, NEW N \in SUBSET Number,
           pc' = [pc EXCEPT ![p] = c],
           job' = [job EXCEPT ![p] = j],
           numbers' = [numbers EXCEPT ![p] = N],
           dir' \in [Number -> 0 .. made'],
           made' \in 0 .. MaxFile, made <= made',
           file' \in [File -> Content],
           locked' \in [File -> Proc \cup {NoProc}],
           Fits(c, j, made')
    PROVE  Ground'
  <1>1. /\ pc \in [Proc -> PC] /\ job \in [Proc -> Job]
        /\ numbers \in [Proc -> SUBSET Number] /\ made \in 0 .. MaxFile
        /\ \A q \in Proc : Fits(pc[q], job[q], made)
    BY GroundIsFit
  <1>2. c \in PC /\ j \in Job
    BY DEF Fits
  <1>3. /\ pc' \in [Proc -> PC] /\ job' \in [Proc -> Job]
        /\ numbers' \in [Proc -> SUBSET Number]
        /\ made \in Nat /\ made' \in Nat
    BY <1>1, <1>2, BoundsAssumption
  <1>4. ASSUME NEW q \in Proc
        PROVE  Fits(pc'[q], job'[q], made')
    <2>1. CASE q = p
      BY <1>1, <2>1
    <2>2. CASE q # p
      <3>1. pc'[q] = pc[q] /\ job'[q] = job[q] /\ Fits(pc[q], job[q], made)
        BY <1>1, <2>2
      <3>2. job[q].id \in Nat
        BY <1>1, BoundsAssumption DEF Job
      <3>3. QED
        BY <1>3, <3>1, <3>2 DEF Fits
    <2>3. QED
      BY <2>1, <2>2
  <1>5. QED
    BY <1>3, <1>4, GroundIsFit DEF Ground, TypeOK, KindOfCall, FilesInHand, Fits

\* A call that ends leaves nothing in hand.
LEMMA NoJobFits ==
    ASSUME NEW m \in Nat, NEW c \in {"open", "closed"}
    PROVE  Fits(c, NoJob, m)
  BY BoundFacts, BoundsAssumption DEF Fits, NoJob, PC, Appending, Holding
\* Nor has a call that begins a file in hand yet.
LEMMA NewCallFits ==
    ASSUME NEW m \in Nat, NEW c \in {"create", "opening", "unlink"},
           NEW j \in Job, j.id = 0, j.mine = <<>>,
           c = "create" => j.kind = "write",
           c = "opening" => j.number # 0,
           j.kind \in {"write", "replace"} => j.rest # <<>>
    PROVE  Fits(c, j, m)
  BY DEF Fits, PC, Appending, Holding
-----------------------------------------------------------------------------
\* What a proof about one step starts from.
LEMMA GroundFacts ==
    ASSUME Ground, NEW p \in Proc
    PROVE  /\ dir \in [Number -> 0 .. made]
           /\ made \in 0 .. MaxFile /\ made \in Nat
           /\ file \in [File -> Content]
           /\ locked \in [File -> Proc \cup {NoProc}]
           /\ pc \in [Proc -> PC] /\ job \in [Proc -> Job]
           /\ numbers \in [Proc -> SUBSET Number]
           /\ numbers[p] \in SUBSET Number
           /\ Listing \in SUBSET Number
           /\ Fits(pc[p], job[p], made)
           /\ [job EXCEPT ![p] = job[p]] = job
           /\ [numbers EXCEPT ![p] = numbers[p]] = numbers
  BY GroundIsFit, BoundsAssumption DEF Listing

\* The variables of a call, and the file it has in hand.
LEMMA JobFacts ==
    ASSUME Ground, NEW p \in Proc
    PROVE  /\ job[p].kind \in Kind
           /\ job[p].number \in 0 .. MaxNumber
           /\ job[p].id \in 0 .. made /\ job[p].id \in 0 .. MaxFile
           /\ job[p].was \in Header
           /\ job[p].rest \in Seq(Text)
           /\ job[p].targets \in SUBSET Number
           /\ job[p].mine \in Seq(File)
           /\ \A i \in DOMAIN job[p].mine : job[p].mine[i] \in 1 .. made
           /\ pc[p] \in {"locking"} \cup Appending \cup Holding =>
                  job[p].id \in File /\ job[p].id \in 1 .. made
           /\ pc[p] \in {"opening"} \cup Appending => job[p].number \in Number
           /\ pc[p] \in {"create", "rescan", "rehead", "rebody"} \cup Appending =>
                  job[p].rest # <<>>
  <1>1. job[p] \in Job /\ Fits(pc[p], job[p], made) /\ made \in Nat
        /\ made \in 0 .. MaxFile
    BY GroundFacts
  <1>2. /\ job[p].kind \in Kind
        /\ job[p].number \in 0 .. MaxNumber
        /\ job[p].id \in 0 .. MaxFile
        /\ job[p].was \in Header
        /\ job[p].rest \in Seq(Text)
        /\ job[p].targets \in SUBSET Number
        /\ job[p].mine \in Seq(File)
    BY <1>1 DEF Job
  <1>3. MaxNumber \in Nat /\ MaxFile \in Nat
    BY BoundsAssumption
  <1>4. QED
    BY <1>1, <1>2, <1>3 DEF Fits, File, Number

\* A step that changes neither a file nor a name nor a lock.
LEMMA QuietGround ==
    ASSUME Ground, NEW p \in Proc, NEW c, NEW j, NEW N \in SUBSET Number,
           UNCHANGED disk,
           pc' = [pc EXCEPT ![p] = c],
           job' = [job EXCEPT ![p] = j],
           numbers' = [numbers EXCEPT ![p] = N],
           Fits(c, j, made)
    PROVE  Ground'
  <1>1. UNCHANGED <<dir, file, made, locked>>
    BY DEF disk
  <1>2. /\ dir' \in [Number -> 0 .. made']
        /\ made' \in 0 .. MaxFile /\ made <= made'
        /\ file' \in [File -> Content]
        /\ locked' \in [File -> Proc \cup {NoProc}]
        /\ Fits(c, j, made')
    BY <1>1, GroundFacts
  <1>3. QED
    BY <1>2, CallGround

LEMMA OpenGround == ASSUME Ground, NEW p \in Proc, Open(p) PROVE Ground'
  <1>1. Fits("open", job[p], made)
    BY GroundFacts DEF Open, Fits, PC, Appending, Holding
  <1>2. QED
    BY <1>1, GroundFacts, QuietGround DEF Open, Scan, Goto

LEMMA CloseGround == ASSUME Ground, NEW p \in Proc, Close(p) PROVE Ground'
  <1>1. Fits("closed", job[p], made)
    BY GroundFacts DEF Close, Fits, PC, Appending, Holding
  <1>2. /\ pc' = [pc EXCEPT ![p] = "closed"] /\ job' = [job EXCEPT ![p] = job[p]]
        /\ numbers' = [numbers EXCEPT ![p] = {}] /\ UNCHANGED disk
    BY GroundFacts DEF Close, Goto
  <1>3. {} \in SUBSET Number
    OBVIOUS
  <1>4. QED
    BY <1>1, <1>2, <1>3, QuietGround

LEMMA WriteAllGround == ASSUME Ground, NEW p \in Proc, WriteAll(p) PROVE Ground'
  <1>1. PICK drafts \in UNION {[1 .. k -> Text] : k \in 1 .. MaxSet} :
            /\ job' = [job EXCEPT ![p] = [NoJob EXCEPT !.kind = "write",
                                                       !.rest = drafts]]
            /\ pc' = [pc EXCEPT ![p] = "create"]
            /\ numbers' = [numbers EXCEPT ![p] = Listing]
            /\ UNCHANGED disk
    BY DEF WriteAll, Scan, Goto
  <1>2. drafts \in Seq(Text) /\ drafts # <<>>
    <2>1. PICK k \in 1 .. MaxSet : drafts \in [1 .. k -> Text]
      OBVIOUS
    <2>2. k \in Nat /\ k >= 1
      BY BoundsAssumption
    <2>3. QED
      BY <2>1, <2>2
  <1> DEFINE j == [NoJob EXCEPT !.kind = "write", !.rest = drafts]
  <1>3. j \in Job /\ j.id = 0 /\ j.mine = <<>> /\ j.kind = "write"
        /\ j.rest = drafts
    BY <1>2, NoJobFacts DEF Job, Kind
  <1>4. job' = [job EXCEPT ![p] = j]
    BY <1>1
  <1> HIDE DEF j
  <1>5. Fits("create", j, made)
    BY <1>2, <1>3, GroundFacts, NewCallFits
  <1>6. QED
    BY <1>1, <1>4, <1>5, GroundFacts, QuietGround

LEMMA TakenGround == ASSUME Ground, NEW p \in Proc, Taken(p) PROVE Ground'
  <1>1. Fits("rescan", job[p], made)
    BY GroundFacts DEF Taken, At, Fits, PC, Appending, Holding
  <1>2. QED
    BY <1>1, GroundFacts, QuietGround DEF Taken, Goto

LEMMA RescanGround == ASSUME Ground, NEW p \in Proc, Rescan(p) PROVE Ground'
  <1> DEFINE j == [job[p] EXCEPT !.attempt = job[p].attempt + 1]
  <1>1. CASE job[p].attempt + 1 < kAttempts
    <2>1. job[p].attempt \in Nat /\ kAttempts \in Nat
      BY GroundFacts, BoundsAssumption DEF Job
    <2>2. job[p].attempt + 1 \in 0 .. kAttempts - 1 /\ job[p] \in Job
      BY <1>1, <2>1, GroundFacts
    <2>3. j \in Job /\ j.id = job[p].id /\ j.mine = job[p].mine
          /\ j.kind = job[p].kind /\ j.rest = job[p].rest
      BY <2>2 DEF Job
    <2>4. /\ job' = [job EXCEPT ![p] = j] /\ pc' = [pc EXCEPT ![p] = "create"]
          /\ numbers' = [numbers EXCEPT ![p] = Listing] /\ UNCHANGED disk
      BY <1>1 DEF Rescan, Scan, Goto
    <2> HIDE DEF j
    <2>5. Fits("create", j, made)
      BY <2>3, GroundFacts DEF Rescan, At, Fits, PC, Appending, Holding
    <2>6. QED
      BY <2>4, <2>5, GroundFacts, QuietGround
  <1>2. CASE ~(job[p].attempt + 1 < kAttempts)
    BY <1>2, GroundFacts, NoJobFits, QuietGround DEF Rescan, Scan, Goto
  <1>3. QED
    BY <1>1, <1>2

LEMMA WriteFailsGround ==
    ASSUME Ground, NEW p \in Proc, WriteFails(p) PROVE Ground'
  <1>1. Fits("cleanup", job[p], made)
    BY GroundFacts DEF WriteFails, Fits, PC, Appending, Holding
  <1>2. QED
    BY <1>1, GroundFacts, QuietGround DEF WriteFails, Goto

LEMMA ChangeGround ==
    ASSUME Ground, NEW p \in Proc,
           NEW change \in {"replace", "seen", "rcvd"}, NEW rest \in Seq(Text),
           change = "replace" => rest # <<>>,
           Change(p, change, rest)
    PROVE  Ground'
  <1>1. PICK n \in numbers[p] :
            /\ job' = [job EXCEPT ![p] = [NoJob EXCEPT !.kind = change,
                                                       !.number = n,
                                                       !.rest = rest]]
            /\ pc' = [pc EXCEPT ![p] = "opening"]
            /\ UNCHANGED <<disk, numbers>>
    BY DEF Change, Goto
  <1>2. n \in 0 .. MaxNumber /\ n # 0
    BY GroundFacts, BoundsAssumption DEF Number
  <1> DEFINE j == [NoJob EXCEPT !.kind = change, !.number = n, !.rest = rest]
  <1>3. j \in Job /\ j.id = 0 /\ j.mine = <<>> /\ j.kind = change /\ j.rest = rest
        /\ j.number = n
    BY <1>2, NoJobFacts DEF Job, Kind
  <1>4. /\ job' = [job EXCEPT ![p] = j]
        /\ pc' = [pc EXCEPT ![p] = "opening"]
        /\ UNCHANGED <<disk, numbers>>
    BY <1>1
  <1> HIDE DEF j
  <1>5. Fits("opening", j, made)
    BY <1>2, <1>3, GroundFacts, NewCallFits
  <1>6. QED
    BY <1>4, <1>5, GroundFacts, QuietGround

LEMMA RemoveAllGround ==
    ASSUME Ground, NEW p \in Proc, RemoveAll(p) PROVE Ground'
  <1>1. PICK S \in SUBSET numbers[p] :
            /\ job' = [job EXCEPT ![p] = [NoJob EXCEPT !.kind = "remove",
                                                       !.targets = S]]
            /\ pc' = [pc EXCEPT ![p] = "unlink"]
            /\ UNCHANGED <<disk, numbers>>
    BY DEF RemoveAll, Goto
  <1>2. S \in SUBSET Number
    BY GroundFacts
  <1> DEFINE j == [NoJob EXCEPT !.kind = "remove", !.targets = S]
  <1>3. j \in Job /\ j.id = 0 /\ j.mine = <<>> /\ j.kind = "remove"
    BY <1>2, NoJobFacts DEF Job, Kind
  <1>4. job' = [job EXCEPT ![p] = j]
    BY <1>1
  <1> HIDE DEF j
  <1>5. Fits("unlink", j, made)
    BY <1>3, GroundFacts, NewCallFits
  <1>6. QED
    BY <1>1, <1>4, <1>5, GroundFacts, QuietGround
-----------------------------------------------------------------------------
\* A file is made, and is in the hand of the process that made it.
LEMMA CreateGround == ASSUME Ground, NEW p \in Proc, Create(p) PROVE Ground'
  <1> DEFINE n == NextNumber(p)
             j == [job[p] EXCEPT !.number = n, !.id = made + 1]
  <1>1. /\ n \in Number /\ made < MaxFile /\ pc[p] = "create"
        /\ made' = made + 1
        /\ dir' = [dir EXCEPT ![n] = made + 1]
        /\ file' = [file EXCEPT ![made + 1] = EmptyFile]
        /\ job' = [job EXCEPT ![p].number = n, ![p].id = made + 1]
        /\ pc' = [pc EXCEPT ![p] = "head"]
        /\ UNCHANGED <<locked, numbers>>
    BY DEF Create, Room, Goto, At
  <1> HIDE DEF n
  <1>2. /\ made \in Nat /\ job[p] \in Job /\ made + 1 \in 0 .. MaxFile
        /\ n \in 0 .. MaxNumber /\ n # 0 /\ made + 1 # 0
    BY <1>1, GroundFacts, BoundsAssumption DEF Number
  <1>3. /\ j \in Job /\ j.id = made + 1 /\ j.mine = job[p].mine
        /\ j.kind = job[p].kind /\ j.rest = job[p].rest /\ j.number = n
    BY <1>2 DEF Job
  <1>4. job' = [job EXCEPT ![p] = j]
    BY <1>1, GroundFacts
  <1> HIDE DEF j
  <1>5. Fits("head", j, made')
    BY <1>1, <1>2, <1>3, GroundFacts DEF Fits, PC, Appending, Holding
  <1>6. /\ dir' \in [Number -> 0 .. made'] /\ file' \in [File -> Content]
        /\ made' \in 0 .. MaxFile /\ made <= made'
        /\ locked' \in [File -> Proc \cup {NoProc}]
    <2>1. 0 .. made \subseteq 0 .. made' /\ made + 1 \in 0 .. made'
      BY <1>1, <1>2
    <2>2. dir' \in [Number -> 0 .. made']
      BY <1>1, <2>1, GroundFacts
    <2>3. file' \in [File -> Content]
      BY <1>1, GroundFacts, BoundFacts
    <2>4. QED
      BY <1>1, <1>2, <2>2, <2>3, GroundFacts
  <1>7. numbers' = [numbers EXCEPT ![p] = numbers[p]]
        /\ numbers[p] \in SUBSET Number
    BY <1>1, GroundFacts
  <1>8. QED
    BY <1>1, <1>4, <1>5, <1>6, <1>7, CallGround

\* A step that makes no file and names none.
LEMMA WriteGround ==
    ASSUME Ground, NEW p \in Proc, NEW c, NEW j, NEW N \in SUBSET Number,
           dir' \in [Number -> 0 .. made],
           made' = made,
           file' \in [File -> Content],
           locked' \in [File -> Proc \cup {NoProc}],
           pc' = [pc EXCEPT ![p] = c],
           job' = [job EXCEPT ![p] = j],
           numbers' = [numbers EXCEPT ![p] = N],
           Fits(c, j, made)
    PROVE  Ground'
  <1>1. made \in Nat /\ made \in 0 .. MaxFile
    BY GroundFacts
  <1>2. /\ dir' \in [Number -> 0 .. made'] /\ made' \in 0 .. MaxFile
        /\ made <= made' /\ Fits(c, j, made')
    BY <1>1
  <1>3. QED
    BY <1>2, CallGround

LEMMA PutHeadGround == ASSUME Ground, NEW p \in Proc, PutHead(p) PROVE Ground'
  <1> DEFINE f == job[p].id
             h == [NoHeader EXCEPT !.text = Head(job[p].rest)]
  <1>1. /\ pc[p] = "head" /\ f \in File
        /\ job[p].rest \in Seq(Text) /\ job[p].rest # <<>>
    BY JobFacts DEF PutHead, At, Appending
  <1>2. h \in Header
    <2>1. Head(job[p].rest) \in Text /\ NoHeader \in Header
      BY <1>1, BoundFacts
    <2>2. QED
      BY <2>1 DEF Header
  <1>3. file' = [file EXCEPT ![f].head = h]
    BY DEF PutHead
  <1> HIDE DEF h, f
  <1>4. file' \in [File -> Content]
    BY <1>1, <1>2, <1>3, GroundFacts DEF Content
  <1>5. Fits("body", job[p], made)
    BY <1>1, GroundFacts DEF Fits, PC, Appending, Holding
  <1>6. /\ pc' = [pc EXCEPT ![p] = "body"]
        /\ job' = [job EXCEPT ![p] = job[p]]
        /\ numbers' = [numbers EXCEPT ![p] = numbers[p]]
        /\ made' = made /\ dir' \in [Number -> 0 .. made]
        /\ locked' \in [File -> Proc \cup {NoProc}]
        /\ numbers[p] \in SUBSET Number
    BY GroundFacts DEF PutHead, Goto
  <1>7. QED
    BY <1>4, <1>5, <1>6, WriteGround

\* The last write of an append, with drafts left or without.
LEMMA PutBodyGround == ASSUME Ground, NEW p \in Proc, PutBody(p) PROVE Ground'
  <1> DEFINE f == job[p].id
             fs == [file EXCEPT ![f].body = Head(job[p].rest)]
             left == Tail(job[p].rest)
             N == numbers[p] \cup {job[p].number}
             next == [NoJob EXCEPT !.kind = "write", !.rest = left,
                                   !.mine = Append(job[p].mine, f)]
  <1>1. /\ pc[p] = "body" /\ f \in 1 .. made /\ f \in File
        /\ job[p].rest \in Seq(Text) /\ job[p].rest # <<>>
        /\ job[p].mine \in Seq(File)
        /\ \A i \in DOMAIN job[p].mine : job[p].mine[i] \in 1 .. made
    BY JobFacts DEF PutBody, At, Appending
  <1>2. Head(job[p].rest) \in Text /\ left \in Seq(Text)
    BY <1>1
  <1>3. fs \in [File -> Content]
    <2>1. file \in [File -> Content] /\ f \in File
          /\ Head(job[p].rest) \in Text
      BY <1>1, <1>2, GroundFacts
    <2> HIDE DEF f
    <2>2. QED
      BY <2>1 DEF Content
  <1>4. /\ file' = Closed(fs, dir, p, f)
        /\ numbers' = [numbers EXCEPT ![p] = N]
        /\ UNCHANGED <<dir, made, locked>>
    BY GroundFacts DEF PutBody
  <1>5. N \in SUBSET Number
    BY <1>1, GroundFacts, JobFacts DEF Appending
  <1>6. /\ file' \in [File -> Content] /\ made' = made
        /\ dir' \in [Number -> 0 .. made]
        /\ locked' \in [File -> Proc \cup {NoProc}]
    BY <1>3, <1>4, ClosedFacts, GroundFacts
  <1>7. CASE left = <<>>
    <2>1. pc' = [pc EXCEPT ![p] = "open"] /\ job' = [job EXCEPT ![p] = NoJob]
      BY <1>7 DEF PutBody, Goto
    <2> HIDE DEF N
    <2>2. QED
      BY <1>4, <1>5, <1>6, <2>1, GroundFacts, NoJobFits, WriteGround
  <1>8. CASE left # <<>>
    <2>1. pc' = [pc EXCEPT ![p] = "create"] /\ job' = [job EXCEPT ![p] = next]
      BY <1>8 DEF PutBody, Goto
    <2>2. Append(job[p].mine, f) \in Seq(File)
      BY <1>1
    <2>3. \A i \in DOMAIN Append(job[p].mine, f) :
              Append(job[p].mine, f)[i] \in 1 .. made
      BY <1>1
    <2>4. /\ next \in Job /\ next.id = 0 /\ next.kind = "write"
          /\ next.rest = left /\ next.mine = Append(job[p].mine, f)
      BY <1>2, <2>2, NoJobFacts DEF Job, Kind
    <2> HIDE DEF N, next
    <2>5. Fits("create", next, made)
      BY <1>8, <2>3, <2>4, GroundFacts DEF Fits, PC, Appending, Holding
    <2>6. QED
      BY <1>4, <1>5, <1>6, <2>1, <2>5, WriteGround
  <1>9. QED
    BY <1>7, <1>8

\* The file of a refused append goes by its name.
LEMMA CleanupGround == ASSUME Ground, NEW p \in Proc, Cleanup(p) PROVE Ground'
  <1>1. /\ dir' = [dir EXCEPT ![job[p].number] = 0]
        /\ file' = Closed(file, dir', p, job[p].id)
        /\ job' = [job EXCEPT ![p] = NoJob]
        /\ pc' = [pc EXCEPT ![p] = "open"]
        /\ UNCHANGED <<made, locked, numbers>>
    BY DEF Cleanup, Goto
  <1>2. dir' \in [Number -> 0 .. made]
    <2>1. 0 \in 0 .. made
      BY GroundFacts
    <2>2. QED
      BY <1>1, <2>1, GroundFacts
  <1>3. file' \in [File -> Content]
    BY <1>1, GroundFacts, ClosedFacts
  <1>4. /\ made' = made /\ locked' \in [File -> Proc \cup {NoProc}]
        /\ numbers' = [numbers EXCEPT ![p] = numbers[p]]
        /\ numbers[p] \in SUBSET Number
    BY <1>1, GroundFacts
  <1>5. QED
    BY <1>1, <1>2, <1>3, <1>4, GroundFacts, NoJobFits, WriteGround

\* A call on one file that returns.
LEMMA ReturnGround ==
    ASSUME Ground, NEW p \in Proc, NEW fs \in [File -> Content],
           Return(p, fs), UNCHANGED <<dir, made, numbers>>
    PROVE  Ground'
  <1>1. /\ file' = Closed(fs, dir, p, job[p].id)
        /\ locked' = [f \in File |-> IF locked[f] = p THEN NoProc ELSE locked[f]]
        /\ job' = [job EXCEPT ![p] = NoJob]
        /\ pc' = [pc EXCEPT ![p] = "open"]
    BY DEF Return, Goto
  <1>2. file' \in [File -> Content]
    BY <1>1, ClosedFacts
  <1>3. locked' \in [File -> Proc \cup {NoProc}]
    BY <1>1, GroundFacts
  <1>4. /\ made' = made /\ dir' \in [Number -> 0 .. made]
        /\ numbers' = [numbers EXCEPT ![p] = numbers[p]]
        /\ numbers[p] \in SUBSET Number
    BY GroundFacts
  <1>5. QED
    BY <1>1, <1>2, <1>3, <1>4, GroundFacts, NoJobFits, WriteGround

LEMMA OpenFileGround ==
    ASSUME Ground, NEW p \in Proc, OpenFile(p) PROVE Ground'
  <1> DEFINE id == dir[job[p].number]
             j == [job[p] EXCEPT !.id = id]
  <1>1. /\ pc[p] = "opening" /\ UNCHANGED <<dir, made, numbers>>
        /\ id \in 0 .. made
    BY GroundFacts, JobFacts DEF OpenFile, At
  <1>2. CASE id # 0
    <2>1. /\ job' = [job EXCEPT ![p].id = id]
          /\ pc' = [pc EXCEPT ![p] = "locking"]
          /\ UNCHANGED <<file, locked>>
      BY <1>2 DEF OpenFile, Goto
    <2>2. id \in 0 .. MaxFile /\ job[p] \in Job
      BY <1>1, GroundFacts, BoundsAssumption
    <2> HIDE DEF id
    <2>3. /\ j \in Job /\ j.id = id /\ j.mine = job[p].mine
          /\ j.kind = job[p].kind /\ j.rest = job[p].rest
      BY <2>2 DEF Job
    <2>4. job' = [job EXCEPT ![p] = j]
      BY <2>1, GroundFacts
    <2> HIDE DEF j
    <2>5. Fits("locking", j, made)
      BY <1>1, <1>2, <2>3, GroundFacts DEF Fits, PC, Appending, Holding
    <2>6. /\ made' = made /\ dir' \in [Number -> 0 .. made]
          /\ file' \in [File -> Content]
          /\ locked' \in [File -> Proc \cup {NoProc}]
          /\ numbers' = [numbers EXCEPT ![p] = numbers[p]]
          /\ numbers[p] \in SUBSET Number
      BY <1>1, <2>1, GroundFacts
    <2>7. QED
      BY <2>1, <2>4, <2>5, <2>6, WriteGround
  <1>3. CASE id = 0
    <2>1. Return(p, file)
      BY <1>3 DEF OpenFile
    <2>2. QED
      BY <1>1, <2>1, GroundFacts, ReturnGround
  <1>4. QED
    BY <1>2, <1>3

LEMMA LockGround == ASSUME Ground, NEW p \in Proc, Lock(p) PROVE Ground'
  <1>1. /\ pc[p] = "locking"
        /\ locked' = [locked EXCEPT ![job[p].id] = p]
        /\ pc' = [pc EXCEPT ![p] = "reading"]
        /\ UNCHANGED <<dir, file, made, numbers, job>>
    BY DEF Lock, Goto, At
  <1>2. Fits("reading", job[p], made)
    BY <1>1, GroundFacts DEF Fits, PC, Appending, Holding
  <1>3. /\ made' = made /\ dir' \in [Number -> 0 .. made]
        /\ file' \in [File -> Content]
        /\ locked' \in [File -> Proc \cup {NoProc}]
        /\ numbers' = [numbers EXCEPT ![p] = numbers[p]]
        /\ job' = [job EXCEPT ![p] = job[p]]
        /\ numbers[p] \in SUBSET Number
    BY <1>1, GroundFacts
  <1>4. QED
    BY <1>1, <1>2, <1>3, WriteGround

LEMMA BusyGround == ASSUME Ground, NEW p \in Proc, Busy(p) PROVE Ground'
  BY GroundFacts, ReturnGround DEF Busy

LEMMA ReadHeaderGround ==
    ASSUME Ground, NEW p \in Proc, ReadHeader(p) PROVE Ground'
  <1> DEFINE was == file[job[p].id].head
             done == \/ was.text = NoText
                     \/ job[p].kind = "seen" /\ was.seen
                     \/ job[p].kind = "rcvd" /\ was.rcvd
             c == IF job[p].kind = "replace" THEN "rehead" ELSE "patch"
             j == [job[p] EXCEPT !.was = was]
  <1>1. pc[p] = "reading" /\ UNCHANGED <<dir, made, numbers>>
    BY DEF ReadHeader, At
  <1>2. was \in Header /\ job[p] \in Job
    <2>1. file[job[p].id] \in Content
      BY <1>1, GroundFacts, JobFacts DEF Holding
    <2>2. QED
      BY <2>1, GroundFacts DEF Content
  <1>3. CASE done
    <2>1. Return(p, file)
      BY <1>3 DEF ReadHeader
    <2>2. QED
      BY <1>1, <2>1, GroundFacts, ReturnGround
  <1>4. CASE ~done
    <2>1. /\ job' = [job EXCEPT ![p].was = was]
          /\ pc' = [pc EXCEPT ![p] = c]
          /\ UNCHANGED <<file, locked>>
      BY <1>4 DEF ReadHeader, Goto
    <2> HIDE DEF was
    <2>2. /\ j \in Job /\ j.id = job[p].id /\ j.mine = job[p].mine
          /\ j.kind = job[p].kind /\ j.rest = job[p].rest
      BY <1>2 DEF Job
    <2>3. job' = [job EXCEPT ![p] = j]
      BY <2>1, GroundFacts
    <2> HIDE DEF j
    <2>4. Fits(c, j, made)
      BY <1>1, <2>2, GroundFacts DEF Fits, PC, Appending, Holding
    <2>5. /\ made' = made /\ dir' \in [Number -> 0 .. made]
          /\ file' \in [File -> Content]
          /\ locked' \in [File -> Proc \cup {NoProc}]
          /\ numbers' = [numbers EXCEPT ![p] = numbers[p]]
          /\ numbers[p] \in SUBSET Number
      BY <1>1, <2>1, GroundFacts
    <2> HIDE DEF c
    <2>6. QED
      BY <2>1, <2>3, <2>4, <2>5, WriteGround
  <1>5. QED
    BY <1>3, <1>4

LEMMA PutHeaderGround ==
    ASSUME Ground, NEW p \in Proc, PutHeader(p) PROVE Ground'
  <1> DEFINE h == [text |-> Head(job[p].rest), seen |-> job[p].was.seen,
                   rcvd |-> FALSE]
             f == job[p].id
  <1>1. /\ pc[p] = "rehead"
        /\ file' = [file EXCEPT ![f].head = h]
        /\ pc' = [pc EXCEPT ![p] = "rebody"]
        /\ UNCHANGED <<dir, made, locked, numbers, job>>
    BY DEF PutHeader, At, Goto
  <1>2. h \in Header /\ f \in File
    <2>1. Head(job[p].rest) \in Text /\ job[p].was \in Header /\ f \in File
      BY <1>1, JobFacts DEF Holding
    <2>2. QED
      BY <2>1 DEF Header
  <1> HIDE DEF h, f
  <1>3. file' \in [File -> Content]
    BY <1>1, <1>2, GroundFacts DEF Content
  <1>4. Fits("rebody", job[p], made)
    BY <1>1, GroundFacts DEF Fits, PC, Appending, Holding
  <1>5. /\ made' = made /\ dir' \in [Number -> 0 .. made]
        /\ locked' \in [File -> Proc \cup {NoProc}]
        /\ numbers' = [numbers EXCEPT ![p] = numbers[p]]
        /\ job' = [job EXCEPT ![p] = job[p]]
        /\ numbers[p] \in SUBSET Number
    BY <1>1, GroundFacts
  <1>6. QED
    BY <1>1, <1>3, <1>4, <1>5, WriteGround

LEMMA PutTextGround == ASSUME Ground, NEW p \in Proc, PutText(p) PROVE Ground'
  <1> DEFINE fs == [file EXCEPT ![job[p].id].body = Head(job[p].rest)]
  <1>1. Return(p, fs) /\ UNCHANGED <<dir, made, numbers>> /\ pc[p] = "rebody"
    BY DEF PutText, At
  <1>2. Head(job[p].rest) \in Text /\ job[p].id \in File
    BY <1>1, JobFacts DEF Holding
  <1>3. fs \in [File -> Content]
    BY <1>2, GroundFacts DEF Content
  <1>4. QED
    BY <1>1, <1>3, ReturnGround

LEMMA PatchGround == ASSUME Ground, NEW p \in Proc, Patch(p) PROVE Ground'
  <1> DEFINE f == job[p].id
             h == IF job[p].kind = "seen"
                  THEN [file[f].head EXCEPT !.seen = TRUE]
                  ELSE [file[f].head EXCEPT !.rcvd = TRUE]
             fs == [file EXCEPT ![f].head = h]
  <1>1. Return(p, fs) /\ UNCHANGED <<dir, made, numbers>> /\ pc[p] = "patch"
    BY DEF Patch, At
  <1>2. f \in File
    BY <1>1, JobFacts DEF Holding
  <1>3. file[f].head \in Header
    BY <1>2, GroundFacts DEF Content
  <1>4. h \in Header
    BY <1>3 DEF Header
  <1> HIDE DEF h
  <1>5. fs \in [File -> Content]
    BY <1>2, <1>4, GroundFacts DEF Content
  <1>6. QED
    BY <1>1, <1>5, ReturnGround

LEMMA UnlinkGround == ASSUME Ground, NEW p \in Proc, Unlink(p) PROVE Ground'
  <1> DEFINE n == Min(job[p].targets)
             left == job[p].targets \ {n}
             gone == dir[n] # 0
             N == IF gone THEN numbers[p] \ {n} ELSE numbers[p]
             j == [job[p] EXCEPT !.targets = left]
  <1>1. /\ pc[p] = "unlink"
        /\ dir' = [dir EXCEPT ![n] = 0]
        /\ file' = Closed(file, dir', p, dir[n])
        /\ UNCHANGED <<made, locked>>
    BY DEF Unlink, At
  <1>2. numbers' = [numbers EXCEPT ![p] = N]
    BY GroundFacts DEF Unlink
  <1>3. CASE gone /\ left # {}
    <2>1. job' = [job EXCEPT ![p] = j]
      BY <1>3, GroundFacts DEF Unlink
    <2>2. pc' = [pc EXCEPT ![p] = "unlink"]
      BY <1>3 DEF Unlink, Goto
    <2>3. left \in SUBSET Number /\ job[p] \in Job
      BY JobFacts, GroundFacts
    <2> HIDE DEF left
    <2>4. /\ j \in Job /\ j.id = job[p].id /\ j.mine = job[p].mine
          /\ j.kind = job[p].kind /\ j.rest = job[p].rest
      BY <2>3 DEF Job
    <2> HIDE DEF j
    <2>5. Fits("unlink", j, made)
      BY <1>1, <2>4, GroundFacts DEF Fits, PC, Appending, Holding
    <2> HIDE DEF n, N
    <2>6. /\ made' = made /\ dir' \in [Number -> 0 .. made]
          /\ file' \in [File -> Content]
          /\ locked' \in [File -> Proc \cup {NoProc}]
      <3>1. 0 \in 0 .. made
        BY GroundFacts
      <3>2. QED
        BY <1>1, <3>1, GroundFacts, ClosedFacts
    <2>7. N \in SUBSET Number
      BY GroundFacts DEF N
    <2>8. QED
      BY <1>2, <2>1, <2>2, <2>5, <2>6, <2>7, WriteGround
  <1>4. CASE ~(gone /\ left # {})
    <2>1. job' = [job EXCEPT ![p] = NoJob]
      BY <1>4 DEF Unlink
    <2>2. pc' = [pc EXCEPT ![p] = "open"]
      BY <1>4 DEF Unlink, Goto
    <2> HIDE DEF n, N, left
    <2>3. /\ made' = made /\ dir' \in [Number -> 0 .. made]
          /\ file' \in [File -> Content]
          /\ locked' \in [File -> Proc \cup {NoProc}]
      <3>1. 0 \in 0 .. made
        BY GroundFacts
      <3>2. QED
        BY <1>1, <3>1, GroundFacts, ClosedFacts
    <2>4. N \in SUBSET Number
      BY GroundFacts DEF N
    <2>5. QED
      BY <1>2, <2>1, <2>2, <2>3, <2>4, GroundFacts, NoJobFits, WriteGround
  <1>5. QED
    BY <1>3, <1>4

LEMMA DieGround == ASSUME Ground, NEW p \in Proc, Die(p) PROVE Ground'
  <1>1. /\ file' = Closed(file, dir, p, job[p].id)
        /\ job' = [job EXCEPT ![p] = NoJob]
        /\ numbers' = [numbers EXCEPT ![p] = {}]
        /\ pc' = [pc EXCEPT ![p] = "closed"]
        /\ UNCHANGED <<dir, made, locked>>
    BY DEF Die, Goto
  <1>2. /\ made' = made /\ dir' \in [Number -> 0 .. made]
        /\ locked' \in [File -> Proc \cup {NoProc}]
        /\ file' \in [File -> Content]
        /\ {} \in SUBSET Number
    BY <1>1, GroundFacts, ClosedFacts
  <1>3. QED
    BY <1>1, <1>2, GroundFacts, NoJobFits, WriteGround

LEMMA StepGround == ASSUME Ground, NEW p \in Proc, Step(p) PROVE Ground'
  <1>1. CASE Replace(p)
    <2>1. PICK t \in Text : Change(p, "replace", <<t>>)
      BY <1>1 DEF Replace
    <2>2. <<t>> \in Seq(Text) /\ <<t>> # <<>>
      OBVIOUS
    <2>3. QED
      BY <2>1, <2>2, ChangeGround
  <1>2. CASE Mark(p)
    <2>1. <<>> \in Seq(Text)
      OBVIOUS
    <2>2. QED
      BY <1>2, <2>1, ChangeGround DEF Mark
  <1>3. QED
    BY <1>1, <1>2, OpenGround, CloseGround, WriteAllGround, CreateGround,
       TakenGround, RescanGround, PutHeadGround, PutBodyGround,
       WriteFailsGround, CleanupGround, OpenFileGround, LockGround, BusyGround,
       ReadHeaderGround, PutHeaderGround, PutTextGround, PatchGround,
       RemoveAllGround, UnlinkGround, DieGround
    DEF Step

LEMMA StutterGround == ASSUME Ground, UNCHANGED vars PROVE Ground'
  BY DEF Ground, TypeOK, KindOfCall, FilesInHand, vars, disk

\* Every variable keeps its type: in particular the listings made by an
\* append stay below kAttempts, and no name leads to a file not made.
THEOREM TypeCorrectness == Spec => []TypeOK
  <1>1. Ground /\ [Next]_vars => Ground'
    BY StepGround, StutterGround DEF Next
  <1>2. Ground => TypeOK
    BY DEF Ground
  <1>3. QED
    BY InitGround, <1>1, <1>2, PTL DEF Spec
-----------------------------------------------------------------------------
\* The files of a set are files that were made.
LEMMA MadeType ==
    ASSUME Ground, NEW p \in Proc
    PROVE  /\ Made(p) \in Seq(File)
           /\ \A i \in DOMAIN Made(p) : Made(p)[i] \in 1 .. made
  <1>1. CASE pc[p] \in Appending
    <2>1. /\ job[p].mine \in Seq(File) /\ job[p].id \in File
          /\ job[p].id \in 1 .. made
          /\ \A i \in DOMAIN job[p].mine : job[p].mine[i] \in 1 .. made
      BY <1>1, JobFacts
    <2>2. QED
      BY <1>1, <2>1 DEF Made
  <1>2. CASE pc[p] \notin Appending
    BY <1>2, JobFacts DEF Made
  <1>3. QED
    BY <1>1, <1>2

\* A call that begins has no file yet, in hand or finished.
LEMMA BeginStep ==
    ASSUME Ground, NEW p \in Proc,
           \/ WriteAll(p) \/ Replace(p) \/ Mark(p) \/ RemoveAll(p)
    PROVE  /\ pc'[p] \in {"create", "opening", "unlink"}
           /\ job'[p].mine = <<>> /\ job'[p].id = 0
           /\ UNCHANGED disk
  <1>1. /\ pc \in [Proc -> PC] /\ job \in [Proc -> Job] /\ NoJob \in Job
        /\ NoJob.mine = <<>> /\ NoJob.id = 0
    BY GroundFacts, NoJobFacts
  <1>2. CASE WriteAll(p)
    <2>1. PICK drafts : job' = [job EXCEPT ![p] =
                                    [NoJob EXCEPT !.kind = "write",
                                                  !.rest = drafts]]
      BY <1>2 DEF WriteAll
    <2>2. QED
      BY <1>1, <1>2, <2>1 DEF WriteAll, Goto, Job
  <1>3. CASE Replace(p) \/ Mark(p)
    <2>1. PICK change, rest : Change(p, change, rest)
      BY <1>3 DEF Replace, Mark
    <2>2. PICK n : job' = [job EXCEPT ![p] = [NoJob EXCEPT !.kind = change,
                                                           !.number = n,
                                                           !.rest = rest]]
      BY <2>1 DEF Change
    <2>3. QED
      BY <1>1, <2>1, <2>2 DEF Change, Goto, Job
  <1>4. CASE RemoveAll(p)
    <2>1. PICK S : job' = [job EXCEPT ![p] = [NoJob EXCEPT !.kind = "remove",
                                                           !.targets = S]]
      BY <1>4 DEF RemoveAll
    <2>2. QED
      BY <1>1, <1>4, <2>1 DEF RemoveAll, Goto, Job
  <1>5. QED
    BY <1>2, <1>3, <1>4

\* What a step of p does to its own set: nothing, or it is over, or a file
\* that was not there yet comes after the others.
LEMMA MadeStep ==
    ASSUME Ground, NEW p \in Proc, Step(p)
    PROVE  \/ Made(p)' = Made(p)
           \/ Made(p)' = <<>>
           \/ Create(p) /\ Made(p)' = Append(Made(p), made + 1)
  <1>1. /\ pc \in [Proc -> PC] /\ job \in [Proc -> Job]
        /\ NoJob.mine = <<>>
    BY GroundFacts, NoJobFacts
  <1>2. CASE Create(p)
    <2>1. pc[p] = "create" /\ pc'[p] = "head"
      BY <1>1, <1>2 DEF Create, At, Goto
    <2>2. job'[p].mine = job[p].mine /\ job'[p].id = made + 1
      BY <1>1, <1>2 DEF Create, Job
    <2>3. QED
      BY <1>2, <2>1, <2>2 DEF Made, Appending
  <1>3. CASE PutBody(p)
    <2>1. pc[p] = "body" /\ pc'[p] \in {"open", "create"}
      BY <1>1, <1>3 DEF PutBody, At, Goto
    <2>2. job'[p].mine = <<>> \/ job'[p].mine = Append(job[p].mine, job[p].id)
      BY <1>1, <1>3, NoJobFacts DEF PutBody, Job
    <2>3. QED
      BY <2>1, <2>2 DEF Made, Appending
  <1>4. CASE PutHead(p) \/ WriteFails(p)
    BY <1>1, <1>4
    DEF Made, Appending, PutHead, WriteFails, At, Goto
  <1>5. CASE \/ Open(p) \/ Close(p) \/ Taken(p) \/ Lock(p) \/ PutHeader(p)
    BY <1>1, <1>5
    DEF Made, Appending, Open, Close, Taken, Lock, PutHeader, At, Goto
  <1>6. CASE \/ Cleanup(p) \/ Die(p) \/ Busy(p) \/ PutText(p) \/ Patch(p)
    <2>1. pc'[p] \in {"open", "closed"} /\ job'[p] = NoJob
      BY <1>1, <1>6
      DEF Cleanup, Die, Busy, PutText, Patch, Return, Goto
    <2>2. QED
      BY <1>1, <2>1 DEF Made, Appending
  <1>7. CASE \/ WriteAll(p) \/ Replace(p) \/ Mark(p) \/ RemoveAll(p)
    BY <1>7, BeginStep DEF Made, Appending
  <1>8. CASE \/ Rescan(p) \/ OpenFile(p) \/ ReadHeader(p) \/ Unlink(p)
    <2>1. pc[p] \notin Appending /\ pc'[p] \notin Appending
      BY <1>1, <1>8
      DEF Rescan, OpenFile, ReadHeader, Unlink, Return, At, Goto, Appending
    <2>2. job'[p].mine = job[p].mine \/ job'[p].mine = <<>>
      BY <1>1, <1>8, NoJobFacts
      DEF Rescan, OpenFile, ReadHeader, Unlink, Return, Job
    <2>3. QED
      BY <2>1, <2>2 DEF Made
  <1>9. QED
    BY <1>2, <1>3, <1>4, <1>5, <1>6, <1>7, <1>8 DEF Step

\* The others' sets stay as they are.
LEMMA OthersMade ==
    ASSUME Ground, NEW p \in Proc, Step(p), NEW q \in Proc, q # p
    PROVE  Made(q)' = Made(q)
  BY OthersStay DEF Ground, Made

\* A file of a set was in it before, or is new and the last of it.
LEMMA MadeElement ==
    ASSUME Ground, NEW p \in Proc, Step(p),
           NEW q \in Proc, NEW i \in DOMAIN Made(q)'
    PROVE  \/ i \in DOMAIN Made(q) /\ (Made(q)')[i] = Made(q)[i]
           \/ /\ q = p /\ i = Len(Made(p)) + 1
              /\ (Made(q)')[i] = made + 1 /\ Create(p)
  <1>1. CASE q # p
    BY <1>1, OthersMade
  <1>2. CASE q = p
    <2>1. Made(p) \in Seq(File)
      BY MadeType
    <2>2. QED
      BY <1>2, <2>1, MadeStep
  <1>3. QED
    BY <1>1, <1>2

LEMMA StutterMade ==
    ASSUME UNCHANGED vars, NEW p \in Proc
    PROVE  Made(p)' = Made(p)
  BY DEF vars, Made

LEMMA StepOneDraft ==
    ASSUME Ground, OneDraftOneFile, NEW p \in Proc, Step(p)
    PROVE  OneDraftOneFile'
  <1> SUFFICES ASSUME NEW q \in Proc, NEW r \in Proc,
                      NEW i \in DOMAIN Made(q)', NEW k \in DOMAIN Made(r)',
                      (Made(q)')[i] = (Made(r)')[k]
               PROVE  q = r /\ i = k
    BY DEF OneDraftOneFile
  <1>1. \A x, y \in Proc : \A a \in DOMAIN Made(x), b \in DOMAIN Made(y) :
            Made(x)[a] = Made(y)[b] => x = y /\ a = b
    BY DEF OneDraftOneFile
  <1>2. made \in Nat
    BY GroundFacts
  <1>3. \A x \in Proc : \A a \in DOMAIN Made(x)' :
            \/ a \in DOMAIN Made(x) /\ (Made(x)')[a] = Made(x)[a]
            \/ x = p /\ a = Len(Made(p)) + 1 /\ (Made(x)')[a] = made + 1
    BY MadeElement
  <1>4. \A x \in Proc : \A a \in DOMAIN Made(x) : Made(x)[a] # made + 1
    BY <1>2, MadeType
  <1>5. QED
    BY <1>1, <1>3, <1>4

\* opus_base.hpp: "two editors picking the same number cannot both have it".
\* It is the exclusive creation that decides it: no number, no lock and no
\* listing has a part in the proof.
THEOREM OneFileEach == Spec => []OneDraftOneFile
  <1>1. Init => OneDraftOneFile
    BY DEF Init, OneDraftOneFile, Made, Appending, NoJob
  <1>2. Ground /\ OneDraftOneFile /\ [Next]_vars => OneDraftOneFile'
    <2>1. ASSUME Ground, OneDraftOneFile, UNCHANGED vars
          PROVE  OneDraftOneFile'
      BY <2>1, StutterMade DEF OneDraftOneFile
    <2>2. QED
      BY <2>1, StepOneDraft DEF Next
  <1>3. Ground /\ [Next]_vars => Ground'
    BY StepGround, StutterGround DEF Next
  <1>4. QED
    BY InitGround, <1>1, <1>2, <1>3, PTL DEF Spec
-----------------------------------------------------------------------------
\* A set of naturals with a bound has a largest, and Max is it.
LEMMA MaxIsLargest ==
    ASSUME NEW N \in Nat, NEW S \in SUBSET (0 .. N), S # {}
    PROVE  Max(S) \in S /\ \A y \in S : Max(S) >= y
  <1> DEFINE T == {N - y : y \in S}
  <1>0. \A y \in S : y \in Nat /\ N - y \in Nat
    OBVIOUS
  <1>1. T \subseteq Nat /\ T # {}
    BY <1>0
  <1>2. PICK x \in T : \A y \in T : ~ (<<y, x>> \in OpToRel(<, Nat))
    BY <1>1, WFMin, NatLessThanWellFounded
  <1>3. \A y \in T : ~(y < x)
    BY <1>1, <1>2 DEF OpToRel
  <1>4. PICK m \in S : x = N - m
    BY <1>2
  <1>5. ASSUME NEW y \in S
        PROVE  m >= y
    <2>1. N - y \in T
      OBVIOUS
    <2>2. ~(N - y < N - m)
      BY <1>3, <1>4, <2>1
    <2>3. QED
      BY <1>0, <2>2
  <1>6. QED
    BY <1>5 DEF Max

\* The number an append tries is past every number of its listing.
LEMMA NextNumberIsPast ==
    ASSUME Ground, NEW p \in Proc
    PROVE  \A m \in numbers[p] : m < NextNumber(p)
  <1> DEFINE S == {0} \cup numbers[p]
  <1>1. MaxNumber \in Nat /\ S \in SUBSET (0 .. MaxNumber) /\ S # {}
    BY GroundFacts, BoundsAssumption DEF Number
  <1>2. Max(S) \in S /\ \A y \in S : Max(S) >= y
    BY <1>1, MaxIsLargest
  <1>3. Max(S) \in Nat /\ \A y \in S : y \in Nat
    BY <1>1, <1>2
  <1>4. NextNumber(p) = 1 + Max(S) \/ (NextNumber(p) = 2 /\ 1 + Max(S) = 1)
    BY DEF NextNumber
  <1> HIDE DEF S
  <1>5. \A m \in S : m < NextNumber(p)
    BY <1>2, <1>3, <1>4
  <1>6. QED
    BY <1>5 DEF S

\* Only an append has files finished before.
SetBegun ==
    \A p \in Proc : job[p].mine # <<>> =>
        pc[p] \in {"create", "rescan"} \cup Appending

\* Where they still have a name, the process has it in its listing.
Listed ==
    \A p \in Proc : \A i \in DOMAIN job[p].mine :
        NameOf(job[p].mine[i]) \subseteq numbers[p]

\* The file being written has the name it was created under, or none.
OneName ==
    \A p \in Proc : pc[p] \in Appending => NameOf(job[p].id) \subseteq {job[p].number}

\* The inductive invariant for the order of a set.
OrderInv == Ground /\ SetBegun /\ Listed /\ OneName /\ SetInOrder

\* A step adds a name to no file but the one it creates.
LEMMA NamesStep ==
    ASSUME Ground, NEW p \in Proc, Step(p)
    PROVE  \A f \in 1 .. made : NameOf(f)' \subseteq NameOf(f)
  <1>1. dir \in [Number -> 0 .. made] /\ made \in Nat
    BY GroundFacts
  <1>2. CASE Create(p)
    <2>1. PICK n : dir' = [dir EXCEPT ![n] = made + 1]
      BY <1>2 DEF Create
    <2>2. QED
      BY <1>1, <2>1 DEF NameOf
  <1>3. CASE Cleanup(p) \/ Unlink(p)
    <2>1. PICK n : dir' = [dir EXCEPT ![n] = 0]
      BY <1>3 DEF Cleanup, Unlink
    <2>2. QED
      BY <1>1, <2>1 DEF NameOf
  <1>4. CASE ~(Create(p) \/ Cleanup(p) \/ Unlink(p))
    <2>1. dir' = dir
      <3>1. CASE WriteAll(p) \/ Replace(p) \/ Mark(p) \/ RemoveAll(p)
        BY <3>1, BeginStep DEF disk
      <3>2. CASE ~(WriteAll(p) \/ Replace(p) \/ Mark(p) \/ RemoveAll(p))
        BY <1>4, <3>2
        DEF Step, Open, Close, Taken, Rescan, PutHead, PutBody, WriteFails,
            OpenFile, Lock, Busy, ReadHeader, PutHeader, PutText, Patch, Die,
            disk
      <3>3. QED
        BY <3>1, <3>2
    <2>2. QED
      BY <2>1 DEF NameOf
  <1>5. QED
    BY <1>2, <1>3, <1>4

\* And that has the one name it was created under.
LEMMA NewName ==
    ASSUME Ground, NEW p \in Proc, Create(p), NEW f, f = made + 1
    PROVE  NameOf(f)' \subseteq {NextNumber(p)}
  <1>1. dir \in [Number -> 0 .. made] /\ made \in Nat
    BY GroundFacts
  <1>2. dir' = [dir EXCEPT ![NextNumber(p)] = made + 1]
    BY DEF Create
  <1>3. \A n \in Number : dir'[n] = f => n = NextNumber(p)
    BY <1>1, <1>2
  <1>4. QED
    BY <1>3 DEF NameOf

\* What a step does to the files its call has finished, and to the listing.
LEMMA MineStep ==
    ASSUME Ground, SetBegun, NEW p \in Proc, Step(p)
    PROVE  \/ job'[p].mine = <<>>
           \/ /\ pc'[p] \in {"create", "rescan"} \cup Appending
              /\ \/ job'[p].mine = job[p].mine /\ numbers'[p] = numbers[p]
                 \/ job'[p].mine = job[p].mine /\ numbers'[p] = Listing
                 \/ /\ job'[p].mine = Append(job[p].mine, job[p].id)
                    /\ pc[p] \in Appending
                    /\ numbers'[p] = numbers[p] \cup {job[p].number}
  <1>1. /\ pc \in [Proc -> PC] /\ job \in [Proc -> Job]
        /\ numbers \in [Proc -> SUBSET Number]
        /\ NoJob \in Job /\ NoJob.mine = <<>>
    BY GroundFacts, NoJobFacts
  <1>2. pc[p] \notin {"create", "rescan"} \cup Appending => job[p].mine = <<>>
    BY DEF SetBegun
  <1>3. CASE WriteAll(p) \/ Replace(p) \/ Mark(p) \/ RemoveAll(p)
    BY <1>3, BeginStep
  <1>4. CASE Create(p)
    BY <1>1, <1>4 DEF Create, Goto, Job, Appending
  <1>5. CASE PutBody(p)
    <2>1. CASE Tail(job[p].rest) = <<>>
      BY <1>1, <1>5, <2>1 DEF PutBody
    <2>2. CASE Tail(job[p].rest) # <<>>
      <3>1. job'[p].mine = Append(job[p].mine, job[p].id)
        BY <1>1, <1>5, <2>2 DEF PutBody, Job
      <3>2. /\ pc[p] = "body" /\ pc'[p] = "create"
            /\ numbers'[p] = numbers[p] \cup {job[p].number}
        BY <1>1, <1>5, <2>2 DEF PutBody, At, Goto
      <3>3. QED
        BY <3>1, <3>2 DEF Appending
    <2>3. QED
      BY <2>1, <2>2
  <1>6. CASE Taken(p) \/ PutHead(p) \/ WriteFails(p)
    BY <1>1, <1>6 DEF Taken, PutHead, WriteFails, Goto, Appending
  <1>7. CASE Rescan(p)
    BY <1>1, <1>7 DEF Rescan, Scan, Goto, Job
  <1>8. CASE \/ Cleanup(p) \/ Die(p) \/ Busy(p) \/ PutText(p) \/ Patch(p)
    BY <1>1, <1>8 DEF Cleanup, Die, Busy, PutText, Patch, Return
  <1>9. CASE \/ Open(p) \/ Close(p) \/ Lock(p) \/ PutHeader(p)
    BY <1>1, <1>2, <1>9 DEF Open, Close, Lock, PutHeader, At, Appending
  <1>10. CASE OpenFile(p) \/ ReadHeader(p) \/ Unlink(p)
    <2>1. job[p].mine = <<>>
      BY <1>2, <1>10 DEF OpenFile, ReadHeader, Unlink, At, Appending
    <2>2. job'[p].mine = <<>>
      BY <1>1, <1>10, <2>1 DEF OpenFile, ReadHeader, Unlink, Return, Job
    <2>3. QED
      BY <2>2
  <1>11. QED
    BY <1>3, <1>4, <1>5, <1>6, <1>7, <1>8, <1>9, <1>10 DEF Step

LEMMA StepSetBegun ==
    ASSUME Ground, SetBegun, NEW p \in Proc, Step(p)
    PROVE  SetBegun'
  BY MineStep, OthersStay DEF SetBegun, Ground

LEMMA StepListed ==
    ASSUME OrderInv, NEW p \in Proc, Step(p)
    PROVE  Listed'
  <1> SUFFICES ASSUME NEW q \in Proc, NEW i \in DOMAIN job'[q].mine
               PROVE  NameOf(job[q].mine[i])' \subseteq numbers'[q]
    BY DEF Listed
  <1>1. Ground /\ SetBegun /\ Listed /\ OneName
    BY DEF OrderInv
  <1> DEFINE f == job'[q].mine[i]
  <1>2. ASSUME NEW g \in 1 .. made
        PROVE  {n \in Number : dir'[n] = g} \subseteq NameOf(g)
    BY <1>1, NamesStep DEF NameOf
  <1>3. NameOf(job[q].mine[i])' = {n \in Number : dir'[n] = f}
    BY DEF NameOf
  <1>4. CASE q # p
    <2>1. job'[q] = job[q] /\ numbers'[q] = numbers[q]
      BY <1>1, <1>4, OthersStay DEF Ground
    <2>2. f \in 1 .. made /\ NameOf(f) \subseteq numbers[q]
      BY <1>1, <2>1, JobFacts DEF Listed
    <2>3. QED
      BY <1>2, <1>3, <2>1, <2>2
  <1>5. CASE q = p
    <2>1. /\ job[p].mine \in Seq(File)
          /\ \A k \in DOMAIN job[p].mine : job[p].mine[k] \in 1 .. made
          /\ pc[p] \in Appending => job[p].id \in 1 .. made
          /\ made \in Nat
      BY <1>1, JobFacts, GroundFacts
    <2>2. CASE job'[p].mine = job[p].mine /\ numbers'[p] = numbers[p]
      <3>1. f \in 1 .. made /\ NameOf(f) \subseteq numbers[p]
        BY <1>1, <1>5, <2>1, <2>2 DEF Listed
      <3>2. QED
        BY <1>2, <1>3, <1>5, <2>2, <3>1
    <2>3. CASE job'[p].mine = job[p].mine /\ numbers'[p] = Listing
      <3>1. f \in 1 .. made
        BY <1>5, <2>1, <2>3
      <3>2. NameOf(f) \subseteq Listing
        BY <2>1, <3>1 DEF NameOf, Listing
      <3>3. QED
        BY <1>2, <1>3, <1>5, <2>3, <3>1, <3>2
    <2>4. CASE /\ job'[p].mine = Append(job[p].mine, job[p].id)
               /\ pc[p] \in Appending
               /\ numbers'[p] = numbers[p] \cup {job[p].number}
      <3>1. CASE i \in DOMAIN job[p].mine
        <4>1. f = job[p].mine[i]
          BY <1>5, <2>1, <2>4, <3>1
        <4>2. f \in 1 .. made /\ NameOf(f) \subseteq numbers[p]
          BY <1>1, <2>1, <3>1, <4>1 DEF Listed
        <4>3. QED
          BY <1>2, <1>3, <1>5, <2>4, <4>2
      <3>2. CASE i \notin DOMAIN job[p].mine
        <4>1. f = job[p].id
          BY <1>5, <2>1, <2>4, <3>2
        <4>2. f \in 1 .. made /\ NameOf(f) \subseteq {job[p].number}
          BY <1>1, <2>1, <2>4, <4>1 DEF OneName
        <4>3. QED
          BY <1>2, <1>3, <1>5, <2>4, <4>2
      <3>3. QED
        BY <3>1, <3>2
    <2>5. CASE job'[p].mine = <<>>
      BY <1>5, <2>5
    <2>6. QED
      BY <1>1, <2>2, <2>3, <2>4, <2>5, MineStep
  <1>6. QED
    BY <1>4, <1>5

\* Where a step leaves an append in progress, and on which file.
LEMMA AppendingStep ==
    ASSUME Ground, NEW p \in Proc, Step(p), pc'[p] \in Appending
    PROVE  \/ Create(p)
           \/ pc[p] \in Appending /\ job'[p] = job[p]
  <1>1. pc \in [Proc -> PC] /\ job \in [Proc -> Job]
    BY GroundFacts
  <1>2. CASE WriteAll(p) \/ Replace(p) \/ Mark(p) \/ RemoveAll(p)
    BY <1>2, BeginStep DEF Appending
  <1>3. CASE PutHead(p) \/ WriteFails(p)
    BY <1>1, <1>3 DEF PutHead, WriteFails, At, Goto, Appending
  <1>4. CASE \/ Open(p) \/ Close(p) \/ Taken(p) \/ Rescan(p) \/ PutBody(p)
             \/ Cleanup(p) \/ Lock(p) \/ PutHeader(p) \/ Die(p)
    BY <1>1, <1>4
    DEF Open, Close, Taken, Rescan, PutBody, Cleanup, Lock, PutHeader, Die,
        Goto, Appending
  <1>5. CASE \/ OpenFile(p) \/ Busy(p) \/ ReadHeader(p) \/ PutText(p)
             \/ Patch(p) \/ Unlink(p)
    BY <1>1, <1>5
    DEF OpenFile, Busy, ReadHeader, PutText, Patch, Unlink, Return, Goto,
        Appending
  <1>6. QED
    BY <1>2, <1>3, <1>4, <1>5 DEF Step

LEMMA StepOneName ==
    ASSUME OrderInv, NEW p \in Proc, Step(p)
    PROVE  OneName'
  <1> SUFFICES ASSUME NEW q \in Proc, pc'[q] \in Appending
               PROVE  NameOf(job[q].id)' \subseteq {job'[q].number}
    BY DEF OneName
  <1>1. Ground /\ OneName
    BY DEF OrderInv
  <1> DEFINE f == job'[q].id
  <1>2. NameOf(job[q].id)' = {n \in Number : dir'[n] = f}
    BY DEF NameOf
  <1>3. CASE pc[q] \in Appending /\ job'[q] = job[q]
    <2>1. f \in 1 .. made /\ NameOf(f) \subseteq {job'[q].number}
      BY <1>1, <1>3, JobFacts DEF OneName
    <2>2. {n \in Number : dir'[n] = f} \subseteq NameOf(f)
      BY <1>1, <2>1, NamesStep DEF NameOf
    <2>3. QED
      BY <1>2, <2>1, <2>2
  <1>4. CASE q = p /\ Create(p)
    <2>1. f = made + 1 /\ job'[q].number = NextNumber(p)
      BY <1>1, <1>4, GroundFacts DEF Create, Job
    <2>2. {n \in Number : dir'[n] = f} \subseteq {NextNumber(p)}
      BY <1>1, <1>4, <2>1, NewName DEF NameOf
    <2>3. QED
      BY <1>2, <2>1, <2>2
  <1>5. QED
    BY <1>1, <1>3, <1>4, AppendingStep, OthersStay DEF Ground

LEMMA StepInOrder ==
    ASSUME OrderInv, NEW p \in Proc, Step(p)
    PROVE  SetInOrder'
  <1> SUFFICES ASSUME NEW q \in Proc,
                      NEW i \in DOMAIN Made(q)', NEW k \in DOMAIN Made(q)',
                      i < k,
                      NEW m \in NameOf(Made(q)[i])',
                      NEW n \in NameOf(Made(q)[k])'
               PROVE  m < n
    BY DEF SetInOrder
  <1>1. Ground /\ SetBegun /\ Listed /\ SetInOrder
    BY DEF OrderInv
  <1>2. Made(q) \in Seq(File) /\ made \in Nat
        /\ \A j \in DOMAIN Made(q) : Made(q)[j] \in 1 .. made
    BY <1>1, MadeType, GroundFacts
  <1>3. \A j \in DOMAIN Made(q)' :
            \/ j \in DOMAIN Made(q) /\ (Made(q)')[j] = Made(q)[j]
            \/ /\ q = p /\ j = Len(Made(p)) + 1
               /\ (Made(q)')[j] = made + 1 /\ Create(p)
    BY <1>1, MadeElement
  <1>4. /\ m \in Number /\ dir'[m] = (Made(q)')[i]
        /\ n \in Number /\ dir'[n] = (Made(q)')[k]
    BY DEF NameOf
  <1>5. \A f \in 1 .. made : \A x \in Number : dir'[x] = f => x \in NameOf(f)
    BY <1>1, NamesStep DEF NameOf
  <1>6. i \in DOMAIN Made(q) /\ (Made(q)')[i] = Made(q)[i]
    <2>1. CASE q = p /\ i = Len(Made(p)) + 1
      <3>1. k = Len(Made(p)) + 1 \/ k \in 1 .. Len(Made(p))
        BY <1>2, <1>3, <2>1
      <3>2. QED
        BY <1>2, <2>1, <3>1
    <2>2. QED
      BY <1>3, <2>1
  <1>7. m \in NameOf(Made(q)[i])
    BY <1>2, <1>4, <1>5, <1>6
  <1>8. CASE k \in DOMAIN Made(q) /\ (Made(q)')[k] = Made(q)[k]
    <2>1. n \in NameOf(Made(q)[k])
      BY <1>2, <1>4, <1>5, <1>8
    <2>2. QED
      BY <1>1, <1>6, <1>7, <1>8, <2>1 DEF SetInOrder
  <1>9. CASE q = p /\ (Made(q)')[k] = made + 1 /\ Create(p)
    <2>1. n = NextNumber(p)
      BY <1>1, <1>4, <1>9, NewName DEF NameOf
    <2>2. Made(p) = job[p].mine
      BY <1>9 DEF Create, At, Made, Appending
    <2>3. m \in numbers[p]
      BY <1>1, <1>6, <1>7, <1>9, <2>2 DEF Listed
    <2>4. QED
      BY <1>1, <2>1, <2>3, NextNumberIsPast
  <1>10. QED
    BY <1>3, <1>8, <1>9

\* format_driver.hpp on writeAll(): "The drafts go in in the order they are
\* given".  A listing may be old, but never lacks a number of the set itself.
THEOREM SetsKeepOrder == Spec => []SetInOrder
  <1>1. Init => OrderInv
    <2>1. Init => SetBegun /\ Listed /\ OneName /\ SetInOrder
      BY DEF Init, SetBegun, Listed, OneName, SetInOrder, Made, Appending,
             NoJob
    <2>2. QED
      BY <2>1, InitGround DEF OrderInv
  <1>2. OrderInv /\ [Next]_vars => OrderInv'
    <2>1. ASSUME OrderInv, NEW p \in Proc, Step(p)
          PROVE  OrderInv'
      BY <2>1, StepGround, StepSetBegun, StepListed, StepOneName, StepInOrder
      DEF OrderInv
    <2>2. ASSUME OrderInv, UNCHANGED vars
          PROVE  OrderInv'
      <3>1. Ground' /\ \A q \in Proc : Made(q)' = Made(q)
        BY <2>2, StutterGround, StutterMade DEF OrderInv
      <3>2. UNCHANGED <<dir, pc, job, numbers>>
        BY <2>2 DEF vars, disk
      <3>3. SetBegun' /\ Listed' /\ OneName'
        BY <2>2, <3>2 DEF OrderInv, SetBegun, Listed, OneName, NameOf
      <3>4. SetInOrder'
        BY <2>2, <3>1, <3>2 DEF OrderInv, SetInOrder, NameOf
      <3>5. QED
        BY <3>1, <3>3, <3>4 DEF OrderInv
    <2>3. QED
      BY <2>1, <2>2 DEF Next
  <1>3. OrderInv => SetInOrder
    BY DEF OrderInv
  <1>4. QED
    BY <1>1, <1>2, <1>3, PTL DEF Spec
-----------------------------------------------------------------------------
\* The lock of a file that is being changed is held by the one who does.
LockHeld == \A p \in Proc : pc[p] \in Holding => locked[job[p].id] = p

\* Only what has been written was read, and what was not made is not written.
SeenIsWritten ==
    \A f \in File : file[f].head.text = NoText => ~file[f].head.seen
NotMadeIsBlank ==
    \A f \in File : f > made => file[f].head.text = NoText

\* An append has its header still to write; a change found one.
HeadIsBlank ==
    \A p \in Proc : pc[p] = "head" => file[job[p].id].head.text = NoText
ChangedIsWritten ==
    \A p \in Proc : pc[p] \in {"rehead", "rebody", "patch"} =>
        file[job[p].id].head.text # NoText

\* What replace() carries over is not older than the file.
CarriedIsCurrent ==
    \A p \in Proc : pc[p] = "rehead" =>
        (file[job[p].id].head.seen => job[p].was.seen)

\* The inductive invariant for the mark.
SeenInv ==
    /\ Ground /\ OneDraftOneFile
    /\ LockHeld /\ SeenIsWritten /\ NotMadeIsBlank
    /\ HeadIsBlank /\ ChangedIsWritten /\ CarriedIsCurrent

\* A call on one file ends, and leaves of fs what is not lost with the file.
LEMMA ReturnHead ==
    ASSUME Ground, NEW p \in Proc, NEW fs \in [File -> Content],
           Return(p, fs), UNCHANGED dir, NEW f \in File
    PROVE  \/ file'[f] = fs[f]
           \/ /\ file'[f] = EmptyFile /\ NameOf(f)' = {}
              /\ \A q \in Proc \ {p} : job[q].id # f
              /\ pc'[p] = "open"
  <1>1. file' = Closed(fs, dir, p, job[p].id) /\ pc'[p] = "open"
    BY GroundFacts DEF Return, Goto
  <1>2. QED
    BY <1>1, ClosedFacts DEF NameOf

\* What a step can do to the header of a file.
LEMMA HeadStep ==
    ASSUME Ground, NEW p \in Proc, Step(p), NEW f \in File
    PROVE  \/ file'[f].head = file[f].head
           \/ /\ file'[f] = EmptyFile /\ NameOf(f)' = {}
              /\ \A q \in Proc \ {p} : job[q].id # f
              /\ pc'[p] \notin {"head"} \cup Holding
           \/ Create(p) /\ f = made + 1 /\ file'[f] = EmptyFile
           \/ /\ PutHead(p) /\ f = job[p].id
              /\ file'[f].head.text \in Text /\ ~file'[f].head.seen
           \/ /\ PutHeader(p) /\ f = job[p].id
              /\ file'[f].head.text \in Text
              /\ file'[f].head.seen = job[p].was.seen
           \/ /\ Patch(p) /\ f = job[p].id
              /\ file'[f].head.text = file[f].head.text
              /\ file[f].head.seen => file'[f].head.seen
  <1>1. /\ file \in [File -> Content] /\ pc \in [Proc -> PC]
        /\ file[f] \in Content
    BY GroundFacts
  <1>2. CASE WriteAll(p) \/ Replace(p) \/ Mark(p) \/ RemoveAll(p)
    BY <1>2, BeginStep DEF disk
  <1>3. CASE Create(p)
    BY <1>1, <1>3 DEF Create
  <1>4. CASE PutHead(p)
    <2>1. pc[p] = "head"
      BY <1>4 DEF PutHead, At
    <2>2. Head(job[p].rest) \in Text
      BY <2>1, JobFacts DEF Appending
    <2> DEFINE h == [NoHeader EXCEPT !.text = Head(job[p].rest)]
    <2>3. h.text \in Text /\ ~h.seen
      BY <2>2 DEF NoHeader
    <2>4. file' = [file EXCEPT ![job[p].id].head = h]
      BY <1>4 DEF PutHead
    <2> HIDE DEF h
    <2>5. file'[f].head = IF f = job[p].id THEN h ELSE file[f].head
      BY <1>1, <2>4 DEF Content
    <2>6. QED
      BY <1>4, <2>3, <2>5
  <1>5. CASE PutBody(p)
    <2> DEFINE fs == [file EXCEPT ![job[p].id].body = Head(job[p].rest)]
    <2>1. /\ file' = Closed(fs, dir, p, job[p].id) /\ UNCHANGED dir
          /\ pc'[p] \in {"open", "create"} /\ pc[p] = "body"
      BY <1>1, <1>5 DEF PutBody, Goto, At
    <2>2. Head(job[p].rest) \in Text /\ job[p].id \in File
      BY <2>1, JobFacts DEF Appending
    <2>3. fs \in [File -> Content] /\ fs[f].head = file[f].head
      BY <1>1, <2>2 DEF Content
    <2> HIDE DEF fs
    <2>4. QED
      BY <2>1, <2>3, ClosedFacts DEF NameOf, Holding
  <1>6. CASE Cleanup(p) \/ Unlink(p) \/ Die(p)
    <2>1. PICK g : file' = Closed(file, dir', p, g)
      BY <1>6 DEF Cleanup, Unlink, Die
    <2>2. pc'[p] \in {"open", "closed", "unlink"}
      BY <1>1, <1>6 DEF Cleanup, Unlink, Die, Goto
    <2>3. QED
      BY <1>1, <2>1, <2>2, ClosedFacts DEF NameOf, Holding
  <1>7. CASE PutHeader(p)
    <2>1. pc[p] = "rehead"
      BY <1>7 DEF PutHeader, At
    <2>2. Head(job[p].rest) \in Text
      BY <2>1, JobFacts
    <2> DEFINE h == [text |-> Head(job[p].rest), seen |-> job[p].was.seen,
                     rcvd |-> FALSE]
    <2>3. h.text \in Text /\ h.seen = job[p].was.seen
      BY <2>2
    <2>4. file' = [file EXCEPT ![job[p].id].head = h]
      BY <1>7 DEF PutHeader
    <2> HIDE DEF h
    <2>5. file'[f].head = IF f = job[p].id THEN h ELSE file[f].head
      BY <1>1, <2>4 DEF Content
    <2>6. QED
      BY <1>7, <2>3, <2>5
  <1>8. CASE PutText(p)
    <2> DEFINE fs == [file EXCEPT ![job[p].id].body = Head(job[p].rest)]
    <2>1. Return(p, fs) /\ UNCHANGED dir /\ pc[p] = "rebody"
      BY <1>8 DEF PutText, At
    <2>2. Head(job[p].rest) \in Text /\ job[p].id \in File
      BY <2>1, JobFacts DEF Holding
    <2>3. fs \in [File -> Content] /\ fs[f].head = file[f].head
      BY <1>1, <2>2 DEF Content
    <2> HIDE DEF fs
    <2>4. QED
      BY <2>1, <2>3, ReturnHead DEF Holding
  <1>9. CASE Patch(p)
    <2> DEFINE g == job[p].id
               h == IF job[p].kind = "seen"
                    THEN [file[g].head EXCEPT !.seen = TRUE]
                    ELSE [file[g].head EXCEPT !.rcvd = TRUE]
               fs == [file EXCEPT ![g].head = h]
    <2>1. Return(p, fs) /\ UNCHANGED dir /\ pc[p] = "patch"
      BY <1>9 DEF Patch, At
    <2>2. g \in File
      BY <2>1, JobFacts DEF Holding
    <2>3. file[g].head \in Header
      BY <1>1, <2>2 DEF Content
    <2>4. /\ h \in Header /\ h.text = file[g].head.text
          /\ file[g].head.seen => h.seen
      BY <2>3 DEF Header
    <2> HIDE DEF h
    <2>5. /\ fs \in [File -> Content]
          /\ fs[f].head = IF f = g THEN h ELSE file[f].head
      BY <1>1, <2>2, <2>4 DEF Content
    <2> HIDE DEF fs
    <2>6. QED
      BY <1>9, <2>1, <2>4, <2>5, ReturnHead DEF Holding
  <1>10. CASE OpenFile(p) \/ Busy(p) \/ ReadHeader(p)
    <2>1. file' = file \/ (Return(p, file) /\ UNCHANGED dir)
      BY <1>10 DEF OpenFile, Busy, ReadHeader
    <2>2. QED
      BY <1>1, <2>1, ReturnHead DEF Holding
  <1>11. CASE \/ Open(p) \/ Close(p) \/ Taken(p) \/ Rescan(p)
              \/ WriteFails(p) \/ Lock(p)
    BY <1>11 DEF Open, Close, Taken, Rescan, WriteFails, Lock, disk
  <1>12. QED
    BY <1>2, <1>3, <1>4, <1>5, <1>6, <1>7, <1>8, <1>9, <1>10, <1>11 DEF Step

\* How a call comes to hold a lock, and on which file.
LEMMA HoldingStep ==
    ASSUME Ground, NEW p \in Proc, Step(p), pc'[p] \in Holding
    PROVE  /\ job'[p].id = job[p].id
           /\ \/ Lock(p)
              \/ ReadHeader(p) /\ pc[p] \in Holding /\ UNCHANGED <<file, locked>>
              \/ PutHeader(p) /\ pc[p] \in Holding /\ UNCHANGED locked
  <1>1. pc \in [Proc -> PC] /\ job \in [Proc -> Job]
    BY GroundFacts
  <1>2. CASE Lock(p)
    BY <1>2 DEF Lock
  <1>3. CASE PutHeader(p)
    BY <1>3 DEF PutHeader, At, Holding
  <1>4. CASE ReadHeader(p)
    <2>1. ~Return(p, file)
      BY <1>1 DEF Return, Goto, Holding
    <2>2. /\ job' = [job EXCEPT ![p].was = file[job[p].id].head]
          /\ UNCHANGED <<file, locked>> /\ pc[p] = "reading"
      BY <1>4, <2>1 DEF ReadHeader, At
    <2>3. job'[p].id = job[p].id
      BY <1>1, <2>2 DEF Job
    <2>4. QED
      BY <1>4, <2>2, <2>3 DEF Holding
  <1>5. CASE WriteAll(p) \/ Replace(p) \/ Mark(p) \/ RemoveAll(p)
    BY <1>5, BeginStep DEF Holding
  <1>6. CASE \/ Open(p) \/ Close(p) \/ Taken(p) \/ Rescan(p) \/ Create(p)
             \/ PutHead(p) \/ PutBody(p) \/ WriteFails(p) \/ Cleanup(p)
             \/ Die(p)
    BY <1>1, <1>6
    DEF Open, Close, Taken, Rescan, Create, PutHead, PutBody, WriteFails,
        Cleanup, Die, Goto, Holding
  <1>7. CASE \/ OpenFile(p) \/ Busy(p) \/ PutText(p) \/ Patch(p) \/ Unlink(p)
    BY <1>1, <1>7
    DEF OpenFile, Busy, PutText, Patch, Unlink, Return, Goto, Holding
  <1>8. QED
    BY <1>2, <1>3, <1>4, <1>5, <1>6, <1>7 DEF Step

\* Nobody takes a lock that another holds, or gives back but his own.
LEMMA LockStep ==
    ASSUME Ground, NEW p \in Proc, Step(p),
           NEW q \in Proc, q # p, NEW f \in File, locked[f] = q
    PROVE  locked'[f] = q
  <1>1. locked \in [File -> Proc \cup {NoProc}] /\ q # NoProc
    BY GroundFacts, MarkerAssumption
  <1>2. CASE Lock(p)
    BY <1>1, <1>2 DEF Lock
  <1>3. CASE OpenFile(p) \/ Busy(p) \/ ReadHeader(p) \/ PutText(p) \/ Patch(p)
    <2>1. \/ locked' = locked
          \/ locked' = [g \in File |-> IF locked[g] = p THEN NoProc
                                       ELSE locked[g]]
      BY <1>3 DEF OpenFile, Busy, ReadHeader, PutText, Patch, Return
    <2>2. QED
      BY <1>1, <2>1
  <1>4. CASE WriteAll(p) \/ Replace(p) \/ Mark(p) \/ RemoveAll(p)
    BY <1>4, BeginStep DEF disk
  <1>5. CASE \/ Open(p) \/ Close(p) \/ Taken(p) \/ Rescan(p) \/ Create(p)
             \/ PutHead(p) \/ PutBody(p) \/ WriteFails(p) \/ Cleanup(p)
             \/ Die(p) \/ PutHeader(p) \/ Unlink(p)
    BY <1>5
    DEF Open, Close, Taken, Rescan, Create, PutHead, PutBody, WriteFails,
        Cleanup, Die, PutHeader, Unlink, disk
  <1>6. QED
    BY <1>2, <1>3, <1>4, <1>5 DEF Step

LEMMA StepLockHeld ==
    ASSUME Ground, LockHeld, NEW p \in Proc, Step(p)
    PROVE  LockHeld'
  <1> SUFFICES ASSUME NEW q \in Proc, pc'[q] \in Holding
               PROVE  locked'[job'[q].id] = q
    BY DEF LockHeld
  <1>1. CASE q # p
    <2>1. pc'[q] = pc[q] /\ job'[q] = job[q]
      BY <1>1, OthersStay DEF Ground
    <2>2. job[q].id \in File /\ locked[job[q].id] = q
      BY <2>1, JobFacts DEF LockHeld
    <2>3. QED
      BY <1>1, <2>1, <2>2, LockStep
  <1>2. CASE q = p
    <2>1. CASE Lock(p)
      <3>1. /\ locked' = [locked EXCEPT ![job[p].id] = p]
            /\ pc[p] = "locking" /\ UNCHANGED job
        BY <2>1 DEF Lock, At
      <3>2. QED
        BY <1>2, <3>1, GroundFacts, JobFacts
    <2>2. CASE pc[p] \in Holding /\ UNCHANGED locked /\ job'[p].id = job[p].id
      BY <1>2, <2>2 DEF LockHeld
    <2>3. QED
      BY <1>2, <2>1, <2>2, HoldingStep
  <1>3. QED
    BY <1>1, <1>2

\* Writing, making and losing files keeps what the headers say of them.
LEMMA StepHeaders ==
    ASSUME SeenInv, NEW p \in Proc, Step(p)
    PROVE  SeenIsWritten' /\ NotMadeIsBlank'
  <1>1. /\ Ground /\ SeenIsWritten /\ NotMadeIsBlank /\ ChangedIsWritten
        /\ NoText \notin Text /\ made \in Nat
    BY GroundFacts, MarkerAssumption DEF SeenInv
  <1>2. made' = made \/ (Create(p) /\ made' = made + 1)
    <2>1. CASE WriteAll(p) \/ Replace(p) \/ Mark(p) \/ RemoveAll(p)
      BY <1>1, <2>1, BeginStep DEF disk
    <2>2. CASE Create(p)
      BY <2>2 DEF Create
    <2>3. CASE ~(WriteAll(p) \/ Replace(p) \/ Mark(p) \/ RemoveAll(p) \/ Create(p))
      BY <2>3
      DEF Step, Open, Close, Taken, Rescan, PutHead, PutBody, WriteFails,
          Cleanup, OpenFile, Lock, Busy, ReadHeader, PutHeader, PutText,
          Patch, Unlink, Die, disk
    <2>4. QED
      BY <2>1, <2>2, <2>3
  <1>3. EmptyFile.head.text = NoText /\ ~EmptyFile.head.seen
    BY DEF EmptyFile, NoHeader
  <1>4. ASSUME NEW f \in File
        PROVE  /\ file'[f].head.text = NoText => ~file'[f].head.seen
               /\ f > made' => file'[f].head.text = NoText
    <2>1. CASE Patch(p) /\ f = job[p].id
               /\ file'[f].head.text = file[f].head.text
      <3>1. file[f].head.text # NoText /\ f \in 1 .. made /\ ~(f > made)
        BY <1>1, <2>1, JobFacts DEF ChangedIsWritten, Patch, At, Holding
      <3>2. ~Create(p)
        BY <2>1 DEF Patch, Create, At
      <3>3. QED
        BY <1>2, <2>1, <3>1, <3>2
    <2>2. CASE (PutHead(p) \/ PutHeader(p)) /\ f = job[p].id
               /\ file'[f].head.text \in Text
      <3>1. f \in 1 .. made /\ ~(f > made)
        BY <1>1, <2>2, JobFacts DEF PutHead, PutHeader, At, Appending, Holding
      <3>2. ~Create(p)
        BY <2>2 DEF PutHead, PutHeader, Create, At
      <3>3. QED
        BY <1>1, <1>2, <2>2, <3>1, <3>2
    <2>3. CASE file'[f] = EmptyFile
      BY <1>3, <2>3
    <2>4. CASE file'[f].head = file[f].head
      <3>1. f \in Nat /\ (f > made' => f > made)
        BY <1>1, <1>2, BoundsAssumption DEF File
      <3>2. QED
        BY <1>1, <2>4, <3>1 DEF SeenIsWritten, NotMadeIsBlank
    <2>5. QED
      BY <1>1, <2>1, <2>2, <2>3, <2>4, HeadStep
  <1>5. QED
    BY <1>4 DEF SeenIsWritten, NotMadeIsBlank

LEMMA StepHeadIsBlank ==
    ASSUME SeenInv, NEW p \in Proc, Step(p)
    PROVE  HeadIsBlank'
  <1> SUFFICES ASSUME NEW q \in Proc, pc'[q] = "head"
               PROVE  file'[job'[q].id].head.text = NoText
    BY DEF HeadIsBlank
  <1>1. Ground /\ OneDraftOneFile /\ HeadIsBlank /\ ChangedIsWritten
    BY DEF SeenInv
  <1>2. EmptyFile.head.text = NoText
    BY DEF EmptyFile, NoHeader
  <1>3. CASE q = p
    <2>1. Create(p)
      <3>1. Create(p) \/ (pc[p] \in Appending /\ job'[p] = job[p])
        BY <1>1, <1>3, AppendingStep DEF Appending
      <3>2. CASE ~Create(p)
        <4>1. ~(PutHead(p) \/ PutBody(p) \/ WriteFails(p) \/ Cleanup(p) \/ Die(p))
          BY <1>1, <1>3, GroundFacts
          DEF PutHead, PutBody, WriteFails, Cleanup, Die, Goto
        <4>2. QED
          BY <1>1, <3>1, <3>2, <4>1, BeginStep
          DEF Step, Open, Close, Taken, Rescan, OpenFile, Lock, Busy,
              ReadHeader, PutHeader, PutText, Patch, Unlink, WriteAll,
              Replace, Mark, Change, RemoveAll, At, Appending
      <3>3. QED
        BY <3>1, <3>2
    <2>2. job'[p].id = made + 1 /\ file'[made + 1] = EmptyFile
      <3>1. made + 1 \in File
        BY <1>1, <2>1, GroundFacts, BoundsAssumption DEF Create, Room, File
      <3>2. QED
        BY <1>1, <2>1, <3>1, GroundFacts DEF Create, Job
    <2>3. QED
      BY <1>2, <1>3, <2>2
  <1>4. CASE q # p
    <2> DEFINE f == job[q].id
    <2>1. /\ pc[q] = "head" /\ job'[q] = job[q] /\ f \in File
          /\ f \in 1 .. made /\ made \in Nat
      BY <1>1, <1>4, OthersStay, JobFacts, GroundFacts DEF Ground, Appending
    <2>2. file[f].head.text = NoText
      BY <1>1, <2>1 DEF HeadIsBlank
    <2>3. ~(PutHead(p) /\ f = job[p].id)
      <3>1. SUFFICES ASSUME PutHead(p), f = job[p].id
                     PROVE  FALSE
        OBVIOUS
      <3>2. pc[p] = "head"
        BY <3>1 DEF PutHead, At
      <3>3. /\ Made(p) = Append(job[p].mine, job[p].id)
            /\ Made(q) = Append(job[q].mine, job[q].id)
            /\ job[p].mine \in Seq(File) /\ job[q].mine \in Seq(File)
        BY <1>1, <2>1, <3>2, JobFacts DEF Made, Appending
      <3>4. /\ Len(job[p].mine) + 1 \in DOMAIN Made(p)
            /\ Made(p)[Len(job[p].mine) + 1] = f
            /\ Len(job[q].mine) + 1 \in DOMAIN Made(q)
            /\ Made(q)[Len(job[q].mine) + 1] = f
        BY <3>1, <3>3, SMTT(20)
      <3>5. QED
        BY <1>1, <1>4, <3>4 DEF OneDraftOneFile
    <2>4. ~((PutHeader(p) \/ Patch(p)) /\ f = job[p].id)
      BY <1>1, <2>2 DEF ChangedIsWritten, PutHeader, Patch, At
    <2>5. f # made + 1
      BY <2>1
    <2>6. file'[f].head = file[f].head \/ file'[f] = EmptyFile
      BY <1>1, <2>1, <2>3, <2>4, <2>5, HeadStep
    <2>7. QED
      BY <1>2, <2>1, <2>2, <2>6
  <1>5. QED
    BY <1>3, <1>4

LEMMA StepChangedIsWritten ==
    ASSUME SeenInv, NEW p \in Proc, Step(p)
    PROVE  ChangedIsWritten'
  <1> SUFFICES ASSUME NEW q \in Proc, pc'[q] \in {"rehead", "rebody", "patch"}
               PROVE  file'[job'[q].id].head.text # NoText
    BY DEF ChangedIsWritten
  <1>1. Ground /\ ChangedIsWritten /\ NoText \notin Text
    BY MarkerAssumption DEF SeenInv
  <1>2. CASE q = p
    <2>1. /\ job'[p].id = job[p].id
          /\ Lock(p) \/ ReadHeader(p) \/ PutHeader(p)
          /\ ReadHeader(p) => UNCHANGED <<file, locked>>
      <3>1. ~(ReadHeader(p) /\ (Lock(p) \/ PutHeader(p)))
        BY DEF ReadHeader, Lock, PutHeader, At
      <3>2. QED
        BY <1>1, <1>2, <3>1, HoldingStep DEF Holding
    <2>2. CASE Lock(p)
      BY <1>1, <1>2, <2>2, GroundFacts DEF Lock, Goto
    <2>3. CASE ReadHeader(p)
      <3>1. ~Return(p, file)
        BY <1>1, <1>2, GroundFacts DEF Return, Goto
      <3>2. file[job[p].id].head.text # NoText
        BY <2>3, <3>1 DEF ReadHeader
      <3>3. QED
        BY <1>2, <2>1, <2>3, <3>2
    <2>4. CASE PutHeader(p)
      <3>1. job[p].id \in File /\ Head(job[p].rest) \in Text
        BY <1>1, <2>4, JobFacts DEF PutHeader, At, Holding
      <3>2. file'[job[p].id].head.text = Head(job[p].rest)
        BY <1>1, <2>4, <3>1, GroundFacts DEF PutHeader, Content
      <3>3. QED
        BY <1>1, <1>2, <2>1, <3>1, <3>2
    <2>5. QED
      BY <2>1, <2>2, <2>3, <2>4
  <1>3. CASE q # p
    <2> DEFINE f == job[q].id
    <2>1. /\ pc[q] \in {"rehead", "rebody", "patch"} /\ job'[q] = job[q]
          /\ f \in File /\ f \in 1 .. made /\ made \in Nat
      BY <1>1, <1>3, OthersStay, JobFacts, GroundFacts DEF Ground, Holding
    <2>2. file[f].head.text # NoText /\ f # made + 1
      BY <1>1, <2>1 DEF ChangedIsWritten
    <2>3. \/ file'[f].head = file[f].head
          \/ file'[f].head.text \in Text
          \/ file'[f].head.text = file[f].head.text
      BY <1>1, <1>3, <2>1, <2>2, HeadStep
    <2>4. QED
      BY <1>1, <2>1, <2>2, <2>3
  <1>4. QED
    BY <1>2, <1>3

LEMMA StepCarriedIsCurrent ==
    ASSUME SeenInv, NEW p \in Proc, Step(p)
    PROVE  CarriedIsCurrent'
  <1> SUFFICES ASSUME NEW q \in Proc, pc'[q] = "rehead",
                      file'[job'[q].id].head.seen
               PROVE  job'[q].was.seen
    BY DEF CarriedIsCurrent
  <1>1. Ground /\ LockHeld /\ CarriedIsCurrent
    BY DEF SeenInv
  <1>2. CASE q = p
    <2>1. CASE ReadHeader(p)
      <3>1. ~Return(p, file)
        BY <1>1, <1>2, GroundFacts DEF Return, Goto
      <3>2. job' = [job EXCEPT ![p].was = file[job[p].id].head] /\ file' = file
        BY <2>1, <3>1 DEF ReadHeader
      <3>3. job'[p].was = file[job[p].id].head /\ job'[p].id = job[p].id
        BY <1>1, <3>2, GroundFacts DEF Job
      <3>4. QED
        BY <1>2, <3>2, <3>3
    <2>2. CASE Lock(p) \/ PutHeader(p)
      BY <1>1, <1>2, <2>2, GroundFacts DEF Lock, PutHeader, Goto
    <2>3. QED
      BY <1>1, <1>2, <2>1, <2>2, HoldingStep DEF Holding
  <1>3. CASE q # p
    <2> DEFINE f == job[q].id
    <2>1. /\ pc[q] = "rehead" /\ job'[q] = job[q]
          /\ f \in File /\ f \in 1 .. made /\ made \in Nat
      BY <1>1, <1>3, OthersStay, JobFacts, GroundFacts DEF Ground, Holding
    <2>2. file[f].head.seen => job[q].was.seen
      BY <1>1, <2>1 DEF CarriedIsCurrent
    <2>3. ~((PutHeader(p) \/ Patch(p)) /\ f = job[p].id)
      BY <1>1, <1>3, <2>1 DEF LockHeld, PutHeader, Patch, At, Holding
    <2>4. f # made + 1
      BY <2>1
    <2>5. \/ file'[f].head = file[f].head
          \/ ~file'[f].head.seen
      BY <1>1, <1>3, <2>1, <2>3, <2>4, HeadStep
    <2>6. QED
      BY <2>1, <2>2, <2>5
  <1>4. QED
    BY <1>2, <1>3

LEMMA StepSeenInv ==
    ASSUME SeenInv, NEW p \in Proc, Step(p)
    PROVE  SeenInv'
  <1>1. Ground /\ OneDraftOneFile /\ LockHeld
    BY DEF SeenInv
  <1>2. Ground' /\ OneDraftOneFile' /\ LockHeld'
    BY <1>1, StepGround, StepOneDraft, StepLockHeld
  <1>3. QED
    BY <1>2, StepHeaders, StepHeadIsBlank, StepChangedIsWritten,
       StepCarriedIsCurrent
    DEF SeenInv

LEMMA StutterSeenInv == ASSUME SeenInv, UNCHANGED vars PROVE SeenInv'
  <1>1. Ground' /\ \A p \in Proc : Made(p)' = Made(p)
    BY StutterGround, StutterMade DEF SeenInv
  <1>2. OneDraftOneFile'
    BY <1>1 DEF SeenInv, OneDraftOneFile
  <1>3. UNCHANGED <<file, made, locked, pc, job>>
    BY DEF vars, disk
  <1>4. LockHeld' /\ SeenIsWritten' /\ NotMadeIsBlank'
    BY <1>3 DEF SeenInv, LockHeld, SeenIsWritten, NotMadeIsBlank
  <1>5. HeadIsBlank' /\ ChangedIsWritten' /\ CarriedIsCurrent'
    BY <1>3 DEF SeenInv, HeadIsBlank, ChangedIsWritten, CarriedIsCurrent
  <1>6. QED
    BY <1>1, <1>2, <1>4, <1>5 DEF SeenInv

\* A step that leaves the file its name leaves it its mark.
LEMMA StepSeenStays ==
    ASSUME SeenInv, NEW p \in Proc, Step(p),
           NEW f \in File, file[f].head.seen, NameOf(f)' # {}
    PROVE  file'[f].head.seen
  <1>1. /\ Ground /\ SeenIsWritten /\ NotMadeIsBlank /\ HeadIsBlank
        /\ CarriedIsCurrent /\ made \in Nat
    BY GroundFacts DEF SeenInv
  <1>2. file[f].head.text # NoText /\ ~(f > made)
    BY <1>1 DEF SeenIsWritten, NotMadeIsBlank
  <1>3. ~(Create(p) /\ f = made + 1)
    BY <1>1, <1>2
  <1>4. ~(PutHead(p) /\ f = job[p].id)
    BY <1>1, <1>2 DEF HeadIsBlank, PutHead, At
  <1>5. PutHeader(p) /\ f = job[p].id => job[p].was.seen
    BY <1>1 DEF CarriedIsCurrent, PutHeader, At
  <1>6. QED
    BY <1>1, <1>3, <1>4, <1>5, HeadStep

\* The comment in markSeen(): replace() may be rewriting the header meanwhile,
\* "including the word this patches".  The lock of the file is what keeps the
\* mark, and that an append has its file to itself until its header is there.
THEOREM MarksStay == Spec => SeenStays
  <1>1. Init => SeenInv
    <2>1. Init => /\ OneDraftOneFile /\ LockHeld /\ SeenIsWritten
                  /\ NotMadeIsBlank /\ HeadIsBlank /\ ChangedIsWritten
                  /\ CarriedIsCurrent
      BY DEF Init, OneDraftOneFile, Made, Appending, Holding, NoJob, LockHeld,
             SeenIsWritten, NotMadeIsBlank, HeadIsBlank, ChangedIsWritten,
             CarriedIsCurrent, EmptyFile, NoHeader
    <2>2. QED
      BY <2>1, InitGround DEF SeenInv
  <1>2. SeenInv /\ [Next]_vars => SeenInv'
    BY StepSeenInv, StutterSeenInv DEF Next
  <1>3. SeenInv /\ [Next]_vars =>
            [\A f \in File : file[f].head.seen /\ NameOf(f)' # {} =>
                                file'[f].head.seen]_vars
    BY StepSeenStays DEF Next
  <1>4. QED
    BY <1>1, <1>2, <1>3, PTL DEF Spec, SeenStays

(***************************************************************************)
(* The run of messages                                                     *)
(***************************************************************************)

\* --------------------------------------------------------------------------
\* The invariant

Steps == {"open", "walk", "hand", "put", "reopen", "ended", "pick", "take", "done"}
\* The walk that carries is under way; the walk that takes out is.
Carrying == phase \in {"walk", "hand", "put", "reopen"}
Removing == phase \in {"pick", "take"}
Old1 == Original \cup {Gone}

\* What an area holds, what is carried, and what is picked to be removed.
Message == [uid : Nat, of : Nat \cup {Gone}]
Carried == [uid : Original, of : Old1]
Numbered == [uid : Nat, number : Nat]

Typed ==
    /\ source \in Seq(Message)
    /\ target \in Seq(Carried)
    /\ nextUid \in Nat /\ nextUid > Old
    /\ asked \subseteq Original /\ marks \subseteq asked
    /\ phase \in Steps
    /\ table \in Seq(Nat)
    /\ from \in Nat /\ last \in Nat
    /\ chunk \in Seq(Carried)
    /\ picked \in Seq(Numbered)
    /\ stored \subseteq Original
    /\ stopped \in BOOLEAN /\ refused \in BOOLEAN

\* UIDs go up.  The open base's table is not ahead of the area: what stands at
\* a number now is what stood there when the table was read, or came after it.
Areas ==
    /\ \A i, j \in DOMAIN source : i < j => source[i].uid < source[j].uid
    /\ \A i \in DOMAIN source :
          /\ source[i].uid < nextUid
          /\ \/ source[i].of = source[i].uid
             \/ kind = "here" /\ source[i].uid > Old /\ source[i].of \in Old1
    /\ \A i, j \in DOMAIN table : i < j => table[i] < table[j]
    /\ \A i \in DOMAIN table : table[i] < nextUid
    /\ \A i \in DOMAIN source \cap DOMAIN table : table[i] <= source[i].uid

\* What is in hand where.
Phases ==
    /\ Carrying \/ phase = "ended" => kind # "delete"
    /\ Removing => kind \in {"move", "delete"}
    /\ phase = "reopen" => kind # "here"
    /\ Removing => from <= Len(table)
    /\ Carrying => from >= 1
    /\ phase \notin {"walk", "hand", "put"} => chunk = <<>>
    /\ ~ Removing => picked = <<>>
    /\ phase = "take" => from = 0 \/ picked # <<>> \/ (kind = "delete" /\ stopped)
    /\ phase = "open" =>
          /\ target = <<>> /\ stored = {}
          /\ \A i \in DOMAIN source : source[i].of = source[i].uid

\* Where messages are carried to, and which of it was carried.
Target == IF kind = "here" THEN source ELSE target
Copies == {n \in DOMAIN Target : Target[n].of # Gone
                /\ (kind = "here" => Target[n].uid # Target[n].of)}

\* What was carried comes before what is in hand, and that before what the walk
\* has still to come to, in the table and on the disk.
Order ==
    /\ \A i, j \in Copies : i < j => Target[i].of < Target[j].of
    /\ \A i, j \in DOMAIN chunk :
          i < j /\ chunk[i].of # Gone /\ chunk[j].of # Gone => chunk[i].of < chunk[j].of
    /\ \A i \in Copies, j \in DOMAIN chunk :
          chunk[j].of # Gone => Target[i].of < chunk[j].of
    /\ Carrying =>
        /\ \A i \in Copies :
              /\ \A n \in DOMAIN source : n >= from => Target[i].of < source[n].uid
              /\ \A n \in DOMAIN table : n >= from => Target[i].of < table[n]
        /\ \A i \in DOMAIN chunk : chunk[i].of # Gone =>
              /\ \A n \in DOMAIN source : n >= from => chunk[i].of < source[n].uid
              /\ \A n \in DOMAIN table : n >= from => chunk[i].of < table[n]

Here(m) == \E n \in DOMAIN source : source[n].uid = m

\* A message that is not in its area went by the packer or, if that leaves the
\* numbers alone while they are in hand, as it should.
Kept ==
    /\ \A m \in Original : Here(m) \/ m \in packed
          \/ /\ Removing \/ phase = "done"
             /\ \/ Packs = "any"
                \/ kind = "move" /\ m \in stored
                \/ kind = "delete" /\ m \in asked \ marks
    /\ \A m \in stored : m \in packed \/ m \in In(target)
    /\ kind = "move" => \A n \in DOMAIN target : target[n].of \in stored \cup {Gone}
    /\ \A i \in DOMAIN chunk : \/ chunk[i].of = chunk[i].uid
                               \/ chunk[i].of = Gone /\ chunk[i].uid \in packed

Passed(m) == CASE kind = "move" -> m \in stored
               [] kind = "copy" -> m \in In(target)
               [] OTHER -> TRUE

\* Nothing was packed: the old messages stand where they stood, and what the
\* walk has left behind it is in hand or passed on.
Straight ==
    packed = {} =>
        /\ ~ Removing /\ phase # "done" =>
              /\ Old <= Len(source) /\ Old <= Len(table)
              /\ \A m \in Original : source[m].uid = m
        /\ Carrying \/ phase = "ended" => last >= Old
        /\ Carrying \/ (phase = "ended" /\ ~ refused) =>
              \A m \in asked : m < from =>
                  Passed(m) \/ \E i \in DOMAIN chunk : chunk[i].uid = m
        /\ (Removing \/ phase = "done") /\ ~ stopped /\ ~ refused /\ kind \in {"move", "copy"} =>
              \A m \in asked : Passed(m)

Walked ==
    /\ phase = "hand" /\ chunk = <<>> /\ ~ stopped => from > last
    /\ phase = "ended" /\ ~ refused /\ ~ stopped => from > last

\* The table is what the area begins with, unless a packer has come since.
Fresh == \A n \in DOMAIN table : n \in DOMAIN source /\ source[n].uid = table[n]
Current ==
    packed = {} \/ (Packs # "any" /\ phase \in {"open", "walk", "hand", "pick", "take"}) => Fresh

\* The numbers in hand are of the set, and behind the walk; if the table is
\* current, nothing else of a move's set is left behind it.
Removal ==
    /\ Removing => \A i \in DOMAIN picked :
          /\ picked[i].number \in DOMAIN table
          /\ picked[i].number > from
          /\ picked[i].uid = table[picked[i].number]
          /\ picked[i].uid \in ToRemove
    /\ Packs # "any" /\ kind = "move" =>
          /\ Removing => \A n \in DOMAIN source : n > from /\ source[n].uid \in stored =>
                \E i \in DOMAIN picked : picked[i].number = n
          /\ phase = "done" /\ ~ refused => \A n \in DOMAIN source : source[n].uid \notin stored

IInv == /\ Typed /\ Areas /\ Phases /\ Order /\ Kept
        /\ Straight /\ Walked /\ Current /\ Removal

\* --------------------------------------------------------------------------
\* Sequences

\* A nonempty set of numbers has a least one.
LEMMA LeastNumber ==
    ASSUME NEW T \in SUBSET Nat, T # {}
    PROVE  \E n \in T : \A m \in T : n <= m
<1>1. PICK n \in T : \A m \in T : ~ (<<m, n>> \in OpToRel(<, Nat))
  BY WFMin, NatLessThanWellFounded
<1>2. \A m \in T : ~ (m < n)
  BY <1>1 DEF OpToRel
<1> QED
  BY <1>2

LEMMA Removed ==
    ASSUME NEW S, NEW s \in Seq(S), NEW n \in DOMAIN s
    PROVE  /\ RemoveAt(s, n) \in Seq(S)
           /\ Len(RemoveAt(s, n)) = Len(s) - 1
           /\ \A i \in 1 .. Len(s) - 1 :
                RemoveAt(s, n)[i] = s[IF i < n THEN i ELSE i + 1]
<1>1. n \in 1 .. Len(s) /\ Len(s) \in Nat
  OBVIOUS
<1> DEFINE before == SubSeq(s, 1, n - 1)
           after == SubSeq(s, n + 1, Len(s))
<1>2. /\ before \in Seq(S) /\ Len(before) = n - 1
      /\ \A i \in 1 .. n - 1 : before[i] = s[i]
  BY <1>1
<1>3. /\ after \in Seq(S) /\ Len(after) = Len(s) - n
      /\ \A i \in 1 .. Len(s) - n : after[i] = s[n + i]
  BY <1>1
<1>4. RemoveAt(s, n) = before \o after
  BY DEF RemoveAt
<1> HIDE DEF before, after
<1>5. before \o after \in Seq(S) /\ Len(before \o after) = Len(s) - 1
  BY <1>1, <1>2, <1>3
<1>5a. \A i \in 1 .. Len(before) + Len(after) :
            (before \o after)[i] = IF i <= Len(before) THEN before[i]
                                   ELSE after[i - Len(before)]
  <2>1. before \in Seq(S) /\ after \in Seq(S)
    BY <1>2, <1>3
  <2> QED
    BY <2>1
<1>6. ASSUME NEW i \in 1 .. Len(s) - 1
      PROVE  (before \o after)[i] = s[IF i < n THEN i ELSE i + 1]
  <2>1. CASE i < n
    BY <2>1, <1>1, <1>2, <1>3
  <2>2. CASE ~ (i < n)
    <3>1. i - (n - 1) \in 1 .. Len(s) - n /\ n + (i - (n - 1)) = i + 1
      BY <2>2, <1>1
    <3>2. (before \o after)[i] = after[i - (n - 1)]
      <4>1. i \in 1 .. Len(before) + Len(after) /\ ~ (i <= Len(before))
        BY <2>2, <1>1, <1>2, <1>3
      <4>2. Len(before) = n - 1
        BY <1>2
      <4> QED
        BY <1>5a, <4>1, <4>2
    <3> QED
      BY <3>1, <3>2, <2>2, <1>3
  <2> QED
    BY <2>1, <2>2
<1> QED
  BY <1>4, <1>5, <1>6

\* What is left of a table when some numbers go out of it: place says where each
\* message stood, in order, and what stood before all of them has not moved.
Placed(s, nums, n, r, place) ==
    /\ place \in [DOMAIN r -> 1 .. n]
    /\ \A j \in DOMAIN r : /\ r[j] = s[place[j]]
                           /\ place[j] \notin nums
                           /\ j <= place[j]
    /\ \A i, j \in DOMAIN r : i < j => place[i] < place[j]
    /\ \A i \in (1 .. n) \ nums : \E j \in DOMAIN r : place[j] = i
    /\ \A i \in 1 .. n : (\A k \in nums : i < k) => i \in DOMAIN r /\ place[i] = i

\* The recursion of TakenOut, up to m messages.
Leaves(s, nums, m, left) ==
    left = [n \in 0 .. m |-> IF n = 0 THEN <<>>
                             ELSE IF n \in nums THEN left[n - 1]
                             ELSE Append(left[n - 1], s[n])]

\* The same, case by case.
StepByStep(s, nums, m, left) ==
    /\ left[0] = <<>>
    /\ \A n \in 1 .. m : n \in nums => left[n] = left[n - 1]
    /\ \A n \in 1 .. m : n \notin nums => left[n] = Append(left[n - 1], s[n])

LEMMA LeavesStep ==
    ASSUME NEW s, NEW nums, NEW m \in Nat, NEW left, Leaves(s, nums, m, left)
    PROVE  StepByStep(s, nums, m, left)
<1> DEFINE F(n) == IF n = 0 THEN <<>>
                   ELSE IF n \in nums THEN left[n - 1]
                   ELSE Append(left[n - 1], s[n])
<1>1. left = [n \in 0 .. m |-> F(n)]
  BY DEF Leaves
<1>2. \A n \in 0 .. m : left[n] = F(n)
  <2> HIDE DEF F
  <2> QED
    BY <1>1
<1>3. left[0] = F(0) /\ \A n \in 1 .. m : left[n] = F(n) /\ n # 0
  BY <1>2
<1> QED
  BY <1>3 DEF StepByStep

LEMMA LeavesExists ==
    ASSUME NEW s, NEW nums, NEW m \in Nat
    PROVE  \E left : Leaves(s, nums, m, left)
<1> DEFINE T == {k \in Nat : ~ \E left : Leaves(s, nums, k, left)}
<1>1. SUFFICES ASSUME T # {} PROVE FALSE
  OBVIOUS
<1>2. PICK n \in T : \A k \in T : n <= k
  BY <1>1, LeastNumber
<1>3. CASE n = 0
  <2> DEFINE left == [k \in 0 .. 0 |-> <<>>]
  <2>1. Leaves(s, nums, 0, left)
    BY DEF Leaves
  <2> QED
    BY <2>1, <1>3
<1>4. CASE n # 0
  <2>1. n \in Nat /\ n - 1 \in Nat /\ n - 1 \notin T
    BY <1>2, <1>4
  <2>2. PICK left : Leaves(s, nums, n - 1, left)
    BY <2>1
  <2>a. /\ left[0] = <<>>
        /\ \A k \in 1 .. n - 1 : k \in nums => left[k] = left[k - 1]
        /\ \A k \in 1 .. n - 1 : k \notin nums => left[k] = Append(left[k - 1], s[k])
    <3> HIDE DEF T
    <3>1. StepByStep(s, nums, n - 1, left)
      BY <2>1, <2>2, LeavesStep
    <3> QED
      BY <3>1 DEF StepByStep
  <2> DEFINE next == [k \in 0 .. n |->
                        IF k = n THEN IF n \in nums THEN left[n - 1]
                                      ELSE Append(left[n - 1], s[n])
                        ELSE left[k]]
  <2>3. \A k \in 0 .. n - 1 : next[k] = left[k] /\
            left[k] = IF k = 0 THEN <<>>
                      ELSE IF k \in nums THEN left[k - 1]
                      ELSE Append(left[k - 1], s[k])
    <3>1. ASSUME NEW k \in 0 .. n - 1 PROVE next[k] = left[k]
      BY <2>1
    <3>3. \A k \in 0 .. n - 1 : k = 0 \/ k \in 1 .. n - 1
      BY <2>1
    <3> HIDE DEF next
    <3> QED
      BY <2>a, <3>1, <3>3
  <2>4. ASSUME NEW k \in 0 .. n
        PROVE  next[k] = IF k = 0 THEN <<>>
                         ELSE IF k \in nums THEN next[k - 1]
                         ELSE Append(next[k - 1], s[k])
    <3>1. CASE k = n
      <4>1. next[n] = IF n \in nums THEN left[n - 1] ELSE Append(left[n - 1], s[n])
        BY <2>1
      <4>2. next[n - 1] = left[n - 1]
        BY <2>1, <2>3
      <4> QED
        BY <4>1, <4>2, <3>1, <1>4
    <3>2. CASE k # n
      <4>1. k \in 0 .. n - 1
        BY <3>2, <2>1
      <4>2. k = 0 \/ k - 1 \in 0 .. n - 1
        BY <4>1, <2>1
      <4> QED
        BY <4>1, <4>2, <2>3
    <3> QED
      BY <3>1, <3>2
  <2>5. DOMAIN next = 0 .. n
    OBVIOUS
  <2>6. next = [k \in 0 .. n |-> next[k]]
    OBVIOUS
  <2> HIDE DEF next
  <2>7. Leaves(s, nums, n, next)
    BY <2>4, <2>6 DEF Leaves
  <2> QED
    BY <2>7, <1>2
<1> QED
  BY <1>3, <1>4

LEMMA LeavesPlaced ==
    ASSUME NEW S, NEW s \in Seq(S), NEW nums \in SUBSET Nat,
           NEW left, Leaves(s, nums, Len(s), left), NEW m \in 0 .. Len(s)
    PROVE  left[m] \in Seq(S) /\ \E place : Placed(s, nums, m, left[m], place)
<1>b. /\ left[0] = <<>>
      /\ \A n \in 1 .. Len(s) : n \in nums => left[n] = left[n - 1]
      /\ \A n \in 1 .. Len(s) : n \notin nums => left[n] = Append(left[n - 1], s[n])
  <2>1. Len(s) \in Nat
    OBVIOUS
  <2>2. StepByStep(s, nums, Len(s), left)
    BY <2>1, LeavesStep
  <2> QED
    BY <2>2 DEF StepByStep
<1> DEFINE T == {k \in 0 .. Len(s) :
                    ~ (left[k] \in Seq(S) /\ \E place : Placed(s, nums, k, left[k], place))}
<1>0. Len(s) \in Nat /\ DOMAIN s = 1 .. Len(s)
  OBVIOUS
<1>1. SUFFICES ASSUME T # {} PROVE FALSE
  OBVIOUS
<1>2. PICK n \in T : \A k \in T : n <= k
  <2>1. T \in SUBSET Nat
    BY <1>0
  <2> HIDE DEF T
  <2> QED
    BY <1>1, <2>1, LeastNumber
<1>3. CASE n = 0
  <2> DEFINE place == [j \in {} |-> 0]
  <2>1. left[0] = <<>>
    BY <1>b
  <2>2. Placed(s, nums, 0, <<>>, place)
    BY DEF Placed
  <2>3. left[0] \in Seq(S)
    BY <2>1
  <2>4. left[n] \in Seq(S) /\ Placed(s, nums, n, left[n], place)
    BY <2>1, <2>2, <2>3, <1>3
  <2> QED
    BY <2>4
<1>4. CASE n # 0
  <2>1. n \in 1 .. Len(s) /\ n - 1 \in 0 .. Len(s) /\ n - 1 \notin T
    <3>1. n \in 0 .. Len(s)
      OBVIOUS
    <3>2. n \in 1 .. Len(s) /\ n - 1 \in 0 .. Len(s) /\ ~ (n <= n - 1)
      BY <3>1, <1>0, <1>4
    <3> QED
      BY <3>2, <1>2
  <2> DEFINE r == left[n - 1]
  <2>2. r \in Seq(S)
    BY <2>1
  <2>3. PICK place : Placed(s, nums, n - 1, r, place)
    BY <2>1
  <2>4. DOMAIN r = 1 .. Len(r) /\ Len(r) \in Nat
    BY <2>2
  <2>5. left[n] = IF n \in nums THEN r ELSE Append(r, s[n])
    BY <1>b, <2>1
  <2> HIDE DEF r
  <2>6. CASE n \in nums
    <3>1. \A i \in 1 .. n : i # n => i \in 1 .. n - 1
      BY <2>1, <1>0
    <3>2. \A i \in 1 .. n - 1 : i \in 1 .. n
      BY <2>1, <1>0
    <3>3. place \in [DOMAIN r -> 1 .. n]
      BY <2>3, <3>2 DEF Placed
    <3>4. \A i \in (1 .. n) \ nums : \E j \in DOMAIN r : place[j] = i
      BY <2>3, <2>6, <3>1 DEF Placed
    <3>5. ASSUME NEW i \in 1 .. n, \A k \in nums : i < k
          PROVE  i \in DOMAIN r /\ place[i] = i
      <4>1. i < n /\ i \in 1 .. n - 1
        BY <3>5, <2>6, <3>1
      <4> QED
        BY <4>1, <3>5, <2>3 DEF Placed
    <3>6. Placed(s, nums, n, r, place)
      BY <2>3, <3>3, <3>4, <3>5 DEF Placed
    <3>7. n \notin T
      BY <3>6, <2>2, <2>5, <2>6
    <3> QED
      BY <3>7, <1>2
  <2>7. CASE n \notin nums
    <3> DEFINE more == Append(r, s[n])
               next == [j \in 1 .. Len(r) + 1 |-> IF j = Len(r) + 1 THEN n ELSE place[j]]
    <3>1. /\ more \in Seq(S) /\ DOMAIN more = 1 .. Len(r) + 1
          /\ more[Len(r) + 1] = s[n]
          /\ \A j \in 1 .. Len(r) : more[j] = r[j]
      BY <2>1, <2>2, <2>4
    <3>2. /\ next[Len(r) + 1] = n
          /\ \A j \in 1 .. Len(r) : next[j] = place[j]
          /\ DOMAIN next = 1 .. Len(r) + 1
      BY <2>4
    <3>3. \A j \in 1 .. Len(r) : place[j] \in 1 .. n - 1
      BY <2>3, <2>4 DEF Placed
    <3>4. next \in [DOMAIN more -> 1 .. n]
      BY <2>1, <2>4, <3>1, <3>3
    <3> HIDE DEF more, next
    <3>5. Len(r) + 1 <= n
      <4>1. CASE Len(r) = 0
        BY <4>1, <2>1
      <4>2. CASE Len(r) # 0
        <5>1. Len(r) \in DOMAIN r /\ Len(r) <= place[Len(r)] /\ place[Len(r)] \in 1 .. n - 1
          BY <4>2, <2>3, <2>4, <3>3 DEF Placed
        <5> QED
          BY <5>1, <2>1, <2>4, <1>0
      <4> QED
        BY <4>1, <4>2
    <3>6. ASSUME NEW j \in DOMAIN more
          PROVE  more[j] = s[next[j]] /\ next[j] \notin nums /\ j <= next[j]
      <4>1. CASE j = Len(r) + 1
        BY <4>1, <2>7, <3>1, <3>2, <3>5
      <4>2. CASE j # Len(r) + 1
        <5>1. j \in DOMAIN r
          BY <4>2, <2>4, <3>1
        <5> QED
          BY <5>1, <2>3, <2>4, <3>1, <3>2 DEF Placed
      <4> QED
        BY <4>1, <4>2
    <3>7. ASSUME NEW i \in DOMAIN more, NEW j \in DOMAIN more, i < j
          PROVE  next[i] < next[j]
      <4>1. i \in DOMAIN r
        BY <2>4, <3>1, <3>7
      <4>2. CASE j = Len(r) + 1
        BY <4>1, <4>2, <2>1, <2>4, <3>2, <3>3, <1>0
      <4>3. CASE j # Len(r) + 1
        <5>1. j \in DOMAIN r
          BY <4>3, <2>4, <3>1
        <5> QED
          BY <4>1, <5>1, <2>3, <2>4, <3>2, <3>7 DEF Placed
      <4> QED
        BY <4>2, <4>3
    <3>8. ASSUME NEW i \in (1 .. n) \ nums
          PROVE  \E j \in DOMAIN more : next[j] = i
      <4>1. CASE i = n
        BY <4>1, <2>4, <3>1, <3>2
      <4>2. CASE i # n
        <5>1. i \in (1 .. n - 1) \ nums
          BY <4>2, <2>1, <1>0
        <5>2. PICK j \in DOMAIN r : place[j] = i
          BY <5>1, <2>3 DEF Placed
        <5> QED
          BY <5>2, <2>4, <3>1, <3>2
      <4> QED
        BY <4>1, <4>2
    <3>9. ASSUME NEW i \in 1 .. n, \A k \in nums : i < k
          PROVE  i \in DOMAIN more /\ next[i] = i
      <4>1. CASE i # n
        <5>1. i \in 1 .. n - 1
          BY <4>1, <2>1, <1>0
        <5>2. i \in DOMAIN r /\ place[i] = i
          BY <5>1, <2>3, <3>9 DEF Placed
        <5> QED
          BY <5>2, <2>4, <3>1, <3>2
      <4>2. CASE i = n
        <5>1. CASE n = 1
          BY <4>2, <5>1, <2>4, <3>1, <3>2, <3>5
        <5>2. CASE n # 1
          <6>1. n - 1 \in 1 .. n - 1 /\ \A k \in nums : n - 1 < k
            BY <5>2, <4>2, <2>1, <3>9, <1>0
          <6>2. n - 1 \in DOMAIN r
            BY <6>1, <2>3 DEF Placed
          <6>3. n = Len(r) + 1
            BY <6>2, <2>1, <2>4, <3>5, <1>0
          <6> QED
            BY <6>3, <4>2, <2>4, <3>1, <3>2
        <5> QED
          BY <5>1, <5>2
      <4> QED
        BY <4>1, <4>2
    <3>10. Placed(s, nums, n, more, next)
      BY <3>4, <3>6, <3>7, <3>8, <3>9 DEF Placed
    <3>11. left[n] = more
      BY <2>5, <2>7 DEF more
    <3>12. n \notin T
      BY <3>1, <3>10, <3>11
    <3> QED
      BY <3>12, <1>2
  <2> QED
    BY <2>6, <2>7
<1> QED
  BY <1>3, <1>4

LEMMA TakenOutPlaced ==
    ASSUME NEW S, NEW s \in Seq(S), NEW nums \in SUBSET Nat
    PROVE  /\ TakenOut(s, nums) \in Seq(S)
           /\ \E place : Placed(s, nums, Len(s), TakenOut(s, nums), place)
<1> DEFINE left == CHOOSE f : Leaves(s, nums, Len(s), f)
<1>1. Len(s) \in Nat
  OBVIOUS
<1>2. Leaves(s, nums, Len(s), left)
  BY <1>1, LeavesExists
<1>3. TakenOut(s, nums) = left[Len(s)]
  BY Zenon DEF TakenOut, Leaves
<1> HIDE DEF left
<1>4. left[Len(s)] \in Seq(S) /\ \E place : Placed(s, nums, Len(s), left[Len(s)], place)
  <2>1. Len(s) \in 0 .. Len(s)
    BY <1>1
  <2> QED
    BY <2>1, <1>2, LeavesPlaced
<1> QED
  BY <1>3, <1>4

\* --------------------------------------------------------------------------
\* What the invariant says of the tables, entry by entry

Shape ==
    /\ DOMAIN source = 1 .. Len(source) /\ Len(source) \in Nat
    /\ DOMAIN target = 1 .. Len(target) /\ Len(target) \in Nat
    /\ DOMAIN table = 1 .. Len(table) /\ Len(table) \in Nat
    /\ DOMAIN chunk = 1 .. Len(chunk) /\ Len(chunk) \in Nat
    /\ DOMAIN picked = 1 .. Len(picked) /\ Len(picked) \in Nat
    /\ \A i \in DOMAIN source : source[i].uid \in Nat /\ source[i].of \in Nat \cup {Gone}
    /\ \A i \in DOMAIN target : target[i].uid \in Original /\ target[i].of \in Old1
    /\ \A i \in DOMAIN table : table[i] \in Nat
    /\ \A i \in DOMAIN chunk : chunk[i].uid \in Original /\ chunk[i].of \in Old1
    /\ \A i \in DOMAIN picked : picked[i].uid \in Nat /\ picked[i].number \in Nat

LEMMA Entries ==
    ASSUME NEW S, NEW s \in Seq(S)
    PROVE  /\ DOMAIN s = 1 .. Len(s) /\ Len(s) \in Nat
           /\ \A i \in DOMAIN s : s[i] \in S
OBVIOUS

LEMMA Fields ==
    /\ \A m \in Message : m.uid \in Nat /\ m.of \in Nat \cup {Gone}
    /\ \A m \in Carried : m.uid \in Original /\ m.of \in Old1
    /\ \A m \in Numbered : m.uid \in Nat /\ m.number \in Nat
BY DEF Message, Carried, Numbered

LEMMA ShapeOfTyped ==
    ASSUME Typed PROVE Shape
<1>1. DOMAIN source = 1 .. Len(source) /\ Len(source) \in Nat /\ \A i \in DOMAIN source : source[i] \in Message
  BY Entries DEF Typed
<1>2. DOMAIN target = 1 .. Len(target) /\ Len(target) \in Nat /\ \A i \in DOMAIN target : target[i] \in Carried
  BY Entries DEF Typed
<1>3. DOMAIN table = 1 .. Len(table) /\ Len(table) \in Nat /\ \A i \in DOMAIN table : table[i] \in Nat
  BY Entries DEF Typed
<1>4. DOMAIN chunk = 1 .. Len(chunk) /\ Len(chunk) \in Nat /\ \A i \in DOMAIN chunk : chunk[i] \in Carried
  BY Entries DEF Typed
<1>5. DOMAIN picked = 1 .. Len(picked) /\ Len(picked) \in Nat /\ \A i \in DOMAIN picked : picked[i] \in Numbered
  BY Entries DEF Typed
<1> QED
  BY <1>1, <1>2, <1>3, <1>4, <1>5, Fields DEF Shape

LEMMA ShapeNow ==
    ASSUME IInv PROVE Shape
BY ShapeOfTyped DEF IInv

\* What was carried is one of the messages the area held at first.
LEMMA CopiesAreOld ==
    ASSUME IInv
    PROVE  \A i \in Copies : i \in DOMAIN Target /\ Target[i].of \in Original
<1>1. Shape
  BY ShapeNow
<1>2. ASSUME NEW i \in Copies PROVE i \in DOMAIN Target /\ Target[i].of \in Original
  <2>1. i \in DOMAIN Target /\ Target[i].of # Gone /\ (kind = "here" => Target[i].uid # Target[i].of)
    BY DEF Copies
  <2>2. CASE kind = "here"
    BY <2>1, <2>2 DEF Target, IInv, Areas, Old1
  <2>3. CASE kind # "here"
    BY <1>1, <2>1, <2>3 DEF Target, Shape, Old1
  <2> QED
    BY <2>2, <2>3
<1> QED
  BY <1>2

\* The numbers of the messages the area held at first.
LEMMA OldIsNat ==
    /\ Old \in Nat
    /\ \A m \in Original : m \in Nat /\ 1 <= m /\ m <= Old
    /\ Original \subseteq Nat /\ Gone \notin Original
BY OldAssumption, GoneAssumption DEF Original

LEMMA FreshOpened ==
    ASSUME Shape, table = Uids(source)
    PROVE  /\ Len(table) = Len(source) /\ DOMAIN table = DOMAIN source
           /\ \A i \in DOMAIN source : table[i] = source[i].uid
BY DEF Shape, Uids

LEMMA UidsTyped ==
    ASSUME NEW s \in Seq(Message)
    PROVE  /\ Uids(s) \in Seq(Nat) /\ Len(Uids(s)) = Len(s) /\ DOMAIN Uids(s) = DOMAIN s
           /\ \A i \in DOMAIN s : Uids(s)[i] = s[i].uid
<1>1. Uids(s) = [n \in DOMAIN s |-> s[n].uid]
  BY DEF Uids
<1>2. DOMAIN s = 1 .. Len(s) /\ Len(s) \in Nat /\ \A n \in DOMAIN s : s[n].uid \in Nat
  BY Entries, Fields
<1>3. [n \in 1 .. Len(s) |-> s[n].uid] \in Seq(Nat)
  BY <1>2
<1> QED
  BY <1>1, <1>2, <1>3

LEMMA InitIInv ==
    ASSUME PassInit PROVE IInv
<1> USE DEF PassInit
<1>1. Old \in Nat /\ DOMAIN source = Original /\ Original = 1 .. Old
  BY OldIsNat DEF Original
<1>2. \A n \in DOMAIN source : source[n].uid = n /\ source[n].of = n /\ n \in Nat
  BY <1>1
<1>3. source \in Seq(Message) /\ Len(source) = Old
  <2>1. \A n \in DOMAIN source : source[n] \in Message
    BY <1>1 DEF Message
  <2>2. source = [n \in 1 .. Old |-> source[n]]
    BY <1>1
  <2> QED
    BY <1>1, <2>1, <2>2
<1>4. /\ table \in Seq(Nat) /\ Len(table) = Old /\ DOMAIN table = DOMAIN source
      /\ \A i \in DOMAIN source : table[i] = source[i].uid
  BY <1>3, UidsTyped
<1>a. /\ target = <<>> /\ nextUid = Old + 1 /\ packed = {} /\ asked \subseteq Original
      /\ marks = asked /\ phase = "open" /\ from = 1 /\ last = 0 /\ chunk = <<>>
      /\ picked = <<>> /\ stored = {} /\ stopped = FALSE /\ refused = FALSE
  OBVIOUS
<1>5. Typed
  <2>1. <<>> \in Seq(Carried) /\ <<>> \in Seq(Numbered)
    OBVIOUS
  <2>2. nextUid \in Nat /\ nextUid > Old
    BY <1>1, <1>a
  <2>3. phase \in Steps
    BY <1>a DEF Steps
  <2>4. from \in Nat /\ last \in Nat /\ stored \subseteq Original
    BY <1>a
  <2>5. stopped \in BOOLEAN /\ refused \in BOOLEAN
    BY <1>a
  <2>6. marks \subseteq asked
    BY <1>a
  <2> HIDE DEF PassInit
  <2> QED
    BY <1>a, <1>3, <1>4, <2>1, <2>2, <2>3, <2>4, <2>5, <2>6 DEF Typed
<1>6. Areas
  <2>1. nextUid = Old + 1
    OBVIOUS
  <2> HIDE DEF PassInit
  <2>2. \A i \in DOMAIN source : i < nextUid
    BY <1>1, <2>1
  <2>3. \A i, j \in DOMAIN source : i < j => source[i].uid < source[j].uid /\ table[i] < table[j]
    BY <1>2, <1>4
  <2>4. \A i \in DOMAIN source : source[i].uid <= source[i].uid
    BY <1>2
  <2> QED
    BY <1>2, <1>4, <2>2, <2>3, <2>4 DEF Areas
<1>7. Phases
  BY <1>2 DEF Phases, Carrying, Removing
<1>8. Order
  <2>1. Copies = {}
    BY <1>2 DEF Copies, Target
  <2> QED
    BY <2>1 DEF Order, Carrying
<1>9. Kept
  BY <1>1, <1>2 DEF Kept, Here, In
<1>10. Straight
  BY <1>1, <1>2, <1>3, <1>4 DEF Straight, Carrying, Removing
<1>11. Walked /\ Removal
  BY DEF Walked, Removal, Removing
<1>12. Current
  BY <1>4 DEF Current, Fresh
<1> QED
  BY <1>5, <1>6, <1>7, <1>8, <1>9, <1>10, <1>11, <1>12 DEF IInv

\* --------------------------------------------------------------------------
\* Others

LEMMA DeliverKeeps ==
    ASSUME IInv, Deliver PROVE IInv'
<1>0. Shape /\ Typed /\ Areas /\ Phases /\ Order /\ Kept /\ Straight /\ Walked /\ Current /\ Removal
  BY ShapeNow DEF IInv
<1> DEFINE new == Len(source) + 1
           message == [uid |-> nextUid, of |-> nextUid]
<1>1. /\ source' \in Seq(Message)
      /\ Len(source') = new /\ DOMAIN source' = 1 .. new
      /\ \A i \in DOMAIN source : i \in DOMAIN source' /\ source'[i] = source[i]
      /\ new \in DOMAIN source' /\ source'[new] = message
      /\ \A i \in DOMAIN source' : i = new \/ i \in DOMAIN source
  <2>1. message \in Message /\ source \in Seq(Message)
    BY <1>0 DEF Typed, Message
  <2>2. source' = Append(source, message)
    BY DEF Deliver
  <2> HIDE DEF message
  <2> QED
    BY <2>1, <2>2
<1>2. /\ source'[new].uid = nextUid /\ source'[new].of = nextUid
      /\ nextUid \in Nat /\ nextUid > Old /\ nextUid' = nextUid + 1
  BY <1>0, <1>1 DEF Typed, Deliver
<1> HIDE DEF message
<1>3. UNCHANGED <<target, packed, kind, asked, marks, phase, table, from, last,
                  chunk, picked, stored, stopped, refused>>
  BY DEF Deliver
<1>4. Typed'
  BY <1>0, <1>1, <1>2, <1>3, OldIsNat DEF Typed
<1>5. Areas'
  <2>1. \A i, j \in DOMAIN source' : i < j => source'[i].uid < source'[j].uid
    <3>1. \A i \in DOMAIN source : source[i].uid < nextUid /\ ~ (new < i)
      BY <1>0 DEF Areas, Shape
    <3> QED
      BY <1>0, <1>1, <1>2, <3>1 DEF Areas, Shape
  <2>2. \A i \in DOMAIN source' :
          /\ source'[i].uid < nextUid'
          /\ \/ source'[i].of = source'[i].uid
             \/ kind = "here" /\ source'[i].uid > Old /\ source'[i].of \in Old1
    BY <1>0, <1>1, <1>2 DEF Areas, Shape
  <2>3. \A i \in DOMAIN table : table[i] < nextUid'
    BY <1>0, <1>2 DEF Areas, Shape
  <2>4. \A i \in DOMAIN source' \cap DOMAIN table : table[i] <= source'[i].uid
    BY <1>0, <1>1, <1>2 DEF Areas, Shape
  <2> QED
    BY <1>0, <1>3, <2>1, <2>2, <2>3, <2>4 DEF Areas
<1>6. Phases'
  BY <1>0, <1>1, <1>2, <1>3 DEF Phases, Carrying, Removing
<1>7. Order'
  <2>1. /\ Copies' = Copies
        /\ \A i \in Copies : Target'[i] = Target[i]
    BY <1>1, <1>2, <1>3 DEF Copies, Target
  <2>a. \A m \in Original : m < nextUid
    BY <1>2, OldIsNat
  <2>2. \A i \in Copies : Target[i].of < nextUid
    BY <2>a, CopiesAreOld
  <2>3. \A i \in DOMAIN chunk : chunk[i].of # Gone => chunk[i].of < nextUid
    BY <1>0, <2>a DEF Shape, Old1
  <2> QED
    BY <1>0, <1>1, <1>2, <1>3, <2>1, <2>2, <2>3 DEF Order, Carrying
<1>8. Kept'
  <2>1. \A m \in Original : Here(m) => Here(m)'
    BY <1>1 DEF Here
  <2> QED
    BY <1>0, <1>3, <2>1 DEF Kept, Removing, In
<1>9. Straight'
  <2>1. Len(source) <= Len(source')
    BY <1>0, <1>1 DEF Shape
  <2>2. Old <= Len(source) => \A m \in Original : source'[m] = source[m]
    BY <1>0, <1>1, OldIsNat DEF Shape
  <2> QED
    BY <1>0, <1>1, <1>3, <2>1, <2>2, OldIsNat DEF Straight, Carrying, Removing, Passed, In, Shape
<1>10. Walked'
  BY <1>0, <1>3 DEF Walked
<1>11. Current'
  BY <1>0, <1>1, <1>3 DEF Current, Fresh
<1>12. Removal'
  <2>1. nextUid \notin stored
    BY <1>0, <1>2, OldIsNat DEF Typed
  <2> QED
    BY <1>0, <1>1, <1>2, <1>3, <2>1 DEF Removal, Removing, ToRemove
<1> QED
  BY <1>4, <1>5, <1>6, <1>7, <1>8, <1>9, <1>10, <1>11, <1>12 DEF IInv

LEMMA PackKeeps ==
    ASSUME IInv, Pack PROVE IInv'
<1>0. Shape /\ Typed /\ Areas /\ Phases /\ Order /\ Kept /\ Straight /\ Walked /\ Current /\ Removal
  BY ShapeNow DEF IInv
<1>1. PICK n \in DOMAIN source :
        /\ source[n].uid = source[n].of
        /\ source' = RemoveAt(source, n)
        /\ packed' = packed \cup {source[n].uid}
  BY Zenon DEF Pack
<1>2. /\ UNCHANGED <<target, nextUid, kind, asked, marks, phase, table, from, last,
                     chunk, picked, stored, stopped, refused>>
      /\ phase # "done" /\ Packs # "never" /\ (Packs = "away" => phase \in {"put", "reopen"})
  BY DEF Pack
\* Where what is left stood.
<1> DEFINE place(i) == IF i < n THEN i ELSE i + 1
<1>3. /\ source' \in Seq(Message) /\ Len(source') = Len(source) - 1
      /\ \A i \in 1 .. Len(source) - 1 : source'[i] = source[place(i)]
  BY <1>0, <1>1, Removed DEF Typed
<1>4. n \in 1 .. Len(source) /\ Len(source) \in Nat
  BY <1>0 DEF Shape
<1>5. DOMAIN source' = 1 .. Len(source) - 1
  BY <1>3, <1>4, Entries
<1>6. ASSUME NEW i \in DOMAIN source'
      PROVE  /\ i \in DOMAIN source /\ place(i) \in DOMAIN source
             /\ source'[i] = source[place(i)] /\ i <= place(i) /\ i \in Nat /\ place(i) # n
  BY <1>0, <1>3, <1>4, <1>5 DEF Shape
<1>7. ASSUME NEW i \in DOMAIN source', NEW j \in DOMAIN source', i < j
      PROVE  place(i) < place(j)
  BY <1>4, <1>5, <1>7
<1>8. ASSUME NEW k \in DOMAIN source, k # n
      PROVE  \E i \in DOMAIN source' : place(i) = k
  <2>1. CASE k < n
    <3>1. k \in DOMAIN source' /\ place(k) = k
      BY <2>1, <1>0, <1>4, <1>5 DEF Shape
    <3> QED
      BY <3>1
  <2>2. CASE ~ (k < n)
    <3>1. k - 1 \in DOMAIN source' /\ place(k - 1) = k
      BY <2>2, <1>0, <1>4, <1>5, <1>8 DEF Shape
    <3> QED
      BY <3>1
  <2> QED
    BY <2>1, <2>2
<1>9. ASSUME NEW i \in DOMAIN source' PROVE source[i].uid <= source'[i].uid
  <2>1. i \in DOMAIN source /\ place(i) \in DOMAIN source /\ source'[i] = source[place(i)]
    BY <1>6
  <2>2. i = place(i) \/ i < place(i)
    BY <1>4, <1>5
  <2>3. source[i].uid \in Nat /\ source[place(i)].uid \in Nat
    BY <1>0, <2>1 DEF Shape
  <2> HIDE DEF place
  <2> QED
    BY <1>0, <2>1, <2>2, <2>3 DEF Areas
<1> HIDE DEF place
<1>10. Typed'
  BY <1>0, <1>2, <1>3 DEF Typed
<1>11. Areas'
  <2>1. ASSUME NEW i \in DOMAIN source', NEW j \in DOMAIN source', i < j
        PROVE  source'[i].uid < source'[j].uid
    BY <1>0, <1>6, <1>7, <2>1 DEF Areas
  <2>2. ASSUME NEW i \in DOMAIN source'
        PROVE  /\ source'[i].uid < nextUid
               /\ \/ source'[i].of = source'[i].uid
                  \/ kind = "here" /\ source'[i].uid > Old /\ source'[i].of \in Old1
    BY <1>0, <1>6 DEF Areas
  <2>3. ASSUME NEW i \in DOMAIN source' \cap DOMAIN table
        PROVE  table[i] <= source'[i].uid
    <3>1. table[i] <= source[i].uid /\ source[i].uid <= source'[i].uid
      BY <1>0, <1>6, <1>9 DEF Areas
    <3>2. table[i] \in Nat /\ source[i].uid \in Nat /\ source'[i].uid \in Nat
      BY <1>0, <1>6 DEF Shape
    <3> QED
      BY <3>1, <3>2
  <2> QED
    BY <1>0, <1>2, <2>1, <2>2, <2>3 DEF Areas
<1>12. Phases'
  BY <1>0, <1>2, <1>6 DEF Phases, Carrying, Removing
<1>13. Order'
  <2>1. CASE kind = "here"
    <3>1. ASSUME NEW i \in Copies'
          PROVE  i \in DOMAIN source' /\ place(i) \in Copies /\ Target'[i] = Target[place(i)]
      BY <1>2, <1>6, <2>1 DEF Copies, Target
    <3>2. \A i, j \in Copies' : i < j => Target'[i].of < Target'[j].of
      BY <1>0, <1>7, <3>1 DEF Order
    <3>3. \A i \in Copies', j \in DOMAIN chunk :
            chunk[j].of # Gone => Target'[i].of < chunk[j].of
      BY <1>0, <3>1 DEF Order
    <3>4. ASSUME Carrying, NEW k \in DOMAIN source', k >= from
          PROVE  place(k) \in DOMAIN source /\ place(k) >= from /\ source'[k] = source[place(k)]
      BY <1>0, <1>6, <3>4 DEF Typed, Shape
    <3>5. Carrying =>
            /\ \A i \in Copies' :
                  /\ \A k \in DOMAIN source' : k >= from => Target'[i].of < source'[k].uid
                  /\ \A k \in DOMAIN table : k >= from => Target'[i].of < table[k]
            /\ \A i \in DOMAIN chunk : chunk[i].of # Gone =>
                  \A k \in DOMAIN source' : k >= from => chunk[i].of < source'[k].uid
      BY <1>0, <3>1, <3>4 DEF Order
    <3> QED
      BY <1>0, <1>2, <3>2, <3>3, <3>5 DEF Order, Carrying
  <2>2. CASE kind # "here"
    <3>1. Copies' = Copies /\ Target' = Target
      BY <1>2, <2>2 DEF Copies, Target
    <3>4. ASSUME Carrying, NEW k \in DOMAIN source', k >= from
          PROVE  place(k) \in DOMAIN source /\ place(k) >= from /\ source'[k] = source[place(k)]
      BY <1>0, <1>6, <3>4 DEF Typed, Shape
    <3>5. Carrying =>
            /\ \A i \in Copies :
                  \A k \in DOMAIN source' : k >= from => Target[i].of < source'[k].uid
            /\ \A i \in DOMAIN chunk : chunk[i].of # Gone =>
                  \A k \in DOMAIN source' : k >= from => chunk[i].of < source'[k].uid
      BY <1>0, <3>4 DEF Order
    <3> QED
      BY <1>0, <1>2, <3>1, <3>5 DEF Order, Carrying
  <2> QED
    BY <2>1, <2>2
<1>14. Kept'
  <2>1. ASSUME NEW m \in Original, Here(m)
        PROVE  Here(m)' \/ m \in packed'
    <3>1. PICK k \in DOMAIN source : source[k].uid = m
      BY <2>1 DEF Here
    <3>2. CASE k = n
      BY <1>1, <3>1, <3>2
    <3>3. CASE k # n
      <4>1. PICK i \in DOMAIN source' : place(i) = k
        BY <1>8, <3>3
      <4> QED
        BY <1>6, <3>1, <4>1 DEF Here
    <3> QED
      BY <3>2, <3>3
  <2> QED
    BY <1>0, <1>1, <1>2, <2>1 DEF Kept, Removing, In
<1>15. packed' # {}
  BY <1>1
<1>16. Straight' /\ Walked'
  BY <1>0, <1>2, <1>15 DEF Straight, Walked
<1>17. Current'
  BY <1>0, <1>2, <1>15, PacksAssumption DEF Current
<1>18. Removal'
  BY <1>0, <1>2, PacksAssumption DEF Removal, Removing, ToRemove
<1> QED
  BY <1>10, <1>11, <1>12, <1>13, <1>14, <1>16, <1>17, <1>18 DEF IInv

\* --------------------------------------------------------------------------
\* The run

LEMMA AreasOpened ==
    ASSUME Shape, Areas, UNCHANGED <<source, nextUid, kind>>, DOMAIN table' = DOMAIN source,
           \A i \in DOMAIN source : table'[i] = source[i].uid
    PROVE  Areas'
<1>1. \A i, j \in DOMAIN table' : i < j => table'[i] < table'[j]
  BY DEF Areas
<1>2. \A i \in DOMAIN table' : table'[i] < nextUid
  BY DEF Areas
<1>3. \A i \in DOMAIN source : source[i].uid <= source[i].uid
  BY DEF Shape
<1> QED
  BY <1>1, <1>2, <1>3 DEF Areas

LEMMA OpenKeeps ==
    ASSUME IInv, OpenSource PROVE IInv'
<1>0. Shape /\ Typed /\ Areas /\ Phases /\ Order /\ Kept /\ Straight /\ Walked /\ Current /\ Removal
  BY ShapeNow DEF IInv
<1>1. /\ phase = "open" /\ table' = Uids(source) /\ last' = Len(source)
      /\ \/ kind = "delete" /\ from' = Len(source) /\ phase' = "pick"
         \/ kind # "delete" /\ from' = 1 /\ phase' = "walk"
      /\ UNCHANGED <<source, target, nextUid, packed, kind, asked, marks, chunk,
                     picked, stored, stopped, refused>>
  BY DEF OpenSource, Opened
<1>2. /\ table' \in Seq(Nat) /\ Len(table') = Len(source) /\ DOMAIN table' = DOMAIN source
      /\ \A i \in DOMAIN source : table'[i] = source[i].uid
      /\ Len(source) \in Nat
  BY <1>0, <1>1, UidsTyped DEF Typed, Shape
<1>3. Typed'
  BY <1>0, <1>1, <1>2 DEF Typed, Steps
<1>4. Areas'
  BY <1>0, <1>1, <1>2, AreasOpened
<1>5. Phases'
  BY <1>0, <1>1, <1>2 DEF Phases, Carrying, Removing
<1>6. Order'
  <2>1. Copies' = {} /\ chunk' = <<>>
    BY <1>0, <1>1 DEF Copies, Target, Phases
  <2> QED
    BY <2>1 DEF Order
<1>7. Kept'
  <2>1. \A m : Here(m)' <=> Here(m)
    BY <1>1 DEF Here
  <2> QED
    BY <1>0, <1>1, <2>1 DEF Kept, Removing, In
<1>8. Straight'
  <2>1. kind # "delete" => \A m \in asked : ~ (m < from')
    BY <1>0, <1>1, OldIsNat DEF Typed
  <2> QED
    BY <1>0, <1>1, <1>2, <2>1 DEF Straight, Carrying, Removing
<1>9. Walked'
  BY <1>1 DEF Walked
<1>10. Current'
  BY <1>1, <1>2 DEF Current, Fresh
<1>11. Removal'
  <2>1. picked' = <<>>
    BY <1>0, <1>1 DEF Phases, Removing
  <2> QED
    BY <1>1, <2>1 DEF Removal, Removing
<1> QED
  BY <1>3, <1>4, <1>5, <1>6, <1>7, <1>8, <1>9, <1>10, <1>11 DEF IInv

\* An area nobody wrote: what is carried to it is what was.
LEMMA SameCopies ==
    ASSUME UNCHANGED <<source, target, kind>>
    PROVE  Copies' = Copies /\ Target' = Target
BY DEF Copies, Target

LEMMA SkipKeeps ==
    ASSUME IInv, Skip PROVE IInv'
<1>0. Shape /\ Typed /\ Areas /\ Phases /\ Order /\ Kept /\ Straight /\ Walked /\ Current /\ Removal
  BY ShapeNow DEF IInv
<1>1. /\ phase = "walk" /\ UidAt(from) \notin asked /\ from' = from + 1
      /\ UNCHANGED <<source, target, nextUid, packed, kind, asked, marks, phase,
                     table, last, chunk, picked, stored, stopped, refused>>
  BY DEF Skip
<1>2. from \in Nat /\ from' \in Nat
  BY <1>0, <1>1 DEF Typed
<1>3. Typed' /\ Areas'
  BY <1>0, <1>1, <1>2 DEF Typed, Areas
<1>4. Phases'
  BY <1>0, <1>1, <1>2 DEF Phases, Carrying, Removing
<1>5. Order'
  <2>1. Copies' = Copies /\ Target' = Target
    BY <1>1, SameCopies
  <2>2. \A n \in Nat : n >= from' => n >= from
    BY <1>1, <1>2
  <2>3. \A n \in DOMAIN source : n \in Nat
    BY <1>0 DEF Shape
  <2>4. \A n \in DOMAIN table : n \in Nat
    BY <1>0 DEF Shape
  <2> QED
    BY <1>0, <1>1, <2>1, <2>2, <2>3, <2>4 DEF Order, Carrying
<1>6. Kept'
  BY <1>0, <1>1 DEF Kept, Removing, In, Here
<1>7. Straight'
  <2>1. SUFFICES ASSUME packed = {} PROVE Straight'
    BY <1>1 DEF Straight
  <2>2. ASSUME NEW m \in asked, m < from'
        PROVE  m < from
    <3>1. m \in Original
      BY <1>0 DEF Typed
    <3>2. m = from \/ m < from
      BY <1>1, <1>2, <2>2, <3>1, OldIsNat
    <3>3. m # from
      <4>1. m \in DOMAIN table /\ source[m].uid = m
        BY <1>0, <1>1, <2>1, <3>1, OldIsNat DEF Straight, Carrying, Removing, Shape
      <4>2. UidAt(m) = m
        BY <1>0, <2>1, <4>1 DEF UidAt, Current, Fresh
      <4> QED
        BY <1>1, <4>2
    <3> QED
      BY <3>2, <3>3
  <2> QED
    BY <1>0, <1>1, <2>1, <2>2 DEF Straight, Carrying, Removing, Passed, In
<1>8. Walked' /\ Current' /\ Removal'
  BY <1>0, <1>1 DEF Walked, Current, Fresh, Removal, Removing
<1> QED
  BY <1>3, <1>4, <1>5, <1>6, <1>7, <1>8 DEF IInv

\* What is read of a message the area held at first is that message, or nothing.
LEMMA ReadOld ==
    ASSUME IInv, NEW m \in Original
    PROVE  Read(m) = m \/ (Read(m) = Gone /\ ~ Here(m))
<1>1. CASE Here(m)
  <2> DEFINE n == CHOOSE k \in DOMAIN source : source[k].uid = m
  <2>1. n \in DOMAIN source /\ source[n].uid = m
    BY <1>1 DEF Here
  <2>2. Read(m) = source[n].of
    BY <1>1 DEF Read, Here
  <2> HIDE DEF n
  <2>3. source[n].of = m
    BY <2>1, OldIsNat DEF IInv, Areas
  <2> QED
    BY <2>2, <2>3
<1>2. CASE ~ Here(m)
  BY <1>2 DEF Read, Here
<1> QED
  BY <1>1, <1>2

LEMMA GatherKeeps ==
    ASSUME IInv, Gather PROVE IInv'
<1>0. Shape /\ Typed /\ Areas /\ Phases /\ Order /\ Kept /\ Straight /\ Walked /\ Current /\ Removal
  BY ShapeNow DEF IInv
<1>1. /\ phase = "walk" /\ UidAt(from) \in asked
      /\ UNCHANGED <<source, target, nextUid, packed, kind, asked, marks, table,
                     last, picked, stored, refused>>
  BY DEF Gather
<1>a. Copies' = Copies /\ Target' = Target
  BY <1>1, SameCopies
<1>2. CASE stopped' = TRUE /\ phase' = "hand" /\ UNCHANGED <<chunk, from>>
  <2>1. Typed' /\ Areas' /\ Phases'
    BY <1>0, <1>1, <1>2 DEF Typed, Steps, Areas, Phases, Carrying, Removing
  <2>2. Order'
    BY <1>0, <1>1, <1>2, <1>a DEF Order, Carrying
  <2>3. Kept'
    BY <1>0, <1>1, <1>2 DEF Kept, Removing, In, Here
  <2>4. Straight'
    BY <1>0, <1>1, <1>2 DEF Straight, Carrying, Removing, Passed, In
  <2>5. Walked' /\ Current' /\ Removal'
    BY <1>0, <1>1, <1>2 DEF Walked, Current, Fresh, Removal, Removing
  <2> QED
    BY <2>1, <2>2, <2>3, <2>4, <2>5 DEF IInv
<1>3. CASE /\ chunk' = Append(chunk, [uid |-> UidAt(from), of |-> Read(UidAt(from))])
           /\ from' = AfterGather(from)
           /\ UNCHANGED <<phase, stopped>>
  <2> DEFINE new == Len(chunk) + 1
             u == UidAt(from)
             message == [uid |-> u, of |-> Read(u)]
  <2>1. /\ from \in DOMAIN table /\ u = table[from] /\ u \in Original
        /\ from \in Nat /\ from' = from + 1
    BY <1>0, <1>1, <1>3, OldIsNat DEF UidAt, Typed, AfterGather
  <2> HIDE DEF u
  <2>2. Read(u) = u \/ (Read(u) = Gone /\ u \in packed)
    BY <1>0, <1>1, <2>1, ReadOld DEF Kept, Removing
  <2>3. message \in Carried /\ message.uid = u /\ message.of = Read(u)
    BY <2>1, <2>2 DEF Carried, Old1
  <2>4. /\ chunk' \in Seq(Carried) /\ Len(chunk') = new /\ DOMAIN chunk' = 1 .. new
        /\ \A i \in DOMAIN chunk : i \in DOMAIN chunk' /\ chunk'[i] = chunk[i]
        /\ new \in DOMAIN chunk' /\ chunk'[new] = message
        /\ \A i \in DOMAIN chunk' : i = new \/ i \in DOMAIN chunk
    <3>1. chunk' = Append(chunk, message) /\ chunk \in Seq(Carried)
      BY <1>0, <1>3 DEF Typed, u
    <3> HIDE DEF message
    <3> QED
      BY <2>3, <3>1
  <2>5. chunk'[new].uid = u /\ chunk'[new].of = Read(u)
    BY <2>3, <2>4
  <2> HIDE DEF message
  <2>6. Typed' /\ Areas'
    BY <1>0, <1>1, <1>3, <2>1, <2>4 DEF Typed, Areas
  <2>7. Phases'
    BY <1>0, <1>1, <1>3, <2>1 DEF Phases, Carrying, Removing
  <2>8. Order'
    <3>1. u \in Nat /\ u # Gone
      BY <2>1, OldIsNat
    <3>2. \A i \in DOMAIN chunk : chunk[i].of # Gone => chunk[i].of < u
      BY <1>0, <1>1, <2>1 DEF Order, Carrying
    <3>3. \A i \in Copies : Target[i].of < u
      BY <1>0, <1>1, <2>1 DEF Order, Carrying
    <3>4. \A i \in DOMAIN chunk : i # new /\ ~ (new < i)
      BY <1>0 DEF Shape
    <3>5. \A i, j \in DOMAIN chunk' :
            i < j /\ chunk'[i].of # Gone /\ chunk'[j].of # Gone => chunk'[i].of < chunk'[j].of
      BY <1>0, <2>2, <2>4, <2>5, <3>2, <3>4 DEF Order, Shape
    <3>6. \A i \in Copies, j \in DOMAIN chunk' :
            chunk'[j].of # Gone => Target[i].of < chunk'[j].of
      BY <1>0, <2>2, <2>4, <2>5, <3>3 DEF Order
    <3>7. ASSUME NEW n \in DOMAIN table, n >= from' PROVE u < table[n] /\ n >= from
      BY <1>0, <2>1, <3>7 DEF Areas, Shape
    <3>8. ASSUME NEW n \in DOMAIN source, n >= from' PROVE u < source[n].uid /\ n >= from
      <4>1. from \in DOMAIN source /\ from < n /\ n >= from
        BY <1>0, <2>1, <3>8 DEF Shape
      <4>2. table[from] <= source[from].uid /\ source[from].uid < source[n].uid
        BY <1>0, <2>1, <4>1 DEF Areas
      <4>3. source[from].uid \in Nat /\ source[n].uid \in Nat
        BY <1>0, <4>1 DEF Shape
      <4> QED
        BY <2>1, <3>1, <4>1, <4>2, <4>3
    <3>9. ASSUME NEW i \in Copies
          PROVE  /\ \A n \in DOMAIN source : n >= from' => Target[i].of < source[n].uid
                 /\ \A n \in DOMAIN table : n >= from' => Target[i].of < table[n]
      BY <1>0, <1>1, <3>7, <3>8 DEF Order, Carrying
    <3>10. ASSUME NEW i \in DOMAIN chunk', chunk'[i].of # Gone
           PROVE  /\ \A n \in DOMAIN source : n >= from' => chunk'[i].of < source[n].uid
                  /\ \A n \in DOMAIN table : n >= from' => chunk'[i].of < table[n]
      <4>1. CASE i = new
        BY <2>2, <2>5, <3>7, <3>8, <3>10, <4>1
      <4>2. CASE i # new
        <5>1. i \in DOMAIN chunk /\ chunk'[i] = chunk[i]
          BY <2>4, <4>2
        <5> QED
          BY <1>0, <1>1, <3>7, <3>8, <3>10, <5>1 DEF Order, Carrying
      <4> QED
        BY <4>1, <4>2
    <3> QED
      BY <1>0, <1>1, <1>3, <1>a, <3>5, <3>6, <3>9, <3>10 DEF Order, Carrying
  <2>9. Kept'
    <3>1. \A i \in DOMAIN chunk' : \/ chunk'[i].of = chunk'[i].uid
                                   \/ chunk'[i].of = Gone /\ chunk'[i].uid \in packed
      BY <1>0, <2>2, <2>4, <2>5 DEF Kept
    <3> QED
      BY <1>0, <1>1, <1>3, <3>1 DEF Kept, Removing, In, Here
  <2>10. Straight'
    <3>1. SUFFICES ASSUME packed = {} PROVE Straight'
      BY <1>1 DEF Straight
    <3>2. ASSUME NEW m \in asked, m < from'
          PROVE  Passed(m) \/ \E i \in DOMAIN chunk' : chunk'[i].uid = m
      <4>1. m \in Original
        BY <1>0 DEF Typed
      <4>2. m = from \/ m < from
        BY <2>1, <3>2, <4>1, OldIsNat
      <4>3. CASE m = from
        <5>1. source[m].uid = m /\ source[m].uid = table[m]
          BY <1>0, <1>1, <2>1, <3>1, <4>1, <4>3 DEF Straight, Carrying, Removing, Current, Fresh
        <5> QED
          BY <2>1, <2>4, <2>5, <4>3, <5>1
      <4>4. CASE m < from
        BY <1>0, <1>1, <2>4, <3>1, <4>4 DEF Straight, Carrying
      <4> QED
        BY <4>2, <4>3, <4>4
    <3>3. \A m : Passed(m)' <=> Passed(m)
      BY <1>1 DEF Passed, In
    <3> QED
      BY <1>0, <1>1, <1>3, <3>1, <3>2, <3>3 DEF Straight, Carrying, Removing
  <2>11. Walked' /\ Current' /\ Removal'
    BY <1>0, <1>1, <1>3 DEF Walked, Current, Fresh, Removal, Removing
  <2> QED
    BY <2>6, <2>7, <2>8, <2>9, <2>10, <2>11 DEF IInv
<1> QED
  BY <1>2, <1>3 DEF Gather

LEMMA ChunkEndsKeeps ==
    ASSUME IInv, ChunkEnds PROVE IInv'
<1>0. Shape /\ Typed /\ Areas /\ Phases /\ Order /\ Kept /\ Straight /\ Walked /\ Current /\ Removal
  BY ShapeNow DEF IInv
<1>1. /\ phase = "walk" /\ phase' = "hand"
      /\ UNCHANGED <<source, target, nextUid, packed, kind, asked, marks, table,
                     from, last, chunk, picked, stored, stopped, refused>>
  BY DEF ChunkEnds
<1>2. from > last \/ chunk # <<>>
  BY <1>0, ChunkAssumption DEF ChunkEnds, ChunkFull
<1>3. Typed' /\ Areas' /\ Phases'
  BY <1>0, <1>1 DEF Typed, Steps, Areas, Phases, Carrying, Removing
<1>4. Order'
  BY <1>0, <1>1, SameCopies DEF Order, Carrying
<1>5. Kept'
  BY <1>0, <1>1 DEF Kept, Removing, In, Here
<1>6. Straight'
  BY <1>0, <1>1 DEF Straight, Carrying, Removing, Passed, In
<1>7. Walked' /\ Current' /\ Removal'
  BY <1>0, <1>1, <1>2 DEF Walked, Current, Fresh, Removal, Removing
<1> QED
  BY <1>3, <1>4, <1>5, <1>6, <1>7 DEF IInv

LEMMA HandKeeps ==
    ASSUME IInv, Hand PROVE IInv'
<1>0. Shape /\ Typed /\ Areas /\ Phases /\ Order /\ Kept /\ Straight /\ Walked /\ Current /\ Removal
  BY ShapeNow DEF IInv
<1>1. /\ phase = "hand"
      /\ \/ chunk = <<>> /\ phase' = "ended"
         \/ chunk # <<>> /\ phase' = "put"
      /\ UNCHANGED <<source, target, nextUid, packed, kind, asked, marks, table,
                     from, last, chunk, picked, stored, stopped, refused>>
  BY DEF Hand, Handed
<1>3. Typed' /\ Areas' /\ Phases'
  BY <1>0, <1>1 DEF Typed, Steps, Areas, Phases, Carrying, Removing
<1>4. Order'
  BY <1>0, <1>1, SameCopies DEF Order, Carrying
<1>5. Kept'
  BY <1>0, <1>1 DEF Kept, Removing, In, Here
<1>6. Straight'
  BY <1>0, <1>1 DEF Straight, Carrying, Removing, Passed, In
<1>7. Walked' /\ Current' /\ Removal'
  BY <1>0, <1>1 DEF Walked, Current, Fresh, Removal, Removing
<1> QED
  BY <1>3, <1>4, <1>5, <1>6, <1>7 DEF IInv

LEMMA ReopenKeeps ==
    ASSUME IInv, Reopen PROVE IInv'
<1>0. Shape /\ Typed /\ Areas /\ Phases /\ Order /\ Kept /\ Straight /\ Walked /\ Current /\ Removal
  BY ShapeNow DEF IInv
<1>1. /\ phase = "reopen"
      /\ UNCHANGED <<source, target, nextUid, packed, kind, asked, marks, from,
                     last, chunk, picked, stored, stopped>>
  BY DEF Reopen
<1>a. Copies' = Copies /\ Target' = Target
  BY <1>1, SameCopies
<1>2. CASE /\ table' = Opened
           /\ phase' = IF stopped THEN "ended" ELSE "walk"
           /\ UNCHANGED refused
  <2>1. /\ table' \in Seq(Nat) /\ Len(table') = Len(source) /\ DOMAIN table' = DOMAIN source
        /\ \A i \in DOMAIN source : table'[i] = source[i].uid
    BY <1>0, <1>2, UidsTyped DEF Typed, Opened
  <2>2. Typed'
    BY <1>0, <1>1, <1>2, <2>1 DEF Typed, Steps
  <2>3. Areas'
    BY <1>0, <1>1, <2>1, AreasOpened
  <2>4. Phases'
    BY <1>0, <1>1, <1>2 DEF Phases, Carrying, Removing
  <2>5. Order'
    BY <1>0, <1>1, <1>a, <2>1 DEF Order, Carrying
  <2>6. Kept'
    BY <1>0, <1>1, <1>2 DEF Kept, Removing, In, Here
  <2>7. Straight'
    BY <1>0, <1>1, <1>2, <2>1 DEF Straight, Carrying, Removing, Passed, In
  <2>8. Walked' /\ Removal'
    BY <1>0, <1>1, <1>2 DEF Walked, Removal, Removing
  <2>9. Current'
    BY <1>1, <2>1 DEF Current, Fresh
  <2> QED
    BY <2>2, <2>3, <2>4, <2>5, <2>6, <2>7, <2>8, <2>9 DEF IInv
<1>3. CASE refused' = TRUE /\ phase' = "ended" /\ UNCHANGED table
  <2>1. Typed' /\ Areas' /\ Phases'
    BY <1>0, <1>1, <1>3 DEF Typed, Steps, Areas, Phases, Carrying, Removing
  <2>2. Order'
    BY <1>0, <1>1, <1>3, <1>a DEF Order, Carrying
  <2>3. Kept'
    BY <1>0, <1>1, <1>3 DEF Kept, Removing, In, Here
  <2>4. Straight'
    BY <1>0, <1>1, <1>3 DEF Straight, Carrying, Removing
  <2>5. Walked' /\ Current' /\ Removal'
    BY <1>0, <1>1, <1>3 DEF Walked, Current, Fresh, Removal, Removing
  <2> QED
    BY <2>1, <2>2, <2>3, <2>4, <2>5 DEF IInv
<1> QED
  BY <1>2, <1>3 DEF Reopen

LEMMA AfterPassKeeps ==
    ASSUME IInv, AfterPass PROVE IInv'
<1>0. Shape /\ Typed /\ Areas /\ Phases /\ Order /\ Kept /\ Straight /\ Walked /\ Current /\ Removal
  BY ShapeNow DEF IInv
<1>1. /\ phase = "ended"
      /\ UNCHANGED <<source, target, nextUid, packed, kind, asked, marks, last,
                     chunk, picked, stored, stopped>>
  BY DEF AfterPass
<1>a. Copies' = Copies /\ Target' = Target /\ chunk = <<>> /\ picked = <<>> /\ kind # "delete"
  BY <1>0, <1>1, SameCopies DEF Phases, Removing
<1>2. CASE /\ table' = Opened
           /\ from' = Len(source)
           /\ phase' = IF kind = "move" /\ stored # {} THEN "pick" ELSE "done"
           /\ UNCHANGED refused
  <2>1. /\ table' \in Seq(Nat) /\ Len(table') = Len(source) /\ DOMAIN table' = DOMAIN source
        /\ \A i \in DOMAIN source : table'[i] = source[i].uid
    BY <1>0, <1>2, UidsTyped DEF Typed, Opened
  <2>2. Typed'
    BY <1>0, <1>1, <1>2, <2>1 DEF Typed, Steps, Shape
  <2>3. Areas'
    BY <1>0, <1>1, <2>1, AreasOpened
  <2>4. Phases'
    BY <1>0, <1>1, <1>2, <1>a, <2>1 DEF Phases, Carrying, Removing, Shape
  <2>5. Order'
    BY <1>0, <1>1, <1>2, <1>a DEF Order, Carrying
  <2>6. Kept'
    BY <1>0, <1>1, <1>2 DEF Kept, Removing, In, Here
  <2>7. Straight'
    <3>1. SUFFICES ASSUME packed = {}, ~ stopped, ~ refused PROVE \A m \in asked : Passed(m)
      BY <1>0, <1>1, <1>2 DEF Straight, Carrying, Removing, Passed, In
    <3>2. from > last /\ last >= Old /\ from \in Nat /\ last \in Nat
      BY <1>0, <1>1, <3>1 DEF Walked, Straight, Typed
    <3>3. ASSUME NEW m \in asked PROVE m < from
      <4>1. m \in Original
        BY <1>0 DEF Typed
      <4> QED
        BY <3>2, <4>1, OldIsNat
    <3>4. \A i \in DOMAIN chunk : FALSE
      BY <1>a
    <3> QED
      BY <1>0, <1>1, <3>1, <3>3, <3>4 DEF Straight
  <2>8. Walked'
    BY <1>1, <1>2 DEF Walked
  <2>9. Current'
    BY <1>1, <2>1 DEF Current, Fresh
  <2>10. Removal'
    <3>1. \A n \in DOMAIN source : ~ (n > from')
      BY <1>0, <1>2 DEF Shape
    <3> QED
      BY <1>0, <1>1, <1>2, <1>a, <3>1 DEF Removal, Removing
  <2> QED
    BY <2>2, <2>3, <2>4, <2>5, <2>6, <2>7, <2>8, <2>9, <2>10 DEF IInv
<1>3. CASE phase' = "done" /\ refused' = TRUE /\ UNCHANGED <<table, from>>
  <2>1. Typed' /\ Areas' /\ Phases'
    BY <1>0, <1>1, <1>3 DEF Typed, Steps, Areas, Phases, Carrying, Removing
  <2>2. Order'
    BY <1>0, <1>1, <1>3, <1>a DEF Order, Carrying
  <2>3. Kept'
    BY <1>0, <1>1, <1>3 DEF Kept, Removing, In, Here
  <2>4. Straight'
    BY <1>0, <1>1, <1>3 DEF Straight, Carrying, Removing
  <2>5. Walked' /\ Current' /\ Removal'
    BY <1>0, <1>1, <1>3 DEF Walked, Current, Fresh, Removal, Removing
  <2> QED
    BY <2>1, <2>2, <2>3, <2>4, <2>5 DEF IInv
<1> QED
  BY <1>2, <1>3 DEF AfterPass

\* --------------------------------------------------------------------------
\* A chunk is written

\* The chunk as the area has it, after what it had.
Longer(s, t, new, w) ==
    /\ Len(t) = Len(s) + w
    /\ \A i \in DOMAIN s : i \in DOMAIN t /\ t[i] = s[i]
    /\ \A i \in DOMAIN t :
          \/ i \in DOMAIN s
          \/ i - Len(s) \in 1 .. w /\ t[i] = new[i - Len(s)]
    /\ \A k \in 1 .. w : Len(s) + k \in DOMAIN t /\ t[Len(s) + k] = new[k]

LEMMA PutInto ==
    ASSUME NEW S, NEW s \in Seq(S), NEW w \in Nat, NEW new \in [1 .. w -> S]
    PROVE  s \o new \in Seq(S) /\ Longer(s, s \o new, new, w)
<1>1. new \in Seq(S) /\ Len(new) = w
  OBVIOUS
<1>2. Len(s) \in Nat /\ DOMAIN s = 1 .. Len(s)
  OBVIOUS
<1>3. s \o new \in Seq(S) /\ Len(s \o new) = Len(s) + w /\ DOMAIN (s \o new) = 1 .. Len(s) + w
  BY <1>1, <1>2
<1>4. \A i \in 1 .. Len(s) + w :
        (s \o new)[i] = IF i <= Len(s) THEN s[i] ELSE new[i - Len(s)]
  BY <1>1, <1>2
<1> DEFINE t == s \o new
<1> HIDE DEF t
<1>5. ASSUME NEW k \in 1 .. w
      PROVE  Len(s) + k \in 1 .. Len(s) + w /\ ~ (Len(s) + k <= Len(s)) /\ (Len(s) + k) - Len(s) = k
  BY <1>2
<1>6. ASSUME NEW i \in 1 .. Len(s) + w
      PROVE  i \in 1 .. Len(s) \/ (i - Len(s) \in 1 .. w /\ ~ (i <= Len(s)))
  BY <1>2
<1>7. ASSUME NEW i \in 1 .. Len(s)
      PROVE  i \in 1 .. Len(s) + w /\ i <= Len(s)
  BY <1>2
<1>8. t \in Seq(S) /\ Len(t) = Len(s) + w /\ DOMAIN t = 1 .. Len(s) + w
      /\ \A i \in 1 .. Len(s) + w : t[i] = IF i <= Len(s) THEN s[i] ELSE new[i - Len(s)]
  BY <1>3, <1>4 DEF t
<1>9. Longer(s, t, new, w)
  BY <1>2, <1>5, <1>6, <1>7, <1>8 DEF Longer
<1> QED
  BY <1>8, <1>9 DEF t

PutHere(w) ==
    /\ kind = "here"
    /\ source' = source \o [i \in 1 .. w |-> [uid |-> nextUid + i - 1, of |-> chunk[i].of]]
    /\ nextUid' = nextUid + w
    /\ table' = Uids(source')
    /\ stored' = stored
    /\ UNCHANGED target

PutThere(w) ==
    /\ kind # "here"
    /\ target' = target \o SubSeq(chunk, 1, w)
    /\ stored' = IF kind = "move" THEN stored \cup Stored(w) ELSE stored
    /\ UNCHANGED <<source, nextUid, table>>

Written(w) ==
    /\ w \in 0 .. Len(chunk)
    /\ refused' = (w # Len(chunk))
    /\ \/ w # Len(chunk) /\ phase' = "ended"
       \/ w = Len(chunk) /\ kind = "here" /\ phase' = IF stopped THEN "ended" ELSE "walk"
       \/ w = Len(chunk) /\ kind # "here" /\ phase' = "reopen"
    /\ phase = "put" /\ chunk' = <<>>
    /\ UNCHANGED <<packed, kind, asked, marks, from, last, picked, stopped>>

LEMMA PutCases ==
    ASSUME Shape, Put
    PROVE  \E w \in 0 .. Len(chunk) : Written(w) /\ (PutHere(w) \/ PutThere(w))
<1>1. PICK w \in 0 .. Len(chunk) :
        /\ IF kind = "here"
           THEN /\ source' = source \o
                    [i \in 1 .. w |->
                        [uid |-> nextUid + i - 1, of |-> SubSeq(chunk, 1, w)[i].of]]
                /\ nextUid' = nextUid + w
                /\ table' = Uids(source')
                /\ UNCHANGED target
           ELSE /\ target' = target \o SubSeq(chunk, 1, w)
                /\ UNCHANGED <<source, nextUid, table>>
        /\ stored' = IF kind = "move" THEN stored \cup Stored(w) ELSE stored
        /\ refused' = ~ (w = Len(chunk))
        /\ phase' = CASE ~ (w = Len(chunk)) -> "ended"
                   [] w = Len(chunk) /\ kind = "here" -> IF stopped THEN "ended" ELSE "walk"
                   [] OTHER -> "reopen"
  BY Zenon DEF Put
<1>2. phase = "put" /\ chunk' = <<>>
      /\ UNCHANGED <<packed, kind, asked, marks, from, last, picked, stopped>>
  BY DEF Put
<1>3. \/ w # Len(chunk) /\ phase' = "ended"
      \/ w = Len(chunk) /\ kind = "here" /\ phase' = IF stopped THEN "ended" ELSE "walk"
      \/ w = Len(chunk) /\ kind # "here" /\ phase' = "reopen"
  BY <1>1
<1>4. kind = "here" => PutHere(w)
  <2>1. SUFFICES ASSUME kind = "here" PROVE PutHere(w)
    OBVIOUS
  <2>2. \A i \in 1 .. w : SubSeq(chunk, 1, w)[i] = chunk[i]
    BY DEF Shape
  <2>3. [i \in 1 .. w |-> [uid |-> nextUid + i - 1, of |-> SubSeq(chunk, 1, w)[i].of]]
        = [i \in 1 .. w |-> [uid |-> nextUid + i - 1, of |-> chunk[i].of]]
    BY <2>2
  <2> QED
    BY <1>1, <2>1, <2>3 DEF PutHere
<1>5. kind # "here" => PutThere(w)
  BY <1>1 DEF PutThere
<1>6. refused' = (w # Len(chunk))
  BY <1>1
<1> QED
  BY <1>2, <1>3, <1>4, <1>5, <1>6 DEF Written

LEMMA PutHereKeeps ==
    ASSUME IInv, NEW w, Written(w), PutHere(w) PROVE IInv'
<1>0. Shape /\ Typed /\ Areas /\ Phases /\ Order /\ Kept /\ Straight /\ Walked /\ Current /\ Removal
  BY ShapeNow DEF IInv
<1> DEFINE new == [i \in 1 .. w |-> [uid |-> nextUid + i - 1, of |-> chunk[i].of]]
           N == Len(source)
<1>1. /\ kind = "here" /\ source' = source \o new /\ nextUid' = nextUid + w
      /\ table' = Uids(source') /\ UNCHANGED <<target, stored>>
  BY DEF PutHere
<1>2. /\ phase = "put" /\ chunk' = <<>> /\ refused' \in BOOLEAN
      /\ \/ phase' = "ended" /\ (refused' \/ stopped)
         \/ phase' = "walk"
      /\ UNCHANGED <<packed, kind, asked, marks, from, last, picked, stopped>>
  BY <1>1 DEF Written
<1>3. /\ w \in Nat /\ w <= Len(chunk) /\ nextUid \in Nat /\ nextUid > Old
      /\ N \in Nat /\ nextUid' \in Nat /\ nextUid <= nextUid' /\ Old \in Nat
  <2>1. w \in 0 .. Len(chunk)
    BY DEF Written
  <2>2. Len(chunk) \in Nat /\ N \in Nat /\ nextUid \in Nat /\ nextUid > Old /\ Old \in Nat
    BY <1>0, OldIsNat DEF Shape, Typed
  <2>3. nextUid' = nextUid + w
    BY <1>1
  <2> QED
    BY <2>1, <2>2, <2>3
<1>4. \A i \in 1 .. w : i \in DOMAIN chunk /\ chunk[i].of \in Old1
  <2>1. \A i \in 1 .. w : i \in 1 .. Len(chunk)
    BY <1>0, <1>3 DEF Shape
  <2> QED
    BY <1>0, <2>1 DEF Shape
<1>5. \A i \in 1 .. w : /\ new[i].uid = nextUid + i - 1 /\ new[i].of = chunk[i].of
                        /\ new[i].uid \in Nat /\ new[i].uid >= nextUid /\ new[i].uid < nextUid'
  <2>1. \A i \in 1 .. w : /\ nextUid + i - 1 \in Nat /\ nextUid + i - 1 >= nextUid
                          /\ nextUid + i - 1 < nextUid + w
    BY <1>3
  <2>2. \A i \in 1 .. w : new[i].uid = nextUid + i - 1 /\ new[i].of = chunk[i].of
    OBVIOUS
  <2> HIDE DEF new
  <2>3. nextUid' = nextUid + w
    BY <1>1
  <2>4. ASSUME NEW i \in 1 .. w
        PROVE  new[i].uid \in Nat /\ new[i].uid >= nextUid /\ new[i].uid < nextUid'
    BY <2>1, <2>2, <2>3
  <2> QED
    BY <2>2, <2>4
<1>6. \A i \in 1 .. w : [uid |-> nextUid + i - 1, of |-> chunk[i].of] \in Message
  <2>1. \A i \in 1 .. w : nextUid + i - 1 \in Nat
    BY <1>3
  <2>2. \A i \in 1 .. w : chunk[i].of \in Nat \cup {Gone}
    BY <1>4, OldIsNat DEF Old1
  <2> QED
    BY <2>1, <2>2 DEF Message
<1>7. new \in [1 .. w -> Message]
  BY <1>6
<1> HIDE DEF new
<1>8. /\ source' \in Seq(Message) /\ Len(source') = N + w
      /\ \A i \in DOMAIN source : i \in DOMAIN source' /\ source'[i] = source[i]
      /\ \A i \in DOMAIN source' :
            \/ i \in DOMAIN source
            \/ i - N \in 1 .. w /\ source'[i] = new[i - N]
  <2>1. source \in Seq(Message)
    BY <1>0 DEF Typed
  <2>2. source' \in Seq(Message) /\ Longer(source, source', new, w)
    BY <1>1, <1>3, <1>7, <2>1, PutInto
  <2> QED
    BY <2>2 DEF Longer
<1>9. DOMAIN source' = 1 .. N + w /\ DOMAIN source = 1 .. N
  BY <1>0, <1>8, Entries DEF Shape
\* A message of the area is one it had, or the copy of one of the chunk.
<1>10. ASSUME NEW i \in DOMAIN source', i \notin DOMAIN source
       PROVE  /\ i - N \in 1 .. w /\ i - N \in DOMAIN chunk
              /\ source'[i].of = chunk[i - N].of /\ source'[i].of \in Old1
              /\ source'[i].uid = nextUid + (i - N) - 1
              /\ source'[i].uid \in Nat /\ source'[i].uid >= nextUid /\ source'[i].uid < nextUid'
              /\ i > N
  <2>1. i - N \in 1 .. w /\ source'[i] = new[i - N]
    BY <1>8, <1>10
  <2>2. i > N
    BY <1>3, <1>9, <1>10
  <2> QED
    BY <1>4, <1>5, <2>1, <2>2
<1>11. /\ table' \in Seq(Nat) /\ Len(table') = N + w /\ DOMAIN table' = DOMAIN source'
       /\ \A i \in DOMAIN source' : table'[i] = source'[i].uid
  BY <1>1, <1>8, UidsTyped
<1>12. \A i \in DOMAIN source : source[i].uid \in Nat /\ source[i].uid < nextUid
  BY <1>0 DEF Areas, Shape
<1>13. Typed'
  <2>1. <<>> \in Seq(Carried)
    OBVIOUS
  <2> QED
    BY <1>0, <1>1, <1>2, <1>3, <1>8, <1>11, <2>1 DEF Typed, Steps
<1>14. \A i, j \in DOMAIN source' : i < j => source'[i].uid < source'[j].uid
  <2> SUFFICES ASSUME NEW i \in DOMAIN source', NEW j \in DOMAIN source', i < j
               PROVE  source'[i].uid < source'[j].uid
    OBVIOUS
  <2>1. i \in Nat /\ j \in Nat
    BY <1>3, <1>9
  <2>2. CASE i \in DOMAIN source /\ j \in DOMAIN source
    BY <1>0, <1>8, <2>2 DEF Areas
  <2>3. CASE i \in DOMAIN source /\ j \notin DOMAIN source
    <3>1. source'[i].uid = source[i].uid
      BY <1>8, <2>3
    <3> QED
      BY <1>3, <1>10, <1>12, <2>3, <3>1
  <2>4. CASE i \notin DOMAIN source
    <3>1. j \notin DOMAIN source
      BY <1>3, <1>9, <1>10, <2>1, <2>4
    <3> QED
      BY <1>3, <1>10, <2>1, <2>4, <3>1
  <2> QED
    BY <2>2, <2>3, <2>4
<1>15. Areas'
  <2>1. \A i \in DOMAIN source' : source'[i].uid \in Nat /\ source'[i].uid < nextUid'
    BY <1>3, <1>8, <1>10, <1>12
  <2>2. \A i \in DOMAIN source' : \/ source'[i].of = source'[i].uid
                                  \/ source'[i].uid > Old /\ source'[i].of \in Old1
    <3> SUFFICES ASSUME NEW i \in DOMAIN source'
                 PROVE  \/ source'[i].of = source'[i].uid
                        \/ source'[i].uid > Old /\ source'[i].of \in Old1
      OBVIOUS
    <3>1. CASE i \in DOMAIN source
      BY <1>0, <1>8, <3>1 DEF Areas
    <3>2. CASE i \notin DOMAIN source
      BY <1>3, <1>10, <3>2
    <3> QED
      BY <3>1, <3>2
  <2>3. \A i \in DOMAIN source' : source'[i].uid <= source'[i].uid
    BY <2>1
  <2>4. \A i, j \in DOMAIN table' : i < j => table'[i] < table'[j]
    BY <1>11, <1>14
  <2>5. \A i \in DOMAIN table' : table'[i] < nextUid'
    BY <1>11, <2>1
  <2>6. \A i \in DOMAIN source' \cap DOMAIN table' : table'[i] <= source'[i].uid
    BY <1>11, <2>3
  <2>7. kind' = "here"
    BY <1>1, <1>2
  <2> QED
    BY <1>14, <2>1, <2>2, <2>4, <2>5, <2>6, <2>7 DEF Areas
<1>16. Phases'
  BY <1>0, <1>1, <1>2 DEF Phases, Carrying, Removing
<1>17. Order'
  <2>1. ASSUME NEW i \in Copies'
        PROVE  /\ i \in DOMAIN source' /\ i \in Nat /\ Target'[i] = source'[i]
               /\ \/ i \in Copies /\ i \in DOMAIN source /\ Target[i] = source[i] /\ source'[i] = source[i]
                  \/ i \notin DOMAIN source /\ source'[i].of # Gone
    BY <1>1, <1>2, <1>3, <1>8, <1>9 DEF Copies, Target
  <2>2. ASSUME NEW i \in Copies' PROVE Target'[i].of \in Original
    <3>1. CASE i \in DOMAIN source
      BY <2>1, <3>1, CopiesAreOld
    <3>2. CASE i \notin DOMAIN source
      BY <1>10, <2>1, <3>2 DEF Old1
    <3> QED
      BY <3>1, <3>2
  <2>3. ASSUME NEW i \in Copies', NEW j \in Copies', i < j
        PROVE  Target'[i].of < Target'[j].of
    <3>1. CASE i \in DOMAIN source /\ j \in DOMAIN source
      BY <1>0, <2>1, <2>3, <3>1 DEF Order
    <3>2. CASE i \in DOMAIN source /\ j \notin DOMAIN source
      BY <1>0, <1>10, <2>1, <3>2 DEF Order
    <3>3. CASE i \notin DOMAIN source
      <4>1. j \notin DOMAIN source
        BY <1>3, <1>9, <1>10, <2>1, <2>3, <3>3
      <4>2. i - N \in DOMAIN chunk /\ j - N \in DOMAIN chunk /\ i - N < j - N
        BY <1>3, <1>10, <2>1, <2>3, <3>3, <4>1
      <4> QED
        BY <1>0, <1>10, <2>1, <3>3, <4>1, <4>2 DEF Order
    <3> QED
      BY <3>1, <3>2, <3>3
  <2>4. ASSUME NEW i \in Copies', NEW n \in DOMAIN source', n >= from
        PROVE  Target'[i].of < source'[n].uid
    <3>1. CASE n \notin DOMAIN source
      <4>1. Target'[i].of \in Nat /\ Target'[i].of <= Old
        BY <2>2, OldIsNat
      <4>2. source'[n].uid \in Nat /\ source'[n].uid >= nextUid
        BY <1>10, <3>1
      <4> QED
        BY <1>3, <4>1, <4>2
    <3>2. CASE n \in DOMAIN source /\ i \in DOMAIN source
      <4>1. i \in Copies /\ Target'[i].of = Target[i].of
        BY <2>1, <3>2
      <4>2. Target[i].of < source[n].uid
        BY <1>0, <1>2, <2>4, <3>2, <4>1 DEF Order, Carrying
      <4> QED
        BY <1>8, <3>2, <4>1, <4>2
    <3>3. CASE n \in DOMAIN source /\ i \notin DOMAIN source
      <4>1. i - N \in DOMAIN chunk /\ Target'[i].of = chunk[i - N].of /\ Target'[i].of # Gone
        BY <1>10, <2>1, <3>3
      <4>2. chunk[i - N].of < source[n].uid
        BY <1>0, <1>2, <2>4, <3>3, <4>1 DEF Order, Carrying
      <4> QED
        BY <1>8, <3>3, <4>1, <4>2
    <3> QED
      BY <3>1, <3>2, <3>3
  <2>5. \A i \in DOMAIN chunk' : FALSE
    BY <1>2
  <2>6. \A i \in Copies', n \in DOMAIN table' : n >= from => Target'[i].of < table'[n]
    BY <1>11, <2>4
  <2> QED
    BY <1>2, <2>3, <2>4, <2>5, <2>6 DEF Order
<1>18. Kept'
  <2>1. \A m : Here(m) => Here(m)'
    BY <1>8 DEF Here
  <2>2. \A i \in DOMAIN chunk' : FALSE
    BY <1>2
  <2> QED
    BY <1>0, <1>1, <1>2, <2>1, <2>2 DEF Kept, Removing, In
<1>19. Straight'
  <2>1. SUFFICES ASSUME packed = {} PROVE Straight'
    BY <1>2 DEF Straight
  <2>2. Old <= N + w /\ \A m \in Original : source'[m].uid = m
    <3>1. Old <= N /\ \A m \in Original : source[m].uid = m
      BY <1>0, <1>2, <2>1 DEF Straight, Removing
    <3>2. \A m \in Original : m \in DOMAIN source
      BY <1>3, <1>9, <3>1, OldIsNat
    <3> QED
      BY <1>3, <1>8, <3>1, <3>2
  <2>3. \A m : Passed(m)'
    BY <1>1, <1>2 DEF Passed
  <2> QED
    BY <1>0, <1>1, <1>2, <1>8, <1>11, <2>1, <2>2, <2>3 DEF Straight, Carrying, Removing
<1>20. Walked'
  BY <1>2 DEF Walked
<1>21. Current'
  BY <1>11 DEF Current, Fresh
<1>22. Removal'
  BY <1>1, <1>2 DEF Removal, Removing
<1> QED
  BY <1>13, <1>15, <1>16, <1>17, <1>18, <1>19, <1>20, <1>21, <1>22 DEF IInv

LEMMA PutThereKeeps ==
    ASSUME IInv, NEW w, Written(w), PutThere(w) PROVE IInv'
<1>0. Shape /\ Typed /\ Areas /\ Phases /\ Order /\ Kept /\ Straight /\ Walked /\ Current /\ Removal
  BY ShapeNow DEF IInv
<1> DEFINE new == SubSeq(chunk, 1, w)
           N == Len(target)
<1>1. /\ kind # "here" /\ target' = target \o new
      /\ stored' = IF kind = "move" THEN stored \cup Stored(w) ELSE stored
      /\ UNCHANGED <<source, nextUid, table>>
  BY DEF PutThere
<1>2. /\ phase = "put" /\ chunk' = <<>> /\ refused' \in BOOLEAN
      /\ \/ phase' = "ended" /\ refused'
         \/ phase' = "reopen" /\ w = Len(chunk)
      /\ UNCHANGED <<packed, kind, asked, marks, from, last, picked, stopped>>
  BY <1>1 DEF Written
<1>3. w \in Nat /\ w <= Len(chunk) /\ N \in Nat
  <2>1. w \in 0 .. Len(chunk)
    BY DEF Written
  <2>2. Len(chunk) \in Nat /\ N \in Nat
    BY <1>0 DEF Shape
  <2> QED
    BY <2>1, <2>2
<1>4. \A i \in 1 .. w : i \in DOMAIN chunk /\ chunk[i].of \in Old1 /\ chunk[i].uid \in Original
  BY <1>0, <1>3 DEF Shape
<1>5. new \in [1 .. w -> Carried] /\ \A i \in 1 .. w : new[i] = chunk[i]
  <2>1. chunk \in Seq(Carried) /\ Len(chunk) \in Nat
    BY <1>0 DEF Typed, Shape
  <2>2. new = [i \in 1 .. w |-> chunk[i]]
    BY <1>3, <2>1
  <2>3. \A i \in 1 .. w : chunk[i] \in Carried
    BY <1>4, <2>1
  <2> HIDE DEF new
  <2> QED
    BY <2>2, <2>3
<1> HIDE DEF new
<1>6. /\ target' \in Seq(Carried) /\ Len(target') = N + w
      /\ \A i \in DOMAIN target : i \in DOMAIN target' /\ target'[i] = target[i]
      /\ \A i \in DOMAIN target' :
            \/ i \in DOMAIN target
            \/ i - N \in 1 .. w /\ target'[i] = new[i - N]
      /\ \A k \in 1 .. w : N + k \in DOMAIN target' /\ target'[N + k] = new[k]
  <2>1. target \in Seq(Carried)
    BY <1>0 DEF Typed
  <2>2. target' \in Seq(Carried) /\ Longer(target, target', new, w)
    BY <1>1, <1>3, <1>5, <2>1, PutInto
  <2> QED
    BY <2>2 DEF Longer
<1>7. DOMAIN target' = 1 .. N + w /\ DOMAIN target = 1 .. N
  BY <1>0, <1>6, Entries DEF Shape
<1>8. ASSUME NEW i \in DOMAIN target', i \notin DOMAIN target
      PROVE  i - N \in 1 .. w /\ i - N \in DOMAIN chunk /\ target'[i] = chunk[i - N] /\ i > N
  BY <1>3, <1>4, <1>5, <1>6, <1>7, <1>8
<1>9. \A i \in DOMAIN chunk' : FALSE
  BY <1>2
<1>10. Typed'
  <2>1. <<>> \in Seq(Carried) /\ Stored(w) \subseteq Original
    BY <1>4 DEF Stored
  <2> QED
    BY <1>0, <1>1, <1>2, <1>6, <2>1 DEF Typed, Steps
<1>11. Areas' /\ Phases'
  BY <1>0, <1>1, <1>2 DEF Areas, Phases, Carrying, Removing
<1>12. Order'
  <2>1. ASSUME NEW i \in Copies'
        PROVE  /\ i \in DOMAIN target' /\ i \in Nat /\ Target'[i] = target'[i] /\ target'[i].of # Gone
               /\ \/ i \in Copies /\ i \in DOMAIN target /\ Target[i] = target[i] /\ target'[i] = target[i]
                  \/ i \notin DOMAIN target
    BY <1>1, <1>2, <1>3, <1>6, <1>7 DEF Copies, Target
  <2>2. ASSUME NEW i \in Copies', NEW j \in Copies', i < j
        PROVE  Target'[i].of < Target'[j].of
    <3>1. CASE i \in DOMAIN target /\ j \in DOMAIN target
      BY <1>0, <2>1, <2>2, <3>1 DEF Order
    <3>2. CASE i \in DOMAIN target /\ j \notin DOMAIN target
      BY <1>0, <1>8, <2>1, <3>2 DEF Order
    <3>3. CASE i \notin DOMAIN target
      <4>1. j \notin DOMAIN target
        BY <1>3, <1>7, <1>8, <2>1, <2>2, <3>3
      <4>2. i - N \in DOMAIN chunk /\ j - N \in DOMAIN chunk /\ i - N < j - N
        BY <1>3, <1>8, <2>1, <2>2, <3>3, <4>1
      <4> QED
        BY <1>0, <1>8, <2>1, <3>3, <4>1, <4>2 DEF Order
    <3> QED
      BY <3>1, <3>2, <3>3
  <2>3. ASSUME NEW i \in Copies'
        PROVE  /\ \A n \in DOMAIN source : n >= from => Target'[i].of < source[n].uid
               /\ \A n \in DOMAIN table : n >= from => Target'[i].of < table[n]
    <3>1. CASE i \in DOMAIN target
      BY <1>0, <1>2, <2>1, <3>1 DEF Order, Carrying
    <3>2. CASE i \notin DOMAIN target
      BY <1>0, <1>2, <1>8, <2>1, <3>2 DEF Order, Carrying
    <3> QED
      BY <3>1, <3>2
  <2> QED
    BY <1>1, <1>2, <1>9, <2>2, <2>3 DEF Order
<1>13. Kept'
  <2>1. \A m : Here(m)' <=> Here(m)
    BY <1>1 DEF Here
  <2>2. ASSUME NEW m \in stored' PROVE m \in packed \/ m \in In(target')
    <3>1. CASE m \in stored
      <4>1. m \in packed \/ m \in In(target)
        BY <1>0, <3>1 DEF Kept
      <4> QED
        BY <1>6, <4>1 DEF In
    <3>2. CASE m \notin stored
      <4>1. PICK k \in 1 .. w : m = chunk[k].uid
        BY <1>1, <2>2, <3>2 DEF Stored
      <4>2. chunk[k].of = chunk[k].uid \/ chunk[k].uid \in packed
        BY <1>0, <1>4 DEF Kept
      <4>3. N + k \in DOMAIN target' /\ target'[N + k] = chunk[k]
        BY <1>5, <1>6
      <4> QED
        BY <4>1, <4>2, <4>3 DEF In
    <3> QED
      BY <3>1, <3>2
  <2>3. ASSUME kind = "move", NEW n \in DOMAIN target'
        PROVE  target'[n].of \in stored' \cup {Gone}
    <3>1. CASE n \in DOMAIN target
      BY <1>0, <1>1, <1>6, <2>3, <3>1 DEF Kept
    <3>2. CASE n \notin DOMAIN target
      BY <1>0, <1>1, <1>8, <2>3, <3>2 DEF Kept, Stored
    <3> QED
      BY <3>1, <3>2
  <2> QED
    BY <1>0, <1>1, <1>2, <1>9, <2>1, <2>2, <2>3 DEF Kept, Removing
<1>14. Straight'
  <2>1. SUFFICES ASSUME packed = {} PROVE Straight'
    BY <1>2 DEF Straight
  <2>2. ASSUME NEW m \in asked, Passed(m) PROVE Passed(m)'
    BY <1>1, <1>2, <1>6, <2>2 DEF Passed, In
  <2>3. ASSUME w = Len(chunk), NEW m \in asked, m < from PROVE Passed(m)'
    <3>1. CASE Passed(m)
      BY <2>2, <3>1
    <3>2. CASE ~ Passed(m)
      <4>1. PICK i \in DOMAIN chunk : chunk[i].uid = m
        BY <1>0, <1>2, <2>1, <2>3, <3>2 DEF Straight, Carrying
      <4>2. i \in 1 .. w
        BY <1>0, <2>3 DEF Shape
      <4>3. chunk[i].of = m
        BY <1>0, <2>1, <4>1 DEF Kept
      <4>4. N + i \in DOMAIN target' /\ target'[N + i] = chunk[i]
        BY <1>5, <1>6, <4>2
      <4> QED
        BY <1>1, <1>2, <4>1, <4>2, <4>3, <4>4 DEF Passed, In, Stored
    <3> QED
      BY <3>1, <3>2
  <2> QED
    BY <1>0, <1>1, <1>2, <2>1, <2>3 DEF Straight, Carrying, Removing
<1>15. Walked'
  BY <1>2 DEF Walked
<1>16. Current' /\ Removal'
  BY <1>0, <1>1, <1>2 DEF Current, Fresh, Removal, Removing
<1> QED
  BY <1>10, <1>11, <1>12, <1>13, <1>14, <1>15, <1>16 DEF IInv

LEMMA PutKeeps ==
    ASSUME IInv, Put PROVE IInv'
<1>1. PICK w \in 0 .. Len(chunk) : Written(w) /\ (PutHere(w) \/ PutThere(w))
  BY ShapeNow, PutCases
<1> QED
  BY <1>1, PutHereKeeps, PutThereKeeps

\* --------------------------------------------------------------------------
\* What is to be removed is picked and taken out

LEMMA PickKeeps ==
    ASSUME IInv, Pick PROVE IInv'
<1>0. Shape /\ Typed /\ Areas /\ Phases /\ Order /\ Kept /\ Straight /\ Walked /\ Current /\ Removal
  BY ShapeNow DEF IInv
<1>1. /\ phase = "pick" /\ from >= 1
      /\ UNCHANGED <<source, target, nextUid, packed, kind, asked, marks, table,
                     last, chunk, stored, refused>>
  BY DEF Pick
<1>2. Copies' = Copies /\ Target' = Target
  BY <1>1, SameCopies
<1>3. /\ from \in Nat /\ from - 1 \in Nat /\ from \in DOMAIN table /\ UidAt(from) = table[from]
      /\ ToRemove' = ToRemove
  BY <1>0, <1>1 DEF Typed, Shape, Phases, Removing, UidAt, ToRemove
\* A message of the set at the number the walk is at is seen there.
<1>4. ASSUME Packs # "any", kind = "move", from \in DOMAIN source, source[from].uid \in stored
      PROVE  UidAt(from) \in ToRemove
  BY <1>0, <1>1, <1>3, <1>4 DEF Current, Fresh, ToRemove
<1>5. CASE phase' = "take" /\ stopped' = TRUE /\ kind = "delete" /\ UNCHANGED <<picked, from>>
  <2>1. Typed' /\ Areas' /\ Phases'
    BY <1>0, <1>1, <1>5 DEF Typed, Steps, Areas, Phases, Carrying, Removing
  <2>2. Order' /\ Kept'
    BY <1>0, <1>1, <1>2, <1>5 DEF Order, Carrying, Kept, Removing, In, Here
  <2>3. Straight' /\ Walked' /\ Current'
    BY <1>0, <1>1, <1>5 DEF Straight, Carrying, Removing, Passed, In, Walked, Current, Fresh
  <2>4. Removal'
    BY <1>0, <1>1, <1>3, <1>5 DEF Removal, Removing
  <2> QED
    BY <2>1, <2>2, <2>3, <2>4 DEF IInv
<1>6. CASE /\ UidAt(from) \notin ToRemove /\ from' = from - 1
           /\ UNCHANGED <<picked, stopped, phase>>
  <2>1. Typed' /\ Areas'
    BY <1>0, <1>1, <1>3, <1>6 DEF Typed, Areas
  <2>2. Phases'
    BY <1>0, <1>1, <1>3, <1>6 DEF Phases, Carrying, Removing, Shape
  <2>3. Order' /\ Kept'
    BY <1>0, <1>1, <1>2, <1>6 DEF Order, Carrying, Kept, Removing, In, Here
  <2>4. Straight' /\ Walked' /\ Current'
    BY <1>0, <1>1, <1>6 DEF Straight, Carrying, Removing, Passed, In, Walked, Current, Fresh
  <2>5. \A n \in Nat : n > from' => n > from \/ n = from
    BY <1>3, <1>6
  <2>6. \A i \in DOMAIN picked : picked[i].number \in Nat /\ (picked[i].number > from => picked[i].number > from')
    BY <1>0, <1>3, <1>6 DEF Shape
  <2>7. \A n \in DOMAIN source : n \in Nat
    BY <1>0 DEF Shape
  <2>8. Removal'
    BY <1>0, <1>1, <1>3, <1>4, <1>6, <2>5, <2>6, <2>7 DEF Removal, Removing
  <2> QED
    BY <2>1, <2>2, <2>3, <2>4, <2>8 DEF IInv
<1>7. CASE /\ UidAt(from) \in ToRemove /\ from' = from - 1
           /\ picked' = Append(picked, [uid |-> UidAt(from), number |-> from])
           /\ UNCHANGED <<stopped, phase>>
  <2> DEFINE new == Len(picked) + 1
             entry == [uid |-> UidAt(from), number |-> from]
  <2>1. entry \in Numbered /\ entry.uid = table[from] /\ entry.number = from
    BY <1>0, <1>3 DEF Numbered, Shape
  <2>2. /\ picked' \in Seq(Numbered) /\ DOMAIN picked' = 1 .. new
        /\ \A i \in DOMAIN picked : i \in DOMAIN picked' /\ picked'[i] = picked[i]
        /\ new \in DOMAIN picked' /\ picked'[new] = entry
        /\ \A i \in DOMAIN picked' : i = new \/ i \in DOMAIN picked
    <3>1. picked' = Append(picked, entry) /\ picked \in Seq(Numbered)
      BY <1>0, <1>7 DEF Typed
    <3> HIDE DEF entry
    <3> QED
      BY <2>1, <3>1
  <2> HIDE DEF entry
  <2>3. Typed' /\ Areas'
    BY <1>0, <1>1, <1>3, <1>7, <2>2 DEF Typed, Areas
  <2>4. Phases'
    BY <1>0, <1>1, <1>3, <1>7 DEF Phases, Carrying, Removing, Shape
  <2>5. Order' /\ Kept'
    BY <1>0, <1>1, <1>2, <1>7 DEF Order, Carrying, Kept, Removing, In, Here
  <2>6. Straight' /\ Walked' /\ Current'
    BY <1>0, <1>1, <1>7 DEF Straight, Carrying, Removing, Passed, In, Walked, Current, Fresh
  <2>7. Removal'
    <3>1. ASSUME NEW i \in DOMAIN picked'
          PROVE  /\ picked'[i].number \in DOMAIN table
                 /\ picked'[i].number > from'
                 /\ picked'[i].uid = table[picked'[i].number]
                 /\ picked'[i].uid \in ToRemove
      <4>1. CASE i = new
        BY <1>3, <1>7, <2>1, <2>2, <4>1
      <4>2. CASE i # new
        <5>1. i \in DOMAIN picked /\ picked'[i] = picked[i]
          BY <2>2, <4>2
        <5>2. picked[i].number \in Nat /\ picked[i].number > from
          BY <1>0, <1>1, <5>1 DEF Removal, Removing, Shape
        <5> QED
          BY <1>0, <1>1, <1>3, <1>7, <5>1, <5>2 DEF Removal, Removing
      <4> QED
        BY <4>1, <4>2
    <3>2. ASSUME Packs # "any", kind = "move",
                 NEW n \in DOMAIN source, n > from', source[n].uid \in stored
          PROVE  \E i \in DOMAIN picked' : picked'[i].number = n
      <4>1. n = from \/ n > from
        BY <1>0, <1>3, <1>7, <3>2 DEF Shape
      <4>2. CASE n = from
        BY <2>1, <2>2, <4>2
      <4>3. CASE n > from
        <5>1. PICK i \in DOMAIN picked : picked[i].number = n
          BY <1>0, <1>1, <3>2, <4>3 DEF Removal, Removing
        <5> QED
          BY <2>2, <5>1
      <4> QED
        BY <4>1, <4>2, <4>3
    <3> QED
      BY <1>1, <1>3, <1>7, <3>1, <3>2 DEF Removal, Removing
  <2> QED
    BY <2>3, <2>4, <2>5, <2>6, <2>7 DEF IInv
<1> QED
  BY <1>5, <1>6, <1>7 DEF Pick

LEMMA PickEndsKeeps ==
    ASSUME IInv, PickEnds PROVE IInv'
<1>0. Shape /\ Typed /\ Areas /\ Phases /\ Order /\ Kept /\ Straight /\ Walked /\ Current /\ Removal
  BY ShapeNow DEF IInv
<1>1. /\ phase = "pick" /\ phase' = "take"
      /\ UNCHANGED <<source, target, nextUid, packed, kind, asked, marks, table,
                     from, last, chunk, picked, stored, stopped, refused>>
  BY DEF PickEnds
<1>2. from = 0 \/ picked # <<>>
  BY <1>0, ChunkAssumption DEF PickEnds
<1>3. Typed' /\ Areas' /\ Phases'
  BY <1>0, <1>1, <1>2 DEF Typed, Steps, Areas, Phases, Carrying, Removing
<1>4. Order' /\ Kept'
  BY <1>0, <1>1, SameCopies DEF Order, Carrying, Kept, Removing, In, Here
<1>5. Straight' /\ Walked' /\ Current'
  BY <1>0, <1>1 DEF Straight, Carrying, Removing, Passed, In, Walked, Current, Fresh
<1>6. Removal'
  BY <1>0, <1>1 DEF Removal, Removing, ToRemove
<1> QED
  BY <1>3, <1>4, <1>5, <1>6 DEF IInv

Numbers == {picked[i].number : i \in DOMAIN picked}
Over == from = 0 \/ (kind = "delete" /\ stopped)

LEMMA MarksOnlyGo ==
    ASSUME marks \subseteq asked, NEW removed, NEW over
    PROVE  MarksLeft(removed, over) \subseteq marks
                /\ MarksLeft(removed, over) \cap removed = {}
BY DEF MarksLeft

\* The numbers are taken out of the area.
LEMMA TakenKeeps ==
    ASSUME IInv, phase = "take", Numbers \subseteq DOMAIN source,
           source' = TakenOut(source, Numbers), table' = Uids(source'),
           marks' = MarksLeft({picked[i].uid : i \in DOMAIN picked}, Over),
           phase' = IF Over THEN "done" ELSE "pick",
           picked' = <<>>,
           UNCHANGED <<target, nextUid, packed, kind, asked, from, last, chunk,
                       stored, stopped, refused>>
    PROVE  IInv'
<1>0. Shape /\ Typed /\ Areas /\ Phases /\ Order /\ Kept /\ Straight /\ Walked /\ Current /\ Removal
  BY ShapeNow DEF IInv
<1>1. kind \in {"move", "delete"} /\ chunk = <<>> /\ from <= Len(table) /\ from \in Nat
      /\ (from = 0 \/ picked # <<>> \/ (kind = "delete" /\ stopped))
  BY <1>0 DEF Phases, Removing, Typed
<1>2. source \in Seq(Message) /\ Numbers \in SUBSET Nat
  BY <1>0 DEF Typed, Shape, Numbers
<1>3. /\ source' \in Seq(Message)
      /\ \E place : Placed(source, Numbers, Len(source), source', place)
  BY <1>2, TakenOutPlaced
<1>4. PICK place : Placed(source, Numbers, Len(source), source', place)
  BY <1>3
<1>5. DOMAIN source = 1 .. Len(source) /\ Len(source) \in Nat
  BY <1>0 DEF Shape
<1>6. DOMAIN source' = 1 .. Len(source') /\ Len(source') \in Nat
  BY <1>3, Entries
<1>7. ASSUME NEW j \in DOMAIN source'
      PROVE  /\ place[j] \in DOMAIN source /\ source'[j] = source[place[j]]
             /\ place[j] \notin Numbers /\ j <= place[j] /\ j \in Nat /\ place[j] \in Nat
  BY <1>4, <1>5, <1>6 DEF Placed
<1>8. /\ table' \in Seq(Nat) /\ Len(table') = Len(source') /\ DOMAIN table' = DOMAIN source'
      /\ \A i \in DOMAIN source' : table'[i] = source'[i].uid
  BY <1>3, UidsTyped
<1>9. marks' \subseteq marks /\ \A i \in DOMAIN picked : picked[i].uid \notin marks'
  BY <1>0, MarksOnlyGo DEF Typed
<1>10. ASSUME NEW i \in DOMAIN picked
       PROVE  /\ picked[i].number \in DOMAIN table /\ picked[i].number > from
              /\ picked[i].number \in Nat
              /\ picked[i].uid = table[picked[i].number] /\ picked[i].uid \in ToRemove
  BY <1>0 DEF Removal, Removing, Shape
<1>11. phase' \in {"done", "pick"} /\ (phase' = "pick" => ~ Over)
  OBVIOUS
<1>12. Typed'
  <2>1. <<>> \in Seq(Numbered)
    OBVIOUS
  <2> QED
    BY <1>0, <1>3, <1>8, <1>9, <1>11, <2>1 DEF Typed, Steps
<1>13. Areas'
  <2>1. ASSUME NEW i \in DOMAIN source', NEW j \in DOMAIN source', i < j
        PROVE  source'[i].uid < source'[j].uid
    <3>1. place[i] < place[j]
      BY <1>4, <2>1 DEF Placed
    <3> QED
      BY <1>0, <1>7, <3>1 DEF Areas
  <2>2. ASSUME NEW i \in DOMAIN source'
        PROVE  /\ source'[i].uid < nextUid /\ source'[i].uid \in Nat
               /\ \/ source'[i].of = source'[i].uid
                  \/ kind = "here" /\ source'[i].uid > Old /\ source'[i].of \in Old1
    BY <1>0, <1>7 DEF Areas, Shape
  <2>3. \A i, j \in DOMAIN table' : i < j => table'[i] < table'[j]
    BY <1>8, <2>1
  <2>4. \A i \in DOMAIN table' : table'[i] < nextUid
    BY <1>8, <2>2
  <2>5. \A i \in DOMAIN source' \cap DOMAIN table' : table'[i] <= source'[i].uid
    BY <1>8, <2>2
  <2> QED
    BY <2>1, <2>2, <2>3, <2>4, <2>5 DEF Areas
\* The walk is still within the area.
<1>14. phase' = "pick" => from <= Len(source')
  <2> SUFFICES ASSUME phase' = "pick" PROVE from <= Len(source')
    OBVIOUS
  <2>1. from # 0 /\ picked # <<>>
    BY <1>1, <1>11 DEF Over
  <2>2. PICK i \in DOMAIN picked : TRUE
    <3>1. picked \in Seq(Numbered)
      BY <1>0 DEF Typed
    <3>2. 1 \in DOMAIN picked
      BY <2>1, <3>1
    <3> QED
      BY <3>2
  <2>3. picked[i].number \in DOMAIN source
    BY DEF Numbers
  <2>4. from \in 1 .. Len(source)
    BY <1>1, <1>5, <1>10, <2>1, <2>3
  <2>5. \A k \in Numbers : from < k
    BY <1>1, <1>10 DEF Numbers
  <2>6. from \in DOMAIN source'
    BY <1>4, <2>4, <2>5 DEF Placed
  <2> QED
    BY <1>6, <2>6
<1>15. Phases'
  BY <1>0, <1>1, <1>8, <1>11, <1>14 DEF Phases, Carrying, Removing
<1>16. Order'
  <2>1. Copies' = Copies /\ Target' = Target
    BY <1>1 DEF Copies, Target
  <2> QED
    BY <1>0, <1>11, <2>1 DEF Order, Carrying
<1>17. Kept'
  <2>1. ASSUME NEW m \in Original
        PROVE  \/ Here(m)' \/ m \in packed
               \/ Packs = "any"
               \/ kind = "move" /\ m \in stored
               \/ kind = "delete" /\ m \in asked \ marks'
    <3>1. CASE ~ Here(m)
      <4>1. \/ m \in packed
            \/ Packs = "any"
            \/ kind = "move" /\ m \in stored
            \/ kind = "delete" /\ m \in asked \ marks
        BY <1>0, <3>1 DEF Kept
      <4> QED
        BY <1>9, <4>1
    <3>2. CASE Here(m)
      <4>1. PICK k \in DOMAIN source : source[k].uid = m
        BY <3>2 DEF Here
      <4>2. CASE k \notin Numbers
        <5>1. PICK j \in DOMAIN source' : place[j] = k
          BY <1>4, <1>5, <4>2 DEF Placed
        <5> QED
          BY <1>7, <4>1, <5>1 DEF Here
      <4>3. CASE k \in Numbers /\ Packs # "any"
        <5>1. PICK i \in DOMAIN picked : picked[i].number = k
          BY <4>3 DEF Numbers
        <5>2. picked[i].uid = m
          BY <1>0, <1>10, <4>1, <4>3, <5>1 DEF Current, Fresh
        <5>3. m \in ToRemove /\ m \notin marks'
          BY <1>9, <1>10, <5>1, <5>2
        <5>4. CASE kind = "move"
          BY <5>3, <5>4 DEF ToRemove
        <5>5. CASE kind = "delete"
          BY <5>3, <5>5 DEF ToRemove
        <5> QED
          BY <1>1, <5>4, <5>5
      <4> QED
        BY <4>2, <4>3
    <3> QED
      BY <3>1, <3>2
  <2> QED
    BY <1>0, <1>11, <2>1 DEF Kept, Removing, In
<1>18. Straight'
  BY <1>0, <1>11 DEF Straight, Carrying, Removing, Passed, In
<1>19. Walked'
  BY <1>11 DEF Walked
<1>20. Current'
  BY <1>8 DEF Current, Fresh
<1>21. Removal'
  <2>1. ASSUME Packs # "any", kind = "move",
               NEW n \in DOMAIN source', n > from, source'[n].uid \in stored
        PROVE  FALSE
    <3>1. place[n] > from /\ source[place[n]].uid \in stored
      BY <1>1, <1>7, <2>1
    <3>2. PICK i \in DOMAIN picked : picked[i].number = place[n]
      BY <1>0, <1>7, <2>1, <3>1 DEF Removal, Removing
    <3> QED
      BY <1>7, <3>2 DEF Numbers
  <2>2. phase' = "done" /\ kind = "move" => \A n \in DOMAIN source' : n > from
    <3>1. phase' = "done" => Over
      OBVIOUS
    <3> QED
      BY <1>6, <3>1 DEF Over
  <2>3. \A i \in DOMAIN picked' : FALSE
    OBVIOUS
  <2> QED
    BY <1>11, <2>1, <2>2, <2>3 DEF Removal, Removing
<1> QED
  BY <1>12, <1>13, <1>15, <1>16, <1>17, <1>18, <1>19, <1>20, <1>21 DEF IInv

LEMMA TakeOutKeeps ==
    ASSUME IInv, TakeOut PROVE IInv'
<1>0. Shape /\ Typed /\ Areas /\ Phases /\ Order /\ Kept /\ Straight /\ Walked /\ Current /\ Removal
  BY ShapeNow DEF IInv
<1>1. /\ phase = "take" /\ picked' = <<>>
      /\ UNCHANGED <<target, nextUid, packed, kind, asked, from, last, chunk,
                     stored, stopped>>
  BY DEF TakeOut
<1>2. \/ /\ Numbers \subseteq DOMAIN source
         /\ source' = TakenOut(source, Numbers)
         /\ table' = Uids(source')
         /\ marks' = MarksLeft({picked[i].uid : i \in DOMAIN picked}, Over)
         /\ phase' = IF Over THEN "done" ELSE "pick"
         /\ UNCHANGED refused
      \/ /\ refused' = TRUE /\ phase' = "done"
         /\ marks' = MarksLeft({}, TRUE)
         /\ UNCHANGED <<source, table>>
  BY DEF TakeOut, Numbers, Over
<1>3. CASE refused' = TRUE /\ phase' = "done" /\ marks' = MarksLeft({}, TRUE)
           /\ UNCHANGED <<source, table>>
  <2>1. marks' \subseteq marks
    BY <1>0, <1>3, MarksOnlyGo DEF Typed
  <2>2. Typed'
    <3>1. <<>> \in Seq(Numbered)
      OBVIOUS
    <3> QED
      BY <1>0, <1>1, <1>3, <2>1, <3>1 DEF Typed, Steps
  <2>3. Areas' /\ Phases'
    BY <1>0, <1>1, <1>3 DEF Areas, Phases, Carrying, Removing
  <2>4. Order' /\ Kept'
    BY <1>0, <1>1, <1>3, <2>1, SameCopies DEF Order, Carrying, Kept, Removing, In, Here
  <2>5. Straight' /\ Walked' /\ Current' /\ Removal'
    BY <1>0, <1>1, <1>3 DEF Straight, Carrying, Removing, Walked, Current, Fresh, Removal
  <2> QED
    BY <2>2, <2>3, <2>4, <2>5 DEF IInv
<1> QED
  BY <1>1, <1>2, <1>3, TakenKeeps

\* --------------------------------------------------------------------------
\* The invariant, and what it says

LEMMA NextKeeps ==
    ASSUME IInv, [PassNext]_passVars PROVE IInv'
<1>1. CASE Deliver
  BY <1>1, DeliverKeeps
<1>2. CASE Pack
  BY <1>2, PackKeeps
<1>3. CASE Run
  <2>1. CASE OpenSource
    BY <2>1, OpenKeeps
  <2>2. CASE Skip
    BY <2>2, SkipKeeps
  <2>3. CASE Gather
    BY <2>3, GatherKeeps
  <2>4. CASE ChunkEnds
    BY <2>4, ChunkEndsKeeps
  <2>5. CASE Hand
    BY <2>5, HandKeeps
  <2>6. CASE Put
    BY <2>6, PutKeeps
  <2>7. CASE Reopen
    BY <2>7, ReopenKeeps
  <2>8. CASE AfterPass
    BY <2>8, AfterPassKeeps
  <2>9. CASE Pick
    BY <2>9, PickKeeps
  <2>10. CASE PickEnds
    BY <2>10, PickEndsKeeps
  <2>11. CASE TakeOut
    BY <2>11, TakeOutKeeps
  <2> QED
    BY <1>3, <2>1, <2>2, <2>3, <2>4, <2>5, <2>6, <2>7, <2>8, <2>9, <2>10, <2>11 DEF Run
<1>4. CASE Done \/ UNCHANGED passVars
  <2>1. /\ UNCHANGED <<source, target, nextUid, packed, kind, asked, marks, phase>>
        /\ UNCHANGED <<table, from, last, chunk, picked, stored, stopped, refused>>
    BY <1>4 DEF Done, passVars
  <2>2. Typed' /\ Areas' /\ Phases'
    BY <2>1 DEF IInv, Typed, Areas, Phases, Carrying, Removing
  <2>3. Order' /\ Kept'
    BY <2>1, SameCopies DEF IInv, Order, Carrying, Kept, Removing, In, Here
  <2>4. Straight' /\ Walked' /\ Current'
    BY <2>1 DEF IInv, Straight, Carrying, Removing, Passed, In, Walked, Current, Fresh
  <2>5. Removal'
    BY <2>1 DEF IInv, Removal, Removing, ToRemove
  <2> QED
    BY <2>2, <2>3, <2>4, <2>5 DEF IInv
<1> QED
  BY <1>1, <1>2, <1>3, <1>4 DEF PassNext

\* The invariant holds, whenever the packer comes: types, the order of the UIDs,
\* what the open base's table still says of the area, and what is in hand.
THEOREM Invariance == PassSpec => []IInv
<1>1. PassInit => IInv
  BY InitIInv
<1>2. IInv /\ [PassNext]_passVars => IInv'
  BY NextKeeps
<1> QED
  BY <1>1, <1>2, PTL DEF PassSpec

\* passMessages(): however many chunks a run takes, and whatever is appended and
\* packed between them, no message is carried over twice and those carried over
\* keep their order.
THEOREM CarriesOnceInOrder == PassSpec => []CarriedOnceInOrder
<1>1. IInv => CarriedOnceInOrder
  <2> SUFFICES ASSUME IInv PROVE CarriedOnceInOrder
    OBVIOUS
  <2>1. \A i, j \in Copies : i < j => Target[i].of < Target[j].of
    BY DEF IInv, Order
  <2> QED
    BY <2>1 DEF CarriedOnceInOrder, Copies, Target
<1> QED
  BY <1>1, Invariance, PTL

\* A copy that came to its end, broken off nowhere and refused nothing, has
\* carried every marked message that is still there, if nothing was packed.
THEOREM CarriesEveryMarked == PassSpec => []EveryMarkedCarried
<1>1. IInv => EveryMarkedCarried
  BY DEF IInv, Straight, Passed, EveryMarkedCarried
<1> QED
  BY <1>1, Invariance, PTL

\* An old message stands in its area under its own UID.
LEMMA OldOfIsUid ==
    ASSUME IInv, NEW m \in Original, Here(m)
    PROVE  m \in In(source)
<1>1. PICK n \in DOMAIN source : source[n].uid = m
  BY DEF Here
<1>2. source[n].of = m
  BY <1>1, OldIsNat DEF IInv, Areas
<1> QED
  BY <1>2 DEF In

\* passOnMarked(), removeMessages(): if no packer comes while the numbers of the
\* messages to go are in hand, what leaves the area is what was asked for, and a
\* message moved is always in one area or the other.
THEOREM LosesNothingElse ==
    ASSUME Packs # "any" PROVE PassSpec => []NothingElseGone
<1>1. IInv => NothingElseGone
  <2> SUFFICES ASSUME IInv, NEW m \in Original \ (In(source) \cup packed)
               PROVE  CASE kind = "move" -> m \in In(target) /\ m \in stored
                        [] kind = "delete" -> m \in asked \ marks
                        [] OTHER -> FALSE
    BY DEF NothingElseGone
  <2>1. ~ Here(m) /\ m \notin packed
    BY OldOfIsUid
  <2>2. \/ kind = "move" /\ m \in stored
        \/ kind = "delete" /\ m \in asked \ marks
    BY <2>1 DEF IInv, Kept
  <2>3. m \in stored => m \in In(target)
    BY <2>1 DEF IInv, Kept
  <2>4. CASE kind = "move"
    BY <2>2, <2>3, <2>4
  <2>5. CASE kind = "delete"
    BY <2>2, <2>5
  <2> QED
    BY <2>2, <2>4, <2>5
<1> QED
  BY <1>1, Invariance, PTL

\* A move that was refused nothing leaves no message in both areas; one that was
\* not broken off either has moved every message it was asked for, if nothing
\* was packed.
THEOREM MovesIntoOne ==
    ASSUME Packs # "any" PROVE PassSpec => []MovedIsInOne
<1>1. IInv => MovedIsInOne
  <2> SUFFICES ASSUME IInv, phase = "done", kind = "move", ~ refused
               PROVE  /\ In(source) \cap In(target) = {}
                      /\ ~ stopped /\ packed = {} => asked \cap In(source) = {}
    BY DEF MovedIsInOne
  <2>1. \A n \in DOMAIN source : source[n].uid \notin stored
    BY DEF IInv, Removal
  <2>2. \A n \in DOMAIN source : source[n].of = source[n].uid /\ source[n].of # Gone
    BY ShapeNow, GoneAssumption DEF IInv, Areas, Shape
  <2>3. In(source) \cap stored = {} /\ Gone \notin In(source)
    BY <2>1, <2>2 DEF In
  <2>4. In(target) \subseteq stored \cup {Gone}
    BY DEF IInv, Kept, In
  <2>5. ~ stopped /\ packed = {} => asked \subseteq stored
    BY DEF IInv, Straight, Passed
  <2> QED
    BY <2>3, <2>4, <2>5
<1> QED
  BY <1>1, Invariance, PTL
=============================================================================
