----------------------------- MODULE BaseFiles -----------------------------
(***************************************************************************)
(* The files of a base coming into being: AreaManager::openArea,           *)
(* FtnMsgBase::open and create, and the drivers' completeIfEmpty,          *)
(* makeFiles and open, one call into the file system at a time, against    *)
(* other programs that open or make the same base.                         *)
(*                                                                         *)
(* A base is a few files under one name.  One of them is its head: the     *)
(* base is found by it, and it alone carries a header when the base is     *)
(* empty.  makeFiles makes the head last.                                  *)
(***************************************************************************)
EXTENDS Naturals, Sequences, FiniteSets, Functions, SequencesExt

CONSTANTS
    Processes,     \* AmberEdit programs
    Formats,       \* what a base may be made of: its files as makeFiles makes them
    None,          \* no file has the name
    MaxFiles,      \* bound: files there are at one time, named or open
    MaxTroubles,   \* bound: refusals by the disk and deaths
    MaxTosses      \* bound: visits of a tosser

ASSUME FormatsAssumption ==
    \A making \in Formats : making \in Seq(STRING) /\ Len(making) > 0 /\ IsInjective(making)
ASSUME BoundsAssumption ==
    /\ MaxFiles \in Nat /\ MaxTroubles \in Nat /\ MaxTosses \in Nat
    /\ None \notin 1 .. MaxFiles
    /\ \A making \in Formats : Len(making) <= MaxFiles

VARIABLES
    making,    \* the format of this base
    disk,      \* what file has each name
    holds,     \* what is in a file: "nothing", "header" (and nothing else), "mail"
    job,       \* where each process is, and what its call has found and made
    troubles,
    tosses,
    met,       \* history: a file was made or taken back while another process was making some
    spoilt     \* history: the base was found broken, or its head is left headless

vars == <<making, disk, holds, job, troubles, tosses, met, spoilt>>

File == 1 .. MaxFiles
Names == ToSet(making)
HeadFile == Last(making)
PartsOf == <<HeadFile>> \o Front(making)
Place(name) == CHOOSE i \in DOMAIN making : making[i] = name

Standing == {name \in Names : disk[name] # None}
Mail == {name \in Standing : holds[disk[name]] = "mail"}

\* Mutant: a base is completed whatever its files hold.
IsEmptyNotAsked(name) == disk[name] # None

\* What creating a base leaves in each of its files.
Fresh(name) == IF name = HeadFile THEN "header" ELSE "nothing"
IsEmpty(name) == disk[name] # None /\ holds[disk[name]] = Fresh(name)

(***************************************************************************)
(* A process: the step it is at, the names it has left there, the names it *)
(* has seen (in "empty": and not judged), whether makeFiles is to keep     *)
(* what exists, whether it is in create(), whether it opens what it        *)
(* created, makeFiles' list (made) and, as history, the files it made      *)
(* itself (own), and the file it has open under each name.                 *)
(***************************************************************************)
Idle == [step |-> "idle", left |-> <<>>, seen |-> {}, keep |-> FALSE, creating |-> FALSE,
         again |-> FALSE, made |-> <<>>, own |-> {}, open |-> [name \in Names |-> None]]

InUse == {disk[name] : name \in Standing}
         \cup UNION {Range(job[p].open) \cup job[p].own : p \in Processes}
FreeFile == File \ InUse
\* A free file for each name.
FreeFiles == CHOOSE files \in [Names -> FreeFile] : IsInjective(files)

At(p, step) == job[p].step = step
More(p) == job[p].left # <<>>
Name(p) == Head(job[p].left)
Go(p, step) == job' = [job EXCEPT ![p].step = step]
GoOver(p, step, names) ==
    job' = [job EXCEPT ![p].step = step, ![p].left = names, ![p].seen = {}]
Pop(p) == job' = [job EXCEPT ![p].left = Tail(@)]
Fail(p) == job' = [job EXCEPT ![p] = Idle]

Quiet == UNCHANGED <<making, disk, holds, troubles, tosses, met, spoilt>>

\* The base can be opened by the next who asks: it is not there, or it is all
\* there with its header, or nothing that is there holds anything.
Openable ==
    \/ Standing = {}
    \/ Standing = Names /\ holds[disk[HeadFile]] # "nothing"
    \/ \A name \in Standing : IsEmpty(name)

\* Any of the files may be there, as whoever made them or swept them left them.
Init ==
    /\ making \in Formats
    /\ \E there \in SUBSET Names :
          disk = [name \in Names |-> IF name \in there THEN Place(name) ELSE None]
    /\ holds \in [File -> {"nothing", "header", "mail"}]
    /\ \A f \in File :
          \/ holds[f] = "nothing"
          \/ f \in Range(disk) /\ (holds[f] = "header" => f = disk[HeadFile])
    /\ job = [p \in Processes |-> Idle]
    /\ troubles = 0 /\ tosses = 0
    /\ met = FALSE
    /\ spoilt = ~ Openable

-----------------------------------------------------------------------------
(* FtnMsgBase::open, and create()'s isAbsent(): what of the base is there.   *)

AskStands(p, creating, again) ==
    job' = [job EXCEPT ![p] =
        [Idle EXCEPT !.step = "stands", !.left = <<HeadFile>> \o PartsOf,
                     !.creating = creating, !.again = again]]

OpenArea(p) == At(p, "idle") /\ AskStands(p, FALSE, FALSE) /\ Quiet

\* One exists() of the three listings: nothingOfItAt, missingParts, completeIfEmpty.
Look(p) ==
    /\ job[p].step \in {"stands", "missing", "judge"} /\ More(p)
    /\ job' = [job EXCEPT ![p].left = Tail(@),
                          ![p].seen = @ \cup ({Name(p)} \cap Standing)]
    /\ Quiet

\* Absent: openArea creates the base, and create() asks once more.
AskCreate(p) ==
    /\ At(p, "stands") /\ ~ More(p) /\ job[p].seen = {}
    /\ ~ job[p].creating /\ ~ job[p].again
    /\ AskStands(p, TRUE, FALSE)
    /\ Quiet

StartMaking(p, keep) ==
    job' = [job EXCEPT ![p].step = "make", ![p].left = making, ![p].keep = keep]

Create(p) ==
    /\ At(p, "stands") /\ ~ More(p) /\ job[p].seen = {} /\ job[p].creating
    /\ StartMaking(p, FALSE)
    /\ Quiet

\* Absent after it was created, or something there when it is to be created.
GiveUp(p) ==
    /\ At(p, "stands") /\ ~ More(p)
    /\ IF job[p].seen = {} THEN job[p].again ELSE job[p].creating
    /\ Fail(p)
    /\ Quiet

AskMissing(p) ==
    /\ At(p, "stands") /\ job[p].seen # {} /\ ~ job[p].creating
    /\ HeadFile \in job[p].seen \/ ~ More(p)
    /\ GoOver(p, "missing", PartsOf)
    /\ Quiet

StartOpening(p) ==
    job' = [job EXCEPT ![p].step = "open", ![p].left = PartsOf,
                       ![p].made = <<>>, ![p].own = {}]

AllThere(p) ==
    /\ job[p].step \in {"missing", "judge"} /\ ~ More(p) /\ job[p].seen = Names
    /\ StartOpening(p)
    /\ Quiet

AskWhole(p) ==
    /\ At(p, "missing") /\ ~ More(p) /\ job[p].seen # Names
    /\ GoOver(p, "judge", PartsOf)
    /\ Quiet

-----------------------------------------------------------------------------
(* completeIfEmpty, past its listing.                                        *)

\* Nothing is left of it: Incomplete.
NothingToComplete(p) ==
    At(p, "judge") /\ ~ More(p) /\ job[p].seen = {} /\ Fail(p) /\ Quiet

AskEmpty(p) ==
    /\ At(p, "judge") /\ ~ More(p) /\ job[p].seen \notin {{}, Names}
    /\ Go(p, "empty")
    /\ Quiet

\* The first of those that were seen and not judged yet.
NextSeen(p) ==
    PartsOf[CHOOSE i \in DOMAIN PartsOf :
               /\ PartsOf[i] \in job[p].seen
               /\ \A k \in 1 .. i - 1 : PartsOf[k] \notin job[p].seen]

\* isEmptyAreaHeader, isEmptyInfoBlock, isEmptyFile: the file is opened, measured and read.
Judge(p) ==
    /\ At(p, "empty") /\ job[p].seen # {}
    /\ IF IsEmpty(NextSeen(p)) THEN job' = [job EXCEPT ![p].seen = @ \ {NextSeen(p)}]
       ELSE Fail(p)
    /\ Quiet

Complete(p) ==
    At(p, "empty") /\ job[p].seen = {} /\ StartMaking(p, TRUE) /\ Quiet

-----------------------------------------------------------------------------
(* makeFiles.                                                                *)

\* Mutant: a file found there goes on the list of those to take back.
KeptIsListed(p) ==
    /\ At(p, "make") /\ More(p) /\ job[p].keep /\ Name(p) \in Standing
    /\ job' = [job EXCEPT ![p].left = Tail(@), ![p].made = Append(@, Name(p))]
    /\ Quiet

\* keepExisting: the file is there already.
Kept(p) ==
    /\ At(p, "make") /\ More(p) /\ job[p].keep /\ Name(p) \in Standing
    /\ Pop(p)
    /\ Quiet

NotThere(p) ==
    /\ At(p, "make") /\ More(p) /\ job[p].keep /\ Name(p) \notin Standing
    /\ Go(p, "create")
    /\ Quiet

\* BinaryFile::create comes next: O_CREAT | O_EXCL.
Creating(p) == More(p) /\ (At(p, "create") \/ (At(p, "make") /\ ~ job[p].keep))

InTheMaking(p) ==
    job[p].creating \/ job[p].step \in {"make", "create", "header", "giveBack"}

Meeting(p) == met' = (met \/ \E q \in Processes \ {p} : InTheMaking(q))

MakeFile(p) ==
    /\ Creating(p) /\ disk[Name(p)] = None /\ FreeFile # {}
    /\ LET file == CHOOSE f \in FreeFile : TRUE IN
       /\ disk' = [disk EXCEPT ![Name(p)] = file]
       /\ holds' = [holds EXCEPT ![file] = "nothing"]
       /\ job' = [job EXCEPT ![p].step = IF Name(p) = HeadFile THEN "header" ELSE "make",
                             ![p].left = Tail(@),
                             ![p].made = Append(@, Name(p)),
                             ![p].own = @ \cup {file}]
    /\ Meeting(p)
    /\ UNCHANGED <<making, troubles, tosses, spoilt>>

StartGivingBack(p) ==
    job' = [job EXCEPT ![p].step = "giveBack", ![p].left = job[p].made]

\* The name is taken.
Taken(p) == Creating(p) /\ disk[Name(p)] # None /\ StartGivingBack(p) /\ Quiet

\* Mutant: a refusal returns at once.
RefusedReturns(p) ==
    /\ Creating(p) \/ At(p, "header")
    /\ troubles < MaxTroubles /\ troubles' = troubles + 1
    /\ Fail(p)
    /\ UNCHANGED <<making, disk, holds, tosses, met, spoilt>>

\* The disk makes no file, or does not take the header.
Refused(p) ==
    /\ Creating(p) \/ At(p, "header")
    /\ troubles < MaxTroubles /\ troubles' = troubles + 1
    /\ StartGivingBack(p)
    /\ UNCHANGED <<making, disk, holds, tosses, met, spoilt>>

WriteHeader(p) ==
    /\ At(p, "header")
    /\ holds' = [holds EXCEPT ![disk[HeadFile]] = "header"]
    /\ Go(p, "make")
    /\ UNCHANGED <<making, disk, troubles, tosses, met, spoilt>>

\* The removal is by name.
GiveBack(p) ==
    /\ At(p, "giveBack") /\ More(p)
    /\ disk' = [disk EXCEPT ![Name(p)] = None]
    /\ Pop(p)
    /\ Meeting(p)
    /\ UNCHANGED <<making, holds, troubles, tosses, spoilt>>

\* remove() fails, which nothing looks at.
NotGivenBack(p) ==
    /\ At(p, "giveBack") /\ More(p)
    /\ troubles < MaxTroubles /\ troubles' = troubles + 1
    /\ spoilt' = (spoilt \/ Name(p) = HeadFile)
    /\ Pop(p)
    /\ UNCHANGED <<making, disk, holds, tosses, met>>

GivenBack(p) == At(p, "giveBack") /\ ~ More(p) /\ Fail(p) /\ Quiet

\* A base that was created is opened as it stands, from the beginning; one that
\* was completed goes on to the driver.
Made(p) ==
    /\ At(p, "make") /\ ~ More(p)
    /\ IF job[p].keep THEN StartOpening(p)
       ELSE AskStands(p, FALSE, TRUE)
    /\ Quiet

-----------------------------------------------------------------------------
(* The driver's open(), and the open base.                                   *)

OpenFile(p) ==
    /\ At(p, "open") /\ More(p)
    /\ IF Name(p) \in Standing
       THEN job' = [job EXCEPT ![p].left = Tail(@),
                               ![p].open[Name(p)] = disk[Name(p)]]
       ELSE Fail(p)
    /\ Quiet

ReadHeader(p) ==
    /\ At(p, "open") /\ ~ More(p)
    /\ IF holds[job[p].open[HeadFile]] = "nothing" THEN Fail(p) ELSE Go(p, "reading")
    /\ Quiet

\* A message goes into every file: the drivers' own modules say how.
Write(p) ==
    /\ At(p, "reading")
    /\ holds' = [f \in File |-> IF f \in Range(job[p].open) THEN "mail" ELSE holds[f]]
    /\ UNCHANGED <<making, disk, job, troubles, tosses, met, spoilt>>

Close(p) == At(p, "reading") /\ Fail(p) /\ Quiet

Die(p) ==
    /\ ~ At(p, "idle")
    /\ troubles < MaxTroubles /\ troubles' = troubles + 1
    /\ spoilt' = (spoilt \/ \/ At(p, "header")
                            \/ At(p, "giveBack") /\ Contains(job[p].left, HeadFile))
    /\ Fail(p)
    /\ UNCHANGED <<making, disk, holds, tosses, met>>

\* A tosser brings mail: into a base that is there, or into one it makes.
Toss ==
    /\ tosses < MaxTosses /\ tosses' = tosses + 1
    /\ IF Standing = {}
       THEN /\ Cardinality(FreeFile) >= Len(making)
            /\ disk' = [name \in Names |-> FreeFiles[name]]
            /\ holds' = [f \in File |-> IF f \in Range(disk') THEN "mail" ELSE holds[f]]
       ELSE /\ Standing = Names /\ holds[disk[HeadFile]] # "nothing"
            /\ holds' = [f \in File |-> IF f \in Range(disk) THEN "mail" ELSE holds[f]]
            /\ UNCHANGED disk
    /\ UNCHANGED <<making, job, troubles, met, spoilt>>

Step(p) ==
    \/ OpenArea(p) \/ Look(p) \/ AskCreate(p) \/ Create(p) \/ GiveUp(p)
    \/ AskMissing(p) \/ AllThere(p) \/ AskWhole(p)
    \/ NothingToComplete(p) \/ AskEmpty(p) \/ Judge(p) \/ Complete(p)
    \/ Kept(p) \/ NotThere(p) \/ MakeFile(p) \/ Taken(p) \/ Refused(p) \/ WriteHeader(p)
    \/ GiveBack(p) \/ NotGivenBack(p) \/ GivenBack(p) \/ Made(p)
    \/ OpenFile(p) \/ ReadHeader(p) \/ Write(p) \/ Close(p) \/ Die(p)

Next == Toss \/ \E p \in Processes : Step(p)

Spec == Init /\ [][Next]_vars

-----------------------------------------------------------------------------
\* A base of which any file holds mail is left exactly where it stands: no file
\* of it loses its name, and none is made beside it.  Unless two programs were
\* making files of it at once: of those, one takes back what it made, which the
\* other may have found, kept and opened a base over by then.
HeldIsLeftAlone == [][Mail # {} /\ ~ met' => disk' = disk]_vars

\* What a call takes back it has made itself, whatever stood at the name before or
\* was put there since: the removal is by name, and hits the file it made.
TakesBackItsOwn ==
    [][\A p \in Processes :
          At(p, "giveBack") /\ job'[p] # job[p]
             => \A name \in Standing : disk'[name] # disk[name] => disk[name] \in job[p].own]_vars

\* Whatever was refused and whoever died, nothing is left for the next attempt to
\* trip over: a base that could be opened, or made, still can be once nobody is in
\* the middle of it.  Excepted are a head left without its header, which is never
\* taken for an empty base, and two programs that were making files at once.
OpensNextTime ==
    (\A p \in Processes : job[p].step \in {"idle", "reading"}) /\ ~ met /\ ~ spoilt => Openable

=============================================================================
