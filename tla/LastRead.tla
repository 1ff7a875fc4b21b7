------------------------------ MODULE LastRead ------------------------------
(***************************************************************************)
(* The last-read marks (msgbase/*lastread*.cpp): one file per area, one    *)
(* record per user, written by several processes without a lock.  A .sql   *)
(* and a .MSG lastread file are arrays indexed by the user's number; a     *)
(* .jlr is searched for the CRC of the user's name, and a user it does not *)
(* have is put at the end.                                                 *)
(*                                                                         *)
(* Each opening and each write of the file is a step.  findRecord() is one *)
(* step: records are never moved.                                          *)
(***************************************************************************)
EXTENDS Naturals, Sequences, SequencesExt, FiniteSetsExt

CONSTANTS
    User,       \* the processes; each belongs to one user
    Volumes,    \* the areas there may be, each with its format ("Squish",
                \* "Opus" or "Jam"), the processes at it, the number, from 0,
                \* and the CRC of the name of each one's user, and the records
                \* in its file at first, or NoFile
    NoFile,     \* what there is where there is no file
    NoCrc,      \* the CRC of a record nobody has written, or a deleted one
    MaxUid,     \* bound: the largest UID
    WordMax     \* the largest UID a .MSG record can say, 65535 in the code

\* A record: whose it is, the mark, and the furthest mark there has been.
Record == [crc : (UNION {{v.crc[u] : u \in User} : v \in Volumes}) \cup {NoCrc},
           last : Nat, high : Nat]

\* No two of the processes are one user, and nobody has two records.
ASSUME VolumesAssumption ==
    \A v \in Volumes :
        /\ v.format \in {"Squish", "Opus", "Jam"} /\ v.users \subseteq User
        /\ v.number \in [User -> Nat]
        /\ NoCrc \notin {v.crc[u] : u \in User}
        /\ v.before \in Seq(Record) \cup {NoFile}
        /\ \A u, w \in v.users :
              u # w => IF v.format = "Jam" THEN v.crc[u] # v.crc[w]
                       ELSE v.number[u] # v.number[w]
        /\ v.format = "Jam" /\ v.before # NoFile =>
              \A u \in v.users, i, j \in DOMAIN v.before :
                 v.before[i].crc = v.crc[u] /\ v.before[j].crc = v.crc[u] => i = j
ASSUME NoFileAssumption == NoFile \notin Seq(Record)
ASSUME WidthAssumption == MaxUid \in Nat /\ WordMax \in Nat

VARIABLES
    volume,     \* the area
    file,       \* the lastread file: a sequence of records, or NoFile
    pc,         \* where each process is in setLastRead()
    job,        \* the variables of its call
    mark,       \* the mark each process has last got to the disk
    exposed     \* history: those whose mark was written while another process
                \* was about to make the file, or to write in the same place

vars == <<volume, file, pc, job, mark, exposed>>

Format == volume.format
Number == volume.number
Crc == volume.crc

\* A cleared .sql record has all its bits set.
Cleared == MaxUid + 1
Uid == 1 .. MaxUid
\* A hole in a file reads as zeros.
Blank == [crc |-> NoCrc, last |-> 0, high |-> 0]
NoJob == [uid |-> 0, at |-> 0, high |-> 0]

Records == IF file = NoFile THEN <<>> ELSE file
-----------------------------------------------------------------------------
\* findRecord(): the first record of the name, or 0.
FindRecord(u) ==
    LET mine == {i \in DOMAIN Records : Records[i].crc = Crc[u]}
    IN  IF mine = {} THEN 0 ELSE Min(mine)

\* getLastRead(): a file, a record or a mark that is not there is zero.
GetLastRead(u) ==
    LET at == IF Format = "Jam" THEN FindRecord(u) ELSE Number[u] + 1
        found == IF at \in DOMAIN Records THEN Records[at].last ELSE 0
    IN  IF found = Cleared THEN 0 ELSE found
-----------------------------------------------------------------------------
Init ==
    /\ volume \in Volumes
    /\ file = volume.before
    /\ pc = [u \in User |-> "idle"]
    /\ job = [u \in User |-> NoJob]
    /\ mark = [u \in User |-> GetLastRead(u)]
    /\ exposed = {}

Goto(u, where) == pc' = [pc EXCEPT ![u] = where]

\* A .MSG mark is a word; a number past it leaves the mark as it was.
Sayable(uid) == Format = "Opus" => uid <= WordMax

SetArray(u, uid) ==
    /\ Format # "Jam"
    /\ pc[u] = "idle"
    /\ Sayable(uid)
    /\ job' = [job EXCEPT ![u] = [uid |-> uid, at |-> Number[u] + 1, high |-> 0]]
    /\ Goto(u, "open")
    /\ UNCHANGED <<file, mark, exposed>>

SetJam(u, uid) ==
    /\ Format = "Jam"
    /\ pc[u] = "idle"
    /\ LET at == FindRecord(u)
       IN  /\ job' = [job EXCEPT ![u] =
                [uid |-> uid, at |-> at,
                 high |-> IF at = 0 THEN 0 ELSE Records[at].high]]
           /\ Goto(u, IF at = 0 THEN "end" ELSE "open")
    /\ UNCHANGED <<file, mark, exposed>>

\* "No record yet: ours goes on the end", by the size the file has now.
AtTheEnd(u) ==
    /\ pc[u] = "end"
    /\ job' = [job EXCEPT ![u].at = Len(Records) + 1]
    /\ Goto(u, "open")
    /\ UNCHANGED <<file, mark, exposed>>

\* writeBytes(): "r+b" keeps the records of every other user.
OpenKeeping(u) ==
    /\ pc[u] = "open"
    /\ Goto(u, IF file = NoFile THEN "create" ELSE "put")
    /\ UNCHANGED <<file, job, mark, exposed>>

\* writeBytes(): only where there is no file is it created, with "w+b", which
\* empties one that has come into being since.
Create(u) ==
    /\ pc[u] = "create"
    /\ file' = <<>>
    /\ Goto(u, "put")
    /\ UNCHANGED <<job, mark, exposed>>

\* Mutant: the mark that is being set, also where it goes back.
HighIsUid(high, uid) == uid

\* HighReadMsg, "the furthest the reading has ever got".
HighOf(high, uid) == IF uid > high THEN uid ELSE high

\* The record as each format writes it.
Written(u) ==
    LET uid == job[u].uid
    IN  CASE Format = "Jam" ->
                [crc |-> Crc[u], last |-> uid, high |-> HighOf(job[u].high, uid)]
          [] Format = "Opus" ->
                [Blank EXCEPT !.last = uid % (WordMax + 1)]
          [] OTHER -> [Blank EXCEPT !.last = uid]

\* Mutant: the file ends with the record that was written.
PutAtCutting(records, at, record) ==
    [i \in 1 .. at |-> IF i = at THEN record
                       ELSE IF i \in DOMAIN records THEN records[i] ELSE Blank]

\* A write past the end leaves a hole that reads as nothing.
PutAt(records, at, record) ==
    [i \in 1 .. Max({at, Len(records)}) |->
        IF i = at THEN record
        ELSE IF i \in DOMAIN records THEN records[i] ELSE Blank]

\* The processes whose next steps can take away what u writes now.
Racing(u) ==
    {w \in volume.users \ {u} :
        \/ pc[w] = "create"
        \/ pc[w] \in {"open", "put"} /\ job[w].at = job[u].at}

Put(u) ==
    /\ pc[u] = "put"
    /\ exposed' = IF Racing(u) = {} THEN exposed \ {u} ELSE exposed \cup {u}
    /\ file' = PutAt(Records, job[u].at, Written(u))
    /\ mark' = [mark EXCEPT ![u] = job[u].uid]
    /\ job' = [job EXCEPT ![u] = NoJob]
    /\ Goto(u, "idle")

\* A base that cannot be written keeps its mark, in silence; a death is the
\* same to the file.
GiveUp(u) ==
    /\ pc[u] \in {"open", "create", "put"}
    /\ job' = [job EXCEPT ![u] = NoJob]
    /\ Goto(u, "idle")
    /\ UNCHANGED <<file, mark, exposed>>

\* markRead() sets a UID, markUnread() zero.
SetLastRead(u) == \E uid \in Uid \cup {0} : SetArray(u, uid) \/ SetJam(u, uid)

Next ==
    /\ \E u \in volume.users :
        \/ SetLastRead(u)
        \/ AtTheEnd(u) \/ OpenKeeping(u) \/ Create(u) \/ Put(u)
        \/ GiveUp(u)
    /\ UNCHANGED volume

Spec == Init /\ [][Next]_vars
-----------------------------------------------------------------------------

\* A mark that has reached the disk is the one its user reads, whatever the
\* others do to their own in the same file at the same time: "a reader working
\* in the same base at the same time cannot lose its own mark to ours"
\* (msgbase/squish_lastread_store.cpp).  The one exception is a mark written
\* while another process stands between finding no file, or no record of its
\* own, and its write.
MarkKept == \A u \in volume.users : GetLastRead(u) = mark[u] \/ u \in exposed

\* As long as a .jlr record is the same user's, its HighReadMsg never goes back
\* (msgbase/jam_lastread_store.cpp).
HighOnlyForward ==
    [][\A i \in DOMAIN Records \cap DOMAIN Records' :
        Records[i].crc # NoCrc /\ Records'[i].crc = Records[i].crc
            => Records[i].high <= Records'[i].high]_vars
=============================================================================
