---------------------------- MODULE AreaManager ----------------------------
(***************************************************************************)
(* The list of areas with its counts, the one base that is open and the    *)
(* last-read marks (app/area_manager.cpp), driven as the screens drive it: *)
(* entering and leaving an area, reading in it, writing and deleting,      *)
(* catching up, rescanning, coming back from another program.  Meanwhile a *)
(* tosser delivers into the areas and a packer takes messages out.         *)
(*                                                                         *)
(* An open base is the table of messages it read when it was opened or     *)
(* last written through.  A rescan opens one area after another; every     *)
(* other handler is one step.                                              *)
(***************************************************************************)
EXTENDS Naturals, Sequences, SequencesExt, FiniteSetsExt

CONSTANTS
    Area,            \* the areas the tosser config declares
    Absent,          \* an area of which nothing is on the disk
    NoArea,          \* no base is open
    Reused,          \* TRUE: the highest number is given again, as in .MSG
    AutoNext,        \* reader_lastread_auto_next
    RescanOnReturn,  \* the settings of rescan_on_return
    MaxMsg           \* bound: messages ever, over all areas

\* A message, by what its format calls it and by which it is.
Message == [uid : 1 .. MaxMsg, id : 1 .. MaxMsg]

ASSUME AreaAssumption == NoArea \notin Area
ASSUME SettingsAssumption ==
    {Reused, AutoNext} \cup RescanOnReturn \subseteq BOOLEAN
ASSUME MsgAssumption == MaxMsg \in Nat
ASSUME AbsentAssumption == Absent \notin Seq(Message)

VARIABLES
    disk,      \* what each area holds
    given,     \* the messages there have been
    mark,      \* the UID in each area's lastread file
    list,      \* areas_: the rows of the area list
    current,   \* currentArea_
    table,     \* what the open base has read
    shown,     \* the number of the message on the screen
    scan,      \* a rescan under way
    covered,   \* history: the messages that have stood at or before a mark
    packed     \* history: the packer has been in the area since it was opened

vars == <<disk, given, mark, list, current, table, shown, scan, covered, packed>>

Entry == [total : 0 .. MaxMsg, unread : 0 .. MaxMsg, error : BOOLEAN]
Unread == [total |-> 0, unread |-> 0, error |-> TRUE]

\* left: areas still to be read; loaded: the rows so far; back: the area to
\* go back to, with the number that was on the screen and its UID.
Scan == [left : SUBSET Area, loaded : [Area -> Entry],
         back : Area \cup {NoArea}, uid : 0 .. MaxMsg, number : 0 .. MaxMsg]
NoScan == [left |-> {}, loaded |-> [a \in Area |-> Unread],
           back |-> NoArea, uid |-> 0, number |-> 0]
Idle == scan = NoScan
AtList == Idle /\ current = NoArea
Reading == Idle /\ current # NoArea
-----------------------------------------------------------------------------
\* indexOfUid(): the message, or the nearest one before where it was.
IndexOfUid(messages, uid) ==
    Max({0} \cup {i \in DOMAIN messages : messages[i].uid <= uid})

UidOf(messages, n) == IF n \in DOMAIN messages THEN messages[n].uid ELSE 0

\* Mutant: the message after the mark where the mark's own is gone too.
StartPastGone(messages, uid) ==
    LET index == IndexOfUid(messages, uid)
    IN  IF messages = <<>> THEN 0
        ELSE IF UidOf(messages, index) # uid THEN Min({index + 2, Len(messages)})
        ELSE Max({1, index})

\* startingMessage(): the message after the mark, or the marked one.
StartingMessage(messages, uid) ==
    LET index == IndexOfUid(messages, uid)
    IN  IF messages = <<>> THEN 0
        ELSE IF index = 0 THEN 1
        ELSE IF AutoNext /\ index < Len(messages) THEN index + 1
        ELSE index

\* Mutant: one too many.
UnreadFrom(total, index) == IF index > total THEN 0 ELSE total - index + 1

\* updateUnread(): a position past a total that is out of date leaves nothing.
UnreadAfter(total, index) == IF index >= total THEN 0 ELSE total - index

\* readCounts(), from an open base and the mark on the disk.
ReadCounts(messages, uid) ==
    LET total == Len(messages)
        index == IF uid = 0 THEN 0 ELSE IndexOfUid(messages, uid)
    IN  [total |-> total, unread |-> UnreadAfter(total, index), error |-> FALSE]

\* openArea(): an area of which there is nothing is made, and empty.
Holds(a) == IF disk[a] = Absent THEN <<>> ELSE disk[a]

\* refreshArea() of the open area, through its base.
RefreshCurrent(messages, uid) ==
    list' = [list EXCEPT ![current] = ReadCounts(messages, uid)]

Cover(a, messages, uid) ==
    covered' = [covered EXCEPT ![a] = @ \cup
        {messages[i].id : i \in 1 .. IndexOfUid(messages, uid)}]
-----------------------------------------------------------------------------
Init ==
    /\ disk = [a \in Area |-> Absent]
    /\ given = 0
    /\ mark = [a \in Area |-> 0]
    /\ list = [a \in Area |-> Unread]
    /\ current = NoArea
    /\ table = <<>>
    /\ shown = 0
    /\ scan = NoScan
    /\ covered = [a \in Area |-> {}]
    /\ packed = FALSE

\* Mutant: the UID after that of the last message.
NextUidAfterLast(messages) ==
    IF messages = <<>> THEN 1 ELSE Last(messages).uid + 1

\* A UID nothing has had before or, in a .MSG area, the number after the
\* highest.
NextUid(messages) ==
    IF Reused
    THEN IF messages = <<>> THEN 1 ELSE Last(messages).uid + 1
    ELSE given + 1

Appended(messages) ==
    Append(messages, [uid |-> NextUid(messages), id |-> given + 1])

\* The tosser makes a base there is none of.
Deliver(a) ==
    /\ given < MaxMsg
    /\ disk' = [disk EXCEPT ![a] = Appended(Holds(a))]
    /\ given' = given + 1
    /\ UNCHANGED <<mark, list, current, table, shown, scan, covered, packed>>

Pack(a) ==
    /\ packed' = (packed \/ current = a)
    /\ \E n \in DOMAIN Holds(a) : disk' = [disk EXCEPT ![a] = RemoveAt(@, n)]
    /\ UNCHANGED <<given, mark, list, current, table, shown, scan, covered>>
-----------------------------------------------------------------------------
\* reload() closes what is open and builds the new list beside the old one.
Rescan ==
    /\ AtList
    /\ scan' = [NoScan EXCEPT !.left = Area]
    /\ UNCHANGED <<disk, given, mark, list, current, table, shown, covered, packed>>

\* One area of it: an area whose base will not open stays in the list.
ScanArea(a) ==
    /\ a \in scan.left
    /\ \E opens \in BOOLEAN :
        /\ opens => disk[a] # Absent
        /\ LET entry == IF opens THEN ReadCounts(disk[a], mark[a]) ELSE Unread
               more == [scan EXCEPT !.left = @ \ {a}, !.loaded[a] = entry]
           IN  IF more.left # {}
               THEN scan' = more /\ list' = list
               ELSE /\ list' = more.loaded
                    /\ scan' = IF more.back = NoArea THEN NoScan ELSE more
    /\ UNCHANGED <<disk, given, mark, current, table, shown, covered, packed>>

\* The tosser config cannot be read: the list stays as it was.
ConfigFails ==
    /\ scan.left = Area
    /\ scan' = IF scan.back = NoArea THEN NoScan ELSE [scan EXCEPT !.left = {}]
    /\ UNCHANGED <<disk, given, mark, list, current, table, shown, covered, packed>>
-----------------------------------------------------------------------------

\* "Store what will still name this message after the next pack."
MarkOf(messages, n) == messages[n].uid

\* markRead(), as loadMessage() calls it: the mark, and the row's unread count
\* from the total the row has.
Land(a, messages, n, row) ==
    IF n \in DOMAIN messages
    THEN /\ mark' = [mark EXCEPT ![a] = MarkOf(messages, n)]
         /\ list' = [list EXCEPT ![a] =
                [row EXCEPT !.unread = UnreadAfter(row.total, n)]]
         /\ Cover(a, messages, messages[n].uid)
         /\ shown' = n
    ELSE /\ list' = [list EXCEPT ![a] = row]
         /\ shown' = 0
         /\ UNCHANGED <<mark, covered>>

\* enterArea(): openArea() makes the base of an area that has none, and the
\* row of one that would not open before is read again.
Enter(a) ==
    /\ AtList
    /\ current' = a
    /\ table' = Holds(a)
    /\ disk' = [disk EXCEPT ![a] = Holds(a)]
    /\ LET start == StartingMessage(table', mark[a])
           landed == IF start = 0 THEN mark[a] ELSE table'[start].uid
           row == IF list[a].error THEN ReadCounts(table', landed) ELSE list[a]
       IN  Land(a, table', start, row)
    /\ packed' = FALSE
    /\ UNCHANGED <<given, scan>>

\* Any other message of the area: a neighbour, one found, one of the list.
Show ==
    /\ Reading
    /\ \E n \in DOMAIN table : Land(current, table, n, list[current])
    /\ UNCHANGED <<disk, given, current, table, scan, packed>>

Left ==
    /\ current' = NoArea
    /\ table' = <<>>
    /\ shown' = 0

\* leaveArea(): the row is read again, through the open base, and it is closed.
Leave ==
    /\ Reading
    /\ RefreshCurrent(table, mark[current])
    /\ Left
    /\ UNCHANGED <<disk, given, mark, scan, covered, packed>>

\* walkOffEdge() off the front: markUnread(), and the area is left.
WalkOffFront ==
    /\ Reading /\ shown = 1
    /\ mark' = [mark EXCEPT ![current] = 0]
    /\ RefreshCurrent(table, 0)
    /\ Left
    /\ UNCHANGED <<disk, given, scan, covered, packed>>

\* deleteMessageAt() of the message on the screen.  remove() reads the table
\* again under the lock; the reader goes on with what follows, or with the
\* last message.
Delete ==
    /\ Reading
    /\ shown \in DOMAIN disk[current]
    /\ table' = RemoveAt(disk[current], shown)
    /\ disk' = [disk EXCEPT ![current] = table']
    /\ Land(current, table', Min({shown, Len(table')}),
            ReadCounts(table', mark[current]))
    /\ UNCHANGED <<given, current, scan, packed>>

\* A message written into the area being read, as a receipt or a copy is: the
\* base reads its table again under the lock, and the reader stays.
Write ==
    /\ Reading
    /\ given < MaxMsg
    /\ table' = Appended(disk[current])
    /\ disk' = [disk EXCEPT ![current] = table']
    /\ given' = given + 1
    /\ RefreshCurrent(table', mark[current])
    /\ UNCHANGED <<mark, current, shown, scan, covered, packed>>

\* catchUp(), from the list: the newest UID of a base opened for it.
CatchUp(a) ==
    /\ AtList
    /\ ~list[a].error
    /\ Holds(a) # <<>>
    /\ LET uid == Last(disk[a]).uid
       IN  /\ mark' = [mark EXCEPT ![a] = uid]
           /\ list' = [list EXCEPT ![a].unread = 0]
           /\ Cover(a, disk[a], uid)
    /\ UNCHANGED <<disk, given, current, table, shown, scan, packed>>
-----------------------------------------------------------------------------
\* after_handover.cpp refresh(): the open base is dropped, everything is
\* rescanned first where the setting says so, and the area is opened again.
ComeBack ==
    /\ Reading
    /\ \E rescan \in RescanOnReturn :
        scan' = [NoScan EXCEPT
            !.left = IF rescan THEN Area ELSE {},
            !.back = current,
            !.number = shown,
            !.uid = UidOf(table, shown)]
    /\ Left
    /\ UNCHANGED <<disk, given, mark, list, covered, packed>>

\* Mutant: the number that was on the screen, not its UID.
LandOnNumber(messages, was, markUid) == Min({Max({1, was.number}), Len(messages)})

\* landOn(): the message that was on the screen, or the nearest one before it.
LandOn(messages, was, markUid) ==
    IF was.uid # 0 THEN Max({1, IndexOfUid(messages, was.uid)})
    ELSE IF was.number # 0 THEN Min({was.number, Len(messages)})
    ELSE Max({1, StartingMessage(messages, markUid)})

\* refreshArea() comes last, through the base just opened.
Reopen ==
    /\ scan.back # NoArea
    /\ scan.left = {}
    /\ scan' = NoScan
    /\ LET a == scan.back
       IN  /\ current' = a
           /\ table' = Holds(a)
           /\ disk' = [disk EXCEPT ![a] = Holds(a)]
           /\ LET at == LandOn(table', scan, mark[a])
                  landed == IF table' = <<>> THEN mark[a] ELSE table'[at].uid
              IN  Land(a, table', at, ReadCounts(table', landed))
    /\ packed' = FALSE
    /\ UNCHANGED given

\* The area will not open again: the reader is left for the list.
ReopenFails ==
    /\ scan.back # NoArea
    /\ scan.left = {}
    /\ scan' = NoScan
    /\ UNCHANGED <<disk, given, mark, list, current, table, shown, covered, packed>>
-----------------------------------------------------------------------------
Next ==
    \/ \E a \in Area :
        Deliver(a) \/ Pack(a) \/ ScanArea(a) \/ Enter(a) \/ CatchUp(a)
    \/ Rescan \/ ConfigFails
    \/ Show \/ Leave \/ WalkOffFront \/ Delete \/ Write
    \/ ComeBack \/ Reopen \/ ReopenFails

Spec == Init /\ [][Next]_vars
-----------------------------------------------------------------------------
TypeOK ==
    /\ disk \in [Area -> Seq(Message) \cup {Absent}]
    /\ given \in 0 .. MaxMsg
    /\ mark \in [Area -> 0 .. MaxMsg]
    /\ list \in [Area -> Entry]
    /\ \A a \in Area : list[a].unread <= list[a].total
    /\ current \in Area \cup {NoArea}
    /\ table \in Seq(Message)
    /\ shown \in 0 .. MaxMsg
    /\ scan \in Scan
    /\ covered \in [Area -> SUBSET (1 .. MaxMsg)]
    /\ packed \in BOOLEAN

\* A message is behind the mark only if it stood at or before a mark when that
\* was set: new mail is never counted as read, whatever is packed away and
\* however old the table is the mark was taken from (markRead(), catchUp();
\* "the only thing that survives the base being packed or renumbered",
\* ports/i_lastread_store.hpp).
NewMailIsUnread ==
    \A a \in Area : \A i \in DOMAIN Holds(a) :
        disk[a][i].uid <= mark[a] => disk[a][i].id \in covered[a]

\* Entering an area passes over nothing that is unread (startingMessage()).
StartSkipsNothing ==
    [][\A a \in Area : AtList /\ current' = a =>
        \A i \in 1 .. shown' - 1 : table'[i].uid <= mark[a]]_vars

\* Coming back from a program lands on the message that was on the screen if
\* the area still holds it, and on no message after it otherwise, unless none
\* is before it (landOn()).
ComesBackToTheSame ==
    [][(scan.uid # 0 /\ current # current') =>
        \/ table' = <<>>
        \/ table'[shown'].uid = scan.uid
        \/ /\ \A i \in DOMAIN table' : table'[i].uid # scan.uid
           /\ shown' > 1 => table'[shown'].uid < scan.uid]_vars
=============================================================================
