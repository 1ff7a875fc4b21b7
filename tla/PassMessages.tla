---------------------------- MODULE PassMessages ----------------------------
(***************************************************************************)
(* A set of messages carried from one area into another, or taken out of   *)
(* one: app/pass_messages.cpp, app/remove_messages.cpp and the reader's    *)
(* Copy, Move and Delete over a marked set, which call them.  One base is  *)
(* open at a time, so the source is closed and opened again for every      *)
(* chunk; meanwhile a tosser appends and a packer takes messages out.      *)
(*                                                                         *)
(* An open base is the table it read when it was opened or last written    *)
(* through; a message is read from the disk when the walk comes to it.     *)
(***************************************************************************)
EXTENDS Naturals, Sequences, FiniteSets, SequencesExt, FiniteSetsExt

CONSTANTS
    Kinds,          \* of the run: "copy", "move", "here" (a copy into the
                    \* area being read), "delete"
    Old,            \* how many messages the source holds at first
    ChunkMessages,  \* kChunkMessages, 8192 in the code
    RemoveChunk,    \* kRemoveChunk, 2048 in the code
    Packs,          \* when the packer comes: "never", "away" or "any" time
    MaxNew,         \* bound: messages a tosser brings
    MaxPacked,      \* bound: messages a packer takes out
    Gone            \* what is read of a message that is not there any more

ASSUME ChunkAssumption ==
    /\ ChunkMessages \in Nat \ {0}
    /\ RemoveChunk \in Nat \ {0}
ASSUME OldAssumption == Old \in Nat /\ MaxNew \in Nat /\ MaxPacked \in Nat
ASSUME PacksAssumption == Packs \in {"never", "away", "any"}
ASSUME GoneAssumption == Gone \notin Nat

VARIABLES
    source,    \* the area being read: its messages
    target,    \* the other area
    nextUid,   \* of the source
    packed,    \* history: the UIDs the packer has taken out
    kind,      \* what the run is
    asked,     \* the UIDs the run was asked for
    marks,     \* AppState::marks, UIDs
    phase,     \* where the run is
    table,     \* the UIDs the open base knows of
    from,      \* the number the walk is at
    last,      \* where it ends
    chunk,     \* the messages in hand
    picked,    \* the numbers in hand to be removed, with their UIDs
    stored,    \* PassReport::stored
    stopped,   \* Escape
    refused    \* an area that would not open or take what it was given

passVars == <<source, target, nextUid, packed, kind, asked, marks, phase, table,
              from, last, chunk, picked, stored, stopped, refused>>

\* A message: its UID, and the UID it had (of) in the source if it is a copy.
Original == 1 .. Old
Uids(messages) == [n \in DOMAIN messages |-> messages[n].uid]
Count == Len(table)

PassInit ==
    /\ source = [n \in Original |-> [uid |-> n, of |-> n]]
    /\ target = <<>>
    /\ nextUid = Old + 1
    /\ packed = {}
    /\ kind \in Kinds
    /\ asked \in (SUBSET Original) \ {{}}
    /\ marks = asked
    /\ phase = "open"
    /\ table = Uids(source)
    /\ from = 1 /\ last = 0 /\ chunk = <<>> /\ picked = <<>> /\ stored = {}
    /\ stopped = FALSE /\ refused = FALSE
-----------------------------------------------------------------------------
\* Others: the tosser at any time, the packer when it comes.
Deliver ==
    /\ nextUid <= Old + MaxNew
    /\ source' = Append(source, [uid |-> nextUid, of |-> nextUid])
    /\ nextUid' = nextUid + 1
    /\ UNCHANGED <<target, packed, kind, asked, marks, phase, table, from, last,
                   chunk, picked, stored, stopped, refused>>

Pack ==
    /\ \/ Packs = "any"
       \/ Packs = "away" /\ phase \in {"put", "reopen"}
    /\ phase # "done"
    /\ Cardinality(packed) < MaxPacked
    /\ \E n \in DOMAIN source :
        /\ source[n].uid = source[n].of
        /\ source' = RemoveAt(source, n)
        /\ packed' = packed \cup {source[n].uid}
    /\ UNCHANGED <<target, nextUid, kind, asked, marks, phase, table, from, last,
                   chunk, picked, stored, stopped, refused>>
-----------------------------------------------------------------------------

\* What an open base knows of: what the disk holds when it is opened.
Opened == Uids(source)

\* passMessages() opens the source, and the end of the walk is read once and
\* never again; deleteMarked() has it open.
OpenSource ==
    /\ phase = "open"
    /\ table' = Opened
    /\ last' = Len(source)
    /\ IF kind = "delete"
       THEN from' = Len(source) /\ phase' = "pick"
       ELSE from' = 1 /\ phase' = "walk"
    /\ UNCHANGED <<source, target, nextUid, packed, kind, asked, marks, chunk,
                   picked, stored, stopped, refused>>

\* copyOf(): what the disk has of the message now.
Read(uid) ==
    IF \E n \in DOMAIN source : source[n].uid = uid
    THEN LET n == CHOOSE k \in DOMAIN source : source[k].uid = uid
         IN  source[n].of
    ELSE Gone

ChunkFull == Len(chunk) >= ChunkMessages

\* chunkFrom() passes over what is not marked.
UidAt(n) == IF n \in DOMAIN table THEN table[n] ELSE 0

Skip ==
    /\ phase = "walk"
    /\ from <= last
    /\ UidAt(from) \notin asked
    /\ from' = from + 1
    /\ UNCHANGED <<source, target, nextUid, packed, kind, asked, marks, phase,
                   table, last, chunk, picked, stored, stopped, refused>>

\* Mutants: the walk does not move on, or moves on twice.
AfterGatherStaying(n) == n
AfterGatherTwice(n) == n + 2

AfterGather(n) == n + 1

\* A marked message is read, or the user breaks the run off before it.
Gather ==
    /\ phase = "walk"
    /\ from <= last
    /\ UidAt(from) \in asked
    /\ ~ChunkFull
    /\ \/ /\ chunk' = Append(chunk, [uid |-> UidAt(from), of |-> Read(UidAt(from))])
          /\ from' = AfterGather(from)
          /\ UNCHANGED <<phase, stopped>>
       \/ /\ stopped' = TRUE
          /\ phase' = "hand"
          /\ UNCHANGED <<chunk, from>>
    /\ UNCHANGED <<source, target, nextUid, packed, kind, asked, marks, table,
                   last, picked, stored, refused>>

ChunkEnds ==
    /\ phase = "walk"
    /\ \/ from > last
       \/ UidAt(from) \in asked /\ ChunkFull
    /\ phase' = "hand"
    /\ UNCHANGED <<source, target, nextUid, packed, kind, asked, marks, table,
                   from, last, chunk, picked, stored, stopped, refused>>

\* Mutant: an empty chunk is handed over like any other.
HandedAlways == "put"

Handed == IF chunk = <<>> THEN "ended" ELSE "put"

\* An empty chunk ends the run; another goes to the target, which is opened in
\* place of the source.
Hand ==
    /\ phase = "hand"
    /\ phase' = Handed
    /\ UNCHANGED <<source, target, nextUid, packed, kind, asked, marks, table,
                   from, last, chunk, picked, stored, stopped, refused>>

\* Mutants: the chunk counts as stored once it is handed over, or its last
\* message never does.
StoredButLast(written) == {chunk[i].uid : i \in 1 .. written - 1}
StoredAll(written) == {chunk[i].uid : i \in DOMAIN chunk}

\* The first `written` of the chunk are in the other area.
Stored(written) == {chunk[i].uid : i \in 1 .. written}

\* writeAll() of the chunk, which may take only the first of it, or nothing
\* because the target will not open.
Put ==
    /\ phase = "put"
    /\ \E written \in 0 .. Len(chunk) :
        LET taken == SubSeq(chunk, 1, written)
            all == written = Len(chunk)
        IN  /\ IF kind = "here"
               THEN /\ source' = source \o
                        [i \in 1 .. written |->
                            [uid |-> nextUid + i - 1, of |-> taken[i].of]]
                    /\ nextUid' = nextUid + written
                    /\ table' = Uids(source')
                    /\ UNCHANGED target
               ELSE /\ target' = target \o taken
                    /\ UNCHANGED <<source, nextUid, table>>
            /\ stored' = IF kind = "move" THEN stored \cup Stored(written)
                         ELSE stored
            /\ refused' = ~all
            /\ phase' = CASE ~all -> "ended"
                       [] all /\ kind = "here" -> IF stopped THEN "ended" ELSE "walk"
                       [] OTHER -> "reopen"
    /\ chunk' = <<>>
    /\ UNCHANGED <<packed, kind, asked, marks, from, last, picked, stopped>>

\* The source is opened again for the next chunk; where it will not, the run
\* ends.  The walk goes on from the number it had come to.
Reopen ==
    /\ phase = "reopen"
    /\ \/ /\ table' = Opened
          /\ phase' = IF stopped THEN "ended" ELSE "walk"
          /\ UNCHANGED refused
       \/ /\ refused' = TRUE
          /\ phase' = "ended"
          /\ UNCHANGED table
    /\ UNCHANGED <<source, target, nextUid, packed, kind, asked, marks, from,
                   last, chunk, picked, stored, stopped>>

\* "Only what is safely somewhere else, and only once it is."
ToRemove == IF kind = "move" THEN stored ELSE asked

\* passOnMarked() opens the source again and takes out what was stored.  An
\* area that will not open has nothing to take it out of.
AfterPass ==
    /\ phase = "ended"
    /\ \/ /\ table' = Opened
          /\ from' = Len(source)
          /\ phase' = IF kind = "move" /\ stored # {} THEN "pick" ELSE "done"
          /\ UNCHANGED refused
       \/ /\ phase' = "done"
          /\ refused' = TRUE
          /\ UNCHANGED <<table, from>>
    /\ UNCHANGED <<source, target, nextUid, packed, kind, asked, marks, last,
                   chunk, picked, stored, stopped>>
-----------------------------------------------------------------------------
\* removeMessages() walks backwards: a message taken out moves only numbers
\* the walk has left behind.
Pick ==
    /\ phase = "pick"
    /\ from >= 1
    /\ Len(picked) < RemoveChunk
    /\ \/ /\ UidAt(from) \notin ToRemove
          /\ UNCHANGED <<picked, stopped, phase>>
          /\ from' = from - 1
       \/ /\ UidAt(from) \in ToRemove
          /\ picked' = Append(picked, [uid |-> UidAt(from), number |-> from])
          /\ from' = from - 1
          /\ UNCHANGED <<stopped, phase>>
       \/ \* Only a deletion can be broken off.
          /\ UidAt(from) \in ToRemove
          /\ kind = "delete"
          /\ stopped' = TRUE
          /\ phase' = "take"
          /\ UNCHANGED <<picked, from>>
    /\ UNCHANGED <<source, target, nextUid, packed, kind, asked, marks, table,
                   last, chunk, stored, refused>>

PickEnds ==
    /\ phase = "pick"
    /\ from = 0 \/ Len(picked) >= RemoveChunk
    /\ phase' = "take"
    /\ UNCHANGED <<source, target, nextUid, packed, kind, asked, marks, table,
                   from, last, chunk, picked, stored, stopped, refused>>

\* What is left of them without those numbers.
TakenOut(messages, numbers) ==
    LET Left[n \in 0 .. Len(messages)] ==
            IF n = 0 THEN <<>>
            ELSE IF n \in numbers THEN Left[n - 1]
            ELSE Append(Left[n - 1], messages[n])
    IN  Left[Len(messages)]

\* The marks of what went; a deletion that was not broken off drops the rest.
MarksLeft(removed, over) ==
    IF kind = "delete" /\ over /\ ~stopped THEN {} ELSE marks \ removed

\* removeAll(): one lock, the table read again under it, and the numbers, as
\* they were picked, taken out, if the area has that many.
TakeOut ==
    /\ phase = "take"
    /\ LET numbers == {picked[i].number : i \in DOMAIN picked}
           over == from = 0 \/ (kind = "delete" /\ stopped)
       IN  \/ /\ numbers \subseteq DOMAIN source
              /\ source' = TakenOut(source, numbers)
              /\ table' = Uids(source')
              /\ marks' = MarksLeft({picked[i].uid : i \in DOMAIN picked}, over)
              /\ phase' = IF over THEN "done" ELSE "pick"
              /\ UNCHANGED refused
           \/ /\ numbers # {}
              /\ refused' = TRUE
              /\ phase' = "done"
              /\ marks' = MarksLeft({}, TRUE)
              /\ UNCHANGED <<source, table>>
    /\ picked' = <<>>
    /\ UNCHANGED <<target, nextUid, packed, kind, asked, from, last, chunk,
                   stored, stopped>>

\* The run is over, and the reader has the screen.
Done ==
    /\ phase = "done"
    /\ UNCHANGED passVars
-----------------------------------------------------------------------------
Run ==
    \/ OpenSource \/ Skip \/ Gather \/ ChunkEnds \/ Hand \/ Put \/ Reopen
    \/ AfterPass
    \/ Pick \/ PickEnds \/ TakeOut

PassNext == Deliver \/ Pack \/ Run \/ Done

PassSpec == PassInit /\ [][PassNext]_passVars

\* The run goes on by itself: nothing in it waits for anybody.
FairSpec == PassSpec /\ WF_passVars(Run)
-----------------------------------------------------------------------------

In(messages) == {messages[n].of : n \in DOMAIN messages}

\* What a move or a deletion takes out of an area is what was asked for, and a
\* message moved is never in neither area, however much of a chunk the target
\* took, wherever the run was broken off and whatever was appended meanwhile
\* (passOnMarked(): "a message taken out of here on the strength of a write
\* that failed would be gone from both areas").
NothingElseGone ==
    \A m \in Original \ (In(source) \cup packed) :
        CASE kind = "move" -> m \in In(target) /\ m \in stored
          [] kind = "delete" -> m \in asked \ marks
          [] OTHER -> FALSE

\* No message is carried over twice, and those carried over keep their order
\* (chunkFrom(): "the area is walked once however many chunks it takes").
CarriedOnceInOrder ==
    LET area == IF kind = "here" THEN source ELSE target
        copies == {n \in DOMAIN area : area[n].of # Gone
                        /\ (kind = "here" => area[n].uid # area[n].of)}
    IN  \A i, j \in copies : i < j => area[i].of < area[j].of

\* A move that was refused nothing and broken off nowhere leaves each message
\* in one area, if nothing was packed meanwhile; one broken off leaves none in
\* both.
MovedIsInOne ==
    phase = "done" /\ kind = "move" /\ ~refused =>
        /\ In(source) \cap In(target) = {}
        /\ ~stopped /\ packed = {} => asked \cap In(source) = {}

\* A copy that was broken off nowhere and refused nothing has carried every
\* marked message, unless the source was packed meanwhile: the walk goes on by
\* number (passMessages()).
EveryMarkedCarried ==
    phase = "done" /\ kind = "copy" /\ ~stopped /\ ~refused /\ packed = {} =>
        asked \cap In(source) \subseteq In(target)

\* The run comes to its end.
RunEnds == <>(phase = "done")
=============================================================================
