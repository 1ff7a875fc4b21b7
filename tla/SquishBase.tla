----------------------------- MODULE SquishBase -----------------------------
(***************************************************************************)
(* The Squish message base (msgbase/squish_base.cpp) as its files change:  *)
(* one step per write to the disk.  <area>.sqd is a header and a row of    *)
(* frames, each in one of two doubly linked chains, the messages' and the  *)
(* free one; <area>.sqi is one record per message.                         *)
(*                                                                         *)
(* A writing call takes the lock, reads the header and the index again and *)
(* works from what it finds.  Nothing but the holder writes, so which      *)
(* writes it makes is settled when it has reloaded: each call is planned   *)
(* here by the operators below, which follow the code function by function *)
(* on a shadow of the disk, and carried out one write at a time by Put.    *)
(* Between two of them another process may open the base (opening takes no *)
(* lock), a write may be refused by the disk, and the process may die.     *)
(*                                                                         *)
(* Offsets are numbered 1, 2, ... in the order frames lie in the file, 0   *)
(* is the code's 0, and a frame's room is counted in units of text.        *)
(***************************************************************************)
EXTENDS Integers, Sequences, SequencesExt, FiniteSetsExt

CONSTANTS
    Proc,        \* the processes that share the area
    Text,        \* what a message can say
    Room,        \* Room[t]: the length of the frame t needs
    MaxRoom,     \* bound: the largest of them
    Drafts,      \* the drafts a caller writes: [text, rcvd]
    Scopes,      \* what a behaviour is bounded to: [procs, ops, frames, uids],
                 \* the processes at work, the calls they make ("write",
                 \* "replace", "remove", "mark"), the frames the .sqd may
                 \* grow to and the messages ever written
    Faults,      \* what goes wrong in which call: <<"io", k>>, a write of a
                 \* call of kind k refused; <<"crash", k>>, a death in one
    MaxFrame,    \* bound: the largest .sqd of any scope, in frames
    MaxUid,      \* bound: the most messages of any scope
    MaxSet,      \* bound: drafts in one writeAll()
    MaxFaults,   \* bound: writes refused and deaths, together
    NoProc,      \* the lock when nobody holds it
    NoMsg        \* what a frame with no message says

ASSUME RoomAssumption == MaxRoom \in Nat /\ Room \in [Text -> 1 .. MaxRoom]
ASSUME DraftsAssumption == Drafts \subseteq [text : Text, rcvd : BOOLEAN]
ASSUME BoundsAssumption ==
    /\ MaxFrame \in Nat \ {0}
    /\ MaxUid \in Nat
    /\ MaxSet \in Nat \ {0}
    /\ Scopes \subseteq [procs : SUBSET Proc, frames : 1 .. MaxFrame, uids : 0 .. MaxUid,
                          ops : SUBSET {"write", "replace", "remove", "mark"}]
    /\ MaxFaults \in Nat
ASSUME NoProcAssumption == NoProc \notin Proc

VARIABLES
    hdr,      \* the area header of the .sqd
    frames,   \* the frames of the .sqd
    sqi,      \* the records of the .sqi
    lock,     \* FileLock over both files: Mutex, which FileLock implements
    todo,     \* what the holder has still to write, its return last
    op,       \* the call under way, and what it was asked for
    view,     \* per process, base_ and index_ as it holds them
    faults,   \* what has gone wrong so far, to bound it
    scope     \* what this behaviour is bounded to

disk == <<hdr, frames, sqi>>
vars == <<disk, lock, todo, op, view, faults, scope>>

Offset == 0 .. MaxFrame + 1
Uid == 1 .. MaxUid
Message == [uid : Uid, text : Text, rcvd : BOOLEAN, seen : BOOLEAN]

NoFrame == [type |-> "none", next |-> 0, prev |-> 0, room |-> 0,
            msg |-> NoMsg]
EmptyHeader == [count |-> 0, nextUid |-> 1, firstFrame |-> 0,
                lastFrame |-> 0, firstFree |-> 0, lastFree |-> 0,
                endFrame |-> 1]
NoOp == [kind |-> "none", from |-> 0, size |-> 0, named |-> {}]
Closed == [state |-> "closed", base |-> EmptyHeader, index |-> <<>>]
-----------------------------------------------------------------------------
(***************************************************************************)
(* The disk under one write.                                               *)
(***************************************************************************)
FramesAfter(w, fs) ==
    CASE w.kind = "next"    -> [fs EXCEPT ![w.at].next = w.to]
      [] w.kind = "prev"    -> [fs EXCEPT ![w.at].prev = w.to]
      [] w.kind = "head"    -> [fs EXCEPT ![w.at] =
              [w.frame EXCEPT !.msg = IF w.frame.type = "free"
                                      THEN NoMsg ELSE fs[w.at].msg]]
      [] w.kind = "frame"   -> [fs EXCEPT ![w.at] = w.frame]
      [] w.kind = "message" -> [fs EXCEPT ![w.at].msg = w.msg]
      [] OTHER              -> fs

IndexAfter(w, ix) ==
    CASE w.kind = "tail"  -> SubSeq(ix, 1, w.from - 1) \o w.entries
                             \o SubSeq(ix, w.from + Len(w.entries), Len(ix))
      [] w.kind = "cut"   -> SubSeq(ix, 1, w.to)
      [] w.kind = "entry" -> [ix EXCEPT ![w.at] = w.entry]
      [] OTHER            -> ix

HeaderAfter(w, h) == IF w.kind = "header" THEN w.base ELSE h
-----------------------------------------------------------------------------
(***************************************************************************)
(* A plan: base_ and index_ in memory, the .sqd as the writes planned so   *)
(* far leave it, those writes, and whether the call is still going; with   *)
(* them what allocateFrame() keeps and answers: the free frames read, and  *)
(* whether they are all of them, the frame chosen and its room, and `full` *)
(* when the scope leaves no more file.  Each write is kept with            *)
(* the memory it is issued from.                                           *)
(***************************************************************************)
Min2(a, b) == IF a < b THEN a ELSE b

\* The elements of a sequence that are in K, in their order.
Selected(s, K) ==
    LET Upto[n \in 0 .. Len(s)] ==
            IF n = 0 THEN <<>>
            ELSE IF s[n] \in K THEN Append(Upto[n - 1], s[n])
            ELSE Upto[n - 1]
    IN  Upto[Len(s)]

LoadIndex(h) == SubSeq(sqi, 1, Min2(h.count, Len(sqi)))

\* readBaseHeader()'s sanity checks.
Sane(h) ==
    /\ h.count <= h.nextUid
    /\ h.endFrame # 0
    /\ \A o \in {h.firstFrame, h.lastFrame, h.firstFree, h.lastFree} :
            o <= h.endFrame

\* A call with nothing planned yet, holding a header and an index.
Holding(h, ix) ==
    [base |-> h, index |-> ix, frames |-> frames, todo |-> <<>>,
     ok |-> Sane(h), pool |-> <<>>, complete |-> FALSE, at |-> 0, room |-> 0,
     full |-> FALSE]

\* reload(): process p forgets what it held and reads both files again.
Reload(p) == Holding(hdr, LoadIndex(hdr))

Refuse(m) == [m EXCEPT !.ok = FALSE]

Do(m, w) ==
    IF m.ok THEN [m EXCEPT
                    !.todo = Append(@, [write |-> w, base |-> m.base,
                                        index |-> m.index]),
                    !.frames = FramesAfter(w, @)]
            ELSE m

\* The rest of a call, which is left at the first thing that fails.
Then(m, Rest(_)) == IF m.ok THEN Rest(m) ELSE m

\* What is still done when the call has already failed.
DoAnyway(m, w) == [Do([m EXCEPT !.ok = TRUE], w) EXCEPT !.ok = m.ok]

\* readFrame() finds a frame there.
Readable(m, at) ==
    at \in 1 .. MaxFrame /\ at < m.base.endFrame /\ m.frames[at].type # "none"

SetFrameNext(m, at, to) ==
    IF Readable(m, at) THEN Do(m, [kind |-> "next", at |-> at, to |-> to])
                       ELSE Refuse(m)

SetFramePrev(m, at, to) ==
    IF Readable(m, at) THEN Do(m, [kind |-> "prev", at |-> at, to |-> to])
                       ELSE Refuse(m)

\* Mutant: the header is written back without the new end of the file.
WriteHeaderKeepingEnd(m) ==
    Do(m, [kind |-> "header",
           base |-> [m.base EXCEPT !.endFrame = hdr.endFrame]])

WriteBaseHeader(m) == Do(m, [kind |-> "header", base |-> m.base])

WriteIndexEntry(m, n) ==
    Do(m, [kind |-> "entry", at |-> n, entry |-> m.index[n]])

\* writeIndexTail(): the records from `from` on, then the file cut to length.
WriteIndexTail(m, from) ==
    LET entries == SubSeq(m.index, from, Len(m.index))
        written == IF entries = <<>> THEN m
                   ELSE Do(m, [kind |-> "tail", from |-> from,
                               entries |-> entries])
    IN  Do(written, [kind |-> "cut", to |-> Len(m.index)])

Return(m) == DoAnyway(m, [kind |-> "return"])
-----------------------------------------------------------------------------
(***************************************************************************)
(* The free chain.                                                         *)
(***************************************************************************)
\* Mutant: one unit short.
FitsNearly(room, length) == room + 1 >= length

\* The comparison a message is matched to a frame by, in scanFreeChain(),
\* allocateFrame() and replace().
Fits(room, length) == room >= length

\* More than any frame has.
kWholeChain == MaxRoom + 1

\* scanFreeChain(): the chain from firstFree, At[1], At[2], ..., up to the
\* first frame `length` fits in.  A frame that is not free, does not name the
\* one before it, names itself or has been met already refuses the call, and
\* so does a chain that does not end at lastFree.
FreeChain(m) ==
    LET At[k \in 1 .. MaxFrame + 2] ==
            IF k = 1 THEN m.base.firstFree
            ELSE IF Readable(m, At[k - 1]) THEN m.frames[At[k - 1]].next
            ELSE 0
    IN  At

BrokenAt(m, At, k) ==
    \/ ~Readable(m, At[k])
    \/ m.frames[At[k]].type # "free"
    \/ m.frames[At[k]].prev # IF k = 1 THEN 0 ELSE At[k - 1]
    \/ m.frames[At[k]].next = At[k]
    \/ \E j \in 1 .. k - 1 : At[j] = At[k]

ScanFreeChain(m, length) ==
    LET Upto(At, stop) ==
            IF At[stop] # 0
            THEN IF BrokenAt(m, At, stop) THEN Refuse(m)
                 ELSE [m EXCEPT !.pool = [k \in 1 .. stop |-> At[k]]]
            ELSE IF /\ m.base.firstFree # 0
                    /\ m.base.lastFree # IF stop = 1 THEN 0 ELSE At[stop - 1]
                 THEN Refuse(m)
                 ELSE [m EXCEPT !.pool = [k \in 1 .. stop - 1 |-> At[k]],
                                !.complete = TRUE]
        Walk(At) ==
            Upto(At, Min({k \in DOMAIN At :
                            \/ At[k] = 0
                            \/ BrokenAt(m, At, k)
                            \/ Fits(m.frames[At[k]].room, length)}))
    IN  Walk(FreeChain(m))

\* The unlink of a free frame: its neighbours on the disk, base_ in memory.
TakeFree(m, at) ==
    LET f == m.frames[at]
        Before(r) == IF f.prev = 0 THEN r ELSE SetFrameNext(r, f.prev, f.next)
        After(r) == IF f.next = 0 THEN r ELSE SetFramePrev(r, f.next, f.prev)
        Taken(r) == [r EXCEPT
                        !.base.firstFree = IF @ = at THEN f.next ELSE @,
                        !.base.lastFree = IF @ = at THEN f.prev ELSE @,
                        !.pool = Selected(@, ToSet(@) \ {at}),
                        !.at = at,
                        !.room = f.room]
    IN  Then(After(Before(m)), Taken)

\* Of the frames that will do, the smallest, and among those the earliest in
\* the chain.
BestOf(m, fits) ==
    LET least == Min({m.frames[o].room : o \in ToSet(fits)})
    IN  Selected(fits, {o \in ToSet(fits) : m.frames[o].room = least})[1]

\* allocateFrame(): the best of the free frames read, otherwise the end of the
\* file.
AllocateFrame(m, length) ==
    LET Choose(r, fits) ==
            IF fits # <<>> THEN TakeFree(r, BestOf(r, fits))
            ELSE IF r.base.endFrame > scope.frames THEN [r EXCEPT !.full = TRUE]
            ELSE [r EXCEPT !.at = r.base.endFrame,
                           !.room = length,
                           !.base.endFrame = @ + 1]
        From(r) == Choose(r, Selected(r.pool, {o \in ToSet(r.pool) :
                                            Fits(r.frames[o].room, length)}))
    IN  Then(IF m.complete THEN m ELSE ScanFreeChain(m, length), From)

\* releaseFrame(): onto the end of the free chain.
ReleaseFrame(m, at, frame) ==
    LET last == m.base.lastFree
        Link(r) == IF last = 0 THEN r ELSE SetFrameNext(r, last, at)
        Header(r) == Do(r, [kind |-> "head", at |-> at,
                           frame |-> [frame EXCEPT !.type = "free",
                                                   !.next = 0,
                                                   !.prev = last]])
        Freed(r) == [r EXCEPT !.base.firstFree = IF last = 0 THEN at ELSE @,
                              !.base.lastFree = at]
    IN  Then(Header(Link(m)), Freed)
-----------------------------------------------------------------------------
(***************************************************************************)
(* The writing calls, planned.                                             *)
(***************************************************************************)
\* appendOne() once it has its frame: what is last is linked to it, the frame
\* and the message are written, and the index and header in memory have it.
PutMessage(m, draft) ==
    LET last == m.base.lastFrame
        uid == m.base.nextUid
        Link(r) == IF last = 0 THEN r ELSE SetFrameNext(r, last, m.at)
        Write(r) == Do(r, [kind |-> "frame", at |-> m.at, frame |->
                        [type |-> "normal", next |-> 0, prev |-> last,
                         room |-> m.room,
                         msg |-> [uid |-> uid, text |-> draft.text,
                                  rcvd |-> draft.rcvd, seen |-> FALSE]]])
        Count(r) == [r EXCEPT
                        !.index = Append(@, [offset |-> m.at, uid |-> uid,
                                             rcvd |-> draft.rcvd]),
                        !.base.nextUid = uid + 1,
                        !.base.count = Len(r.index) + 1,
                        !.base.firstFrame = IF @ = 0 THEN m.at ELSE @,
                        !.base.lastFrame = m.at]
    IN  IF m.full THEN m ELSE Then(Write(Link(m)), Count)

AppendOne(m, draft) ==
    LET Allocate(r) == AllocateFrame(r, Room[draft.text])
        Place(r) == PutMessage(r, draft)
    IN  Then(Then(m, Allocate), Place)

\* The drafts of a set, one after another.
AppendAll(m, drafts) ==
    LET Upto[k \in 0 .. Len(drafts)] ==
            IF k = 0 THEN m ELSE AppendOne(Upto[k - 1], drafts[k])
    IN  Upto[Len(drafts)]

\* Mutant: the header before the index records it counts.
SettleHeaderFirst(m, from) ==
    IF Len(m.index) < from THEN m
    ELSE [WriteIndexTail(WriteBaseHeader([m EXCEPT !.ok = TRUE]), from)
              EXCEPT !.ok = m.ok]

\* settleAfterWriting(): what went in is settled whether or not the rest
\* followed it, the header last of all.
Settle(m, from) ==
    IF Len(m.index) < from THEN m
    ELSE [WriteBaseHeader(WriteIndexTail([m EXCEPT !.ok = TRUE], from))
              EXCEPT !.ok = m.ok]

\* Mutant: each message of a set settled as it goes in.
PlanWriteEach(p, drafts) ==
    Return(FoldLeft(LAMBDA m, d : Settle(AppendOne(m, d), Len(m.index) + 1),
                    Reload(p), drafts))

\* writeAll(): the whole free chain is read where there is a set to place.
PlanWriteAll(p, drafts) ==
    LET Scan(r) == IF Len(drafts) > 1 THEN ScanFreeChain(r, kWholeChain) ELSE r
        Write(r) == AppendAll(Then(r, Scan), drafts)
        Run(r) == Settle(Write(r), Len(r.index) + 1)
    IN  Return(Run(Reload(p)))

\* Message n of the index just loaded is a message that can be worked on.
Holds(m, n) ==
    /\ n \in DOMAIN m.index
    /\ Readable(m, m.index[n].offset)
    /\ m.frames[m.index[n].offset].type = "normal"

\* replace() of a message that fits: the frame says it is being updated while
\* it is half written, and the header is not touched.
ReplaceInPlace(m, n, msg) ==
    LET at == m.index[n].offset
        old == m.frames[at]
        Mark(r) == Do(r, [kind |-> "head", at |-> at,
                          frame |-> [old EXCEPT !.type = "update"]])
        Fill(r) == Do(r, [kind |-> "message", at |-> at, msg |-> msg])
        Normal(r) == Do(r, [kind |-> "head", at |-> at, frame |-> old])
        Name(r) == WriteIndexEntry([r EXCEPT !.index[n].rcvd = msg.rcvd], n)
    IN  Name(Normal(Fill(Mark(m))))

\* replace() of a message that has outgrown its frame: the new frame, then
\* the index record, then the links of its neighbours, then the old frame,
\* and the header last.
ReplaceElsewhere(m, n, msg) ==
    LET from == m.index[n].offset
        old == m.frames[from]
        Fill(r) == Do(r, [kind |-> "message", at |-> r.at, msg |-> msg])
        Headed(r) == Do(r, [kind |-> "head", at |-> r.at,
                            frame |-> [old EXCEPT !.room = r.room]])
        Name(r) == WriteIndexEntry([r EXCEPT !.index[n].offset = r.at,
                                             !.index[n].rcvd = msg.rcvd], n)
        Before(r) == IF old.prev = 0 THEN r ELSE SetFrameNext(r, old.prev, r.at)
        After(r) == IF old.next = 0 THEN r ELSE SetFramePrev(r, old.next, r.at)
        Ends(r) == [r EXCEPT
                        !.base.firstFrame = IF @ = from THEN r.at ELSE @,
                        !.base.lastFrame = IF @ = from THEN r.at ELSE @]
        Free(r) == WriteBaseHeader(ReleaseFrame(Ends(r), from, old))
        Move(r) == IF r.full THEN r
                   ELSE Then(After(Before(Name(Headed(Fill(r))))), Free)
    IN  Then(AllocateFrame(m, Room[msg.text]), Move)

\* replace(): the UID and the seen mark stay, the draft decides the rest.
PlanReplace(p, n, draft) ==
    LET NewMessage(r) ==
            [uid |-> r.index[n].uid, text |-> draft.text, rcvd |-> draft.rcvd,
             seen |-> r.frames[r.index[n].offset].msg.seen]
        Run(r) ==
            IF ~Holds(r, n) THEN Refuse(r)
            ELSE IF Fits(r.frames[r.index[n].offset].room, Room[draft.text])
            THEN ReplaceInPlace(r, n, NewMessage(r))
            ELSE ReplaceElsewhere(r, n, NewMessage(r))
    IN  Return(Then(Reload(p), Run))

\* The index's copy of MSGREAD, written where the record does not have it.
MirrorReceived(m, n) ==
    IF m.index[n].rcvd THEN m
    ELSE WriteIndexEntry([m EXCEPT !.index[n].rcvd = TRUE], n)

\* setAttributes(): one word of the message, and the index's copy of MSGREAD.
PlanMark(p, n, bit) ==
    LET Marked(r, at, msg) ==
            Do(r, [kind |-> "message", at |-> at,
                   msg |-> IF bit = "rcvd" THEN [msg EXCEPT !.rcvd = TRUE]
                                           ELSE [msg EXCEPT !.seen = TRUE]])
        Mark(r, at, msg) ==
            IF IF bit = "rcvd" THEN msg.rcvd ELSE msg.seen THEN r
            ELSE IF bit = "rcvd" THEN MirrorReceived(Marked(r, at, msg), n)
            ELSE Marked(r, at, msg)
        Run(r) ==
            IF ~Holds(r, n) THEN Refuse(r)
            ELSE Mark(r, r.index[n].offset, r.frames[r.index[n].offset].msg)
    IN  Return(Then(Reload(p), Run))

\* The neighbour of a run of going frames, passing over those that are going
\* themselves: removeAll()'s walk back (link "prev") or on (link "next").
Staying(m, going, at, link) ==
    LET Walk[k \in 0 .. MaxFrame] ==
            IF k = 0 THEN at
            ELSE LET o == Walk[k - 1]
                 IN  IF o \in going /\ Readable(m, o)
                     THEN IF link = "prev" THEN m.frames[o].prev
                                           ELSE m.frames[o].next
                     ELSE o
    IN  Walk[MaxFrame]

\* Mutant: the frame after a run is left pointing back into it.
LinkOnward(m, going, first, last) ==
    LET before == Staying(m, going, first.prev, "prev")
    IN  IF before # 0
        THEN SetFrameNext(m, before, Staying(m, going, last.next, "next"))
        ELSE m

\* One run of the set linked over: what stands before its first frame to what
\* stands after its last.
LinkOver(m, going, first, last) ==
    LET Link(r, before, after) ==
            LET Over(q) == IF before = 0 THEN q
                           ELSE SetFrameNext(q, before, after)
                Back(q) == IF after = 0 THEN q
                           ELSE SetFramePrev(q, after, before)
            IN  Then(Then(r, Over), Back)
    IN  Link(m, Staying(m, going, first.prev, "prev"),
             Staying(m, going, last.next, "next"))

\* The numbers of S that are in the index, in order.
Sorted(ix, S) == Selected([n \in DOMAIN ix |-> n], S)

Without(ix, S) ==
    LET kept == Sorted(ix, DOMAIN ix \ S)
    IN  [i \in DOMAIN kept |-> ix[kept[i]]]

\* Mutant: the tail is written one record too far on.
CutIndexLate(m, S) ==
    WriteIndexTail([m EXCEPT !.index = Without(@, S)], Min(S) + 1)

\* The index rewritten from the first of the set on.
CutIndex(m, S) == WriteIndexTail([m EXCEPT !.index = Without(@, S)], Min(S))

\* The chain linked over a run of the set at a time: a run ends where the
\* chain does not go on to the next of the set.  offs and olds are the frames
\* as they stood at the start.
LinkRuns(m, offs, olds) ==
    LET ends == {i \in DOMAIN offs :
                    i = Len(offs) \/ olds[i].next # offs[i + 1]}
        First(i) == Max({1} \cup {j + 1 : j \in ends \cap 1 .. i - 1})
        Upto[i \in 0 .. Len(offs)] ==
            IF i = 0 THEN m
            ELSE IF i \in ends THEN LinkOver(Upto[i - 1], ToSet(offs),
                                            olds[First(i)], olds[i])
            ELSE Upto[i - 1]
    IN  Upto[Len(offs)]

ReleaseAll(m, offs, olds) ==
    LET Upto[i \in 0 .. Len(offs)] ==
            IF i = 0 THEN m
            ELSE Then(Upto[i - 1],
                      LAMBDA r : ReleaseFrame(r, offs[i], olds[i]))
    IN  Upto[Len(offs)]

\* removeAll(): the index first, then the chain, then each frame onto the free
\* chain, the header last.  A number past the end refuses the call before
\* anything is written.
PlanRemoveAll(p, S) ==
    LET Ends(r) == [r EXCEPT
                        !.base.firstFrame = IF r.index = <<>> THEN 0
                                            ELSE r.index[1].offset,
                        !.base.lastFrame = IF r.index = <<>> THEN 0
                                           ELSE Last(r.index).offset]
        Count(r) == WriteBaseHeader([r EXCEPT !.base.count = Len(r.index)])
        Take(r, offs, olds) ==
            Then(Then(LinkRuns(CutIndex(r, S), offs, olds),
                      LAMBDA q : ReleaseAll(Ends(q), offs, olds)), Count)
        Of(r, targets) ==
            Take(r, [i \in DOMAIN targets |-> r.index[targets[i]].offset],
                 [i \in DOMAIN targets |->
                        r.frames[r.index[targets[i]].offset]])
        Run(r) ==
            IF \E n \in S : \/ n \notin DOMAIN r.index
                            \/ ~Readable(r, r.index[n].offset)
            THEN Refuse(r)
            ELSE Of(r, Sorted(r.index, S))
    IN  Return(Then(Reload(p), Run))
-----------------------------------------------------------------------------
Init ==
    /\ hdr = EmptyHeader
    /\ frames = [o \in 1 .. MaxFrame |-> NoFrame]
    /\ sqi = <<>>
    /\ lock = NoProc
    /\ todo = <<>>
    /\ op = NoOp
    /\ view = [p \in Proc |-> Closed]
    /\ faults = 0
    /\ scope \in Scopes

\* open() reads the header, and the index after it, without the lock.
ReadHeader(p) ==
    /\ view[p].state = "closed"
    /\ Sane(hdr)
    /\ view' = [view EXCEPT ![p] = [state |-> "header", base |-> hdr,
                                    index |-> <<>>]]
    /\ UNCHANGED <<disk, lock, todo, op, faults>>

ReadIndex(p) ==
    /\ view[p].state = "header"
    /\ view' = [view EXCEPT ![p].state = "open",
                            ![p].index = LoadIndex(view[p].base)]
    /\ UNCHANGED <<disk, lock, todo, op, faults>>

Close(p) ==
    /\ view[p].state = "open"
    /\ lock # p
    /\ view' = [view EXCEPT ![p] = Closed]
    /\ UNCHANGED <<disk, lock, todo, op, faults>>

\* A call that got the lock: the base is read again and the writes planned.
\* One that does not get it answers BaseBusy and changes nothing.
Begin(p, plan, call) ==
    /\ view[p].state = "open"
    /\ lock = NoProc
    /\ call.kind \in scope.ops
    /\ ~plan.full
    /\ lock' = p
    /\ todo' = plan.todo
    /\ op' = call
    /\ view' = [view EXCEPT ![p].base = hdr, ![p].index = LoadIndex(hdr)]
    /\ UNCHANGED <<disk, faults>>

\* The messages that the caller's numbers, which it worked out from its own
\* table before the lock was taken, name under the lock.
Named(S) == {LoadIndex(hdr)[n].uid : n \in S \cap DOMAIN LoadIndex(hdr)}

Numbers(kind, S) == [NoOp EXCEPT !.kind = kind, !.named = Named(S)]

WriteAll(p) ==
    \E drafts \in UNION {[1 .. k -> Drafts] : k \in 1 .. MaxSet} :
        /\ hdr.nextUid + Len(drafts) <= scope.uids + 1
        /\ Begin(p, PlanWriteAll(p, drafts),
                 [NoOp EXCEPT !.kind = "write",
                              !.from = Len(LoadIndex(hdr)) + 1,
                              !.size = Len(drafts)])

ReplaceOne(p) ==
    \E n \in DOMAIN view[p].index, draft \in Drafts :
        Begin(p, PlanReplace(p, n, draft), Numbers("replace", {n}))

RemoveAll(p) ==
    \E S \in (SUBSET DOMAIN view[p].index) \ {{}} :
        Begin(p, PlanRemoveAll(p, S), Numbers("remove", S))

SetAttributes(p) ==
    \E n \in DOMAIN view[p].index, bit \in {"seen", "rcvd"} :
        Begin(p, PlanMark(p, n, bit), Numbers("mark", {n}))

LockAfter(p, w) == IF w.kind = "return" THEN NoProc ELSE p

\* The next write reaches the disk, or the call returns and the lock with it.
Put(p) ==
    LET it == Head(todo)
        w == it.write
    IN  /\ lock = p
        /\ hdr' = HeaderAfter(w, hdr)
        /\ frames' = FramesAfter(w, frames)
        /\ sqi' = IndexAfter(w, sqi)
        /\ todo' = Tail(todo)
        /\ view' = [view EXCEPT ![p].base = it.base, ![p].index = it.index]
        /\ lock' = LockAfter(p, w)
        /\ op' = IF w.kind = "return" THEN NoOp ELSE op
        /\ UNCHANGED faults

\* The disk refuses the next write.  The call fails there; only writeAll()
\* has something left to do, settling the messages that are in.
IoError(p) ==
    LET it == Head(todo)
        m == Refuse(Holding(it.base, it.index))
    IN  /\ <<"io", op.kind>> \in Faults
        /\ faults < MaxFaults
        /\ lock = p
        /\ it.write.kind # "return"
        /\ todo' = Return(IF it.write.kind \in {"next", "prev", "frame"}
                             /\ op.kind = "write"
                          THEN Settle(m, op.from) ELSE m).todo
        /\ faults' = faults + 1
        /\ UNCHANGED <<disk, lock, op, view>>

\* The process dies; the kernel gives back its lock.
Crash(p) ==
    /\ <<"crash", op.kind>> \in Faults
    /\ faults < MaxFaults
    /\ faults' = faults + 1
    /\ lock = p
    /\ lock' = NoProc
    /\ todo' = <<>>
    /\ op' = NoOp
    /\ view' = [view EXCEPT ![p] = Closed]
    /\ UNCHANGED disk

Next ==
    /\ \E p \in scope.procs :
        \/ ReadHeader(p) \/ ReadIndex(p) \/ Close(p)
        \/ WriteAll(p) \/ ReplaceOne(p) \/ RemoveAll(p) \/ SetAttributes(p)
        \/ Put(p) \/ IoError(p) \/ Crash(p)
    /\ UNCHANGED scope

Spec == Init /\ [][Next]_vars
-----------------------------------------------------------------------------

\* What a process that opens the base now has as its index.
Fresh == LoadIndex(hdr)

\* Between two calls the two files agree: the header counts the records, the
\* records name the frames of the message chain in its order, the free chain
\* is whole, every frame of the file is in exactly one of the two, and a
\* message and its record agree on its UID and on MSGREAD.
FilesAgree ==
    LET Off(i) == IF i \in DOMAIN sqi THEN sqi[i].offset ELSE 0
        used == {Off(i) : i \in DOMAIN sqi}
        free == ScanFreeChain(Holding(hdr, sqi), kWholeChain)
    IN  lock = NoProc =>
        /\ hdr.count = Len(sqi)
        /\ hdr.firstFrame = Off(1)
        /\ hdr.lastFrame = Off(Len(sqi))
        /\ \A i \in DOMAIN sqi :
              LET f == frames[sqi[i].offset] IN
              /\ f.type = "normal"
              /\ f.prev = Off(i - 1)
              /\ f.next = Off(i + 1)
              /\ f.msg.uid = sqi[i].uid
              /\ f.msg.rcvd = sqi[i].rcvd
        /\ free.ok
        /\ used \cap ToSet(free.pool) = {}
        /\ used \cup ToSet(free.pool) = 1 .. hdr.endFrame - 1
        /\ Len(sqi) + Len(free.pool) = hdr.endFrame - 1

\* The comments in replace() and removeAll(): a process that opens the base
\* between two writes never has "an index pointing into free space".
IndexNeverIntoFree ==
    \A i \in DOMAIN sqi : frames[sqi[i].offset].type # "free"

\* No message of the area runs past the room its frame owns, where the next
\* frame begins.
MessagesFit ==
    \A i \in DOMAIN Fresh :
        LET f == frames[Fresh[i].offset]
        IN  f.type = "normal" => Room[f.msg.text] <= f.room

\* writeAll(): "an area grows by all of them at once or by none", as far as a
\* process opening it is concerned.
SetArrivesWhole ==
    [][Len(Fresh') > Len(Fresh) =>
            op.kind = "write" /\ Len(Fresh') = Len(Fresh) + op.size]_vars

\* What a process that opens the base now reads for the message `uid`.
Found(uid) == {frames[Fresh[i].offset].msg :
                    i \in {j \in DOMAIN Fresh : Fresh[j].uid = uid}}

\* However an append is cut short, and whatever is done to the area after it,
\* a message leaves the area only by a call that names it, and what it says
\* changes only by a call that replaces it.
OnlyWhatIsNamed ==
    [][\A uid \in {e.uid : e \in ToSet(Fresh)} :
         \A m \in Found(uid) :
            \/ uid \in op.named /\ op.kind = "remove"
            \/ \E n \in Found(uid)' :
                    /\ n.uid = uid
                    /\ n.text = m.text \/ (uid \in op.named
                                            /\ op.kind = "replace")]_vars

\* removeAll() between writing the index's tail and cutting the file: the last
\* records stand twice.
Cutting == todo # <<>> /\ Head(todo).write.kind = "cut"

\* The index as it will stand when the cut under way is made.
Committed == IF Cutting THEN SubSeq(Fresh, 1, Min2(Len(Fresh),
                                                   Head(todo).write.to))
                        ELSE Fresh

\* The messages of the area, as MessageBase has them.
Shown == [i \in DOMAIN Committed |-> frames[Committed[i].offset].msg]

\* The two files written a piece at a time are one area changed a call at a
\* time: the message base implements MessageBase.
Abstract ==
    INSTANCE MessageBase WITH
        messages <- Shown, nextUid <- hdr.nextUid

ImplementsMessageBase == Abstract!BaseSpec
=============================================================================
