------------------------------ MODULE JamBase ------------------------------
(***************************************************************************)
(* The JAM base (msgbase/jam_base.cpp): headers in the .jhr behind an info *)
(* block, one index record per message in the .jdx, texts in the .jdt.     *)
(* Nothing ever moves: a message's number is the place of its index        *)
(* record, a deleted one leaves a blank record, and what is written again  *)
(* and outgrows its room is written at the end.                            *)
(*                                                                         *)
(* One write to the disk is a step.  A writer holds the lock over the      *)
(* three files from its reload to its return, so the reload is one step;   *)
(* an opener takes no lock and reads between anybody's writes.             *)
(***************************************************************************)
EXTENDS Naturals, Sequences, FiniteSets, SequencesExt

CONSTANTS
    Proc,        \* the processes that share the base
    Text,        \* what a message can say
    TextLen,     \* the length of each in the .jdt, in units
    SubsLen,     \* the length of its subfields in the .jhr
    Scopes,      \* what a behaviour is bounded to: [procs, calls, texts,
                 \* headers, units, set, faults], the processes at work, the
                 \* calls each makes ("write", "replace", "remove", "seen",
                 \* "rcvd"), what is written, the headers in the .jhr, the
                 \* units in the .jdt, the drafts in one writeAll(), and the
                 \* refused writes and deaths together
    MaxHeader,   \* bound: the longest .jhr of any scope
    NoProc,      \* the lock when nobody has it
    NoText       \* subfields not yet written

ASSUME LengthsAssumption ==
    /\ TextLen \in [Text -> Nat \ {0}]
    /\ SubsLen \in [Text -> Nat \ {0}]
ASSUME JamBoundsAssumption ==
    /\ MaxHeader \in Nat
    /\ \A s \in Scopes :
          /\ s.procs \subseteq Proc
          /\ s.calls \in [s.procs -> SUBSET {"write", "replace", "remove", "seen", "rcvd"}]
          /\ s.texts \subseteq Text
          /\ s.headers \in 0 .. MaxHeader
          /\ s.units \in Nat /\ s.set \in Nat /\ s.faults \in Nat
ASSUME JamMarkerAssumption == NoProc \notin Proc /\ NoText \notin Text

VARIABLES
    jhr,       \* the headers, in the order they stand in the file
    jdx,       \* the index: the header of each record, 0 for kNoRecord
    jdt,       \* the texts: whose text each unit is
    active,    \* ActiveMsgs, in the info block
    lock,      \* who holds the base's lock
    pc,        \* where each process is in a call
    table,     \* per process, active_: the messages it knows of
    job,       \* per process, the call's own variables
    faults,    \* what has gone wrong so far, to bound it
    scope      \* what this behaviour is bounded to

disk == <<jhr, jdx, jdt, active>>
vars == <<disk, lock, pc, table, job, faults, scope>>

HeaderAt == 1 .. MaxHeader
\* of: whose attributes, stamps and lengths; subs: whose subfields stand
\* behind it; at and len: its text in the .jdt.
Header == [of : Text, subs : Text \cup {NoText}, seen : BOOLEAN,
           rcvd : BOOLEAN, gone : BOOLEAN, at : Nat, len : Nat]
NoHeader == [of |-> NoText, subs |-> NoText, seen |-> FALSE, rcvd |-> FALSE,
             gone |-> FALSE, at |-> 0, len |-> 0]
ActiveMessage == [record : Nat, headerOffset : HeaderAt, header : Header]

\* drafts: what is still to write; head: the header in the making; old: the
\* one it replaces; offset: where the header goes; record: the index record;
\* targets: the records still to remove; done: messages written or removed;
\* index, sizes: what an opener has read.
NoJob == [kind |-> "none", drafts |-> <<>>, head |-> NoHeader, offset |-> 0,
          old |-> 0, was |-> NoHeader, record |-> 0, targets |-> {},
          done |-> 0, index |-> <<>>, records |-> 0, headers |-> 0]

Job == [kind : {"none", "write", "replace", "remove", "seen", "rcvd"},
        drafts : Seq(Text), head : Header \cup {NoHeader}, offset : Nat,
        old : Nat, was : Header \cup {NoHeader}, record : Nat,
        targets : SUBSET Nat, done : Nat, index : Seq(Nat), records : Nat,
        headers : Nat]

PC == {"closed", "sized", "indexed", "open", "text", "head", "subs", "index",
       "oldhead", "mark", "blank", "patch", "info"}
-----------------------------------------------------------------------------
Init ==
    /\ jhr = <<>> /\ jdx = <<>> /\ jdt = <<>> /\ active = 0
    /\ lock = NoProc
    /\ pc = [p \in Proc |-> "closed"]
    /\ table = [p \in Proc |-> <<>>]
    /\ job = [p \in Proc |-> NoJob]
    /\ faults = 0
    /\ scope \in Scopes

At(p, here) == pc[p] = here
Goto(p, there) == pc' = [pc EXCEPT ![p] = there]
Filled(text) == [i \in 1 .. TextLen[text] |-> text]

\* A record of the index names a message: it is not blank, not past the header
\* file, and its header is not marked deleted.
IsLive(index, headers, r) ==
    /\ index[r] \in DOMAIN headers
    /\ ~headers[index[r]].gone

\* loadActive(): the table of active messages out of index and headers.
LoadActive(index, headers) ==
    LET Message(r) == [record |-> r, headerOffset |-> index[r],
                       header |-> headers[index[r]]]
        UpTo[r \in 0 .. Len(index)] ==
            IF r = 0 THEN <<>>
            ELSE IF IsLive(index, headers, r) THEN Append(UpTo[r - 1], Message(r))
            ELSE UpTo[r - 1]
    IN  UpTo[Len(index)]

Reload == LoadActive(jdx, jhr)
-----------------------------------------------------------------------------
(***************************************************************************)
(* open(), with no lock: the sizes of the two files, then the index, then  *)
(* the headers in one read of the size taken before.                       *)
(***************************************************************************)
SizeFiles(p) ==
    /\ At(p, "closed")
    /\ job' = [job EXCEPT ![p] = [NoJob EXCEPT !.records = Len(jdx),
                                               !.headers = Len(jhr)]]
    /\ Goto(p, "sized")
    /\ UNCHANGED <<disk, lock, table, faults>>

ReadIndex(p) ==
    /\ At(p, "sized")
    /\ job' = [job EXCEPT ![p].index = SubSeq(jdx, 1, job[p].records)]
    /\ Goto(p, "indexed")
    /\ UNCHANGED <<disk, lock, table, faults>>

\* A file that has shrunk since it was sized cannot be read to that length,
\* and the open fails.
ReadHeaders(p) ==
    LET j == job[p]
        there == j.headers <= Len(jhr)
    IN  /\ At(p, "indexed")
        /\ table' = [table EXCEPT ![p] =
                        IF there
                        THEN LoadActive(j.index, SubSeq(jhr, 1, j.headers))
                        ELSE <<>>]
        /\ job' = [job EXCEPT ![p] = NoJob]
        /\ Goto(p, IF there THEN "open" ELSE "closed")
        /\ UNCHANGED <<disk, lock, faults>>

Close(p) ==
    /\ At(p, "open")
    /\ table' = [table EXCEPT ![p] = <<>>]
    /\ Goto(p, "closed")
    /\ UNCHANGED <<disk, lock, job, faults>>
-----------------------------------------------------------------------------
(***************************************************************************)
(* The writing calls.  Each takes the lock, reads the base again and goes  *)
(* to its first write, or returns where there is nothing to write.  With   *)
(* the lock taken by another the call is busy and changes nothing.         *)
(***************************************************************************)
Locked(p, kind) ==
    /\ At(p, "open")
    /\ kind \in scope.calls[p]
    /\ lock = NoProc
    /\ table' = [table EXCEPT ![p] = Reload]
    /\ UNCHANGED <<disk, faults>>

Begin(p, j, there) ==
    /\ lock' = p
    /\ job' = [job EXCEPT ![p] = j]
    /\ Goto(p, there)

Nothing == UNCHANGED <<lock, pc, job>>

\* Where the next draft of a set goes: the ends of the three files.
NextDraft(j, headers, index, text) ==
    LET draft == Head(j.drafts)
    IN  [j EXCEPT !.head = [NoHeader EXCEPT !.of = draft, !.at = Len(text),
                                            !.len = TextLen[draft]],
                  !.offset = Len(headers) + 1,
                  !.record = Len(index) + 1]

WriteAll(p) ==
    \E drafts \in UNION {[1 .. k -> scope.texts] : k \in 1 .. scope.set} :
        /\ Locked(p, "write")
        /\ Len(jhr) + Len(drafts) <= scope.headers
        /\ Begin(p, NextDraft([NoJob EXCEPT !.kind = "write",
                                            !.drafts = drafts],
                              jhr, jdx, jdt), "text")

\* "The text goes back where it was as long as it still fits there."
TextAt(old, text) == IF TextLen[text] > old.len THEN Len(jdt) ELSE old.at

\* The header only where the subfields take exactly the room they took.
HeaderOffset(old, offset, text) ==
    IF SubsLen[text] # SubsLen[old.subs] THEN Len(jhr) + 1 ELSE offset

\* Mutant: the header's own fields as the table had them before the lock.
KeptFromTable(p, n) == table[p][n].header

\* What a replaced message keeps is read back off its own header.
Kept(p, n) == Reload[n].header

Replace(p) ==
    \E n \in DOMAIN table[p], text \in scope.texts, rcvd \in BOOLEAN :
        /\ Locked(p, "replace")
        /\ Len(jhr) < scope.headers
        /\ Len(jdt) + TextLen[text] <= scope.units
        /\ IF n \notin DOMAIN Reload THEN Nothing
           ELSE LET m == Reload[n]
                    kept == Kept(p, n)
                IN  Begin(p, [NoJob EXCEPT
                        !.kind = "replace",
                        !.drafts = <<text>>,
                        !.head = [kept EXCEPT !.of = text, !.rcvd = rcvd,
                                              !.at = TextAt(kept, text),
                                              !.len = TextLen[text]],
                        !.offset = HeaderOffset(kept, m.headerOffset, text),
                        !.old = m.headerOffset,
                        !.was = kept,
                        !.record = m.record], "text")

\* removeAll(): sortedTargets() refuses the set where a number names nothing.
RemoveAll(p) ==
    \E S \in SUBSET DOMAIN table[p] :
        /\ Locked(p, "remove")
        /\ S # {}
        /\ IF ~(S \subseteq DOMAIN Reload) THEN Nothing
           ELSE Begin(p, [NoJob EXCEPT
                    !.kind = "remove",
                    !.targets = {Reload[n].record : n \in S}],
                    "mark")

\* markSeen() and markReceived() answer from the table read when the area was
\* opened where it has the mark already, and take no lock for it.
Marked(header, mark) ==
    \/ mark = "seen" /\ header.seen
    \/ mark = "rcvd" /\ header.rcvd

Mark(p) ==
    \E n \in DOMAIN table[p], mark \in {"seen", "rcvd"} :
        /\ Locked(p, mark)
        /\ ~Marked(table[p][n].header, mark)
        /\ IF n \notin DOMAIN Reload \/ Marked(Reload[n].header, mark)
           THEN Nothing
           ELSE Begin(p, [NoJob EXCEPT !.kind = mark,
                                       !.record = Reload[n].record,
                                       !.old = Reload[n].headerOffset],
                      "patch")
-----------------------------------------------------------------------------
(***************************************************************************)
(* The writes.                                                             *)
(***************************************************************************)
\* A call returns, and the lock goes.
Return(p) ==
    /\ lock' = NoProc
    /\ job' = [job EXCEPT ![p] = NoJob]
    /\ Goto(p, "open")

\* The table with the message of one record as it now is.
Updated(p, record, offset, header) ==
    table' = [table EXCEPT ![p] =
        [n \in DOMAIN @ |-> IF @[n].record # record THEN @[n]
                            ELSE [record |-> record, headerOffset |-> offset,
                                  header |-> header]]]

\* The index record makes the message visible, last of all.
PutText(p) ==
    LET at == job[p].head.at
        text == job[p].head.of
        end == at + TextLen[text]
    IN  /\ At(p, "text")
        /\ jdt' = [i \in 1 .. (IF end > Len(jdt) THEN end ELSE Len(jdt)) |->
                        IF i \in at + 1 .. end THEN text ELSE jdt[i]]
        /\ Goto(p, "head")
        /\ UNCHANGED <<jhr, jdx, active, lock, table, job, faults>>

PutHeader(p, header) ==
    jhr' = IF job[p].offset \in DOMAIN jhr
           THEN [jhr EXCEPT ![job[p].offset] = header]
           ELSE Append(jhr, header)

\* writeHeaderAt() writes the fixed part and the subfields by two calls.
PutFixed(p) ==
    LET behind == IF job[p].offset \in DOMAIN jhr
                  THEN jhr[job[p].offset].subs ELSE NoText
    IN  /\ At(p, "head")
        /\ PutHeader(p, [job[p].head EXCEPT !.subs = behind])
        /\ Goto(p, "subs")
        /\ UNCHANGED <<jdx, jdt, active, lock, table, job, faults>>

PutSubfields(p) ==
    /\ At(p, "subs")
    /\ PutHeader(p, [job[p].head EXCEPT !.subs = job[p].head.of])
    /\ Goto(p, "index")
    /\ UNCHANGED <<jdx, jdt, active, lock, table, job, faults>>

PutIndex(p) ==
    LET j == job[p]
        written == [j EXCEPT !.drafts = Tail(@), !.done = @ + 1]
        new == [record |-> j.record, headerOffset |-> j.offset,
                header |-> jhr[j.offset]]
    IN  /\ At(p, "index")
        /\ jdx' = IF j.record \in DOMAIN jdx
                  THEN [jdx EXCEPT ![j.record] = j.offset]
                  ELSE Append(jdx, j.offset)
        /\ job' = [job EXCEPT ![p] =
                        IF written.drafts = <<>> THEN written
                        ELSE NextDraft(written, jhr, jdx', jdt)]
        /\ Goto(p, CASE written.drafts # <<>> -> "text"
                     [] j.kind = "replace" /\ j.offset # j.old -> "oldhead"
                     [] OTHER -> "info")
        /\ table' = IF j.kind = "write" THEN [table EXCEPT ![p] = Append(@, new)]
                    ELSE table
        /\ UNCHANGED <<jhr, jdt, active, lock, faults>>

\* "Marking it deleted is what tells a packer to drop it."
Gone(offset) == [jhr EXCEPT ![offset].gone = TRUE, ![offset].len = 0]

MarkOldHeader(p) ==
    /\ At(p, "oldhead")
    /\ jhr' = Gone(job[p].old)
    /\ Goto(p, "info")
    /\ UNCHANGED <<jdx, jdt, active, lock, table, job, faults>>

\* The targets go in their order, the least first.
NextTarget(p) == Min(job[p].targets)

\* markRemoved(): the header first, then the index record.
MarkRemoved(p) ==
    /\ At(p, "mark")
    /\ jhr' = Gone(jdx[NextTarget(p)])
    /\ Goto(p, "blank")
    /\ UNCHANGED <<jdx, jdt, active, lock, table, job, faults>>

\* A table without the message of one record.
Without(messages, record) ==
    LET UpTo[n \in 0 .. Len(messages)] ==
            IF n = 0 THEN <<>>
            ELSE IF messages[n].record = record THEN UpTo[n - 1]
            ELSE Append(UpTo[n - 1], messages[n])
    IN  UpTo[Len(messages)]

\* Only now is it taken out of the table, and counted.
BlankRecord(p) ==
    LET gone == NextTarget(p)
        left == job[p].targets \ {gone}
    IN  /\ At(p, "blank")
        /\ table' = [table EXCEPT ![p] = Without(@, gone)]
        /\ jdx' = [jdx EXCEPT ![gone] = 0]
        /\ job' = [job EXCEPT ![p].targets = left, ![p].done = @ + 1]
        /\ Goto(p, IF left = {} THEN "info" ELSE "mark")
        /\ UNCHANGED <<jhr, jdt, active, lock, faults>>

Patch(p) ==
    LET j == job[p]
    IN  /\ At(p, "patch")
        /\ jhr' = IF j.kind = "seen" THEN [jhr EXCEPT ![j.old].seen = TRUE]
                  ELSE [jhr EXCEPT ![j.old].rcvd = TRUE]
        /\ Updated(p, j.record, j.old, jhr'[j.old])
        /\ UNCHANGED <<jdx, jdt, active, faults>>
        /\ Return(p)

\* Mutant: the count is taken down with no look at how far it can go.
ActiveBelowZero(j) ==
    CASE j.kind = "write" -> active + j.done
      [] j.kind = "remove" -> active - j.done
      [] OTHER -> active

\* Mutant: a message written again counts as one more.
ActiveReplaced(j) ==
    CASE j.kind \in {"write", "replace"} -> active + j.done
      [] j.kind = "remove" -> IF active < j.done THEN 0 ELSE active - j.done
      [] OTHER -> active

\* "Once, for however many went in", or came out.
ActiveAfter(j) ==
    CASE j.kind = "write" -> active + j.done
      [] j.kind = "remove" -> IF active < j.done THEN 0 ELSE active - j.done
      [] OTHER -> active

PutInfo(p) ==
    /\ At(p, "info")
    /\ active' = ActiveAfter(job[p])
    /\ IF job[p].kind = "replace"
       THEN Updated(p, job[p].record, job[p].offset, jhr[job[p].offset])
       ELSE UNCHANGED table
    /\ UNCHANGED <<jhr, jdx, jdt, faults>>
    /\ Return(p)
-----------------------------------------------------------------------------
(***************************************************************************)
(* A write is refused, or the process dies.                                *)
(***************************************************************************)
Faulty(p) ==
    /\ faults < scope.faults
    /\ faults' = faults + 1

\* Mutant: the whole set is cut off, with the messages that are visible already.
CutBackSet(p) ==
    LET j == job[p]
        new == j.kind = "write" \/ j.offset # j.old
    IN  /\ jhr' = IF new THEN SubSeq(jhr, 1, j.offset - 1 - j.done) ELSE jhr
        /\ jdt' = IF j.kind = "write" THEN SubSeq(jdt, 1, j.head.at) ELSE jdt

\* The header that did not make it is cut off again, if it was to stand at
\* the end; an append cuts its text off as well.
CutBack(p) ==
    LET j == job[p]
        new == j.kind = "write" \/ j.offset # j.old
    IN  /\ jhr' = IF new THEN SubSeq(jhr, 1, j.offset - 1) ELSE jhr
        /\ jdt' = IF j.kind = "write" THEN SubSeq(jdt, 1, j.head.at) ELSE jdt

\* What went in, or came out, before the refusal is counted in the info block.
WriteFails(p) ==
    /\ pc[p] \in {"text", "head", "subs", "index", "oldhead", "mark", "blank",
                  "patch", "info"}
    /\ Faulty(p)
    /\ IF pc[p] \in {"head", "subs", "index"} THEN CutBack(p)
       ELSE UNCHANGED <<jhr, jdt>>
    /\ UNCHANGED <<jdx, active, table>>
    /\ IF /\ job[p].kind \in {"write", "remove"}
          /\ job[p].done > 0
          /\ pc[p] # "info"
       THEN Goto(p, "info") /\ UNCHANGED <<lock, job>>
       ELSE Return(p)

\* The kernel gives a dead writer's lock back (FileLock).
Die(p) ==
    /\ lock = p
    /\ Faulty(p)
    /\ lock' = NoProc
    /\ job' = [job EXCEPT ![p] = NoJob]
    /\ table' = [table EXCEPT ![p] = <<>>]
    /\ Goto(p, "closed")
    /\ UNCHANGED disk
-----------------------------------------------------------------------------
Next ==
    /\ \E p \in scope.procs :
        \/ SizeFiles(p) \/ ReadIndex(p) \/ ReadHeaders(p) \/ Close(p)
        \/ WriteAll(p) \/ Replace(p) \/ RemoveAll(p) \/ Mark(p)
        \/ PutText(p) \/ PutFixed(p) \/ PutSubfields(p) \/ PutIndex(p)
        \/ MarkOldHeader(p) \/ MarkRemoved(p) \/ BlankRecord(p)
        \/ Patch(p) \/ PutInfo(p)
        \/ WriteFails(p) \/ Die(p)
    /\ UNCHANGED scope

Spec == Init /\ [][Next]_vars
-----------------------------------------------------------------------------
Live == {r \in DOMAIN jdx : IsLive(jdx, jhr, r)}

\* The call that is writing a message again, until its index record is written.
Rewriting(p, r) ==
    /\ job[p].kind = "replace"
    /\ job[p].record = r
    /\ pc[p] \in {"text", "head", "subs", "index"}

\* What a header, as one knows it, leads to on the disk: one draft's
\* subfields and the whole of the same draft's text, or NoText.
Says(offset, header) ==
    IF /\ offset \in DOMAIN jhr
       /\ jhr[offset].subs = header.of
       /\ header.at + header.len <= Len(jdt)
       /\ SubSeq(jdt, header.at + 1, header.at + header.len)
                = Filled(header.of)
    THEN header.of
    ELSE NoText

\* What a message is to whoever has the lock: one that is being written again is
\* what it was.
AsKnown(m) ==
    LET was == job[CHOOSE p \in Proc : Rewriting(p, m.record)].was
        again == \E p \in Proc : Rewriting(p, m.record)
        header == IF again THEN was ELSE m.header
    IN  [uid |-> m.record,
         text |-> IF again THEN was.of ELSE Says(m.headerOffset, m.header),
         rcvd |-> header.rcvd, seen |-> header.seen]

\* The area, as whoever has the lock knows it.
Area == [n \in DOMAIN Reload |-> AsKnown(Reload[n])]

Base == INSTANCE MessageBase WITH
            messages <- Area, nextUid <- Len(jdx) + 1

TypeOK ==
    /\ jhr \in Seq(Header) /\ Len(jhr) <= MaxHeader
    /\ jdx \in Seq(0 .. MaxHeader)
    /\ jdt \in Seq(Text)
    /\ active \in Nat
    /\ lock \in Proc \cup {NoProc}
    /\ pc \in [Proc -> PC]
    /\ table \in [Proc -> Seq(ActiveMessage)]
    /\ job \in [Proc -> Job]
    /\ faults \in 0 .. scope.faults

\* However many writes a call makes and wherever it is cut short, the area is
\* a MessageBase in which messages come and go one by one
\* (msgbase/format_driver.hpp): each is whole when it can be seen first, keeps
\* its UID, its text and its marks, and no UID is ever given twice.
ImplementsMessageBase == Base!BaseSpec

\* Between calls that have all come to their end, ActiveMsgs counts the
\* messages, and no index record names a header that is marked deleted
\* (writeInfo(), replace(), markRemoved()).
FilesAgree ==
    lock = NoProc /\ faults = 0 =>
        /\ active = Cardinality(Live)
        /\ \A r \in DOMAIN jdx : jdx[r] # 0 => r \in Live

\* Where nothing is written again, what read() finds through a table that is
\* as old as the open is the message that was listed, although read() takes no
\* lock and others have appended, removed and been cut short since.
ReadsWhatWasListed ==
    (\A p \in scope.procs : "replace" \notin scope.calls[p]) =>
        \A p \in Proc : At(p, "open") => \A n \in DOMAIN table[p] :
            LET m == table[p][n]
            IN  Says(m.headerOffset, m.header) = m.header.of
=============================================================================
