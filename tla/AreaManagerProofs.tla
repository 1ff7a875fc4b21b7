------------------------- MODULE AreaManagerProofs -------------------------
(***************************************************************************)
(* What AreaManager guarantees for any areas, any number of messages and   *)
(* either way of giving out UIDs.                                          *)
(***************************************************************************)
EXTENDS AreaManager, WellFoundedInduction, TLAPS

\* A table the base can have: its UIDs go up and have all been given out.
Fine(messages, last) ==
    /\ messages \in Seq(Message)
    /\ \A i, j \in DOMAIN messages : i < j => messages[i].uid < messages[j].uid
    /\ \A i \in DOMAIN messages : messages[i].uid <= last

Row == {e \in Entry : e.unread <= e.total}

Typed ==
    /\ disk \in [Area -> Seq(Message) \cup {Absent}]
    /\ given \in 0 .. MaxMsg
    /\ mark \in [Area -> 0 .. MaxMsg]
    /\ list \in [Area -> Row]
    /\ current \in Area \cup {NoArea}
    /\ shown \in 0 .. MaxMsg
    /\ scan \in Scan
    /\ scan.loaded \in [Area -> Row]
    /\ covered \in [Area -> SUBSET (1 .. MaxMsg)]
    /\ packed \in BOOLEAN

\* What is on the disk and what the open base has read of it.
Tables ==
    /\ \A a \in Area : Fine(Holds(a), given)
    /\ Fine(table, given)
    /\ current \in Area => disk[current] # Absent

IInv == Typed /\ Tables

\* --------------------------------------------------------------------------
\* Sets of numbers, sequences and tables

\* A nonempty set of numbers that has a bound has a greatest one.
LEMMA GreatestNumber ==
    ASSUME NEW n \in Nat, NEW T \in SUBSET (0 .. n), T # {}
    PROVE  Max(T) \in T /\ \A m \in T : m <= Max(T)
<1> DEFINE Gaps == {n - m : m \in T}
<1>1. Gaps \subseteq Nat /\ Gaps # {}
  <2>1. \A m \in T : n - m \in Nat
    OBVIOUS
  <2>2. PICK m \in T : TRUE
    OBVIOUS
  <2> QED
    BY <2>1, <2>2
<1>2. PICK g \in Gaps : \A h \in Gaps : ~ (<<h, g>> \in OpToRel(<, Nat))
  BY <1>1, WFMin, NatLessThanWellFounded
<1>3. PICK x \in T : g = n - x
  BY <1>2
<1>4. ASSUME NEW m \in T PROVE x >= m
  <2>1. n - m \in Gaps /\ n - m \in Nat /\ g \in Nat
    BY <1>1, <1>2
  <2>2. ~ (n - m < g)
    BY <2>1, <1>2 DEF OpToRel
  <2> QED
    BY <2>2, <1>3, <1>4
<1>5. \E y \in T : \A m \in T : y >= m
  BY <1>4
<1>6. Max(T) \in T /\ \A m \in T : Max(T) >= m
  BY <1>5, Zenon DEF Max
<1> QED
  BY <1>6

LEMMA Removed ==
    ASSUME NEW S, NEW s \in Seq(S), NEW n \in DOMAIN s
    PROVE  /\ RemoveAt(s, n) \in Seq(S)
           /\ Len(RemoveAt(s, n)) = Len(s) - 1
           /\ \A i \in 1 .. Len(s) - 1 :
                RemoveAt(s, n)[i] = s[IF i < n THEN i ELSE i + 1]
<1>1. n \in 1 .. Len(s) /\ Len(s) \in Nat
  OBVIOUS
<1> DEFINE before == SubSeq(s, 1, n - 1)
           after == SubSeq(s, n + 1, Len(s))
<1>2. /\ before \in Seq(S) /\ Len(before) = n - 1
      /\ \A i \in 1 .. n - 1 : before[i] = s[i]
  BY <1>1
<1>3. /\ after \in Seq(S) /\ Len(after) = Len(s) - n
      /\ \A i \in 1 .. Len(s) - n : after[i] = s[n + i]
  BY <1>1
<1>4. RemoveAt(s, n) = before \o after
  BY DEF RemoveAt
<1> HIDE DEF before, after
<1>5. before \o after \in Seq(S) /\ Len(before \o after) = Len(s) - 1
  BY <1>1, <1>2, <1>3
<1>6. ASSUME NEW i \in 1 .. Len(s) - 1
      PROVE  (before \o after)[i] = s[IF i < n THEN i ELSE i + 1]
  <2>1. CASE i < n
    BY <2>1, <1>1, <1>2, <1>3
  <2>2. CASE ~ (i < n)
    <3>1. i - (n - 1) \in 1 .. Len(s) - n /\ n + (i - (n - 1)) = i + 1
      BY <2>2, <1>1
    <3>2. (before \o after)[i] = after[i - (n - 1)]
      BY <2>2, <1>1, <1>2, <1>3
    <3> QED
      BY <3>1, <3>2, <2>2, <1>3
  <2> QED
    BY <2>1, <2>2
<1> QED
  BY <1>4, <1>5, <1>6

LEMMA FineEmpty == \A n \in Nat : Fine(<<>>, n)
  BY DEF Fine

LEMMA FineRemoved ==
    ASSUME NEW last \in Nat, NEW s, Fine(s, last), NEW n \in DOMAIN s
    PROVE  Fine(RemoveAt(s, n), last)
<1>1. /\ RemoveAt(s, n) \in Seq(Message)
      /\ Len(RemoveAt(s, n)) = Len(s) - 1
      /\ \A i \in 1 .. Len(s) - 1 :
            RemoveAt(s, n)[i] = s[IF i < n THEN i ELSE i + 1]
  BY Removed DEF Fine
<1> DEFINE r == RemoveAt(s, n)
<1>2. DOMAIN r = 1 .. Len(s) - 1 /\ n \in 1 .. Len(s) /\ Len(s) \in Nat
  BY <1>1 DEF Fine
<1> HIDE DEF r
<1>3. ASSUME NEW i \in DOMAIN r, NEW j \in DOMAIN r, i < j
      PROVE  r[i].uid < r[j].uid
  <2> DEFINE at(k) == IF k < n THEN k ELSE k + 1
  <2>1. at(i) \in DOMAIN s /\ at(j) \in DOMAIN s /\ at(i) < at(j)
    BY <1>2, <1>3 DEF Fine
  <2>2. r[i] = s[at(i)] /\ r[j] = s[at(j)]
    BY <1>1, <1>2 DEF r
  <2> QED
    BY <2>1, <2>2 DEF Fine
<1>4. ASSUME NEW i \in DOMAIN r PROVE r[i].uid <= last
  BY <1>1, <1>2, SMTT(20) DEF Fine, r
<1> QED
  BY <1>1, <1>3, <1>4 DEF Fine, r

\* What a table's messages are.
LEMMA FineUids ==
    ASSUME NEW last, NEW s, Fine(s, last)
    PROVE  /\ DOMAIN s = 1 .. Len(s) /\ Len(s) \in Nat
           /\ \A i \in DOMAIN s : /\ s[i].uid \in 1 .. MaxMsg /\ s[i].uid \in Nat
                                /\ s[i].id \in 1 .. MaxMsg
<1>1. DOMAIN s = 1 .. Len(s) /\ Len(s) \in Nat
  BY DEF Fine
<1>2. ASSUME NEW i \in DOMAIN s PROVE s[i] \in Message
  BY DEF Fine
<1>3. \A m \in Message : m.uid \in 1 .. MaxMsg /\ m.uid \in Nat /\ m.id \in 1 .. MaxMsg
  BY MsgAssumption DEF Message
<1> QED
  BY <1>1, <1>2, <1>3

LEMMA FineMore ==
    ASSUME NEW last \in Nat, NEW more \in Nat, last <= more, NEW s, Fine(s, last)
    PROVE  Fine(s, more)
<1>1. \A i \in DOMAIN s : s[i].uid \in Nat
  BY FineUids
<1> QED
  BY <1>1 DEF Fine

\* A message's place in a table is no more than its UID.
LEMMA PlaceAtMostUid ==
    ASSUME NEW last \in Nat, NEW s, Fine(s, last)
    PROVE  \A i \in DOMAIN s : i <= s[i].uid
<1> DEFINE T == {i \in DOMAIN s : s[i].uid < i}
<1>1. SUFFICES ASSUME T # {} PROVE FALSE
  BY FineUids
<1>2. T \subseteq Nat /\ DOMAIN s = 1 .. Len(s) /\ Len(s) \in Nat
  BY DEF Fine
<1>3. PICK n \in T : \A m \in T : ~ (<<m, n>> \in OpToRel(<, Nat))
  BY <1>1, <1>2, WFMin, NatLessThanWellFounded
<1>0. \A i \in DOMAIN s : s[i].uid \in 1 .. MaxMsg /\ s[i].uid \in Nat
  BY FineUids
<1>4. n \in DOMAIN s /\ s[n].uid < n /\ s[n].uid \in Nat /\ s[n].uid >= 1
  <2>1. n \in DOMAIN s /\ s[n].uid < n
    BY <1>3
  <2>2. \A k \in 1 .. MaxMsg : k >= 1
    BY MsgAssumption
  <2> QED
    BY <2>1, <2>2, <1>0
<1>5. n - 1 \in DOMAIN s /\ n - 1 < n
  BY <1>2, <1>4
<1>6. n - 1 \notin T
  BY <1>2, <1>3, <1>5 DEF OpToRel
<1>7. s[n - 1].uid >= n - 1 /\ s[n - 1].uid < s[n].uid /\ s[n - 1].uid \in Nat
  BY <1>5, <1>6, <1>4, <1>0 DEF Fine
<1> QED
  BY <1>4, <1>7, <1>2

LEMMA FineLength ==
    ASSUME NEW last \in Nat, NEW s, Fine(s, last)
    PROVE  Len(s) \in 0 .. last
<1>1. Len(s) \in Nat /\ DOMAIN s = 1 .. Len(s)
  BY DEF Fine
<1>2. CASE Len(s) = 0
  BY <1>2
<1>3. CASE Len(s) # 0
  <2>1. Len(s) \in DOMAIN s
    BY <1>1, <1>3
  <2>2. Len(s) <= s[Len(s)].uid /\ s[Len(s)].uid <= last /\ s[Len(s)].uid \in Nat
    BY <2>1, PlaceAtMostUid, FineUids DEF Fine
  <2> QED
    BY <1>1, <2>2
<1> QED
  BY <1>2, <1>3

\* indexOfUid(): everything up to the index is at or before the UID, and nothing
\* after it is.
LEMMA IndexOf ==
    ASSUME NEW last \in Nat, NEW s, Fine(s, last), NEW uid \in Nat
    PROVE  /\ IndexOfUid(s, uid) \in 0 .. Len(s)
           /\ \A i \in DOMAIN s : s[i].uid <= uid <=> i <= IndexOfUid(s, uid)
<1> DEFINE T == {0} \cup {i \in DOMAIN s : s[i].uid <= uid}
           x == IndexOfUid(s, uid)
<1>1. Len(s) \in Nat /\ DOMAIN s = 1 .. Len(s)
  BY DEF Fine
<1>2. T \in SUBSET (0 .. Len(s)) /\ T # {}
  BY <1>1
<1>3. Max(T) \in T /\ \A m \in T : m <= Max(T)
  BY <1>1, <1>2, GreatestNumber
<1>4. x = Max(T)
  BY DEF IndexOfUid
<1>5. x \in T /\ \A m \in T : m <= x
  BY <1>3, <1>4
<1>6. x \in 0 .. Len(s) /\ (x \in DOMAIN s => s[x].uid <= uid)
  <2>1. x \in 0 .. Len(s)
    BY <1>5, <1>2
  <2> HIDE DEF x
  <2> QED
    BY <2>1, <1>5, <1>1
<1> HIDE DEF x
<1>7. ASSUME NEW i \in DOMAIN s PROVE s[i].uid <= uid <=> i <= x
  <2>1. CASE s[i].uid <= uid
    BY <2>1, <1>5
  <2>2. CASE i <= x
    <3>1. x \in DOMAIN s
      BY <2>2, <1>1, <1>6
    <3>2. s[i].uid <= s[x].uid
      <4>1. s[i].uid \in Nat /\ s[x].uid \in Nat
        BY <3>1, FineUids
      <4>2. CASE i = x
        BY <4>1, <4>2
      <4>3. CASE i < x
        BY <4>1, <4>3, <3>1 DEF Fine
      <4> QED
        BY <4>2, <4>3, <2>2, <1>1, <1>6
    <3> QED
      BY <3>1, <3>2, <2>2, <1>6, FineUids
  <2> QED
    BY <2>1, <2>2
<1> QED
  BY <1>6, <1>7 DEF x

\* readCounts(): never more unread than there are messages.
LEMMA CountsRow ==
    ASSUME given \in 0 .. MaxMsg, NEW s, Fine(s, given), NEW uid \in Nat
    PROVE  ReadCounts(s, uid) \in Row
<1>1. given \in Nat
  BY MsgAssumption
<1>2. Len(s) \in 0 .. MaxMsg
  BY <1>1, FineLength, MsgAssumption
<1>3. IndexOfUid(s, uid) \in Nat
  BY <1>1, <1>2, IndexOf, MsgAssumption
<1> DEFINE index == IF uid = 0 THEN 0 ELSE IndexOfUid(s, uid)
<1>4. index \in Nat
  BY <1>3
<1>5. ReadCounts(s, uid) =
        [total |-> Len(s), unread |-> UnreadAfter(Len(s), index), error |-> FALSE]
  BY DEF ReadCounts
<1> HIDE DEF index
<1>6. UnreadAfter(Len(s), index) \in 0 .. MaxMsg /\ UnreadAfter(Len(s), index) <= Len(s)
  BY <1>2, <1>4, MsgAssumption DEF UnreadAfter
<1> QED
  BY <1>2, <1>5, <1>6 DEF Row, Entry

\* markRead(): the mark it writes has been given out, and the row holds.
LEMMA LandTyped ==
    ASSUME Typed, NEW a \in Area, NEW s, Fine(s, given), NEW n, NEW row \in Row,
           Land(a, s, n, row)
    PROVE  /\ mark' \in [Area -> 0 .. MaxMsg]
           /\ list' \in [Area -> Row]
           /\ covered' \in [Area -> SUBSET (1 .. MaxMsg)]
           /\ shown' \in 0 .. MaxMsg
<1>1. given \in Nat /\ given <= MaxMsg
  BY MsgAssumption DEF Typed
<1>2. /\ DOMAIN s = 1 .. Len(s) /\ Len(s) \in 0 .. MaxMsg
      /\ \A i \in DOMAIN s : s[i].uid \in 1 .. MaxMsg /\ s[i].id \in 1 .. MaxMsg
  BY <1>1, FineUids, FineLength, MsgAssumption
<1>3. CASE n \in DOMAIN s
  <2>1. mark' = [mark EXCEPT ![a] = s[n].uid] /\ shown' = n
    BY <1>3 DEF Land, MarkOf
  <2>2. list' = [list EXCEPT ![a] = [row EXCEPT !.unread = UnreadAfter(row.total, n)]]
    BY <1>3 DEF Land
  <2>3. [row EXCEPT !.unread = UnreadAfter(row.total, n)] \in Row
    <3>1. row \in Entry /\ row.total \in 0 .. MaxMsg /\ row.unread \in 0 .. MaxMsg
      BY DEF Row, Entry
    <3>2. n \in Nat
      BY <1>2, <1>3
    <3>3. UnreadAfter(row.total, n) \in 0 .. MaxMsg /\ UnreadAfter(row.total, n) <= row.total
      BY <3>1, <3>2, MsgAssumption DEF UnreadAfter
    <3> QED
      BY <3>1, <3>3 DEF Row, Entry
  <2>4. covered' = [covered EXCEPT ![a] = @ \cup
            {s[i].id : i \in 1 .. IndexOfUid(s, s[n].uid)}]
    BY <1>3 DEF Land, Cover
  <2>5. s[n].uid \in Nat
    BY <1>3, FineUids
  <2>6. IndexOfUid(s, s[n].uid) \in 0 .. Len(s)
    BY <1>1, <2>5, IndexOf
  <2>7. {s[i].id : i \in 1 .. IndexOfUid(s, s[n].uid)} \subseteq 1 .. MaxMsg
    BY <1>2, <2>6
  <2>8. covered' \in [Area -> SUBSET (1 .. MaxMsg)]
    BY <2>4, <2>7 DEF Typed
  <2>9. s[n].uid \in 0 .. MaxMsg /\ n \in 0 .. MaxMsg
    BY <1>2, <1>3, MsgAssumption
  <2> QED
    BY <2>1, <2>2, <2>3, <2>8, <2>9 DEF Typed
<1>4. CASE n \notin DOMAIN s
  BY <1>4, MsgAssumption DEF Land, Typed
<1> QED
  BY <1>3, <1>4

LEMMA FineAppended ==
    ASSUME given \in Nat, given < MaxMsg, NEW s, Fine(s, given)
    PROVE  Fine(Appended(s), given + 1) /\ NextUid(s) \in 1 .. given + 1
<1>1. DOMAIN s = 1 .. Len(s) /\ Len(s) \in Nat
  BY FineUids
<1>2. \A i \in DOMAIN s : s[i].uid \in Nat /\ s[i].uid <= given
  BY FineUids DEF Fine
<1>3. NextUid(s) \in 1 .. given + 1 /\ \A i \in DOMAIN s : s[i].uid < NextUid(s)
  <2>1. CASE Reused /\ s # <<>>
    <3>1. Len(s) \in DOMAIN s /\ s[Len(s)].uid \in Nat /\ s[Len(s)].uid <= given
      <4>1. Len(s) # 0
        BY <2>1 DEF Fine
      <4> QED
        BY <4>1, <1>1, <1>2
    <3>2. NextUid(s) = s[Len(s)].uid + 1
      BY <2>1 DEF NextUid, Last
    <3>3. \A i \in DOMAIN s : s[i].uid <= s[Len(s)].uid
      <4>1. TAKE i \in DOMAIN s
      <4>2. CASE i = Len(s)
        BY <4>2, <3>1
      <4>3. CASE i < Len(s)
        <5>1. s[i].uid < s[Len(s)].uid
          BY <4>3, <3>1 DEF Fine
        <5> QED
          BY <5>1, <1>2, <3>1
      <4> QED
        BY <4>2, <4>3, <1>1
    <3> QED
      BY <3>1, <3>2, <3>3, <1>2
  <2>2. CASE ~ (Reused /\ s # <<>>)
    <3>1. NextUid(s) = given + 1 \/ (s = <<>> /\ NextUid(s) = 1)
      BY <2>2 DEF NextUid
    <3> QED
      BY <3>1, <1>2
  <2> QED
    BY <2>1, <2>2
<1> DEFINE new == [uid |-> NextUid(s), id |-> given + 1]
           more == Append(s, new)
<1>4. new \in Message /\ new.uid = NextUid(s)
  BY <1>3, MsgAssumption DEF Message
<1> HIDE DEF new
<1>5. /\ more \in Seq(Message) /\ DOMAIN more = 1 .. Len(s) + 1
      /\ more[Len(s) + 1] = new
      /\ \A i \in 1 .. Len(s) : more[i] = s[i]
  BY <1>4, <1>1 DEF Fine
<1> HIDE DEF more
<1>6. ASSUME NEW i \in DOMAIN more, NEW j \in DOMAIN more, i < j
      PROVE  more[i].uid < more[j].uid
  <2>1. CASE j = Len(s) + 1
    BY <2>1, <1>1, <1>3, <1>4, <1>5, <1>6
  <2>2. CASE j # Len(s) + 1
    <3>1. i \in DOMAIN s /\ j \in DOMAIN s
      BY <2>2, <1>1, <1>5, <1>6
    <3> QED
      BY <3>1, <1>1, <1>5, <1>6 DEF Fine
  <2> QED
    BY <2>1, <2>2
<1>7. ASSUME NEW i \in DOMAIN more PROVE more[i].uid <= given + 1
  <2>1. CASE i = Len(s) + 1
    BY <2>1, <1>3, <1>4, <1>5
  <2>2. CASE i # Len(s) + 1
    <3>1. i \in DOMAIN s /\ more[i] = s[i]
      BY <2>2, <1>1, <1>5, <1>7
    <3> QED
      BY <3>1, <1>2
  <2> QED
    BY <2>1, <2>2
<1> QED
  BY <1>3, <1>5, <1>6, <1>7 DEF Fine, Appended, more, new

\* --------------------------------------------------------------------------
\* The invariant

\* An area that is written over holds what was written.
LEMMA Written ==
    ASSUME Typed, NEW a \in Area, NEW s \in Seq(Message),
           disk' = [disk EXCEPT ![a] = s]
    PROVE  /\ disk' \in [Area -> Seq(Message) \cup {Absent}]
           /\ Holds(a)' = s /\ disk'[a] = s /\ s # Absent
           /\ \A b \in Area \ {a} : Holds(b)' = Holds(b) /\ disk'[b] = disk[b]
  BY AbsentAssumption DEF Typed, Holds

\* So every area is left fine, and the open one is still there.
LEMMA WrittenTables ==
    ASSUME IInv, given' \in Nat, given <= given', NEW a \in Area, NEW s, Fine(s, given'),
           disk' = [disk EXCEPT ![a] = s]
    PROVE  /\ disk' \in [Area -> Seq(Message) \cup {Absent}]
           /\ \A b \in Area : Fine(Holds(b), given)'
           /\ \A b \in Area : b = a \/ disk[b] # Absent => disk'[b] # Absent
<1>1. s \in Seq(Message) /\ given \in Nat
  BY MsgAssumption DEF Fine, IInv, Typed
<1>2. /\ disk' \in [Area -> Seq(Message) \cup {Absent}]
      /\ Holds(a)' = s /\ disk'[a] = s /\ s # Absent
      /\ \A b \in Area \ {a} : Holds(b)' = Holds(b) /\ disk'[b] = disk[b]
  BY <1>1, Written DEF IInv
<1>3. \A b \in Area \ {a} : Fine(Holds(b), given')
  BY <1>1, FineMore DEF IInv, Tables
<1>4. ASSUME NEW b \in Area PROVE Fine(Holds(b)', given')
  BY <1>2, <1>3
<1>5. \A b \in Area : Fine(Holds(b), given)'
  BY <1>4 DEF Fine
<1> QED
  BY <1>2, <1>5

LEMMA Untouched ==
    ASSUME IInv, disk' = disk, given' = given
    PROVE  /\ disk' \in [Area -> Seq(Message) \cup {Absent}]
           /\ \A b \in Area : Fine(Holds(b), given)'
<1>1. \A b \in Area : Holds(b)' = Holds(b)
  BY DEF Holds
<1>2. \A b \in Area : Fine(Holds(b)', given')
  BY <1>1 DEF IInv, Tables
<1> QED
  BY <1>2 DEF Fine, IInv, Typed

LEMMA NoScanTyped ==
    /\ NoScan \in Scan /\ NoScan.loaded \in [Area -> Row]
    /\ Unread \in Row
  BY MsgAssumption DEF NoScan, Scan, Unread, Row, Entry

THEOREM Starts == Init => IInv
<1> SUFFICES ASSUME Init PROVE IInv
  OBVIOUS
<1>1. Typed
  <2>1. 0 \in 0 .. MaxMsg
    BY MsgAssumption
  <2>2. list \in [Area -> Row] /\ mark \in [Area -> 0 .. MaxMsg]
    BY <2>1, NoScanTyped DEF Init
  <2>3. /\ disk \in [Area -> Seq(Message) \cup {Absent}]
        /\ covered \in [Area -> SUBSET (1 .. MaxMsg)]
    BY DEF Init
  <2>4. scan \in Scan /\ scan.loaded \in [Area -> Row]
    BY NoScanTyped DEF Init
  <2> QED
    BY <2>1, <2>2, <2>3, <2>4 DEF Init, Typed
<1>2. \A a \in Area : Holds(a) = <<>>
  BY DEF Init, Holds
<1>3. Tables
  BY <1>2, FineEmpty, AreaAssumption DEF Init, Tables
<1> QED
  BY <1>1, <1>3 DEF IInv

LEMMA DeliverKeeps == ASSUME IInv, NEW a \in Area, Deliver(a) PROVE IInv'
<1>1. /\ given \in Nat /\ given' = given + 1 /\ given' \in 0 .. MaxMsg /\ given' \in Nat
      /\ given <= given'
  BY MsgAssumption DEF Deliver, IInv, Typed
<1>2. Fine(Holds(a), given) /\ given < MaxMsg
  BY DEF Deliver, IInv, Tables
<1>3. Fine(Appended(Holds(a)), given')
  BY <1>1, <1>2, FineAppended
<1>4. disk' = [disk EXCEPT ![a] = Appended(Holds(a))]
  BY DEF Deliver
<1>5. /\ disk' \in [Area -> Seq(Message) \cup {Absent}]
      /\ \A b \in Area : Fine(Holds(b), given)'
      /\ \A b \in Area : b = a \/ disk[b] # Absent => disk'[b] # Absent
  BY <1>1, <1>3, <1>4, WrittenTables, Zenon
<1>6. Fine(table', given')
  BY <1>1, FineMore DEF Deliver, IInv, Tables
<1>7. Typed'
  BY <1>1, <1>5 DEF Deliver, IInv, Typed
<1>8. Tables'
  BY <1>5, <1>6 DEF Deliver, IInv, Tables, Fine
<1> QED
  BY <1>7, <1>8 DEF IInv

\* What a packer leaves of an area.
LEMMA PackedTo ==
    ASSUME IInv, NEW a \in Area, Pack(a)
    PROVE  \E n \in DOMAIN Holds(a) : /\ disk' = [disk EXCEPT ![a] = RemoveAt(Holds(a), n)]
                                      /\ Fine(RemoveAt(Holds(a), n), given)
<1>1. PICK n \in DOMAIN Holds(a) : disk' = [disk EXCEPT ![a] = RemoveAt(@, n)]
  BY DEF Pack
<1>2. Holds(a) = disk[a]
  <2>1. CASE disk[a] = Absent
    BY <2>1, <1>1 DEF Holds
  <2> QED
    BY <2>1 DEF Holds
<1>3. disk' = [disk EXCEPT ![a] = RemoveAt(Holds(a), n)]
  BY <1>1, <1>2 DEF IInv, Typed
<1>4. Fine(RemoveAt(Holds(a), n), given)
  BY FineRemoved, MsgAssumption DEF IInv, Tables, Typed
<1> QED
  BY <1>3, <1>4

LEMMA PackKeeps == ASSUME IInv, NEW a \in Area, Pack(a) PROVE IInv'
<1>1. given' = given /\ given' \in Nat /\ given <= given'
  BY MsgAssumption DEF Pack, IInv, Typed
<1>2. PICK n \in DOMAIN Holds(a) :
        disk' = [disk EXCEPT ![a] = RemoveAt(Holds(a), n)] /\ Fine(RemoveAt(Holds(a), n), given)
  BY PackedTo
<1>3. /\ disk' \in [Area -> Seq(Message) \cup {Absent}]
      /\ \A b \in Area : Fine(Holds(b), given)'
      /\ \A b \in Area : b = a \/ disk[b] # Absent => disk'[b] # Absent
  <2>1. Fine(RemoveAt(Holds(a), n), given')
    BY <1>1, <1>2
  <2> QED
    BY <1>1, <1>2, <2>1, WrittenTables, Zenon
<1>4. packed' \in BOOLEAN
  BY DEF Pack
<1>5. Typed'
  BY <1>3, <1>4 DEF Pack, IInv, Typed
<1>6. Tables'
  BY <1>3 DEF Pack, IInv, Tables, Fine
<1> QED
  BY <1>5, <1>6 DEF IInv

\* A step of a rescan, and one that only closes what is open.
LEMMA RescanKeeps ==
    ASSUME IInv, Rescan \/ ConfigFails \/ (\E a \in Area : ScanArea(a))
    PROVE  IInv'
<1>1. /\ disk' = disk /\ given' = given /\ mark' = mark /\ current' = current
      /\ table' = table /\ shown' = shown /\ covered' = covered /\ packed' = packed
  BY DEF Rescan, ConfigFails, ScanArea
<1>2. /\ disk' \in [Area -> Seq(Message) \cup {Absent}]
      /\ \A b \in Area : Fine(Holds(b), given)'
  BY <1>1, Untouched
<1>3. scan' \in Scan /\ scan'.loaded \in [Area -> Row] /\ list' \in [Area -> Row]
  <2>1. CASE Rescan
    BY <2>1, NoScanTyped DEF Rescan, NoScan, Scan, IInv, Typed
  <2>2. CASE ConfigFails
    BY <2>2, NoScanTyped DEF ConfigFails, NoScan, Scan, IInv, Typed
  <2>3. ASSUME NEW a \in Area, ScanArea(a) 
      PROVE  scan' \in Scan /\ scan'.loaded \in [Area -> Row] /\ list' \in [Area -> Row]
    <3>1. PICK opens \in BOOLEAN :
            /\ opens => disk[a] # Absent
            /\ LET entry == IF opens THEN ReadCounts(disk[a], mark[a]) ELSE Unread
                   more == [scan EXCEPT !.left = @ \ {a}, !.loaded[a] = entry]
               IN  IF more.left # {}
                   THEN scan' = more /\ list' = list
                   ELSE /\ list' = more.loaded
                        /\ scan' = IF more.back = NoArea THEN NoScan ELSE more
      BY <2>3 DEF ScanArea
    <3> DEFINE entry == IF opens THEN ReadCounts(disk[a], mark[a]) ELSE Unread
               more == [scan EXCEPT !.left = @ \ {a}, !.loaded[a] = entry]
    <3>2. entry \in Row
      <4>1. CASE opens
        <5>1. disk[a] = Holds(a) /\ mark[a] \in Nat
          BY <3>1, <4>1, MsgAssumption DEF Holds, IInv, Typed
        <5>2. Fine(disk[a], given)
          BY <5>1 DEF IInv, Tables
        <5>3. ReadCounts(disk[a], mark[a]) \in Row
          BY <5>1, <5>2, CountsRow DEF IInv, Typed
        <5> QED
          BY <5>3, <4>1
      <4>2. CASE ~ opens
        BY <4>2, NoScanTyped
      <4> QED
        BY <4>1, <4>2
    <3> HIDE DEF entry
    <3>3. more \in Scan /\ more.loaded \in [Area -> Row]
      <4>1. entry \in Entry /\ scan \in Scan /\ scan.loaded \in [Area -> Row]
        BY <3>2 DEF Row, IInv, Typed
      <4> QED
        BY <4>1, <3>2 DEF Scan
    <3>4. \/ scan' = more /\ list' = list
          \/ list' = more.loaded /\ (scan' = NoScan \/ scan' = more)
      BY <3>1 DEF entry
    <3> HIDE DEF more
    <3> QED
      BY <3>3, <3>4, NoScanTyped DEF IInv, Typed
  <2> QED
    BY <2>1, <2>2, <2>3
<1>4. Typed'
  BY <1>1, <1>2, <1>3 DEF IInv, Typed
<1>5. Tables'
  BY <1>1, <1>2 DEF IInv, Tables, Fine
<1> QED
  BY <1>4, <1>5 DEF IInv

\* startingMessage() and landOn() answer a message there is, if there is any.
LEMMA StartThere ==
    ASSUME NEW last \in Nat, NEW s, Fine(s, last), NEW uid \in Nat
    PROVE  StartingMessage(s, uid) = 0 \/ StartingMessage(s, uid) \in DOMAIN s
<1>1. /\ DOMAIN s = 1 .. Len(s) /\ Len(s) \in Nat
      /\ s = <<>> \/ Len(s) # 0
  BY DEF Fine
<1>2. IndexOfUid(s, uid) \in 0 .. Len(s)
  BY IndexOf
<1> QED
  BY <1>1, <1>2 DEF StartingMessage

LEMMA BiggerOf ==
    ASSUME NEW m \in Nat
    PROVE  Max({1, m}) = IF m = 0 THEN 1 ELSE m
<1> DEFINE x == IF m = 0 THEN 1 ELSE m
<1>1. \A y \in {1, m} : (\A z \in {1, m} : y >= z) <=> y = x
  OBVIOUS
<1>2. x \in {1, m}
  OBVIOUS
<1> HIDE DEF x
<1>3. Max({1, m}) = x
  BY <1>1, <1>2 DEF Max
<1> QED
  BY <1>3 DEF x

LEMMA SmallerOf ==
    ASSUME NEW m \in Nat, NEW n \in Nat
    PROVE  Min({m, n}) = IF m <= n THEN m ELSE n
<1> DEFINE x == IF m <= n THEN m ELSE n
<1>1. \A y \in {m, n} : (\A z \in {m, n} : y =< z) <=> y = x
  OBVIOUS
<1>2. x \in {m, n}
  OBVIOUS
<1> HIDE DEF x
<1>3. Min({m, n}) = x
  BY <1>1, <1>2 DEF Min
<1> QED
  BY <1>3 DEF x

LEMMA LandThere ==
    ASSUME NEW last \in Nat, NEW s, Fine(s, last), s # <<>>,
           NEW was \in Scan, NEW uid \in Nat
    PROVE  LandOn(s, was, uid) \in DOMAIN s
<1>1. DOMAIN s = 1 .. Len(s) /\ Len(s) \in Nat /\ Len(s) # 0
  BY DEF Fine
<1>2. was.uid \in Nat /\ was.number \in Nat
  BY MsgAssumption DEF Scan
<1>3. CASE was.uid # 0
  <2>1. IndexOfUid(s, was.uid) \in 0 .. Len(s)
    BY <1>2, IndexOf
  <2>2. LandOn(s, was, uid) = Max({1, IndexOfUid(s, was.uid)})
    BY <1>3 DEF LandOn
  <2>3. IndexOfUid(s, was.uid) \in Nat
    BY <2>1, <1>1
  <2>4. LandOn(s, was, uid) =
            IF IndexOfUid(s, was.uid) = 0 THEN 1 ELSE IndexOfUid(s, was.uid)
    BY <2>2, <2>3, BiggerOf
  <2> QED
    BY <1>1, <2>1, <2>4
<1>4. CASE was.uid = 0 /\ was.number # 0
  <2>1. LandOn(s, was, uid) = Min({was.number, Len(s)})
    BY <1>4 DEF LandOn
  <2>2. LandOn(s, was, uid) = IF was.number <= Len(s) THEN was.number ELSE Len(s)
    BY <2>1, <1>1, <1>2, SmallerOf
  <2> QED
    BY <1>1, <1>2, <1>4, <2>2
<1>5. CASE was.uid = 0 /\ was.number = 0
  <2>1. LandOn(s, was, uid) = Max({1, StartingMessage(s, uid)})
    BY <1>5 DEF LandOn
  <2>2. StartingMessage(s, uid) \in 0 .. Len(s)
    BY <1>1, StartThere
  <2>3. LandOn(s, was, uid) =
            IF StartingMessage(s, uid) = 0 THEN 1 ELSE StartingMessage(s, uid)
    BY <2>1, <2>2, <1>1, BiggerOf
  <2> QED
    BY <1>1, <2>2, <2>3
<1> QED
  BY <1>3, <1>4, <1>5

\* An area that is opened and landed in, by openArea() and refresh() alike.
LEMMA OpenedKeeps ==
    ASSUME IInv, NEW a \in Area, NEW n, NEW row \in Row,
           table' = Holds(a), disk' = [disk EXCEPT ![a] = Holds(a)], current' = a,
           Land(a, table', n, row), packed' = FALSE, given' = given, scan' = NoScan
    PROVE  IInv'
<1>1. given' \in Nat /\ given <= given'
  BY MsgAssumption DEF IInv, Typed
<1>2. Fine(table', given) /\ Fine(Holds(a), given')
  BY DEF IInv, Tables
<1>3. /\ mark' \in [Area -> 0 .. MaxMsg]
      /\ list' \in [Area -> Row]
      /\ covered' \in [Area -> SUBSET (1 .. MaxMsg)]
      /\ shown' \in 0 .. MaxMsg
  BY <1>2, LandTyped, Zenon DEF IInv
<1>4. /\ disk' \in [Area -> Seq(Message) \cup {Absent}]
      /\ \A b \in Area : Fine(Holds(b), given)'
      /\ \A b \in Area : b = a \/ disk[b] # Absent => disk'[b] # Absent
  BY <1>1, <1>2, WrittenTables, Zenon
<1>5. Typed'
  BY <1>3, <1>4, NoScanTyped DEF IInv, Typed
<1>6. Tables'
  BY <1>2, <1>4 DEF IInv, Tables, Fine
<1> QED
  BY <1>5, <1>6 DEF IInv

\* What enterArea() lands on, and with which row.
LEMMA Entered ==
    ASSUME IInv, NEW a \in Area, Enter(a)
    PROVE  /\ table' = Holds(a) /\ Fine(table', given) /\ scan = NoScan /\ mark[a] \in Nat
           /\ \E row \in Row : Land(a, table', StartingMessage(table', mark[a]), row)
<1>1. /\ table' = Holds(a) /\ scan = NoScan
      /\ LET start == StartingMessage(table', mark[a])
             landed == IF start = 0 THEN mark[a] ELSE table'[start].uid
             row == IF list[a].error THEN ReadCounts(table', landed) ELSE list[a]
         IN  Land(a, table', start, row)
  BY DEF Enter, AtList, Idle
<1>2. Fine(table', given) /\ mark[a] \in Nat /\ given \in Nat /\ list[a] \in Row
  BY <1>1, MsgAssumption DEF IInv, Tables, Typed
<1> DEFINE start == StartingMessage(table', mark[a])
           landed == IF start = 0 THEN mark[a] ELSE table'[start].uid
<1>3. landed \in Nat
  <2>1. start = 0 \/ start \in DOMAIN table'
    BY <1>2, StartThere
  <2>2. \A i \in DOMAIN table' : table'[i].uid \in Nat
    BY <1>2, FineUids
  <2> QED
    BY <2>1, <2>2, <1>2
<1> HIDE DEF landed
<1>4. ReadCounts(table', landed) \in Row
  BY <1>2, <1>3, CountsRow DEF IInv, Typed
<1>5. Land(a, table', start,
           IF list[a].error THEN ReadCounts(table', landed) ELSE list[a])
  BY <1>1 DEF landed
<1> QED
  BY <1>1, <1>2, <1>4, <1>5

LEMMA EnterKeeps == ASSUME IInv, NEW a \in Area, Enter(a) PROVE IInv'
<1>1. PICK row \in Row : Land(a, table', StartingMessage(table', mark[a]), row)
  BY Entered
<1>2. table' = Holds(a) /\ scan = NoScan
  BY Entered
<1>3. /\ disk' = [disk EXCEPT ![a] = Holds(a)] /\ current' = a /\ packed' = FALSE
      /\ given' = given /\ scan' = NoScan
  BY <1>2 DEF Enter
<1> QED
  BY <1>1, <1>2, <1>3, OpenedKeeps

\* What refresh() lands on, and with which row.
LEMMA Reopened ==
    ASSUME IInv, Reopen
    PROVE  /\ scan.back \in Area /\ current' = scan.back
           /\ table' = Holds(scan.back) /\ Fine(table', given)
           /\ mark[scan.back] \in Nat
           /\ \E row \in Row :
                Land(scan.back, table', LandOn(table', scan, mark[scan.back]), row)
<1> DEFINE a == scan.back
<1>1. a \in Area
  BY DEF Reopen, IInv, Typed, Scan
<1>2. /\ table' = Holds(a) /\ current' = a
      /\ LET at == LandOn(table', scan, mark[a])
             landed == IF table' = <<>> THEN mark[a] ELSE table'[at].uid
         IN  Land(a, table', at, ReadCounts(table', landed))
  BY DEF Reopen
<1>3. Fine(table', given) /\ mark[a] \in Nat /\ given \in Nat /\ scan \in Scan
  BY <1>1, <1>2, MsgAssumption DEF IInv, Tables, Typed
<1> HIDE DEF a
<1> DEFINE at == LandOn(table', scan, mark[a])
           landed == IF table' = <<>> THEN mark[a] ELSE table'[at].uid
<1>4. landed \in Nat
  <2>1. table' # <<>> => at \in DOMAIN table'
    BY <1>3, LandThere
  <2>2. \A i \in DOMAIN table' : table'[i].uid \in Nat
    BY <1>3, FineUids
  <2> QED
    BY <2>1, <2>2, <1>3
<1> HIDE DEF landed
<1>5. ReadCounts(table', landed) \in Row
  BY <1>3, <1>4, CountsRow DEF IInv, Typed
<1>6. Land(a, table', at, ReadCounts(table', landed))
  BY <1>2 DEF landed
<1> QED
  BY <1>1, <1>2, <1>3, <1>5, <1>6 DEF a

LEMMA ReopenKeeps == ASSUME IInv, Reopen PROVE IInv'
<1>1. /\ scan.back \in Area /\ current' = scan.back
      /\ table' = Holds(scan.back)
  BY Reopened
<1>2. PICK row \in Row :
        Land(scan.back, table', LandOn(table', scan, mark[scan.back]), row)
  BY Reopened
<1>3. /\ disk' = [disk EXCEPT ![scan.back] = Holds(scan.back)] /\ packed' = FALSE
      /\ given' = given /\ scan' = NoScan
  BY DEF Reopen
<1> QED
  BY <1>1, <1>2, <1>3, OpenedKeeps

LEMMA ShowKeeps == ASSUME IInv, Show PROVE IInv'
<1>1. PICK n \in DOMAIN table : Land(current, table, n, list[current])
  BY DEF Show
<1>2. current \in Area /\ list[current] \in Row /\ Fine(table, given)
  BY DEF Show, Reading, IInv, Typed, Tables
<1>3. /\ mark' \in [Area -> 0 .. MaxMsg]
      /\ list' \in [Area -> Row]
      /\ covered' \in [Area -> SUBSET (1 .. MaxMsg)]
      /\ shown' \in 0 .. MaxMsg
  BY <1>1, <1>2, LandTyped, Zenon DEF IInv
<1>4. /\ disk' = disk /\ given' = given /\ current' = current /\ table' = table
      /\ scan' = scan /\ packed' = packed
  BY DEF Show
<1>5. /\ disk' \in [Area -> Seq(Message) \cup {Absent}]
      /\ \A b \in Area : Fine(Holds(b), given)'
  BY <1>4, Untouched
<1>6. Typed'
  BY <1>3, <1>4, <1>5 DEF IInv, Typed
<1>7. Tables'
  BY <1>4, <1>5 DEF IInv, Tables, Fine
<1> QED
  BY <1>6, <1>7 DEF IInv

\* The row of the open area, as its table gives it.
LEMMA RefreshTyped ==
    ASSUME IInv, current \in Area, NEW s, NEW last \in 0 .. MaxMsg, Fine(s, last),
           NEW uid \in Nat, list' = [list EXCEPT ![current] = ReadCounts(s, uid)]
    PROVE  list' \in [Area -> Row]
<1>1. Len(s) \in 0 .. MaxMsg /\ last \in Nat
  BY FineLength, MsgAssumption
<1>2. IndexOfUid(s, uid) \in Nat
  BY <1>1, IndexOf, MsgAssumption, SMTT(20)
<1> DEFINE index == IF uid = 0 THEN 0 ELSE IndexOfUid(s, uid)
<1>3. index \in Nat
  BY <1>2
<1>4. ReadCounts(s, uid) =
        [total |-> Len(s), unread |-> UnreadAfter(Len(s), index), error |-> FALSE]
  BY DEF ReadCounts
<1> HIDE DEF index
<1>5. UnreadAfter(Len(s), index) \in 0 .. MaxMsg /\ UnreadAfter(Len(s), index) <= Len(s)
  BY <1>1, <1>3, MsgAssumption DEF UnreadAfter
<1>6. ReadCounts(s, uid) \in Row
  BY <1>1, <1>4, <1>5 DEF Row, Entry
<1> QED
  BY <1>6 DEF IInv, Typed

\* The area is left for the list, or for another program.
LEMMA LeftKeeps ==
    ASSUME IInv, Left, disk' = disk, given' = given, covered' = covered,
           packed' = packed, mark' \in [Area -> 0 .. MaxMsg], list' \in [Area -> Row],
           scan' \in Scan, scan'.loaded \in [Area -> Row]
    PROVE  IInv'
<1>1. /\ disk' \in [Area -> Seq(Message) \cup {Absent}]
      /\ \A b \in Area : Fine(Holds(b), given)'
  BY Untouched
<1>2. 0 \in 0 .. MaxMsg /\ given' \in Nat
  BY MsgAssumption DEF IInv, Typed
<1>3. Typed'
  BY <1>1, <1>2 DEF IInv, Typed, Left
<1>4. Fine(table', given')
  BY <1>2, FineEmpty DEF Left
<1>5. Tables'
  BY <1>1, <1>4, AreaAssumption DEF Tables, Left, Fine
<1> QED
  BY <1>3, <1>5 DEF IInv

LEMMA LeavingKeeps ==
    ASSUME IInv, Leave \/ WalkOffFront
    PROVE  IInv'
<1>1. current \in Area /\ Fine(table, given) /\ given \in 0 .. MaxMsg
  BY DEF Leave, WalkOffFront, Reading, IInv, Typed, Tables
<1>2. 0 \in Nat /\ 0 \in 0 .. MaxMsg /\ mark[current] \in Nat
  BY <1>1, MsgAssumption DEF IInv, Typed
<1>3. \E uid \in Nat : list' = [list EXCEPT ![current] = ReadCounts(table, uid)]
  BY <1>2 DEF Leave, WalkOffFront, RefreshCurrent
<1>4. list' \in [Area -> Row]
  BY <1>1, <1>3, RefreshTyped, Zenon
<1>5. mark' \in [Area -> 0 .. MaxMsg]
  BY <1>2 DEF Leave, WalkOffFront, IInv, Typed
<1>6. Left /\ disk' = disk /\ given' = given /\ covered' = covered /\ packed' = packed
  BY DEF Leave, WalkOffFront
<1>7. scan' \in Scan /\ scan'.loaded \in [Area -> Row]
  BY DEF Leave, WalkOffFront, IInv, Typed
<1> QED
  BY <1>4, <1>5, <1>6, <1>7, LeftKeeps

LEMMA ComeBackKeeps == ASSUME IInv, ComeBack PROVE IInv'
<1>1. UidOf(table, shown) \in 0 .. MaxMsg
  <2>1. \A i \in DOMAIN table : table[i].uid \in 1 .. MaxMsg
    BY FineUids DEF IInv, Tables
  <2> QED
    BY <2>1, MsgAssumption DEF UidOf
<1>2. current \in Area /\ shown \in 0 .. MaxMsg
  BY DEF ComeBack, Reading, IInv, Typed
<1>3. PICK rescan \in RescanOnReturn :
        scan' = [NoScan EXCEPT
            !.left = IF rescan THEN Area ELSE {},
            !.back = current,
            !.number = shown,
            !.uid = UidOf(table, shown)]
  BY DEF ComeBack
<1>4. scan' \in Scan /\ scan'.loaded \in [Area -> Row]
  <2>1. NoScan.loaded \in [Area -> Entry] /\ NoScan.loaded \in [Area -> Row]
    BY NoScanTyped DEF Scan
  <2>2. scan' = [left |-> IF rescan THEN Area ELSE {}, loaded |-> NoScan.loaded,
                 back |-> current, uid |-> UidOf(table, shown), number |-> shown]
    BY <1>3 DEF NoScan
  <2> QED
    BY <2>1, <2>2, <1>1, <1>2 DEF Scan
<1>5. Left /\ disk' = disk /\ given' = given /\ covered' = covered /\ packed' = packed
  BY DEF ComeBack
<1>6. mark' \in [Area -> 0 .. MaxMsg] /\ list' \in [Area -> Row]
  BY DEF ComeBack, IInv, Typed
<1> QED
  BY <1>4, <1>5, <1>6, LeftKeeps

LEMMA ReopenFailsKeeps == ASSUME IInv, ReopenFails PROVE IInv'
<1>1. disk' = disk /\ given' = given /\ scan' = NoScan /\ table' = table /\ current' = current
  BY DEF ReopenFails
<1>2. /\ disk' \in [Area -> Seq(Message) \cup {Absent}]
      /\ \A b \in Area : Fine(Holds(b), given)'
  BY <1>1, Untouched
<1>3. Typed'
  BY <1>1, <1>2, NoScanTyped DEF ReopenFails, IInv, Typed
<1>4. Tables'
  BY <1>1, <1>2 DEF IInv, Tables, Fine
<1> QED
  BY <1>3, <1>4 DEF IInv

\* What a write or a removal through the open base leaves.
LEMMA DeletedTo ==
    ASSUME IInv, Delete
    PROVE  /\ current \in Area /\ table' = RemoveAt(disk[current], shown)
           /\ disk' = [disk EXCEPT ![current] = table'] /\ Fine(table', given)
           /\ \E row \in Row : Land(current, table', Min({shown, Len(table')}), row)
<1>1. /\ current \in Area /\ table' = RemoveAt(disk[current], shown)
      /\ disk' = [disk EXCEPT ![current] = table'] /\ shown \in DOMAIN disk[current]
      /\ Land(current, table', Min({shown, Len(table')}),
              ReadCounts(table', mark[current]))
  BY DEF Delete, Reading, IInv, Typed
<1>2. given \in Nat /\ disk[current] # Absent /\ mark[current] \in Nat
  BY <1>1, MsgAssumption DEF IInv, Typed, Tables
<1>3. Fine(disk[current], given)
  BY <1>1, <1>2 DEF IInv, Tables, Holds
<1>4. Fine(table', given)
  BY <1>1, <1>2, <1>3, FineRemoved
<1>5. ReadCounts(table', mark[current]) \in Row
  BY <1>2, <1>4, CountsRow DEF IInv, Typed
<1> QED
  BY <1>1, <1>4, <1>5

LEMMA DeleteKeeps == ASSUME IInv, Delete PROVE IInv'
<1>1. /\ current \in Area /\ disk' = [disk EXCEPT ![current] = table'] /\ Fine(table', given)
      /\ given' = given /\ current' = current /\ scan' = scan /\ packed' = packed
  BY DeletedTo DEF Delete
<1>2. PICK row \in Row : Land(current, table', Min({shown, Len(table')}), row)
  BY DeletedTo
<1>3. /\ mark' \in [Area -> 0 .. MaxMsg]
      /\ list' \in [Area -> Row]
      /\ covered' \in [Area -> SUBSET (1 .. MaxMsg)]
      /\ shown' \in 0 .. MaxMsg
  BY <1>1, <1>2, LandTyped, Zenon DEF IInv
<1>4. given' \in Nat /\ given <= given' /\ Fine(table', given')
  BY <1>1, MsgAssumption DEF IInv, Typed
<1>5. /\ disk' \in [Area -> Seq(Message) \cup {Absent}]
      /\ \A b \in Area : Fine(Holds(b), given)'
      /\ \A b \in Area : b = current \/ disk[b] # Absent => disk'[b] # Absent
  BY <1>1, <1>4, WrittenTables, Zenon
<1>6. Typed'
  BY <1>1, <1>3, <1>5 DEF IInv, Typed
<1>7. Tables'
  BY <1>1, <1>4, <1>5 DEF IInv, Tables, Fine
<1> QED
  BY <1>6, <1>7 DEF IInv

LEMMA WrittenTo ==
    ASSUME IInv, Write
    PROVE  /\ current \in Area /\ table' = Appended(disk[current])
           /\ Fine(disk[current], given)
           /\ disk' = [disk EXCEPT ![current] = table'] /\ Fine(table', given')
           /\ given' = given + 1 /\ given' \in 0 .. MaxMsg
           /\ given' \in Nat /\ given <= given'
<1>1. /\ current \in Area /\ table' = Appended(disk[current])
      /\ disk' = [disk EXCEPT ![current] = table'] /\ given < MaxMsg /\ given' = given + 1
  BY DEF Write, Reading, IInv, Typed
<1>2. /\ given \in Nat /\ disk[current] # Absent /\ given' \in 0 .. MaxMsg
      /\ given' \in Nat /\ given <= given'
  BY <1>1, MsgAssumption DEF IInv, Typed, Tables
<1>3. Fine(disk[current], given)
  BY <1>1, <1>2 DEF IInv, Tables, Holds
<1>4. Fine(table', given')
  BY <1>1, <1>2, <1>3, FineAppended
<1> QED
  BY <1>1, <1>2, <1>3, <1>4

LEMMA WriteKeeps == ASSUME IInv, Write PROVE IInv'
<1>1. /\ current \in Area /\ disk' = [disk EXCEPT ![current] = table'] /\ Fine(table', given')
      /\ given' \in 0 .. MaxMsg /\ given' \in Nat /\ given <= given'
  BY WrittenTo
<1>2. /\ disk' \in [Area -> Seq(Message) \cup {Absent}]
      /\ \A b \in Area : Fine(Holds(b), given)'
      /\ \A b \in Area : b = current \/ disk[b] # Absent => disk'[b] # Absent
  BY <1>1, WrittenTables, Zenon
<1>3. mark[current] \in Nat
  BY <1>1, MsgAssumption DEF IInv, Typed
<1>4. list' = [list EXCEPT ![current] = ReadCounts(table', mark[current])]
  BY DEF Write, RefreshCurrent
<1>5. list' \in [Area -> Row]
  BY <1>1, <1>3, <1>4, RefreshTyped, Zenon
<1>6. Typed'
  BY <1>1, <1>2, <1>5 DEF Write, IInv, Typed
<1>7. Tables'
  BY <1>1, <1>2 DEF Write, IInv, Tables, Fine
<1> QED
  BY <1>6, <1>7 DEF IInv

\* The newest message there is, as catchUp() takes it.
LEMMA CaughtUp ==
    ASSUME IInv, NEW a \in Area, CatchUp(a)
    PROVE  /\ disk[a] = Holds(a) /\ Fine(disk[a], given)
           /\ Len(disk[a]) \in DOMAIN disk[a]
           /\ Last(disk[a]) = disk[a][Len(disk[a])]
           /\ Last(disk[a]).uid \in Nat /\ Last(disk[a]).uid \in 1 .. MaxMsg
<1>1. disk[a] = Holds(a) /\ disk[a] # <<>>
  BY DEF CatchUp, Holds
<1>2. Fine(disk[a], given)
  BY <1>1 DEF IInv, Tables
<1>3. Len(disk[a]) \in DOMAIN disk[a]
  BY <1>1, <1>2 DEF Fine
<1>4. Last(disk[a]) = disk[a][Len(disk[a])]
  BY DEF Last
<1>5. \A i \in DOMAIN disk[a] : disk[a][i].uid \in Nat /\ disk[a][i].uid \in 1 .. MaxMsg
  BY <1>2, FineUids
<1> QED
  BY <1>1, <1>2, <1>3, <1>4, <1>5

LEMMA CatchUpKeeps == ASSUME IInv, NEW a \in Area, CatchUp(a) PROVE IInv'
<1> DEFINE uid == Last(disk[a]).uid
<1>1. /\ mark' = [mark EXCEPT ![a] = uid]
      /\ list' = [list EXCEPT ![a].unread = 0]
      /\ covered' = [covered EXCEPT ![a] = @ \cup
            {disk[a][i].id : i \in 1 .. IndexOfUid(disk[a], uid)}]
      /\ disk' = disk /\ given' = given /\ table' = table /\ current' = current
      /\ shown' = shown /\ scan' = scan /\ packed' = packed
  BY DEF CatchUp, Cover
<1>2. Fine(disk[a], given) /\ uid \in Nat /\ uid \in 0 .. MaxMsg /\ given \in Nat
  BY CaughtUp, MsgAssumption DEF IInv, Typed
<1> HIDE DEF uid
<1>3. IndexOfUid(disk[a], uid) \in 0 .. Len(disk[a])
  BY <1>2, IndexOf
<1>4. /\ DOMAIN disk[a] = 1 .. Len(disk[a]) /\ Len(disk[a]) \in Nat
      /\ \A i \in DOMAIN disk[a] : disk[a][i].id \in 1 .. MaxMsg
  BY <1>2, FineUids
<1>5. {disk[a][i].id : i \in 1 .. IndexOfUid(disk[a], uid)} \subseteq 1 .. MaxMsg
  BY <1>3, <1>4
<1>6. covered' \in [Area -> SUBSET (1 .. MaxMsg)]
  BY <1>1, <1>5 DEF IInv, Typed
<1>7. list' \in [Area -> Row]
  <2>1. list[a] \in Entry
    BY DEF IInv, Typed, Row
  <2>2. [list[a] EXCEPT !.unread = 0] \in Row
    BY <2>1, MsgAssumption DEF Row, Entry
  <2> QED
    BY <1>1, <2>2 DEF IInv, Typed
<1>8. /\ disk' \in [Area -> Seq(Message) \cup {Absent}]
      /\ \A b \in Area : Fine(Holds(b), given)'
  BY <1>1, Untouched
<1>9. Typed'
  BY <1>1, <1>2, <1>6, <1>7, <1>8 DEF IInv, Typed
<1>10. Tables'
  BY <1>1, <1>8 DEF IInv, Tables, Fine
<1> QED
  BY <1>9, <1>10 DEF IInv

THEOREM Keeps == IInv /\ [Next]_vars => IInv'
<1> SUFFICES ASSUME IInv, [Next]_vars PROVE IInv'
  OBVIOUS
<1>1. ASSUME NEW a \in Area, Deliver(a) \/ Pack(a) \/ ScanArea(a) \/ Enter(a) \/ CatchUp(a)
      PROVE  IInv'
  BY <1>1, DeliverKeeps, PackKeeps, RescanKeeps, EnterKeeps, CatchUpKeeps
<1>2. CASE Rescan \/ ConfigFails
  BY <1>2, RescanKeeps
<1>3. CASE Show \/ Leave \/ WalkOffFront \/ Delete \/ Write
  BY <1>3, ShowKeeps, LeavingKeeps, DeleteKeeps, WriteKeeps
<1>4. CASE ComeBack \/ Reopen \/ ReopenFails
  BY <1>4, ComeBackKeeps, ReopenKeeps, ReopenFailsKeeps
<1>5. CASE UNCHANGED vars
  <2>1. \A b \in Area : Holds(b)' = Holds(b)
    BY <1>5 DEF vars, Holds
  <2> QED
    BY <1>5, <2>1 DEF vars, IInv, Typed, Tables, Fine
<1> QED
  BY <1>1, <1>2, <1>3, <1>4, <1>5 DEF Next

THEOREM Always == Spec => []IInv
  BY Starts, Keeps, PTL DEF Spec

\* --------------------------------------------------------------------------
\* The properties

LEMMA RowsHold == IInv => TypeOK
<1> SUFFICES ASSUME IInv PROVE TypeOK
  OBVIOUS
<1>1. \A r \in Row : r \in Entry /\ r.unread <= r.total
  BY DEF Row
<1>2. list \in [Area -> Entry] /\ \A a \in Area : list[a].unread <= list[a].total
  BY <1>1 DEF IInv, Typed
<1> QED
  BY <1>2 DEF IInv, Typed, Tables, Fine, TypeOK

\* The rows, the marks and what a rescan remembers keep their ranges: a row
\* never counts more unread than there are (readCounts(), updateUnread()).
THEOREM RowsStayRight == Spec => []TypeOK
  BY Always, RowsHold, PTL

\* Only enterArea() leads from the list into an area.
LEMMA FromList ==
    ASSUME IInv, Next, AtList, NEW a \in Area, current' = a
    PROVE  Enter(a)
<1>1. current = NoArea /\ scan = NoScan /\ scan.back = NoArea /\ current' # current
  BY AreaAssumption DEF AtList, Idle, NoScan
<1>2. ~ Rescan /\ ~ ConfigFails /\ ~ ReopenFails
  BY <1>1 DEF Rescan, ConfigFails, ReopenFails
<1>3. ~ Show /\ ~ Leave /\ ~ WalkOffFront /\ ~ Delete /\ ~ Write /\ ~ ComeBack
  BY <1>1 DEF Show, Leave, WalkOffFront, Delete, Write, ComeBack, Reading
<1>4. ~ Reopen
  BY <1>1 DEF Reopen
<1>5. \A b \in Area : ~ Deliver(b) /\ ~ Pack(b) /\ ~ ScanArea(b) /\ ~ CatchUp(b)
  BY <1>1 DEF Deliver, Pack, ScanArea, CatchUp
<1>6. PICK b \in Area : Enter(b)
  BY <1>2, <1>3, <1>4, <1>5 DEF Next
<1> QED
  BY <1>6 DEF Enter

LEMMA StartStep == IInv /\ [Next]_vars =>
    [\A a \in Area : AtList /\ current' = a =>
        \A i \in 1 .. shown' - 1 : table'[i].uid <= mark[a]]_vars
<1> SUFFICES ASSUME IInv, Next, NEW a \in Area, AtList, current' = a,
                    NEW i \in 1 .. shown' - 1
             PROVE  table'[i].uid <= mark[a]
  OBVIOUS
<1>1. Enter(a)
  BY FromList
<1>2. PICK row \in Row : Land(a, table', StartingMessage(table', mark[a]), row)
  BY <1>1, Entered
<1>3. Fine(table', given) /\ mark[a] \in Nat /\ given \in Nat
  BY <1>1, Entered, MsgAssumption DEF IInv, Typed
<1> DEFINE start == StartingMessage(table', mark[a])
           index == IndexOfUid(table', mark[a])
<1>4. shown' = start /\ start \in DOMAIN table'
  <2>1. shown' # 0
    OBVIOUS
  <2> QED
    BY <2>1, <1>2 DEF Land
<1>5. index \in 0 .. Len(table') /\ DOMAIN table' = 1 .. Len(table') /\ Len(table') \in Nat
  BY <1>3, IndexOf, FineUids
<1>6. \A k \in DOMAIN table' : k <= index => table'[k].uid <= mark[a]
  BY <1>3, IndexOf
<1>7. start <= 1 \/ start <= index + 1
  BY <1>5 DEF StartingMessage
<1> HIDE DEF start, index
<1>8. i \in DOMAIN table' /\ i <= index
  BY <1>4, <1>5, <1>7
<1> QED
  BY <1>6, <1>8

\* Entering an area passes over nothing that is unread (startingMessage()),
\* whatever the tosser and the packer did to it, in a .MSG area too.
THEOREM NothingIsSkipped == Spec => StartSkipsNothing
  BY Always, StartStep, PTL DEF Spec, StartSkipsNothing

\* Only refresh() has somebody to take back to a message.
LEMMA FromProgram ==
    ASSUME IInv, Next, scan.uid # 0, current # current'
    PROVE  Reopen
<1>1. scan # NoScan
  BY DEF NoScan
<1>2. ~ Rescan /\ ~ ConfigFails /\ ~ ReopenFails
  BY <1>1 DEF Rescan, ConfigFails, ReopenFails, AtList, Idle
<1>3. ~ Show /\ ~ Leave /\ ~ WalkOffFront /\ ~ Delete /\ ~ Write /\ ~ ComeBack
  BY <1>1 DEF Show, Leave, WalkOffFront, Delete, Write, ComeBack, Reading, Idle
<1>4. \A b \in Area : ~ Deliver(b) /\ ~ Pack(b) /\ ~ ScanArea(b) /\ ~ CatchUp(b) /\ ~ Enter(b)
  BY <1>1 DEF Deliver, Pack, ScanArea, CatchUp, Enter, AtList, Idle
<1> QED
  BY <1>2, <1>3, <1>4 DEF Next

LEMMA BackStep == IInv /\ [Next]_vars =>
    [(scan.uid # 0 /\ current # current') =>
        \/ table' = <<>>
        \/ table'[shown'].uid = scan.uid
        \/ /\ \A i \in DOMAIN table' : table'[i].uid # scan.uid
           /\ shown' > 1 => table'[shown'].uid < scan.uid]_vars
<1> SUFFICES ASSUME IInv, Next, scan.uid # 0, current # current', table' # <<>>,
                    table'[shown'].uid # scan.uid
             PROVE  /\ \A i \in DOMAIN table' : table'[i].uid # scan.uid
                    /\ shown' > 1 => table'[shown'].uid < scan.uid
  OBVIOUS
<1> DEFINE a == scan.back
           at == LandOn(table', scan, mark[a])
           index == IndexOfUid(table', scan.uid)
<1>1. Reopen
  BY FromProgram
<1>2. Fine(table', given) /\ given \in Nat /\ mark[a] \in Nat /\ scan \in Scan /\ scan.uid \in Nat
  BY <1>1, Reopened, MsgAssumption DEF IInv, Typed, Scan
<1>3. at \in DOMAIN table'
  BY <1>2, LandThere
<1>4. shown' = at
  BY <1>1, <1>3, Reopened DEF Land
<1>5. index \in 0 .. Len(table') /\ DOMAIN table' = 1 .. Len(table') /\ Len(table') \in Nat
  BY <1>2, IndexOf, FineUids
<1>6. \A k \in DOMAIN table' : table'[k].uid <= scan.uid <=> k <= index
  BY <1>2, IndexOf
<1>7. at = IF index = 0 THEN 1 ELSE index
  <2>1. at = Max({1, index})
    BY DEF LandOn
  <2>2. index \in Nat
    BY <1>5
  <2> HIDE DEF at, index
  <2> QED
    BY <2>1, <2>2, BiggerOf
<1>8. \A k \in DOMAIN table' : table'[k].uid \in Nat
  BY <1>2, FineUids
<1> HIDE DEF at, index
<1>9. CASE index = 0
  BY <1>2, <1>4, <1>5, <1>6, <1>7, <1>8, <1>9
<1>10. CASE index # 0
  <2>1. at = index /\ table'[at].uid < scan.uid
    <3>1. at = index /\ at \in Nat
      BY <1>5, <1>7, <1>10
    <3>2. table'[at].uid <= scan.uid /\ table'[at].uid \in Nat
      BY <3>1, <1>3, <1>6, <1>8
    <3>3. table'[at].uid # scan.uid
      BY <1>4
    <3> QED
      BY <3>1, <3>2, <3>3, <1>2
  <2>2. ASSUME NEW i \in DOMAIN table', table'[i].uid = scan.uid PROVE FALSE
    <3>1. i <= at
      BY <1>2, <1>6, <1>8, <2>1, <2>2
    <3>2. CASE i = at
      BY <3>2, <2>1, <2>2, <1>2
    <3>3. CASE i < at
      <4>1. table'[i].uid < table'[at].uid
        BY <3>3, <1>2, <1>3 DEF Fine
      <4> QED
        BY <4>1, <2>1, <2>2, <1>2, <1>3, <1>8
    <3> QED
      BY <3>1, <3>2, <3>3, <1>3, <1>5
  <2> QED
    BY <2>1, <2>2, <1>4
<1> QED
  BY <1>9, <1>10, <1>5

\* Coming back from a program lands on the message that was on the screen if
\* the area still holds it, and on none after it otherwise (landOn()), however
\* much was delivered and packed meanwhile.
THEOREM BackToTheSame == Spec => ComesBackToTheSame
  BY Always, BackStep, PTL DEF Spec, ComesBackToTheSame

\* --------------------------------------------------------------------------
\* New mail is unread where no UID is given out twice.  For that a message's UID
\* is which message it is, no mark is ahead of what has been given out, and the
\* open base knows of every message at or before one in its table: what was
\* delivered behind its back comes after all of them.

Named(messages) == \A i \in DOMAIN messages : messages[i].uid = messages[i].id

Seen(messages, uid, ids) ==
    \A i \in DOMAIN messages : messages[i].uid <= uid => messages[i].id \in ids

Knows(messages, held) ==
    \A i \in DOMAIN messages, j \in DOMAIN held :
        held[j].uid <= messages[i].uid =>
            \E k \in DOMAIN messages : messages[k].uid = held[j].uid

Marked ==
    /\ \A a \in Area : /\ Named(Holds(a))
                       /\ mark[a] <= given
                       /\ Seen(Holds(a), mark[a], covered[a])
                       /\ current = a => Knows(table, Holds(a))
    /\ Named(table)

LEMMA MarkedNext ==
    ASSUME \A a \in Area : /\ Named(Holds(a)')
                           /\ mark'[a] <= given'
                           /\ Seen(Holds(a)', mark'[a], covered'[a])
                           /\ current' = a => Knows(table', Holds(a)'),
           Named(table')
    PROVE  Marked'
  BY DEF Marked, Named, Seen, Knows

LEMMA EmptyMarked ==
    \A uid, ids, held : Named(<<>>) /\ Seen(<<>>, uid, ids) /\ Knows(<<>>, held)
  BY DEF Named, Seen, Knows

LEMMA KnowsItself == \A s : Knows(s, s)
  BY DEF Knows

\* A table that only has messages of another one is named as it is, and has
\* been seen and is known where that one is.
LEMMA FewerMarked ==
    ASSUME NEW S, NEW s \in Seq(S), NEW n \in DOMAIN s
    PROVE  /\ Named(s) => Named(RemoveAt(s, n))
           /\ \A uid, ids : Seen(s, uid, ids) => Seen(RemoveAt(s, n), uid, ids)
           /\ \A messages : Knows(messages, s) => Knows(messages, RemoveAt(s, n))
<1> DEFINE r == RemoveAt(s, n)
<1>1. /\ r \in Seq(S) /\ Len(r) = Len(s) - 1
      /\ \A i \in 1 .. Len(s) - 1 : r[i] = s[IF i < n THEN i ELSE i + 1]
  BY Removed
<1>2. n \in 1 .. Len(s) /\ Len(s) \in Nat /\ DOMAIN s = 1 .. Len(s)
  OBVIOUS
<1> HIDE DEF r
<1>3. ASSUME NEW i \in DOMAIN r PROVE \E j \in DOMAIN s : r[i] = s[j]
  <2>1. i \in 1 .. Len(s) - 1
    BY <1>1, <1>2
  <2>2. (IF i < n THEN i ELSE i + 1) \in DOMAIN s
    BY <2>1, <1>2
  <2> QED
    BY <1>1, <2>1, <2>2
<1>4. Named(s) => Named(r)
  BY <1>3 DEF Named
<1>5. \A uid, ids : Seen(s, uid, ids) => Seen(r, uid, ids)
  BY <1>3, Zenon DEF Seen
<1>6. \A messages : Knows(messages, s) => Knows(messages, r)
  BY <1>3, Zenon DEF Knows
<1> QED
  BY <1>4, <1>5, <1>6 DEF r

\* What is written or delivered comes after everything there has been.
LEMMA AppendedMarked ==
    ASSUME ~ Reused, given \in Nat, given < MaxMsg, NEW s, Fine(s, given), Named(s)
    PROVE  /\ Named(Appended(s))
           /\ \A uid \in Nat : \A ids :
                uid <= given /\ Seen(s, uid, ids) => Seen(Appended(s), uid, ids)
           /\ \A messages : Fine(messages, given) /\ Knows(messages, s)
                                => Knows(messages, Appended(s))
<1> DEFINE new == [uid |-> given + 1, id |-> given + 1]
           more == Append(s, new)
<1>1. Appended(s) = more
  BY DEF Appended, NextUid
<1>2. DOMAIN s = 1 .. Len(s) /\ Len(s) \in Nat /\ s \in Seq(Message) /\ new \in Message
  BY MsgAssumption DEF Fine, Message
<1>3. new.uid = given + 1 /\ new.id = given + 1
  OBVIOUS
<1> HIDE DEF new
<1>4. /\ DOMAIN more = 1 .. Len(s) + 1 /\ more[Len(s) + 1] = new
      /\ \A i \in 1 .. Len(s) : more[i] = s[i]
  BY <1>2
<1> HIDE DEF more
<1>5. ASSUME NEW i \in DOMAIN more
      PROVE  more[i] = new \/ (i \in DOMAIN s /\ more[i] = s[i])
  BY <1>2, <1>4
<1>6. Named(more)
  BY <1>3, <1>5 DEF Named
<1>7. ASSUME NEW uid \in Nat, NEW ids, uid <= given, Seen(s, uid, ids)
      PROVE  Seen(more, uid, ids)
  <2>1. SUFFICES ASSUME NEW i \in DOMAIN more, more[i].uid <= uid
                 PROVE  more[i].id \in ids
    BY DEF Seen
  <2>2. more[i] # new
    BY <1>3, <1>7, <2>1
  <2>3. i \in DOMAIN s /\ more[i] = s[i]
    BY <1>5, <2>2
  <2> QED
    BY <1>7, <2>1, <2>3 DEF Seen
<1>8. ASSUME NEW messages, Fine(messages, given), Knows(messages, s)
      PROVE  Knows(messages, more)
  <2>1. SUFFICES ASSUME NEW i \in DOMAIN messages, NEW j \in DOMAIN more,
                        more[j].uid <= messages[i].uid
                 PROVE  \E k \in DOMAIN messages : messages[k].uid = more[j].uid
    BY DEF Knows
  <2>2. messages[i].uid \in Nat
    BY <1>8, FineUids
  <2>3. messages[i].uid <= given
    BY <1>8 DEF Fine
  <2>4. more[j] # new
    BY <1>3, <2>1, <2>2, <2>3
  <2>5. j \in DOMAIN s /\ more[j] = s[j]
    BY <1>5, <2>4
  <2> QED
    BY <1>8, <2>1, <2>5 DEF Knows
<1> QED
  BY <1>1, <1>6, <1>7, <1>8

\* A mark taken from a table that knows of an area covers everything in the
\* area that is at or before it.
LEMMA MarkCovers ==
    ASSUME NEW last \in Nat, NEW s, Fine(s, last), Named(s), NEW n \in DOMAIN s,
           NEW held, Named(held), Knows(s, held)
    PROVE  Seen(held, s[n].uid, {s[i].id : i \in 1 .. IndexOfUid(s, s[n].uid)})
<1> DEFINE index == IndexOfUid(s, s[n].uid)
<1>1. SUFFICES ASSUME NEW j \in DOMAIN held, held[j].uid <= s[n].uid
               PROVE  held[j].id \in {s[i].id : i \in 1 .. index}
  BY DEF Seen
<1>2. PICK k \in DOMAIN s : s[k].uid = held[j].uid
  BY <1>1 DEF Knows
<1>3. s[n].uid \in Nat /\ DOMAIN s = 1 .. Len(s)
  BY FineUids
<1>4. \A i \in DOMAIN s : s[i].uid <= s[n].uid <=> i <= index
  BY <1>3, IndexOf
<1> HIDE DEF index
<1>5. k \in 1 .. index
  <2>1. k <= index
    BY <1>1, <1>2, <1>4
  <2>2. index \in 0 .. Len(s) /\ Len(s) \in Nat
    BY <1>3, IndexOf, FineUids DEF index
  <2> QED
    BY <2>1, <2>2, <1>3
<1>6. s[k].id = held[j].id
  BY <1>2 DEF Named
<1> QED
  BY <1>5, <1>6

\* Landing in an area of which the table is known keeps its mark right.
LEMMA LandMarked ==
    ASSUME IInv, Marked, NEW a \in Area, NEW s, Fine(s, given), Named(s), NEW n, NEW row,
           Land(a, s, n, row),
           NEW held, Named(held), Knows(s, held), Seen(held, mark[a], covered[a])
    PROVE  /\ \A b \in Area : mark'[b] <= given
           /\ Seen(held, mark'[a], covered'[a])
           /\ \A b \in Area \ {a} : mark'[b] = mark[b] /\ covered'[b] = covered[b]
<1>1. given \in Nat
  BY MsgAssumption DEF IInv, Typed
<1>2. CASE n \in DOMAIN s
  <2> DEFINE ids == {s[i].id : i \in 1 .. IndexOfUid(s, s[n].uid)}
  <2>1. /\ mark' = [mark EXCEPT ![a] = s[n].uid]
        /\ covered' = [covered EXCEPT ![a] = @ \cup ids]
    BY <1>2 DEF Land, MarkOf, Cover
  <2>2. Seen(held, s[n].uid, ids)
    BY <1>1, <1>2, MarkCovers
  <2> HIDE DEF ids
  <2>3. s[n].uid <= given
    BY <1>2 DEF Fine
  <2>4. /\ mark'[a] = s[n].uid /\ covered'[a] = covered[a] \cup ids
        /\ \A b \in Area \ {a} : mark'[b] = mark[b] /\ covered'[b] = covered[b]
    BY <2>1 DEF IInv, Typed
  <2>5. Seen(held, mark'[a], covered'[a])
    BY <2>2, <2>4 DEF Seen
  <2> QED
    BY <2>3, <2>4, <2>5 DEF Marked
<1>3. CASE n \notin DOMAIN s
  BY <1>3 DEF Land, Marked
<1> QED
  BY <1>2, <1>3

\* Steps that leave the areas, the marks and the open table alone.
LEMMA SameMarked ==
    ASSUME Marked, disk' = disk, given' = given, mark' = mark, covered' = covered,
           table' = table, current' = current
    PROVE  Marked'
<1>1. \A a \in Area : Holds(a)' = Holds(a)
  BY DEF Holds
<1>2. \A a \in Area : /\ Named(Holds(a)')
                      /\ mark'[a] <= given'
                      /\ Seen(Holds(a)', mark'[a], covered'[a])
                      /\ current' = a => Knows(table', Holds(a)')
  BY <1>1 DEF Marked
<1>3. Named(table')
  BY DEF Marked
<1> QED
  BY <1>2, <1>3, MarkedNext

LEMMA DeliverMarked ==
    ASSUME ~ Reused, IInv, Marked, NEW a \in Area, Deliver(a)
    PROVE  Marked'
<1>1. /\ given \in Nat /\ given < MaxMsg /\ given' = given + 1
      /\ mark' = mark /\ covered' = covered /\ table' = table /\ current' = current
      /\ disk' = [disk EXCEPT ![a] = Appended(Holds(a))]
  BY MsgAssumption DEF Deliver, IInv, Typed
<1>2. Fine(Holds(a), given) /\ Fine(table, given)
  BY DEF IInv, Tables
<1>3. Appended(Holds(a)) \in Seq(Message)
  BY <1>1, <1>2, FineAppended DEF Fine
<1>4. Holds(a)' = Appended(Holds(a)) /\ \A b \in Area \ {a} : Holds(b)' = Holds(b)
  BY <1>1, <1>3, Written DEF IInv
<1>5. ASSUME NEW b \in Area
      PROVE  /\ Named(Holds(b)')
             /\ mark'[b] <= given'
             /\ Seen(Holds(b)', mark'[b], covered'[b])
             /\ current' = b => Knows(table', Holds(b)')
  <2>1. /\ Named(Holds(b)) /\ mark[b] <= given /\ Seen(Holds(b), mark[b], covered[b])
        /\ current = b => Knows(table, Holds(b))
    BY DEF Marked
  <2>2. mark[b] \in Nat /\ mark'[b] <= given'
    BY <1>1, <2>1, MsgAssumption DEF IInv, Typed
  <2>3. CASE b = a
    <3>1. Named(Appended(Holds(a))) /\ Seen(Appended(Holds(a)), mark[a], covered[a])
      BY <1>1, <1>2, <2>1, <2>2, <2>3, AppendedMarked
    <3>2. current = a => Knows(table, Appended(Holds(a)))
      BY <1>1, <1>2, <2>1, <2>3, AppendedMarked
    <3> QED
      BY <1>1, <1>4, <2>2, <2>3, <3>1, <3>2
  <2>4. CASE b # a
    BY <1>1, <1>4, <2>1, <2>2, <2>4
  <2> QED
    BY <2>3, <2>4
<1>6. Named(table')
  BY <1>1 DEF Marked
<1> QED
  BY <1>5, <1>6, MarkedNext

LEMMA PackMarked ==
    ASSUME IInv, Marked, NEW a \in Area, Pack(a)
    PROVE  Marked'
<1>1. PICK n \in DOMAIN Holds(a) : /\ disk' = [disk EXCEPT ![a] = RemoveAt(Holds(a), n)]
                                   /\ Fine(RemoveAt(Holds(a), n), given)
  BY PackedTo
<1>2. /\ mark' = mark /\ covered' = covered /\ table' = table /\ current' = current
      /\ given' = given
  BY DEF Pack
<1>3. RemoveAt(Holds(a), n) \in Seq(Message) /\ Holds(a) \in Seq(Message)
  BY <1>1 DEF Fine, IInv, Tables
<1>4. Holds(a)' = RemoveAt(Holds(a), n) /\ \A b \in Area \ {a} : Holds(b)' = Holds(b)
  BY <1>1, <1>3, Written DEF IInv
<1>5. ASSUME NEW b \in Area
      PROVE  /\ Named(Holds(b)')
             /\ mark'[b] <= given'
             /\ Seen(Holds(b)', mark'[b], covered'[b])
             /\ current' = b => Knows(table', Holds(b)')
  <2>1. /\ Named(Holds(b)) /\ mark[b] <= given /\ Seen(Holds(b), mark[b], covered[b])
        /\ current = b => Knows(table, Holds(b))
    BY DEF Marked
  <2>2. CASE b = a
    <3>1. /\ Named(RemoveAt(Holds(a), n)) /\ Seen(RemoveAt(Holds(a), n), mark[a], covered[a])
          /\ current = a => Knows(table, RemoveAt(Holds(a), n))
      BY <1>3, <2>1, <2>2, FewerMarked
    <3> QED
      BY <1>2, <1>4, <2>1, <2>2, <3>1
  <2>3. CASE b # a
    BY <1>2, <1>4, <2>1, <2>3
  <2> QED
    BY <2>2, <2>3
<1>6. Named(table')
  BY <1>2 DEF Marked
<1> QED
  BY <1>5, <1>6, MarkedNext

LEMMA OpenedMarked ==
    ASSUME IInv, Marked, NEW a \in Area, NEW n, NEW row,
           table' = Holds(a), disk' = [disk EXCEPT ![a] = Holds(a)], current' = a,
           Land(a, table', n, row), given' = given
    PROVE  Marked'
<1>1. Fine(table', given) /\ Named(table') /\ Named(Holds(a))
  BY DEF IInv, Tables, Marked
<1>2. Holds(a) \in Seq(Message)
  BY DEF IInv, Tables, Fine
<1>3. \A b \in Area : Holds(b)' = Holds(b)
  BY <1>2, Written DEF IInv
<1>4. Knows(table', Holds(a)) /\ Seen(Holds(a), mark[a], covered[a])
  BY KnowsItself DEF Marked
<1>5. /\ \A b \in Area : mark'[b] <= given
      /\ Seen(Holds(a), mark'[a], covered'[a])
      /\ \A b \in Area \ {a} : mark'[b] = mark[b] /\ covered'[b] = covered[b]
  BY <1>1, <1>4, LandMarked, Zenon
<1>6. \A b \in Area : Seen(Holds(b), mark'[b], covered'[b])
  BY <1>5 DEF Marked
<1>7. \A b \in Area : /\ Named(Holds(b)')
                      /\ mark'[b] <= given'
                      /\ Seen(Holds(b)', mark'[b], covered'[b])
                      /\ current' = b => Knows(table', Holds(b)')
  BY <1>3, <1>4, <1>5, <1>6 DEF Marked
<1> QED
  BY <1>1, <1>7, MarkedNext

LEMMA EnterMarked ==
    ASSUME IInv, Marked, NEW a \in Area, Enter(a)
    PROVE  Marked'
<1>1. table' = Holds(a) /\ \E row \in Row : Land(a, table', StartingMessage(table', mark[a]), row)
  BY Entered
<1>2. disk' = [disk EXCEPT ![a] = Holds(a)] /\ current' = a /\ given' = given
  BY <1>1 DEF Enter
<1> QED
  BY <1>1, <1>2, OpenedMarked

LEMMA ReopenMarked == ASSUME IInv, Marked, Reopen PROVE Marked'
<1>1. /\ scan.back \in Area /\ current' = scan.back
      /\ table' = Holds(scan.back)
      /\ \E row \in Row :
            Land(scan.back, table', LandOn(table', scan, mark[scan.back]), row)
  BY Reopened
<1>2. disk' = [disk EXCEPT ![scan.back] = Holds(scan.back)] /\ given' = given
  BY DEF Reopen
<1> QED
  BY <1>1, <1>2, OpenedMarked

LEMMA ShowMarked == ASSUME IInv, Marked, Show PROVE Marked'
<1>1. PICK n \in DOMAIN table : Land(current, table, n, list[current])
  BY DEF Show
<1>2. current \in Area
  BY DEF Show, Reading, IInv, Typed
<1>3. disk' = disk /\ given' = given /\ current' = current /\ table' = table
  BY DEF Show
<1>4. /\ Fine(table, given) /\ Named(table) /\ Named(Holds(current))
      /\ Knows(table, Holds(current))
      /\ Seen(Holds(current), mark[current], covered[current])
  BY <1>2 DEF IInv, Tables, Marked
<1>5. /\ \A b \in Area : mark'[b] <= given
      /\ Seen(Holds(current), mark'[current], covered'[current])
      /\ \A b \in Area \ {current} : mark'[b] = mark[b] /\ covered'[b] = covered[b]
  BY <1>1, <1>2, <1>4, LandMarked, Zenon
<1>6. \A b \in Area : Holds(b)' = Holds(b)
  BY <1>3 DEF Holds
<1>7. \A b \in Area : /\ Named(Holds(b)')
                      /\ mark'[b] <= given'
                      /\ Seen(Holds(b)', mark'[b], covered'[b])
                      /\ current' = b => Knows(table', Holds(b)')
  BY <1>3, <1>5, <1>6 DEF Marked
<1> QED
  BY <1>3, <1>4, <1>7, MarkedNext

LEMMA LeftMarked ==
    ASSUME IInv, Marked, Leave \/ WalkOffFront \/ ComeBack
    PROVE  Marked'
<1>1. /\ disk' = disk /\ given' = given /\ covered' = covered /\ table' = <<>>
      /\ current' = NoArea
      /\ mark' = mark \/ mark' = [mark EXCEPT ![current] = 0]
  BY DEF Leave, WalkOffFront, ComeBack, Left
<1>2. \A b \in Area : Holds(b)' = Holds(b)
  BY <1>1 DEF Holds
<1>3. ASSUME NEW b \in Area
      PROVE  /\ Named(Holds(b)')
             /\ mark'[b] <= given'
             /\ Seen(Holds(b)', mark'[b], covered'[b])
             /\ current' = b => Knows(table', Holds(b)')
  <2>1. Named(Holds(b)) /\ mark[b] <= given /\ Seen(Holds(b), mark[b], covered[b])
    BY DEF Marked
  <2>2. current' # b
    BY <1>1, AreaAssumption
  <2>3. mark'[b] = mark[b] \/ mark'[b] = 0
    BY <1>1 DEF IInv, Typed
  <2>4. Seen(Holds(b), 0, covered[b]) /\ given >= 0
    <3>1. \A i \in DOMAIN Holds(b) : Holds(b)[i].uid \in 1 .. MaxMsg
      BY FineUids DEF IInv, Tables
    <3>2. \A u \in 1 .. MaxMsg : ~ (u <= 0)
      BY MsgAssumption
    <3> QED
      BY <3>1, <3>2, MsgAssumption DEF Seen, IInv, Typed
  <2> QED
    BY <1>1, <1>2, <2>1, <2>2, <2>3, <2>4
<1>4. Named(table')
  BY <1>1, EmptyMarked
<1> QED
  BY <1>3, <1>4, MarkedNext

LEMMA DeleteMarked == ASSUME IInv, Marked, Delete PROVE Marked'
<1>1. /\ current \in Area /\ table' = RemoveAt(disk[current], shown)
      /\ disk' = [disk EXCEPT ![current] = table'] /\ Fine(table', given)
      /\ \E row \in Row : Land(current, table', Min({shown, Len(table')}), row)
  BY DeletedTo
<1>2. given' = given /\ current' = current /\ shown \in DOMAIN disk[current]
  BY DEF Delete
<1>3. disk[current] = Holds(current) /\ disk[current] \in Seq(Message)
  BY <1>1 DEF IInv, Tables, Holds, Fine
<1>4. /\ Named(disk[current]) /\ Seen(disk[current], mark[current], covered[current])
  BY <1>1, <1>3 DEF Marked
<1>5. /\ Named(table') /\ Seen(table', mark[current], covered[current])
  BY <1>1, <1>2, <1>3, <1>4, FewerMarked
<1>6. Knows(table', table')
  BY KnowsItself
<1>7. /\ \A b \in Area : mark'[b] <= given
      /\ Seen(table', mark'[current], covered'[current])
      /\ \A b \in Area \ {current} : mark'[b] = mark[b] /\ covered'[b] = covered[b]
  BY <1>1, <1>5, <1>6, LandMarked, Zenon
<1>8. \A b \in Area : Holds(b)' = IF b = current THEN table' ELSE Holds(b)
  <2>1. table' \in Seq(Message)
    BY <1>1 DEF Fine
  <2>2. PICK c \in Area : c = current
    BY <1>1
  <2>3. Holds(c)' = table' /\ \A b \in Area \ {c} : Holds(b)' = Holds(b)
    BY <1>1, <2>1, <2>2, Written DEF IInv
  <2> QED
    BY <2>2, <2>3
<1>9. ASSUME NEW b \in Area
      PROVE  /\ Named(Holds(b)')
             /\ mark'[b] <= given'
             /\ Seen(Holds(b)', mark'[b], covered'[b])
             /\ current' = b => Knows(table', Holds(b)')
  <2>1. CASE b = current
    BY <1>2, <1>5, <1>6, <1>7, <1>8, <2>1
  <2>2. CASE b # current
    BY <1>2, <1>7, <1>8, <2>2 DEF Marked
  <2> QED
    BY <2>1, <2>2
<1> QED
  BY <1>5, <1>9, MarkedNext

LEMMA WriteMarked == ASSUME ~ Reused, IInv, Marked, Write PROVE Marked'
<1>1. /\ current \in Area /\ table' = Appended(disk[current])
      /\ Fine(disk[current], given)
      /\ disk' = [disk EXCEPT ![current] = table'] /\ Fine(table', given')
      /\ given' = given + 1
  BY WrittenTo
<1>2. /\ given \in Nat /\ given < MaxMsg /\ current' = current
      /\ mark' = mark /\ covered' = covered
  BY MsgAssumption DEF Write, IInv, Typed
<1>3. disk[current] = Holds(current)
  BY <1>1 DEF IInv, Tables, Holds
<1>4. /\ Named(disk[current]) /\ Seen(disk[current], mark[current], covered[current])
      /\ mark[current] <= given /\ mark[current] \in Nat
  BY <1>1, <1>3, MsgAssumption DEF Marked, IInv, Typed
<1>5. /\ Named(table') /\ Seen(table', mark[current], covered[current])
  BY <1>1, <1>2, <1>4, AppendedMarked
<1>6. Knows(table', table')
  BY KnowsItself
<1>7. \A b \in Area : Holds(b)' = IF b = current THEN table' ELSE Holds(b)
  <2>1. table' \in Seq(Message)
    BY <1>1 DEF Fine
  <2>2. PICK c \in Area : c = current
    BY <1>1
  <2>3. Holds(c)' = table' /\ \A b \in Area \ {c} : Holds(b)' = Holds(b)
    BY <1>1, <2>1, <2>2, Written DEF IInv
  <2> QED
    BY <2>2, <2>3
<1>8. ASSUME NEW b \in Area
      PROVE  /\ Named(Holds(b)')
             /\ mark'[b] <= given'
             /\ Seen(Holds(b)', mark'[b], covered'[b])
             /\ current' = b => Knows(table', Holds(b)')
  <2>1. mark'[b] <= given'
    <3>1. mark[b] <= given /\ mark[b] \in Nat
      BY MsgAssumption DEF Marked, IInv, Typed
    <3> QED
      BY <1>1, <1>2, <3>1
  <2>2. CASE b = current
    BY <1>2, <1>5, <1>6, <1>7, <2>1, <2>2
  <2>3. CASE b # current
    BY <1>2, <1>7, <2>1, <2>3 DEF Marked
  <2> QED
    BY <2>2, <2>3
<1> QED
  BY <1>5, <1>8, MarkedNext

LEMMA CatchUpMarked ==
    ASSUME IInv, Marked, NEW a \in Area, CatchUp(a)
    PROVE  Marked'
<1> DEFINE s == disk[a]
           n == Len(s)
           ids == {s[i].id : i \in 1 .. IndexOfUid(s, s[n].uid)}
<1>1. /\ s = Holds(a) /\ Fine(s, given) /\ n \in DOMAIN s /\ given \in Nat
      /\ Last(s) = s[n]
  BY CaughtUp, MsgAssumption DEF IInv, Typed
<1>2. /\ mark' = [mark EXCEPT ![a] = s[n].uid]
      /\ covered' = [covered EXCEPT ![a] = @ \cup ids]
      /\ disk' = disk /\ given' = given /\ table' = table /\ current' = current
  BY <1>1 DEF CatchUp, Cover
<1>3. Named(s) /\ Knows(s, s)
  BY <1>1, KnowsItself DEF Marked
<1>4. Seen(s, s[n].uid, ids)
  BY <1>1, <1>3, MarkCovers
<1> HIDE DEF ids
<1>5. s[n].uid <= given
  BY <1>1 DEF Fine
<1>6. /\ mark'[a] = s[n].uid /\ covered'[a] = covered[a] \cup ids
      /\ \A b \in Area \ {a} : mark'[b] = mark[b] /\ covered'[b] = covered[b]
  BY <1>2 DEF IInv, Typed
<1>7. Seen(s, mark'[a], covered'[a])
  BY <1>4, <1>6 DEF Seen
<1>8. \A b \in Area : Holds(b)' = Holds(b)
  BY <1>2 DEF Holds
<1>9. ASSUME NEW b \in Area
      PROVE  /\ Named(Holds(b)')
             /\ mark'[b] <= given'
             /\ Seen(Holds(b)', mark'[b], covered'[b])
             /\ current' = b => Knows(table', Holds(b)')
  <2>1. /\ Named(Holds(b)) /\ mark[b] <= given /\ Seen(Holds(b), mark[b], covered[b])
        /\ current = b => Knows(table, Holds(b))
    BY DEF Marked
  <2>2. CASE b = a
    BY <1>1, <1>2, <1>5, <1>6, <1>7, <1>8, <2>1, <2>2
  <2>3. CASE b # a
    BY <1>2, <1>6, <1>8, <2>1, <2>3
  <2> QED
    BY <2>2, <2>3
<1>10. Named(table')
  BY <1>2 DEF Marked
<1> QED
  BY <1>9, <1>10, MarkedNext

LEMMA MarkedStarts == Init => Marked
<1> SUFFICES ASSUME Init PROVE Marked
  OBVIOUS
<1>1. \A a \in Area : Holds(a) = <<>> /\ mark[a] = 0 /\ given = 0 /\ current # a
  BY AreaAssumption DEF Init, Holds
<1>2. table = <<>>
  BY DEF Init
<1> QED
  BY <1>1, <1>2, EmptyMarked DEF Marked

LEMMA MarkedKeeps ==
    ASSUME ~ Reused
    PROVE  IInv /\ Marked /\ [Next]_vars => Marked'
<1> SUFFICES ASSUME IInv, Marked, [Next]_vars PROVE Marked'
  OBVIOUS
<1>1. ASSUME NEW a \in Area, Deliver(a) \/ Pack(a) \/ Enter(a) \/ CatchUp(a)
      PROVE  Marked'
  BY <1>1, DeliverMarked, PackMarked, EnterMarked, CatchUpMarked
<1>2. CASE Rescan \/ ConfigFails \/ ReopenFails \/ \E a \in Area : ScanArea(a)
  BY <1>2, SameMarked DEF Rescan, ConfigFails, ReopenFails, ScanArea
<1>3. CASE Show \/ Leave \/ WalkOffFront \/ ComeBack
  BY <1>3, ShowMarked, LeftMarked
<1>4. CASE Delete \/ Write \/ Reopen
  BY <1>4, DeleteMarked, WriteMarked, ReopenMarked
<1>5. CASE UNCHANGED vars
  BY <1>5, SameMarked DEF vars
<1> QED
  BY <1>1, <1>2, <1>3, <1>4, <1>5 DEF Next

LEMMA MarkedIsRight == Marked => NewMailIsUnread
  BY DEF Marked, Seen, NewMailIsUnread, Holds

\* Where no UID is given out twice, as in a Squish or a JAM area, no message is
\* behind the mark that did not stand at or before one: new mail is never
\* counted as read, by markRead() from a table however old or by catchUp().
THEOREM NewMailStaysUnread == ASSUME ~ Reused PROVE Spec => []NewMailIsUnread
<1>1. Init => Marked
  BY MarkedStarts
<1>2. IInv /\ Marked /\ [Next]_vars => Marked'
  BY MarkedKeeps
<1>3. Spec => []Marked
  BY <1>1, <1>2, Always, PTL DEF Spec
<1> QED
  BY <1>3, MarkedIsRight, PTL
=============================================================================
