----------------------------- MODULE JamProofs -----------------------------
(***************************************************************************)
(* What the JAM base keeps, for every set of processes and texts and every *)
(* bound.                                                                  *)
(*                                                                         *)
(* The invariant is in four layers.  Bound is what a writer in the middle  *)
(* of a call may count on: where its header and its text go, what its      *)
(* index record still says, and that nothing another call left behind is   *)
(* in the way.  Counted, while nothing has gone wrong, follows ActiveMsgs  *)
(* through a call.  Stands, where nothing is written again, keeps every    *)
(* message that anybody has listed before what the writer may still cut    *)
(* off.  Tells, where nothing fails, keeps every message whole and its     *)
(* text to itself, but the one that is being written again.                *)
(*                                                                         *)
(* With Stands or Tells the area is what the headers say, record for       *)
(* record, and each write is a step of MessageBase or none.                *)
(***************************************************************************)
EXTENDS JamBase, TLAPS, FiniteSetTheorems, SequenceTheorems, WellFoundedInduction

Making == {"text", "head", "subs", "index"}
Writing == Making \cup {"oldhead", "mark", "blank", "patch", "info"}

\* The lock is with the one process in the middle of a writing call.
Held == \A p \in Proc : pc[p] \in Writing <=> lock = p

\* An opener has sized the index at a length it still has.
Sized == \A p \in Proc : pc[p] = "sized" => job[p].records <= Len(jdx)

\* An index record names a header that is there, and no two the same.
Refs ==
    /\ \A r \in DOMAIN jdx : jdx[r] <= Len(jhr)
    /\ \A r, q \in DOMAIN jdx : jdx[r] = jdx[q] /\ jdx[r] # 0 => r = q

\* No header's text begins past the end of the texts.
Texts == \A h \in DOMAIN jhr : jhr[h].at <= Len(jdt)

\* The header of this job is one more, behind those that are there.
Appends(j) == j.kind = "write" \/ j.offset # j.old

\* The text of a header stands in the .jdt up to a place.
Whole(header, end) ==
    /\ header.len = TextLen[header.of]
    /\ header.at + header.len <= end
    /\ \A i \in header.at + 1 .. header.at + header.len : jdt[i] = header.of

\* What a call counts on while it writes a message.
MakingOf(j, here) ==
    /\ j.kind \in {"write", "replace"}
    /\ j.drafts # <<>>
    /\ j.head \in Header /\ ~j.head.gone
    /\ j.head.len = TextLen[j.head.of]
    /\ j.head.at <= Len(jdt)
    /\ j.offset \in 1 .. Len(jhr) + 1
    /\ j.offset + Len(j.drafts) <= scope.headers + 1
    /\ here \in {"subs", "index"} => j.offset \in DOMAIN jhr
    /\ here # "text" => Whole(j.head, Len(jdt))
    /\ here = "index" => jhr[j.offset] = [j.head EXCEPT !.subs = j.head.of]
    /\ Appends(j) => /\ \A r \in DOMAIN jdx : jdx[r] < j.offset
                     /\ Len(jhr) <= j.offset
                     /\ here \in {"text", "head"} => Len(jhr) < j.offset

\* What it counts on besides where it adds a message, or writes one again.
AddingOf(j) ==
    /\ j.record = Len(jdx) + 1
    /\ \A h \in DOMAIN jhr : h < j.offset => jhr[h].at <= j.head.at

AgainOf(j) ==
    /\ Len(j.drafts) = 1
    /\ j.record \in DOMAIN jdx
    /\ jdx[j.record] = j.old
    /\ j.old \in DOMAIN jhr /\ ~jhr[j.old].gone

OldHeadOf(j) ==
    /\ j.kind = "replace"
    /\ j.old \in DOMAIN jhr /\ j.offset \in DOMAIN jhr
    /\ j.record \in DOMAIN jdx
    /\ \A r \in DOMAIN jdx : jdx[r] # j.old

RemovingOf(j, here) ==
    /\ j.kind = "remove"
    /\ j.targets # {}
    /\ \A r \in j.targets : r \in DOMAIN jdx /\ jdx[r] \in DOMAIN jhr
    /\ here = "blank" => jhr[jdx[Min(j.targets)]].gone

PatchOf(j) ==
    /\ j.kind \in {"seen", "rcvd"}
    /\ j.record \in DOMAIN jdx
    /\ jdx[j.record] = j.old
    /\ j.old \in DOMAIN jhr /\ ~jhr[j.old].gone

InfoOf(j) ==
    /\ j.kind \in {"write", "replace", "remove"}
    /\ j.kind = "replace" => j.offset \in DOMAIN jhr

WorkOf(j, here) ==
    /\ here \in Making => MakingOf(j, here)
    /\ here \in Making /\ j.kind = "write" => AddingOf(j)
    /\ here \in Making /\ j.kind = "replace" => AgainOf(j)
    /\ here = "oldhead" => OldHeadOf(j)
    /\ here \in {"mark", "blank"} => RemovingOf(j, here)
    /\ here = "patch" => PatchOf(j)
    /\ here = "info" => InfoOf(j)

Work == \A p \in Proc : lock = p => WorkOf(job[p], pc[p])

Bound == TypeOK /\ scope \in Scopes /\ Held /\ Sized /\ Refs /\ Texts /\ Work

\* While nothing has gone wrong, every record names a message but the one that
\* is on its way out.
Leaving(r) ==
    \E p \in Proc : lock = p /\ pc[p] = "blank" /\ r = Min(job[p].targets)

Alive == \A r \in DOMAIN jdx : jdx[r] = 0 \/ r \in Live \/ Leaving(r)

\* How far ActiveMsgs is from the messages there are.
CountOf(j, here) ==
    CASE j.kind = "write" -> active + j.done = Cardinality(Live)
      [] j.kind = "remove" ->
            active = Cardinality(Live) + j.done + (IF here = "blank" THEN 1 ELSE 0)
      [] OTHER -> active = Cardinality(Live)

Counted ==
    faults = 0 =>
        /\ Alive
        /\ lock = NoProc => active = Cardinality(Live)
        /\ \A p \in Proc : lock = p => CountOf(job[p], pc[p])

\* What a writer that fails will not cut off.
HeadEnd == IF lock \in Proc /\ pc[lock] \in Making THEN job[lock].offset - 1
           ELSE Len(jhr)
TextEnd == IF lock \in Proc /\ pc[lock] \in Making THEN job[lock].head.at
           ELSE Len(jdt)

\* A message that was listed is there, and stays.
Standing(offset, header) ==
    /\ offset \in 1 .. HeadEnd
    /\ jhr[offset].subs = header.of
    /\ Whole(header, TextEnd)

\* What an index names, the one on the disk or one an opener has read.
Known(offset) ==
    /\ offset \in 1 .. HeadEnd
    /\ jhr[offset].gone \/ Standing(offset, jhr[offset])

NoneAgain == \A p \in scope.procs : "replace" \notin scope.calls[p]

Stands ==
    NoneAgain =>
        /\ \A p \in Proc : job[p].kind # "replace"
        /\ \A r \in DOMAIN jdx : jdx[r] = 0 \/ Known(jdx[r])
        /\ \A p \in Proc : pc[p] = "indexed" =>
              \A i \in DOMAIN job[p].index :
                  job[p].index[i] = 0 \/ Known(job[p].index[i])
        /\ \A p \in Proc : \A n \in DOMAIN table[p] :
              Standing(table[p][n].headerOffset, table[p][n].header)

\* The message whose index record is still to be written again.
Again(r) == lock \in Proc /\ Rewriting(lock, r)

\* No text that is written again can be cut short: nothing is, or nothing fails.
Undisturbed == scope.faults = 0 \/ NoneAgain

\* Two headers whose texts do not run into each other.
Apart(h, g) == h.at + h.len <= g.at \/ g.at + g.len <= h.at

\* A header that leads to its own subfields and the whole of its text.
Sure(h) == h.subs = h.of /\ Whole(h, Len(jdt))

\* The text in the making runs into no message's.
ClearOf(j) == \A q \in Live \ {j.record} : Apart(j.head, jhr[jdx[q]])

\* What is written again keeps the message's seen mark.
KeepsOf(j) == j.was \in Header /\ j.head.seen = j.was.seen

Tells ==
    scope.faults = 0 =>
        /\ \A r \in Live : Again(r) \/ Sure(jhr[jdx[r]])
        /\ \A r, q \in Live :
              r # q /\ ~ Again(r) /\ ~ Again(q) => Apart(jhr[jdx[r]], jhr[jdx[q]])
        /\ \A p \in Proc : lock = p /\ pc[p] \in Making =>
              /\ ClearOf(job[p])
              /\ job[p].kind = "replace" => KeepsOf(job[p])
-----------------------------------------------------------------------------

\* --------------------------------------------------------------------------
\* Lists

\* A nonempty set of numbers has a least one.
LEMMA LeastNumber ==
    ASSUME NEW T \in SUBSET Nat, T # {}
    PROVE  \E n \in T : \A m \in T : n <= m
<1>1. PICK n \in T : \A m \in T : ~ (<<m, n>> \in OpToRel(<, Nat))
  BY WFMin, NatLessThanWellFounded
<1>2. \A m \in T : ~ (m < n)
  BY <1>1 DEF OpToRel
<1> QED
  BY <1>2

LEMMA MinOfNumbers ==
    ASSUME NEW T \in SUBSET Nat, T # {}
    PROVE  Min(T) \in T
<1>1. \E n \in T : \A m \in T : n <= m
  BY LeastNumber
<1> QED
  BY <1>1 DEF Min

LEMMA Entries ==
    ASSUME NEW S, NEW s \in Seq(S)
    PROVE  /\ DOMAIN s = 1 .. Len(s) /\ Len(s) \in Nat
           /\ \A i \in DOMAIN s : s[i] \in S
OBVIOUS

\* What a list is when one of its entries is written, or one more.
Changed(s, r, n, v) ==
    /\ DOMAIN r = DOMAIN s /\ Len(r) = Len(s)
    /\ r[n] = v
    /\ \A i \in DOMAIN s : i # n => r[i] = s[i]

LEMMA SetOne ==
    ASSUME NEW S, NEW s \in Seq(S), NEW n \in DOMAIN s, NEW v \in S
    PROVE  [s EXCEPT ![n] = v] \in Seq(S) /\ Changed(s, [s EXCEPT ![n] = v], n, v)
BY DEF Changed

Longer(s, r, v) ==
    /\ Len(r) = Len(s) + 1 /\ DOMAIN r = 1 .. Len(s) + 1
    /\ r[Len(s) + 1] = v
    /\ \A i \in DOMAIN s : r[i] = s[i]

LEMMA AddOne ==
    ASSUME NEW S, NEW s \in Seq(S), NEW v \in S
    PROVE  Append(s, v) \in Seq(S) /\ Longer(s, Append(s, v), v)
BY DEF Longer

Shorter(s, r, n) ==
    /\ Len(r) = n /\ DOMAIN r = 1 .. n
    /\ \A i \in 1 .. n : r[i] = s[i]

LEMMA CutTo ==
    ASSUME NEW S, NEW s \in Seq(S), NEW n \in 0 .. Len(s)
    PROVE  SubSeq(s, 1, n) \in Seq(S) /\ Shorter(s, SubSeq(s, 1, n), n)
BY DEF Shorter

\* A list gathered up to place m: what val has at the places to keep.
Gathers(val, keep, m, up) ==
    up = [n \in 0 .. m |-> IF n = 0 THEN <<>>
                           ELSE IF n \in keep THEN Append(up[n - 1], val[n])
                           ELSE up[n - 1]]

\* The same, case by case.
StepByStep(val, keep, m, up) ==
    /\ up[0] = <<>>
    /\ \A n \in 1 .. m : n \in keep => up[n] = Append(up[n - 1], val[n])
    /\ \A n \in 1 .. m : n \notin keep => up[n] = up[n - 1]

LEMMA GathersStep ==
    ASSUME NEW val, NEW keep, NEW m \in Nat, NEW up, Gathers(val, keep, m, up)
    PROVE  StepByStep(val, keep, m, up)
<1> DEFINE F(n) == IF n = 0 THEN <<>>
                   ELSE IF n \in keep THEN Append(up[n - 1], val[n])
                   ELSE up[n - 1]
<1>1. up = [n \in 0 .. m |-> F(n)]
  BY DEF Gathers
<1>2. \A n \in 0 .. m : up[n] = F(n)
  <2> HIDE DEF F
  <2> QED
    BY <1>1
<1>3. up[0] = F(0) /\ \A n \in 1 .. m : up[n] = F(n) /\ n # 0
  BY <1>2
<1> QED
  BY <1>3 DEF StepByStep

LEMMA GathersExists ==
    ASSUME NEW val, NEW keep, NEW m \in Nat
    PROVE  \E up : Gathers(val, keep, m, up)
<1> DEFINE T == {k \in Nat : ~ \E up : Gathers(val, keep, k, up)}
<1>1. SUFFICES ASSUME T # {} PROVE FALSE
  OBVIOUS
<1>2. PICK n \in T : \A k \in T : n <= k
  BY <1>1, LeastNumber
<1>3. CASE n = 0
  <2> DEFINE up == [k \in 0 .. 0 |-> <<>>]
  <2>1. Gathers(val, keep, 0, up)
    BY DEF Gathers
  <2> QED
    BY <2>1, <1>3
<1>4. CASE n # 0
  <2>1. n \in Nat /\ n - 1 \in Nat /\ n - 1 \notin T
    BY <1>2, <1>4
  <2>2. PICK up : Gathers(val, keep, n - 1, up)
    BY <2>1
  <2>a. /\ up[0] = <<>>
        /\ \A k \in 1 .. n - 1 : k \in keep => up[k] = Append(up[k - 1], val[k])
        /\ \A k \in 1 .. n - 1 : k \notin keep => up[k] = up[k - 1]
    <3> HIDE DEF T
    <3>1. StepByStep(val, keep, n - 1, up)
      BY <2>1, <2>2, GathersStep
    <3> QED
      BY <3>1 DEF StepByStep
  <2> DEFINE next == [k \in 0 .. n |->
                        IF k = n THEN IF n \in keep THEN Append(up[n - 1], val[n])
                                      ELSE up[n - 1]
                        ELSE up[k]]
  <2>3. \A k \in 0 .. n - 1 : next[k] = up[k] /\
            up[k] = IF k = 0 THEN <<>>
                    ELSE IF k \in keep THEN Append(up[k - 1], val[k])
                    ELSE up[k - 1]
    <3>1. ASSUME NEW k \in 0 .. n - 1 PROVE next[k] = up[k]
      BY <2>1
    <3>3. \A k \in 0 .. n - 1 : k = 0 \/ k \in 1 .. n - 1
      BY <2>1
    <3> HIDE DEF next
    <3> QED
      BY <2>a, <3>1, <3>3
  <2>4. ASSUME NEW k \in 0 .. n
        PROVE  next[k] = IF k = 0 THEN <<>>
                         ELSE IF k \in keep THEN Append(next[k - 1], val[k])
                         ELSE next[k - 1]
    <3>1. CASE k = n
      <4>1. next[n] = IF n \in keep THEN Append(up[n - 1], val[n]) ELSE up[n - 1]
        BY <2>1
      <4>2. next[n - 1] = up[n - 1]
        BY <2>1, <2>3
      <4>3. next[n] = IF n = 0 THEN <<>>
                      ELSE IF n \in keep THEN Append(next[n - 1], val[n])
                      ELSE next[n - 1]
        <5> HIDE DEF next
        <5> QED
          BY <4>1, <4>2, <1>4
      <4> HIDE DEF next
      <4> QED
        BY <4>3, <3>1
    <3>2. CASE k # n
      <4>1. k \in 0 .. n - 1
        BY <3>2, <2>1
      <4>2. k = 0 \/ k - 1 \in 0 .. n - 1
        BY <4>1, <2>1
      <4>3. next[k] = IF k = 0 THEN <<>>
                      ELSE IF k \in keep THEN Append(up[k - 1], val[k])
                      ELSE up[k - 1]
        BY <4>1, <2>3
      <4>4. k # 0 => next[k - 1] = up[k - 1]
        BY <4>2, <2>3
      <4> HIDE DEF next
      <4> QED
        BY <4>3, <4>4
    <3> QED
      BY <3>1, <3>2
  <2>5. DOMAIN next = 0 .. n
    OBVIOUS
  <2>6. next = [k \in 0 .. n |-> next[k]]
    OBVIOUS
  <2> HIDE DEF next
  <2>7. Gathers(val, keep, n, next)
    BY <2>4, <2>6 DEF Gathers
  <2> QED
    BY <2>7, <1>2
<1> QED
  BY <1>3, <1>4

\* Everything in the list comes from a place that was to be kept.
Gathered(S, val, keep, list) ==
    /\ list \in Seq(S)
    /\ \A i \in DOMAIN list : \E n \in keep : list[i] = val[n]

LEMMA GathersOnly ==
    ASSUME NEW S, NEW val, NEW m \in Nat, NEW keep \in SUBSET (1 .. m),
           \A n \in keep : val[n] \in S,
           NEW up, Gathers(val, keep, m, up)
    PROVE  Gathered(S, val, keep, up[m])
<1>b. /\ up[0] = <<>>
      /\ \A n \in 1 .. m : n \in keep => up[n] = Append(up[n - 1], val[n])
      /\ \A n \in 1 .. m : n \notin keep => up[n] = up[n - 1]
  <2>1. StepByStep(val, keep, m, up)
    BY GathersStep
  <2> QED
    BY <2>1 DEF StepByStep
<1> DEFINE T == {k \in 0 .. m : ~ Gathered(S, val, keep, up[k])}
<1>1. SUFFICES ASSUME T # {} PROVE FALSE
  <2>1. m \in 0 .. m
    OBVIOUS
  <2> QED
    BY <2>1
<1>2. PICK n \in T : \A k \in T : n <= k
  <2>1. T \in SUBSET Nat
    OBVIOUS
  <2> HIDE DEF T
  <2> QED
    BY <1>1, <2>1, LeastNumber
<1>3. CASE n = 0
  <2>1. Gathered(S, val, keep, <<>>)
    BY DEF Gathered
  <2> QED
    BY <2>1, <1>3, <1>b
<1>4. CASE n # 0
  <2>1. n \in 1 .. m /\ n - 1 \in 0 .. m /\ n - 1 \notin T
    <3>1. n \in 0 .. m
      OBVIOUS
    <3>2. n \in 1 .. m /\ n - 1 \in 0 .. m /\ ~ (n <= n - 1)
      BY <3>1, <1>4
    <3> HIDE DEF T
    <3> QED
      BY <3>2, <1>2
  <2>2. Gathered(S, val, keep, up[n - 1])
    BY <2>1
  <2>3. CASE n \in keep
    <3>1. up[n] = Append(up[n - 1], val[n]) /\ val[n] \in S
      BY <2>1, <2>3, <1>b
    <3> DEFINE s == up[n - 1]
    <3>2. s \in Seq(S) /\ \A i \in DOMAIN s : \E k \in keep : s[i] = val[k]
      BY <2>2 DEF Gathered
    <3> HIDE DEF s
    <3>3. Append(s, val[n]) \in Seq(S) /\ Longer(s, Append(s, val[n]), val[n])
      BY <3>1, <3>2, AddOne
    <3>4. \A i \in DOMAIN Append(s, val[n]) : i \in DOMAIN s \/ i = Len(s) + 1
      BY <3>2, <3>3, Entries DEF Longer
    <3>5. \A i \in DOMAIN Append(s, val[n]) : \E k \in keep : Append(s, val[n])[i] = val[k]
      BY <3>2, <3>3, <3>4, <2>3 DEF Longer
    <3>6. Gathered(S, val, keep, Append(s, val[n]))
      BY <3>3, <3>5 DEF Gathered
    <3> QED
      BY <3>6, <3>1 DEF s
  <2>4. CASE n \notin keep
    BY <2>1, <2>2, <2>4, <1>b
  <2> QED
    BY <2>3, <2>4
<1> QED
  BY <1>3, <1>4

\* What loadActive() lists: each entry has its record, where the record says
\* its header is, and that header, which is not marked deleted.
Lists(index, headers, list) ==
    /\ list \in Seq(ActiveMessage)
    /\ \A i \in DOMAIN list :
          /\ list[i].record \in DOMAIN index
          /\ list[i].headerOffset = index[list[i].record]
          /\ list[i].headerOffset \in DOMAIN headers
          /\ list[i].header = headers[list[i].headerOffset]
          /\ ~ list[i].header.gone

\* What loadActive() gathers, and where from.
MessagesIn(index, headers) ==
    [r \in DOMAIN index |-> [record |-> r, headerOffset |-> index[r],
                             header |-> headers[index[r]]]]
LiveIn(index, headers) == {r \in DOMAIN index : IsLive(index, headers, r)}

LEMMA LoadGathers ==
    ASSUME NEW index \in Seq(Nat), NEW headers
    PROVE  \E up : /\ Gathers(MessagesIn(index, headers), LiveIn(index, headers), Len(index), up)
                   /\ LoadActive(index, headers) = up[Len(index)]
<1> DEFINE Message(r) == [record |-> r, headerOffset |-> index[r],
                          header |-> headers[index[r]]]
           val == MessagesIn(index, headers)
           keep == LiveIn(index, headers)
           Runs(f) == f = [r \in 0 .. Len(index) |->
                            IF r = 0 THEN <<>>
                            ELSE IF IsLive(index, headers, r)
                                 THEN Append(f[r - 1], Message(r))
                            ELSE f[r - 1]]
           up == CHOOSE f : Runs(f)
<1>1. Len(index) \in Nat /\ DOMAIN index = 1 .. Len(index)
  OBVIOUS
<1>2. \A r \in 0 .. Len(index) : r # 0 =>
          (IsLive(index, headers, r) <=> r \in keep) /\ Message(r) = val[r]
  <2>1. \A r \in 0 .. Len(index) : r # 0 => r \in DOMAIN index
    BY <1>1
  <2> QED
    BY <2>1 DEF MessagesIn, LiveIn
<1>3. ASSUME NEW f PROVE Runs(f) <=> Gathers(val, keep, Len(index), f)
  <2> HIDE DEF val, keep, Message
  <2>1. [r \in 0 .. Len(index) |-> IF r = 0 THEN <<>>
                                   ELSE IF IsLive(index, headers, r)
                                        THEN Append(f[r - 1], Message(r))
                                   ELSE f[r - 1]]
        = [r \in 0 .. Len(index) |-> IF r = 0 THEN <<>>
                                     ELSE IF r \in keep THEN Append(f[r - 1], val[r])
                                     ELSE f[r - 1]]
    BY <1>2
  <2> QED
    BY <2>1 DEF Gathers
<1>4. Gathers(val, keep, Len(index), up)
  <2>1. \E f : Runs(f)
    <3> HIDE DEF val, keep, Runs
    <3> QED
      BY <1>1, <1>3, GathersExists
  <2>2. Runs(up)
    <3> HIDE DEF Runs
    <3> QED
      BY <2>1
  <2> QED
    BY <1>3, <2>2
<1>5. LoadActive(index, headers) = up[Len(index)]
  BY Zenon DEF LoadActive
<1> HIDE DEF up, val, keep
<1> QED
  BY <1>4, <1>5 DEF val, keep

LEMMA Loaded ==
    ASSUME NEW index \in Seq(Nat), NEW headers \in Seq(Header),
           Len(headers) <= MaxHeader
    PROVE  Lists(index, headers, LoadActive(index, headers))
<1> DEFINE Message(r) == [record |-> r, headerOffset |-> index[r],
                          header |-> headers[index[r]]]
           val == MessagesIn(index, headers)
           keep == LiveIn(index, headers)
<1>1. Len(index) \in Nat /\ DOMAIN index = 1 .. Len(index)
  OBVIOUS
<1>4. PICK up : /\ Gathers(val, keep, Len(index), up)
                /\ LoadActive(index, headers) = up[Len(index)]
  BY LoadGathers
<1>6. \A r \in keep : /\ val[r] \in ActiveMessage
                      /\ val[r].record = r
                      /\ val[r].headerOffset = index[r]
                      /\ index[r] \in DOMAIN headers
                      /\ val[r].header = headers[index[r]]
                      /\ ~ val[r].header.gone
  <2>1. ASSUME NEW r \in keep
        PROVE  /\ r \in DOMAIN index /\ r \in Nat
               /\ index[r] \in DOMAIN headers /\ ~ headers[index[r]].gone
    BY <1>1 DEF IsLive, LiveIn
  <2>2. ASSUME NEW r \in keep
        PROVE  index[r] \in HeaderAt /\ headers[index[r]] \in Header
    <3>1. DOMAIN headers = 1 .. Len(headers) /\ Len(headers) \in Nat
      OBVIOUS
    <3> HIDE DEF keep
    <3> QED
      BY <2>1, <3>1, JamBoundsAssumption DEF HeaderAt
  <2>3. ASSUME NEW r \in keep PROVE val[r] = Message(r)
    BY <2>1 DEF MessagesIn
  <2>4. ASSUME NEW r \in keep
        PROVE  Message(r) \in ActiveMessage
    <3> HIDE DEF keep
    <3> QED
      BY <2>1, <2>2 DEF ActiveMessage
  <2>5. ASSUME NEW r
        PROVE  /\ Message(r).record = r
               /\ Message(r).headerOffset = index[r]
               /\ Message(r).header = headers[index[r]]
    OBVIOUS
  <2> HIDE DEF keep, val, Message
  <2> QED
    BY <2>1, <2>3, <2>4, <2>5
<1> HIDE DEF val
<1>7. keep \in SUBSET (1 .. Len(index))
  BY <1>1 DEF LiveIn
<1> HIDE DEF keep
<1>8. Gathered(ActiveMessage, val, keep, up[Len(index)])
  BY <1>1, <1>4, <1>6, <1>7, GathersOnly
<1>9. Gathered(ActiveMessage, val, keep, LoadActive(index, headers))
  BY <1>4, <1>8
<1> HIDE DEF Message
<1>a. \A r \in keep : r \in DOMAIN index
  BY <1>1, <1>7
<1> QED
  BY <1>6, <1>9, <1>a, SMTT(20) DEF Gathered, Lists

LEMMA WithoutOne ==
    ASSUME NEW messages \in Seq(ActiveMessage), NEW record
    PROVE  /\ Without(messages, record) \in Seq(ActiveMessage)
           /\ \A i \in DOMAIN Without(messages, record) :
                \E n \in DOMAIN messages : Without(messages, record)[i] = messages[n]
<1> DEFINE keep == {n \in DOMAIN messages : messages[n].record # record}
           Runs(f) == f = [n \in 0 .. Len(messages) |->
                            IF n = 0 THEN <<>>
                            ELSE IF messages[n].record = record THEN f[n - 1]
                            ELSE Append(f[n - 1], messages[n])]
           up == CHOOSE f : Runs(f)
<1>1. /\ Len(messages) \in Nat /\ DOMAIN messages = 1 .. Len(messages)
      /\ \A n \in DOMAIN messages : messages[n] \in ActiveMessage
  OBVIOUS
<1>2. \A n \in 0 .. Len(messages) : n # 0 => (messages[n].record # record <=> n \in keep)
  <2>1. \A n \in 0 .. Len(messages) : n # 0 => n \in DOMAIN messages
    BY <1>1
  <2> QED
    BY <2>1
<1>3. ASSUME NEW f PROVE Runs(f) <=> Gathers(messages, keep, Len(messages), f)
  <2> HIDE DEF keep
  <2>1. [n \in 0 .. Len(messages) |-> IF n = 0 THEN <<>>
                                      ELSE IF messages[n].record = record THEN f[n - 1]
                                      ELSE Append(f[n - 1], messages[n])]
        = [n \in 0 .. Len(messages) |-> IF n = 0 THEN <<>>
                                        ELSE IF n \in keep THEN Append(f[n - 1], messages[n])
                                        ELSE f[n - 1]]
    BY <1>2
  <2> QED
    BY <2>1 DEF Gathers
<1>4. Gathers(messages, keep, Len(messages), up)
  <2>1. \E f : Runs(f)
    <3> HIDE DEF keep, Runs
    <3> QED
      BY <1>1, <1>3, GathersExists
  <2>2. Runs(up)
    <3> HIDE DEF Runs
    <3> QED
      BY <2>1
  <2> QED
    BY <1>3, <2>2
<1>5. Without(messages, record) = up[Len(messages)]
  BY Zenon DEF Without
<1>6. keep \in SUBSET (1 .. Len(messages)) /\ \A n \in keep : n \in DOMAIN messages
  BY <1>1
<1> HIDE DEF up, keep
<1>7. Gathered(ActiveMessage, messages, keep, up[Len(messages)])
  BY <1>1, <1>4, <1>6, GathersOnly
<1> QED
  BY <1>5, <1>6, <1>7 DEF Gathered

\* --------------------------------------------------------------------------
\* What types say of the fields

LEMMA HeaderFields ==
    ASSUME NEW h \in Header
    PROVE  /\ h.of \in Text /\ h.subs \in Text \cup {NoText}
           /\ h.seen \in BOOLEAN /\ h.rcvd \in BOOLEAN /\ h.gone \in BOOLEAN
           /\ h.at \in Nat /\ h.len \in Nat
BY DEF Header

LEMMA JobFields ==
    ASSUME NEW j \in Job
    PROVE  /\ j.kind \in {"none", "write", "replace", "remove", "seen", "rcvd"}
           /\ j.drafts \in Seq(Text) /\ j.offset \in Nat /\ j.old \in Nat
           /\ j.record \in Nat /\ j.targets \in SUBSET Nat /\ j.done \in Nat
           /\ j.index \in Seq(Nat) /\ j.records \in Nat /\ j.headers \in Nat
BY DEF Job

LEMMA MessageFields ==
    ASSUME NEW m \in ActiveMessage
    PROVE  m.record \in Nat /\ m.headerOffset \in HeaderAt /\ m.header \in Header
BY DEF ActiveMessage

LEMMA Lengths ==
    ASSUME NEW t \in Text
    PROVE  /\ TextLen[t] \in Nat /\ TextLen[t] > 0
           /\ SubsLen[t] \in Nat /\ SubsLen[t] > 0
BY LengthsAssumption

LEMMA NoJobTyped == NoJob \in Job
<1>1. <<>> \in Seq(Text) /\ <<>> \in Seq(Nat)
  OBVIOUS
<1> QED
  BY <1>1 DEF NoJob, Job

LEMMA ScopeBounds ==
    ASSUME scope \in Scopes
    PROVE  /\ scope.procs \subseteq Proc
           /\ scope.texts \subseteq Text
           /\ scope.headers \in Nat /\ scope.headers <= MaxHeader /\ MaxHeader \in Nat
           /\ scope.faults \in Nat
<1>1. /\ MaxHeader \in Nat
      /\ scope.procs \subseteq Proc /\ scope.texts \subseteq Text
      /\ scope.headers \in 0 .. MaxHeader /\ scope.faults \in Nat
  BY JamBoundsAssumption
<1> QED
  BY <1>1

\* --------------------------------------------------------------------------
\* The shape of a step

DiskOK ==
    /\ jhr \in Seq(Header) /\ Len(jhr) <= MaxHeader
    /\ jdx \in Seq(0 .. MaxHeader)
    /\ jdt \in Seq(Text)
    /\ active \in Nat

\* The same, entry by entry.
Shape ==
    /\ DOMAIN jhr = 1 .. Len(jhr) /\ Len(jhr) \in Nat
    /\ DOMAIN jdx = 1 .. Len(jdx) /\ Len(jdx) \in Nat
    /\ DOMAIN jdt = 1 .. Len(jdt) /\ Len(jdt) \in Nat
    /\ \A h \in DOMAIN jhr : jhr[h] \in Header
    /\ \A h \in DOMAIN jhr : jhr[h].at \in Nat /\ jhr[h].len \in Nat
    /\ \A r \in DOMAIN jdx : jdx[r] \in Nat /\ jdx[r] <= MaxHeader
    /\ \A i \in DOMAIN jdt : jdt[i] \in Text

LEMMA ShapeOfDisk ==
    ASSUME DiskOK PROVE Shape
<1>1. /\ DOMAIN jhr = 1 .. Len(jhr) /\ Len(jhr) \in Nat
      /\ \A h \in DOMAIN jhr : jhr[h] \in Header
  BY Entries DEF DiskOK
<1>2. /\ DOMAIN jdx = 1 .. Len(jdx) /\ Len(jdx) \in Nat
      /\ \A r \in DOMAIN jdx : jdx[r] \in 0 .. MaxHeader
  BY Entries DEF DiskOK
<1>3. /\ DOMAIN jdt = 1 .. Len(jdt) /\ Len(jdt) \in Nat
      /\ \A i \in DOMAIN jdt : jdt[i] \in Text
  BY Entries DEF DiskOK
<1>4. \A h \in DOMAIN jhr : jhr[h].at \in Nat /\ jhr[h].len \in Nat
  BY <1>1, HeaderFields
<1>5. \A r \in DOMAIN jdx : jdx[r] \in Nat /\ jdx[r] <= MaxHeader
  BY <1>2, JamBoundsAssumption
<1> QED
  BY <1>1, <1>2, <1>3, <1>4, <1>5 DEF Shape

LEMMA DiskNow ==
    ASSUME Bound PROVE DiskOK /\ Shape
<1>1. DiskOK
  BY DEF Bound, TypeOK, DiskOK
<1> QED
  BY <1>1, ShapeOfDisk

\* A step of p leaves what the others keep for themselves alone.
StepBy(p) ==
    /\ pc' \in [Proc -> PC] /\ job' \in [Proc -> Job]
    /\ table' \in [Proc -> Seq(ActiveMessage)]
    /\ \A q \in Proc : q # p =>
          pc'[q] = pc[q] /\ job'[q] = job[q] /\ table'[q] = table[q]
    /\ scope' = scope
    /\ faults' \in 0 .. scope.faults

\* p has the lock before or after, or nobody has; or p only reads.
Writes(p) ==
    /\ lock \in {p, NoProc} /\ lock' \in {p, NoProc}
    /\ pc'[p] # "sized"
    /\ pc'[p] \in Writing <=> lock' = p
    /\ lock' = p => WorkOf(job[p], pc[p])'

Reads(p) ==
    /\ UNCHANGED <<disk, lock>>
    /\ pc[p] \notin Writing /\ pc'[p] \notin Writing
    /\ pc'[p] = "sized" => job'[p].records <= Len(jdx)

LEMMA BoundStep ==
    ASSUME Bound, NEW p \in Proc, StepBy(p), DiskOK', Len(jdx) <= Len(jdx'),
           Refs', Texts', Writes(p) \/ Reads(p)
    PROVE  Bound'
<1>0. p # NoProc /\ NoProc \notin Proc
  BY JamMarkerAssumption
<1>1. TypeOK'
  <2>1. lock' \in Proc \cup {NoProc}
    BY DEF Writes, Reads, Bound, TypeOK
  <2> QED
    BY <2>1 DEF StepBy, TypeOK, DiskOK
<1>2. (scope \in Scopes)'
  BY DEF StepBy, Bound
<1>3. Held'
  <2>1. ASSUME NEW q \in Proc PROVE pc'[q] \in Writing <=> lock' = q
    <3>1. CASE q = p
      <4>1. CASE Writes(p)
        BY <4>1, <3>1 DEF Writes
      <4>2. CASE Reads(p)
        BY <4>2, <3>1 DEF Reads, Bound, Held
      <4> QED
        BY <4>1, <4>2
    <3>2. CASE q # p
      <4>1. pc'[q] = pc[q] /\ (pc[q] \in Writing <=> lock = q)
        BY <3>2 DEF StepBy, Bound, Held
      <4>2. lock = q <=> lock' = q
        BY <3>2, <1>0 DEF Writes, Reads
      <4> QED
        BY <4>1, <4>2
    <3> QED
      BY <3>1, <3>2
  <2> QED
    BY <2>1 DEF Held
<1>4. Sized'
  <2>0. Len(jdx) \in Nat /\ Len(jdx') \in Nat
    <3>1. Shape /\ Shape'
      <4>1. Shape'
        BY ShapeOfDisk, PTL
      <4> QED
        BY <4>1, DiskNow
    <3> QED
      BY <3>1 DEF Shape
  <2>1. ASSUME NEW q \in Proc, pc'[q] = "sized" PROVE job'[q].records <= Len(jdx')
    <3>1. CASE q = p
      <4>1. Reads(p)
        BY <2>1, <3>1 DEF Writes
      <4> QED
        BY <4>1, <3>1, <2>1 DEF Reads, disk
    <3>2. CASE q # p
      <4>1. job'[q] = job[q] /\ job[q].records <= Len(jdx) /\ job[q] \in Job
        BY <3>2, <2>1 DEF StepBy, Bound, Sized, TypeOK
      <4>2. job[q].records \in Nat
        BY <4>1, JobFields
      <4> QED
        BY <4>1, <4>2, <2>0
    <3> QED
      BY <3>1, <3>2
  <2> QED
    BY <2>1 DEF Sized
<1>5. Work'
  <2>1. ASSUME NEW q \in Proc, lock' = q PROVE WorkOf(job[q], pc[q])'
    <3>1. CASE Writes(p)
      <4>1. q = p
        BY <3>1, <2>1, <1>0 DEF Writes
      <4> QED
        BY <4>1, <3>1, <2>1 DEF Writes
    <3>2. CASE Reads(p)
      <4>1. lock = q /\ q # p
        BY <3>2, <2>1 DEF Reads, Bound, Held
      <4>2. WorkOf(job[q], pc[q]) /\ pc'[q] = pc[q] /\ job'[q] = job[q]
        BY <4>1 DEF Bound, Work, StepBy
      <4>3. jhr' = jhr /\ jdx' = jdx /\ jdt' = jdt /\ scope' = scope
        BY <3>2 DEF Reads, disk, StepBy
      <4> QED
        BY <4>2, <4>3
           DEF WorkOf, MakingOf, AddingOf, AgainOf, OldHeadOf, RemovingOf,
               PatchOf, InfoOf, Whole
    <3> QED
      BY <3>1, <3>2
  <2> QED
    BY <2>1 DEF Work
<1> QED
  BY <1>1, <1>2, <1>3, <1>4, <1>5 DEF Bound

LEMMA OnlyOne ==
    ASSUME NEW S, NEW f \in [Proc -> S], NEW p \in Proc, NEW v \in S
    PROVE  /\ [f EXCEPT ![p] = v] \in [Proc -> S]
           /\ [f EXCEPT ![p] = v][p] = v
           /\ \A q \in Proc : q # p => [f EXCEPT ![p] = v][q] = f[q]
OBVIOUS

\* What a step does to the process that takes it.
LEMMA Effect ==
    ASSUME TypeOK, NEW p \in Proc, NEW j \in Job, NEW there \in PC,
           NEW t \in Seq(ActiveMessage),
           job' = [job EXCEPT ![p] = j], pc' = [pc EXCEPT ![p] = there],
           table' = [table EXCEPT ![p] = t],
           scope' = scope, faults' \in 0 .. scope.faults
    PROVE  StepBy(p) /\ job'[p] = j /\ pc'[p] = there /\ table'[p] = t
<1>1. /\ pc \in [Proc -> PC] /\ job \in [Proc -> Job]
      /\ table \in [Proc -> Seq(ActiveMessage)]
  BY DEF TypeOK
<1>2. pc' \in [Proc -> PC] /\ pc'[p] = there /\ \A q \in Proc : q # p => pc'[q] = pc[q]
  BY <1>1, OnlyOne
<1>3. job' \in [Proc -> Job] /\ job'[p] = j /\ \A q \in Proc : q # p => job'[q] = job[q]
  BY <1>1, OnlyOne
<1>4. /\ table' \in [Proc -> Seq(ActiveMessage)] /\ table'[p] = t
      /\ \A q \in Proc : q # p => table'[q] = table[q]
  BY <1>1, OnlyOne
<1> QED
  BY <1>2, <1>3, <1>4 DEF StepBy

\* What a process has when a step does not touch it.
LEMMA Own ==
    ASSUME TypeOK, NEW p \in Proc
    PROVE  /\ job[p] \in Job /\ job = [job EXCEPT ![p] = job[p]]
           /\ pc[p] \in PC /\ pc = [pc EXCEPT ![p] = pc[p]]
           /\ table[p] \in Seq(ActiveMessage) /\ table = [table EXCEPT ![p] = table[p]]
BY DEF TypeOK

\* What a step has whose disk is as it was.
LEMMA SameDisk ==
    ASSUME Bound, UNCHANGED disk
    PROVE  DiskOK' /\ Len(jdx) <= Len(jdx') /\ Refs' /\ Texts'
<1>1. jhr' = jhr /\ jdx' = jdx /\ jdt' = jdt /\ active' = active
  BY DEF disk
<1>2. DiskOK /\ Shape
  BY DiskNow
<1>3. Refs /\ Texts
  BY DEF Bound
<1>4. DiskOK'
  BY <1>1, <1>2 DEF DiskOK
<1>5. Refs' /\ Texts'
  BY <1>1, <1>3 DEF Refs, Texts
<1>6. Len(jdx) <= Len(jdx')
  BY <1>1, <1>2 DEF Shape
<1> QED
  BY <1>4, <1>5, <1>6

LEMMA FaultsStay ==
    ASSUME Bound, scope' = scope, faults' = faults
    PROVE  faults' \in 0 .. scope.faults
BY DEF Bound, TypeOK

LEMMA IndexTyped ==
    ASSUME DiskOK PROVE jdx \in Seq(Nat)
<1>1. jdx \in Seq(0 .. MaxHeader) /\ MaxHeader \in Nat
  BY JamBoundsAssumption DEF DiskOK
<1> QED
  BY <1>1

LEMMA Reloaded ==
    ASSUME Bound PROVE Lists(jdx, jhr, Reload)
<1>1. DiskOK
  BY DiskNow
<1>2. jhr \in Seq(Header) /\ Len(jhr) <= MaxHeader
  BY <1>1 DEF DiskOK
<1> QED
  BY <1>1, <1>2, IndexTyped, Loaded DEF Reload

\* --------------------------------------------------------------------------
\* Opening and closing

Quiet(p, j, there, t) ==
    /\ pc[p] \notin Writing
    /\ UNCHANGED <<disk, lock>>
    /\ StepBy(p) /\ job'[p] = j /\ pc'[p] = there /\ table'[p] = t

LEMMA SizeFilesQuiet ==
    ASSUME Bound, scope' = scope, NEW p \in Proc, SizeFiles(p)
    PROVE  Quiet(p, [NoJob EXCEPT !.records = Len(jdx), !.headers = Len(jhr)],
                 "sized", table[p])
<1> DEFINE j == [NoJob EXCEPT !.records = Len(jdx), !.headers = Len(jhr)]
<1>1. j \in Job
  <2>1. Len(jdx) \in Nat /\ Len(jhr) \in Nat
    BY DiskNow DEF Shape
  <2> QED
    BY <2>1, NoJobTyped DEF NoJob, Job
<1>2. TypeOK
  BY DEF Bound
<1>3. table[p] \in Seq(ActiveMessage) /\ table = [table EXCEPT ![p] = table[p]]
  BY <1>2, Own
<1>4. /\ pc[p] = "closed" /\ job' = [job EXCEPT ![p] = j]
      /\ pc' = [pc EXCEPT ![p] = "sized"]
      /\ table' = table /\ UNCHANGED <<disk, lock>> /\ faults' = faults
  BY DEF SizeFiles, At, Goto
<1>5. faults' \in 0 .. scope.faults
  BY <1>4, FaultsStay
<1>6. "sized" \in PC /\ "closed" \notin Writing
  BY DEF PC, Writing, Making
<1> HIDE DEF j
<1>7. StepBy(p) /\ job'[p] = j /\ pc'[p] = "sized" /\ table'[p] = table[p]
  BY <1>1, <1>2, <1>3, <1>4, <1>5, <1>6, Effect
<1>8. Quiet(p, j, "sized", table[p])
  BY <1>4, <1>6, <1>7 DEF Quiet
<1> QED
  BY <1>8 DEF j

LEMMA ReadIndexQuiet ==
    ASSUME Bound, scope' = scope, NEW p \in Proc, ReadIndex(p)
    PROVE  Quiet(p, [job[p] EXCEPT !.index = SubSeq(jdx, 1, job[p].records)],
                 "indexed", table[p])
<1> DEFINE j == [job[p] EXCEPT !.index = SubSeq(jdx, 1, job[p].records)]
<1>2. TypeOK
  BY DEF Bound
<1>3. /\ table[p] \in Seq(ActiveMessage) /\ table = [table EXCEPT ![p] = table[p]]
      /\ job[p] \in Job
  BY <1>2, Own
<1>4. /\ pc[p] = "sized" /\ job' = [job EXCEPT ![p] = j]
      /\ pc' = [pc EXCEPT ![p] = "indexed"]
      /\ table' = table /\ UNCHANGED <<disk, lock>> /\ faults' = faults
  BY <1>2 DEF ReadIndex, At, Goto, TypeOK
<1>1. j \in Job
  <2>1. job[p].records \in Nat /\ job[p].records <= Len(jdx)
    BY <1>3, <1>4, JobFields DEF Bound, Sized
  <2>2. Len(jdx) \in Nat /\ jdx \in Seq(Nat)
    BY DiskNow, IndexTyped DEF Shape
  <2>3. SubSeq(jdx, 1, job[p].records) \in Seq(Nat)
    BY <2>1, <2>2, CutTo
  <2> QED
    BY <2>3, <1>3 DEF Job
<1>5. faults' \in 0 .. scope.faults
  BY <1>4, FaultsStay
<1>6. "indexed" \in PC /\ "sized" \notin Writing
  BY DEF PC, Writing, Making
<1> HIDE DEF j
<1>7. StepBy(p) /\ job'[p] = j /\ pc'[p] = "indexed" /\ table'[p] = table[p]
  BY <1>1, <1>2, <1>3, <1>4, <1>5, <1>6, Effect
<1>8. Quiet(p, j, "indexed", table[p])
  BY <1>4, <1>6, <1>7 DEF Quiet
<1> QED
  BY <1>8 DEF j

\* What an opener lists, or the place it goes back to.
Opened(p) ==
    IF job[p].headers <= Len(jhr)
    THEN LoadActive(job[p].index, SubSeq(jhr, 1, job[p].headers))
    ELSE <<>>

LEMMA OpenedLists ==
    ASSUME Bound, NEW p \in Proc, job[p].headers <= Len(jhr)
    PROVE  /\ Shorter(jhr, SubSeq(jhr, 1, job[p].headers), job[p].headers)
           /\ Lists(job[p].index, SubSeq(jhr, 1, job[p].headers), Opened(p))
<1>1. DiskOK /\ Shape
  BY DiskNow
<1>2. job[p].headers \in 0 .. Len(jhr) /\ job[p].index \in Seq(Nat)
  <2>1. job[p] \in Job
    BY DEF Bound, TypeOK
  <2>2. job[p].headers \in Nat /\ job[p].index \in Seq(Nat)
    BY <2>1, JobFields
  <2> QED
    BY <2>2, <1>1 DEF Shape
<1> DEFINE cut == SubSeq(jhr, 1, job[p].headers)
<1>3. jhr \in Seq(Header) /\ Len(jhr) <= MaxHeader /\ Len(jhr) \in Nat /\ MaxHeader \in Nat
  BY <1>1, JamBoundsAssumption DEF DiskOK, Shape
<1>4. cut \in Seq(Header) /\ Shorter(jhr, cut, job[p].headers)
  BY <1>2, <1>3, CutTo
<1>5. Len(cut) <= MaxHeader
  BY <1>2, <1>3, <1>4 DEF Shorter
<1> HIDE DEF cut
<1>6. Lists(job[p].index, cut, LoadActive(job[p].index, cut))
  BY <1>2, <1>4, <1>5, Loaded
<1> QED
  BY <1>4, <1>6 DEF cut, Opened

LEMMA ReadHeadersQuiet ==
    ASSUME Bound, scope' = scope, NEW p \in Proc, ReadHeaders(p)
    PROVE  Quiet(p, NoJob,
                 IF job[p].headers <= Len(jhr) THEN "open" ELSE "closed", Opened(p))
<1> DEFINE there == IF job[p].headers <= Len(jhr) THEN "open" ELSE "closed"
<1>2. TypeOK
  BY DEF Bound
<1>3. Opened(p) \in Seq(ActiveMessage)
  <2>1. CASE job[p].headers <= Len(jhr)
    BY <2>1, OpenedLists DEF Lists
  <2>2. CASE ~ (job[p].headers <= Len(jhr))
    BY <2>2 DEF Opened
  <2> QED
    BY <2>1, <2>2
<1>4. /\ pc[p] = "indexed" /\ job' = [job EXCEPT ![p] = NoJob]
      /\ pc' = [pc EXCEPT ![p] = there]
      /\ table' = [table EXCEPT ![p] = Opened(p)]
      /\ UNCHANGED <<disk, lock>> /\ faults' = faults
  BY DEF ReadHeaders, At, Goto, Opened
<1>5. faults' \in 0 .. scope.faults
  BY <1>4, FaultsStay
<1>6. there \in PC /\ "indexed" \notin Writing
  BY DEF PC, Writing, Making
<1> HIDE DEF there
<1>7. StepBy(p) /\ job'[p] = NoJob /\ pc'[p] = there /\ table'[p] = Opened(p)
  BY <1>2, <1>3, <1>4, <1>5, <1>6, NoJobTyped, Effect
<1>8. Quiet(p, NoJob, there, Opened(p))
  BY <1>4, <1>6, <1>7 DEF Quiet
<1> QED
  BY <1>8 DEF there

LEMMA CloseQuiet ==
    ASSUME Bound, scope' = scope, NEW p \in Proc, Close(p)
    PROVE  Quiet(p, job[p], "closed", <<>>)
<1>2. TypeOK
  BY DEF Bound
<1>3. /\ job[p] \in Job /\ job = [job EXCEPT ![p] = job[p]]
      /\ <<>> \in Seq(ActiveMessage)
  BY <1>2, Own
<1>4. /\ pc[p] = "open" /\ job' = job
      /\ pc' = [pc EXCEPT ![p] = "closed"]
      /\ table' = [table EXCEPT ![p] = <<>>]
      /\ UNCHANGED <<disk, lock>> /\ faults' = faults
  BY DEF Close, At, Goto
<1>5. faults' \in 0 .. scope.faults
  BY <1>4, FaultsStay
<1>6. "closed" \in PC /\ "open" \notin Writing
  BY DEF PC, Writing, Making
<1>7. StepBy(p) /\ job'[p] = job[p] /\ pc'[p] = "closed" /\ table'[p] = <<>>
  BY <1>2, <1>3, <1>4, <1>5, <1>6, Effect
<1> QED
  BY <1>4, <1>6, <1>7 DEF Quiet

LEMMA QuietBound ==
    ASSUME Bound, NEW p \in Proc, NEW j, NEW there, NEW t, Quiet(p, j, there, t),
           there \notin Writing, there = "sized" => j.records <= Len(jdx)
    PROVE  Bound'
<1>1. Reads(p) /\ StepBy(p) /\ UNCHANGED disk
  BY DEF Quiet, Reads
<1> QED
  BY <1>1, SameDisk, BoundStep

\* --------------------------------------------------------------------------
\* A writing call begins

Begins(p, j, there) ==
    /\ lock = NoProc /\ lock' = p
    /\ pc[p] = "open"
    /\ UNCHANGED <<disk, faults>>
    /\ StepBy(p) /\ job'[p] = j /\ pc'[p] = there /\ table'[p] = Reload

LEMMA BeginsFrom ==
    ASSUME Bound, scope' = scope, NEW p \in Proc, NEW kind, Locked(p, kind),
           NEW j \in Job, NEW there \in PC, Begin(p, j, there)
    PROVE  Begins(p, j, there)
<1>1. TypeOK
  BY DEF Bound
<1>2. Reload \in Seq(ActiveMessage)
  BY Reloaded DEF Lists
<1>3. /\ pc[p] = "open" /\ lock = NoProc /\ UNCHANGED <<disk, faults>>
      /\ table' = [table EXCEPT ![p] = Reload]
      /\ lock' = p /\ job' = [job EXCEPT ![p] = j] /\ pc' = [pc EXCEPT ![p] = there]
  BY DEF Locked, Begin, At, Goto
<1>4. faults' \in 0 .. scope.faults
  BY <1>3, FaultsStay
<1>5. StepBy(p) /\ job'[p] = j /\ pc'[p] = there /\ table'[p] = Reload
  BY <1>1, <1>2, <1>3, <1>4, Effect
<1> QED
  BY <1>3, <1>5 DEF Begins

\* The lock was taken and the table read again, and there is nothing to write.
LEMMA NothingFrom ==
    ASSUME Bound, scope' = scope, NEW p \in Proc, NEW kind, Locked(p, kind), Nothing
    PROVE  Quiet(p, job[p], "open", Reload)
<1>1. TypeOK
  BY DEF Bound
<1>2. Reload \in Seq(ActiveMessage)
  BY Reloaded DEF Lists
<1>3. /\ pc[p] = "open" /\ lock = NoProc /\ UNCHANGED <<disk, faults>>
      /\ table' = [table EXCEPT ![p] = Reload]
      /\ lock' = lock /\ job' = job /\ pc' = pc
  BY DEF Locked, Nothing, At
<1>4. faults' \in 0 .. scope.faults
  BY <1>3, FaultsStay
<1>5. /\ job[p] \in Job /\ job' = [job EXCEPT ![p] = job[p]]
      /\ pc[p] \in PC /\ pc' = [pc EXCEPT ![p] = pc[p]]
  BY <1>1, <1>3, Own
<1>6. StepBy(p) /\ job'[p] = job[p] /\ pc'[p] = pc[p] /\ table'[p] = Reload
  <2> DEFINE j == job[p]
             there == pc[p]
  <2> HIDE DEF j, there
  <2>1. /\ j \in Job /\ job' = [job EXCEPT ![p] = j]
        /\ there \in PC /\ pc' = [pc EXCEPT ![p] = there]
    BY <1>5 DEF j, there
  <2>2. StepBy(p) /\ job'[p] = j /\ pc'[p] = there /\ table'[p] = Reload
    BY <1>1, <1>2, <1>3, <1>4, <2>1, Effect
  <2> QED
    BY <2>2 DEF j, there
<1>7. "open" \notin Writing
  BY DEF Writing, Making
<1> QED
  BY <1>3, <1>6, <1>7 DEF Quiet

LEMMA BeginsBound ==
    ASSUME Bound, NEW p \in Proc, NEW j, NEW there, Begins(p, j, there),
           there \in Writing, WorkOf(j, there)
    PROVE  Bound'
<1>1. StepBy(p) /\ UNCHANGED disk /\ there # "sized"
  BY DEF Begins, Writing, Making
<1>2. WorkOf(job[p], pc[p])'
  <2>1. /\ jhr' = jhr /\ jdx' = jdx /\ jdt' = jdt /\ scope' = scope
        /\ job'[p] = j /\ pc'[p] = there
    BY DEF Begins, disk, StepBy
  <2> QED
    BY <2>1 DEF WorkOf, MakingOf, AddingOf, AgainOf, OldHeadOf, RemovingOf,
                PatchOf, InfoOf, Whole
<1>3. Writes(p)
  BY <1>1, <1>2 DEF Begins, Writes
<1> QED
  BY <1>1, <1>3, SameDisk, BoundStep

\* The next of a set goes at the ends of the three files, whatever they are.
LEMMA NextDraftFields ==
    ASSUME NEW j \in Job, j.drafts # <<>>, NEW headers, NEW index, NEW text,
           Len(headers) \in Nat, Len(index) \in Nat, Len(text) \in Nat
    PROVE  LET n == NextDraft(j, headers, index, text)
           IN  /\ n \in Job
               /\ n.kind = j.kind /\ n.drafts = j.drafts /\ n.done = j.done
               /\ n.offset = Len(headers) + 1 /\ n.record = Len(index) + 1
               /\ n.head \in Header /\ ~n.head.gone
               /\ n.head.at = Len(text) /\ n.head.len = TextLen[n.head.of]
<1> DEFINE h == [NoHeader EXCEPT !.of = Head(j.drafts), !.at = Len(text),
                                 !.len = TextLen[Head(j.drafts)]]
<1>1. Head(j.drafts) \in Text
  <2>1. j.drafts \in Seq(Text)
    BY JobFields
  <2> QED
    BY <2>1
<1>2. TextLen[Head(j.drafts)] \in Nat
  BY <1>1, Lengths
<1>3. h \in Header /\ h.gone = FALSE /\ h.at = Len(text) /\ h.len = TextLen[h.of]
  BY <1>1, <1>2 DEF NoHeader, Header
<1>4. NextDraft(j, headers, index, text) =
          [j EXCEPT !.head = h, !.offset = Len(headers) + 1, !.record = Len(index) + 1]
  BY DEF NextDraft
<1> HIDE DEF h
<1> DEFINE n == [j EXCEPT !.head = h, !.offset = Len(headers) + 1,
                          !.record = Len(index) + 1]
<1>5. /\ n \in Job
      /\ n.kind = j.kind /\ n.drafts = j.drafts /\ n.done = j.done
      /\ n.offset = Len(headers) + 1 /\ n.record = Len(index) + 1 /\ n.head = h
  <2>1. Len(headers) + 1 \in Nat /\ Len(index) + 1 \in Nat
    OBVIOUS
  <2> DEFINE o == Len(headers) + 1
             r == Len(index) + 1
  <2> HIDE DEF o, r
  <2>2. o \in Nat /\ r \in Nat
    BY <2>1 DEF o, r
  <2>3. n = [j EXCEPT !.head = h, !.offset = o, !.record = r]
    BY DEF o, r
  <2>4. [j EXCEPT !.head = h, !.offset = o, !.record = r] \in Job
    BY <1>3, <2>2 DEF Job
  <2> QED
    BY <2>3, <2>4 DEF o, r, Job
<1> HIDE DEF n
<1> QED
  BY <1>3, <1>4, <1>5 DEF n

\* What is written again: the message of the record, and its text either where
\* the old one was or behind all texts.
FromOld(j) ==
    /\ j.was = jhr[j.old]
    /\ j.head.seen = j.was.seen
    /\ \/ j.head.at = Len(jdt)
       \/ j.head.at = j.was.at /\ j.head.len <= j.was.len

\* What every writing call begins with.
Started(p) ==
    \E j \in Job, there \in {"text", "mark", "patch"} :
        /\ Begins(p, j, there)
        /\ WorkOf(j, there)
        /\ j.kind \in scope.calls[p]
        /\ j.done = 0
        /\ j.kind = "replace" => FromOld(j)
        /\ j.kind = "write" =>
              there = "text" /\ j.offset = Len(jhr) + 1 /\ j.head.at = Len(jdt)

LEMMA WriteAllStarts ==
    ASSUME Bound, scope' = scope, NEW p \in Proc, WriteAll(p)
    PROVE  Started(p)
<1>1. PICK drafts \in UNION {[1 .. k -> scope.texts] : k \in 1 .. scope.set} :
          /\ Locked(p, "write")
          /\ Len(jhr) + Len(drafts) <= scope.headers
          /\ Begin(p, NextDraft([NoJob EXCEPT !.kind = "write", !.drafts = drafts],
                                jhr, jdx, jdt), "text")
  BY DEF WriteAll
<1>0. DiskOK /\ Shape /\ Refs /\ Texts /\ scope \in Scopes
  BY DiskNow DEF Bound
<1>b. scope.texts \subseteq Text /\ scope.headers \in Nat
  BY <1>0, ScopeBounds
<1>2. drafts \in Seq(Text) /\ drafts # <<>>
  <2>0. scope.set \in Nat
    BY <1>0, JamBoundsAssumption
  <2>1. PICK k \in 1 .. scope.set : drafts \in [1 .. k -> scope.texts]
    BY <1>1
  <2>2. k \in Nat /\ k > 0 /\ drafts \in [1 .. k -> Text]
    BY <2>0, <2>1, <1>b
  <2> QED
    BY <2>2
<1> DEFINE first == [NoJob EXCEPT !.kind = "write", !.drafts = drafts]
           j == NextDraft(first, jhr, jdx, jdt)
<1>3. /\ first \in Job /\ first.drafts = drafts /\ first.kind = "write"
      /\ first.done = 0
  BY <1>2, NoJobTyped DEF NoJob, Job
<1> HIDE DEF first
<1>4. /\ j \in Job
      /\ j.kind = "write" /\ j.drafts = drafts /\ j.done = 0
      /\ j.offset = Len(jhr) + 1 /\ j.record = Len(jdx) + 1
      /\ j.head \in Header /\ ~j.head.gone
      /\ j.head.at = Len(jdt) /\ j.head.len = TextLen[j.head.of]
  <2>1. Len(jhr) \in Nat /\ Len(jdx) \in Nat /\ Len(jdt) \in Nat
    BY <1>0 DEF Shape
  <2> QED
    BY <1>2, <1>3, <2>1, NextDraftFields
<1>5. Locked(p, "write") /\ Begin(p, j, "text")
  BY <1>1 DEF first
<1>5a. Len(jhr) + Len(drafts) <= scope.headers
  BY <1>1
<1> HIDE DEF j
<1>6. Begins(p, j, "text")
  <2>1. "text" \in PC
    BY DEF PC
  <2> QED
    BY <1>4, <1>5, <2>1, BeginsFrom
<1>7. MakingOf(j, "text")
  <2>1. /\ j.offset \in 1 .. Len(jhr) + 1 /\ Len(jhr) < j.offset
        /\ j.head.at <= Len(jdt)
    BY <1>0, <1>4 DEF Shape
  <2>2. j.offset + Len(j.drafts) <= scope.headers + 1
    <3>1. Len(drafts) \in Nat
      BY <1>2
    <3> QED
      BY <3>1, <1>0, <1>b, <1>4, <1>5a DEF Shape
  <2>3. \A r \in DOMAIN jdx : jdx[r] < j.offset
    BY <1>0, <1>4 DEF Shape, Refs
  <2>4. Len(jhr) <= j.offset
    BY <2>1, <1>0, <1>4 DEF Shape
  <2> QED
    BY <1>2, <1>4, <2>1, <2>2, <2>3, <2>4 DEF MakingOf
<1>8. AddingOf(j)
  BY <1>0, <1>4 DEF AddingOf, Texts
<1>9. WorkOf(j, "text")
  BY <1>4, <1>7, <1>8 DEF WorkOf
<1>10. "write" \in scope.calls[p]
  BY <1>5 DEF Locked
<1> QED
  BY <1>4, <1>6, <1>9, <1>10 DEF Started

\* What the table that was read again says of one of its messages.
LEMMA ReloadedOne ==
    ASSUME Bound, NEW n \in DOMAIN Reload
    PROVE  /\ Reload[n] \in ActiveMessage
           /\ Reload[n].record \in DOMAIN jdx /\ Reload[n].record \in Nat
           /\ jdx[Reload[n].record] = Reload[n].headerOffset
           /\ Reload[n].headerOffset \in DOMAIN jhr /\ Reload[n].headerOffset \in Nat
           /\ Reload[n].header = jhr[Reload[n].headerOffset]
           /\ Reload[n].header \in Header
           /\ ~ jhr[Reload[n].headerOffset].gone
<1>1. Lists(jdx, jhr, Reload)
  BY Reloaded
<1>2. Reload[n] \in ActiveMessage
  BY <1>1 DEF Lists
<1>3. Reload[n].record \in Nat /\ Reload[n].headerOffset \in HeaderAt /\ Reload[n].header \in Header
  BY <1>2, MessageFields
<1>4. Reload[n].headerOffset \in Nat
  BY <1>3, JamBoundsAssumption DEF HeaderAt
<1> QED
  BY <1>1, <1>2, <1>3, <1>4 DEF Lists

LEMMA ReplaceStarts ==
    ASSUME Bound, scope' = scope, NEW p \in Proc, Replace(p)
    PROVE  Started(p) \/ Quiet(p, job[p], "open", Reload)
<1>1. PICK n \in DOMAIN table[p], text \in scope.texts, rcvd \in BOOLEAN :
        /\ Locked(p, "replace")
        /\ Len(jhr) < scope.headers
        /\ IF n \notin DOMAIN Reload THEN Nothing
           ELSE LET m == Reload[n]
                    kept == Kept(p, n)
                IN  Begin(p, [NoJob EXCEPT
                        !.kind = "replace",
                        !.drafts = <<text>>,
                        !.head = [kept EXCEPT !.of = text, !.rcvd = rcvd,
                                              !.at = TextAt(kept, text),
                                              !.len = TextLen[text]],
                        !.offset = HeaderOffset(kept, m.headerOffset, text),
                        !.old = m.headerOffset,
                        !.was = kept,
                        !.record = m.record], "text")
  BY DEF Replace
<1>2. CASE n \notin DOMAIN Reload
  BY <1>1, <1>2, NothingFrom
<1>3. CASE n \in DOMAIN Reload
  <2>0. DiskOK /\ Shape /\ Refs /\ Texts /\ scope \in Scopes
    BY DiskNow DEF Bound
  <2>1. text \in Text /\ TextLen[text] \in Nat /\ scope.headers \in Nat
    <3>1. text \in Text /\ scope.headers \in Nat
      BY <2>0, <1>1, ScopeBounds
    <3> QED
      BY <3>1, Lengths
  <2> DEFINE m == Reload[n]
             kept == m.header
             head == [kept EXCEPT !.of = text, !.rcvd = rcvd,
                                  !.at = TextAt(kept, text), !.len = TextLen[text]]
             offset == HeaderOffset(kept, m.headerOffset, text)
             drafts == <<text>>
             j == [NoJob EXCEPT !.kind = "replace", !.drafts = drafts, !.head = head,
                                !.offset = offset, !.old = m.headerOffset,
                                !.was = kept, !.record = m.record]
  <2>2. /\ m.record \in DOMAIN jdx /\ m.record \in Nat
        /\ jdx[m.record] = m.headerOffset
        /\ m.headerOffset \in DOMAIN jhr /\ m.headerOffset \in Nat
        /\ kept = jhr[m.headerOffset] /\ kept \in Header /\ ~ kept.gone
    BY <1>3, ReloadedOne
  <2>3. Locked(p, "replace") /\ Begin(p, j, "text") /\ Len(jhr) < scope.headers
    BY <1>1, <1>3 DEF Kept
  <2> HIDE DEF m
  <2>4. TextAt(kept, text) \in Nat /\ TextAt(kept, text) <= Len(jdt)
    <3>1. kept.at \in Nat /\ kept.at <= Len(jdt) /\ Len(jdt) \in Nat
      BY <2>0, <2>2 DEF Shape, Texts
    <3> QED
      BY <3>1 DEF TextAt
  <2>5. /\ offset \in Nat /\ offset \in 1 .. Len(jhr) + 1 /\ offset <= scope.headers
        /\ offset # m.headerOffset => offset = Len(jhr) + 1
    BY <2>0, <2>1, <2>2, <2>3 DEF HeaderOffset, Shape
  <2> HIDE DEF kept
  <2>6. /\ head \in Header /\ head.gone = FALSE
        /\ head.at <= Len(jdt) /\ head.len = TextLen[head.of]
    <3>1. kept.gone = FALSE
      BY <2>2, HeaderFields
    <3> DEFINE at == TextAt(kept, text)
               len == TextLen[text]
    <3>2. at \in Nat /\ len \in Nat /\ at <= Len(jdt)
      BY <2>1, <2>4
    <3> HIDE DEF at
    <3>3. [kept EXCEPT !.of = text, !.rcvd = rcvd, !.at = at, !.len = len] \in Header
      BY <2>1, <2>2, <3>2 DEF Header
    <3> QED
      BY <2>2, <3>1, <3>2, <3>3 DEF at, Header
  <2>6a. /\ head.seen = kept.seen
         /\ head.at = Len(jdt) \/ (head.at = kept.at /\ head.len <= kept.len)
    <3>1. head.seen = kept.seen /\ head.at = TextAt(kept, text) /\ head.len = TextLen[text]
      BY <2>2 DEF Header
    <3>2. TextAt(kept, text) = Len(jdt) \/ (TextAt(kept, text) = kept.at /\ ~ (TextLen[text] > kept.len))
      BY DEF TextAt
    <3>3. kept.len \in Nat
      BY <2>2, HeaderFields
    <3> QED
      BY <2>1, <3>1, <3>2, <3>3
  <2> HIDE DEF head, offset
  <2>7. drafts \in Seq(Text) /\ drafts # <<>> /\ Len(drafts) = 1
    BY <2>1
  <2> HIDE DEF drafts
  <2>8. /\ j \in Job
        /\ j.kind = "replace" /\ j.drafts = drafts /\ j.head = head
        /\ j.offset = offset /\ j.old = m.headerOffset /\ j.record = m.record
        /\ j.done = 0 /\ j.was = kept
    BY <2>2, <2>5, <2>6, <2>7, NoJobTyped DEF NoJob, Job
  <2> HIDE DEF j
  <2>9. Begins(p, j, "text")
    <3>1. "text" \in PC
      BY DEF PC
    <3> QED
      BY <2>3, <2>8, <3>1, BeginsFrom
  <2>10. MakingOf(j, "text")
    <3>1. j.offset + Len(j.drafts) <= scope.headers + 1
      <4>1. j.offset = offset /\ Len(j.drafts) = 1
        BY <2>7, <2>8
      <4>2. offset \in Nat /\ offset <= scope.headers /\ scope.headers \in Nat
        BY <2>1, <2>5
      <4>3. offset + 1 <= scope.headers + 1
        BY <4>2
      <4> QED
        BY <4>1, <4>3
    <3>2. Appends(j) => j.offset = Len(jhr) + 1
      BY <2>5, <2>8 DEF Appends
    <3>3. Appends(j) => /\ \A r \in DOMAIN jdx : jdx[r] < j.offset
                        /\ Len(jhr) <= j.offset /\ Len(jhr) < j.offset
      BY <2>0, <3>2 DEF Shape, Refs
    <3> QED
      BY <2>5, <2>6, <2>7, <2>8, <3>1, <3>3 DEF MakingOf
  <2>11. AgainOf(j)
    BY <2>2, <2>7, <2>8 DEF AgainOf
  <2>12. WorkOf(j, "text")
    BY <2>8, <2>10, <2>11 DEF WorkOf
  <2>13. "replace" \in scope.calls[p]
    BY <2>3 DEF Locked
  <2>13a. FromOld(j)
    BY <2>2, <2>6a, <2>8 DEF FromOld
  <2>14. Started(p)
    BY <2>8, <2>9, <2>12, <2>13, <2>13a DEF Started
  <2> QED
    BY <2>14
<1> QED
  BY <1>2, <1>3

LEMMA RemoveAllStarts ==
    ASSUME Bound, scope' = scope, NEW p \in Proc, RemoveAll(p)
    PROVE  Started(p) \/ Quiet(p, job[p], "open", Reload)
<1>1. PICK S \in SUBSET DOMAIN table[p] :
        /\ Locked(p, "remove")
        /\ S # {}
        /\ IF ~(S \subseteq DOMAIN Reload) THEN Nothing
           ELSE Begin(p, [NoJob EXCEPT
                    !.kind = "remove",
                    !.targets = {Reload[n].record : n \in S}],
                    "mark")
  BY DEF RemoveAll
<1>2. CASE ~(S \subseteq DOMAIN Reload)
  BY <1>1, <1>2, NothingFrom
<1>3. CASE S \subseteq DOMAIN Reload
  <2> DEFINE targets == {Reload[n].record : n \in S}
             j == [NoJob EXCEPT !.kind = "remove", !.targets = targets]
  <2>1. Locked(p, "remove") /\ Begin(p, j, "mark")
    BY <1>1, <1>3
  <2>2. /\ targets \in SUBSET Nat /\ targets # {}
        /\ \A r \in targets : r \in DOMAIN jdx /\ jdx[r] \in DOMAIN jhr
    <3>1. \A n \in S : /\ Reload[n].record \in Nat /\ Reload[n].record \in DOMAIN jdx
                       /\ jdx[Reload[n].record] \in DOMAIN jhr
      <4>1. ASSUME NEW n \in S
            PROVE  /\ Reload[n].record \in Nat /\ Reload[n].record \in DOMAIN jdx
                   /\ jdx[Reload[n].record] \in DOMAIN jhr
        BY <1>3, ReloadedOne
      <4> QED
        BY <4>1
    <3> QED
      BY <1>1, <3>1
  <2> HIDE DEF targets
  <2>3. /\ j \in Job /\ j.kind = "remove" /\ j.targets = targets /\ j.done = 0
    BY <2>2, NoJobTyped DEF NoJob, Job
  <2> HIDE DEF j
  <2>4. Begins(p, j, "mark")
    <3>1. "mark" \in PC
      BY DEF PC
    <3> QED
      BY <2>1, <2>3, <3>1, BeginsFrom
  <2>5. WorkOf(j, "mark")
    <3>1. RemovingOf(j, "mark")
      BY <2>2, <2>3 DEF RemovingOf
    <3> QED
      BY <3>1 DEF WorkOf, Making
  <2>6. "remove" \in scope.calls[p]
    BY <2>1 DEF Locked
  <2> QED
    BY <2>3, <2>4, <2>5, <2>6 DEF Started
<1> QED
  BY <1>2, <1>3

LEMMA MarkStarts ==
    ASSUME Bound, scope' = scope, NEW p \in Proc, Mark(p)
    PROVE  Started(p) \/ Quiet(p, job[p], "open", Reload)
<1>1. PICK n \in DOMAIN table[p], mark \in {"seen", "rcvd"} :
        /\ Locked(p, mark)
        /\ IF n \notin DOMAIN Reload \/ Marked(Reload[n].header, mark)
           THEN Nothing
           ELSE Begin(p, [NoJob EXCEPT !.kind = mark,
                                       !.record = Reload[n].record,
                                       !.old = Reload[n].headerOffset],
                      "patch")
  BY DEF Mark
<1>2. CASE n \notin DOMAIN Reload \/ Marked(Reload[n].header, mark)
  BY <1>1, <1>2, NothingFrom
<1>3. CASE ~ (n \notin DOMAIN Reload \/ Marked(Reload[n].header, mark))
  <2> DEFINE m == Reload[n]
             j == [NoJob EXCEPT !.kind = mark, !.record = m.record,
                                !.old = m.headerOffset]
  <2>1. Locked(p, mark) /\ Begin(p, j, "patch")
    BY <1>1, <1>3
  <2>2. /\ m.record \in DOMAIN jdx /\ m.record \in Nat
        /\ jdx[m.record] = m.headerOffset
        /\ m.headerOffset \in DOMAIN jhr /\ m.headerOffset \in Nat
        /\ ~ jhr[m.headerOffset].gone
    BY <1>3, ReloadedOne
  <2> HIDE DEF m
  <2>3. /\ j \in Job /\ j.kind = mark /\ j.record = m.record
        /\ j.old = m.headerOffset /\ j.done = 0
    BY <2>2, NoJobTyped DEF NoJob, Job
  <2> HIDE DEF j
  <2>4. Begins(p, j, "patch")
    <3>1. "patch" \in PC
      BY DEF PC
    <3> QED
      BY <2>1, <2>3, <3>1, BeginsFrom
  <2>5. WorkOf(j, "patch")
    <3>1. PatchOf(j)
      BY <2>2, <2>3 DEF PatchOf
    <3> QED
      BY <3>1 DEF WorkOf, Making
  <2>6. mark \in scope.calls[p] /\ mark # "write"
    BY <2>1 DEF Locked
  <2> QED
    BY <2>3, <2>4, <2>5, <2>6 DEF Started
<1> QED
  BY <1>2, <1>3

\* --------------------------------------------------------------------------
\* One write of a call

LEMMA Working ==
    ASSUME Bound, NEW p \in Proc, pc[p] \in Writing
    PROVE  /\ lock = p /\ WorkOf(job[p], pc[p]) /\ job[p] \in Job
           /\ DiskOK /\ Shape /\ Refs /\ Texts /\ scope \in Scopes
<1>1. lock = p
  BY DEF Bound, Held
<1>2. WorkOf(job[p], pc[p]) /\ job[p] \in Job
  BY <1>1 DEF Bound, Work, TypeOK
<1> QED
  BY <1>1, <1>2, DiskNow DEF Bound

\* A write after which the call goes on, and keeps its variables.
GoesOn(p, there) ==
    /\ lock = p /\ lock' = p
    /\ StepBy(p) /\ pc'[p] = there /\ job'[p] = job[p] /\ table' = table
    /\ faults' = faults

LEMMA GoesOnFrom ==
    ASSUME Bound, scope' = scope, NEW p \in Proc, pc[p] \in Writing,
           NEW there \in Writing, Goto(p, there), UNCHANGED <<lock, table, job, faults>>
    PROVE  GoesOn(p, there)
<1>1. TypeOK /\ lock = p
  BY Working DEF Bound
<1>2. faults' \in 0 .. scope.faults
  BY FaultsStay
<1>3. /\ job[p] \in Job /\ job = [job EXCEPT ![p] = job[p]]
      /\ table[p] \in Seq(ActiveMessage) /\ table = [table EXCEPT ![p] = table[p]]
  BY <1>1, Own
<1>4. there \in PC
  BY DEF Writing, Making, PC
<1>5. pc' = [pc EXCEPT ![p] = there] /\ lock' = lock /\ table' = table /\ job' = job
  BY DEF Goto
<1> DEFINE j == job[p]
           t == table[p]
<1>6. /\ j \in Job /\ job' = [job EXCEPT ![p] = j]
      /\ t \in Seq(ActiveMessage) /\ table' = [table EXCEPT ![p] = t]
  BY <1>3, <1>5
<1> HIDE DEF j, t
<1>7. StepBy(p) /\ pc'[p] = there
  BY <1>1, <1>2, <1>4, <1>5, <1>6, Effect
<1>8. job'[p] = job[p]
  BY <1>5
<1> QED
  BY <1>1, <1>5, <1>7, <1>8 DEF GoesOn

LEMMA GoesOnBound ==
    ASSUME Bound, NEW p \in Proc, NEW there \in Writing, GoesOn(p, there),
           DiskOK', Len(jdx) <= Len(jdx'), Refs', Texts', WorkOf(job[p], pc[p])'
    PROVE  Bound'
<1>1. StepBy(p) /\ there # "sized"
  BY DEF GoesOn, Writing, Making
<1>2. Writes(p)
  BY <1>1 DEF GoesOn, Writes
<1> QED
  BY <1>1, <1>2, BoundStep

\* A list with one entry written over, or behind its last.
PutAt(s, r, n, v) ==
    /\ Len(r) = (IF n <= Len(s) THEN Len(s) ELSE n)
    /\ DOMAIN r = 1 .. Len(r)
    /\ r[n] = v
    /\ \A i \in DOMAIN s : i # n => r[i] = s[i]
    /\ \A i \in DOMAIN r : i = n \/ i \in DOMAIN s

LEMMA PutOne ==
    ASSUME NEW S, NEW s \in Seq(S), NEW n \in 1 .. Len(s) + 1, NEW v \in S,
           NEW r, r = IF n \in DOMAIN s THEN [s EXCEPT ![n] = v] ELSE Append(s, v)
    PROVE  r \in Seq(S) /\ PutAt(s, r, n, v)
<1>1. DOMAIN s = 1 .. Len(s) /\ Len(s) \in Nat
  OBVIOUS
<1>2. CASE n \in DOMAIN s
  <2>1. r \in Seq(S) /\ Changed(s, r, n, v)
    BY <1>2, SetOne
  <2> QED
    BY <1>1, <1>2, <2>1 DEF Changed, PutAt
<1>3. CASE n \notin DOMAIN s
  <2>1. n = Len(s) + 1
    BY <1>1, <1>3
  <2>2. r \in Seq(S) /\ Longer(s, r, v)
    BY <1>3, AddOne
  <2>3. \A i \in DOMAIN r : i = n \/ i \in DOMAIN s
    BY <1>1, <2>1, <2>2 DEF Longer
  <2> QED
    BY <1>1, <2>1, <2>2, <2>3 DEF Longer, PutAt
<1> QED
  BY <1>2, <1>3

\* --- the text

PutsText(at, of) ==
    LET end == at + TextLen[of]
    IN  /\ Len(jdt) <= Len(jdt') /\ end <= Len(jdt')
        /\ \A i \in 1 .. at : jdt'[i] = jdt[i]
        /\ \A i \in at + 1 .. end : jdt'[i] = of
        /\ \A i \in DOMAIN jdt : i > end => jdt'[i] = jdt[i]

LEMMA PutTextEffect ==
    ASSUME Bound, scope' = scope, NEW p \in Proc, PutText(p)
    PROVE  /\ GoesOn(p, "head") /\ pc[p] = "text"
           /\ UNCHANGED <<jhr, jdx, active>>
           /\ jdt' \in Seq(Text)
           /\ PutsText(job[p].head.at, job[p].head.of)
<1>1. /\ pc[p] = "text" /\ Goto(p, "head")
      /\ UNCHANGED <<jhr, jdx, active, lock, table, job, faults>>
  BY DEF PutText, At
<1>2. pc[p] \in Writing /\ "head" \in Writing /\ pc[p] \in Making
  BY <1>1 DEF Writing, Making
<1>3. GoesOn(p, "head")
  BY <1>1, <1>2, GoesOnFrom
<1>4. Shape /\ MakingOf(job[p], pc[p])
  BY <1>2, Working DEF WorkOf
<1> DEFINE at == job[p].head.at
           text == job[p].head.of
           end == at + TextLen[text]
           top == IF end > Len(jdt) THEN end ELSE Len(jdt)
<1>5. at \in Nat /\ at <= Len(jdt) /\ text \in Text /\ TextLen[text] \in Nat
  <2>1. job[p].head \in Header /\ at <= Len(jdt)
    BY <1>4 DEF MakingOf
  <2>2. at \in Nat /\ text \in Text
    BY <2>1, HeaderFields
  <2> QED
    BY <2>1, <2>2, Lengths
<1>6. jdt' = [i \in 1 .. top |-> IF i \in at + 1 .. end THEN text ELSE jdt[i]]
  BY DEF PutText
<1> HIDE DEF at, text
<1>7. /\ end \in Nat /\ top \in Nat /\ end <= top /\ Len(jdt) <= top /\ at <= end
      /\ Len(jdt) \in Nat
  BY <1>4, <1>5 DEF Shape
<1>8. ASSUME NEW i \in 1 .. top, i \notin at + 1 .. end PROVE i \in DOMAIN jdt
  BY <1>4, <1>5, <1>7, <1>8 DEF Shape
<1>9. \A i \in 1 .. top : (IF i \in at + 1 .. end THEN text ELSE jdt[i]) \in Text
  BY <1>4, <1>5, <1>8 DEF Shape
<1>10. jdt' \in [1 .. top -> Text]
  BY <1>6, <1>9
<1>11. jdt' \in Seq(Text) /\ Len(jdt') = top
  BY <1>7, <1>10
<1>12. \A i \in 1 .. at : jdt'[i] = jdt[i]
  <2>1. \A i \in 1 .. at : i \in 1 .. top /\ i \notin at + 1 .. end
    BY <1>5, <1>7
  <2> QED
    BY <1>6, <2>1
<1>13. \A i \in at + 1 .. end : jdt'[i] = text
  <2>1. \A i \in at + 1 .. end : i \in 1 .. top
    BY <1>5, <1>7
  <2> QED
    BY <1>6, <2>1
<1>13a. \A i \in DOMAIN jdt : i > end => jdt'[i] = jdt[i]
  <2>1. \A i \in DOMAIN jdt : i > end => i \in 1 .. top /\ i \notin at + 1 .. end
    BY <1>4, <1>5, <1>7 DEF Shape
  <2> QED
    BY <1>6, <2>1
<1>14. PutsText(at, text)
  BY <1>7, <1>11, <1>12, <1>13, <1>13a DEF PutsText
<1> QED
  BY <1>1, <1>3, <1>11, <1>14 DEF at, text

LEMMA PutTextBound ==
    ASSUME Bound, scope' = scope, NEW p \in Proc, PutText(p)
    PROVE  Bound'
<1>1. /\ GoesOn(p, "head") /\ pc[p] = "text"
      /\ UNCHANGED <<jhr, jdx, active>>
      /\ jdt' \in Seq(Text)
      /\ PutsText(job[p].head.at, job[p].head.of)
  BY PutTextEffect
<1>2. pc[p] \in Writing /\ "head" \in Writing
  BY <1>1 DEF Writing, Making
<1>3. DiskOK /\ Shape /\ Refs /\ Texts /\ WorkOf(job[p], "text")
  BY <1>1, <1>2, Working
<1>4. DiskOK' /\ Len(jdx) <= Len(jdx')
  BY <1>1, <1>3 DEF DiskOK, Shape
<1>4a. Shape'
  BY <1>4, ShapeOfDisk, PTL
<1>4b. Len(jdt) \in Nat /\ Len(jdt') \in Nat /\ Len(jdt) <= Len(jdt')
  BY <1>1, <1>3, <1>4a DEF Shape, PutsText
<1>5. Refs' /\ Texts'
  <2>1. \A h \in DOMAIN jhr : jhr[h].at \in Nat /\ jhr[h].at <= Len(jdt)
    BY <1>3 DEF Shape, Texts
  <2>2. \A h \in DOMAIN jhr : jhr[h].at <= Len(jdt')
    BY <2>1, <1>4b
  <2> QED
    BY <1>1, <1>3, <2>2 DEF Refs, Texts
<1>6. WorkOf(job[p], pc[p])'
  <2> DEFINE j == job[p]
  <2>1. MakingOf(j, "text") /\ (j.kind = "write" => AddingOf(j)) /\ (j.kind = "replace" => AgainOf(j))
    BY <1>3 DEF WorkOf, Making
  <2>2. job'[p] = j /\ pc'[p] = "head" /\ jhr' = jhr /\ jdx' = jdx /\ scope' = scope
    BY <1>1 DEF GoesOn
  <2>3. j.head.at \in Nat /\ j.head.at <= Len(jdt) /\ j.head.len = TextLen[j.head.of]
    <3>1. j.head \in Header
      BY <2>1 DEF MakingOf
    <3> QED
      BY <2>1, <3>1, HeaderFields DEF MakingOf
  <2>4. j.head.at <= Len(jdt')
    BY <2>3, <1>4b
  <2>5. Whole(j.head, Len(jdt))'
    BY <1>1, <2>2, <2>3 DEF PutsText, Whole
  <2> HIDE DEF j
  <2>5a. /\ j.head.len = TextLen[j.head.of]
         /\ j.head.at + j.head.len <= Len(jdt')
         /\ \A i \in j.head.at + 1 .. j.head.at + j.head.len : jdt'[i] = j.head.of
    BY <2>5, <2>2 DEF j, Whole
  <2>6. MakingOf(job[p], pc[p])'
    BY <2>1, <2>2, <2>4, <2>5a DEF MakingOf, Whole
  <2>7. /\ j.kind = "write" => AddingOf(job[p])'
        /\ j.kind = "replace" => AgainOf(job[p])'
    BY <2>1, <2>2 DEF AddingOf, AgainOf
  <2> QED
    BY <2>2, <2>6, <2>7 DEF WorkOf, Making
<1> QED
  BY <1>1, <1>2, <1>4, <1>5, <1>6, GoesOnBound

\* --- the header

PutsHeader(p, header, there) ==
    /\ GoesOn(p, there)
    /\ UNCHANGED <<jdx, jdt, active>>
    /\ jhr' \in Seq(Header) /\ Len(jhr') <= MaxHeader
    /\ PutAt(jhr, jhr', job[p].offset, header)
    /\ header \in Header /\ header.gone = FALSE
    /\ header.at = job[p].head.at
    /\ there = "index" => header = [job[p].head EXCEPT !.subs = job[p].head.of]

LEMMA PutHeaderFrom ==
    ASSUME Bound, scope' = scope, NEW p \in Proc, pc[p] \in {"head", "subs"},
           NEW there \in {"subs", "index"}, NEW subs \in Text \cup {NoText},
           there = "index" => subs = job[p].head.of,
           PutHeader(p, [job[p].head EXCEPT !.subs = subs]), Goto(p, there),
           UNCHANGED <<jdx, jdt, active, lock, table, job, faults>>
    PROVE  PutsHeader(p, [job[p].head EXCEPT !.subs = subs], there)
<1> DEFINE header == [job[p].head EXCEPT !.subs = subs]
<1>1. pc[p] \in Writing /\ pc[p] \in Making /\ there \in Writing
  BY DEF Writing, Making
<1>2. GoesOn(p, there)
  BY <1>1, GoesOnFrom
<1>3. /\ DiskOK /\ Shape /\ job[p] \in Job /\ scope \in Scopes
      /\ MakingOf(job[p], pc[p])
  BY <1>1, Working DEF WorkOf
<1>4. /\ header \in Header /\ header.gone = FALSE
      /\ header.at = job[p].head.at
  <2>1. job[p].head \in Header /\ job[p].head.gone = FALSE
    <3>1. job[p].head \in Header /\ ~ job[p].head.gone
      BY <1>3 DEF MakingOf
    <3> QED
      BY <3>1, HeaderFields
  <2> QED
    BY <2>1 DEF Header
<1>5. job[p].offset \in 1 .. Len(jhr) + 1 /\ job[p].offset <= MaxHeader /\ job[p].offset \in Nat
  <2>1. /\ job[p].offset \in 1 .. Len(jhr) + 1
        /\ job[p].offset + Len(job[p].drafts) <= scope.headers + 1
        /\ job[p].drafts # <<>>
    BY <1>3 DEF MakingOf
  <2>2. job[p].drafts \in Seq(Text) /\ job[p].offset \in Nat
    BY <1>3, JobFields
  <2>3. Len(job[p].drafts) \in Nat /\ Len(job[p].drafts) >= 1
    BY <2>1, <2>2
  <2>4. scope.headers \in Nat /\ scope.headers <= MaxHeader /\ MaxHeader \in Nat
    BY <1>3, ScopeBounds
  <2> DEFINE o == job[p].offset
             l == Len(job[p].drafts)
  <2>5. o + l <= scope.headers + 1 /\ o \in Nat /\ l \in Nat /\ l >= 1
    BY <2>1, <2>2, <2>3
  <2> HIDE DEF o, l
  <2>6. o <= MaxHeader
    BY <2>4, <2>5
  <2> QED
    BY <2>1, <2>2, <2>6 DEF o
<1>6. jhr' = IF job[p].offset \in DOMAIN jhr
             THEN [jhr EXCEPT ![job[p].offset] = header]
             ELSE Append(jhr, header)
  BY DEF PutHeader
<1> HIDE DEF header
<1>7. jhr' \in Seq(Header) /\ PutAt(jhr, jhr', job[p].offset, header)
  <2>1. jhr \in Seq(Header)
    BY <1>3 DEF DiskOK
  <2> DEFINE o == job[p].offset
  <2>2. o \in 1 .. Len(jhr) + 1
    BY <1>5
  <2> HIDE DEF o
  <2>3. jhr' = IF o \in DOMAIN jhr THEN [jhr EXCEPT ![o] = header] ELSE Append(jhr, header)
    BY <1>6 DEF o
  <2>4. jhr' \in Seq(Header) /\ PutAt(jhr, jhr', o, header)
    BY <1>4, <2>1, <2>2, <2>3, PutOne
  <2> QED
    BY <2>4 DEF o
<1>8. Len(jhr') <= MaxHeader
  BY <1>3, <1>5, <1>7 DEF PutAt, DiskOK
<1>9. there = "index" => header = [job[p].head EXCEPT !.subs = job[p].head.of]
  BY DEF header
<1>10. PutsHeader(p, header, there)
  BY <1>2, <1>4, <1>7, <1>8, <1>9 DEF PutsHeader
<1> QED
  BY <1>10 DEF header

LEMMA PutFixedEffect ==
    ASSUME Bound, scope' = scope, NEW p \in Proc, PutFixed(p)
    PROVE  pc[p] = "head" /\ \E header : PutsHeader(p, header, "subs")
<1> DEFINE behind == IF job[p].offset \in DOMAIN jhr
                     THEN jhr[job[p].offset].subs ELSE NoText
<1>1. /\ pc[p] = "head"
      /\ PutHeader(p, [job[p].head EXCEPT !.subs = behind])
      /\ Goto(p, "subs")
      /\ UNCHANGED <<jdx, jdt, active, lock, table, job, faults>>
  BY DEF PutFixed, At
<1>2. behind \in Text \cup {NoText}
  <2>1. Shape
    BY DiskNow
  <2> QED
    BY <2>1, HeaderFields DEF Shape
<1> HIDE DEF behind
<1>3. PutsHeader(p, [job[p].head EXCEPT !.subs = behind], "subs")
  BY <1>1, <1>2, PutHeaderFrom
<1> QED
  BY <1>1, <1>3

LEMMA PutSubfieldsEffect ==
    ASSUME Bound, scope' = scope, NEW p \in Proc, PutSubfields(p)
    PROVE  pc[p] = "subs" /\ \E header : PutsHeader(p, header, "index")
<1>1. /\ pc[p] = "subs"
      /\ PutHeader(p, [job[p].head EXCEPT !.subs = job[p].head.of])
      /\ Goto(p, "index")
      /\ UNCHANGED <<jdx, jdt, active, lock, table, job, faults>>
  BY DEF PutSubfields, At
<1> DEFINE subs == job[p].head.of
<1>2. subs \in Text \cup {NoText}
  <2>1. pc[p] \in Writing /\ pc[p] \in Making
    BY <1>1 DEF Writing, Making
  <2>2. job[p].head \in Header
    BY <2>1, Working DEF WorkOf, MakingOf
  <2> QED
    BY <2>2, HeaderFields
<1>3. /\ PutHeader(p, [job[p].head EXCEPT !.subs = subs])
      /\ subs = job[p].head.of
  BY <1>1
<1> HIDE DEF subs
<1>4. PutsHeader(p, [job[p].head EXCEPT !.subs = subs], "index")
  BY <1>1, <1>2, <1>3, PutHeaderFrom
<1> QED
  BY <1>1, <1>4

LEMMA PutsHeaderBound ==
    ASSUME Bound, scope' = scope, NEW p \in Proc, NEW header, NEW there,
           \/ pc[p] = "head" /\ there = "subs"
           \/ pc[p] = "subs" /\ there = "index",
           PutsHeader(p, header, there)
    PROVE  Bound'
<1> DEFINE j == job[p]
<1>1. pc[p] \in Writing /\ pc[p] \in Making /\ there \in Writing /\ there \in Making
  BY DEF Writing, Making
<1>2. /\ DiskOK /\ Shape /\ Refs /\ Texts
      /\ MakingOf(j, pc[p]) /\ j \in Job
      /\ (j.kind = "write" => AddingOf(j)) /\ (j.kind = "replace" => AgainOf(j))
  BY <1>1, Working DEF WorkOf
<1>3. /\ jdx' = jdx /\ jdt' = jdt /\ active' = active /\ scope' = scope
      /\ jhr' \in Seq(Header) /\ Len(jhr') <= MaxHeader
      /\ job'[p] = j /\ pc'[p] = there /\ j' = j
  BY DEF PutsHeader, GoesOn
<1>4. /\ PutAt(jhr, jhr', j.offset, header)
      /\ header.gone = FALSE /\ header.at = j.head.at
      /\ there = "index" => header = [j.head EXCEPT !.subs = j.head.of]
  BY DEF PutsHeader
<1> HIDE DEF j
<1>5. DiskOK' /\ Len(jdx) <= Len(jdx')
  BY <1>2, <1>3 DEF DiskOK, Shape
<1>6. j.offset \in 1 .. Len(jhr) + 1 /\ j.offset \in Nat /\ Len(jhr) \in Nat
  BY <1>2, JobFields DEF MakingOf, Shape
<1>7. /\ Len(jhr') = (IF j.offset <= Len(jhr) THEN Len(jhr) ELSE j.offset)
      /\ DOMAIN jhr' = 1 .. Len(jhr')
      /\ jhr'[j.offset] = header
      /\ \A h \in DOMAIN jhr : h # j.offset => jhr'[h] = jhr[h]
      /\ \A h \in DOMAIN jhr' : h = j.offset \/ h \in DOMAIN jhr
  BY <1>4 DEF PutAt
<1>8. /\ Len(jhr) <= Len(jhr') /\ Len(jhr') \in Nat /\ j.offset \in DOMAIN jhr'
      /\ \A h \in DOMAIN jhr : h \in DOMAIN jhr'
  BY <1>2, <1>6, <1>7 DEF Shape
<1>9. Refs'
  <2>1. \A r \in DOMAIN jdx : jdx[r] <= Len(jhr')
    BY <1>2, <1>8, <1>6 DEF Refs, Shape
  <2> QED
    BY <1>2, <1>3, <2>1 DEF Refs
<1>10. Texts'
  <2>1. j.head.at <= Len(jdt)
    BY <1>2 DEF MakingOf
  <2>2. \A h \in DOMAIN jhr' : jhr'[h].at <= Len(jdt)
    BY <1>2, <1>4, <1>7, <2>1 DEF Texts
  <2> QED
    BY <1>3, <2>2 DEF Texts
<1>11. MakingOf(j, there)'
  <2>1. /\ there \in {"subs", "index"} => j.offset \in DOMAIN jhr'
        /\ there = "index" => jhr'[j.offset] = [j.head EXCEPT !.subs = j.head.of]
        /\ j.offset \in 1 .. Len(jhr') + 1
    BY <1>4, <1>6, <1>7, <1>8
  <2>2. Appends(j) => /\ \A r \in DOMAIN jdx : jdx[r] < j.offset
                      /\ Len(jhr') <= j.offset
    BY <1>2, <1>6, <1>7 DEF MakingOf
  <2>3. Whole(j.head, Len(jdt))
    <3>1. CASE pc[p] # "text"
      BY <1>2, <3>1 DEF MakingOf
    <3> QED
      BY <3>1
  <2>4. there \notin {"text", "head"}
    OBVIOUS
  <2> QED
    BY <1>2, <1>3, <2>1, <2>2, <2>3, <2>4 DEF MakingOf, Whole, Appends
<1>12. j.kind = "write" => AddingOf(j)'
  <2>1. ASSUME j.kind = "write", NEW h \in DOMAIN jhr', h < j.offset
        PROVE  jhr'[h].at <= j.head.at
    <3>1. h # j.offset /\ h \in DOMAIN jhr /\ jhr'[h] = jhr[h]
      BY <2>1, <1>6, <1>7, <1>8
    <3> QED
      BY <3>1, <2>1, <1>2 DEF AddingOf
  <2> QED
    BY <1>2, <1>3, <2>1 DEF AddingOf
<1>13. j.kind = "replace" => AgainOf(j)'
  <2>1. ASSUME j.kind = "replace" PROVE j.old \in DOMAIN jhr' /\ ~ jhr'[j.old].gone
    <3>1. j.old \in DOMAIN jhr /\ ~ jhr[j.old].gone
      BY <2>1, <1>2 DEF AgainOf
    <3> QED
      BY <3>1, <1>4, <1>7, <1>8
  <2> QED
    BY <1>2, <1>3, <2>1 DEF AgainOf
<1>14. WorkOf(job[p], pc[p])'
  <2>1. /\ MakingOf(job[p], pc[p])'
        /\ j.kind = "write" => AddingOf(job[p])'
        /\ j.kind = "replace" => AgainOf(job[p])'
    BY <1>3, <1>11, <1>12, <1>13 DEF MakingOf, AddingOf, AgainOf, Whole, Appends
  <2> QED
    BY <1>3, <1>1, <2>1 DEF WorkOf, Making
<1>15. GoesOn(p, there)
  BY DEF PutsHeader
<1> QED
  BY <1>1, <1>5, <1>9, <1>10, <1>14, <1>15, GoesOnBound

\* --- the index record

Written(j) == [j EXCEPT !.drafts = Tail(@), !.done = @ + 1]

PutsIndex(p) ==
    /\ lock = p /\ lock' = p
    /\ UNCHANGED <<jhr, jdt, active, faults>>
    /\ StepBy(p)
    /\ jdx' \in Seq(0 .. MaxHeader)
    /\ PutAt(jdx, jdx', job[p].record, job[p].offset)
    /\ \/ /\ Tail(job[p].drafts) # <<>> /\ pc'[p] = "text"
          /\ job'[p] = NextDraft(Written(job[p]), jhr, jdx', jdt)
       \/ /\ Tail(job[p].drafts) = <<>> /\ job'[p] = Written(job[p])
          /\ pc'[p] = IF job[p].kind = "replace" /\ job[p].offset # job[p].old
                      THEN "oldhead" ELSE "info"
    /\ table'[p] = IF job[p].kind = "write"
                   THEN Append(table[p], [record |-> job[p].record,
                                          headerOffset |-> job[p].offset,
                                          header |-> jhr[job[p].offset]])
                   ELSE table[p]

LEMMA WrittenFields ==
    ASSUME NEW j \in Job, j.drafts # <<>>
    PROVE  /\ Written(j) \in Job
           /\ Written(j).kind = j.kind /\ Written(j).offset = j.offset
           /\ Written(j).record = j.record /\ Written(j).old = j.old
           /\ Written(j).head = j.head
           /\ Written(j).drafts = Tail(j.drafts) /\ Written(j).done = j.done + 1
           /\ Tail(j.drafts) \in Seq(Text) /\ Len(Tail(j.drafts)) = Len(j.drafts) - 1
           /\ Len(j.drafts) \in Nat
<1>1. j.drafts \in Seq(Text) /\ j.done \in Nat
  BY JobFields
<1>2. Tail(j.drafts) \in Seq(Text) /\ Len(Tail(j.drafts)) = Len(j.drafts) - 1 /\ Len(j.drafts) \in Nat
  BY <1>1
<1> DEFINE left == Tail(j.drafts)
           done == j.done + 1
<1>3. left \in Seq(Text) /\ done \in Nat
  BY <1>1, <1>2
<1>4. Written(j) = [j EXCEPT !.drafts = left, !.done = done]
  BY DEF Written
<1> HIDE DEF left, done
<1>5. [j EXCEPT !.drafts = left, !.done = done] \in Job
  BY <1>3 DEF Job
<1>6. /\ Written(j) \in Job
      /\ Written(j).kind = j.kind /\ Written(j).offset = j.offset
      /\ Written(j).record = j.record /\ Written(j).old = j.old
      /\ Written(j).head = j.head
      /\ Written(j).drafts = left /\ Written(j).done = done
  BY <1>4, <1>5 DEF Job
<1> QED
  BY <1>2, <1>6 DEF left, done

LEMMA PutIndexEffect ==
    ASSUME Bound, scope' = scope, NEW p \in Proc, PutIndex(p)
    PROVE  pc[p] = "index" /\ PutsIndex(p)
<1> DEFINE j == job[p]
           written == Written(j)
           new == [record |-> j.record, headerOffset |-> j.offset,
                   header |-> jhr[j.offset]]
           next == IF written.drafts = <<>> THEN written
                   ELSE NextDraft(written, jhr, jdx', jdt)
           there == CASE written.drafts # <<>> -> "text"
                      [] j.kind = "replace" /\ j.offset # j.old -> "oldhead"
                      [] OTHER -> "info"
           list == IF j.kind = "write" THEN Append(table[p], new) ELSE table[p]
<1>1. /\ pc[p] = "index"
      /\ jdx' = (IF j.record \in DOMAIN jdx THEN [jdx EXCEPT ![j.record] = j.offset]
                 ELSE Append(jdx, j.offset))
      /\ job' = [job EXCEPT ![p] = next]
      /\ pc' = [pc EXCEPT ![p] = there]
      /\ table' = (IF j.kind = "write" THEN [table EXCEPT ![p] = Append(@, new)] ELSE table)
      /\ UNCHANGED <<jhr, jdt, active, lock, faults>>
  BY DEF PutIndex, At, Goto, Written
<1>2. pc[p] \in Writing /\ pc[p] \in Making
  BY <1>1 DEF Writing, Making
<1>3. /\ lock = p /\ DiskOK /\ Shape /\ j \in Job /\ scope \in Scopes /\ TypeOK
      /\ MakingOf(j, "index")
      /\ (j.kind = "write" => AddingOf(j)) /\ (j.kind = "replace" => AgainOf(j))
  BY <1>1, <1>2, Working DEF WorkOf, Bound
<1>4. table' = [table EXCEPT ![p] = list]
  <2>1. table = [table EXCEPT ![p] = table[p]]
    BY <1>3, Own
  <2> QED
    BY <1>1, <2>1
<1> HIDE DEF j
<1>5. /\ j.offset \in DOMAIN jhr /\ j.offset \in Nat /\ j.drafts # <<>>
      /\ j.kind \in {"write", "replace"}
  BY <1>3, JobFields DEF MakingOf
<1>6. j.offset \in HeaderAt /\ j.offset \in 0 .. MaxHeader
  <2>1. MaxHeader \in Nat /\ Len(jhr) <= MaxHeader
    BY <1>3, JamBoundsAssumption DEF DiskOK
  <2> QED
    BY <1>3, <1>5, <2>1 DEF HeaderAt, Shape
<1>7. j.record \in 1 .. Len(jdx) + 1 /\ j.record \in Nat
  BY <1>3, <1>5, JobFields DEF AddingOf, AgainOf, Shape
<1>8. jdx' \in Seq(0 .. MaxHeader) /\ PutAt(jdx, jdx', j.record, j.offset)
  <2> DEFINE S == 0 .. MaxHeader
  <2>1. jdx \in Seq(S) /\ j.offset \in S
    BY <1>3, <1>6 DEF DiskOK
  <2> HIDE DEF S
  <2>2. jdx' \in Seq(S) /\ PutAt(jdx, jdx', j.record, j.offset)
    BY <1>1, <1>7, <2>1, PutOne
  <2> QED
    BY <2>2 DEF S
<1>9. new \in ActiveMessage
  BY <1>3, <1>5, <1>6, <1>7 DEF ActiveMessage, Shape
<1>10. list \in Seq(ActiveMessage)
  <2>1. table[p] \in Seq(ActiveMessage)
    BY <1>3, Own
  <2> HIDE DEF new
  <2> QED
    BY <1>9, <2>1
<1>11. /\ written \in Job /\ written.drafts = Tail(j.drafts)
  BY <1>3, <1>5, WrittenFields
<1> HIDE DEF written, list
<1>12. next \in Job
  <2>1. Len(jhr) \in Nat /\ Len(jdt) \in Nat /\ Len(jdx') \in Nat
    BY <1>3, <1>8 DEF Shape
  <2>2. CASE written.drafts # <<>>
    BY <1>11, <2>1, <2>2, NextDraftFields
  <2>3. CASE written.drafts = <<>>
    BY <1>11, <2>3
  <2> QED
    BY <2>2, <2>3
<1>13. there \in PC
  BY DEF PC
<1>14. faults' \in 0 .. scope.faults
  BY <1>1, FaultsStay
<1> HIDE DEF next, there
<1>15. StepBy(p) /\ job'[p] = next /\ pc'[p] = there /\ table'[p] = list
  BY <1>1, <1>3, <1>4, <1>10, <1>12, <1>13, <1>14, Effect
<1>16. \/ Tail(j.drafts) # <<>> /\ pc'[p] = "text" /\ job'[p] = NextDraft(written, jhr, jdx', jdt)
       \/ /\ Tail(j.drafts) = <<>> /\ job'[p] = written
          /\ pc'[p] = IF j.kind = "replace" /\ j.offset # j.old THEN "oldhead" ELSE "info"
  <2> DEFINE left == Tail(j.drafts)
  <2>0. written.drafts = left
    BY <1>11
  <2> HIDE DEF left
  <2>1. CASE left # <<>>
    <3>0. written.drafts # <<>> /\ j.kind = "write"
      <4>1. Len(left) # 0
        <5>1. left \in Seq(Text)
          BY <1>3, <1>5, WrittenFields DEF left
        <5> QED
          BY <2>1, <5>1, EmptySeq
      <4>2. j.kind = "replace" => Len(left) = 0
        BY <1>3, <1>5, WrittenFields DEF AgainOf, left
      <4> QED
        BY <2>0, <2>1, <4>1, <4>2, <1>5
    <3>1. there = "text" /\ next = NextDraft(written, jhr, jdx', jdt)
      <4>1. there = "text"
        BY <3>0 DEF there
      <4>2. next = NextDraft(written, jhr, jdx', jdt)
        BY Zenon, <3>0 DEF next
      <4> QED
        BY <4>1, <4>2
    <3> QED
      BY <2>1, <3>1, <1>15 DEF left
  <2>2. CASE left = <<>>
    <3>1. /\ next = written
          /\ there = IF j.kind = "replace" /\ j.offset # j.old THEN "oldhead" ELSE "info"
      BY <2>0, <2>2 DEF next, there
    <3> QED
      BY <2>2, <3>1, <1>15 DEF left
  <2> QED
    BY <2>1, <2>2
<1>17. table'[p] = IF j.kind = "write" THEN Append(table[p], new) ELSE table[p]
  BY <1>15 DEF list
<1> QED
  BY <1>1, <1>3, <1>8, <1>15, <1>16, <1>17 DEF PutsIndex, j, written

\* What the index says once the record is in it.
LEMMA IndexPut ==
    ASSUME Bound, NEW p \in Proc, pc[p] = "index", PutsIndex(p)
    PROVE  LET j == job[p]
           IN  /\ DiskOK' /\ Len(jdx) <= Len(jdx') /\ Refs' /\ Texts'
               /\ j.record \in DOMAIN jdx'
               /\ \A r \in DOMAIN jdx' :
                    jdx'[r] = IF r = j.record THEN j.offset ELSE jdx[r]
               /\ DOMAIN jdx' = DOMAIN jdx \cup {j.record}
               /\ j.kind = "write" => Len(jdx') = Len(jdx) + 1 /\ j.record \notin DOMAIN jdx
               /\ j.kind = "replace" => jdx'[j.record] # 0 /\ j.record \in DOMAIN jdx
<1> DEFINE j == job[p]
<1>1. pc[p] \in Writing /\ pc[p] \in Making
  BY DEF Writing, Making
<1>2. /\ DiskOK /\ Shape /\ j \in Job /\ Refs /\ Texts
      /\ MakingOf(j, "index")
      /\ (j.kind = "write" => AddingOf(j)) /\ (j.kind = "replace" => AgainOf(j))
  BY <1>1, Working DEF WorkOf
<1>3. /\ jhr' = jhr /\ jdt' = jdt /\ active' = active
      /\ jdx' \in Seq(0 .. MaxHeader)
      /\ PutAt(jdx, jdx', j.record, j.offset)
  BY DEF PutsIndex
<1> HIDE DEF j
<1>4. /\ j.offset \in DOMAIN jhr /\ j.offset \in Nat /\ j.offset # 0 /\ j.offset <= Len(jhr)
      /\ j.kind \in {"write", "replace"}
  BY <1>2, JobFields DEF MakingOf, Shape
<1>5. /\ j.record \in Nat
      /\ j.kind = "write" => j.record = Len(jdx) + 1
      /\ j.kind = "replace" => j.record \in DOMAIN jdx
      /\ Len(jdx) \in Nat /\ DOMAIN jdx = 1 .. Len(jdx)
  BY <1>2, JobFields DEF AddingOf, AgainOf, Shape
<1>6. /\ Len(jdx') = (IF j.record <= Len(jdx) THEN Len(jdx) ELSE j.record)
      /\ DOMAIN jdx' = 1 .. Len(jdx')
      /\ jdx'[j.record] = j.offset
      /\ \A r \in DOMAIN jdx : r # j.record => jdx'[r] = jdx[r]
      /\ \A r \in DOMAIN jdx' : r = j.record \/ r \in DOMAIN jdx
  BY <1>3 DEF PutAt
<1>7. /\ Len(jdx) <= Len(jdx') /\ j.record \in DOMAIN jdx'
      /\ DOMAIN jdx' = DOMAIN jdx \cup {j.record}
      /\ j.kind = "write" => Len(jdx') = Len(jdx) + 1 /\ j.record \notin DOMAIN jdx
  BY <1>4, <1>5, <1>6
<1>8. DiskOK'
  BY <1>2, <1>3 DEF DiskOK
<1>9. Refs'
  <2>1. ASSUME NEW r \in DOMAIN jdx' PROVE jdx'[r] <= Len(jhr)
    BY <1>2, <1>4, <1>6 DEF Refs
  <2>2. ASSUME NEW r \in DOMAIN jdx, r # j.record PROVE jdx[r] # j.offset
    <3>1. CASE Appends(j)
      BY <2>2, <3>1, <1>2, <1>4 DEF MakingOf, Shape
    <3>2. CASE ~ Appends(j)
      <4>1. j.kind = "replace" /\ jdx[j.record] = j.offset /\ j.record \in DOMAIN jdx
        BY <3>2, <1>2, <1>4 DEF Appends, AgainOf
      <4> QED
        BY <4>1, <2>2, <1>2, <1>4 DEF Refs
    <3> QED
      BY <3>1, <3>2
  <2>3. ASSUME NEW r \in DOMAIN jdx', NEW q \in DOMAIN jdx', jdx'[r] = jdx'[q], jdx'[r] # 0
        PROVE  r = q
    <3>1. CASE r # j.record /\ q # j.record
      <4>1. r \in DOMAIN jdx /\ q \in DOMAIN jdx /\ jdx[r] = jdx[q] /\ jdx[r] # 0
        BY <3>1, <2>3, <1>6
      <4> QED
        BY <4>1, <1>2 DEF Refs
    <3>2. CASE r = j.record /\ q # j.record
      BY <3>2, <2>2, <2>3, <1>6
    <3>3. CASE r # j.record /\ q = j.record
      BY <3>3, <2>2, <2>3, <1>6
    <3> QED
      BY <3>1, <3>2, <3>3
  <2> QED
    BY <1>3, <2>1, <2>3 DEF Refs
<1>10. Texts'
  BY <1>2, <1>3 DEF Texts
<1>11. \A r \in DOMAIN jdx' : jdx'[r] = IF r = j.record THEN j.offset ELSE jdx[r]
  BY <1>6
<1> QED
  BY <1>4, <1>5, <1>6, <1>7, <1>8, <1>9, <1>10, <1>11 DEF j

LEMMA PutsIndexBound ==
    ASSUME Bound, scope' = scope, NEW p \in Proc, pc[p] = "index", PutsIndex(p)
    PROVE  Bound'
<1> DEFINE j == job[p]
           n == job'[p]
<1>1. pc[p] \in Writing /\ pc[p] \in Making
  BY DEF Writing, Making
<1>2. /\ DiskOK /\ Shape /\ j \in Job /\ Refs /\ Texts /\ scope \in Scopes
      /\ MakingOf(j, "index")
      /\ (j.kind = "write" => AddingOf(j)) /\ (j.kind = "replace" => AgainOf(j))
  BY <1>1, Working DEF WorkOf
<1>3. /\ jhr' = jhr /\ jdt' = jdt /\ StepBy(p) /\ lock = p /\ lock' = p
      /\ \/ /\ Tail(j.drafts) # <<>> /\ pc'[p] = "text"
            /\ n = NextDraft(Written(j), jhr, jdx', jdt)
         \/ /\ Tail(j.drafts) = <<>> /\ n = Written(j)
            /\ pc'[p] = IF j.kind = "replace" /\ j.offset # j.old THEN "oldhead" ELSE "info"
  BY DEF PutsIndex
<1>4. /\ DiskOK' /\ Len(jdx) <= Len(jdx') /\ Refs' /\ Texts'
      /\ j.record \in DOMAIN jdx'
      /\ \A r \in DOMAIN jdx' : jdx'[r] = IF r = j.record THEN j.offset ELSE jdx[r]
      /\ DOMAIN jdx' = DOMAIN jdx \cup {j.record}
  BY IndexPut
<1> HIDE DEF j, n
<1>5. Shape'
  BY <1>4, ShapeOfDisk, PTL
<1>6. /\ j.drafts # <<>> /\ j.kind \in {"write", "replace"}
      /\ j.offset \in DOMAIN jhr /\ j.offset \in Nat
      /\ j.offset + Len(j.drafts) <= scope.headers + 1
      /\ Appends(j) => Len(jhr) <= j.offset
      /\ scope.headers \in Nat
  BY <1>2, JobFields, ScopeBounds DEF MakingOf
<1>7. /\ Written(j) \in Job
      /\ Written(j).kind = j.kind /\ Written(j).offset = j.offset
      /\ Written(j).record = j.record /\ Written(j).old = j.old
      /\ Written(j).drafts = Tail(j.drafts)
      /\ Tail(j.drafts) \in Seq(Text) /\ Len(Tail(j.drafts)) = Len(j.drafts) - 1
      /\ Len(j.drafts) \in Nat
  BY <1>2, <1>6, WrittenFields
<1>8. CASE Tail(j.drafts) # <<>>
  <2>1. pc'[p] = "text" /\ n = NextDraft(Written(j), jhr, jdx', jdt)
    BY <1>3, <1>8
  <2>2. j.kind = "write" /\ Appends(j) /\ Len(jhr) = j.offset
    <3>1. Len(Tail(j.drafts)) # 0
      <4>1. ASSUME NEW s \in Seq(Text), s # <<>> PROVE Len(s) \in Nat /\ Len(s) >= 1
        BY <4>1, EmptySeq
      <4> DEFINE s == Tail(j.drafts)
      <4>2. s \in Seq(Text) /\ s # <<>>
        BY <1>7, <1>8
      <4> HIDE DEF s
      <4>3. Len(s) # 0
        BY <4>1, <4>2
      <4> QED
        BY <4>3 DEF s
    <3>2. j.kind = "write"
      BY <3>1, <1>2, <1>6, <1>7 DEF AgainOf
    <3> QED
      BY <3>2, <1>2, <1>6 DEF Appends, Shape
  <2>3. /\ n \in Job
        /\ n.kind = "write" /\ n.drafts = Tail(j.drafts)
        /\ n.offset = Len(jhr) + 1 /\ n.record = Len(jdx') + 1
        /\ n.head \in Header /\ ~n.head.gone
        /\ n.head.at = Len(jdt) /\ n.head.len = TextLen[n.head.of]
    <3>1. Len(jhr) \in Nat /\ Len(jdx') \in Nat /\ Len(jdt) \in Nat
      BY <1>2, <1>5 DEF Shape
    <3> DEFINE w == Written(j)
    <3>2. w \in Job /\ w.drafts # <<>> /\ w.kind = "write" /\ w.drafts = Tail(j.drafts)
      BY <1>7, <1>8, <2>2
    <3> HIDE DEF w
    <3>3. n = NextDraft(w, jhr, jdx', jdt)
      BY <2>1 DEF w
    <3>4. /\ n \in Job
          /\ n.kind = w.kind /\ n.drafts = w.drafts
          /\ n.offset = Len(jhr) + 1 /\ n.record = Len(jdx') + 1
          /\ n.head \in Header /\ ~n.head.gone
          /\ n.head.at = Len(jdt) /\ n.head.len = TextLen[n.head.of]
      <4> DEFINE index == jdx'
                 m == NextDraft(w, jhr, index, jdt)
      <4> HIDE DEF index
      <4>1. /\ m \in Job
            /\ m.kind = w.kind /\ m.drafts = w.drafts
            /\ m.offset = Len(jhr) + 1 /\ m.record = Len(index) + 1
            /\ m.head \in Header /\ ~m.head.gone
            /\ m.head.at = Len(jdt) /\ m.head.len = TextLen[m.head.of]
        <5>1. Len(index) \in Nat /\ Len(jhr) \in Nat /\ Len(jdt) \in Nat
          BY <3>1 DEF index
        <5>2. w \in Job /\ w.drafts # <<>>
          BY Zenon, <3>2
        <5> QED
          BY <5>1, <5>2, NextDraftFields
      <4>2. n = m
        BY <3>3 DEF index
      <4> HIDE DEF m
      <4> QED
        BY <4>1, <4>2 DEF index
    <3> QED
      BY <3>2, <3>4
  <2>4. n.offset + Len(n.drafts) <= scope.headers + 1
    <3>1. Len(n.drafts) = Len(j.drafts) - 1 /\ n.offset = j.offset + 1
      BY <2>2, <2>3, <1>7
    <3> QED
      BY <3>1, <1>6, <1>7

  <2>6. /\ n.offset \in 1 .. Len(jhr) + 1 /\ Len(jhr) < n.offset /\ Len(jhr) <= n.offset
        /\ n.head.at <= Len(jdt)
    BY <1>2, <2>3 DEF Shape
  <2>7. \A r \in DOMAIN jdx' : jdx'[r] < n.offset
    BY <1>3, <1>4, <1>5, <2>3 DEF Refs, Shape
  <2>8. WorkOf(job[p], pc[p])'
    <3>1. n.drafts # <<>>
      BY <1>8, <2>3
    <3>2. MakingOf(job[p], pc[p])'
      BY <1>3, <2>1, <2>3, <2>4, <2>6, <2>7, <3>1 DEF MakingOf, StepBy, n
    <3>3. AddingOf(job[p])'
      BY <1>2, <1>3, <2>3 DEF AddingOf, Texts, n
    <3> QED
      BY <2>1, <2>3, <3>2, <3>3 DEF WorkOf, Making, n
  <2>9. Writes(p)
    BY <1>3, <2>1, <2>8 DEF Writes, Writing, Making
  <2> QED
    BY <1>3, <1>4, <2>9, BoundStep
<1>9. CASE Tail(j.drafts) = <<>>
  <2>1. /\ n = Written(j)
        /\ pc'[p] = IF j.kind = "replace" /\ j.offset # j.old THEN "oldhead" ELSE "info"
    BY <1>3, <1>9
  <2>2. WorkOf(job[p], pc[p])'
    <3>1. CASE pc'[p] = "info"
      <4>1. InfoOf(job[p])'
        BY <1>3, <1>6, <1>7, <2>1 DEF InfoOf, n
      <4> QED
        BY <3>1, <4>1 DEF WorkOf, Making
    <3>2. CASE pc'[p] = "oldhead"
      <4>1. j.kind = "replace" /\ j.offset # j.old
        BY <2>1, <3>2
      <4>2. /\ j.old \in DOMAIN jhr /\ j.record \in DOMAIN jdx /\ jdx[j.record] = j.old
            /\ j.old # 0
        BY <4>1, <1>2 DEF AgainOf, Shape
      <4>3. \A r \in DOMAIN jdx' : jdx'[r] # j.old
        <5>1. ASSUME NEW r \in DOMAIN jdx', r # j.record PROVE jdx[r] # j.old
          BY <5>1, <1>2, <1>4, <4>2 DEF Refs
        <5> QED
          BY <1>4, <4>1, <5>1
      <4>4. OldHeadOf(job[p])'
        BY <1>3, <1>4, <1>6, <1>7, <2>1, <4>1, <4>2, <4>3 DEF OldHeadOf, n
      <4> QED
        BY <3>2, <4>4 DEF WorkOf, Making
    <3> QED
      BY <2>1, <3>1, <3>2
  <2>3. Writes(p)
    BY <1>3, <2>1, <2>2 DEF Writes, Writing, Making
  <2> QED
    BY <1>3, <1>4, <2>3, BoundStep
<1> QED
  BY <1>8, <1>9

\* --- a header that is marked deleted

LEMMA GoneChanges ==
    ASSUME DiskOK, NEW offset \in DOMAIN jhr
    PROVE  /\ Gone(offset) \in Seq(Header) /\ Len(Gone(offset)) = Len(jhr)
           /\ DOMAIN Gone(offset) = DOMAIN jhr
           /\ \A h \in DOMAIN jhr : h # offset => Gone(offset)[h] = jhr[h]
           /\ Gone(offset)[offset].gone = TRUE
           /\ Gone(offset)[offset].at = jhr[offset].at
           /\ Gone(offset)[offset].subs = jhr[offset].subs
<1> DEFINE header == [jhr[offset] EXCEPT !.gone = TRUE, !.len = 0]
<1>1. jhr \in Seq(Header) /\ jhr[offset] \in Header
  BY DEF DiskOK
<1>2. /\ header \in Header /\ header.gone = TRUE
      /\ header.at = jhr[offset].at /\ header.subs = jhr[offset].subs
  BY <1>1 DEF Header
<1>3. Gone(offset) = [jhr EXCEPT ![offset] = header]
  BY <1>1 DEF Gone
<1> HIDE DEF header
<1>4. /\ [jhr EXCEPT ![offset] = header] \in Seq(Header)
      /\ Changed(jhr, [jhr EXCEPT ![offset] = header], offset, header)
  BY <1>1, <1>2, SetOne
<1> QED
  BY <1>2, <1>3, <1>4 DEF Changed

\* The marks and the room of a header may change; where its text is does not.
MarksGone(offset) ==
    /\ jhr' \in Seq(Header) /\ Len(jhr') = Len(jhr) /\ DOMAIN jhr' = DOMAIN jhr
    /\ \A h \in DOMAIN jhr : h # offset => jhr'[h] = jhr[h]
    /\ jhr'[offset].gone = TRUE
    /\ jhr'[offset].at = jhr[offset].at /\ jhr'[offset].subs = jhr[offset].subs
    /\ UNCHANGED <<jdx, jdt, active>>

LEMMA MarksGoneDisk ==
    ASSUME Bound, NEW offset \in DOMAIN jhr, MarksGone(offset)
    PROVE  DiskOK' /\ Len(jdx) <= Len(jdx') /\ Refs' /\ Texts'
<1>1. DiskOK /\ Shape /\ Refs /\ Texts
  BY DiskNow DEF Bound
<1>2. DiskOK' /\ Len(jdx) <= Len(jdx')
  BY <1>1 DEF MarksGone, DiskOK, Shape
<1>3. Refs'
  BY <1>1 DEF MarksGone, Refs
<1>4. Texts'
  <2>1. \A h \in DOMAIN jhr' : jhr'[h].at = jhr[h].at /\ h \in DOMAIN jhr
    BY DEF MarksGone
  <2> QED
    BY <2>1, <1>1 DEF MarksGone, Texts
<1> QED
  BY <1>2, <1>3, <1>4

LEMMA MarkOldHeaderEffect ==
    ASSUME Bound, scope' = scope, NEW p \in Proc, MarkOldHeader(p)
    PROVE  /\ pc[p] = "oldhead" /\ OldHeadOf(job[p])
           /\ GoesOn(p, "info") /\ MarksGone(job[p].old)
<1>1. /\ pc[p] = "oldhead" /\ jhr' = Gone(job[p].old) /\ Goto(p, "info")
      /\ UNCHANGED <<jdx, jdt, active, lock, table, job, faults>>
  BY DEF MarkOldHeader, At
<1>2. pc[p] \in Writing /\ "info" \in Writing
  BY <1>1 DEF Writing
<1>3. GoesOn(p, "info")
  BY <1>1, <1>2, GoesOnFrom
<1>4. OldHeadOf(job[p]) /\ DiskOK
  BY <1>1, <1>2, Working DEF WorkOf
<1>5. MarksGone(job[p].old)
  <2>1. job[p].old \in DOMAIN jhr
    BY <1>4 DEF OldHeadOf
  <2> DEFINE o == job[p].old
  <2>2. o \in DOMAIN jhr /\ jhr' = Gone(o)
    BY <2>1, <1>1
  <2> HIDE DEF o
  <2>3. MarksGone(o)
    <3>1. DiskOK
      BY <1>4
    <3>2. /\ Gone(o) \in Seq(Header) /\ Len(Gone(o)) = Len(jhr)
          /\ DOMAIN Gone(o) = DOMAIN jhr
          /\ \A h \in DOMAIN jhr : h # o => Gone(o)[h] = jhr[h]
          /\ Gone(o)[o].gone = TRUE
          /\ Gone(o)[o].at = jhr[o].at /\ Gone(o)[o].subs = jhr[o].subs
      BY <2>2, <3>1, GoneChanges
    <3>3. UNCHANGED <<jdx, jdt, active>>
      BY <1>1
    <3> QED
      BY <2>2, <3>2, <3>3 DEF MarksGone
  <2> QED
    BY <2>3 DEF o
<1> QED
  BY <1>1, <1>3, <1>4, <1>5

LEMMA MarkOldHeaderBound ==
    ASSUME Bound, scope' = scope, NEW p \in Proc, MarkOldHeader(p)
    PROVE  Bound'
<1>1. /\ pc[p] = "oldhead" /\ OldHeadOf(job[p])
      /\ GoesOn(p, "info") /\ MarksGone(job[p].old)
  BY MarkOldHeaderEffect
<1>2. /\ job[p].old \in DOMAIN jhr /\ job[p].offset \in DOMAIN jhr
      /\ job[p].kind = "replace"
  BY <1>1 DEF OldHeadOf
<1>3. DiskOK' /\ Len(jdx) <= Len(jdx') /\ Refs' /\ Texts'
  BY <1>1, <1>2, MarksGoneDisk
<1>4. WorkOf(job[p], pc[p])'
  <2>1. job'[p] = job[p] /\ pc'[p] = "info" /\ DOMAIN jhr' = DOMAIN jhr
    BY <1>1 DEF GoesOn, MarksGone
  <2>2. InfoOf(job[p])'
    BY <1>2, <2>1 DEF InfoOf
  <2> QED
    BY <2>1, <2>2 DEF WorkOf, Making
<1> QED
  BY <1>1, <1>3, <1>4, GoesOnBound DEF Writing

\* --- a message goes out

LEMMA MarkRemovedEffect ==
    ASSUME Bound, scope' = scope, NEW p \in Proc, MarkRemoved(p)
    PROVE  /\ pc[p] = "mark" /\ RemovingOf(job[p], "mark")
           /\ NextTarget(p) \in job[p].targets /\ NextTarget(p) \in DOMAIN jdx
           /\ jdx[NextTarget(p)] \in DOMAIN jhr
           /\ GoesOn(p, "blank") /\ MarksGone(jdx[NextTarget(p)])
<1>1. /\ pc[p] = "mark" /\ jhr' = Gone(jdx[NextTarget(p)]) /\ Goto(p, "blank")
      /\ UNCHANGED <<jdx, jdt, active, lock, table, job, faults>>
  BY DEF MarkRemoved, At
<1>2. pc[p] \in Writing /\ "blank" \in Writing
  BY <1>1 DEF Writing
<1>3. GoesOn(p, "blank")
  BY <1>1, <1>2, GoesOnFrom
<1>4. RemovingOf(job[p], "mark") /\ DiskOK /\ job[p] \in Job
  BY <1>1, <1>2, Working DEF WorkOf
<1>5. NextTarget(p) \in job[p].targets
  BY <1>4, JobFields, MinOfNumbers DEF RemovingOf, NextTarget
<1>6. NextTarget(p) \in DOMAIN jdx /\ jdx[NextTarget(p)] \in DOMAIN jhr
  BY <1>4, <1>5 DEF RemovingOf
<1>7. MarksGone(jdx[NextTarget(p)])
  <2> DEFINE o == jdx[NextTarget(p)]
  <2>2. o \in DOMAIN jhr /\ jhr' = Gone(o)
    BY <1>1, <1>6
  <2> HIDE DEF o
  <2>3. MarksGone(o)
    <3>1. DiskOK
      BY <1>4
    <3>2. /\ Gone(o) \in Seq(Header) /\ Len(Gone(o)) = Len(jhr)
          /\ DOMAIN Gone(o) = DOMAIN jhr
          /\ \A h \in DOMAIN jhr : h # o => Gone(o)[h] = jhr[h]
          /\ Gone(o)[o].gone = TRUE
          /\ Gone(o)[o].at = jhr[o].at /\ Gone(o)[o].subs = jhr[o].subs
      BY <2>2, <3>1, GoneChanges
    <3>3. UNCHANGED <<jdx, jdt, active>>
      BY <1>1
    <3> QED
      BY <2>2, <3>2, <3>3 DEF MarksGone
  <2> QED
    BY <2>3 DEF o
<1> QED
  BY <1>1, <1>3, <1>4, <1>5, <1>6, <1>7

LEMMA MarkRemovedBound ==
    ASSUME Bound, scope' = scope, NEW p \in Proc, MarkRemoved(p)
    PROVE  Bound'
<1>1. /\ RemovingOf(job[p], "mark")
      /\ jdx[NextTarget(p)] \in DOMAIN jhr
      /\ GoesOn(p, "blank") /\ MarksGone(jdx[NextTarget(p)])
  BY MarkRemovedEffect
<1>2. DiskOK' /\ Len(jdx) <= Len(jdx') /\ Refs' /\ Texts'
  BY <1>1, MarksGoneDisk
<1>3. WorkOf(job[p], pc[p])'
  <2>1. /\ job'[p] = job[p] /\ pc'[p] = "blank" /\ DOMAIN jhr' = DOMAIN jhr
        /\ jdx' = jdx /\ jhr'[jdx[Min(job[p].targets)]].gone
    BY <1>1 DEF GoesOn, MarksGone, NextTarget
  <2>2. RemovingOf(job[p], pc[p])'
    BY <1>1, <2>1 DEF RemovingOf
  <2> QED
    BY <2>1, <2>2 DEF WorkOf, Making
<1> QED
  BY <1>1, <1>2, <1>3, GoesOnBound DEF Writing

Blanks(p) ==
    LET gone == NextTarget(p)
        left == job[p].targets \ {gone}
    IN  /\ lock = p /\ lock' = p
        /\ StepBy(p)
        /\ UNCHANGED <<jhr, jdt, active, faults>>
        /\ jdx' \in Seq(0 .. MaxHeader) /\ Changed(jdx, jdx', gone, 0)
        /\ gone \in job[p].targets /\ gone \in DOMAIN jdx /\ jdx[gone] \in DOMAIN jhr
        /\ job'[p] = [job[p] EXCEPT !.targets = left, !.done = @ + 1]
        /\ pc'[p] = (IF left = {} THEN "info" ELSE "mark")
        /\ table'[p] = Without(table[p], gone)

LEMMA BlankRecordEffect ==
    ASSUME Bound, scope' = scope, NEW p \in Proc, BlankRecord(p)
    PROVE  pc[p] = "blank" /\ RemovingOf(job[p], "blank") /\ Blanks(p)
<1> DEFINE gone == NextTarget(p)
           left == job[p].targets \ {gone}
           j == [job[p] EXCEPT !.targets = left, !.done = @ + 1]
           there == IF left = {} THEN "info" ELSE "mark"
           list == Without(table[p], gone)
<1>0. TypeOK
  BY DEF Bound
<1>a. /\ job \in [Proc -> Job] /\ table \in [Proc -> Seq(ActiveMessage)]
  BY <1>0 DEF TypeOK
<1>1. /\ pc[p] = "blank"
      /\ table' = [table EXCEPT ![p] = list]
      /\ jdx' = [jdx EXCEPT ![gone] = 0]
      /\ job' = [job EXCEPT ![p] = j]
      /\ pc' = [pc EXCEPT ![p] = there]
      /\ UNCHANGED <<jhr, jdt, active, lock, faults>>
  BY <1>a DEF BlankRecord, At, Goto
<1>2. pc[p] \in Writing
  BY <1>1 DEF Writing
<1>3. lock = p /\ RemovingOf(job[p], "blank") /\ DiskOK /\ job[p] \in Job
  BY <1>1, <1>2, Working DEF WorkOf
<1>4. gone \in job[p].targets /\ job[p].targets \in SUBSET Nat /\ job[p].done \in Nat
  BY <1>3, JobFields, MinOfNumbers DEF RemovingOf, NextTarget
<1>5. gone \in DOMAIN jdx /\ jdx[gone] \in DOMAIN jhr
  BY <1>3, <1>4 DEF RemovingOf
<1>6. j \in Job
  <2> DEFINE done == job[p].done + 1
  <2>1. left \in SUBSET Nat /\ done \in Nat /\ j = [job[p] EXCEPT !.targets = left, !.done = done]
    BY <1>4
  <2> HIDE DEF left, done
  <2>2. [job[p] EXCEPT !.targets = left, !.done = done] \in Job
    BY <1>3, <2>1 DEF Job
  <2> QED
    BY <2>1, <2>2
<1>7. list \in Seq(ActiveMessage)
  BY <1>a, WithoutOne
<1>8. there \in PC
  BY DEF PC
<1>9. jdx' \in Seq(0 .. MaxHeader) /\ Changed(jdx, jdx', gone, 0)
  <2> DEFINE S == 0 .. MaxHeader
  <2>1. jdx \in Seq(S) /\ 0 \in S
    BY <1>3, JamBoundsAssumption DEF DiskOK
  <2> HIDE DEF S, gone
  <2>2. [jdx EXCEPT ![gone] = 0] \in Seq(S) /\ Changed(jdx, [jdx EXCEPT ![gone] = 0], gone, 0)
    BY <1>5, <2>1, SetOne
  <2> QED
    BY <1>1, <2>2 DEF S
<1>10. faults' \in 0 .. scope.faults
  BY <1>1, FaultsStay
<1> HIDE DEF j, there, list
<1>11. StepBy(p) /\ job'[p] = j /\ pc'[p] = there /\ table'[p] = list
  BY <1>0, <1>1, <1>6, <1>7, <1>8, <1>10, Effect
<1>12. Blanks(p)
  BY <1>1, <1>3, <1>4, <1>5, <1>9, <1>11 DEF Blanks, j, there, list
<1> QED
  BY <1>1, <1>3, <1>12

LEMMA BlanksBound ==
    ASSUME Bound, scope' = scope, NEW p \in Proc, BlankRecord(p)
    PROVE  Bound'
<1> DEFINE gone == NextTarget(p)
           left == job[p].targets \ {gone}
<1>0. pc[p] \in Writing
  BY DEF BlankRecord, At, Writing
<1>1. RemovingOf(job[p], "blank") /\ Blanks(p)
  BY BlankRecordEffect
<1>2. DiskOK /\ Shape /\ Refs /\ Texts /\ job[p] \in Job
  BY <1>0, Working
<1>3. /\ lock = p /\ lock' = p /\ StepBy(p)
      /\ jhr' = jhr /\ jdt' = jdt /\ active' = active
      /\ jdx' \in Seq(0 .. MaxHeader) /\ Changed(jdx, jdx', gone, 0)
      /\ job'[p] = [job[p] EXCEPT !.targets = left, !.done = @ + 1]
      /\ pc'[p] = (IF left = {} THEN "info" ELSE "mark")
  BY <1>1 DEF Blanks
<1>4. /\ job'[p].targets = left /\ job'[p].kind = "remove" /\ job[p].kind = "remove"
  BY <1>1, <1>2, <1>3 DEF RemovingOf, Job
<1> HIDE DEF gone
<1>5. /\ DOMAIN jdx' = DOMAIN jdx /\ Len(jdx') = Len(jdx)
      /\ \A r \in DOMAIN jdx : r # gone => jdx'[r] = jdx[r]
      /\ jdx'[gone] = 0
  BY <1>3 DEF Changed
<1>6. DiskOK' /\ Len(jdx) <= Len(jdx')
  BY <1>2, <1>3, <1>5 DEF DiskOK, Shape
<1>7. Refs'
  <2>1. \A r \in DOMAIN jdx' : jdx'[r] = 0 \/ (r # gone /\ jdx'[r] = jdx[r])
    BY <1>5
  <2>2. \A r \in DOMAIN jdx' : jdx'[r] <= Len(jhr)
    BY <1>2, <1>5, <2>1 DEF Refs, Shape
  <2>3. \A r, q \in DOMAIN jdx' : jdx'[r] = jdx'[q] /\ jdx'[r] # 0 => r = q
    BY <1>2, <1>5, <2>1 DEF Refs
  <2> QED
    BY <1>3, <2>2, <2>3 DEF Refs
<1>8. Texts'
  BY <1>2, <1>3 DEF Texts
<1>9. WorkOf(job[p], pc[p])'
  <2>1. CASE left = {}
    <3>1. InfoOf(job[p])'
      BY <1>4 DEF InfoOf
    <3> QED
      BY <1>3, <2>1, <3>1 DEF WorkOf, Making
  <2>2. CASE left # {}
    <3>1. \A r \in left : r \in DOMAIN jdx' /\ jdx'[r] \in DOMAIN jhr
      BY <1>1, <1>5 DEF RemovingOf
    <3> HIDE DEF left
    <3>2. pc'[p] = "mark" /\ RemovingOf(job[p], pc[p])'
      BY <1>3, <1>4, <2>2, <3>1 DEF RemovingOf
    <3> QED
      BY <3>2 DEF WorkOf, Making
  <2> QED
    BY <2>1, <2>2
<1>10. Writes(p)
  <2>1. pc'[p] \in {"info", "mark"}
    BY <1>3
  <2> QED
    BY <1>3, <1>9, <2>1 DEF Writes, Writing, Making
<1> QED
  BY <1>3, <1>6, <1>7, <1>8, <1>10, BoundStep

\* --- the last write of a call

\* A table in which the message of one record was put as it now is.
Fresher(list, record, offset, header) ==
    [n \in DOMAIN list |-> IF list[n].record # record THEN list[n]
                           ELSE [record |-> record, headerOffset |-> offset,
                                 header |-> header]]

LEMMA FresherTyped ==
    ASSUME NEW list \in Seq(ActiveMessage), NEW record \in Nat,
           NEW offset \in HeaderAt, NEW header \in Header
    PROVE  /\ Fresher(list, record, offset, header) \in Seq(ActiveMessage)
           /\ DOMAIN Fresher(list, record, offset, header) = DOMAIN list
           /\ \A n \in DOMAIN list :
                 \/ Fresher(list, record, offset, header)[n] = list[n]
                 \/ Fresher(list, record, offset, header)[n]
                        = [record |-> record, headerOffset |-> offset, header |-> header]
<1> DEFINE m == [record |-> record, headerOffset |-> offset, header |-> header]
           F == Fresher(list, record, offset, header)
<1>1. m \in ActiveMessage
  BY DEF ActiveMessage
<1>2. DOMAIN list = 1 .. Len(list) /\ Len(list) \in Nat /\ \A n \in DOMAIN list : list[n] \in ActiveMessage
  BY Entries
<1>3. F = [n \in DOMAIN list |-> IF list[n].record # record THEN list[n] ELSE m]
  BY DEF Fresher
<1> HIDE DEF m, F
<1>4. \A n \in DOMAIN list : F[n] = list[n] \/ F[n] = m
  BY <1>3
<1>5. DOMAIN F = 1 .. Len(list) /\ DOMAIN F = DOMAIN list
  BY <1>2, <1>3
<1>6. F \in [1 .. Len(list) -> ActiveMessage]
  BY <1>1, <1>2, <1>3
<1>7. F \in Seq(ActiveMessage)
  BY <1>2, <1>6
<1> QED
  BY <1>4, <1>5, <1>7 DEF m, F

Returns(p) ==
    /\ lock = p /\ lock' = NoProc
    /\ StepBy(p) /\ job'[p] = NoJob /\ pc'[p] = "open"

LEMMA ReturnsFrom ==
    ASSUME Bound, scope' = scope, NEW p \in Proc, pc[p] \in Writing, Return(p),
           NEW t \in Seq(ActiveMessage), table' = [table EXCEPT ![p] = t],
           faults' \in 0 .. scope.faults
    PROVE  Returns(p) /\ table'[p] = t
<1>1. TypeOK /\ lock = p
  BY Working DEF Bound
<1>2. job' = [job EXCEPT ![p] = NoJob] /\ pc' = [pc EXCEPT ![p] = "open"] /\ lock' = NoProc
  BY DEF Return, Goto
<1>3. "open" \in PC
  BY DEF PC
<1>4. StepBy(p) /\ job'[p] = NoJob /\ pc'[p] = "open" /\ table'[p] = t
  BY <1>1, <1>2, <1>3, NoJobTyped, Effect
<1> QED
  BY <1>1, <1>2, <1>4 DEF Returns

LEMMA LetsGoBound ==
    ASSUME Bound, NEW p \in Proc, lock = p, lock' = NoProc, StepBy(p),
           pc'[p] \in {"open", "closed"},
           DiskOK', Len(jdx) <= Len(jdx'), Refs', Texts'
    PROVE  Bound'
<1>1. p # NoProc
  BY JamMarkerAssumption
<1>2. Writes(p)
  BY <1>1 DEF Writes, Writing, Making
<1> QED
  BY <1>2, BoundStep

Patches(p) ==
    LET o == job[p].old
    IN  /\ Returns(p)
        /\ UNCHANGED <<jdx, jdt, active, faults>>
        /\ jhr' \in Seq(Header) /\ Len(jhr') = Len(jhr) /\ DOMAIN jhr' = DOMAIN jhr
        /\ \A h \in DOMAIN jhr : h # o => jhr'[h] = jhr[h]
        /\ jhr'[o].of = jhr[o].of /\ jhr'[o].subs = jhr[o].subs
        /\ jhr'[o].at = jhr[o].at /\ jhr'[o].len = jhr[o].len
        /\ jhr'[o].gone = jhr[o].gone
        /\ \/ jhr'[o].seen = TRUE /\ jhr'[o].rcvd = jhr[o].rcvd
           \/ jhr'[o].rcvd = TRUE /\ jhr'[o].seen = jhr[o].seen
        /\ table'[p] = Fresher(table[p], job[p].record, o, jhr'[o])

LEMMA PatchEffect ==
    ASSUME Bound, scope' = scope, NEW p \in Proc, Patch(p)
    PROVE  pc[p] = "patch" /\ PatchOf(job[p]) /\ Patches(p)
<1> DEFINE o == job[p].old
           header == IF job[p].kind = "seen" THEN [jhr[o] EXCEPT !.seen = TRUE]
                     ELSE [jhr[o] EXCEPT !.rcvd = TRUE]
           list == Fresher(table[p], job[p].record, o, jhr'[o])
<1>0. TypeOK /\ table \in [Proc -> Seq(ActiveMessage)]
  BY DEF Bound, TypeOK
<1>1. /\ pc[p] = "patch"
      /\ jhr' = (IF job[p].kind = "seen" THEN [jhr EXCEPT ![o].seen = TRUE]
                 ELSE [jhr EXCEPT ![o].rcvd = TRUE])
      /\ table' = [table EXCEPT ![p] = list]
      /\ UNCHANGED <<jdx, jdt, active, faults>>
      /\ Return(p)
  BY <1>0 DEF Patch, At, Updated, Fresher
<1>2. pc[p] \in Writing
  BY <1>1 DEF Writing
<1>3. PatchOf(job[p]) /\ DiskOK /\ Shape /\ job[p] \in Job
  BY <1>1, <1>2, Working DEF WorkOf
<1>4. o \in DOMAIN jhr /\ jhr \in Seq(Header) /\ jhr[o] \in Header
  BY <1>3 DEF PatchOf, DiskOK, Shape
<1>5. /\ header \in Header
      /\ header.of = jhr[o].of /\ header.subs = jhr[o].subs
      /\ header.at = jhr[o].at /\ header.len = jhr[o].len
      /\ header.gone = jhr[o].gone
      /\ \/ header.seen = TRUE /\ header.rcvd = jhr[o].rcvd
         \/ header.rcvd = TRUE /\ header.seen = jhr[o].seen
  BY <1>4 DEF Header
<1>6. jhr' = [jhr EXCEPT ![o] = header]
  BY <1>1, <1>4
<1> HIDE DEF o, header
<1>7. jhr' \in Seq(Header) /\ Changed(jhr, jhr', o, header)
  BY <1>4, <1>5, <1>6, SetOne
<1>7a. /\ Len(jhr') = Len(jhr) /\ DOMAIN jhr' = DOMAIN jhr
       /\ \A h \in DOMAIN jhr : h # o => jhr'[h] = jhr[h]
       /\ jhr'[o] = header
  BY <1>7 DEF Changed
<1>8. list \in Seq(ActiveMessage)
  <2>1. o \in HeaderAt
    BY <1>3, <1>4, JamBoundsAssumption DEF Shape, DiskOK, HeaderAt
  <2>2. jhr'[o] \in Header /\ job[p].record \in Nat /\ table[p] \in Seq(ActiveMessage)
    BY <1>0, <1>3, <1>5, <1>7a, JobFields
  <2> QED
    BY <2>1, <2>2, FresherTyped
<1>9. faults' \in 0 .. scope.faults
  BY <1>1, FaultsStay
<1> HIDE DEF list
<1>10. Returns(p) /\ table'[p] = list
  BY <1>1, <1>2, <1>8, <1>9, ReturnsFrom
<1>11. Patches(p)
  BY <1>1, <1>5, <1>7, <1>7a, <1>10 DEF Patches, o, list
<1> QED
  BY <1>1, <1>3, <1>11

LEMMA PatchBound ==
    ASSUME Bound, scope' = scope, NEW p \in Proc, Patch(p)
    PROVE  Bound'
<1> DEFINE o == job[p].old
<1>1. PatchOf(job[p]) /\ Patches(p)
  BY PatchEffect
<1>2. DiskOK /\ Shape /\ Refs /\ Texts
  BY DiskNow DEF Bound
<1>3. /\ lock = p /\ lock' = NoProc /\ StepBy(p) /\ pc'[p] = "open"
      /\ jdx' = jdx /\ jdt' = jdt /\ active' = active
      /\ jhr' \in Seq(Header) /\ Len(jhr') = Len(jhr) /\ DOMAIN jhr' = DOMAIN jhr
      /\ \A h \in DOMAIN jhr : h # o => jhr'[h] = jhr[h]
      /\ jhr'[o].at = jhr[o].at
  BY <1>1 DEF Patches, Returns
<1> HIDE DEF o
<1>4. DiskOK' /\ Len(jdx) <= Len(jdx')
  BY <1>2, <1>3 DEF DiskOK, Shape
<1>5. Refs'
  BY <1>2, <1>3 DEF Refs
<1>6. Texts'
  <2>1. \A h \in DOMAIN jhr' : jhr'[h].at = jhr[h].at /\ h \in DOMAIN jhr
    BY <1>3
  <2> QED
    BY <1>2, <1>3, <2>1 DEF Texts
<1> QED
  BY <1>3, <1>4, <1>5, <1>6, LetsGoBound

PutsInfo(p) ==
    /\ Returns(p)
    /\ UNCHANGED <<jhr, jdx, jdt, faults>>
    /\ active' = ActiveAfter(job[p]) /\ active' \in Nat
    /\ job[p].kind # "replace" => table'[p] = table[p]

LEMMA PutInfoEffect ==
    ASSUME Bound, scope' = scope, NEW p \in Proc, PutInfo(p)
    PROVE  pc[p] = "info" /\ InfoOf(job[p]) /\ PutsInfo(p)
<1> DEFINE list == IF job[p].kind = "replace"
                   THEN Fresher(table[p], job[p].record, job[p].offset, jhr[job[p].offset])
                   ELSE table[p]
<1>0. TypeOK /\ table \in [Proc -> Seq(ActiveMessage)]
  BY DEF Bound, TypeOK
<1>1. /\ pc[p] = "info"
      /\ active' = ActiveAfter(job[p])
      /\ table' = [table EXCEPT ![p] = list]
      /\ UNCHANGED <<jhr, jdx, jdt, faults>>
      /\ Return(p)
  BY <1>0 DEF PutInfo, At, Updated, Fresher
<1>2. pc[p] \in Writing
  BY <1>1 DEF Writing
<1>3. InfoOf(job[p]) /\ DiskOK /\ Shape /\ job[p] \in Job
  BY <1>1, <1>2, Working DEF WorkOf
<1>4. list \in Seq(ActiveMessage)
  <2>1. CASE job[p].kind = "replace"
    <3> DEFINE o == job[p].offset
    <3>1. o \in DOMAIN jhr
      BY <1>3, <2>1 DEF InfoOf
    <3>2. o \in HeaderAt /\ jhr[o] \in Header
      BY <1>3, <3>1, JamBoundsAssumption DEF Shape, DiskOK, HeaderAt
    <3>3. job[p].record \in Nat /\ table[p] \in Seq(ActiveMessage)
      BY <1>0, <1>3, JobFields
    <3> QED
      BY <2>1, <3>2, <3>3, FresherTyped
  <2>2. CASE job[p].kind # "replace"
    BY <1>0, <2>2
  <2> QED
    BY <2>1, <2>2
<1>5. active' \in Nat
  <2>1. active \in Nat /\ job[p].done \in Nat
    BY <1>3, JobFields DEF DiskOK
  <2>2. ActiveAfter(job[p]) \in Nat
    BY <2>1 DEF ActiveAfter
  <2> QED
    BY <1>1, <2>2
<1>6. faults' \in 0 .. scope.faults
  BY <1>1, FaultsStay
<1>7. job[p].kind # "replace" => list = table[p]
  OBVIOUS
<1> HIDE DEF list
<1>8. Returns(p) /\ table'[p] = list
  BY <1>1, <1>2, <1>4, <1>6, ReturnsFrom
<1> QED
  BY <1>1, <1>3, <1>5, <1>7, <1>8 DEF PutsInfo

LEMMA PutInfoBound ==
    ASSUME Bound, scope' = scope, NEW p \in Proc, PutInfo(p)
    PROVE  Bound'
<1>1. PutsInfo(p)
  BY PutInfoEffect
<1>2. DiskOK /\ Shape /\ Refs /\ Texts
  BY DiskNow DEF Bound
<1>3. /\ lock = p /\ lock' = NoProc /\ StepBy(p) /\ pc'[p] = "open"
      /\ jhr' = jhr /\ jdx' = jdx /\ jdt' = jdt /\ active' \in Nat
  BY <1>1 DEF PutsInfo, Returns
<1>4. DiskOK' /\ Len(jdx) <= Len(jdx') /\ Refs' /\ Texts'
  BY <1>2, <1>3 DEF DiskOK, Shape, Refs, Texts
<1> QED
  BY <1>3, <1>4, LetsGoBound

\* --- what goes wrong

\* What the cutting back leaves: what stood before this message.
CutsBack(j) ==
    /\ jhr' \in Seq(Header) /\ jdt' \in Seq(Text)
    /\ Appends(j) => Shorter(jhr, jhr', j.offset - 1) /\ j.offset - 1 <= Len(jhr)
    /\ ~ Appends(j) => jhr' = jhr
    /\ j.kind = "write" => Shorter(jdt, jdt', j.head.at) /\ j.head.at <= Len(jdt)
    /\ j.kind # "write" => jdt' = jdt

Fails(p) ==
    /\ lock = p /\ StepBy(p) /\ faults' > 0
    /\ UNCHANGED <<jdx, active>>
    /\ \/ UNCHANGED <<jhr, jdt>>
       \/ pc[p] \in {"head", "subs", "index"} /\ CutsBack(job[p])
    /\ table'[p] = table[p]
    /\ \/ /\ lock' = p /\ pc'[p] = "info" /\ job'[p] = job[p]
          /\ job[p].kind \in {"write", "remove"}
       \/ lock' = NoProc /\ pc'[p] = "open" /\ job'[p] = NoJob

LEMMA CutBackCuts ==
    ASSUME Bound, NEW p \in Proc, pc[p] \in {"head", "subs", "index"}, CutBack(p)
    PROVE  CutsBack(job[p])
<1> DEFINE j == job[p]
<1>1. pc[p] \in Writing /\ pc[p] \in Making
  BY DEF Writing, Making
<1>2. DiskOK /\ Shape /\ MakingOf(j, pc[p]) /\ j \in Job
  BY <1>1, Working DEF WorkOf
<1>3. /\ jhr' = IF Appends(j) THEN SubSeq(jhr, 1, j.offset - 1) ELSE jhr
      /\ jdt' = IF j.kind = "write" THEN SubSeq(jdt, 1, j.head.at) ELSE jdt
  BY DEF CutBack, Appends
<1> HIDE DEF j
<1>4. jhr \in Seq(Header) /\ jdt \in Seq(Text)
  BY <1>2 DEF DiskOK
<1>5. j.offset - 1 \in 0 .. Len(jhr) /\ j.head.at \in 0 .. Len(jdt)
  <2>1. j.offset \in 1 .. Len(jhr) + 1 /\ j.head.at <= Len(jdt) /\ j.head \in Header
    BY <1>2 DEF MakingOf
  <2>2. j.head.at \in Nat
    BY <2>1, HeaderFields
  <2> QED
    BY <2>1, <2>2, <1>2 DEF Shape
<1>6. /\ SubSeq(jhr, 1, j.offset - 1) \in Seq(Header)
      /\ Shorter(jhr, SubSeq(jhr, 1, j.offset - 1), j.offset - 1)
  BY <1>4, <1>5, CutTo
<1>7. /\ SubSeq(jdt, 1, j.head.at) \in Seq(Text)
      /\ Shorter(jdt, SubSeq(jdt, 1, j.head.at), j.head.at)
  BY <1>4, <1>5, CutTo
<1>8. j.offset - 1 <= Len(jhr) /\ j.head.at <= Len(jdt)
  BY <1>5
<1>9. CutsBack(j)
  BY <1>3, <1>4, <1>6, <1>7, <1>8 DEF CutsBack
<1> QED
  BY <1>9 DEF j

LEMMA WriteFailsEffect ==
    ASSUME Bound, scope' = scope, NEW p \in Proc, WriteFails(p)
    PROVE  pc[p] \in Writing /\ Fails(p)
<1>1. /\ pc[p] \in Writing
      /\ faults < scope.faults /\ faults' = faults + 1
      /\ IF pc[p] \in {"head", "subs", "index"} THEN CutBack(p) ELSE UNCHANGED <<jhr, jdt>>
      /\ UNCHANGED <<jdx, active, table>>
      /\ \/ /\ job[p].kind \in {"write", "remove"}
            /\ Goto(p, "info") /\ UNCHANGED <<lock, job>>
         \/ Return(p)
  BY DEF WriteFails, Faulty, Writing, Making
<1>2. TypeOK /\ lock = p
  BY <1>1, Working DEF Bound
<1>3. faults' \in 0 .. scope.faults /\ faults' > 0
  <2>1. faults \in Nat /\ scope.faults \in Nat
    <3>1. scope.faults \in Nat
      BY ScopeBounds DEF Bound
    <3> QED
      BY <1>2, <3>1 DEF TypeOK
  <2> QED
    BY <1>1, <2>1
<1>4. \/ UNCHANGED <<jhr, jdt>>
      \/ pc[p] \in {"head", "subs", "index"} /\ CutsBack(job[p])
  BY <1>1, CutBackCuts
<1>5. table[p] \in Seq(ActiveMessage) /\ table' = [table EXCEPT ![p] = table[p]]
  BY <1>1, <1>2, Own
<1> DEFINE t == table[p]
<1>6. t \in Seq(ActiveMessage) /\ table' = [table EXCEPT ![p] = t]
  BY <1>5
<1> HIDE DEF t
<1>7. CASE /\ job[p].kind \in {"write", "remove"}
           /\ Goto(p, "info") /\ UNCHANGED <<lock, job>>
  <2> DEFINE j == job[p]
  <2>1. j \in Job /\ job' = [job EXCEPT ![p] = j]
    BY <1>2, <1>7, Own
  <2>2. pc' = [pc EXCEPT ![p] = "info"] /\ "info" \in PC /\ lock' = lock
    BY <1>7 DEF Goto, PC
  <2>3. j.kind \in {"write", "remove"}
    BY <1>7
  <2> HIDE DEF j
  <2>4. StepBy(p) /\ job'[p] = j /\ pc'[p] = "info" /\ table'[p] = t
    BY <1>2, <1>3, <1>6, <2>1, <2>2, Effect
  <2> QED
    BY <1>1, <1>2, <1>3, <1>4, <2>2, <2>3, <2>4 DEF Fails, j, t
<1>8. CASE Return(p)
  <2>1. Returns(p) /\ table'[p] = t
    BY <1>1, <1>3, <1>6, <1>8, ReturnsFrom
  <2> QED
    BY <1>1, <1>2, <1>3, <1>4, <2>1 DEF Fails, Returns, t
<1> QED
  BY <1>1, <1>7, <1>8

LEMMA FailsBound ==
    ASSUME Bound, scope' = scope, NEW p \in Proc, WriteFails(p)
    PROVE  Bound'
<1> DEFINE j == job[p]
<1>1. pc[p] \in Writing /\ Fails(p)
  BY WriteFailsEffect
<1>2. DiskOK /\ Shape /\ Refs /\ Texts /\ WorkOf(j, pc[p]) /\ j \in Job
  BY <1>1, Working
<1>3. /\ StepBy(p) /\ lock = p /\ jdx' = jdx /\ active' = active
      /\ \/ UNCHANGED <<jhr, jdt>>
         \/ pc[p] \in {"head", "subs", "index"} /\ CutsBack(j)
      /\ \/ /\ lock' = p /\ pc'[p] = "info" /\ job'[p] = j
            /\ j.kind \in {"write", "remove"}
         \/ lock' = NoProc /\ pc'[p] = "open" /\ job'[p] = NoJob
  BY <1>1 DEF Fails
<1> HIDE DEF j
<1>4. DiskOK' /\ Len(jdx) <= Len(jdx') /\ Refs' /\ Texts'
  <2>1. CASE UNCHANGED <<jhr, jdt>>
    <3>1. UNCHANGED disk
      BY <1>3, <2>1 DEF disk
    <3> QED
      BY <3>1, SameDisk
  <2>2. CASE pc[p] \in {"head", "subs", "index"} /\ CutsBack(j)
    <3>1. MakingOf(j, pc[p]) /\ (j.kind = "write" => AddingOf(j))
      BY <1>2, <2>2 DEF WorkOf, Making
    <3>2. /\ jhr' \in Seq(Header) /\ jdt' \in Seq(Text)
          /\ Appends(j) => /\ Len(jhr') = j.offset - 1 /\ DOMAIN jhr' = 1 .. j.offset - 1
                           /\ \A h \in 1 .. j.offset - 1 : jhr'[h] = jhr[h]
                           /\ j.offset - 1 <= Len(jhr)
          /\ ~ Appends(j) => jhr' = jhr
          /\ j.kind = "write" => Len(jdt') = j.head.at
          /\ j.kind # "write" => jdt' = jdt
      BY <2>2 DEF CutsBack, Shorter
    <3>3. j.offset \in Nat /\ Len(jhr) \in Nat /\ Len(jhr) <= MaxHeader /\ MaxHeader \in Nat
      BY <1>2, JobFields, JamBoundsAssumption DEF Shape, DiskOK
    <3>4. Len(jhr') <= MaxHeader
      BY <3>2, <3>3
    <3>5. DiskOK' /\ Len(jdx) <= Len(jdx')
      BY <1>2, <1>3, <3>2, <3>4 DEF DiskOK, Shape
    <3>6. \A h \in DOMAIN jhr' : h \in DOMAIN jhr /\ jhr'[h] = jhr[h] /\ (Appends(j) => h < j.offset)
      BY <1>2, <3>2, <3>3, SMTT(20) DEF Shape
    <3>7. Refs'
      <4>1. \A r \in DOMAIN jdx : jdx[r] <= Len(jhr')
        <5>1. CASE Appends(j)
          <6>1. \A r \in DOMAIN jdx : jdx[r] \in Nat /\ jdx[r] < j.offset
            BY <1>2, <3>1, <5>1 DEF MakingOf, Shape
          <6> QED
            BY <3>2, <3>3, <5>1, <6>1
        <5>2. CASE ~ Appends(j)
          BY <1>2, <3>2, <5>2 DEF Refs
        <5> QED
          BY <5>1, <5>2
      <4> QED
        BY <1>2, <1>3, <4>1 DEF Refs
    <3>8. Texts'
      <4>1. CASE j.kind = "write"
        <5>1. Appends(j)
          BY <4>1 DEF Appends
        <5>2. \A h \in DOMAIN jhr' : jhr'[h].at <= j.head.at
          BY <3>1, <3>6, <4>1, <5>1 DEF AddingOf
        <5> QED
          BY <3>2, <4>1, <5>2 DEF Texts
      <4>2. CASE j.kind # "write"
        BY <1>2, <3>2, <3>6, <4>2 DEF Texts
      <4> QED
        BY <4>1, <4>2
    <3> QED
      BY <3>5, <3>7, <3>8
  <2> QED
    BY <1>3, <2>1, <2>2
<1>5. CASE lock' = p /\ pc'[p] = "info" /\ job'[p] = j /\ j.kind \in {"write", "remove"}
  <2>1. InfoOf(job[p])'
    BY <1>5 DEF InfoOf
  <2>2. WorkOf(job[p], pc[p])'
    BY <1>5, <2>1 DEF WorkOf, Making
  <2>3. Writes(p)
    BY <1>3, <1>5, <2>2 DEF Writes, Writing
  <2> QED
    BY <1>3, <1>4, <2>3, BoundStep
<1>6. CASE lock' = NoProc /\ pc'[p] = "open" /\ job'[p] = NoJob
  BY <1>3, <1>4, <1>6, LetsGoBound
<1> QED
  BY <1>3, <1>5, <1>6

Dies(p) ==
    /\ lock = p /\ lock' = NoProc /\ StepBy(p) /\ faults' > 0
    /\ UNCHANGED disk
    /\ pc'[p] = "closed" /\ job'[p] = NoJob /\ table'[p] = <<>>

LEMMA DieEffect ==
    ASSUME Bound, scope' = scope, NEW p \in Proc, Die(p)
    PROVE  Dies(p)
<1>1. /\ lock = p /\ lock' = NoProc /\ UNCHANGED disk
      /\ faults < scope.faults /\ faults' = faults + 1
      /\ job' = [job EXCEPT ![p] = NoJob] /\ table' = [table EXCEPT ![p] = <<>>]
      /\ pc' = [pc EXCEPT ![p] = "closed"]
  BY DEF Die, Faulty, Goto
<1>2. TypeOK /\ <<>> \in Seq(ActiveMessage) /\ "closed" \in PC
  BY DEF Bound, PC
<1>3. faults' \in 0 .. scope.faults /\ faults' > 0
  <2>1. faults \in Nat /\ scope.faults \in Nat
    <3>1. scope.faults \in Nat
      BY ScopeBounds DEF Bound
    <3> QED
      BY <1>2, <3>1 DEF TypeOK
  <2> QED
    BY <1>1, <2>1
<1>4. StepBy(p) /\ job'[p] = NoJob /\ pc'[p] = "closed" /\ table'[p] = <<>>
  BY <1>1, <1>2, <1>3, NoJobTyped, Effect
<1> QED
  BY <1>1, <1>3, <1>4 DEF Dies

LEMMA DieBound ==
    ASSUME Bound, scope' = scope, NEW p \in Proc, Die(p)
    PROVE  Bound'
<1>1. Dies(p)
  BY DieEffect
<1>2. DiskOK' /\ Len(jdx) <= Len(jdx') /\ Refs' /\ Texts'
  BY <1>1, SameDisk DEF Dies
<1> QED
  BY <1>1, <1>2, LetsGoBound DEF Dies

\* --------------------------------------------------------------------------
\* The first layer is an invariant

LEMMA InitBound ==
    ASSUME Init PROVE Bound
<1>1. scope \in Scopes /\ NoProc \notin Proc
  BY JamMarkerAssumption DEF Init
<1>2. scope.faults \in Nat /\ MaxHeader \in Nat
  BY <1>1, ScopeBounds
<1>3. /\ jhr = <<>> /\ jdx = <<>> /\ jdt = <<>> /\ active = 0 /\ lock = NoProc
      /\ pc = [p \in Proc |-> "closed"] /\ table = [p \in Proc |-> <<>>]
      /\ job = [p \in Proc |-> NoJob] /\ faults = 0
  BY DEF Init
<1>4. TypeOK
  <2>1. "closed" \in PC
    BY DEF PC
  <2>2. pc \in [Proc -> PC] /\ job \in [Proc -> Job] /\ table \in [Proc -> Seq(ActiveMessage)]
    BY <1>3, <2>1, NoJobTyped
  <2>3. /\ jhr \in Seq(Header) /\ Len(jhr) <= MaxHeader /\ jdx \in Seq(0 .. MaxHeader)
        /\ jdt \in Seq(Text) /\ active \in Nat /\ faults \in 0 .. scope.faults
    BY <1>2, <1>3
  <2>4. lock \in Proc \cup {NoProc}
    BY <1>3
  <2> QED
    BY <2>2, <2>3, <2>4 DEF TypeOK
<1>5. Held
  BY <1>1, <1>3 DEF Held, Writing, Making
<1>6. Sized
  BY <1>3 DEF Sized
<1>7. Refs /\ Texts
  BY <1>3 DEF Refs, Texts
<1>8. Work
  BY <1>1, <1>3 DEF Work
<1> QED
  BY <1>1, <1>4, <1>5, <1>6, <1>7, <1>8 DEF Bound

\* What an opener, or a call with nothing to write, does to its process alone.
QuietStep(p) ==
    \E j, there, t :
        /\ Quiet(p, j, there, t) /\ there \notin Writing
        /\ there = "sized" => j.records <= Len(jdx)

LEMMA OpenerQuiet ==
    ASSUME Bound, scope' = scope, NEW p \in Proc,
           SizeFiles(p) \/ ReadIndex(p) \/ ReadHeaders(p) \/ Close(p)
    PROVE  QuietStep(p)
<1>1. CASE SizeFiles(p)
  <2> DEFINE j == [NoJob EXCEPT !.records = Len(jdx), !.headers = Len(jhr)]
  <2>1. Quiet(p, j, "sized", table[p])
    BY <1>1, SizeFilesQuiet
  <2>2. j.records <= Len(jdx)
    <3>1. Len(jdx) \in Nat
      BY DiskNow DEF Shape
    <3> QED
      BY <3>1 DEF NoJob
  <2> HIDE DEF j
  <2> QED
    BY <2>1, <2>2 DEF QuietStep, Writing, Making
<1>2. CASE ReadIndex(p)
  <2> DEFINE j == [job[p] EXCEPT !.index = SubSeq(jdx, 1, job[p].records)]
  <2>1. Quiet(p, j, "indexed", table[p])
    BY <1>2, ReadIndexQuiet
  <2> HIDE DEF j
  <2> QED
    BY <2>1 DEF QuietStep, Writing, Making
<1>3. CASE ReadHeaders(p)
  <2> DEFINE there == IF job[p].headers <= Len(jhr) THEN "open" ELSE "closed"
  <2>1. Quiet(p, NoJob, there, Opened(p))
    BY <1>3, ReadHeadersQuiet
  <2>2. there \notin Writing /\ there # "sized"
    BY DEF Writing, Making
  <2> HIDE DEF there
  <2> QED
    BY <2>1, <2>2 DEF QuietStep
<1>4. CASE Close(p)
  <2>1. Quiet(p, job[p], "closed", <<>>)
    BY <1>4, CloseQuiet
  <2> QED
    BY <2>1 DEF QuietStep, Writing, Making
<1> QED
  BY <1>1, <1>2, <1>3, <1>4

LEMMA CallStarts ==
    ASSUME Bound, scope' = scope, NEW p \in Proc,
           WriteAll(p) \/ Replace(p) \/ RemoveAll(p) \/ Mark(p)
    PROVE  Started(p) \/ Quiet(p, job[p], "open", Reload)
BY WriteAllStarts, ReplaceStarts, RemoveAllStarts, MarkStarts

LEMMA StartedBound ==
    ASSUME Bound, NEW p \in Proc, Started(p) \/ Quiet(p, job[p], "open", Reload)
    PROVE  Bound'
<1>1. CASE Started(p)
  <2>1. PICK j \in Job, there \in {"text", "mark", "patch"} :
            Begins(p, j, there) /\ WorkOf(j, there)
    BY <1>1 DEF Started
  <2>2. there \in Writing
    BY DEF Writing, Making
  <2> QED
    BY <2>1, <2>2, BeginsBound
<1>2. CASE Quiet(p, job[p], "open", Reload)
  <2> DEFINE j == job[p]
             t == Reload
  <2>1. Quiet(p, j, "open", t) /\ "open" \notin Writing
    BY <1>2 DEF Writing, Making
  <2> HIDE DEF j, t
  <2> QED
    BY <2>1, QuietBound
<1> QED
  BY <1>1, <1>2

LEMMA NextBound ==
    ASSUME Bound, [Next]_vars PROVE Bound'
<1>1. CASE Next
  <2>1. PICK p \in scope.procs :
          \/ SizeFiles(p) \/ ReadIndex(p) \/ ReadHeaders(p) \/ Close(p)
          \/ WriteAll(p) \/ Replace(p) \/ RemoveAll(p) \/ Mark(p)
          \/ PutText(p) \/ PutFixed(p) \/ PutSubfields(p) \/ PutIndex(p)
          \/ MarkOldHeader(p) \/ MarkRemoved(p) \/ BlankRecord(p)
          \/ Patch(p) \/ PutInfo(p)
          \/ WriteFails(p) \/ Die(p)
    BY <1>1 DEF Next
  <2>2. scope' = scope
    BY <1>1 DEF Next
  <2>3. p \in Proc
    BY ScopeBounds DEF Bound
  <2>4. CASE SizeFiles(p) \/ ReadIndex(p) \/ ReadHeaders(p) \/ Close(p)
    BY <2>2, <2>3, <2>4, OpenerQuiet, QuietBound DEF QuietStep
  <2>5. CASE WriteAll(p) \/ Replace(p) \/ RemoveAll(p) \/ Mark(p)
    BY <2>2, <2>3, <2>5, CallStarts, StartedBound
  <2>6. CASE PutText(p)
    BY <2>2, <2>3, <2>6, PutTextBound
  <2>7. CASE PutFixed(p)
    BY <2>2, <2>3, <2>7, PutFixedEffect, PutsHeaderBound
  <2>8. CASE PutSubfields(p)
    BY <2>2, <2>3, <2>8, PutSubfieldsEffect, PutsHeaderBound
  <2>9. CASE PutIndex(p)
    BY <2>2, <2>3, <2>9, PutIndexEffect, PutsIndexBound
  <2>10. CASE MarkOldHeader(p)
    BY <2>2, <2>3, <2>10, MarkOldHeaderBound
  <2>11. CASE MarkRemoved(p)
    BY <2>2, <2>3, <2>11, MarkRemovedBound
  <2>12. CASE BlankRecord(p)
    BY <2>2, <2>3, <2>12, BlanksBound
  <2>13. CASE Patch(p)
    BY <2>2, <2>3, <2>13, PatchBound
  <2>14. CASE PutInfo(p)
    BY <2>2, <2>3, <2>14, PutInfoBound
  <2>15. CASE WriteFails(p)
    BY <2>2, <2>3, <2>15, FailsBound
  <2>16. CASE Die(p)
    BY <2>2, <2>3, <2>16, DieBound
  <2> QED
    BY <2>1, <2>4, <2>5, <2>6, <2>7, <2>8, <2>9, <2>10, <2>11, <2>12, <2>13,
       <2>14, <2>15, <2>16
<1>2. CASE UNCHANGED vars
  <2>1. /\ jhr' = jhr /\ jdx' = jdx /\ jdt' = jdt /\ active' = active /\ lock' = lock
        /\ pc' = pc /\ table' = table /\ job' = job /\ faults' = faults /\ scope' = scope
    BY <1>2 DEF vars, disk
  <2>2. TypeOK' /\ (scope \in Scopes)' /\ Held' /\ Sized' /\ Refs' /\ Texts'
    BY <2>1 DEF Bound, TypeOK, Held, Sized, Refs, Texts
  <2>3. Work'
    BY <2>1 DEF Bound, Work, WorkOf, MakingOf, AddingOf, AgainOf, OldHeadOf,
                RemovingOf, PatchOf, InfoOf, Whole
  <2> QED
    BY <2>2, <2>3 DEF Bound
<1> QED
  BY <1>1, <1>2

LEMMA AlwaysBound == Spec => []Bound
<1>1. Init => Bound
  BY InitBound
<1>2. Bound /\ [Next]_vars => Bound'
  BY NextBound
<1> QED
  BY <1>1, <1>2, PTL DEF Spec

\* Every header, index record and text a writer leaves half done has its type,
\* every reference its place: TypeOK of the JAM base, for any processes, texts
\* and bounds.
THEOREM TypeCorrect == Spec => []TypeOK
<1>1. Bound => TypeOK
  BY DEF Bound
<1> QED
  BY <1>1, AlwaysBound, PTL

\* --------------------------------------------------------------------------
\* The second layer: ActiveMsgs

LEMMA LiveFinite ==
    ASSUME Shape
    PROVE  IsFiniteSet(Live) /\ Cardinality(Live) \in Nat
<1>1. IsFiniteSet(1 .. Len(jdx))
  BY FS_Interval DEF Shape
<1>2. Live \in SUBSET (1 .. Len(jdx))
  BY DEF Live, Shape
<1>3. IsFiniteSet(Live)
  BY <1>1, <1>2, FS_Subset
<1> QED
  BY <1>3, FS_CardinalityType

\* What says of a record whether it names a message.
LEMMA LiveOf ==
    ASSUME Shape
    PROVE  \A r : r \in Live <=> /\ r \in DOMAIN jdx /\ jdx[r] \in DOMAIN jhr
                                 /\ ~ jhr[jdx[r]].gone
BY DEF Live, IsLive

LEMMA NotLeaving ==
    ASSUME Bound, NEW p \in Proc, lock \in {p, NoProc}, pc[p] # "blank"
    PROVE  \A r : ~ Leaving(r)
BY JamMarkerAssumption DEF Leaving

\* A write of p that takes no message out or in, and counts none.
SameCount(p) ==
    /\ lock = p /\ lock' = p
    /\ active' = active /\ faults' = faults /\ jdx' = jdx
    /\ job'[p].kind = job[p].kind /\ job'[p].done = job[p].done
    /\ pc[p] # "blank" /\ pc'[p] # "blank"

LEMMA SameCounted ==
    ASSUME Bound, Counted, NEW p \in Proc, SameCount(p), Live' = Live
    PROVE  Counted'
<1>1. SUFFICES ASSUME faults' = 0
               PROVE  /\ Alive'
                      /\ (lock = NoProc => active = Cardinality(Live))'
                      /\ (\A q \in Proc : lock = q => CountOf(job[q], pc[q]))'
  BY DEF Counted
<1>2. Alive /\ CountOf(job[p], pc[p])
  BY <1>1 DEF SameCount, Counted
<1>3. Alive'
  <2>1. \A r : ~ Leaving(r)
    BY NotLeaving DEF SameCount
  <2> QED
    BY <1>2, <2>1 DEF Alive, SameCount
<1>4. CountOf(job[p], pc[p])'
  <2>1. /\ active' = active /\ job'[p].kind = job[p].kind
        /\ job'[p].done = job[p].done /\ pc[p] # "blank" /\ pc'[p] # "blank"
    BY DEF SameCount
  <2>2. CASE job[p].kind = "write"
    BY <1>2, <2>1, <2>2 DEF CountOf
  <2>3. CASE job[p].kind = "remove"
    BY <1>2, <2>1, <2>3 DEF CountOf
  <2>4. CASE job[p].kind \notin {"write", "remove"}
    BY <1>2, <2>1, <2>4 DEF CountOf
  <2> QED
    BY <2>2, <2>3, <2>4
<1>5. lock' = p /\ p # NoProc
  BY JamMarkerAssumption DEF SameCount
<1> QED
  BY <1>3, <1>4, <1>5

LEMMA QuietCounted ==
    ASSUME Bound, Counted, NEW p \in Proc, NEW j, NEW there, NEW t, Quiet(p, j, there, t),
           faults' = faults
    PROVE  Counted'
<1>1. SUFFICES ASSUME faults' = 0
               PROVE  /\ Alive'
                      /\ (lock = NoProc => active = Cardinality(Live))'
                      /\ (\A q \in Proc : lock = q => CountOf(job[q], pc[q]))'
  BY DEF Counted
<1>2. /\ Alive /\ (lock = NoProc => active = Cardinality(Live))
      /\ \A q \in Proc : lock = q => CountOf(job[q], pc[q])
  BY <1>1 DEF Counted
<1>3. /\ jhr' = jhr /\ jdx' = jdx /\ active' = active /\ lock' = lock
      /\ lock # p
      /\ \A q \in Proc : q # p => pc'[q] = pc[q] /\ job'[q] = job[q]
  BY DEF Quiet, disk, StepBy, Bound, Held
<1>4. Live' = Live
  BY <1>3 DEF Live, IsLive
<1>5. Alive'
  <2>1. \A r : Leaving(r) => Leaving(r)'
    BY <1>3 DEF Leaving
  <2> QED
    BY <1>2, <1>3, <1>4, <2>1 DEF Alive
<1>6. ASSUME NEW q \in Proc, lock' = q PROVE CountOf(job[q], pc[q])'
  <2>1. CountOf(job[q], pc[q]) /\ job'[q] = job[q] /\ pc'[q] = pc[q]
    BY <1>2, <1>3, <1>6
  <2> QED
    BY <1>3, <1>4, <2>1 DEF CountOf
<1> QED
  BY <1>2, <1>3, <1>4, <1>5, <1>6

LEMMA StartedCounted ==
    ASSUME Bound, Counted, NEW p \in Proc, Started(p)
    PROVE  Counted'
<1>1. PICK j \in Job, there \in {"text", "mark", "patch"} :
          Begins(p, j, there) /\ j.done = 0
  BY DEF Started
<1>2. /\ lock = NoProc /\ lock' = p /\ job'[p] = j /\ pc'[p] = there
      /\ jhr' = jhr /\ jdx' = jdx /\ active' = active /\ faults' = faults
      /\ pc[p] = "open"
  BY <1>1 DEF Begins, disk
<1>3. SUFFICES ASSUME faults' = 0
               PROVE  /\ Alive'
                      /\ (lock = NoProc => active = Cardinality(Live))'
                      /\ (\A q \in Proc : lock = q => CountOf(job[q], pc[q]))'
  BY DEF Counted
<1>4. Alive /\ active = Cardinality(Live)
  BY <1>2, <1>3 DEF Counted
<1>5. Live' = Live /\ Cardinality(Live) \in Nat
  BY <1>2, DiskNow, LiveFinite DEF Live, IsLive
<1>6. Alive'
  <2>1. \A r : ~ Leaving(r)
    BY <1>2, NotLeaving
  <2> QED
    BY <1>2, <1>4, <1>5, <2>1 DEF Alive
<1>7. CountOf(job[p], pc[p])'
  <2>1. active' = Cardinality(Live') /\ Cardinality(Live') \in Nat /\ pc'[p] # "blank"
    BY <1>2, <1>4, <1>5
  <2>2. CountOf(j, there)'
    BY <1>1, <1>2, <2>1 DEF CountOf
  <2> QED
    BY <1>2, <2>1, <1>1 DEF CountOf
<1>8. p # NoProc
  BY JamMarkerAssumption
<1> QED
  BY <1>2, <1>6, <1>7, <1>8

LEMMA PutTextCounted ==
    ASSUME Bound, Counted, scope' = scope, NEW p \in Proc, PutText(p)
    PROVE  Counted'
<1>1. GoesOn(p, "head") /\ pc[p] = "text" /\ UNCHANGED <<jhr, jdx, active>>
  BY PutTextEffect
<1>2. SameCount(p) /\ Live' = Live
  BY <1>1 DEF GoesOn, SameCount, Live, IsLive
<1> QED
  BY <1>2, SameCounted

\* The header in the making is no other message's.
LEMMA PutsHeaderLive ==
    ASSUME Bound, scope' = scope, NEW p \in Proc, NEW header, NEW there,
           \/ pc[p] = "head" /\ there = "subs"
           \/ pc[p] = "subs" /\ there = "index",
           PutsHeader(p, header, there)
    PROVE  /\ Live' = Live
           /\ \A r \in DOMAIN jdx : jdx[r] = job[p].offset => r = job[p].record
<1> DEFINE j == job[p]
<1>1. pc[p] \in Writing /\ pc[p] \in Making
  BY DEF Writing, Making
<1>2. /\ Shape /\ MakingOf(j, pc[p]) /\ (j.kind = "replace" => AgainOf(j))
  BY <1>1, Working DEF WorkOf
<1>3. /\ jdx' = jdx /\ active' = active /\ GoesOn(p, there)
      /\ PutAt(jhr, jhr', j.offset, header) /\ header.gone = FALSE
  BY DEF PutsHeader
<1> HIDE DEF j
<1>5. /\ jhr'[j.offset] = header
      /\ \A h \in DOMAIN jhr : h # j.offset => jhr'[h] = jhr[h]
      /\ \A h \in DOMAIN jhr' : h = j.offset \/ h \in DOMAIN jhr
      /\ \A h \in DOMAIN jhr : h \in DOMAIN jhr'
  <2>1. /\ jhr'[j.offset] = header
        /\ \A h \in DOMAIN jhr : h # j.offset => jhr'[h] = jhr[h]
        /\ \A h \in DOMAIN jhr' : h = j.offset \/ h \in DOMAIN jhr
        /\ Len(jhr') = (IF j.offset <= Len(jhr) THEN Len(jhr) ELSE j.offset)
        /\ DOMAIN jhr' = 1 .. Len(jhr')
    BY <1>3 DEF PutAt
  <2>2. j.offset \in 1 .. Len(jhr) + 1 /\ DOMAIN jhr = 1 .. Len(jhr) /\ Len(jhr) \in Nat
    BY <1>2 DEF MakingOf, Shape
  <2> QED
    BY <2>1, <2>2
<1>6. \A r \in DOMAIN jdx : jdx[r] = j.offset => r \in Live /\ r = j.record
  <2>1. ASSUME NEW r \in DOMAIN jdx, jdx[r] = j.offset PROVE r \in Live /\ r = j.record
    <3>1. ~ Appends(j)
      <4>1. jdx[r] \in Nat
        BY <1>2 DEF Shape
      <4> QED
        BY <2>1, <1>2, <4>1 DEF MakingOf
    <3>2. j.offset = j.old /\ j.kind = "replace"
      BY <3>1, <1>2 DEF Appends, MakingOf
    <3>3. r \in Live
      BY <3>2, <2>1, <1>2 DEF AgainOf, Live, IsLive
    <3>4. r = j.record
      <4>1. jdx[r] # 0 /\ jdx[j.record] = jdx[r] /\ j.record \in DOMAIN jdx
        BY <3>2, <2>1, <1>2 DEF AgainOf, Shape
      <4> QED
        BY <4>1, DiskNow DEF Bound, Refs
    <3> QED
      BY <3>3, <3>4
  <2> QED
    BY <2>1
<1>7. ASSUME NEW r \in DOMAIN jdx PROVE IsLive(jdx, jhr, r)' <=> IsLive(jdx, jhr, r)
  <2>1. CASE jdx[r] = j.offset
    <3>1. r \in Live
      BY <1>6, <2>1
    <3>2. IsLive(jdx, jhr, r)
      BY <3>1 DEF Live
    <3>3. IsLive(jdx, jhr, r)'
      BY <3>2, <1>3, <1>5, <2>1 DEF IsLive
    <3> QED
      BY <3>2, <3>3
  <2>2. CASE jdx[r] # j.offset
    BY <1>3, <1>5, <2>2 DEF IsLive
  <2> QED
    BY <2>1, <2>2
<1>8. Live' = Live
  BY <1>3, <1>7 DEF Live
<1> QED
  BY <1>6, <1>8 DEF j

LEMMA PutsHeaderCounted ==
    ASSUME Bound, Counted, scope' = scope, NEW p \in Proc, NEW header, NEW there,
           \/ pc[p] = "head" /\ there = "subs"
           \/ pc[p] = "subs" /\ there = "index",
           PutsHeader(p, header, there)
    PROVE  Counted'
<1>1. SameCount(p)
  BY DEF PutsHeader, GoesOn, SameCount
<1>2. Live' = Live
  BY PutsHeaderLive
<1> QED
  BY <1>1, <1>2, SameCounted

\* How a step of the process that has the lock is seen to keep the count.
LEMMA CountedTo ==
    ASSUME NEW p \in Proc, lock' \in {p, NoProc},
           faults' = 0 =>
              /\ Alive'
              /\ lock' = NoProc => active' = Cardinality(Live')
              /\ lock' = p => CountOf(job[p], pc[p])'
    PROVE  Counted'
<1>1. p # NoProc /\ NoProc \notin Proc
  BY JamMarkerAssumption
<1> QED
  BY <1>1 DEF Counted

\* Where the call stands once an index record is written.
LEMMA NextFields ==
    ASSUME Bound, NEW p \in Proc, pc[p] = "index", PutsIndex(p)
    PROVE  /\ job'[p].kind = job[p].kind /\ job'[p].done = job[p].done + 1
           /\ pc'[p] = "text" =>
                 job'[p].offset = Len(jhr) + 1 /\ job'[p].head.at = Len(jdt)
           /\ pc'[p] \in {"text", "oldhead", "info"}
           /\ pc'[p] = "oldhead" => job[p].kind = "replace"
<1> DEFINE j == job[p]
           n == job'[p]
           w == Written(j)
           index == jdx'
<1>1. pc[p] \in Writing /\ pc[p] \in Making
  BY DEF Writing, Making
<1>2. Shape /\ j \in Job /\ j.drafts # <<>>
  BY <1>1, Working DEF WorkOf, MakingOf
<1>3. \/ /\ Tail(j.drafts) # <<>> /\ pc'[p] = "text"
         /\ n = NextDraft(w, jhr, index, jdt)
      \/ /\ Tail(j.drafts) = <<>> /\ n = w
         /\ pc'[p] = IF j.kind = "replace" /\ j.offset # j.old THEN "oldhead" ELSE "info"
  BY DEF PutsIndex
<1>4. w \in Job /\ w.kind = j.kind /\ w.drafts = Tail(j.drafts) /\ w.done = j.done + 1
  <2> HIDE DEF j
  <2> QED
    BY <1>2, WrittenFields
<1>5. Len(index) \in Nat /\ Len(jhr) \in Nat /\ Len(jdt) \in Nat
  <2>1. Len(jdx') \in Nat
    BY DEF PutsIndex
  <2> QED
    BY <1>2, <2>1 DEF Shape
<1> DEFINE left == Tail(j.drafts)
<1>6. \/ left # <<>> /\ pc'[p] = "text" /\ n = NextDraft(w, jhr, index, jdt)
      \/ /\ left = <<>> /\ n = w
         /\ pc'[p] = IF j.kind = "replace" /\ j.offset # j.old THEN "oldhead" ELSE "info"
  BY <1>3
<1>7. w.drafts = left
  BY <1>4
<1> HIDE DEF j, n, w, index, left
<1>8. CASE left # <<>> /\ pc'[p] = "text" /\ n = NextDraft(w, jhr, index, jdt)
  <2>1. w \in Job /\ w.drafts # <<>>
    BY <1>4, <1>7, <1>8
  <2> DEFINE m == NextDraft(w, jhr, index, jdt)
  <2>2. /\ m.kind = w.kind /\ m.done = w.done
        /\ m.offset = Len(jhr) + 1 /\ m.head.at = Len(jdt)
    BY <1>5, <2>1, NextDraftFields
  <2>3. n = m
    BY <1>8
  <2> HIDE DEF m
  <2> QED
    BY <1>4, <1>8, <2>2, <2>3 DEF n, j
<1>9. CASE /\ left = <<>> /\ n = w
           /\ pc'[p] = IF j.kind = "replace" /\ j.offset # j.old THEN "oldhead" ELSE "info"
  BY <1>4, <1>9 DEF n, j
<1> QED
  BY <1>6, <1>8, <1>9

\* The message is there, where it was not.
LEMMA PutsIndexLive ==
    ASSUME Bound, scope' = scope, NEW p \in Proc, pc[p] = "index", PutsIndex(p)
    PROVE  /\ Live' = Live \cup {job[p].record}
           /\ job[p].kind = "write" => job[p].record \notin Live
           /\ job[p].kind = "replace" => job[p].record \in Live
<1> DEFINE j == job[p]
<1>1. pc[p] \in Writing /\ pc[p] \in Making
  BY DEF Writing, Making
<1>2. /\ Shape /\ j \in Job /\ MakingOf(j, "index") /\ lock = p
      /\ (j.kind = "write" => AddingOf(j)) /\ (j.kind = "replace" => AgainOf(j))
  BY <1>1, Working DEF WorkOf
<1>3. /\ jhr' = jhr /\ active' = active /\ faults' = faults /\ lock' = p
  BY DEF PutsIndex
<1>4. /\ j.record \in DOMAIN jdx'
      /\ \A r \in DOMAIN jdx' : jdx'[r] = IF r = j.record THEN j.offset ELSE jdx[r]
      /\ DOMAIN jdx' = DOMAIN jdx \cup {j.record}
      /\ j.kind = "write" => j.record \notin DOMAIN jdx
      /\ DiskOK'
  BY IndexPut
<1> HIDE DEF j
<1>6. j.offset \in DOMAIN jhr /\ jhr[j.offset].gone = FALSE /\ j.kind \in {"write", "replace"}
  <2>1. jhr[j.offset] = [j.head EXCEPT !.subs = j.head.of] /\ j.head \in Header /\ ~ j.head.gone
    BY <1>2 DEF MakingOf
  <2>2. j.head.gone = FALSE
    BY <2>1, HeaderFields
  <2>3. [j.head EXCEPT !.subs = j.head.of].gone = FALSE
    BY <2>1, <2>2 DEF Header
  <2> QED
    BY <1>2, <2>1, <2>3 DEF MakingOf
<1>7. Live' = Live \cup {j.record}
  <2>1. Shape'
    BY <1>4, ShapeOfDisk, PTL
  <2>2. \A r : r \in Live <=> /\ r \in DOMAIN jdx /\ jdx[r] \in DOMAIN jhr
                              /\ ~ jhr[jdx[r]].gone
    BY <1>2, LiveOf
  <2>3. \A r : r \in Live' <=> /\ r \in DOMAIN jdx' /\ jdx'[r] \in DOMAIN jhr
                               /\ ~ jhr[jdx'[r]].gone
    BY <1>3 DEF Live, IsLive
  <2>4. ASSUME NEW r PROVE r \in Live' <=> r \in Live \cup {j.record}
    <3>1. CASE r = j.record
      BY <3>1, <2>3, <1>4, <1>6
    <3>2. CASE r # j.record
      BY <3>2, <2>2, <2>3, <1>4
    <3> QED
      BY <3>1, <3>2
  <2> QED
    BY <2>4
<1>8. j.kind = "write" => j.record \notin Live
  BY <1>4 DEF Live
<1>9. j.kind = "replace" => j.record \in Live
  BY <1>2 DEF AgainOf, Live, IsLive
<1> QED
  BY <1>7, <1>8, <1>9 DEF j

LEMMA PutsIndexCounted ==
    ASSUME Bound, Counted, scope' = scope, NEW p \in Proc, pc[p] = "index", PutsIndex(p)
    PROVE  Counted'
<1> DEFINE j == job[p]
           n == job'[p]
<1>1. pc[p] \in Writing /\ pc[p] \in Making
  BY DEF Writing, Making
<1>2. /\ Shape /\ j \in Job /\ MakingOf(j, "index") /\ lock = p
      /\ (j.kind = "write" => AddingOf(j)) /\ (j.kind = "replace" => AgainOf(j))
  BY <1>1, Working DEF WorkOf
<1>3. /\ jhr' = jhr /\ active' = active /\ faults' = faults /\ lock' = p
  BY DEF PutsIndex
<1>4. /\ j.record \in DOMAIN jdx'
      /\ \A r \in DOMAIN jdx' : jdx'[r] = IF r = j.record THEN j.offset ELSE jdx[r]
      /\ DOMAIN jdx' = DOMAIN jdx \cup {j.record}
      /\ j.kind = "write" => j.record \notin DOMAIN jdx
      /\ DiskOK'
  BY IndexPut
<1>5. /\ n.kind = j.kind /\ n.done = j.done + 1 /\ pc'[p] # "blank"
  BY NextFields
<1> HIDE DEF j, n
<1>6. j.kind \in {"write", "replace"}
  BY <1>2 DEF MakingOf
<1>7. Live' = Live \cup {j.record}
  BY PutsIndexLive DEF j
<1>8. IsFiniteSet(Live) /\ Cardinality(Live) \in Nat
  BY <1>2, LiveFinite
<1>9. /\ j.kind = "write" => Cardinality(Live') = Cardinality(Live) + 1
      /\ j.kind = "replace" => Live' = Live
  <2>1. CASE j.kind = "write"
    <3>1. j.record \notin Live
      BY <2>1, <1>4 DEF Live
    <3> QED
      BY <1>7, <1>8, <2>1, <3>1, FS_AddElement
  <2>2. CASE j.kind = "replace"
    <3>1. j.record \in Live
      BY <2>2, <1>2 DEF AgainOf, Live, IsLive
    <3> QED
      BY <1>7, <2>2, <3>1
  <2> QED
    BY <2>1, <2>2, <1>6
<1>10. ASSUME faults' = 0
       PROVE  Alive' /\ CountOf(job[p], pc[p])'
  <2>1. Alive /\ CountOf(j, pc[p])
    BY <1>2, <1>3, <1>10 DEF Counted, j
  <2>2. Alive'
    <3>1. \A r : ~ Leaving(r)
      BY <1>2, NotLeaving
    <3>2. \A r \in DOMAIN jdx : jdx[r] = 0 \/ r \in Live
      BY <2>1, <3>1 DEF Alive
    <3>3. \A r \in DOMAIN jdx' : jdx'[r] = 0 \/ r \in Live'
      BY <1>4, <1>7, <3>2
    <3> QED
      BY <3>3 DEF Alive
  <2>3. CountOf(job[p], pc[p])'
    <3>1. active \in Nat /\ j.done \in Nat
      BY <1>2, JobFields, DiskNow DEF DiskOK
    <3>2. CASE j.kind = "write"
      <4>1. active + j.done = Cardinality(Live)
        BY <2>1, <3>2 DEF CountOf
      <4>2. active + n.done = Cardinality(Live')
        BY <4>1, <3>1, <3>2, <1>5, <1>8, <1>9
      <4> QED
        BY <4>2, <3>2, <1>3, <1>5 DEF CountOf, n
    <3>3. CASE j.kind = "replace"
      <4>1. active = Cardinality(Live)
        BY <2>1, <3>3 DEF CountOf
      <4> QED
        BY <4>1, <3>3, <1>3, <1>5, <1>9 DEF CountOf, n
    <3> QED
      BY <3>2, <3>3, <1>6
  <2> QED
    BY <2>2, <2>3
<1>11. p # NoProc
  BY JamMarkerAssumption
<1> QED
  BY <1>3, <1>10, <1>11, CountedTo

LEMMA MarkOldHeaderCounted ==
    ASSUME Bound, Counted, scope' = scope, NEW p \in Proc, MarkOldHeader(p)
    PROVE  Counted'
<1>1. /\ pc[p] = "oldhead" /\ OldHeadOf(job[p])
      /\ GoesOn(p, "info") /\ MarksGone(job[p].old)
  BY MarkOldHeaderEffect
<1>2. SameCount(p)
  BY <1>1 DEF GoesOn, MarksGone, SameCount
<1>3. \A r \in DOMAIN jdx : IsLive(jdx, jhr, r)' <=> IsLive(jdx, jhr, r)
  BY <1>1 DEF IsLive, MarksGone, OldHeadOf
<1>4. Live' = Live
  BY <1>1, <1>3 DEF Live, MarksGone
<1> QED
  BY <1>2, <1>4, SameCounted

LEMMA MarkRemovedLive ==
    ASSUME Bound, scope' = scope, NEW p \in Proc, MarkRemoved(p)
    PROVE  Live' = Live \ {NextTarget(p)}
<1> DEFINE t == NextTarget(p)
<1>1. /\ pc[p] = "mark" /\ RemovingOf(job[p], "mark")
      /\ t \in DOMAIN jdx /\ jdx[t] \in DOMAIN jhr
      /\ GoesOn(p, "blank") /\ MarksGone(jdx[t])
  BY MarkRemovedEffect
<1>2. /\ lock = p /\ lock' = p /\ pc'[p] = "blank" /\ job'[p] = job[p]
      /\ jdx' = jdx /\ active' = active /\ faults' = faults
      /\ DOMAIN jhr' = DOMAIN jhr
      /\ \A h \in DOMAIN jhr : h # jdx[t] => jhr'[h] = jhr[h]
      /\ jhr'[jdx[t]].gone = TRUE
      /\ t = Min(job[p].targets) /\ job[p].kind = "remove"
  BY <1>1 DEF GoesOn, MarksGone, NextTarget, RemovingOf
<1> HIDE DEF t
<1>3. Shape /\ Refs
  BY DiskNow DEF Bound
<1>4. Live' = Live \ {t}
  <2>1. ASSUME NEW r \in DOMAIN jdx PROVE IsLive(jdx, jhr, r)' <=> IsLive(jdx, jhr, r) /\ r # t
    <3>1. CASE r = t
      BY <1>2, <3>1 DEF IsLive
    <3>2. CASE r # t
      <4>1. jdx[r] # jdx[t]
        <5>1. jdx[t] # 0
          BY <1>1, <1>3 DEF Shape
        <5> QED
          BY <5>1, <3>2, <1>1, <1>3 DEF Refs
      <4> QED
        BY <1>2, <3>2, <4>1 DEF IsLive
    <3> QED
      BY <3>1, <3>2
  <2> QED
    BY <1>2, <2>1 DEF Live
<1> QED
  BY <1>4 DEF t

LEMMA MarkRemovedCounted ==
    ASSUME Bound, Counted, scope' = scope, NEW p \in Proc, MarkRemoved(p)
    PROVE  Counted'
<1> DEFINE t == NextTarget(p)
<1>1. /\ pc[p] = "mark" /\ RemovingOf(job[p], "mark")
      /\ t \in DOMAIN jdx /\ jdx[t] \in DOMAIN jhr
      /\ GoesOn(p, "blank") /\ MarksGone(jdx[t])
  BY MarkRemovedEffect
<1>2. /\ lock = p /\ lock' = p /\ pc'[p] = "blank" /\ job'[p] = job[p]
      /\ jdx' = jdx /\ active' = active /\ faults' = faults
      /\ DOMAIN jhr' = DOMAIN jhr
      /\ \A h \in DOMAIN jhr : h # jdx[t] => jhr'[h] = jhr[h]
      /\ jhr'[jdx[t]].gone = TRUE
      /\ t = Min(job[p].targets) /\ job[p].kind = "remove"
  BY <1>1 DEF GoesOn, MarksGone, NextTarget, RemovingOf
<1> HIDE DEF t
<1>3. Shape /\ Refs
  BY DiskNow DEF Bound
<1>4. Live' = Live \ {t}
  BY MarkRemovedLive DEF t
<1>5. IsFiniteSet(Live) /\ Cardinality(Live) \in Nat
  BY <1>3, LiveFinite
<1>6. ASSUME faults' = 0
      PROVE  Alive' /\ CountOf(job[p], pc[p])'
  <2>1. Alive /\ CountOf(job[p], pc[p])
    BY <1>2, <1>6 DEF Counted
  <2>2. \A r \in DOMAIN jdx : jdx[r] = 0 \/ r \in Live
    <3>1. \A r : ~ Leaving(r)
      BY <1>1, <1>2, NotLeaving
    <3> QED
      BY <2>1, <3>1 DEF Alive
  <2>3. t \in Live
    <3>1. jdx[t] # 0
      BY <1>1, <1>3 DEF Shape
    <3> QED
      BY <2>2, <3>1, <1>1
  <2>4. Cardinality(Live') = Cardinality(Live) - 1
    BY <1>4, <1>5, <2>3, FS_RemoveElement
  <2>5. Alive'
    <3>1. \A r : r = t => Leaving(r)'
      BY <1>2 DEF Leaving
    <3>2. \A r \in DOMAIN jdx' : jdx'[r] = 0 \/ r \in Live' \/ Leaving(r)'
      BY <1>2, <1>4, <2>2, <3>1
    <3> QED
      BY <3>2 DEF Alive
  <2>6. CountOf(job[p], pc[p])'
    <3>1. active = Cardinality(Live) + job[p].done + 0
      BY <1>1, <1>2, <2>1 DEF CountOf
    <3>2. job[p].done \in Nat
      BY JobFields DEF Bound, TypeOK
    <3>3. active' = Cardinality(Live') + job'[p].done + 1
      BY <1>2, <1>5, <2>4, <3>1, <3>2
    <3> QED
      BY <1>2, <3>3 DEF CountOf
  <2> QED
    BY <2>5, <2>6
<1>7. p # NoProc
  BY JamMarkerAssumption
<1> QED
  BY <1>2, <1>6, <1>7, CountedTo

LEMMA BlanksLive ==
    ASSUME Bound, scope' = scope, NEW p \in Proc, BlankRecord(p)
    PROVE  Live' = Live
<1> DEFINE t == NextTarget(p)
           left == job[p].targets \ {t}
<1>1. pc[p] = "blank" /\ RemovingOf(job[p], "blank") /\ Blanks(p)
  BY BlankRecordEffect
<1>2. job[p] \in Job /\ Shape
  BY DiskNow DEF Bound, TypeOK
<1>3. /\ lock = p /\ lock' = p /\ jhr' = jhr /\ active' = active /\ faults' = faults
      /\ DOMAIN jdx' = DOMAIN jdx /\ jdx'[t] = 0 /\ t \in DOMAIN jdx
      /\ \A r \in DOMAIN jdx : r # t => jdx'[r] = jdx[r]
      /\ job'[p] = [job[p] EXCEPT !.targets = left, !.done = @ + 1]
      /\ pc'[p] \in {"info", "mark"}
  BY <1>1 DEF Blanks, Changed
<1>4. /\ t = Min(job[p].targets) /\ job[p].kind = "remove" /\ jhr[jdx[t]].gone
  BY <1>1 DEF RemovingOf, NextTarget
<1> HIDE DEF t, left
<1>6. Live' = Live
  <2>1. 0 \notin DOMAIN jhr
    BY <1>2 DEF Shape
  <2>2. ASSUME NEW r \in DOMAIN jdx PROVE IsLive(jdx, jhr, r)' <=> IsLive(jdx, jhr, r)
    <3>1. CASE r = t
      BY <1>3, <1>4, <2>1, <3>1 DEF IsLive
    <3>2. CASE r # t
      BY <1>3, <3>2 DEF IsLive
    <3> QED
      BY <3>1, <3>2
  <2> QED
    BY <1>3, <2>2 DEF Live
<1> QED
  BY <1>6

LEMMA BlanksCounted ==
    ASSUME Bound, Counted, scope' = scope, NEW p \in Proc, BlankRecord(p)
    PROVE  Counted'
<1> DEFINE t == NextTarget(p)
           left == job[p].targets \ {t}
<1>1. pc[p] = "blank" /\ RemovingOf(job[p], "blank") /\ Blanks(p)
  BY BlankRecordEffect
<1>2. job[p] \in Job /\ Shape
  BY DiskNow DEF Bound, TypeOK
<1>3. /\ lock = p /\ lock' = p /\ jhr' = jhr /\ active' = active /\ faults' = faults
      /\ DOMAIN jdx' = DOMAIN jdx /\ jdx'[t] = 0 /\ t \in DOMAIN jdx
      /\ \A r \in DOMAIN jdx : r # t => jdx'[r] = jdx[r]
      /\ job'[p] = [job[p] EXCEPT !.targets = left, !.done = @ + 1]
      /\ pc'[p] \in {"info", "mark"}
  BY <1>1 DEF Blanks, Changed
<1>4. /\ t = Min(job[p].targets) /\ job[p].kind = "remove" /\ jhr[jdx[t]].gone
  BY <1>1 DEF RemovingOf, NextTarget
<1>5. job'[p].kind = "remove" /\ job'[p].done = job[p].done + 1 /\ job[p].done \in Nat
  BY <1>2, <1>3, <1>4 DEF Job
<1> HIDE DEF t, left
<1>6. Live' = Live
  BY BlanksLive
<1>7. ASSUME faults' = 0
      PROVE  Alive' /\ CountOf(job[p], pc[p])'
  <2>1. Alive /\ CountOf(job[p], pc[p])
    BY <1>3, <1>7 DEF Counted
  <2>2. Alive'
    <3>1. \A r : Leaving(r) => r = t
      <4>1. p # NoProc
        BY JamMarkerAssumption
      <4> QED
        BY <1>3, <1>4, <4>1 DEF Leaving
    <3>2. \A r \in DOMAIN jdx' : jdx'[r] = 0 \/ r \in Live'
      BY <1>3, <1>6, <2>1, <3>1 DEF Alive
    <3> QED
      BY <3>2 DEF Alive
  <2>3. CountOf(job[p], pc[p])'
    <3>1. active = Cardinality(Live) + job[p].done + 1
      BY <1>1, <1>4, <2>1 DEF CountOf
    <3>2. Cardinality(Live) \in Nat
      BY <1>2, LiveFinite
    <3>3. active' = Cardinality(Live') + job'[p].done + 0
      BY <1>3, <1>5, <1>6, <3>1, <3>2
    <3> QED
      BY <1>3, <1>5, <3>3 DEF CountOf
  <2> QED
    BY <2>2, <2>3
<1>8. p # NoProc
  BY JamMarkerAssumption
<1> QED
  BY <1>3, <1>7, <1>8, CountedTo

LEMMA PatchCounted ==
    ASSUME Bound, Counted, scope' = scope, NEW p \in Proc, Patch(p)
    PROVE  Counted'
<1>1. pc[p] = "patch" /\ PatchOf(job[p]) /\ Patches(p)
  BY PatchEffect
<1>2. /\ lock = p /\ lock' = NoProc /\ jdx' = jdx /\ active' = active /\ faults' = faults
      /\ DOMAIN jhr' = DOMAIN jhr
      /\ \A h \in DOMAIN jhr : jhr'[h].gone = jhr[h].gone
  BY <1>1 DEF Patches, Returns
<1>3. Live' = Live
  BY <1>2 DEF Live, IsLive
<1>4. ASSUME faults' = 0
      PROVE  Alive' /\ active' = Cardinality(Live')
  <2>1. Alive /\ CountOf(job[p], pc[p])
    BY <1>2, <1>4 DEF Counted
  <2>2. \A r : ~ Leaving(r)
    BY <1>1, <1>2, NotLeaving
  <2>3. Alive'
    BY <1>2, <1>3, <2>1, <2>2 DEF Alive
  <2>4. active = Cardinality(Live)
    BY <1>1, <2>1 DEF CountOf, PatchOf
  <2> QED
    BY <1>2, <1>3, <2>3, <2>4
<1>5. p # NoProc
  BY JamMarkerAssumption
<1> QED
  BY <1>2, <1>4, <1>5, CountedTo

LEMMA PutInfoCounted ==
    ASSUME Bound, Counted, scope' = scope, NEW p \in Proc, PutInfo(p)
    PROVE  Counted'
<1>1. pc[p] = "info" /\ InfoOf(job[p]) /\ PutsInfo(p)
  BY PutInfoEffect
<1>2. /\ lock = p /\ lock' = NoProc /\ jhr' = jhr /\ jdx' = jdx /\ faults' = faults
      /\ active' = ActiveAfter(job[p])
  BY <1>1 DEF PutsInfo, Returns
<1>3. Live' = Live
  BY <1>2 DEF Live, IsLive
<1>4. ASSUME faults' = 0
      PROVE  Alive' /\ active' = Cardinality(Live')
  <2>1. Alive /\ CountOf(job[p], pc[p])
    BY <1>2, <1>4 DEF Counted
  <2>2. \A r : ~ Leaving(r)
    BY <1>1, <1>2, NotLeaving
  <2>3. Alive'
    BY <1>2, <1>3, <2>1, <2>2 DEF Alive
  <2>4. ActiveAfter(job[p]) = Cardinality(Live)
    <3>1. Cardinality(Live) \in Nat /\ job[p].done \in Nat
      BY LiveFinite, DiskNow, JobFields DEF Bound, TypeOK
    <3>2. CASE job[p].kind = "write"
      BY <2>1, <3>2 DEF CountOf, ActiveAfter
    <3>3. CASE job[p].kind = "remove"
      <4>1. active = Cardinality(Live) + job[p].done + 0
        BY <1>1, <2>1, <3>3 DEF CountOf
      <4> QED
        BY <3>1, <3>3, <4>1 DEF ActiveAfter
    <3>4. CASE job[p].kind = "replace"
      BY <2>1, <3>4 DEF CountOf, ActiveAfter
    <3> QED
      BY <1>1, <3>2, <3>3, <3>4 DEF InfoOf
  <2> QED
    BY <1>2, <1>3, <2>3, <2>4
<1>5. p # NoProc
  BY JamMarkerAssumption
<1> QED
  BY <1>2, <1>4, <1>5, CountedTo

LEMMA InitCounted ==
    ASSUME Init PROVE Counted
<1>1. jdx = <<>> /\ active = 0 /\ lock = NoProc /\ NoProc \notin Proc
  BY JamMarkerAssumption DEF Init
<1>2. DOMAIN jdx = {}
  BY <1>1
<1>3. Live = {}
  BY <1>2 DEF Live
<1>4. active = Cardinality(Live)
  BY <1>1, <1>3, FS_EmptySet
<1> QED
  BY <1>1, <1>2, <1>4 DEF Counted, Alive

\* Opening, closing and what finds nothing to write leave the count alone.
LEMMA OpenerCounted ==
    ASSUME Bound, Counted, scope' = scope, NEW p \in Proc,
           SizeFiles(p) \/ ReadIndex(p) \/ ReadHeaders(p) \/ Close(p)
    PROVE  Counted'
<1>1. faults' = faults
  BY DEF SizeFiles, ReadIndex, ReadHeaders, Close
<1>2. QuietStep(p)
  BY OpenerQuiet
<1> QED
  BY <1>1, <1>2, QuietCounted DEF QuietStep

LEMMA CallCounted ==
    ASSUME Bound, Counted, scope' = scope, NEW p \in Proc,
           WriteAll(p) \/ Replace(p) \/ RemoveAll(p) \/ Mark(p)
    PROVE  Counted'
<1>1. faults' = faults
  BY DEF WriteAll, Replace, RemoveAll, Mark, Locked
<1>2. Started(p) \/ Quiet(p, job[p], "open", Reload)
  BY CallStarts
<1> QED
  BY <1>1, <1>2, StartedCounted, QuietCounted

LEMMA NextCounted ==
    ASSUME Bound, Counted, [Next]_vars PROVE Counted'
<1>1. CASE Next
  <2>1. PICK p \in scope.procs :
          \/ SizeFiles(p) \/ ReadIndex(p) \/ ReadHeaders(p) \/ Close(p)
          \/ WriteAll(p) \/ Replace(p) \/ RemoveAll(p) \/ Mark(p)
          \/ PutText(p) \/ PutFixed(p) \/ PutSubfields(p) \/ PutIndex(p)
          \/ MarkOldHeader(p) \/ MarkRemoved(p) \/ BlankRecord(p)
          \/ Patch(p) \/ PutInfo(p)
          \/ WriteFails(p) \/ Die(p)
    BY <1>1 DEF Next
  <2>2. scope' = scope
    BY <1>1 DEF Next
  <2>3. p \in Proc
    BY ScopeBounds DEF Bound
  <2>4. CASE SizeFiles(p) \/ ReadIndex(p) \/ ReadHeaders(p) \/ Close(p)
    BY <2>2, <2>3, <2>4, OpenerCounted
  <2>5. CASE WriteAll(p) \/ Replace(p) \/ RemoveAll(p) \/ Mark(p)
    BY <2>2, <2>3, <2>5, CallCounted
  <2>6. CASE PutText(p)
    BY <2>2, <2>3, <2>6, PutTextCounted
  <2>7. CASE PutFixed(p)
    BY <2>2, <2>3, <2>7, PutFixedEffect, PutsHeaderCounted
  <2>8. CASE PutSubfields(p)
    BY <2>2, <2>3, <2>8, PutSubfieldsEffect, PutsHeaderCounted
  <2>9. CASE PutIndex(p)
    BY <2>2, <2>3, <2>9, PutIndexEffect, PutsIndexCounted
  <2>10. CASE MarkOldHeader(p)
    BY <2>2, <2>3, <2>10, MarkOldHeaderCounted
  <2>11. CASE MarkRemoved(p)
    BY <2>2, <2>3, <2>11, MarkRemovedCounted
  <2>12. CASE BlankRecord(p)
    BY <2>2, <2>3, <2>12, BlanksCounted
  <2>13. CASE Patch(p)
    BY <2>2, <2>3, <2>13, PatchCounted
  <2>14. CASE PutInfo(p)
    BY <2>2, <2>3, <2>14, PutInfoCounted
  <2>15. CASE WriteFails(p) \/ Die(p)
    <3>1. Fails(p) \/ Dies(p)
      BY <2>2, <2>3, <2>15, WriteFailsEffect, DieEffect
    <3>2. faults' \in 0 .. scope.faults /\ faults' > 0
      BY <3>1 DEF Fails, Dies, StepBy
    <3> QED
      BY <3>2 DEF Counted
  <2> QED
    BY <2>1, <2>4, <2>5, <2>6, <2>7, <2>8, <2>9, <2>10, <2>11, <2>12, <2>13,
       <2>14, <2>15
<1>2. CASE UNCHANGED vars
  <2>1. /\ jhr' = jhr /\ jdx' = jdx /\ active' = active /\ lock' = lock
        /\ pc' = pc /\ job' = job /\ faults' = faults
    BY <1>2 DEF vars, disk
  <2>2. Live' = Live /\ \A r : Leaving(r)' <=> Leaving(r)
    BY <2>1 DEF Live, IsLive, Leaving
  <2> QED
    BY <2>1, <2>2 DEF Counted, Alive, CountOf
<1> QED
  BY <1>1, <1>2

LEMMA AlwaysCounted == Spec => []Counted
<1>1. Init => Counted
  BY InitCounted
<1>2. Bound /\ Counted /\ [Next]_vars => Counted'
  BY NextCounted
<1> QED
  BY <1>1, <1>2, AlwaysBound, PTL DEF Spec

\* While nothing has gone wrong and no call is under way, ActiveMsgs counts
\* the messages and no index record names a header that is marked deleted,
\* however many messages each call wrote or took out.
THEOREM FilesAlwaysAgree == Spec => []FilesAgree
<1>1. Bound /\ Counted => FilesAgree
  <2>1. SUFFICES ASSUME Bound, Counted, lock = NoProc, faults = 0
                 PROVE  /\ active = Cardinality(Live)
                        /\ \A r \in DOMAIN jdx : jdx[r] # 0 => r \in Live
    BY DEF FilesAgree
  <2>2. Alive /\ active = Cardinality(Live)
    BY <2>1 DEF Counted
  <2>3. \A r : ~ Leaving(r)
    BY <2>1, JamMarkerAssumption DEF Leaving
  <2> QED
    BY <2>2, <2>3 DEF Alive
<1> QED
  BY <1>1, AlwaysBound, AlwaysCounted, PTL

\* --------------------------------------------------------------------------
\* The third layer: what is listed stays

LEMMA EndsBound ==
    ASSUME Bound
    PROVE  /\ HeadEnd \in Nat /\ HeadEnd <= Len(jhr)
           /\ TextEnd \in Nat /\ TextEnd <= Len(jdt)
<1>1. Shape
  BY DiskNow
<1>2. CASE lock \in Proc /\ pc[lock] \in Making
  <2>1. MakingOf(job[lock], pc[lock])
    BY <1>2 DEF Bound, Work, WorkOf
  <2> DEFINE j == job[lock]
  <2>2. /\ j.offset \in 1 .. Len(jhr) + 1
        /\ j.head.at \in Nat /\ j.head.at <= Len(jdt)
    BY <2>1, HeaderFields DEF MakingOf
  <2>3. HeadEnd = j.offset - 1 /\ TextEnd = j.head.at
    BY <1>2 DEF HeadEnd, TextEnd
  <2> HIDE DEF j
  <2> QED
    BY <1>1, <2>2, <2>3 DEF Shape
<1>3. CASE ~ (lock \in Proc /\ pc[lock] \in Making)
  BY <1>1, <1>3 DEF HeadEnd, TextEnd, Shape
<1> QED
  BY <1>2, <1>3

\* Where the ends are when p has the lock, or nobody has it.
LEMMA Ends ==
    ASSUME NEW p \in Proc, lock \in {p, NoProc}
    PROVE  /\ lock = p /\ pc[p] \in Making =>
                 HeadEnd = job[p].offset - 1 /\ TextEnd = job[p].head.at
           /\ ~ (lock = p /\ pc[p] \in Making) =>
                 HeadEnd = Len(jhr) /\ TextEnd = Len(jdt)
BY JamMarkerAssumption DEF HeadEnd, TextEnd

LEMMA EndsAfter ==
    ASSUME NEW p \in Proc, lock' \in {p, NoProc}
    PROVE  /\ lock' = p /\ pc'[p] \in Making =>
                 HeadEnd' = job'[p].offset - 1 /\ TextEnd' = job'[p].head.at
           /\ ~ (lock' = p /\ pc'[p] \in Making) =>
                 HeadEnd' = Len(jhr') /\ TextEnd' = Len(jdt')
BY JamMarkerAssumption DEF HeadEnd, TextEnd

\* Standing and Known, after a step.
StandsAfter(offset, header) ==
    /\ offset \in 1 .. HeadEnd'
    /\ jhr'[offset].subs = header.of
    /\ header.len = TextLen[header.of]
    /\ header.at + header.len <= TextEnd'
    /\ \A i \in header.at + 1 .. header.at + header.len : jdt'[i] = header.of

KnownAfter(offset) ==
    /\ offset \in 1 .. HeadEnd'
    /\ jhr'[offset].gone \/ StandsAfter(offset, jhr'[offset])

\* A step that writes only behind the ends, or changes marks before them.
Spares ==
    /\ HeadEnd <= HeadEnd' /\ TextEnd <= TextEnd'
    /\ HeadEnd' \in Nat /\ TextEnd' \in Nat
    /\ \A h \in 1 .. HeadEnd :
          /\ jhr'[h].subs = jhr[h].subs
          /\ \/ jhr'[h].gone
             \/ /\ jhr'[h].gone = jhr[h].gone /\ jhr'[h].of = jhr[h].of
                /\ jhr'[h].at = jhr[h].at /\ jhr'[h].len = jhr[h].len
    /\ \A i \in 1 .. TextEnd : jdt'[i] = jdt[i]

LEMMA StandingStays ==
    ASSUME Bound, Spares, NEW offset, NEW header \in Header, Standing(offset, header)
    PROVE  StandsAfter(offset, header)
<1>1. HeadEnd \in Nat /\ TextEnd \in Nat
  BY EndsBound
<1>2. /\ offset \in 1 .. HeadEnd /\ jhr[offset].subs = header.of
      /\ header.len = TextLen[header.of] /\ header.at + header.len <= TextEnd
      /\ \A i \in header.at + 1 .. header.at + header.len : jdt[i] = header.of
  BY DEF Standing, Whole
<1>3. header.at \in Nat /\ header.len \in Nat
  BY HeaderFields
<1> DEFINE at == header.at
           len == header.len
<1>4. \A i \in at + 1 .. at + len : i \in 1 .. TextEnd
  <2>1. at \in Nat /\ len \in Nat /\ at + len <= TextEnd
    BY <1>2, <1>3
  <2> HIDE DEF at, len
  <2> QED
    BY <1>1, <2>1
<1>5. \A i \in header.at + 1 .. header.at + header.len : jdt'[i] = header.of
  BY <1>2, <1>4 DEF Spares
<1>6. offset \in 1 .. HeadEnd' /\ jhr'[offset].subs = header.of
  BY <1>1, <1>2 DEF Spares
<1>7. header.at + header.len <= TextEnd'
  <2>1. at \in Nat /\ len \in Nat /\ at + len <= TextEnd
    BY <1>2, <1>3
  <2> HIDE DEF at, len
  <2>2. at + len <= TextEnd'
    BY <1>1, <2>1 DEF Spares
  <2> QED
    BY <2>2 DEF at, len
<1> QED
  BY <1>2, <1>5, <1>6, <1>7 DEF StandsAfter

LEMMA KnownStays ==
    ASSUME Bound, Spares, NEW offset, Known(offset)
    PROVE  KnownAfter(offset)
<1>1. /\ offset \in 1 .. HeadEnd /\ HeadEnd \in Nat
      /\ jhr[offset].gone \/ Standing(offset, jhr[offset])
  BY EndsBound DEF Known
<1>2. jhr[offset] \in Header
  BY <1>1, EndsBound, DiskNow DEF Shape
<1>3. offset \in 1 .. HeadEnd'
  BY <1>1 DEF Spares
<1>4. CASE jhr'[offset].gone
  BY <1>3, <1>4 DEF KnownAfter
<1>5. CASE ~ jhr'[offset].gone
  <2>1. /\ jhr'[offset].gone = jhr[offset].gone /\ jhr'[offset].of = jhr[offset].of
        /\ jhr'[offset].at = jhr[offset].at /\ jhr'[offset].len = jhr[offset].len
    BY <1>1, <1>5 DEF Spares
  <2>2. Standing(offset, jhr[offset])
    BY <1>1, <1>5, <2>1
  <2>3. StandsAfter(offset, jhr[offset])
    BY <1>2, <2>2, StandingStays
  <2>4. StandsAfter(offset, jhr'[offset])
    BY <2>1, <2>3 DEF StandsAfter
  <2> QED
    BY <1>3, <2>4 DEF KnownAfter
<1> QED
  BY <1>4, <1>5

\* What the third layer says, by itself.
Listed(p) ==
    \A n \in DOMAIN table[p] : Standing(table[p][n].headerOffset, table[p][n].header)

ListedAfter(p) ==
    \A n \in DOMAIN table'[p] :
        StandsAfter(table'[p][n].headerOffset, table'[p][n].header)

ReadAfter(p) ==
    pc'[p] = "indexed" =>
        \A i \in DOMAIN job'[p].index :
            job'[p].index[i] = 0 \/ KnownAfter(job'[p].index[i])

LEMMA StandsTo ==
    ASSUME \A p \in Proc : /\ job'[p].kind # "replace"
                           /\ ReadAfter(p) /\ ListedAfter(p),
           \A r \in DOMAIN jdx' : jdx'[r] = 0 \/ KnownAfter(jdx'[r])
    PROVE  Stands'
<1>1. \A r \in DOMAIN jdx' : jdx'[r] = 0 \/ Known(jdx[r])'
  BY DEF Known, KnownAfter, Standing, StandsAfter, Whole
<1>2. ASSUME NEW p \in Proc, pc'[p] = "indexed", NEW i \in DOMAIN job'[p].index
      PROVE  job'[p].index[i] = 0 \/ Known(job[p].index[i])'
  <2>1. job'[p].index[i] = 0 \/ KnownAfter(job'[p].index[i])
    BY <1>2 DEF ReadAfter
  <2> QED
    BY <2>1 DEF Known, KnownAfter, Standing, StandsAfter, Whole
<1>3. ASSUME NEW p \in Proc, NEW n \in DOMAIN table'[p]
      PROVE  Standing(table[p][n].headerOffset, table[p][n].header)'
  <2>1. StandsAfter(table'[p][n].headerOffset, table'[p][n].header)
    BY <1>3 DEF ListedAfter
  <2> QED
    BY <2>1 DEF Standing, StandsAfter, Whole
<1> QED
  BY <1>1, <1>2, <1>3 DEF Stands

\* A table, or a read index, that a step does not touch.
LEMMA ListedStays ==
    ASSUME Bound, Stands, NoneAgain, Spares, NEW p \in Proc
    PROVE  /\ \A n \in DOMAIN table[p] :
                 StandsAfter(table[p][n].headerOffset, table[p][n].header)
           /\ pc[p] = "indexed" => \A i \in DOMAIN job[p].index :
                 job[p].index[i] = 0 \/ KnownAfter(job[p].index[i])
<1>1. ASSUME NEW n \in DOMAIN table[p]
      PROVE  StandsAfter(table[p][n].headerOffset, table[p][n].header)
  <2>1. Standing(table[p][n].headerOffset, table[p][n].header)
    BY DEF Stands
  <2>2. table[p][n] \in ActiveMessage
    BY DEF Bound, TypeOK
  <2>3. table[p][n].header \in Header
    BY <2>2, MessageFields
  <2> QED
    BY <2>1, <2>3, StandingStays
<1>2. ASSUME pc[p] = "indexed", NEW i \in DOMAIN job[p].index, job[p].index[i] # 0
      PROVE  KnownAfter(job[p].index[i])
  <2>1. Known(job[p].index[i])
    BY <1>2 DEF Stands
  <2> QED
    BY <2>1, KnownStays
<1> QED
  BY <1>1, <1>2

\* What is enough of a step of p.
LEMMA StandsStep ==
    ASSUME Bound, Stands, NoneAgain, Spares, NEW p \in Proc, StepBy(p),
           job'[p].kind # "replace", ReadAfter(p), ListedAfter(p),
           \A r \in DOMAIN jdx' : jdx'[r] = 0 \/ KnownAfter(jdx'[r])
    PROVE  Stands'
<1>1. ASSUME NEW q \in Proc, q # p
      PROVE  job'[q].kind # "replace" /\ ReadAfter(q) /\ ListedAfter(q)
  <2>1. pc'[q] = pc[q] /\ job'[q] = job[q] /\ table'[q] = table[q]
    BY <1>1 DEF StepBy
  <2>2. job[q].kind # "replace"
    BY DEF Stands
  <2>3. /\ \A n \in DOMAIN table[q] :
              StandsAfter(table[q][n].headerOffset, table[q][n].header)
        /\ pc[q] = "indexed" => \A i \in DOMAIN job[q].index :
              job[q].index[i] = 0 \/ KnownAfter(job[q].index[i])
    BY ListedStays
  <2> QED
    BY <2>1, <2>2, <2>3 DEF ReadAfter, ListedAfter
<1>2. \A q \in Proc : job'[q].kind # "replace" /\ ReadAfter(q) /\ ListedAfter(q)
  BY <1>1
<1> QED
  BY <1>2, StandsTo

\* The index is left alone, and what it names stays.
LEMMA IndexStays ==
    ASSUME Bound, Stands, NoneAgain, Spares, jdx' = jdx
    PROVE  \A r \in DOMAIN jdx' : jdx'[r] = 0 \/ KnownAfter(jdx'[r])
<1>1. ASSUME NEW r \in DOMAIN jdx, jdx[r] # 0 PROVE KnownAfter(jdx[r])
  <2>1. Known(jdx[r])
    BY <1>1 DEF Stands
  <2> QED
    BY <2>1, KnownStays
<1> QED
  BY <1>1

\* What a reload lists was there.
LEMMA ReloadStands ==
    ASSUME Bound, Stands, NoneAgain, Spares
    PROVE  \A n \in DOMAIN Reload :
               StandsAfter(Reload[n].headerOffset, Reload[n].header)
<1>1. Lists(jdx, jhr, Reload) /\ Shape
  BY Reloaded, DiskNow
<1>2. ASSUME NEW n \in DOMAIN Reload
      PROVE  StandsAfter(Reload[n].headerOffset, Reload[n].header)
  <2> DEFINE m == Reload[n]
             o == m.headerOffset
  <2>1. /\ m.record \in DOMAIN jdx /\ o = jdx[m.record] /\ o \in DOMAIN jhr
        /\ m.header = jhr[o] /\ ~ m.header.gone
    BY <1>1 DEF Lists
  <2> HIDE DEF m, o
  <2>2. o # 0 /\ jhr[o] \in Header
    BY <1>1, <2>1 DEF Shape
  <2>3. Known(o)
    BY <2>1, <2>2 DEF Stands
  <2>4. Standing(o, jhr[o])
    BY <2>1, <2>3 DEF Known
  <2>5. StandsAfter(o, jhr[o])
    BY <2>2, <2>4, StandingStays
  <2> QED
    BY <2>1, <2>5 DEF m, o
<1> QED
  BY <1>2

\* A step that leaves the files alone, and moves no end back.
LEMMA SparesSame ==
    ASSUME Bound, jhr' = jhr, jdt' = jdt, HeadEnd <= HeadEnd', TextEnd <= TextEnd',
           HeadEnd' \in Nat, TextEnd' \in Nat
    PROVE  Spares
BY DEF Spares

LEMMA QuietSpares ==
    ASSUME Bound, NEW p \in Proc, NEW j, NEW there, NEW t, Quiet(p, j, there, t)
    PROVE  Spares /\ jdx' = jdx /\ jhr' = jhr /\ StepBy(p)
<1>1. /\ jhr' = jhr /\ jdx' = jdx /\ jdt' = jdt /\ lock' = lock /\ lock # p
      /\ \A q \in Proc : q # p => pc'[q] = pc[q] /\ job'[q] = job[q]
      /\ StepBy(p)
  BY DEF Quiet, disk, StepBy, Bound, Held
<1>2. HeadEnd' = HeadEnd /\ TextEnd' = TextEnd
  <2>1. CASE lock \in Proc
    <3>1. pc'[lock'] = pc[lock] /\ job'[lock'] = job[lock]
      BY <1>1, <2>1
    <3> QED
      BY <1>1, <2>1, <3>1 DEF HeadEnd, TextEnd
  <2>2. CASE lock \notin Proc
    BY <1>1, <2>2 DEF HeadEnd, TextEnd
  <2> QED
    BY <2>1, <2>2
<1>3. HeadEnd \in Nat /\ TextEnd \in Nat
  BY EndsBound
<1> QED
  BY <1>1, <1>2, <1>3, SparesSame

\* Opening: what is sized, what is read of the index, and what is listed.
LEMMA SizeFilesStands ==
    ASSUME Bound, Stands, NoneAgain, scope' = scope, NEW p \in Proc, SizeFiles(p)
    PROVE  Stands'
<1> DEFINE j == [NoJob EXCEPT !.records = Len(jdx), !.headers = Len(jhr)]
           t == table[p]
<1>1. Quiet(p, j, "sized", t)
  BY SizeFilesQuiet
<1>2. j.kind # "replace"
  BY DEF NoJob
<1> HIDE DEF j
<1>3. Spares /\ jdx' = jdx /\ StepBy(p)
  <2> HIDE DEF t
  <2> QED
    BY <1>1, QuietSpares
<1>4. job'[p] = j /\ pc'[p] = "sized" /\ table'[p] = table[p]
  BY <1>1 DEF Quiet
<1>5. ReadAfter(p) /\ ListedAfter(p)
  BY <1>3, <1>4, ListedStays DEF ReadAfter, ListedAfter
<1>6. \A r \in DOMAIN jdx' : jdx'[r] = 0 \/ KnownAfter(jdx'[r])
  BY <1>3, IndexStays
<1> QED
  BY <1>2, <1>3, <1>4, <1>5, <1>6, StandsStep

LEMMA ReadIndexStands ==
    ASSUME Bound, Stands, NoneAgain, scope' = scope, NEW p \in Proc, ReadIndex(p)
    PROVE  Stands'
<1> DEFINE index == SubSeq(jdx, 1, job[p].records)
           j == [job[p] EXCEPT !.index = index]
           t == table[p]
<1>1. Quiet(p, j, "indexed", t)
  BY ReadIndexQuiet
<1>2. job[p] \in Job /\ job[p].kind # "replace" /\ pc[p] = "sized"
  BY DEF Bound, TypeOK, Stands, ReadIndex, At
<1>3. j.kind # "replace" /\ j.index = index
  <2> HIDE DEF index
  <2> QED
    BY <1>2 DEF Job
<1>4. /\ \A i \in DOMAIN index : i \in DOMAIN jdx /\ index[i] = jdx[i]
  <2>1. job[p].records \in 0 .. Len(jdx)
    <3>1. job[p].records \in Nat /\ job[p].records <= Len(jdx)
      BY <1>2, JobFields DEF Bound, Sized
    <3> QED
      BY <3>1, DiskNow DEF Shape
  <2>2. jdx \in Seq(Nat) /\ Shape
    BY DiskNow, IndexTyped
  <2>3. Shorter(jdx, index, job[p].records)
    BY <2>1, <2>2, CutTo
  <2> HIDE DEF index
  <2> QED
    BY <2>1, <2>2, <2>3 DEF Shorter, Shape
<1> HIDE DEF index, j
<1>5. Spares /\ jdx' = jdx /\ StepBy(p)
  <2> HIDE DEF t
  <2> QED
    BY <1>1, QuietSpares
<1>6. job'[p] = j /\ pc'[p] = "indexed" /\ table'[p] = table[p]
  BY <1>1 DEF Quiet
<1>7. \A r \in DOMAIN jdx' : jdx'[r] = 0 \/ KnownAfter(jdx'[r])
  BY <1>5, IndexStays
<1>8. \A i \in DOMAIN index : index[i] = 0 \/ KnownAfter(index[i])
  BY <1>4, <1>5, <1>7
<1>9. ReadAfter(p) /\ ListedAfter(p)
  BY <1>3, <1>5, <1>6, <1>8, ListedStays DEF ReadAfter, ListedAfter
<1> QED
  BY <1>3, <1>5, <1>6, <1>7, <1>9, StandsStep

LEMMA ReadHeadersStands ==
    ASSUME Bound, Stands, NoneAgain, scope' = scope, NEW p \in Proc, ReadHeaders(p)
    PROVE  Stands'
<1> DEFINE there == IF job[p].headers <= Len(jhr) THEN "open" ELSE "closed"
           t == Opened(p)
<1>1. Quiet(p, NoJob, there, t)
  BY ReadHeadersQuiet
<1>2. there # "indexed" /\ NoJob.kind # "replace" /\ pc[p] = "indexed"
  BY DEF NoJob, ReadHeaders, At
<1> HIDE DEF there, t
<1>3. Spares /\ jdx' = jdx /\ StepBy(p)
  BY <1>1, QuietSpares
<1>4. job'[p] = NoJob /\ pc'[p] = there /\ table'[p] = t
  BY <1>1 DEF Quiet
<1>5. \A n \in DOMAIN t : StandsAfter(t[n].headerOffset, t[n].header)
  <2>1. CASE ~ (job[p].headers <= Len(jhr))
    <3>1. t = <<>>
      BY <2>1 DEF t, Opened
    <3> QED
      BY <3>1
  <2>2. CASE job[p].headers <= Len(jhr)
    <3> DEFINE cut == SubSeq(jhr, 1, job[p].headers)
               index == job[p].index
               many == job[p].headers
    <3>1. Shorter(jhr, cut, many) /\ Lists(index, cut, t)
      BY <2>2, OpenedLists DEF t
    <3>2. many \in Nat /\ index \in Seq(Nat) /\ Shape /\ many <= Len(jhr)
      BY <2>2, JobFields, DiskNow DEF Bound, TypeOK
    <3>3. \A i \in DOMAIN index : index[i] = 0 \/ Known(index[i])
      BY <1>2 DEF Stands
    <3> HIDE DEF cut, index, many
    <3>4. ASSUME NEW n \in DOMAIN t
          PROVE  StandsAfter(t[n].headerOffset, t[n].header)
      <4> DEFINE m == t[n]
                 o == m.headerOffset
      <4>1. /\ m.record \in DOMAIN index /\ o = index[m.record] /\ o \in DOMAIN cut
            /\ m.header = cut[o] /\ ~ m.header.gone
        BY <3>1 DEF Lists
      <4> HIDE DEF m, o
      <4>2. o \in DOMAIN jhr /\ o # 0 /\ cut[o] = jhr[o]
        BY <3>1, <3>2, <4>1 DEF Shorter, Shape
      <4>3. Known(o) /\ jhr[o] \in Header
        BY <3>2, <3>3, <4>1, <4>2 DEF Shape
      <4>4. Standing(o, jhr[o])
        BY <4>1, <4>2, <4>3 DEF Known
      <4>5. StandsAfter(o, jhr[o])
        BY <1>3, <4>3, <4>4, StandingStays
      <4> QED
        BY <4>1, <4>2, <4>5 DEF m, o
    <3> QED
      BY <3>4
  <2> QED
    BY <2>1, <2>2
<1>6. ReadAfter(p) /\ ListedAfter(p)
  BY <1>2, <1>4, <1>5 DEF ReadAfter, ListedAfter
<1>7. \A r \in DOMAIN jdx' : jdx'[r] = 0 \/ KnownAfter(jdx'[r])
  BY <1>3, IndexStays
<1> QED
  BY <1>2, <1>3, <1>4, <1>6, <1>7, StandsStep

LEMMA CloseStands ==
    ASSUME Bound, Stands, NoneAgain, scope' = scope, NEW p \in Proc, Close(p)
    PROVE  Stands'
<1> DEFINE j == job[p]
           t == <<>>
<1>1. Quiet(p, j, "closed", t)
  BY CloseQuiet
<1>2. j.kind # "replace"
  BY DEF Stands
<1> HIDE DEF j
<1>3. Spares /\ jdx' = jdx /\ StepBy(p)
  <2> HIDE DEF t
  <2> QED
    BY <1>1, QuietSpares
<1>4. job'[p] = j /\ pc'[p] = "closed" /\ table'[p] = <<>>
  BY <1>1 DEF Quiet
<1>5. ReadAfter(p) /\ ListedAfter(p)
  BY <1>4 DEF ReadAfter, ListedAfter
<1>6. \A r \in DOMAIN jdx' : jdx'[r] = 0 \/ KnownAfter(jdx'[r])
  BY <1>3, IndexStays
<1> QED
  BY <1>2, <1>3, <1>4, <1>5, <1>6, StandsStep

\* A call that finds nothing to write has read the base again.
LEMMA NothingStands ==
    ASSUME Bound, Stands, NoneAgain, NEW p \in Proc, Quiet(p, job[p], "open", Reload)
    PROVE  Stands'
<1> DEFINE j == job[p]
           t == Reload
<1>1. Quiet(p, j, "open", t)
  OBVIOUS
<1>2. j.kind # "replace"
  BY DEF Stands
<1> HIDE DEF j
<1>3. Spares /\ jdx' = jdx /\ StepBy(p)
  <2> HIDE DEF t
  <2> QED
    BY <1>1, QuietSpares
<1>4. job'[p] = j /\ pc'[p] = "open" /\ table'[p] = Reload
  BY <1>1 DEF Quiet
<1>5. ReadAfter(p) /\ ListedAfter(p)
  BY <1>3, <1>4, ReloadStands DEF ReadAfter, ListedAfter
<1>6. \A r \in DOMAIN jdx' : jdx'[r] = 0 \/ KnownAfter(jdx'[r])
  BY <1>3, IndexStays
<1> QED
  BY <1>2, <1>3, <1>4, <1>5, <1>6, StandsStep

\* A call begins: what it may cut off again is behind all that stands.
LEMMA StartedStands ==
    ASSUME Bound, Stands, NoneAgain, NEW p \in Proc, p \in scope.procs, Started(p)
    PROVE  Stands'
<1>1. PICK j \in Job, there \in {"text", "mark", "patch"} :
        /\ Begins(p, j, there) /\ WorkOf(j, there) /\ j.kind \in scope.calls[p]
        /\ j.kind = "write" =>
              there = "text" /\ j.offset = Len(jhr) + 1 /\ j.head.at = Len(jdt)
  BY DEF Started
<1>2. /\ lock = NoProc /\ lock' = p /\ job'[p] = j /\ pc'[p] = there
      /\ jhr' = jhr /\ jdx' = jdx /\ jdt' = jdt /\ StepBy(p) /\ table'[p] = Reload
  BY <1>1 DEF Begins, disk
<1>3. j.kind # "replace"
  BY <1>1 DEF NoneAgain
<1>4. there = "text" => j.kind = "write"
  BY <1>1, <1>3 DEF WorkOf, Making, MakingOf
<1>5. HeadEnd = Len(jhr) /\ TextEnd = Len(jdt) /\ Len(jhr) \in Nat /\ Len(jdt) \in Nat
  <2>1. p # NoProc
    BY JamMarkerAssumption
  <2> QED
    BY <1>2, <2>1, Ends, DiskNow DEF Shape
<1>6. HeadEnd' = Len(jhr) /\ TextEnd' = Len(jdt)
  <2>1. CASE there = "text"
    <3>1. HeadEnd' = j.offset - 1 /\ TextEnd' = j.head.at
      BY <1>2, <2>1, EndsAfter DEF Making
    <3> QED
      BY <1>1, <1>4, <1>5, <2>1, <3>1
  <2>2. CASE there # "text"
    <3>1. there \notin Making
      BY <2>2 DEF Making
    <3> QED
      BY <1>2, <3>1, EndsAfter
  <2> QED
    BY <2>1, <2>2
<1>7. Spares
  BY <1>2, <1>5, <1>6, SparesSame
<1>8. ReadAfter(p) /\ ListedAfter(p)
  BY <1>2, <1>7, ReloadStands DEF ReadAfter, ListedAfter
<1>9. \A r \in DOMAIN jdx' : jdx'[r] = 0 \/ KnownAfter(jdx'[r])
  BY <1>2, <1>7, IndexStays
<1> QED
  BY <1>2, <1>3, <1>7, <1>8, <1>9, StandsStep

\* A write that keeps the call's variables and the index.
LEMMA GoesOnStands ==
    ASSUME Bound, Stands, NoneAgain, NEW p \in Proc, NEW there, there # "indexed",
           GoesOn(p, there), jdx' = jdx, Spares
    PROVE  Stands'
<1>1. StepBy(p) /\ pc'[p] = there /\ job'[p] = job[p] /\ table'[p] = table[p]
  BY DEF GoesOn
<1>2. job[p].kind # "replace"
  BY DEF Stands
<1>3. ReadAfter(p) /\ ListedAfter(p)
  BY <1>1, ListedStays DEF ReadAfter, ListedAfter
<1>4. \A r \in DOMAIN jdx' : jdx'[r] = 0 \/ KnownAfter(jdx'[r])
  BY IndexStays
<1> QED
  BY <1>1, <1>2, <1>3, <1>4, StandsStep

LEMMA PutTextStands ==
    ASSUME Bound, Stands, NoneAgain, scope' = scope, NEW p \in Proc, PutText(p)
    PROVE  Stands'
<1>1. /\ GoesOn(p, "head") /\ pc[p] = "text"
      /\ UNCHANGED <<jhr, jdx, active>>
      /\ PutsText(job[p].head.at, job[p].head.of)
  BY PutTextEffect
<1>2. /\ lock = p /\ lock' = p /\ pc'[p] = "head" /\ job'[p] = job[p]
  BY <1>1 DEF GoesOn
<1>3. /\ HeadEnd = job[p].offset - 1 /\ TextEnd = job[p].head.at
      /\ HeadEnd' = job[p].offset - 1 /\ TextEnd' = job[p].head.at
  BY <1>1, <1>2, Ends, EndsAfter DEF Making
<1>4. \A i \in 1 .. TextEnd : jdt'[i] = jdt[i]
  BY <1>1, <1>3 DEF PutsText
<1>5. HeadEnd \in Nat /\ TextEnd \in Nat
  BY EndsBound
<1>6. Spares
  BY <1>1, <1>3, <1>4, <1>5 DEF Spares
<1> QED
  BY <1>1, <1>6, GoesOnStands

LEMMA PutsHeaderStands ==
    ASSUME Bound, Stands, NoneAgain, scope' = scope, NEW p \in Proc, NEW header, NEW there,
           \/ pc[p] = "head" /\ there = "subs"
           \/ pc[p] = "subs" /\ there = "index",
           PutsHeader(p, header, there)
    PROVE  Stands'
<1> DEFINE offset == job[p].offset
<1>1. /\ GoesOn(p, there) /\ jdx' = jdx /\ jdt' = jdt
      /\ \A i \in DOMAIN jhr : i # offset => jhr'[i] = jhr[i]
  BY DEF PutsHeader, PutAt
<1>2. /\ lock = p /\ lock' = p /\ pc'[p] = there /\ job'[p] = job[p]
  BY <1>1 DEF GoesOn
<1>3. /\ HeadEnd = offset - 1 /\ TextEnd = job[p].head.at
      /\ HeadEnd' = offset - 1 /\ TextEnd' = job[p].head.at
  BY <1>2, Ends, EndsAfter DEF Making
<1>4. HeadEnd \in Nat /\ TextEnd \in Nat /\ HeadEnd <= Len(jhr) /\ Shape /\ offset \in Nat
  BY EndsBound, DiskNow, JobFields DEF Bound, TypeOK
<1> HIDE DEF offset
<1>5. \A h \in 1 .. HeadEnd : jhr'[h] = jhr[h]
  BY <1>1, <1>3, <1>4 DEF Shape
<1>6. Spares
  BY <1>1, <1>3, <1>4, <1>5 DEF Spares
<1> QED
  BY <1>1, <1>6, GoesOnStands

\* The message that becomes visible is whole, and no failure cuts it off.
LEMMA PutsIndexStands ==
    ASSUME Bound, Stands, NoneAgain, scope' = scope, NEW p \in Proc,
           pc[p] = "index", PutsIndex(p)
    PROVE  Stands'
<1> DEFINE j == job[p]
           new == [record |-> j.record, headerOffset |-> j.offset,
                   header |-> jhr[j.offset]]
<1>1. pc[p] \in Writing /\ pc[p] \in Making
  BY DEF Writing, Making
<1>2. /\ Shape /\ j \in Job /\ MakingOf(j, "index") /\ lock = p
  BY <1>1, Working DEF WorkOf
<1>3. /\ jhr' = jhr /\ jdt' = jdt /\ lock' = p /\ StepBy(p)
  BY DEF PutsIndex
<1>4. j.kind = "write"
  BY <1>2 DEF MakingOf, Stands
<1>5. table'[p] = Append(table[p], new)
  BY <1>4 DEF PutsIndex
<1>6. /\ \A r \in DOMAIN jdx' : jdx'[r] = IF r = j.record THEN j.offset ELSE jdx[r]
      /\ DOMAIN jdx' = DOMAIN jdx \cup {j.record}
  BY IndexPut
<1>7. /\ job'[p].kind = "write"
      /\ pc'[p] = "text" => job'[p].offset = Len(jhr) + 1 /\ job'[p].head.at = Len(jdt)
      /\ pc'[p] \in {"text", "info"}
  BY <1>4, NextFields
<1>8. HeadEnd' = Len(jhr) /\ TextEnd' = Len(jdt)
  <2>1. Len(jhr) \in Nat
    BY <1>2 DEF Shape
  <2>2. CASE pc'[p] = "text"
    <3>1. HeadEnd' = job'[p].offset - 1 /\ TextEnd' = job'[p].head.at
      BY <1>3, <2>2, EndsAfter DEF Making
    <3> QED
      BY <1>7, <2>1, <2>2, <3>1
  <2>3. CASE pc'[p] = "info"
    BY <1>3, <2>3, EndsAfter DEF Making
  <2> QED
    BY <1>7, <2>2, <2>3
<1>9. Spares
  <2>1. Len(jhr) \in Nat /\ Len(jdt) \in Nat /\ HeadEnd <= Len(jhr) /\ TextEnd <= Len(jdt)
    BY <1>2, EndsBound DEF Shape
  <2> QED
    BY <1>3, <1>8, <2>1, SparesSame
<1>10. StandsAfter(j.offset, jhr[j.offset]) /\ j.offset \in 1 .. Len(jhr)
  <2> HIDE DEF j
  <2> DEFINE h == j.head
             v == jhr[j.offset]
  <2>1. /\ v = [h EXCEPT !.subs = h.of] /\ h \in Header
        /\ Whole(h, Len(jdt)) /\ j.offset \in DOMAIN jhr
    BY <1>2 DEF MakingOf
  <2> HIDE DEF h, v
  <2>2. v.of = h.of /\ v.subs = h.of /\ v.at = h.at /\ v.len = h.len
    BY <2>1 DEF Header
  <2>3. j.offset \in 1 .. Len(jhr)
    BY <1>2, <2>1 DEF Shape
  <2>4. jhr'[j.offset] = v
    BY <1>3 DEF v
  <2>5. StandsAfter(j.offset, v)
    BY <1>3, <1>8, <2>1, <2>2, <2>3, <2>4 DEF StandsAfter, Whole
  <2> QED
    BY <2>3, <2>5 DEF v
<1>11. ASSUME NEW r \in DOMAIN jdx', jdx'[r] # 0 PROVE KnownAfter(jdx'[r])
  <2>1. CASE r = j.record
    <3>1. jdx'[r] = j.offset
      BY <1>6, <2>1
    <3>2. KnownAfter(j.offset)
      BY <1>3, <1>8, <1>10 DEF KnownAfter
    <3> QED
      BY <3>1, <3>2
  <2>2. CASE r # j.record
    <3>1. r \in DOMAIN jdx /\ jdx'[r] = jdx[r]
      BY <1>6, <2>2
    <3>2. Known(jdx[r])
      BY <1>11, <3>1 DEF Stands
    <3>3. KnownAfter(jdx[r])
      BY <1>9, <3>2, KnownStays
    <3> QED
      BY <3>1, <3>3
  <2> QED
    BY <2>1, <2>2
<1>12. ListedAfter(p)
  <2> DEFINE s == table[p]
  <2>1. s \in Seq(ActiveMessage)
    BY DEF Bound, TypeOK
  <2>2. \A n \in DOMAIN s : StandsAfter(s[n].headerOffset, s[n].header)
    BY <1>9, ListedStays
  <2>3. StandsAfter(new.headerOffset, new.header)
    BY <1>10
  <2>4. table'[p] = Append(s, new)
    BY <1>5
  <2> HIDE DEF s, new
  <2>5. \A n \in DOMAIN Append(s, new) :
            (n \in DOMAIN s /\ Append(s, new)[n] = s[n]) \/ Append(s, new)[n] = new
    BY <2>1
  <2> QED
    BY <2>2, <2>3, <2>4, <2>5 DEF ListedAfter
<1>13. ReadAfter(p)
  BY <1>7 DEF ReadAfter
<1> HIDE DEF j, new
<1> QED
  BY <1>3, <1>7, <1>9, <1>11, <1>12, <1>13, StandsStep

\* No old header is marked deleted where nothing is written again.
LEMMA MarkOldHeaderStands ==
    ASSUME Bound, Stands, NoneAgain, scope' = scope, NEW p \in Proc, MarkOldHeader(p)
    PROVE  Stands'
BY MarkOldHeaderEffect DEF OldHeadOf, Stands

LEMMA MarkRemovedStands ==
    ASSUME Bound, Stands, NoneAgain, scope' = scope, NEW p \in Proc, MarkRemoved(p)
    PROVE  Stands'
<1> DEFINE o == jdx[NextTarget(p)]
<1>1. pc[p] = "mark" /\ GoesOn(p, "blank") /\ MarksGone(o)
  BY MarkRemovedEffect
<1> HIDE DEF o
<1>2. /\ lock = p /\ lock' = p /\ pc'[p] = "blank"
      /\ jdx' = jdx /\ jdt' = jdt /\ Len(jhr') = Len(jhr)
      /\ \A h \in DOMAIN jhr : h # o => jhr'[h] = jhr[h]
      /\ jhr'[o].gone = TRUE /\ jhr'[o].subs = jhr[o].subs
  BY <1>1 DEF GoesOn, MarksGone
<1>3. /\ HeadEnd = Len(jhr) /\ TextEnd = Len(jdt)
      /\ HeadEnd' = Len(jhr) /\ TextEnd' = Len(jdt)
      /\ Len(jhr) \in Nat /\ Len(jdt) \in Nat /\ Shape
  BY <1>1, <1>2, Ends, EndsAfter, DiskNow DEF Making, Shape
<1>4. Spares
  <2>1. ASSUME NEW h \in 1 .. HeadEnd
        PROVE  /\ jhr'[h].subs = jhr[h].subs
               /\ \/ jhr'[h].gone
                  \/ /\ jhr'[h].gone = jhr[h].gone /\ jhr'[h].of = jhr[h].of
                     /\ jhr'[h].at = jhr[h].at /\ jhr'[h].len = jhr[h].len
    <3>1. h \in DOMAIN jhr
      BY <1>3 DEF Shape
    <3>2. CASE h = o
      BY <1>2, <3>2
    <3>3. CASE h # o
      BY <1>2, <3>1, <3>3
    <3> QED
      BY <3>2, <3>3
  <2> QED
    BY <1>2, <1>3, <2>1 DEF Spares
<1> QED
  BY <1>1, <1>2, <1>4, GoesOnStands

LEMMA BlanksStands ==
    ASSUME Bound, Stands, NoneAgain, scope' = scope, NEW p \in Proc, BlankRecord(p)
    PROVE  Stands'
<1> DEFINE gone == NextTarget(p)
           left == job[p].targets \ {gone}
<1>1. pc[p] = "blank" /\ RemovingOf(job[p], "blank") /\ Blanks(p)
  BY BlankRecordEffect
<1>2. /\ lock = p /\ lock' = p /\ StepBy(p) /\ jhr' = jhr /\ jdt' = jdt
      /\ Changed(jdx, jdx', gone, 0)
      /\ job'[p] = [job[p] EXCEPT !.targets = left, !.done = @ + 1]
      /\ pc'[p] \in {"info", "mark"}
      /\ table'[p] = Without(table[p], gone)
  BY <1>1 DEF Blanks
<1>3. job'[p].kind = "remove"
  <2>1. job[p] \in Job
    BY DEF Bound, TypeOK
  <2> QED
    BY <1>1, <1>2, <2>1 DEF RemovingOf, Job
<1> HIDE DEF gone, left
<1>4. Spares
  <2>1. /\ HeadEnd = Len(jhr) /\ TextEnd = Len(jdt)
        /\ HeadEnd' = Len(jhr) /\ TextEnd' = Len(jdt)
    BY <1>1, <1>2, Ends, EndsAfter DEF Making
  <2>2. Len(jhr) \in Nat /\ Len(jdt) \in Nat
    BY DiskNow DEF Shape
  <2> QED
    BY <1>2, <2>1, <2>2, SparesSame
<1>5. ASSUME NEW r \in DOMAIN jdx', jdx'[r] # 0 PROVE KnownAfter(jdx'[r])
  <2>1. r \in DOMAIN jdx /\ jdx'[r] = jdx[r]
    BY <1>2, <1>5 DEF Changed
  <2>2. Known(jdx[r])
    BY <1>5, <2>1 DEF Stands
  <2>3. KnownAfter(jdx[r])
    BY <1>4, <2>2, KnownStays
  <2> QED
    BY <2>1, <2>3
<1>6. ListedAfter(p)
  <2> DEFINE s == table[p]
             t == Without(s, gone)
  <2>1. s \in Seq(ActiveMessage)
    BY DEF Bound, TypeOK
  <2>2. \A n \in DOMAIN s : StandsAfter(s[n].headerOffset, s[n].header)
    BY <1>4, ListedStays
  <2>3. table'[p] = t
    BY <1>2
  <2> HIDE DEF s
  <2>4. \A i \in DOMAIN t : \E n \in DOMAIN s : t[i] = s[n]
    BY <2>1, WithoutOne
  <2> HIDE DEF t
  <2> QED
    BY <2>2, <2>3, <2>4 DEF ListedAfter
<1>7. ReadAfter(p)
  BY <1>2 DEF ReadAfter
<1> QED
  BY <1>2, <1>3, <1>4, <1>5, <1>6, <1>7, StandsStep

LEMMA PatchStands ==
    ASSUME Bound, Stands, NoneAgain, scope' = scope, NEW p \in Proc, Patch(p)
    PROVE  Stands'
<1> DEFINE o == job[p].old
           record == job[p].record
<1>1. pc[p] = "patch" /\ PatchOf(job[p]) /\ Patches(p)
  BY PatchEffect
<1>2. /\ lock = p /\ lock' = NoProc /\ StepBy(p)
      /\ job'[p] = NoJob /\ pc'[p] = "open"
      /\ jdx' = jdx /\ jdt' = jdt
      /\ jhr' \in Seq(Header) /\ Len(jhr') = Len(jhr) /\ DOMAIN jhr' = DOMAIN jhr
      /\ \A h \in DOMAIN jhr : h # o => jhr'[h] = jhr[h]
      /\ jhr'[o].of = jhr[o].of /\ jhr'[o].subs = jhr[o].subs
      /\ jhr'[o].at = jhr[o].at /\ jhr'[o].len = jhr[o].len
      /\ jhr'[o].gone = jhr[o].gone
      /\ table'[p] = Fresher(table[p], record, o, jhr'[o])
  BY <1>1 DEF Patches, Returns
<1>3. /\ record \in DOMAIN jdx /\ jdx[record] = o /\ o \in DOMAIN jhr /\ ~ jhr[o].gone
      /\ record \in Nat
  BY <1>1, JobFields DEF PatchOf, Bound, TypeOK
<1> HIDE DEF o, record
<1>4. DiskOK /\ Shape /\ MaxHeader \in Nat
  BY DiskNow, JamBoundsAssumption
<1>5. Spares
  <2>0. p # NoProc
    BY JamMarkerAssumption
  <2>1. /\ HeadEnd = Len(jhr) /\ TextEnd = Len(jdt)
        /\ HeadEnd' = Len(jhr) /\ TextEnd' = Len(jdt)
    BY <1>1, <1>2, <2>0, Ends, EndsAfter DEF Making
  <2>2. ASSUME NEW h \in 1 .. HeadEnd
        PROVE  /\ jhr'[h].subs = jhr[h].subs
               /\ jhr'[h].gone = jhr[h].gone /\ jhr'[h].of = jhr[h].of
               /\ jhr'[h].at = jhr[h].at /\ jhr'[h].len = jhr[h].len
    <3>1. h \in DOMAIN jhr
      BY <1>4, <2>1 DEF Shape
    <3>2. CASE h = o
      BY <1>2, <3>2
    <3>3. CASE h # o
      BY <1>2, <3>1, <3>3
    <3> QED
      BY <3>2, <3>3
  <2> QED
    BY <1>2, <1>4, <2>1, <2>2 DEF Spares, Shape
<1>6. StandsAfter(o, jhr'[o])
  <2>1. Known(o) /\ o # 0 /\ jhr[o] \in Header
    BY <1>3, <1>4 DEF Stands, Shape
  <2>2. Standing(o, jhr[o])
    BY <1>3, <2>1 DEF Known
  <2>3. StandsAfter(o, jhr[o])
    BY <1>5, <2>1, <2>2, StandingStays
  <2> QED
    BY <1>2, <2>3 DEF StandsAfter
<1>7. ListedAfter(p)
  <2> DEFINE s == table[p]
             header == jhr'[o]
             t == Fresher(s, record, o, header)
             m == [record |-> record, headerOffset |-> o, header |-> header]
  <2>1. s \in Seq(ActiveMessage)
    BY DEF Bound, TypeOK
  <2>2. \A n \in DOMAIN s : StandsAfter(s[n].headerOffset, s[n].header)
    BY <1>5, ListedStays
  <2>3. table'[p] = t /\ StandsAfter(o, header)
    BY <1>2, <1>6
  <2>4. header \in Header /\ o \in HeaderAt
    BY <1>2, <1>3, <1>4 DEF Shape, DiskOK, HeaderAt
  <2> HIDE DEF s, header
  <2>5. DOMAIN t = DOMAIN s /\ \A n \in DOMAIN s : t[n] = s[n] \/ t[n] = m
    BY <1>3, <2>1, <2>4, FresherTyped
  <2>6. m.headerOffset = o /\ m.header = header
    OBVIOUS
  <2> HIDE DEF t, m
  <2>7. \A n \in DOMAIN t : StandsAfter(t[n].headerOffset, t[n].header)
    BY <2>2, <2>3, <2>5, <2>6
  <2> QED
    BY <2>3, <2>7 DEF ListedAfter
<1>8. ReadAfter(p) /\ job'[p].kind # "replace"
  BY <1>2 DEF ReadAfter, NoJob
<1>9. \A r \in DOMAIN jdx' : jdx'[r] = 0 \/ KnownAfter(jdx'[r])
  BY <1>2, <1>5, IndexStays
<1> QED
  BY <1>2, <1>5, <1>7, <1>8, <1>9, StandsStep

LEMMA PutInfoStands ==
    ASSUME Bound, Stands, NoneAgain, scope' = scope, NEW p \in Proc, PutInfo(p)
    PROVE  Stands'
<1>1. pc[p] = "info" /\ PutsInfo(p)
  BY PutInfoEffect
<1>2. /\ lock = p /\ lock' = NoProc /\ StepBy(p)
      /\ job'[p] = NoJob /\ pc'[p] = "open"
      /\ jhr' = jhr /\ jdx' = jdx /\ jdt' = jdt
      /\ table'[p] = table[p]
  BY <1>1 DEF PutsInfo, Returns, Stands
<1>3. Spares
  <2>0. p # NoProc
    BY JamMarkerAssumption
  <2>1. /\ HeadEnd = Len(jhr) /\ TextEnd = Len(jdt)
        /\ HeadEnd' = Len(jhr) /\ TextEnd' = Len(jdt)
    BY <1>1, <1>2, <2>0, Ends, EndsAfter DEF Making
  <2>2. Len(jhr) \in Nat /\ Len(jdt) \in Nat
    BY DiskNow DEF Shape
  <2> QED
    BY <1>2, <2>1, <2>2, SparesSame
<1>4. ReadAfter(p) /\ ListedAfter(p) /\ job'[p].kind # "replace"
  BY <1>2, <1>3, ListedStays DEF ReadAfter, ListedAfter, NoJob
<1>5. \A r \in DOMAIN jdx' : jdx'[r] = 0 \/ KnownAfter(jdx'[r])
  BY <1>2, <1>3, IndexStays
<1> QED
  BY <1>2, <1>3, <1>4, <1>5, StandsStep

\* What a failed write cuts off is behind all that stands.
LEMMA FailsSpares ==
    ASSUME Bound, Stands, NoneAgain, scope' = scope, NEW p \in Proc,
           pc[p] \in Writing, Fails(p)
    PROVE  Spares
<1> DEFINE j == job[p]
<1>1. /\ lock = p /\ Shape /\ j \in Job /\ WorkOf(j, pc[p])
  BY Working
<1>2. /\ lock' \in {p, NoProc}
      /\ ~ (lock' = p /\ pc'[p] \in Making)
  <2>1. p # NoProc
    BY JamMarkerAssumption
  <2> QED
    BY <2>1 DEF Fails, Making
<1>3. HeadEnd' = Len(jhr') /\ TextEnd' = Len(jdt')
  BY <1>2, EndsAfter
<1>4. /\ HeadEnd \in Nat /\ HeadEnd <= Len(jhr)
      /\ TextEnd \in Nat /\ TextEnd <= Len(jdt)
  BY EndsBound
<1>5. CASE UNCHANGED <<jhr, jdt>>
  BY <1>1, <1>3, <1>4, <1>5, SparesSame DEF Shape
<1>6. CASE pc[p] \in {"head", "subs", "index"} /\ CutsBack(j)
  <2>1. MakingOf(j, pc[p]) /\ pc[p] \in Making
    BY <1>1, <1>6 DEF WorkOf, Making
  <2>2. j.kind = "write"
    BY <2>1 DEF MakingOf, Stands
  <2>3. HeadEnd = j.offset - 1 /\ TextEnd = j.head.at
    BY <1>1, <2>1, Ends
  <2>4. /\ Shorter(jhr, jhr', j.offset - 1) /\ Shorter(jdt, jdt', j.head.at)
    BY <1>6, <2>2 DEF CutsBack, Appends
  <2> HIDE DEF j
  <2>5. /\ HeadEnd' = HeadEnd /\ TextEnd' = TextEnd
        /\ \A h \in 1 .. HeadEnd : jhr'[h] = jhr[h]
        /\ \A i \in 1 .. TextEnd : jdt'[i] = jdt[i]
    BY <1>3, <2>3, <2>4 DEF Shorter
  <2> QED
    BY <1>4, <2>5 DEF Spares
<1> QED
  BY <1>5, <1>6 DEF Fails

LEMMA FailsStands ==
    ASSUME Bound, Stands, NoneAgain, scope' = scope, NEW p \in Proc, WriteFails(p)
    PROVE  Stands'
<1>1. pc[p] \in Writing /\ Fails(p)
  BY WriteFailsEffect
<1>2. Spares
  BY <1>1, FailsSpares
<1>3. /\ StepBy(p) /\ jdx' = jdx /\ table'[p] = table[p]
      /\ pc'[p] \in {"info", "open"}
      /\ job'[p] = job[p] \/ job'[p] = NoJob
  BY <1>1 DEF Fails
<1>4. job'[p].kind # "replace"
  <2>1. job[p].kind # "replace" /\ NoJob.kind # "replace"
    BY DEF Stands, NoJob
  <2> QED
    BY <1>3, <2>1
<1>5. ReadAfter(p) /\ ListedAfter(p)
  BY <1>2, <1>3, ListedStays DEF ReadAfter, ListedAfter
<1>6. \A r \in DOMAIN jdx' : jdx'[r] = 0 \/ KnownAfter(jdx'[r])
  BY <1>2, <1>3, IndexStays
<1> QED
  BY <1>2, <1>3, <1>4, <1>5, <1>6, StandsStep

LEMMA DieStands ==
    ASSUME Bound, Stands, NoneAgain, scope' = scope, NEW p \in Proc, Die(p)
    PROVE  Stands'
<1>1. Dies(p)
  BY DieEffect
<1>2. /\ lock = p /\ lock' = NoProc /\ StepBy(p)
      /\ jhr' = jhr /\ jdx' = jdx /\ jdt' = jdt
      /\ pc'[p] = "closed" /\ job'[p] = NoJob /\ table'[p] = <<>>
  BY <1>1 DEF Dies, disk
<1>3. Spares
  <2>0. p # NoProc
    BY JamMarkerAssumption
  <2>1. HeadEnd' = Len(jhr) /\ TextEnd' = Len(jdt)
    BY <1>2, <2>0, EndsAfter
  <2>2. Len(jhr) \in Nat /\ Len(jdt) \in Nat
    BY DiskNow DEF Shape
  <2> QED
    BY <1>2, <2>1, <2>2, EndsBound, SparesSame
<1>4. ReadAfter(p) /\ ListedAfter(p) /\ job'[p].kind # "replace"
  BY <1>2 DEF ReadAfter, ListedAfter, NoJob
<1>5. \A r \in DOMAIN jdx' : jdx'[r] = 0 \/ KnownAfter(jdx'[r])
  BY <1>2, <1>3, IndexStays
<1> QED
  BY <1>2, <1>3, <1>4, <1>5, StandsStep

LEMMA InitStands ==
    ASSUME Init PROVE Stands
<1>1. /\ jdx = <<>> /\ job = [p \in Proc |-> NoJob] /\ pc = [p \in Proc |-> "closed"]
      /\ table = [p \in Proc |-> <<>>]
  BY DEF Init
<1>2. DOMAIN jdx = {} /\ \A p \in Proc : table[p] = <<>>
  BY <1>1
<1>3. \A p \in Proc : DOMAIN table[p] = {}
  BY <1>2
<1> QED
  BY <1>1, <1>2, <1>3 DEF Stands, NoJob

LEMMA NextStands ==
    ASSUME Bound, Stands, [Next]_vars PROVE Stands'
<1>1. CASE Next
  <2>1. PICK p \in scope.procs :
          \/ SizeFiles(p) \/ ReadIndex(p) \/ ReadHeaders(p) \/ Close(p)
          \/ WriteAll(p) \/ Replace(p) \/ RemoveAll(p) \/ Mark(p)
          \/ PutText(p) \/ PutFixed(p) \/ PutSubfields(p) \/ PutIndex(p)
          \/ MarkOldHeader(p) \/ MarkRemoved(p) \/ BlankRecord(p)
          \/ Patch(p) \/ PutInfo(p)
          \/ WriteFails(p) \/ Die(p)
    BY <1>1 DEF Next
  <2>2. scope' = scope
    BY <1>1 DEF Next
  <2>3. p \in Proc /\ p \in scope.procs
    BY ScopeBounds DEF Bound
  <2>4. CASE ~ NoneAgain
    BY <2>2, <2>4 DEF Stands, NoneAgain
  <2> SUFFICES ASSUME NoneAgain PROVE Stands'
    BY <2>4
  <2>5. CASE SizeFiles(p) \/ ReadIndex(p) \/ ReadHeaders(p) \/ Close(p)
    BY <2>2, <2>3, <2>5, SizeFilesStands, ReadIndexStands, ReadHeadersStands, CloseStands
  <2>6. CASE WriteAll(p) \/ Replace(p) \/ RemoveAll(p) \/ Mark(p)
    BY <2>2, <2>3, <2>6, CallStarts, StartedStands, NothingStands
  <2>7. CASE PutText(p)
    BY <2>2, <2>3, <2>7, PutTextStands
  <2>8. CASE PutFixed(p)
    BY <2>2, <2>3, <2>8, PutFixedEffect, PutsHeaderStands
  <2>9. CASE PutSubfields(p)
    BY <2>2, <2>3, <2>9, PutSubfieldsEffect, PutsHeaderStands
  <2>10. CASE PutIndex(p)
    BY <2>2, <2>3, <2>10, PutIndexEffect, PutsIndexStands
  <2>11. CASE MarkOldHeader(p)
    BY <2>2, <2>3, <2>11, MarkOldHeaderStands
  <2>12. CASE MarkRemoved(p)
    BY <2>2, <2>3, <2>12, MarkRemovedStands
  <2>13. CASE BlankRecord(p)
    BY <2>2, <2>3, <2>13, BlanksStands
  <2>14. CASE Patch(p)
    BY <2>2, <2>3, <2>14, PatchStands
  <2>15. CASE PutInfo(p)
    BY <2>2, <2>3, <2>15, PutInfoStands
  <2>16. CASE WriteFails(p)
    BY <2>2, <2>3, <2>16, FailsStands
  <2>17. CASE Die(p)
    BY <2>2, <2>3, <2>17, DieStands
  <2> QED
    BY <2>1, <2>5, <2>6, <2>7, <2>8, <2>9, <2>10, <2>11, <2>12, <2>13, <2>14,
       <2>15, <2>16, <2>17
<1>2. CASE UNCHANGED vars
  <2>1. /\ jhr' = jhr /\ jdx' = jdx /\ jdt' = jdt /\ lock' = lock
        /\ pc' = pc /\ table' = table /\ job' = job /\ scope' = scope
    BY <1>2 DEF vars, disk
  <2>2. HeadEnd' = HeadEnd /\ TextEnd' = TextEnd
    BY <2>1 DEF HeadEnd, TextEnd
  <2> QED
    BY <2>1, <2>2, SMTT(20) DEF Stands, Known, Standing, Whole, NoneAgain
<1> QED
  BY <1>1, <1>2

LEMMA AlwaysStands == Spec => []Stands
<1>1. Init => Stands
  BY InitStands
<1>2. Bound /\ Stands /\ [Next]_vars => Stands'
  BY NextStands
<1> QED
  BY <1>1, <1>2, AlwaysBound, PTL DEF Spec

\* A header that leads to its own subfields and the whole of its text is read
\* for what it is.
LEMMA WholeReads ==
    ASSUME Bound, NEW offset \in DOMAIN jhr, NEW header \in Header,
           jhr[offset].subs = header.of, Whole(header, Len(jdt))
    PROVE  Says(offset, header) = header.of
<1>2. Shape /\ jdt \in Seq(Text)
  BY DiskNow DEF DiskOK
<1>3. /\ jhr[offset].subs = header.of
      /\ header.len = TextLen[header.of] /\ header.at + header.len <= Len(jdt)
      /\ \A i \in header.at + 1 .. header.at + header.len : jdt[i] = header.of
  BY DEF Whole
<1>4. header.at \in Nat /\ header.len \in Nat
  BY HeaderFields
<1> DEFINE at == header.at
           len == header.len
           of == header.of
<1>6. /\ at \in Nat /\ len \in Nat /\ at + len <= Len(jdt) /\ len = TextLen[of]
      /\ \A i \in at + 1 .. at + len : jdt[i] = of
  BY <1>3, <1>4
<1> HIDE DEF at, len, of
<1>7. SubSeq(jdt, at + 1, at + len) = Filled(of)
  <2>1. SubSeq(jdt, at + 1, at + len) = [i \in 1 .. len |-> jdt[at + i]]
    <3> DEFINE s == SubSeq(jdt, at + 1, at + len)
    <3>1. /\ s \in Seq(Text) /\ Len(s) = len
          /\ \A i \in 1 .. len : s[i] = jdt[at + i]
      <4> DEFINE m == at + 1
                 n == at + len
      <4>a. /\ at \in Nat /\ len \in Nat /\ at + len <= Len(jdt) /\ Len(jdt) \in Nat
            /\ DOMAIN jdt = 1 .. Len(jdt)
        BY <1>2, <1>6 DEF Shape
      <4>b. m \in Int /\ n \in Int /\ n - m + 1 = len /\ (m <= n <=> len # 0)
        BY <4>a
      <4>c. \A i \in m .. n : i \in DOMAIN jdt
        BY <4>a
      <4>d. \A i \in 1 .. len : m + i - 1 = at + i
        BY <4>a
      <4>1. /\ m \in Int /\ n \in Int /\ n - m + 1 = len /\ (m <= n <=> len # 0)
            /\ \A i \in m .. n : i \in DOMAIN jdt
            /\ \A i \in 1 .. len : m + i - 1 = at + i
        BY <4>b, <4>c, <4>d
      <4>2. \A i \in m .. n : jdt[i] \in Text
        BY <1>2, <4>c DEF Shape
      <4> HIDE DEF m, n
      <4>3. /\ SubSeq(jdt, m, n) \in Seq(Text)
            /\ Len(SubSeq(jdt, m, n)) = IF m <= n THEN n - m + 1 ELSE 0
            /\ \A i \in 1 .. n - m + 1 : SubSeq(jdt, m, n)[i] = jdt[m + i - 1]
        BY <4>1, <4>2, SubSeqProperties
      <4>4. s = SubSeq(jdt, m, n)
        BY DEF m, n
      <4> HIDE DEF s
      <4> QED
        BY <1>6, <4>1, <4>3, <4>4
    <3> HIDE DEF s
    <3>2. s = [i \in 1 .. len |-> s[i]]
      BY <1>6, <3>1
    <3>3. s = [i \in 1 .. len |-> jdt[at + i]]
      BY <3>1, <3>2
    <3> QED
      BY <3>3 DEF s
  <2>2. \A i \in 1 .. len : jdt[at + i] = of
    <3>1. \A i \in 1 .. len : at + i \in at + 1 .. at + len
      BY <1>6
    <3> QED
      BY <1>6, <3>1
  <2>3. Filled(of) = [i \in 1 .. len |-> of]
    BY <1>6 DEF Filled
  <2> QED
    BY <2>1, <2>2, <2>3
<1> QED
  BY <1>3, <1>6, <1>7 DEF Says, at, len, of

\* A message that stands is one of them.
LEMMA StandingWhole ==
    ASSUME Bound, NEW offset, NEW header \in Header, Standing(offset, header)
    PROVE  /\ offset \in DOMAIN jhr /\ jhr[offset].subs = header.of
           /\ Whole(header, Len(jdt))
<1>1. /\ HeadEnd \in Nat /\ HeadEnd <= Len(jhr)
      /\ TextEnd \in Nat /\ TextEnd <= Len(jdt)
  BY EndsBound
<1>2. Shape
  BY DiskNow
<1>3. /\ offset \in 1 .. HeadEnd /\ jhr[offset].subs = header.of
      /\ header.len = TextLen[header.of] /\ header.at + header.len <= TextEnd
      /\ \A i \in header.at + 1 .. header.at + header.len : jdt[i] = header.of
  BY DEF Standing, Whole
<1>4. header.at \in Nat /\ header.len \in Nat
  BY HeaderFields
<1>5. offset \in DOMAIN jhr
  BY <1>1, <1>2, <1>3 DEF Shape
<1> DEFINE end == header.at + header.len
<1>6. end \in Nat /\ end <= TextEnd
  BY <1>3, <1>4
<1> HIDE DEF end
<1>7. end <= Len(jdt)
  BY <1>1, <1>2, <1>6 DEF Shape
<1>8. header.at + header.len <= Len(jdt)
  BY <1>7 DEF end
<1> QED
  BY <1>3, <1>5, <1>8 DEF Whole

LEMMA StandingReads ==
    ASSUME Bound, NEW offset, NEW header \in Header, Standing(offset, header)
    PROVE  Says(offset, header) = header.of
<1>1. /\ offset \in DOMAIN jhr /\ jhr[offset].subs = header.of
      /\ Whole(header, Len(jdt))
  BY StandingWhole
<1> QED
  BY <1>1, WholeReads

\* Where nothing is written again, whatever a process has listed, however long
\* ago, read() finds as it was listed: no append, no removal, no refused write
\* cut back and no death of another process has touched it.
THEOREM ReadsTheListed == Spec => []ReadsWhatWasListed
<1>1. Bound /\ Stands => ReadsWhatWasListed
  <2>1. SUFFICES ASSUME Bound, Stands, NoneAgain,
                        NEW p \in Proc, NEW n \in DOMAIN table[p]
                 PROVE  Says(table[p][n].headerOffset, table[p][n].header)
                            = table[p][n].header.of
    BY DEF ReadsWhatWasListed, NoneAgain
  <2>2. Standing(table[p][n].headerOffset, table[p][n].header)
    BY <2>1 DEF Stands
  <2>3. table[p][n] \in ActiveMessage
    BY <2>1 DEF Bound, TypeOK
  <2>4. table[p][n].header \in Header
    BY <2>3, MessageFields
  <2> QED
    BY <2>1, <2>2, <2>4, StandingReads
<1> QED
  BY <1>1, AlwaysBound, AlwaysStands, PTL

-----------------------------------------------------------------------------

\* --------------------------------------------------------------------------
\* The order of a table

\* A list whose records are those of a set, each once, in their order.
InOrder(list, K) ==
    /\ \A i \in DOMAIN list : list[i].record \in K
    /\ \A i, k \in DOMAIN list : i < k => list[i].record < list[k].record
    /\ \A r \in K : \E i \in DOMAIN list : list[i].record = r

\* The same of a list of numbers.
Enumerates(s, n, K) ==
    /\ \A i \in 1 .. n : s[i] \in K
    /\ \A i, k \in 1 .. n : i < k => s[i] < s[k]
    /\ \A r \in K : \E i \in 1 .. n : s[i] = r

\* There is one such list.
LEMMA OneEnumeration ==
    ASSUME NEW K \in SUBSET Nat, NEW m \in Nat, NEW n \in Nat, NEW s, NEW t,
           Enumerates(s, m, K), Enumerates(t, n, K)
    PROVE  m = n /\ \A i \in 1 .. m : s[i] = t[i]
<1>1. ASSUME NEW i \in Nat, i \in 1 .. m, i \in 1 .. n,
             \A k \in 1 .. i - 1 : s[k] = t[k], s[i] < t[i]
      PROVE  FALSE
  <2>1. PICK a \in 1 .. n : t[a] = s[i]
    BY <1>1 DEF Enumerates
  <2>2. s[i] \in Nat /\ t[i] \in Nat
    BY <1>1 DEF Enumerates
  <2>3. a < i
    <3>1. ~ (i < a)
      BY <1>1, <2>1, <2>2 DEF Enumerates
    <3>2. a # i
      BY <1>1, <2>1, <2>2
    <3> QED
      BY <1>1, <3>1, <3>2
  <2>4. s[a] = s[i] /\ a \in 1 .. m
    BY <1>1, <2>1, <2>3
  <2>5. s[a] < s[i]
    BY <1>1, <2>3, <2>4 DEF Enumerates
  <2> QED
    BY <2>2, <2>4, <2>5
<1>2. ASSUME NEW i \in Nat, i \in 1 .. m, i \in 1 .. n,
             \A k \in 1 .. i - 1 : s[k] = t[k], t[i] < s[i]
      PROVE  FALSE
  <2>1. PICK a \in 1 .. m : s[a] = t[i]
    BY <1>2 DEF Enumerates
  <2>2. s[i] \in Nat /\ t[i] \in Nat
    BY <1>2 DEF Enumerates
  <2>3. a < i
    <3>1. ~ (i < a)
      BY <1>2, <2>1, <2>2 DEF Enumerates
    <3>2. a # i
      BY <1>2, <2>1, <2>2
    <3> QED
      BY <1>2, <3>1, <3>2
  <2>4. t[a] = t[i] /\ a \in 1 .. n
    BY <1>2, <2>1, <2>3
  <2>5. t[a] < t[i]
    BY <1>2, <2>3, <2>4 DEF Enumerates
  <2> QED
    BY <2>2, <2>4, <2>5
<1> DEFINE T == {i \in Nat : i \in 1 .. m /\ i \in 1 .. n /\ s[i] # t[i]}
<1>3. T = {}
  <2> SUFFICES ASSUME T # {} PROVE FALSE
    OBVIOUS
  <2>1. PICK i \in T : \A k \in T : i <= k
    BY LeastNumber
  <2>2. i \in Nat /\ i \in 1 .. m /\ i \in 1 .. n /\ s[i] # t[i]
    OBVIOUS
  <2>3. \A k \in 1 .. i - 1 : s[k] = t[k]
    <3> TAKE k \in 1 .. i - 1
    <3>1. k \in Nat /\ k \in 1 .. m /\ k \in 1 .. n /\ k < i
      BY <2>2
    <3>2. k \notin T
      BY <2>1, <2>2, <3>1
    <3> QED
      BY <3>1, <3>2
  <2>4. s[i] \in Nat /\ t[i] \in Nat
    BY <2>2 DEF Enumerates
  <2>5. s[i] < t[i] \/ t[i] < s[i]
    BY <2>2, <2>4
  <2> HIDE DEF T
  <2> QED
    BY <1>1, <1>2, <2>2, <2>3, <2>5
<1>4. \A i \in 1 .. m : i \in 1 .. n => s[i] = t[i]
  BY <1>3
<1> HIDE DEF T
<1>5. ~ (m < n)
  <2> SUFFICES ASSUME m < n PROVE FALSE
    OBVIOUS
  <2>1. m + 1 \in 1 .. n /\ t[m + 1] \in K
    BY DEF Enumerates
  <2>2. PICK b \in 1 .. m : s[b] = t[m + 1]
    BY <2>1 DEF Enumerates
  <2>3. b \in 1 .. n /\ b < m + 1 /\ t[b] = t[m + 1]
    BY <1>4, <2>2
  <2>4. t[b] < t[m + 1] /\ t[m + 1] \in Nat
    BY <2>1, <2>3 DEF Enumerates
  <2> QED
    BY <2>3, <2>4
<1>6. ~ (n < m)
  <2> SUFFICES ASSUME n < m PROVE FALSE
    OBVIOUS
  <2>1. n + 1 \in 1 .. m /\ s[n + 1] \in K
    BY DEF Enumerates
  <2>2. PICK b \in 1 .. n : t[b] = s[n + 1]
    BY <2>1 DEF Enumerates
  <2>3. b \in 1 .. m /\ b < n + 1 /\ s[b] = s[n + 1]
    BY <1>4, <2>2
  <2>4. s[b] < s[n + 1] /\ s[n + 1] \in Nat
    BY <2>1, <2>3 DEF Enumerates
  <2> QED
    BY <2>3, <2>4
<1> QED
  BY <1>4, <1>5, <1>6

\* A list gathered place by place is in order, where each entry has its place.
LEMMA GathersInOrder ==
    ASSUME NEW S, NEW val, NEW m \in Nat, NEW keep \in SUBSET (1 .. m),
           \A n \in keep : val[n] \in S /\ val[n].record = n,
           NEW up, Gathers(val, keep, m, up)
    PROVE  InOrder(up[m], keep)
<1>b. /\ up[0] = <<>>
      /\ \A n \in 1 .. m : n \in keep => up[n] = Append(up[n - 1], val[n])
      /\ \A n \in 1 .. m : n \notin keep => up[n] = up[n - 1]
  <2>1. StepByStep(val, keep, m, up)
    BY GathersStep
  <2> QED
    BY <2>1 DEF StepByStep
<1> DEFINE Good(n) == up[n] \in Seq(S) /\ InOrder(up[n], keep \cap 1 .. n)
           T == {n \in Nat : n <= m /\ ~ Good(n)}
<1>1. Good(0)
  <2>1. keep \cap 1 .. 0 = {} /\ up[0] \in Seq(S) /\ DOMAIN up[0] = {}
    BY <1>b
  <2> QED
    BY <2>1 DEF InOrder
<1>2. ASSUME NEW n \in 1 .. m, Good(n - 1) PROVE Good(n)
  <2> DEFINE s == up[n - 1]
  <2>0. /\ n - 1 \in Nat /\ s \in Seq(S) /\ InOrder(s, keep \cap 1 .. n - 1)
        /\ DOMAIN s = 1 .. Len(s) /\ Len(s) \in Nat
    BY <1>2
  <2>1. CASE n \notin keep
    <3>1. up[n] = s /\ keep \cap 1 .. n = keep \cap 1 .. n - 1
      BY <1>b, <2>1
    <3> HIDE DEF s
    <3> QED
      BY <2>0, <3>1
  <2>2. CASE n \in keep
    <3>1. up[n] = Append(s, val[n]) /\ val[n] \in S /\ val[n].record = n
      BY <1>b, <2>2
    <3> HIDE DEF s
    <3> DEFINE r == up[n]
    <3>2. r \in Seq(S) /\ Longer(s, r, val[n])
      BY <2>0, <3>1, AddOne
    <3>3. DOMAIN r = DOMAIN s \cup {Len(s) + 1}
      BY <2>0, <3>2 DEF Longer
    <3>4. \A i \in DOMAIN s : r[i].record = s[i].record /\ s[i].record \in keep \cap 1 .. n - 1
      BY <2>0, <3>2 DEF Longer, InOrder
    <3>5. r[Len(s) + 1].record = n
      BY <3>1, <3>2 DEF Longer
    <3> HIDE DEF r
    <3>6. \A i \in DOMAIN r : r[i].record \in keep \cap 1 .. n
      BY <2>2, <3>3, <3>4, <3>5
    <3>7. \A i, k \in DOMAIN r : i < k => r[i].record < r[k].record
      <4> SUFFICES ASSUME NEW i \in DOMAIN r, NEW k \in DOMAIN r, i < k
                   PROVE  r[i].record < r[k].record
        OBVIOUS
      <4>1. i \in DOMAIN s
        BY <2>0, <3>3
      <4>2. CASE k \in DOMAIN s
        BY <2>0, <3>4, <4>1, <4>2 DEF InOrder
      <4>3. CASE k = Len(s) + 1
        BY <3>4, <3>5, <4>1, <4>3
      <4> QED
        BY <3>3, <4>2, <4>3
    <3>8. \A x \in keep \cap 1 .. n : \E i \in DOMAIN r : r[i].record = x
      <4> TAKE x \in keep \cap 1 .. n
      <4>1. CASE x = n
        BY <3>3, <3>5, <4>1
      <4>2. CASE x # n
        <5>1. x \in keep \cap 1 .. n - 1
          BY <4>2
        <5>2. PICK i \in DOMAIN s : s[i].record = x
          BY <2>0, <5>1 DEF InOrder
        <5> QED
          BY <3>3, <3>4, <5>2
      <4> QED
        BY <4>1, <4>2
    <3> QED
      BY <3>2, <3>6, <3>7, <3>8 DEF InOrder, r
  <2> QED
    BY <2>1, <2>2
<1>3. T = {}
  <2> SUFFICES ASSUME T # {} PROVE FALSE
    OBVIOUS
  <2>1. PICK n \in T : \A k \in T : n <= k
    BY LeastNumber
  <2> HIDE DEF Good
  <2>2. n # 0 /\ n \in 1 .. m /\ ~ Good(n)
    BY <1>1
  <2>3. n - 1 \in Nat /\ n - 1 <= m /\ n - 1 \notin T
    BY <2>1, <2>2
  <2> QED
    BY <1>2, <2>2, <2>3
<1>4. Good(m)
  <2> HIDE DEF Good
  <2> QED
    BY <1>3
<1>5. keep \cap 1 .. m = keep
  OBVIOUS
<1> QED
  BY <1>4, <1>5

\* What is told of each of some records, under its number.
Tagged(told) ==
    /\ DOMAIN told \in SUBSET Nat
    /\ \A r \in DOMAIN told : told[r].uid = r

\* The list of all that is told, in the order of the records.
Shows(list, n, told) ==
    /\ list = [i \in 1 .. n |-> list[i]]
    /\ \A i \in 1 .. n : list[i].uid \in DOMAIN told /\ list[i] = told[list[i].uid]
    /\ \A i, k \in 1 .. n : i < k => list[i].uid < list[k].uid
    /\ \A r \in DOMAIN told : \E i \in 1 .. n : list[i].uid = r

\* Each record has one place in the list.
LEMMA OneOf ==
    ASSUME NEW told, Tagged(told), NEW m \in Nat, NEW a, Shows(a, m, told)
    PROVE  \A i, k \in 1 .. m : a[i].uid = a[k].uid => i = k
<1> SUFFICES ASSUME NEW i \in 1 .. m, NEW k \in 1 .. m, a[i].uid = a[k].uid, i # k
             PROVE  FALSE
  OBVIOUS
<1>1. a[i].uid \in Nat
  BY DEF Shows, Tagged
<1>2. i < k \/ k < i
  OBVIOUS
<1>3. a[i].uid < a[k].uid \/ a[k].uid < a[i].uid
  BY <1>2 DEF Shows
<1> QED
  BY <1>1, <1>3

LEMMA ShowsOnce ==
    ASSUME NEW told, Tagged(told), NEW m \in Nat, NEW n \in Nat, NEW a, NEW b,
           Shows(a, m, told), Shows(b, n, told)
    PROVE  m = n /\ a = b
<1> DEFINE s == [i \in 1 .. m |-> a[i].uid]
           t == [i \in 1 .. n |-> b[i].uid]
<1>1. Enumerates(s, m, DOMAIN told) /\ Enumerates(t, n, DOMAIN told)
  BY DEF Shows, Enumerates
<1>2. m = n /\ \A i \in 1 .. m : s[i] = t[i]
  <2> DEFINE K == DOMAIN told
  <2>1. K \in SUBSET Nat
    BY DEF Tagged
  <2>2. Enumerates(s, m, K) /\ Enumerates(t, n, K)
    BY <1>1
  <2> HIDE DEF s, t, K
  <2> QED
    BY <2>1, <2>2, OneEnumeration
<1>3. \A i \in 1 .. m : a[i] = b[i]
  <2> TAKE i \in 1 .. m
  <2>1. s[i] = a[i].uid /\ t[i] = b[i].uid /\ s[i] = t[i]
    BY <1>2
  <2>2. a[i] = told[a[i].uid] /\ b[i] = told[b[i].uid]
    BY <1>2 DEF Shows
  <2> QED
    BY <2>1, <2>2
<1>4. a = [i \in 1 .. m |-> a[i]] /\ b = [i \in 1 .. n |-> b[i]]
  BY DEF Shows
<1> QED
  BY <1>2, <1>3, <1>4

\* One more is told of, behind all others: it comes last.
LEMMA ShowsMore ==
    ASSUME NEW told, Tagged(told), NEW now, Tagged(now), NEW u \in Nat,
           DOMAIN now = DOMAIN told \cup {u},
           \A r \in DOMAIN told : r < u /\ now[r] = told[r],
           NEW m \in Nat, NEW n \in Nat, NEW a, NEW b, Shows(a, m, told), Shows(b, n, now)
    PROVE  /\ n = m + 1 /\ b[m + 1] = now[u]
           /\ \A i \in 1 .. m : b[i] = a[i]
<1> DEFINE c == [i \in 1 .. m + 1 |-> IF i = m + 1 THEN now[u] ELSE a[i]]
<1>0. now[u].uid = u /\ u \in DOMAIN now
  BY DEF Tagged
<1>1. /\ c = [i \in 1 .. m + 1 |-> c[i]]
      /\ c[m + 1] = now[u] /\ c[m + 1].uid = u
      /\ \A i \in 1 .. m : c[i] = a[i] /\ i \in 1 .. m + 1
  BY <1>0
<1>1a. \A i \in 1 .. m + 1 : i = m + 1 \/ i \in 1 .. m
  OBVIOUS
<1> HIDE DEF c
<1>2. \A i \in 1 .. m + 1 : c[i].uid \in DOMAIN now /\ c[i] = now[c[i].uid]
  <2> TAKE i \in 1 .. m + 1
  <2>1. CASE i = m + 1
    BY <1>0, <1>1, <2>1
  <2>2. CASE i \in 1 .. m
    <3>1. a[i].uid \in DOMAIN told /\ a[i] = told[a[i].uid]
      BY <2>2 DEF Shows
    <3>2. c[i] = a[i]
      BY <1>1, <2>2
    <3> QED
      BY <3>1, <3>2
  <2> QED
    BY <1>1a, <2>1, <2>2
<1>3. \A i, k \in 1 .. m + 1 : i < k => c[i].uid < c[k].uid
  <2> SUFFICES ASSUME NEW i \in 1 .. m + 1, NEW k \in 1 .. m + 1, i < k
               PROVE  c[i].uid < c[k].uid
    OBVIOUS
  <2>1. i \in 1 .. m
    OBVIOUS
  <2>2. CASE k = m + 1
    BY <1>1, <2>1, <2>2 DEF Shows
  <2>3. CASE k \in 1 .. m
    BY <1>1, <2>1, <2>3 DEF Shows
  <2> QED
    BY <1>1a, <2>2, <2>3
<1>4. \A r \in DOMAIN now : \E i \in 1 .. m + 1 : c[i].uid = r
  <2> TAKE r \in DOMAIN now
  <2>1. CASE r = u
    BY <1>1, <2>1
  <2>2. CASE r \in DOMAIN told
    <3>1. PICK i \in 1 .. m : a[i].uid = r
      BY <2>2 DEF Shows
    <3> QED
      BY <1>1, <3>1
  <2> QED
    BY <2>1, <2>2
<1>5. Shows(c, m + 1, now)
  BY <1>1, <1>2, <1>3, <1>4 DEF Shows
<1>6. n = m + 1 /\ b = c
  BY <1>5, ShowsOnce
<1> QED
  BY <1>1, <1>6

Differ(told, now, u) ==
    /\ u \in DOMAIN told /\ DOMAIN now = DOMAIN told
    /\ \A r \in DOMAIN told : r # u => now[r] = told[r]

PutsOver(a, b, m, old, new) ==
    \E k \in 1 .. m : a[k] = old /\ b = [a EXCEPT ![k] = new]

\* Of one, something else is told: it keeps its place.
LEMMA ShowsOther ==
    ASSUME NEW told, Tagged(told), NEW now, Tagged(now), NEW u, Differ(told, now, u),
           NEW m \in Nat, NEW n \in Nat, NEW a, NEW b, Shows(a, m, told), Shows(b, n, now)
    PROVE  PutsOver(a, b, m, told[u], now[u])
<1>d. /\ u \in DOMAIN told /\ DOMAIN now = DOMAIN told
      /\ \A r \in DOMAIN told : r # u => now[r] = told[r]
  BY DEF Differ
<1>1. PICK k \in 1 .. m : a[k].uid = u
  BY <1>d DEF Shows
<1> DEFINE c == [a EXCEPT ![k] = now[u]]
<1>0. now[u].uid = u /\ u \in DOMAIN now
  BY <1>d DEF Tagged
<1>1a. DOMAIN a = 1 .. m
  <2>1. a = [i \in 1 .. m |-> a[i]]
    BY DEF Shows
  <2> QED
    BY <2>1
<1>2. /\ c = [i \in 1 .. m |-> c[i]]
      /\ c[k] = now[u]
      /\ \A i \in 1 .. m : i # k => c[i] = a[i]
  BY <1>1a
<1> HIDE DEF c
<1>3. \A i \in 1 .. m : c[i].uid = a[i].uid
  BY <1>0, <1>1, <1>2
<1>4. \A i \in 1 .. m : c[i].uid \in DOMAIN now /\ c[i] = now[c[i].uid]
  <2> TAKE i \in 1 .. m
  <2>1. CASE i = k
    BY <1>0, <1>2, <2>1
  <2>2. CASE i # k
    <3>1. a[i].uid # u
      BY <1>1, <2>2, OneOf
    <3>2. a[i].uid \in DOMAIN told /\ a[i] = told[a[i].uid]
      BY DEF Shows
    <3>3. c[i] = a[i]
      BY <1>2, <2>2
    <3> QED
      BY <1>d, <3>1, <3>2, <3>3
  <2> QED
    BY <2>1, <2>2
<1>5. \A i, j \in 1 .. m : i < j => c[i].uid < c[j].uid
  BY <1>3 DEF Shows
<1>6. \A r \in DOMAIN now : \E i \in 1 .. m : c[i].uid = r
  <2> TAKE r \in DOMAIN now
  <2>1. PICK i \in 1 .. m : a[i].uid = r
    BY <1>d DEF Shows
  <2> QED
    BY <1>3, <2>1
<1>7. Shows(c, m, now)
  BY <1>2, <1>4, <1>5, <1>6 DEF Shows
<1>8. b = c
  BY <1>7, ShowsOnce
<1>9. a[k] = told[u]
  BY <1>1 DEF Shows
<1> QED
  BY <1>8, <1>9 DEF c, PutsOver

Fewer(told, now, u) ==
    /\ u \in DOMAIN told /\ DOMAIN now = DOMAIN told \ {u}
    /\ \A r \in DOMAIN now : now[r] = told[r]

ClosesUp(a, b, m, n) ==
    /\ n = m - 1
    /\ \E k \in 1 .. m : \A i \in 1 .. n : b[i] = a[IF i < k THEN i ELSE i + 1]

\* One is told of no more: those behind it move up.
LEMMA ShowsFewer ==
    ASSUME NEW told, Tagged(told), NEW now, Tagged(now), NEW u, Fewer(told, now, u),
           NEW m \in Nat, NEW n \in Nat, NEW a, NEW b, Shows(a, m, told), Shows(b, n, now)
    PROVE  ClosesUp(a, b, m, n)
<1>d. /\ u \in DOMAIN told /\ DOMAIN now = DOMAIN told \ {u}
      /\ \A r \in DOMAIN now : now[r] = told[r]
  BY DEF Fewer
<1>1. PICK k \in 1 .. m : a[k].uid = u
  BY <1>d DEF Shows
<1> DEFINE c == [i \in 1 .. m - 1 |-> a[IF i < k THEN i ELSE i + 1]]
           from(i) == IF i < k THEN i ELSE i + 1
<1>2. /\ c = [i \in 1 .. m - 1 |-> c[i]]
      /\ \A i \in 1 .. m - 1 : c[i] = a[from(i)]
  OBVIOUS
<1>3. \A i \in 1 .. m - 1 : from(i) \in 1 .. m /\ from(i) # k
  OBVIOUS
<1>3a. \A i, j \in 1 .. m - 1 : i < j => from(i) < from(j)
  OBVIOUS
<1>3b. \A i \in 1 .. m : i # k => \E j \in 1 .. m - 1 : from(j) = i
  <2> SUFFICES ASSUME NEW i \in 1 .. m, i # k PROVE \E j \in 1 .. m - 1 : from(j) = i
    OBVIOUS
  <2>1. CASE i < k
    <3> WITNESS i \in 1 .. m - 1
    <3> QED
      BY <2>1
  <2>2. CASE k < i
    <3>1. i - 1 \in 1 .. m - 1 /\ from(i - 1) = i
      BY <2>2
    <3> QED
      BY <3>1
  <2> QED
    BY <2>1, <2>2
<1>0. m - 1 \in Nat
  OBVIOUS
<1> HIDE DEF c, from
<1>4. \A i \in 1 .. m - 1 : c[i].uid \in DOMAIN now /\ c[i] = now[c[i].uid]
  <2> TAKE i \in 1 .. m - 1
  <2> DEFINE f == from(i)
  <2>1. f \in 1 .. m /\ f # k /\ c[i] = a[f]
    BY <1>2, <1>3
  <2> HIDE DEF f
  <2>2. a[f].uid # u
    BY <1>1, <2>1, OneOf
  <2>3. a[f].uid \in DOMAIN told /\ a[f] = told[a[f].uid]
    BY <2>1 DEF Shows
  <2> QED
    BY <1>d, <2>1, <2>2, <2>3
<1>5. \A i, j \in 1 .. m - 1 : i < j => c[i].uid < c[j].uid
  <2> SUFFICES ASSUME NEW i \in 1 .. m - 1, NEW j \in 1 .. m - 1, i < j
               PROVE  c[i].uid < c[j].uid
    OBVIOUS
  <2>1. from(i) \in 1 .. m /\ from(j) \in 1 .. m /\ from(i) < from(j)
    BY <1>3, <1>3a
  <2>2. a[from(i)].uid < a[from(j)].uid
    BY <2>1 DEF Shows
  <2> QED
    BY <1>2, <2>2
<1>6. \A r \in DOMAIN now : \E i \in 1 .. m - 1 : c[i].uid = r
  <2> TAKE r \in DOMAIN now
  <2>1. PICK i \in 1 .. m : a[i].uid = r
    BY <1>d DEF Shows
  <2>2. i # k
    BY <1>d, <1>1, <2>1
  <2>3. PICK j \in 1 .. m - 1 : from(j) = i
    BY <1>3b, <2>2
  <2> QED
    BY <1>2, <2>1, <2>3
<1>7. Shows(c, m - 1, now)
  BY <1>2, <1>4, <1>5, <1>6 DEF Shows
<1>8. n = m - 1 /\ b = c
  BY <1>0, <1>7, ShowsOnce
<1>9. \A i \in 1 .. n : b[i] = a[IF i < k THEN i ELSE i + 1]
  BY <1>2, <1>8 DEF from
<1> QED
  BY <1>8, <1>9 DEF ClosesUp

\* What the area has for a record.
Heading(r) == IF Again(r) THEN job[lock].was ELSE jhr[jdx[r]]
Told(r) == [uid |-> r, text |-> Heading(r).of,
            rcvd |-> Heading(r).rcvd, seen |-> Heading(r).seen]
Telling == [r \in Live |-> Told(r)]

\* The area tells of the records that name a message, in their order.
Shown ==
    /\ Tagged(Telling)
    /\ Area \in Seq(Base!Message)
    /\ Shows(Area, Len(Area), Telling)

\* --------------------------------------------------------------------------
\* What a step does to the area, when one knows what it does to what is told

\* It tells the same of every record.
SameTold ==
    /\ Live' = Live /\ Len(jdx') = Len(jdx)
    /\ \A r \in Live : Told(r)' = Told(r)

LEMMA StepsNothing ==
    ASSUME Shown, Shown', SameTold
    PROVE  UNCHANGED Base!baseVars
<1> DEFINE a == Area
           b == Area'
           told == Telling
           now == Telling'
<1>1. told = now
  BY DEF Telling, SameTold
<1>2. Tagged(told) /\ Shows(a, Len(a), told) /\ Shows(b, Len(b), now)
  BY DEF Shown
<1>3. Len(a) \in Nat /\ Len(b) \in Nat
  BY DEF Shown
<1> HIDE DEF a, b, told, now
<1>4. a = b
  BY <1>1, <1>2, <1>3, ShowsOnce
<1>5. Area' = Area
  BY <1>4 DEF a, b
<1> QED
  BY <1>5 DEF Base!baseVars, SameTold

\* It tells of one more record, behind all others.
OneMoreTold ==
    /\ Live' = Live \cup {Len(jdx) + 1} /\ Len(jdx') = Len(jdx) + 1
    /\ \A r \in Live : Told(r)' = Told(r)

LEMMA LastOne ==
    ASSUME NEW M, NEW a \in Seq(M), NEW b \in Seq(M), Len(b) = Len(a) + 1,
           \A i \in 1 .. Len(a) : b[i] = a[i]
    PROVE  LET new == SubSeq(b, Len(a) + 1, Len(b))
           IN  /\ new \in Seq(M) /\ new # <<>> /\ Len(new) = 1 /\ DOMAIN new = {1}
               /\ new[1] = b[Len(a) + 1]
               /\ b = a \o new
<1> DEFINE m == Len(a)
           new == SubSeq(b, m + 1, m + 1)
<1>1. /\ m \in Nat /\ m + 1 \in Int /\ Len(b) = m + 1
      /\ \A i \in m + 1 .. m + 1 : b[i] \in M
  OBVIOUS
<1> HIDE DEF m
<1>2. /\ new \in Seq(M) /\ Len(new) = 1 /\ new[1] = b[m + 1]
  <2> DEFINE n == m + 1
  <2>1. n \in Int /\ (\A i \in n .. n : b[i] \in M) /\ n - n + 1 = 1 /\ n <= n /\ n + 1 - 1 = n
    BY <1>1
  <2> HIDE DEF n
  <2>2. /\ SubSeq(b, n, n) \in Seq(M)
        /\ Len(SubSeq(b, n, n)) = IF n <= n THEN n - n + 1 ELSE 0
        /\ \A i \in 1 .. n - n + 1 : SubSeq(b, n, n)[i] = b[n + i - 1]
    BY <2>1, SubSeqProperties
  <2> QED
    BY <2>1, <2>2 DEF n
<1> HIDE DEF new
<1>3. new # <<>> /\ DOMAIN new = {1}
  <2>1. DOMAIN new = 1 .. 1
    BY <1>2
  <2>2. 1 .. 1 = {1}
    OBVIOUS
  <2>3. DOMAIN <<>> = {}
    OBVIOUS
  <2> QED
    BY <2>1, <2>2, <2>3
<1>4. b = a \o new
  <2>1. /\ a \o new \in Seq(M) /\ Len(a \o new) = m + 1
        /\ \A i \in 1 .. m + 1 : (a \o new)[i] = IF i <= m THEN a[i] ELSE new[i - m]
    BY <1>1, <1>2, ConcatProperties, SMTT(20) DEF m
  <2>2. ASSUME NEW i \in 1 .. m + 1 PROVE (a \o new)[i] = b[i]
    <3> DEFINE c == a \o new
    <3>1. c[i] = IF i <= m THEN a[i] ELSE new[i - m]
      BY <2>1
    <3> HIDE DEF c
    <3>2. CASE i = m + 1
      <4>1. ~ (i <= m) /\ i - m = 1
        BY <1>1, <3>2
      <4>2. c[i] = new[1]
        BY <3>1, <4>1
      <4> QED
        BY <1>2, <3>2, <4>2 DEF c
    <3>3. CASE i \in 1 .. m
      <4>1. i <= m /\ b[i] = a[i]
        BY <1>1, <3>3 DEF m
      <4>2. c[i] = a[i]
        BY <3>1, <4>1
      <4> QED
        BY <4>1, <4>2 DEF c
    <3>4. i = m + 1 \/ i \in 1 .. m
      BY <1>1
    <3> QED
      BY <3>2, <3>3, <3>4
  <2> QED
    BY <1>1, <2>1, <2>2, SeqEqual
<1> QED
  BY <1>1, <1>2, <1>3, <1>4 DEF new, m

LEMMA StepsOneIn ==
    ASSUME Bound, Shown, Shown', OneMoreTold
    PROVE  Base!BaseNext
<1> DEFINE a == Area
           b == Area'
           told == Telling
           now == Telling'
           u == Len(jdx) + 1
           M == Base!Message
           new == SubSeq(b, Len(a) + 1, Len(b))
<1>1. /\ DOMAIN told = Live /\ DOMAIN now = Live \cup {u} /\ u \in Nat
      /\ \A r \in DOMAIN told : r < u /\ now[r] = told[r]
  <2>1. DOMAIN jdx = 1 .. Len(jdx) /\ Len(jdx) \in Nat
    BY DiskNow DEF Shape
  <2>2. \A r \in Live : r < u
    BY <2>1 DEF Live
  <2> QED
    BY <2>1, <2>2 DEF Telling, OneMoreTold
<1>2. /\ Tagged(told) /\ Tagged(now) /\ Shows(a, Len(a), told) /\ Shows(b, Len(b), now)
      /\ a \in Seq(M) /\ b \in Seq(M)
  BY DEF Shown
<1>3. Len(a) \in Nat /\ Len(b) \in Nat
  BY <1>2
<1>4. Len(jdx') + 1 = u + 1
  BY DEF OneMoreTold
<1>5. Len(jdx) + 1 = u
  OBVIOUS
<1>6. a = Area /\ b = Area'
  OBVIOUS
<1> HIDE DEF a, b, told, now, u, M
<1>7. /\ Len(b) = Len(a) + 1 /\ b[Len(a) + 1] = now[u]
      /\ \A i \in 1 .. Len(a) : b[i] = a[i]
  BY <1>1, <1>2, <1>3, ShowsMore
<1>8. /\ new \in Seq(M) /\ new # <<>> /\ Len(new) = 1 /\ DOMAIN new = {1}
      /\ new[1] = now[u] /\ b = a \o new
  BY <1>2, <1>7, LastOne
<1> HIDE DEF new
<1>9. now[u].uid = u
  BY <1>1, <1>2 DEF Tagged
<1>10. \A i \in DOMAIN new : new[i].uid = u + i - 1
  <2>1. u + 1 - 1 = u
    BY <1>1
  <2> QED
    BY <1>8, <1>9, <2>1
<1>11. Len(b) > Len(a)
  BY <1>3, <1>7
<1>12. /\ new \in Seq(M) /\ new # <<>> /\ \A i \in DOMAIN new : new[i].uid = u + i - 1
       /\ b = a \o new /\ Len(jdx') + 1 = u + Len(new)
  BY <1>4, <1>8, <1>10
<1>13. Base!AppendSet(new)
  BY <1>5, <1>6, <1>12 DEF Base!AppendSet, M
<1> QED
  BY <1>6, <1>11, <1>13 DEF Base!BaseNext, new

\* Of one record it tells something else.
OtherTold(u) ==
    /\ Live' = Live /\ Len(jdx') = Len(jdx) /\ u \in Live
    /\ \A r \in Live : r # u => Told(r)' = Told(r)

LEMMA ChangesOne ==
    ASSUME Bound, Shown, Shown', NEW u, OtherTold(u)
    PROVE  \E k \in DOMAIN Area :
              /\ Area[k] = Told(u) /\ Area' = [Area EXCEPT ![k] = Told(u)']
              /\ Told(u)' \in Base!Message
<1> DEFINE a == Area
           b == Area'
           told == Telling
           now == Telling'
           M == Base!Message
           v == Told(u)'
<1>1. /\ DOMAIN told = Live /\ DOMAIN now = Live /\ u \in Live
      /\ \A r \in DOMAIN told : r # u => now[r] = told[r]
      /\ told[u] = Told(u) /\ now[u] = v
  BY DEF Telling, OtherTold
<1>2. /\ Tagged(told) /\ Tagged(now) /\ Shows(a, Len(a), told) /\ Shows(b, Len(b), now)
      /\ a \in Seq(M) /\ b \in Seq(M)
  BY DEF Shown
<1> HIDE DEF a, b, told, now, M, v
<1>3. Len(a) \in Nat /\ Len(b) \in Nat /\ DOMAIN a = 1 .. Len(a) /\ DOMAIN b = 1 .. Len(b)
  BY <1>2
<1>3a. Differ(told, now, u)
  BY <1>1 DEF Differ
<1>4a. PutsOver(a, b, Len(a), told[u], now[u])
  BY <1>2, <1>3, <1>3a, ShowsOther
<1>4. PICK k \in 1 .. Len(a) : a[k] = told[u] /\ b = [a EXCEPT ![k] = now[u]]
  BY <1>4a DEF PutsOver
<1>5. b[k] = now[u] /\ k \in DOMAIN b
  BY <1>3, <1>4
<1>6. now[u] \in M
  BY <1>2, <1>5
<1>7. k \in DOMAIN a /\ a[k] = Told(u) /\ b = [a EXCEPT ![k] = v] /\ v \in M
  BY <1>1, <1>3, <1>4, <1>6
<1> QED
  BY <1>7 DEF a, b, M, v

\* It is written again, and keeps its seen mark.
LEMMA StepsReplace ==
    ASSUME Bound, Shown, Shown', NEW u, OtherTold(u), Told(u)'.seen = Told(u).seen
    PROVE  Base!BaseNext
<1> DEFINE v == Told(u)'
<1>1. PICK k \in DOMAIN Area :
              /\ Area[k] = Told(u) /\ Area' = [Area EXCEPT ![k] = v]
              /\ v \in Base!Message
  BY ChangesOne
<1>2. v.uid = u /\ Told(u).uid = u /\ v.seen = Told(u).seen
  BY DEF Told
<1> HIDE DEF v
<1>3. k \in DOMAIN Area' /\ Area'[k] = v
  BY <1>1
<1>4. Base!Replace(k, Area'[k])
  BY <1>1, <1>2, <1>3 DEF Base!Replace, OtherTold
<1> QED
  BY <1>1, <1>3, <1>4 DEF Base!BaseNext

LEMMA MarksTyped ==
    ASSUME NEW m \in Base!Message
    PROVE  m.seen \in BOOLEAN /\ m.rcvd \in BOOLEAN
BY DEF Base!Message

\* It has one mark more.
LEMMA StepsMark ==
    ASSUME Bound, Shown, Shown', NEW u, OtherTold(u), Told(u)'.text = Told(u).text,
           \/ Told(u)'.seen = TRUE /\ Told(u)'.rcvd = Told(u).rcvd
           \/ Told(u)'.rcvd = TRUE /\ Told(u)'.seen = Told(u).seen
    PROVE  Base!BaseNext
<1> DEFINE v == Told(u)'
           w == Told(u)
<1>1. PICK k \in DOMAIN Area :
              /\ Area[k] = w /\ Area' = [Area EXCEPT ![k] = v]
              /\ v \in Base!Message
  BY ChangesOne
<1>2. /\ v.uid = w.uid /\ v.text = w.text
      /\ v = [uid |-> v.uid, text |-> v.text, rcvd |-> v.rcvd, seen |-> v.seen]
      /\ w = [uid |-> w.uid, text |-> w.text, rcvd |-> w.rcvd, seen |-> w.seen]
      /\ \/ v.seen = TRUE /\ v.rcvd = w.rcvd
         \/ v.rcvd = TRUE /\ v.seen = w.seen
  BY DEF Told
<1>3. Area \in Seq(Base!Message)
  BY DEF Shown
<1> HIDE DEF v, w
<1>4. v.seen \in BOOLEAN /\ v.rcvd \in BOOLEAN /\ w.seen \in BOOLEAN /\ w.rcvd \in BOOLEAN
  <2>1. v \in Base!Message /\ w \in Base!Message
    BY <1>1, <1>3
  <2> QED
    BY <2>1, MarksTyped
<1>5. \E seen, rcvd \in BOOLEAN :
          v.seen = (w.seen \/ seen) /\ v.rcvd = (w.rcvd \/ rcvd)
  <2>1. CASE v.seen = TRUE /\ v.rcvd = w.rcvd
    BY <1>4, <2>1
  <2>2. CASE v.rcvd = TRUE /\ v.seen = w.seen
    BY <1>4, <2>2
  <2> QED
    BY <1>2, <2>1, <2>2
<1>6. PICK seen \in BOOLEAN, rcvd \in BOOLEAN :
          v.seen = (w.seen \/ seen) /\ v.rcvd = (w.rcvd \/ rcvd)
  BY <1>5
<1>7. [Area EXCEPT ![k].seen = @ \/ seen, ![k].rcvd = @ \/ rcvd]
          = [Area EXCEPT ![k] = v]
  <2>1. [[w EXCEPT !.seen = @ \/ seen] EXCEPT !.rcvd = @ \/ rcvd] = v
    BY <1>2, <1>6
  <2> QED
    BY <1>1, <1>3, <2>1
<1>8. Base!Mark(k, seen, rcvd)
  BY <1>1, <1>7 DEF Base!Mark, OtherTold
<1> QED
  BY <1>1, <1>6, <1>8 DEF Base!BaseNext

\* Where the i-th of those that are left stands, as the abstract base counts.
PlaceIn(Left, i) ==
    CHOOSE n \in Left : Base!Cardinality({x \in Left : x < n}) = i - 1

AllBut(Left, m, k) ==
    /\ Base!Cardinality(Left) = m - 1
    /\ \A i \in 1 .. m - 1 : PlaceIn(Left, i) = IF i < k THEN i ELSE i + 1

LEMMA PlaceOfLeft ==
    ASSUME NEW m \in Nat, NEW k \in 1 .. m, NEW Left, Left = (1 .. m) \ {k}
    PROVE  AllBut(Left, m, k)
<1> DEFINE below(n) == Base!Cardinality({x \in Left : x < n})
<1>0. \A S : Base!Cardinality(S) = Cardinality(S)
  BY DEF Base!Cardinality, Cardinality
<1>1. Base!Cardinality(Left) = m - 1
  <2>1. IsFiniteSet(1 .. m) /\ Cardinality(1 .. m) = m
    BY FS_Interval
  <2>2. Cardinality(Left) = m - 1
    BY <2>1, FS_RemoveElement
  <2> QED
    BY <1>0, <2>2
<1>2. ASSUME NEW n \in Left PROVE below(n) = IF n < k THEN n - 1 ELSE n - 2
  <2>0. below(n) = Cardinality({x \in Left : x < n})
    BY <1>0
  <2> HIDE DEF below
  <2>1. IsFiniteSet(1 .. n - 1) /\ Cardinality(1 .. n - 1) = n - 1
    BY FS_Interval
  <2>2. CASE n < k
    <3>1. {x \in Left : x < n} = 1 .. n - 1
      BY <2>2
    <3> QED
      BY <2>0, <2>1, <2>2, <3>1
  <2>3. CASE k < n
    <3>1. {x \in Left : x < n} = (1 .. n - 1) \ {k}
      BY <2>3
    <3>2. k \in 1 .. n - 1
      BY <2>3
    <3>3. Cardinality((1 .. n - 1) \ {k}) = n - 1 - 1
      <4> DEFINE S == 1 .. n - 1
      <4>1. IsFiniteSet(S) /\ Cardinality(S) = n - 1 /\ k \in S
        BY <2>1, <3>2
      <4> HIDE DEF S
      <4>2. Cardinality(S \ {k}) = Cardinality(S) - 1
        BY <4>1, FS_RemoveElement
      <4> QED
        BY <4>1, <4>2 DEF S
    <3>4. n - 1 - 1 = n - 2 /\ ~ (n < k)
      BY <2>3
    <3> QED
      BY <2>0, <3>1, <3>3, <3>4
  <2> QED
    BY <2>2, <2>3
<1>3. ASSUME NEW i \in 1 .. m - 1
      PROVE  PlaceIn(Left, i) = IF i < k THEN i ELSE i + 1
  <2> DEFINE f == IF i < k THEN i ELSE i + 1
  <2>0. PlaceIn(Left, i) = CHOOSE n \in Left : below(n) = i - 1
    BY DEF PlaceIn
  <2> HIDE DEF below
  <2>1. f \in Left /\ below(f) = i - 1
    <3>1. f \in Left
      OBVIOUS
    <3>2. below(f) = IF f < k THEN f - 1 ELSE f - 2
      BY <1>2, <3>1
    <3> QED
      BY <3>1, <3>2
  <2>2. \A n \in Left : below(n) = i - 1 => n = f
    BY <1>2
  <2> HIDE DEF f
  <2>3. PlaceIn(Left, i) = f
    BY <2>0, <2>1, <2>2
  <2> QED
    BY <2>3 DEF f
<1> QED
  BY <1>1, <1>3 DEF AllBut

\* It tells of one record no more.
OneLessTold(u) ==
    /\ Len(jdx') = Len(jdx) /\ u \in Live /\ Live' = Live \ {u}
    /\ \A r \in Live' : Told(r)' = Told(r)

LEMMA StepsOneOut ==
    ASSUME Bound, Shown, Shown', NEW u, OneLessTold(u)
    PROVE  Base!BaseNext
<1> DEFINE a == Area
           b == Area'
           told == Telling
           now == Telling'
           M == Base!Message
<1>1. Fewer(told, now, u)
  BY DEF Telling, OneLessTold, Fewer
<1>2. /\ Tagged(told) /\ Tagged(now) /\ Shows(a, Len(a), told) /\ Shows(b, Len(b), now)
      /\ a \in Seq(M) /\ b \in Seq(M)
  BY DEF Shown
<1>3. a = Area /\ b = Area'
  OBVIOUS
<1> HIDE DEF a, b, told, now, M
<1>4. Len(a) \in Nat /\ Len(b) \in Nat /\ DOMAIN a = 1 .. Len(a) /\ DOMAIN b = 1 .. Len(b)
  BY <1>2
<1>5. ClosesUp(a, b, Len(a), Len(b))
  BY <1>1, <1>2, <1>4, ShowsFewer
<1>6. PICK k \in 1 .. Len(a) : \A i \in 1 .. Len(b) : b[i] = a[IF i < k THEN i ELSE i + 1]
  BY <1>5 DEF ClosesUp
<1> DEFINE m == Len(a)
           Left == DOMAIN a \ {k}
<1>7. /\ Base!Cardinality(Left) = Len(b)
      /\ \A i \in 1 .. Len(b) : PlaceIn(Left, i) = IF i < k THEN i ELSE i + 1
  <2>0. m \in Nat /\ k \in 1 .. m /\ Left = (1 .. m) \ {k}
    BY <1>4
  <2>1. Len(b) = m - 1
    BY <1>5 DEF ClosesUp
  <2> HIDE DEF m, Left
  <2>2. AllBut(Left, m, k)
    BY <2>0, PlaceOfLeft
  <2> QED
    BY <2>1, <2>2 DEF AllBut
<1> HIDE DEF m, Left
<1>8. b = [i \in 1 .. Len(b) |-> a[PlaceIn(Left, i)]]
  <2>1. \A i \in 1 .. Len(b) : b[i] = a[PlaceIn(Left, i)]
    BY <1>6, <1>7
  <2>2. b = [i \in 1 .. Len(b) |-> b[i]]
    BY <1>2, <1>4
  <2> QED
    BY <2>1, <2>2
<1>9. b = [i \in 1 .. Base!Cardinality(Left) |-> a[PlaceIn(Left, i)]]
  BY <1>7, <1>8
<1>9a. Area' = [i \in 1 .. Base!Cardinality(DOMAIN Area \ {k}) |->
                   Area[PlaceIn(DOMAIN Area \ {k}, i)]]
  BY <1>9 DEF Left, a, b
<1>10. Base!RemoveSet({k})
  BY <1>9a DEF Base!RemoveSet, OneLessTold, PlaceIn
<1>11. {k} \in (SUBSET DOMAIN a) \ {{}}
  BY <1>4
<1> QED
  BY <1>3, <1>10, <1>11 DEF Base!BaseNext

\* --------------------------------------------------------------------------
\* What the area is

\* The reload lists every message, in the order of the records.
LEMMA ReloadInOrder ==
    ASSUME Bound PROVE InOrder(Reload, Live)
<1> DEFINE val == MessagesIn(jdx, jhr)
           S == {val[r] : r \in DOMAIN jdx}
           m == Len(jdx)
<1>1. jdx \in Seq(Nat) /\ DOMAIN jdx = 1 .. m /\ m \in Nat
  BY DiskNow, IndexTyped DEF Shape
<1>2. LiveIn(jdx, jhr) = Live
  BY DEF LiveIn, Live
<1>3. PICK up : Gathers(val, Live, m, up) /\ Reload = up[m]
  BY <1>1, <1>2, LoadGathers DEF Reload
<1>4. \A r \in Live : val[r] \in S /\ val[r].record = r
  BY DEF MessagesIn, Live
<1>5. Live \in SUBSET (1 .. m)
  BY <1>1 DEF Live
<1> HIDE DEF val, S, m
<1>6. InOrder(up[m], Live)
  BY <1>1, <1>3, <1>4, <1>5, GathersInOrder
<1> QED
  BY <1>3, <1>6

\* Only who has the lock is writing a message again.
LEMMA AgainIs ==
    ASSUME Bound, NEW r
    PROVE  /\ Again(r) <=> \E p \in Proc : Rewriting(p, r)
           /\ Again(r) => (CHOOSE p \in Proc : Rewriting(p, r)) = lock
<1>1. \A p \in Proc : Rewriting(p, r) => lock = p
  BY DEF Bound, Held, Rewriting, Writing, Making
<1> QED
  BY <1>1 DEF Again

\* A message that is not being written again is whole, and is read for what it
\* is; of one that is, its header is kept.
LEMMA WholeNow ==
    ASSUME Bound, Stands, Tells, Undisturbed, NEW r \in Live
    PROVE  /\ ~ Again(r) => Says(jdx[r], jhr[jdx[r]]) = jhr[jdx[r]].of
           /\ Again(r) => KeepsOf(job[lock])
<1>1. Shape
  BY DiskNow
<1>2. r \in DOMAIN jdx /\ jdx[r] \in DOMAIN jhr /\ ~ jhr[jdx[r]].gone /\ jdx[r] # 0
  BY <1>1, LiveOf DEF Shape
<1>3. jhr[jdx[r]] \in Header
  BY <1>1, <1>2 DEF Shape
<1>4. CASE scope.faults = 0
  <2>1. ~ Again(r) => Says(jdx[r], jhr[jdx[r]]) = jhr[jdx[r]].of
    BY <1>2, <1>3, <1>4, WholeReads DEF Tells, Sure
  <2>2. Again(r) => KeepsOf(job[lock])
    BY <1>4 DEF Tells, Again, Rewriting, Making
  <2> QED
    BY <2>1, <2>2
<1>5. CASE NoneAgain
  <2>1. ~ Again(r)
    BY <1>5 DEF Stands, Again, Rewriting
  <2>2. Standing(jdx[r], jhr[jdx[r]])
    BY <1>2, <1>5 DEF Stands, Known
  <2> QED
    BY <1>3, <2>1, <2>2, StandingReads
<1> QED
  BY <1>4, <1>5 DEF Undisturbed

LEMMA HeadingTyped ==
    ASSUME Bound, Stands, Tells, Undisturbed, NEW r \in Live
    PROVE  Heading(r) \in Header
<1>1. jhr[jdx[r]] \in Header
  BY DiskNow, LiveOf DEF Shape
<1>2. Again(r) => job[lock].was \in Header
  BY WholeNow DEF KeepsOf
<1> QED
  BY <1>1, <1>2 DEF Heading

LEMMA AreaIs ==
    ASSUME Bound, Stands, Tells, Undisturbed
    PROVE  /\ DOMAIN Area = DOMAIN Reload
           /\ Area = [n \in DOMAIN Reload |-> Area[n]]
           /\ \A n \in DOMAIN Reload : Area[n] = Told(Reload[n].record)
<1>1. DOMAIN Area = DOMAIN Reload /\ Area = [n \in DOMAIN Reload |-> Area[n]]
  BY DEF Area
<1>2. ASSUME NEW n \in DOMAIN Reload
      PROVE  Area[n] = Told(Reload[n].record)
  <2> DEFINE m == Reload[n]
             r == m.record
  <2>0. Area[n] = AsKnown(m)
    BY DEF Area
  <2>1. r \in Live
    BY ReloadInOrder DEF InOrder
  <2>2. jdx[r] = m.headerOffset /\ m.header = jhr[m.headerOffset]
    BY ReloadedOne
  <2>3. CASE Again(r)
    <3>1. /\ \E p \in Proc : Rewriting(p, r)
          /\ (CHOOSE p \in Proc : Rewriting(p, r)) = lock
      BY <2>3, AgainIs
    <3>2. AsKnown(m) = [uid |-> r, text |-> job[lock].was.of,
                        rcvd |-> job[lock].was.rcvd, seen |-> job[lock].was.seen]
      BY <3>1 DEF AsKnown
    <3> QED
      BY <2>0, <2>3, <3>2 DEF Told, Heading
  <2>4. CASE ~ Again(r)
    <3>1. ~ \E p \in Proc : Rewriting(p, r)
      BY <2>4, AgainIs
    <3>2. AsKnown(m) = [uid |-> r, text |-> Says(m.headerOffset, m.header),
                        rcvd |-> m.header.rcvd, seen |-> m.header.seen]
      BY <3>1 DEF AsKnown
    <3>3. Says(m.headerOffset, m.header) = m.header.of
      BY <2>1, <2>2, <2>4, WholeNow
    <3> QED
      BY <2>0, <2>2, <2>4, <3>2, <3>3 DEF Told, Heading
  <2> QED
    BY <2>3, <2>4
<1> QED
  BY <1>1, <1>2

LEMMA AreaShown ==
    ASSUME Bound, Stands, Tells, Undisturbed
    PROVE  Shown
<1> DEFINE a == Area
           told == Telling
           M == Base!Message
<1>1. Live \in SUBSET Nat
  BY DiskNow DEF Shape, Live
<1>2. Tagged(told) /\ DOMAIN told = Live
  BY <1>1 DEF Tagged, Telling, Told
<1>3. \A r \in Live : told[r] = Told(r) /\ Told(r).uid = r /\ Told(r) \in M
  <2> TAKE r \in Live
  <2>1. Heading(r) \in Header
    BY HeadingTyped
  <2>2. /\ Heading(r).of \in Text /\ Heading(r).rcvd \in BOOLEAN
        /\ Heading(r).seen \in BOOLEAN /\ r \in Nat
    BY <1>1, <2>1, HeaderFields
  <2> QED
    BY <2>2 DEF Told, Telling, Base!Message
<1>4. /\ DOMAIN a = DOMAIN Reload /\ a = [n \in DOMAIN Reload |-> a[n]]
      /\ \A n \in DOMAIN Reload : a[n] = Told(Reload[n].record)
  BY AreaIs
<1>5. /\ DOMAIN Reload = 1 .. Len(Reload) /\ Len(Reload) \in Nat
  BY Reloaded DEF Lists
<1>6. /\ \A i \in DOMAIN Reload : Reload[i].record \in Live
      /\ \A i, k \in DOMAIN Reload : i < k => Reload[i].record < Reload[k].record
      /\ \A r \in Live : \E i \in DOMAIN Reload : Reload[i].record = r
  BY ReloadInOrder DEF InOrder
<1> HIDE DEF a, told, M
<1>7. \A i \in DOMAIN Reload : a[i].uid = Reload[i].record /\ a[i] = told[a[i].uid] /\ a[i] \in M
  BY <1>3, <1>4, <1>6
<1>8. a \in Seq(M) /\ Len(a) = Len(Reload)
  <2>1. a = [n \in 1 .. Len(Reload) |-> a[n]] /\ \A n \in 1 .. Len(Reload) : a[n] \in M
    BY <1>4, <1>5, <1>7
  <2> QED
    BY <1>5, <2>1
<1>9. Shows(a, Len(a), told)
  BY <1>2, <1>4, <1>5, <1>6, <1>7, <1>8 DEF Shows
<1> QED
  BY <1>2, <1>8, <1>9 DEF Shown, a, told, M

\* --------------------------------------------------------------------------
\* What a step leaves of the fourth layer

\* A sure header, after a step.
SureAfter(h) ==
    /\ h.subs = h.of /\ h.len = TextLen[h.of] /\ h.at + h.len <= Len(jdt')
    /\ \A i \in h.at + 1 .. h.at + h.len : jdt'[i] = h.of

\* How a step of the process that has the lock, or takes it, is seen to keep it.
LEMMA TellsTo ==
    ASSUME NEW p \in Proc, lock' \in {p, NoProc}, scope' = scope,
           scope.faults = 0 =>
              /\ \A r \in Live' : Again(r)' \/ SureAfter(jhr'[jdx'[r]])
              /\ \A r, q \in Live' : r # q /\ ~ Again(r)' /\ ~ Again(q)' =>
                    Apart(jhr'[jdx'[r]], jhr'[jdx'[q]])
              /\ lock' = p /\ pc'[p] \in Making =>
                    /\ \A q \in Live' \ {job'[p].record} :
                          Apart(job'[p].head, jhr'[jdx'[q]])
                    /\ job'[p].kind = "replace" => KeepsOf(job'[p])
    PROVE  Tells'
<1>1. p # NoProc /\ NoProc \notin Proc
  BY JamMarkerAssumption
<1> SUFFICES ASSUME scope.faults = 0
             PROVE  /\ \A r \in Live' : Again(r)' \/ Sure(jhr[jdx[r]])'
                    /\ \A r, q \in Live' : r # q /\ ~ Again(r)' /\ ~ Again(q)' =>
                          Apart(jhr'[jdx'[r]], jhr'[jdx'[q]])
                    /\ \A q \in Proc : lock' = q /\ pc'[q] \in Making =>
                          /\ ClearOf(job[q])'
                          /\ job'[q].kind = "replace" => KeepsOf(job'[q])
  BY DEF Tells, Apart, KeepsOf
<1>2. \A r \in Live' : Again(r)' \/ Sure(jhr[jdx[r]])'
  BY DEF Sure, SureAfter, Whole
<1>3. \A q \in Proc : lock' = q /\ pc'[q] \in Making =>
          /\ ClearOf(job[q])'
          /\ job'[q].kind = "replace" => KeepsOf(job'[q])
  BY <1>1 DEF ClearOf, Apart
<1> QED
  BY <1>2, <1>3

LEMMA NotAgain ==
    ASSUME lock \in Proc => ~ (job[lock].kind = "replace" /\ pc[lock] \in Making)
    PROVE  \A r : ~ Again(r)
BY DEF Again, Rewriting, Making

LEMMA NotAgainAfter ==
    ASSUME lock' \in Proc => ~ (job'[lock'].kind = "replace" /\ pc'[lock'] \in Making)
    PROVE  \A r : ~ Again(r)'
BY DEF Again, Rewriting, Making

\* The same is told of a record whose header says the same.
LEMMA ToldSame ==
    ASSUME NEW r, ~ Again(r), ~ Again(r)',
           jhr'[jdx'[r]].of = jhr[jdx[r]].of, jhr'[jdx'[r]].seen = jhr[jdx[r]].seen,
           jhr'[jdx'[r]].rcvd = jhr[jdx[r]].rcvd
    PROVE  Told(r)' = Told(r)
BY DEF Told, Heading

\* Nothing that is told of is touched, nor who is writing.
LEMMA Untouched ==
    ASSUME Tells, jhr' = jhr, jdx' = jdx, jdt' = jdt, lock' = lock, scope' = scope,
           lock \in Proc => job'[lock] = job[lock] /\ pc'[lock] = pc[lock]
    PROVE  Tells' /\ SameTold
<1>1. Live' = Live
  BY DEF Live, IsLive
<1>2. \A r : Again(r)' <=> Again(r)
  BY DEF Again, Rewriting
<1>3. \A r : Told(r)' = Told(r)
  BY <1>2 DEF Told, Heading, Again
<1>4. \A h : Sure(h)' <=> (h.subs = h.of /\ Whole(h, Len(jdt)))
  BY DEF Sure, Whole
<1>5. \A r : Sure(jhr[jdx[r]])' <=> Sure(jhr[jdx[r]])
  BY DEF Sure, Whole
<1>6. \A p \in Proc : lock = p => (ClearOf(job[p])' <=> ClearOf(job[p]))
  BY <1>1 DEF ClearOf, Apart
<1>7. Tells'
  BY <1>1, <1>2, <1>5, <1>6 DEF Tells, Apart, KeepsOf
<1> QED
  BY <1>1, <1>3, <1>7 DEF SameTold

LEMMA QuietTells ==
    ASSUME Bound, Tells, NEW p \in Proc, NEW j, NEW there, NEW t, Quiet(p, j, there, t)
    PROVE  Tells' /\ SameTold
<1>1. /\ pc[p] \notin Writing /\ jhr' = jhr /\ jdx' = jdx /\ jdt' = jdt /\ lock' = lock
      /\ StepBy(p)
  BY DEF Quiet, disk
<1>2. lock # p
  BY <1>1 DEF Bound, Held
<1>3. lock \in Proc => job'[lock] = job[lock] /\ pc'[lock] = pc[lock]
  BY <1>1, <1>2 DEF StepBy
<1> QED
  BY <1>1, <1>3, Untouched DEF StepBy

\* --- a call begins

LEMMA ApartFrom ==
    ASSUME NEW h, NEW g, NEW k, h.at \in Nat, h.len \in Nat, g.at \in Nat, g.len \in Nat,
           k.at \in Nat, k.len \in Nat, Apart(h, g), k.at = h.at, k.len <= h.len
    PROVE  Apart(k, g)
BY DEF Apart

LEMMA ApartEnd ==
    ASSUME NEW k, NEW g, NEW n \in Nat, k.at = n, g.at \in Nat, g.len \in Nat, g.at + g.len <= n
    PROVE  Apart(k, g)
BY DEF Apart

LEMMA StartedTells ==
    ASSUME Bound, Tells, NEW p \in Proc, Started(p)
    PROVE  Tells' /\ SameTold
<1>1. PICK j \in Job, there \in {"text", "mark", "patch"} :
        /\ Begins(p, j, there)
        /\ WorkOf(j, there)
        /\ j.kind = "replace" => FromOld(j)
        /\ j.kind = "write" =>
              there = "text" /\ j.offset = Len(jhr) + 1 /\ j.head.at = Len(jdt)
  BY DEF Started
<1>2. /\ lock = NoProc /\ lock' = p /\ scope' = scope
      /\ jhr' = jhr /\ jdx' = jdx /\ jdt' = jdt
      /\ job'[p] = j /\ pc'[p] = there
  BY <1>1 DEF Begins, StepBy, disk
<1>3. \A r : ~ Again(r)
  BY <1>2, JamMarkerAssumption, NotAgain
<1>4. there \in Making => there = "text"
  BY DEF Making
<1>5. Shape /\ Live' = Live
  BY <1>2, DiskNow DEF Live, IsLive
<1>6. ASSUME NEW r, Again(r)'
      PROVE  j.kind = "replace" /\ there = "text" /\ r = j.record
  BY <1>2, <1>4, <1>6 DEF Again, Rewriting, Making
<1>7. ASSUME j.kind = "replace", there = "text"
      PROVE  /\ j.record \in Live /\ jdx[j.record] = j.old
             /\ j.was = jhr[j.old] /\ j.was \in Header /\ FromOld(j)
  <2>1. AgainOf(j)
    BY <1>1, <1>7 DEF WorkOf, Making
  <2>2. j.record \in DOMAIN jdx /\ jdx[j.record] = j.old /\ j.old \in DOMAIN jhr /\ ~ jhr[j.old].gone
    BY <2>1 DEF AgainOf
  <2>3. FromOld(j)
    BY <1>1, <1>7
  <2> QED
    BY <1>5, <2>2, <2>3 DEF FromOld, Live, IsLive, Shape
<1>8. \A r \in Live : Told(r)' = Told(r)
  <2> TAKE r \in Live
  <2>1. CASE Again(r)'
    <3>1. Heading(r)' = j.was /\ Heading(r) = jhr[jdx[r]]
      BY <1>2, <1>3, <2>1 DEF Heading
    <3>2. j.was = jhr[jdx[r]]
      BY <1>6, <1>7, <2>1
    <3> QED
      BY <3>1, <3>2 DEF Told
  <2>2. CASE ~ Again(r)'
    BY <1>2, <1>3, <2>2, ToldSame
  <2> QED
    BY <2>1, <2>2
<1>9. ASSUME scope.faults = 0
      PROVE  /\ \A r \in Live : Sure(jhr[jdx[r]])
             /\ \A r, q \in Live : r # q => Apart(jhr[jdx[r]], jhr[jdx[q]])
  BY <1>3, <1>9 DEF Tells
<1>10. ASSUME scope.faults = 0, there = "text"
       PROVE  /\ \A q \in Live \ {j.record} : Apart(j.head, jhr[jdx[q]])
              /\ j.kind = "replace" => KeepsOf(j)
  <2>1. /\ j.kind \in {"write", "replace"} /\ j.head \in Header
    BY <1>1, <1>10 DEF WorkOf, MakingOf, Making
  <2>2. ASSUME NEW q \in Live, q # j.record PROVE Apart(j.head, jhr[jdx[q]])
    <3> DEFINE g == jhr[jdx[q]]
    <3>1. g \in Header
      BY <1>5, LiveOf DEF Shape
    <3>2. /\ g.at \in Nat /\ g.len \in Nat /\ j.head.at \in Nat /\ j.head.len \in Nat
      BY <2>1, <3>1, HeaderFields
    <3>3. g.at + g.len <= Len(jdt) /\ Len(jdt) \in Nat
      BY <1>5, <1>9, <1>10 DEF Sure, Whole, Shape
    <3> HIDE DEF g
    <3>4. CASE j.head.at = Len(jdt)
      <4>1. Apart(j.head, g)
        BY <3>2, <3>3, <3>4, ApartEnd
      <4> QED
        BY <4>1 DEF g
    <3>5. CASE j.kind = "replace" /\ j.head.at = j.was.at /\ j.head.len <= j.was.len
      <4>1. j.record \in Live /\ j.was = jhr[jdx[j.record]] /\ j.was \in Header
        BY <1>7, <1>10, <3>5
      <4>2. Apart(j.was, g)
        BY <1>9, <1>10, <2>2, <4>1 DEF g
      <4>3. j.was.at \in Nat /\ j.was.len \in Nat
        BY <4>1, HeaderFields
      <4>4. Apart(j.head, g)
        BY <3>2, <3>5, <4>2, <4>3, ApartFrom
      <4> QED
        BY <4>4 DEF g
    <3> QED
      BY <1>1, <2>1, <3>4, <3>5 DEF FromOld, g
  <2>3. j.kind = "replace" => KeepsOf(j)
    BY <1>7, <1>10 DEF FromOld, KeepsOf
  <2> QED
    BY <2>2, <2>3
<1>11. Tells'
  <2>1. scope.faults = 0 =>
              /\ \A r \in Live' : Again(r)' \/ SureAfter(jhr'[jdx'[r]])
              /\ \A r, q \in Live' : r # q /\ ~ Again(r)' /\ ~ Again(q)' =>
                    Apart(jhr'[jdx'[r]], jhr'[jdx'[q]])
    BY <1>2, <1>5, <1>9 DEF Sure, SureAfter, Whole
  <2>2. scope.faults = 0 =>
              (lock' = p /\ pc'[p] \in Making =>
                    /\ \A q \in Live' \ {job'[p].record} :
                          Apart(job'[p].head, jhr'[jdx'[q]])
                    /\ job'[p].kind = "replace" => KeepsOf(job'[p]))
    BY <1>2, <1>4, <1>5, <1>10
  <2> QED
    BY <1>2, <2>1, <2>2, TellsTo
<1> QED
  BY <1>2, <1>5, <1>8, <1>11 DEF SameTold

\* --- a message is written

\* The record in the making is no message that can be seen as it stands.
LEMMA NotTheRecord ==
    ASSUME Bound, NEW p \in Proc, pc[p] \in Making
    PROVE  /\ lock = p
           /\ \A r : Again(r) <=> job[p].kind = "replace" /\ r = job[p].record
           /\ \A r \in Live : ~ Again(r) => r # job[p].record
<1>1. pc[p] \in Writing
  BY DEF Writing
<1>2. /\ lock = p /\ Shape /\ job[p].kind \in {"write", "replace"}
      /\ job[p].kind = "write" => job[p].record = Len(jdx) + 1
  BY <1>1, Working DEF WorkOf, MakingOf, AddingOf
<1>3. \A r : Again(r) <=> job[p].kind = "replace" /\ r = job[p].record
  BY <1>2 DEF Again, Rewriting, Making
<1>4. Len(jdx) + 1 \notin Live
  BY <1>2, LiveOf DEF Shape
<1> QED
  BY <1>2, <1>3, <1>4

\* A step of the message in the making, before its index record.
LEMMA MakingAgain ==
    ASSUME NEW p \in Proc, lock = p, lock' = p, pc[p] \in Making, pc'[p] \in Making,
           job'[p] = job[p]
    PROVE  \A r : (Again(r)' <=> Again(r)) /\ (Again(r) => Heading(r)' = Heading(r))
<1>1. \A r : Again(r)' <=> Again(r)
  BY DEF Again, Rewriting, Making
<1> QED
  BY <1>1 DEF Heading

\* A text that nothing is written into is as whole as it was.
LEMMA SureStays ==
    ASSUME NEW h, Sure(h), Len(jdt) \in Nat, Len(jdt') \in Nat, Len(jdt) <= Len(jdt'),
           h.at \in Nat, h.len \in Nat,
           \A i \in h.at + 1 .. h.at + h.len : jdt'[i] = jdt[i]
    PROVE  SureAfter(h)
BY DEF Sure, Whole, SureAfter

LEMMA PutTextTells ==
    ASSUME Bound, Tells, scope' = scope, NEW p \in Proc, PutText(p)
    PROVE  Tells' /\ SameTold
<1> DEFINE j == job[p]
<1>1. /\ GoesOn(p, "head") /\ pc[p] = "text"
      /\ UNCHANGED <<jhr, jdx, active>>
      /\ PutsText(job[p].head.at, job[p].head.of) /\ jdt' \in Seq(Text)
  BY PutTextEffect
<1>2. lock = p /\ lock' = p /\ pc'[p] = "head" /\ job'[p] = job[p]
  BY <1>1 DEF GoesOn
<1>3. pc[p] \in Writing /\ pc[p] \in Making /\ pc'[p] \in Making
  BY <1>1, <1>2 DEF Writing, Making
<1>4. MakingOf(j, pc[p]) /\ Shape
  BY <1>3, Working DEF WorkOf
<1>5. \A r : (Again(r)' <=> Again(r)) /\ (Again(r) => Heading(r)' = Heading(r))
  BY <1>2, <1>3, MakingAgain
<1>6. Live' = Live
  BY <1>1 DEF Live, IsLive
<1>7. \A r \in Live : Told(r)' = Told(r)
  BY <1>1, <1>5 DEF Told, Heading
<1>8. \A r \in Live : ~ Again(r) => r # j.record
  BY <1>3, NotTheRecord
<1>9. ASSUME scope.faults = 0
      PROVE  \A r \in Live : Again(r) \/ SureAfter(jhr[jdx[r]])
  <2> SUFFICES ASSUME NEW r \in Live, ~ Again(r) PROVE SureAfter(jhr[jdx[r]])
    OBVIOUS
  <2> DEFINE h == jhr[jdx[r]]
             at == j.head.at
             end == j.head.at + TextLen[j.head.of]
  <2>1. ClearOf(j) /\ Sure(h)
    BY <1>2, <1>3, <1>9 DEF Tells
  <2>2. r \in Live \ {j.record}
    BY <1>8
  <2>3. Apart(j.head, h)
    BY <2>1, <2>2 DEF ClearOf
  <2>4. h \in Header /\ j.head \in Header /\ j.head.len = TextLen[j.head.of]
    BY <1>4, LiveOf DEF Shape, MakingOf
  <2>5. h.at \in Nat /\ h.len \in Nat /\ j.head.at \in Nat /\ j.head.len \in Nat
    BY <2>4, HeaderFields
  <2>6. Len(jdt) \in Nat /\ DOMAIN jdt = 1 .. Len(jdt) /\ Len(jdt') \in Nat
    BY <1>1, <1>4 DEF Shape
  <2>7. /\ Len(jdt) <= Len(jdt')
        /\ \A i \in 1 .. at : jdt'[i] = jdt[i]
        /\ \A i \in DOMAIN jdt : i > end => jdt'[i] = jdt[i]
    BY <1>1 DEF PutsText
  <2>8. h.at + h.len <= Len(jdt)
    BY <2>1 DEF Sure, Whole
  <2>9. at + j.head.len = end
    BY <2>4
  <2>10. end <= h.at \/ h.at + h.len <= at
    BY <2>3, <2>9 DEF Apart
  <2>11. at \in Nat /\ end \in Nat
    BY <2>5, <2>9
  <2> HIDE DEF h, at, end
  <2>12. \A i \in h.at + 1 .. h.at + h.len : jdt'[i] = jdt[i]
    <3> TAKE i \in h.at + 1 .. h.at + h.len
    <3>1. i \in DOMAIN jdt
      BY <2>5, <2>6, <2>8
    <3>2. CASE end <= h.at
      BY <2>5, <2>7, <2>11, <3>1, <3>2
    <3>3. CASE h.at + h.len <= at
      <4>1. i \in 1 .. at
        BY <2>5, <2>11, <3>3
      <4> QED
        BY <2>7, <4>1
    <3> QED
      BY <2>10, <3>2, <3>3
  <2>13. SureAfter(h)
    BY <2>1, <2>5, <2>6, <2>7, <2>12, SureStays
  <2> QED
    BY <2>13 DEF h
<1>10. scope.faults = 0 =>
          /\ \A r \in Live' : Again(r)' \/ SureAfter(jhr'[jdx'[r]])
          /\ \A r, q \in Live' : r # q /\ ~ Again(r)' /\ ~ Again(q)' =>
                Apart(jhr'[jdx'[r]], jhr'[jdx'[q]])
  BY <1>1, <1>5, <1>6, <1>9 DEF Tells
<1>11. scope.faults = 0 =>
          /\ \A q \in Live' \ {job'[p].record} :
                Apart(job'[p].head, jhr'[jdx'[q]])
          /\ job'[p].kind = "replace" => KeepsOf(job'[p])
  BY <1>1, <1>2, <1>3, <1>6 DEF Tells, ClearOf
<1>12. Tells'
  BY <1>2, <1>10, <1>11, TellsTo
<1> QED
  BY <1>1, <1>6, <1>7, <1>12 DEF SameTold

LEMMA PutsHeaderTells ==
    ASSUME Bound, Tells, scope' = scope, NEW p \in Proc, NEW header, NEW there,
           \/ pc[p] = "head" /\ there = "subs"
           \/ pc[p] = "subs" /\ there = "index",
           PutsHeader(p, header, there)
    PROVE  Tells' /\ SameTold
<1> DEFINE j == job[p]
<1>1. /\ GoesOn(p, there) /\ jdx' = jdx /\ jdt' = jdt
      /\ \A i \in DOMAIN jhr : i # j.offset => jhr'[i] = jhr[i]
  BY DEF PutsHeader, PutAt
<1>2. lock = p /\ lock' = p /\ pc'[p] = there /\ job'[p] = job[p]
  BY <1>1 DEF GoesOn
<1>3. pc[p] \in Making /\ pc'[p] \in Making
  BY <1>2 DEF Making
<1>4. Live' = Live /\ \A r \in DOMAIN jdx : jdx[r] = j.offset => r = j.record
  BY PutsHeaderLive
<1>5. \A r : (Again(r)' <=> Again(r)) /\ (Again(r) => Heading(r)' = Heading(r))
  BY <1>2, <1>3, MakingAgain
<1>6. \A r \in Live : ~ Again(r) => r # j.record
  BY <1>3, NotTheRecord
<1>7. \A r \in Live : r # j.record => jhr'[jdx'[r]] = jhr[jdx[r]]
  BY <1>1, <1>4, DiskNow, LiveOf
<1>8. \A r \in Live : Told(r)' = Told(r)
  <2> TAKE r \in Live
  <2>1. Heading(r)' = Heading(r)
    BY <1>5, <1>6, <1>7 DEF Heading
  <2> QED
    BY <2>1 DEF Told
<1>9. ASSUME scope.faults = 0
      PROVE  \A r \in Live : Again(r) \/ SureAfter(jhr'[jdx'[r]])
  BY <1>1, <1>6, <1>7, <1>9 DEF Tells, Sure, SureAfter, Whole
<1>10. scope.faults = 0 =>
          /\ \A r \in Live' : Again(r)' \/ SureAfter(jhr'[jdx'[r]])
          /\ \A r, q \in Live' : r # q /\ ~ Again(r)' /\ ~ Again(q)' =>
                Apart(jhr'[jdx'[r]], jhr'[jdx'[q]])
  BY <1>4, <1>5, <1>6, <1>7, <1>9 DEF Tells
<1>11. scope.faults = 0 =>
          /\ \A q \in Live' \ {job'[p].record} :
                Apart(job'[p].head, jhr'[jdx'[q]])
          /\ job'[p].kind = "replace" => KeepsOf(job'[p])
  BY <1>2, <1>3, <1>4, <1>7 DEF Tells, ClearOf
<1>12. Tells'
  BY <1>2, <1>10, <1>11, TellsTo
<1> QED
  BY <1>1, <1>4, <1>8, <1>12 DEF SameTold

\* Only a set of drafts goes on to the next text.
LEMMA IndexEnds ==
    ASSUME Bound, NEW p \in Proc, pc[p] = "index", PutsIndex(p)
    PROVE  /\ pc'[p] = "text" => job[p].kind = "write"
           /\ \A r : ~ Again(r)'
<1> DEFINE j == job[p]
<1>1. pc[p] \in Writing /\ pc[p] \in Making
  BY DEF Writing, Making
<1>2. MakingOf(j, "index") /\ (j.kind = "replace" => AgainOf(j)) /\ j \in Job
  BY <1>1, Working DEF WorkOf
<1>3. lock' = p
  BY DEF PutsIndex
<1>4. job'[p].kind = j.kind /\ pc'[p] \in {"text", "oldhead", "info"}
  BY NextFields
<1>5. pc'[p] = "text" => j.kind = "write"
  <2>1. j.kind = "replace" => Tail(j.drafts) = <<>>
    <3>1. Tail(j.drafts) \in Seq(Text) /\ Len(Tail(j.drafts)) = Len(j.drafts) - 1
      BY <1>2, WrittenFields DEF MakingOf
    <3>2. j.kind = "replace" => Len(Tail(j.drafts)) = 0
      BY <1>2, <3>1 DEF AgainOf
    <3> DEFINE rest == Tail(j.drafts)
    <3> HIDE DEF rest
    <3>3. rest \in Seq(Text) /\ Len(rest) = 0 => rest = <<>>
      OBVIOUS
    <3> QED
      BY <3>1, <3>2, <3>3 DEF rest
  <2>2. pc'[p] = "text" => Tail(j.drafts) # <<>>
    BY DEF PutsIndex
  <2> QED
    BY <1>2, <2>1, <2>2 DEF MakingOf
<1> QED
  BY <1>3, <1>4, <1>5, NotAgainAfter DEF Making

\* The index record is written, and the message in the making is one like all
\* others.
LEMMA PutsIndexTells ==
    ASSUME Bound, Tells, scope' = scope, NEW p \in Proc, pc[p] = "index", PutsIndex(p)
    PROVE  Tells'
<1> DEFINE j == job[p]
           g == jhr[j.offset]
<1>1. pc[p] \in Writing /\ pc[p] \in Making
  BY DEF Writing, Making
<1>2. /\ lock = p /\ Shape /\ MakingOf(j, "index")
      /\ (j.kind = "replace" => AgainOf(j)) /\ j \in Job
  BY <1>1, Working DEF WorkOf
<1>3. lock' = p /\ jhr' = jhr /\ jdt' = jdt
  BY DEF PutsIndex
<1>4. \A r \in DOMAIN jdx' : jdx'[r] = IF r = j.record THEN j.offset ELSE jdx[r]
  BY IndexPut
<1>5. /\ job'[p].kind = j.kind
      /\ pc'[p] = "text" => job'[p].offset = Len(jhr) + 1 /\ job'[p].head.at = Len(jdt)
      /\ pc'[p] \in {"text", "oldhead", "info"}
  BY NextFields
<1>6. pc'[p] = "text" => j.kind = "write"
  BY IndexEnds
<1>7. \A r : ~ Again(r)'
  BY IndexEnds
<1>8. \A r : Again(r) => r = j.record
  BY <1>1, NotTheRecord
<1>9. Live' = Live \cup {j.record} /\ Live' \subseteq DOMAIN jdx'
  BY PutsIndexLive DEF Live
<1>10. /\ g.subs = g.of /\ g.at = j.head.at /\ g.len = j.head.len /\ g.of = j.head.of
       /\ Whole(j.head, Len(jdt)) /\ g \in Header
  <2>1. /\ g = [j.head EXCEPT !.subs = j.head.of] /\ j.head \in Header
        /\ Whole(j.head, Len(jdt)) /\ j.offset \in DOMAIN jhr
    BY <1>2 DEF MakingOf
  <2>2. j.head = [of |-> j.head.of, subs |-> j.head.subs, seen |-> j.head.seen,
                  rcvd |-> j.head.rcvd, gone |-> j.head.gone, at |-> j.head.at,
                  len |-> j.head.len]
    BY <2>1 DEF Header
  <2> QED
    BY <1>2, <2>1, <2>2 DEF Shape
<1>11. Sure(g)
  BY <1>10 DEF Sure, Whole
<1>12. \A q \in Live' : q # j.record => q \in Live /\ jdx'[q] = jdx[q]
  BY <1>4, <1>9
<1>13. jdx'[j.record] = j.offset
  BY <1>4, <1>9
<1>14. ASSUME scope.faults = 0
       PROVE  /\ \A q \in Live' : Sure(jhr[jdx'[q]])
              /\ \A r, q \in Live' : r # q => Apart(jhr[jdx'[r]], jhr[jdx'[q]])
  <2>1. /\ \A q \in Live : Again(q) \/ Sure(jhr[jdx[q]])
        /\ \A r, q \in Live : r # q /\ ~ Again(r) /\ ~ Again(q) =>
              Apart(jhr[jdx[r]], jhr[jdx[q]])
        /\ ClearOf(j)
    BY <1>1, <1>2, <1>14 DEF Tells
  <2>2. \A q \in Live' : Sure(jhr[jdx'[q]])
    BY <1>8, <1>11, <1>12, <1>13, <2>1
  <2>3. \A q \in Live' : q # j.record => Apart(g, jhr[jdx'[q]])
    <3>1. \A q \in Live \ {j.record} : Apart(j.head, jhr[jdx[q]])
      BY <2>1 DEF ClearOf
    <3> QED
      BY <1>10, <1>12, <3>1 DEF Apart
  <2>4. ASSUME NEW r \in Live', NEW q \in Live', r # q
        PROVE  Apart(jhr[jdx'[r]], jhr[jdx'[q]])
    <3>1. CASE r = j.record
      BY <1>13, <2>3, <2>4, <3>1
    <3>2. CASE q = j.record
      <4>1. Apart(g, jhr[jdx'[r]])
        BY <2>3, <2>4, <3>2
      <4> QED
        BY <1>13, <3>2, <4>1 DEF Apart
    <3>3. CASE r # j.record /\ q # j.record
      BY <1>8, <1>12, <2>1, <2>4, <3>3
    <3> QED
      BY <3>1, <3>2, <3>3
  <2> QED
    BY <2>2, <2>4
<1>15. ASSUME scope.faults = 0, pc'[p] = "text"
       PROVE  \A q \in Live' : Apart(job'[p].head, jhr[jdx'[q]])
  <2> TAKE q \in Live'
  <2> DEFINE h == jhr[jdx'[q]]
             k == job'[p].head
  <2>1. Sure(h)
    BY <1>14, <1>15
  <2>2. h.at + h.len <= Len(jdt) /\ Len(jdt) \in Nat
    BY <1>2, <2>1 DEF Sure, Whole, Shape
  <2>3. h \in Header
    BY <1>2, <1>10, <1>12, <1>13, LiveOf DEF Shape
  <2>4. h.at \in Nat /\ h.len \in Nat
    BY <2>3, HeaderFields
  <2>5. k.at = Len(jdt)
    BY <1>5, <1>15
  <2> HIDE DEF h, k
  <2>6. Apart(k, h)
    BY <2>2, <2>4, <2>5, ApartEnd
  <2> QED
    BY <2>6 DEF h, k
<1>16. scope.faults = 0 =>
          /\ \A r \in Live' : Again(r)' \/ SureAfter(jhr'[jdx'[r]])
          /\ \A r, q \in Live' : r # q /\ ~ Again(r)' /\ ~ Again(q)' =>
                Apart(jhr'[jdx'[r]], jhr'[jdx'[q]])
  BY <1>3, <1>14 DEF Sure, SureAfter, Whole
<1>17. scope.faults = 0 => (lock' = p /\ pc'[p] \in Making =>
          /\ \A q \in Live' \ {job'[p].record} :
                Apart(job'[p].head, jhr'[jdx'[q]])
          /\ job'[p].kind = "replace" => KeepsOf(job'[p]))
  BY <1>3, <1>5, <1>6, <1>15 DEF Making
<1> QED
  BY <1>3, <1>16, <1>17, TellsTo

WrittenAgain == \E u \in Live : OtherTold(u) /\ Told(u)'.seen = Told(u).seen

\* A message is added; or one that is there reads differently, and keeps its
\* seen mark.
LEMMA PutsIndexTold ==
    ASSUME Bound, Stands, Tells, Undisturbed, scope' = scope, NEW p \in Proc,
           pc[p] = "index", PutsIndex(p)
    PROVE  OneMoreTold \/ WrittenAgain
<1> DEFINE j == job[p]
           g == jhr[j.offset]
<1>1. pc[p] \in Writing /\ pc[p] \in Making
  BY DEF Writing, Making
<1>2. /\ lock = p /\ Shape /\ MakingOf(j, "index") /\ j \in Job
      /\ (j.kind = "write" => AddingOf(j)) /\ (j.kind = "replace" => AgainOf(j))
  BY <1>1, Working DEF WorkOf
<1>3. lock' = p /\ jhr' = jhr /\ jdt' = jdt
  BY DEF PutsIndex
<1>4. /\ \A r \in DOMAIN jdx' : jdx'[r] = IF r = j.record THEN j.offset ELSE jdx[r]
      /\ DOMAIN jdx' = DOMAIN jdx \cup {j.record}
      /\ j.kind = "write" => Len(jdx') = Len(jdx) + 1
      /\ j.kind = "replace" => j.record \in DOMAIN jdx
  BY IndexPut
<1>7. \A r : ~ Again(r)'
  BY IndexEnds
<1>8. \A r : Again(r) <=> j.kind = "replace" /\ r = j.record
  BY <1>1, NotTheRecord
<1>9. /\ Live' = Live \cup {j.record}
      /\ j.kind = "write" => j.record \notin Live
      /\ j.kind = "replace" => j.record \in Live
  BY PutsIndexLive
<1>10. \A r \in Live : r # j.record => Told(r)' = Told(r)
  <2> TAKE r \in Live
  <2> HAVE r # j.record
  <2>1. r \in DOMAIN jdx'
    BY <1>4 DEF Live
  <2> QED
    BY <1>3, <1>4, <1>7, <1>8, <2>1, ToldSame
<1>11. CASE j.kind = "write"
  <2>1. j.record = Len(jdx) + 1
    BY <1>2, <1>11 DEF AddingOf
  <2> QED
    BY <1>4, <1>9, <1>10, <1>11, <2>1 DEF OneMoreTold
<1>12. CASE j.kind = "replace"
  <2>1. j.record \in Live /\ Live' = Live
    BY <1>9, <1>12
  <2>2. Len(jdx') = Len(jdx)
    <3>1. Len(jdx') = IF j.record <= Len(jdx) THEN Len(jdx) ELSE j.record
      BY DEF PutsIndex, PutAt
    <3> QED
      BY <1>2, <1>4, <1>12, <3>1 DEF Shape
  <2>3. PICK u \in Live : u = j.record
    BY <2>1
  <2>4. Again(u) /\ KeepsOf(j)
    BY <1>2, <1>8, <1>12, <2>3, WholeNow
  <2>5. Told(u).seen = j.was.seen
    BY <1>2, <2>4 DEF Told, Heading
  <2>6. g = [j.head EXCEPT !.subs = j.head.of] /\ j.head \in Header
    BY <1>2 DEF MakingOf
  <2>7. g.seen = j.head.seen
    BY <2>6 DEF Header
  <2>8. jdx'[u] = j.offset
    BY <1>4, <2>3
  <2>9. Told(u)'.seen = g.seen
    BY <1>3, <1>7, <2>8 DEF Told, Heading
  <2>10. Told(u)'.seen = Told(u).seen
    BY <2>4, <2>5, <2>7, <2>9 DEF KeepsOf
  <2>11. OtherTold(u)
    BY <1>10, <2>1, <2>2, <2>3 DEF OtherTold
  <2> QED
    BY <2>10, <2>11 DEF WrittenAgain
<1> QED
  BY <1>2, <1>11, <1>12 DEF MakingOf

\* --- all other writes

\* The step ends with nobody writing a message.
Settled(p) == lock = p /\ lock' \in {p, NoProc} /\ pc[p] \notin Making
                 /\ (lock' = p => pc'[p] \notin Making)

LEMMA SettledAgain ==
    ASSUME NEW p \in Proc, Settled(p)
    PROVE  \A r : ~ Again(r) /\ ~ Again(r)'
<1>1. lock \in Proc => ~ (job[lock].kind = "replace" /\ pc[lock] \in Making)
  BY DEF Settled
<1>2. lock' \in Proc => ~ (job'[lock'].kind = "replace" /\ pc'[lock'] \in Making)
  BY JamMarkerAssumption DEF Settled
<1> QED
  BY <1>1, <1>2, NotAgain, NotAgainAfter

\* A header leads where another does.
Leads(h, g) == h.of = g.of /\ h.subs = g.subs /\ h.at = g.at /\ h.len = g.len

LEMMA SettledTells ==
    ASSUME Tells, scope' = scope, NEW p \in Proc, Settled(p), jdt' = jdt,
           Live' \subseteq Live, \A r \in Live' : Leads(jhr'[jdx'[r]], jhr[jdx[r]])
    PROVE  Tells'
<1>1. \A r : ~ Again(r) /\ ~ Again(r)'
  BY SettledAgain
<1>2. ASSUME scope.faults = 0
      PROVE  /\ \A r \in Live' : SureAfter(jhr'[jdx'[r]])
             /\ \A r, q \in Live' : r # q => Apart(jhr'[jdx'[r]], jhr'[jdx'[q]])
  <2>1. /\ \A r \in Live' : Sure(jhr[jdx[r]])
        /\ \A r, q \in Live' : r # q => Apart(jhr[jdx[r]], jhr[jdx[q]])
    BY <1>1, <1>2 DEF Tells
  <2>2. \A r \in Live' : SureAfter(jhr'[jdx'[r]])
    <3> TAKE r \in Live'
    <3> DEFINE h == jhr[jdx[r]]
               g == jhr'[jdx'[r]]
    <3>1. Sure(h) /\ Leads(g, h)
      BY <2>1
    <3> HIDE DEF h, g
    <3>2. SureAfter(g)
      BY <3>1 DEF Leads, Sure, Whole, SureAfter
    <3> QED
      BY <3>2 DEF g
  <2>3. \A r, q \in Live' : r # q => Apart(jhr'[jdx'[r]], jhr'[jdx'[q]])
    BY <2>1 DEF Apart, Leads
  <2> QED
    BY <2>2, <2>3
<1>3. lock' \in {p, NoProc} /\ ~ (lock' = p /\ pc'[p] \in Making)
  BY DEF Settled
<1> QED
  BY <1>2, <1>3, TellsTo

LEMMA SettledSame ==
    ASSUME Tells, scope' = scope, NEW p \in Proc, Settled(p), jdt' = jdt,
           Live' = Live, Len(jdx') = Len(jdx),
           \A r \in Live : jhr'[jdx'[r]] = jhr[jdx[r]]
    PROVE  Tells' /\ SameTold
<1>1. \A r \in Live : Told(r)' = Told(r)
  BY SettledAgain, ToldSame
<1>2. Tells'
  BY SettledTells DEF Leads
<1> QED
  BY <1>1, <1>2 DEF SameTold

LEMMA MarkOldHeaderTells ==
    ASSUME Bound, Tells, scope' = scope, NEW p \in Proc, MarkOldHeader(p)
    PROVE  Tells' /\ SameTold
<1>1. /\ pc[p] = "oldhead" /\ OldHeadOf(job[p])
      /\ GoesOn(p, "info") /\ MarksGone(job[p].old)
  BY MarkOldHeaderEffect
<1>2. Settled(p)
  BY <1>1 DEF GoesOn, Settled, Making
<1>3. \A r \in DOMAIN jdx : IsLive(jdx, jhr, r)' <=> IsLive(jdx, jhr, r)
  BY <1>1 DEF IsLive, MarksGone, OldHeadOf
<1>4. Live' = Live /\ jdx' = jdx /\ jdt' = jdt
  BY <1>1, <1>3 DEF Live, MarksGone
<1>5. \A r \in Live : jhr'[jdx'[r]] = jhr[jdx[r]]
  BY <1>1, <1>4, DiskNow, LiveOf DEF MarksGone, OldHeadOf
<1> QED
  BY <1>2, <1>4, <1>5, SettledSame

TakenOut == \E u \in Live : OneLessTold(u)

LEMMA MarkRemovedTells ==
    ASSUME Bound, Tells, scope' = scope, NEW p \in Proc, MarkRemoved(p)
    PROVE  Tells' /\ (SameTold \/ TakenOut)
<1> DEFINE t == NextTarget(p)
<1>1. /\ pc[p] = "mark" /\ t \in DOMAIN jdx /\ jdx[t] \in DOMAIN jhr
      /\ GoesOn(p, "blank") /\ MarksGone(jdx[t])
  BY MarkRemovedEffect
<1>2. Settled(p)
  BY <1>1 DEF GoesOn, Settled, Making
<1>3. Live' = Live \ {t} /\ jdx' = jdx /\ jdt' = jdt
  BY <1>1, MarkRemovedLive DEF MarksGone
<1>4. \A r \in Live' : jhr'[jdx'[r]] = jhr[jdx[r]]
  <2> TAKE r \in Live'
  <2>1. r \in Live /\ r # t
    BY <1>3
  <2>2. r \in DOMAIN jdx /\ jdx[r] \in DOMAIN jhr /\ jdx[r] # 0
    BY <2>1, DiskNow, LiveOf DEF Shape
  <2>3. jdx[r] # jdx[t]
    BY <1>1, <2>1, <2>2 DEF Bound, Refs
  <2> QED
    BY <1>1, <1>3, <2>2, <2>3 DEF MarksGone
<1>5. Tells'
  BY <1>2, <1>3, <1>4, SettledTells DEF Leads
<1>6. \A r \in Live' : Told(r)' = Told(r)
  BY <1>2, <1>4, SettledAgain, ToldSame
<1>7. CASE t \in Live
  <2>1. PICK u \in Live : u = t
    BY <1>7
  <2>2. OneLessTold(u)
    BY <1>3, <1>6, <2>1 DEF OneLessTold
  <2> QED
    BY <1>5, <2>2 DEF TakenOut
<1>8. CASE t \notin Live
  BY <1>3, <1>5, <1>6, <1>8 DEF SameTold
<1> QED
  BY <1>7, <1>8

LEMMA BlanksTells ==
    ASSUME Bound, Tells, scope' = scope, NEW p \in Proc, BlankRecord(p)
    PROVE  Tells' /\ SameTold
<1> DEFINE t == NextTarget(p)
<1>1. pc[p] = "blank" /\ Blanks(p)
  BY BlankRecordEffect
<1>2. /\ lock = p /\ lock' = p /\ pc'[p] \in {"info", "mark"}
      /\ jhr' = jhr /\ jdt' = jdt
      /\ Len(jdx') = Len(jdx) /\ jdx'[t] = 0
      /\ \A r \in DOMAIN jdx : r # t => jdx'[r] = jdx[r]
  BY <1>1 DEF Blanks, Changed
<1>3. Settled(p)
  BY <1>1, <1>2 DEF Settled, Making
<1>4. Live' = Live
  BY BlanksLive
<1>5. \A r \in Live : jhr'[jdx'[r]] = jhr[jdx[r]]
  <2> TAKE r \in Live
  <2>1. r # t
    <3>1. r \in Live'
      BY <1>4
    <3>2. jdx'[r] \in DOMAIN jhr
      BY <1>2, <3>1 DEF Live, IsLive
    <3> QED
      BY <1>2, <3>2, DiskNow DEF Shape
  <2> QED
    BY <1>2, <2>1 DEF Live
<1> QED
  BY <1>2, <1>3, <1>4, <1>5, SettledSame

MarkedOnce ==
    \E u \in Live :
        /\ OtherTold(u) /\ Told(u)'.text = Told(u).text
        /\ \/ Told(u)'.seen = TRUE /\ Told(u)'.rcvd = Told(u).rcvd
           \/ Told(u)'.rcvd = TRUE /\ Told(u)'.seen = Told(u).seen

LEMMA PatchTells ==
    ASSUME Bound, Tells, scope' = scope, NEW p \in Proc, Patch(p)
    PROVE  Tells' /\ MarkedOnce
<1> DEFINE o == job[p].old
<1>1. pc[p] = "patch" /\ PatchOf(job[p]) /\ Patches(p)
  BY PatchEffect
<1>2. /\ Settled(p) /\ jdx' = jdx /\ jdt' = jdt
      /\ DOMAIN jhr' = DOMAIN jhr
      /\ \A h \in DOMAIN jhr : h # o => jhr'[h] = jhr[h]
      /\ Leads(jhr'[o], jhr[o]) /\ jhr'[o].gone = jhr[o].gone
      /\ \/ jhr'[o].seen = TRUE /\ jhr'[o].rcvd = jhr[o].rcvd
         \/ jhr'[o].rcvd = TRUE /\ jhr'[o].seen = jhr[o].seen
  BY <1>1 DEF Patches, Returns, Settled, Making, Leads
<1>3. Live' = Live
  BY <1>2 DEF Live, IsLive
<1>4. \A r \in Live : Leads(jhr'[jdx'[r]], jhr[jdx[r]])
  BY <1>2, DiskNow, LiveOf DEF Leads
<1>5. Tells'
  BY <1>2, <1>3, <1>4, SettledTells
<1>6. PICK u \in Live : u = job[p].record /\ jdx[u] = o /\ o \in DOMAIN jhr
  BY <1>1, DiskNow, LiveOf DEF PatchOf
<1>7. \A r \in Live : r # u => jhr'[jdx'[r]] = jhr[jdx[r]]
  <2> TAKE r \in Live
  <2> HAVE r # u
  <2>1. r \in DOMAIN jdx /\ u \in DOMAIN jdx /\ jdx[r] \in DOMAIN jhr /\ jdx[r] # 0
    BY DiskNow, LiveOf DEF Shape
  <2>2. jdx[r] # o
    BY <1>6, <2>1 DEF Bound, Refs
  <2> QED
    BY <1>2, <2>1, <2>2
<1>8. \A r : ~ Again(r) /\ ~ Again(r)'
  BY <1>2, SettledAgain
<1>9. OtherTold(u)
  BY <1>2, <1>3, <1>7, <1>8, ToldSame DEF OtherTold
<1>10. /\ Told(u)'.text = jhr'[o].of /\ Told(u).text = jhr[o].of
       /\ Told(u)'.seen = jhr'[o].seen /\ Told(u).seen = jhr[o].seen
       /\ Told(u)'.rcvd = jhr'[o].rcvd /\ Told(u).rcvd = jhr[o].rcvd
  BY <1>2, <1>6, <1>8 DEF Told, Heading
<1>11. MarkedOnce
  BY <1>2, <1>9, <1>10 DEF MarkedOnce, Leads
<1> QED
  BY <1>5, <1>11

LEMMA PutInfoTells ==
    ASSUME Bound, Tells, scope' = scope, NEW p \in Proc, PutInfo(p)
    PROVE  Tells' /\ SameTold
<1>1. pc[p] = "info" /\ PutsInfo(p)
  BY PutInfoEffect
<1>2. Settled(p) /\ jhr' = jhr /\ jdx' = jdx /\ jdt' = jdt
  BY <1>1 DEF PutsInfo, Returns, Settled, Making
<1>3. Live' = Live
  BY <1>2 DEF Live, IsLive
<1> QED
  BY <1>2, <1>3, SettledSame

\* --- a write is refused, or the process dies

\* Nothing is promised of texts where something fails.
LEMMA FaultyTells ==
    ASSUME Bound, NEW p \in Proc, StepBy(p), faults' > 0
    PROVE  Tells'
<1>1. scope.faults \in Nat /\ faults' \in 0 .. scope.faults /\ scope' = scope
  BY ScopeBounds DEF Bound, StepBy
<1>2. scope.faults # 0
  BY <1>1
<1> QED
  BY <1>1, <1>2 DEF Tells

\* The fault takes nothing that can be seen, as no message is written again.
LEMMA FaultySame ==
    ASSUME Bound, Stands, Stands', NoneAgain, NEW p \in Proc, StepBy(p), lock = p,
           lock' \in {p, NoProc}, Len(jdx') = Len(jdx), Live' = Live,
           \A r \in Live : jhr'[jdx'[r]] = jhr[jdx[r]]
    PROVE  SameTold
<1>1. NoneAgain'
  BY DEF NoneAgain, StepBy
<1>2. \A q \in Proc : job[q].kind # "replace" /\ job'[q].kind # "replace"
  BY <1>1 DEF Stands
<1>3. \A r : ~ Again(r) /\ ~ Again(r)'
  BY <1>2 DEF Again, Rewriting
<1> QED
  BY <1>3, ToldSame DEF SameTold

LEMMA FailsTells ==
    ASSUME Bound, Stands, Stands', NoneAgain, scope' = scope, NEW p \in Proc, WriteFails(p)
    PROVE  Tells' /\ SameTold
<1> DEFINE j == job[p]
<1>1. pc[p] \in Writing /\ Fails(p)
  BY WriteFailsEffect
<1>2. /\ lock = p /\ StepBy(p) /\ faults' > 0 /\ jdx' = jdx /\ lock' \in {p, NoProc}
  BY <1>1 DEF Fails
<1>3. Shape /\ Refs
  BY DiskNow DEF Bound
<1>4. \A r \in DOMAIN jdx : jdx[r] # 0 =>
          (jdx[r] \in DOMAIN jhr' <=> jdx[r] \in DOMAIN jhr) /\ jhr'[jdx[r]] = jhr[jdx[r]]
  <2>1. CASE jhr' = jhr
    BY <2>1
  <2>2. CASE pc[p] \in {"head", "subs", "index"} /\ CutsBack(j) /\ jhr' # jhr
    <3>1. MakingOf(j, pc[p]) /\ Appends(j)
      BY <1>1, <2>2, Working DEF WorkOf, Making, CutsBack
    <3>2. \A r \in DOMAIN jdx : jdx[r] < j.offset
      BY <3>1 DEF MakingOf
    <3>3. /\ DOMAIN jhr' = 1 .. j.offset - 1 /\ j.offset - 1 <= Len(jhr)
          /\ \A h \in 1 .. j.offset - 1 : jhr'[h] = jhr[h]
      BY <2>2, <3>1 DEF CutsBack, Shorter
    <3>4. j.offset \in Nat
      BY <3>1, <1>3 DEF MakingOf, Shape
    <3> HIDE DEF j
    <3>5. \A r \in DOMAIN jdx : jdx[r] # 0 => jdx[r] \in 1 .. j.offset - 1 /\ jdx[r] \in DOMAIN jhr
      BY <1>3, <3>2, <3>3, <3>4 DEF Shape
    <3> QED
      BY <3>3, <3>5
  <2> QED
    BY <1>1, <2>1, <2>2 DEF Fails
<1>5. Live' = Live
  <2>1. 0 \notin DOMAIN jhr /\ 0 \notin DOMAIN jhr'
    <3>1. DiskOK'
      BY FailsBound, DiskNow, PTL
    <3>2. jhr' \in Seq(Header)
      BY <3>1 DEF DiskOK
    <3> QED
      BY <1>3, <3>2 DEF Shape
  <2>2. \A r \in DOMAIN jdx : IsLive(jdx, jhr, r)' <=> IsLive(jdx, jhr, r)
    BY <1>2, <1>4, <2>1 DEF IsLive
  <2> QED
    BY <1>2, <2>2 DEF Live
<1>6. \A r \in Live : jhr'[jdx'[r]] = jhr[jdx[r]]
  BY <1>2, <1>3, <1>4, LiveOf DEF Shape
<1>7. Tells'
  BY <1>2, FaultyTells
<1> QED
  BY <1>2, <1>5, <1>6, <1>7, FaultySame

LEMMA DieTells ==
    ASSUME Bound, Stands, Stands', NoneAgain, scope' = scope, NEW p \in Proc, Die(p)
    PROVE  Tells' /\ SameTold
<1>1. Dies(p)
  BY DieEffect
<1>2. /\ lock = p /\ lock' = NoProc /\ StepBy(p) /\ faults' > 0
      /\ jhr' = jhr /\ jdx' = jdx
  BY <1>1 DEF Dies, disk
<1>3. Live' = Live
  BY <1>2 DEF Live, IsLive
<1>4. Tells'
  BY <1>2, FaultyTells
<1> QED
  BY <1>2, <1>3, <1>4, FaultySame

\* What a step does to the area: what MessageBase knows, or nothing.
Steps == \/ SameTold \/ OneMoreTold \/ WrittenAgain \/ MarkedOnce \/ TakenOut

LEMMA FaultTells ==
    ASSUME Bound, Stands, Stands', Undisturbed, scope' = scope, NEW p \in Proc,
           WriteFails(p) \/ Die(p)
    PROVE  Tells' /\ SameTold
<1>1. StepBy(p) /\ faults' > 0
  BY WriteFailsEffect, DieEffect DEF Fails, Dies
<1>2. scope.faults \in Nat /\ faults' \in 0 .. scope.faults
  BY <1>1, ScopeBounds DEF Bound, StepBy
<1>3. scope.faults # 0
  BY <1>1, <1>2
<1>4. NoneAgain
  BY <1>3 DEF Undisturbed
<1> QED
  BY <1>4, FailsTells, DieTells

LEMMA NextTells ==
    ASSUME Bound, Tells, [Next]_vars PROVE Tells'
<1>1. CASE Next
  <2>1. PICK p \in scope.procs :
          \/ SizeFiles(p) \/ ReadIndex(p) \/ ReadHeaders(p) \/ Close(p)
          \/ WriteAll(p) \/ Replace(p) \/ RemoveAll(p) \/ Mark(p)
          \/ PutText(p) \/ PutFixed(p) \/ PutSubfields(p) \/ PutIndex(p)
          \/ MarkOldHeader(p) \/ MarkRemoved(p) \/ BlankRecord(p)
          \/ Patch(p) \/ PutInfo(p)
          \/ WriteFails(p) \/ Die(p)
    BY <1>1 DEF Next
  <2>2. scope' = scope
    BY <1>1 DEF Next
  <2>3. p \in Proc
    BY ScopeBounds DEF Bound
  <2>4. CASE SizeFiles(p) \/ ReadIndex(p) \/ ReadHeaders(p) \/ Close(p)
    BY <2>2, <2>3, <2>4, OpenerQuiet, QuietTells DEF QuietStep
  <2>5. CASE WriteAll(p) \/ Replace(p) \/ RemoveAll(p) \/ Mark(p)
    BY <2>2, <2>3, <2>5, CallStarts, StartedTells, QuietTells
  <2>6. CASE PutText(p)
    BY <2>2, <2>3, <2>6, PutTextTells
  <2>7. CASE PutFixed(p)
    BY <2>2, <2>3, <2>7, PutFixedEffect, PutsHeaderTells
  <2>8. CASE PutSubfields(p)
    BY <2>2, <2>3, <2>8, PutSubfieldsEffect, PutsHeaderTells
  <2>9. CASE PutIndex(p)
    BY <2>2, <2>3, <2>9, PutIndexEffect, PutsIndexTells
  <2>10. CASE MarkOldHeader(p) \/ MarkRemoved(p) \/ BlankRecord(p) \/ Patch(p) \/ PutInfo(p)
    BY <2>2, <2>3, <2>10, MarkOldHeaderTells, MarkRemovedTells, BlanksTells,
       PatchTells, PutInfoTells
  <2>11. CASE WriteFails(p)
    BY <2>2, <2>3, <2>11, WriteFailsEffect, FaultyTells DEF Fails
  <2>12. CASE Die(p)
    BY <2>2, <2>3, <2>12, DieEffect, FaultyTells DEF Dies
  <2> QED
    BY <2>1, <2>4, <2>5, <2>6, <2>7, <2>8, <2>9, <2>10, <2>11, <2>12
<1>2. CASE UNCHANGED vars
  <2>1. /\ jhr' = jhr /\ jdx' = jdx /\ jdt' = jdt /\ lock' = lock
        /\ pc' = pc /\ job' = job /\ scope' = scope
    BY <1>2 DEF vars, disk
  <2> QED
    BY <2>1, Untouched
<1> QED
  BY <1>1, <1>2

LEMMA NextSteps ==
    ASSUME Bound, Stands, Tells, Undisturbed, Stands', [Next]_vars PROVE Steps
<1>1. CASE Next
  <2>1. PICK p \in scope.procs :
          \/ SizeFiles(p) \/ ReadIndex(p) \/ ReadHeaders(p) \/ Close(p)
          \/ WriteAll(p) \/ Replace(p) \/ RemoveAll(p) \/ Mark(p)
          \/ PutText(p) \/ PutFixed(p) \/ PutSubfields(p) \/ PutIndex(p)
          \/ MarkOldHeader(p) \/ MarkRemoved(p) \/ BlankRecord(p)
          \/ Patch(p) \/ PutInfo(p)
          \/ WriteFails(p) \/ Die(p)
    BY <1>1 DEF Next
  <2>2. scope' = scope
    BY <1>1 DEF Next
  <2>3. p \in Proc
    BY ScopeBounds DEF Bound
  <2>4. CASE SizeFiles(p) \/ ReadIndex(p) \/ ReadHeaders(p) \/ Close(p)
    BY <2>2, <2>3, <2>4, OpenerQuiet, QuietTells DEF QuietStep, Steps
  <2>5. CASE WriteAll(p) \/ Replace(p) \/ RemoveAll(p) \/ Mark(p)
    BY <2>2, <2>3, <2>5, CallStarts, StartedTells, QuietTells DEF Steps
  <2>6. CASE PutText(p)
    BY <2>2, <2>3, <2>6, PutTextTells DEF Steps
  <2>7. CASE PutFixed(p)
    BY <2>2, <2>3, <2>7, PutFixedEffect, PutsHeaderTells DEF Steps
  <2>8. CASE PutSubfields(p)
    BY <2>2, <2>3, <2>8, PutSubfieldsEffect, PutsHeaderTells DEF Steps
  <2>9. CASE PutIndex(p)
    BY <2>2, <2>3, <2>9, PutIndexEffect, PutsIndexTold DEF Steps
  <2>10. CASE MarkOldHeader(p) \/ MarkRemoved(p) \/ BlankRecord(p) \/ Patch(p) \/ PutInfo(p)
    BY <2>2, <2>3, <2>10, MarkOldHeaderTells, MarkRemovedTells, BlanksTells,
       PatchTells, PutInfoTells DEF Steps
  <2>11. CASE WriteFails(p) \/ Die(p)
    BY <2>2, <2>3, <2>11, FaultTells DEF Steps
  <2> QED
    BY <2>1, <2>4, <2>5, <2>6, <2>7, <2>8, <2>9, <2>10, <2>11
<1>2. CASE UNCHANGED vars
  <2>1. /\ jhr' = jhr /\ jdx' = jdx /\ jdt' = jdt /\ lock' = lock
        /\ pc' = pc /\ job' = job /\ scope' = scope
    BY <1>2 DEF vars, disk
  <2> QED
    BY <2>1, Untouched DEF Steps
<1> QED
  BY <1>1, <1>2

LEMMA InitTells ==
    ASSUME Init PROVE Tells
<1>1. Live = {}
  BY DEF Init, Live
<1>2. lock \notin Proc
  BY JamMarkerAssumption DEF Init
<1> QED
  BY <1>1, <1>2 DEF Tells

LEMMA AlwaysTells == Spec => []Tells
<1>1. Init => Tells
  BY InitTells
<1>2. Bound /\ Tells /\ [Next]_vars => Tells'
  BY NextTells
<1>3. Spec => []Bound
  BY AlwaysBound
<1> QED
  BY <1>1, <1>2, <1>3, PTL DEF Spec

\* --------------------------------------------------------------------------
\* The area is a MessageBase

LEMMA InitBase ==
    ASSUME Init PROVE Base!BaseInit
<1>1. jdx = <<>> /\ jhr = <<>>
  BY DEF Init
<1>2. Init => Bound
  BY InitBound
<1>3. Lists(jdx, jhr, Reload)
  BY <1>2, Reloaded
<1>4. Live = {} /\ InOrder(Reload, Live)
  BY <1>1, <1>2, ReloadInOrder DEF Live
<1>5. DOMAIN Reload = {}
  BY <1>4 DEF InOrder
<1>6. Area = <<>>
  BY <1>5 DEF Area
<1>7. Len(jdx) + 1 = 1
  BY <1>1
<1> QED
  BY <1>6, <1>7 DEF Base!BaseInit

LEMMA StepsBase ==
    ASSUME Bound, Shown, Shown', Steps
    PROVE  [Base!BaseNext]_(Base!baseVars)
<1>1. CASE SameTold
  BY <1>1, StepsNothing
<1>2. CASE OneMoreTold
  BY <1>2, StepsOneIn
<1>3. CASE WrittenAgain
  BY <1>3, StepsReplace DEF WrittenAgain
<1>4. CASE MarkedOnce
  BY <1>4, StepsMark DEF MarkedOnce
<1>5. CASE TakenOut
  BY <1>5, StepsOneOut DEF TakenOut
<1> QED
  BY <1>1, <1>2, <1>3, <1>4, <1>5 DEF Steps

LEMMA NextBase ==
    ASSUME Bound, Stands, Tells, Undisturbed,
           Bound', Stands', Tells', Undisturbed', [Next]_vars
    PROVE  [Base!BaseNext]_(Base!baseVars)
<1>1. Bound /\ Stands /\ Tells /\ Undisturbed => Shown
  BY AreaShown
<1>2. Shown
  BY <1>1
<1>3. Shown'
  BY AreaShown, PTL
<1>4. Steps
  BY NextSteps
<1> QED
  BY <1>2, <1>3, <1>4, StepsBase

\* What a behaviour is bounded to does not change.
LEMMA StaysUndisturbed == Spec /\ Undisturbed => []Undisturbed
<1>1. Undisturbed /\ [Next]_vars => Undisturbed'
  <2> SUFFICES ASSUME Undisturbed, [Next]_vars PROVE Undisturbed'
    OBVIOUS
  <2>1. scope' = scope
    BY DEF Next, vars
  <2> QED
    BY <2>1 DEF Undisturbed, NoneAgain
<1> QED
  BY <1>1, PTL DEF Spec

\* However many writes a call makes, the area is a MessageBase in which messages
\* come and go one by one (msgbase/format_driver.hpp): each is whole when it can
\* be seen first, keeps its UID, its text and its marks, and no UID is ever given
\* twice.  This holds wherever a call is refused or killed where nothing is
\* written again, and of rewriting where nothing fails: replace() puts the new
\* text over the old one before the header that describes it, so that one cut
\* short between the two leaves neither message.
THEOREM ImplementsBase == Spec /\ Undisturbed => ImplementsMessageBase
<1>1. Init => Base!BaseInit
  BY InitBase
<1>2. /\ Bound /\ Stands /\ Tells /\ Undisturbed
      /\ Bound' /\ Stands' /\ Tells' /\ Undisturbed' /\ [Next]_vars
      => [Base!BaseNext]_(Base!baseVars)
  BY NextBase
<1>3. Spec => []Bound /\ []Stands /\ []Tells
  BY AlwaysBound, AlwaysStands, AlwaysTells
<1>4. Spec /\ Undisturbed => []Undisturbed
  BY StaysUndisturbed
<1> QED
  BY <1>1, <1>2, <1>3, <1>4, PTL DEF Spec, ImplementsMessageBase, Base!BaseSpec
\* --------------------------------------------------------------------------
\* A UID names one message, for good

\* The area lists the records that name a message, and no record twice.
LEMMA ShownUids ==
    ASSUME Bound, Shown
    PROVE  /\ Base!UidsRise
           /\ \A i \in DOMAIN Area : Area[i].uid \in Live
           /\ \A r \in Live : \E i \in DOMAIN Area : Area[i].uid = r
<1>1. /\ DOMAIN Telling = Live /\ DOMAIN Area = 1 .. Len(Area)
      /\ Shows(Area, Len(Area), Telling)
  BY DEF Shown, Telling
<1>2. /\ \A i \in DOMAIN Area : Area[i].uid \in Live
      /\ \A r \in Live : \E i \in DOMAIN Area : Area[i].uid = r
      /\ \A i, k \in DOMAIN Area : i < k => Area[i].uid < Area[k].uid
  BY <1>1 DEF Shows
<1>3. \A r \in Live : r < Len(jdx) + 1
  BY DiskNow DEF Shape, Live
<1> QED
  BY <1>2, <1>3 DEF Base!UidsRise

\* A step brings to light no record but the next.
LEMMA StepsLive ==
    ASSUME Bound, Steps
    PROVE  /\ Len(jdx) + 1 <= Len(jdx') + 1
           /\ Live' \subseteq Live \cup {Len(jdx) + 1}
<1>1. Len(jdx) \in Nat
  BY DiskNow DEF Shape
<1>2. Len(jdx') \in {Len(jdx), Len(jdx) + 1}
  BY DEF Steps, SameTold, OneMoreTold, WrittenAgain, MarkedOnce, TakenOut,
         OtherTold, OneLessTold
<1>3. Live' \subseteq Live \cup {Len(jdx) + 1}
  BY DEF Steps, SameTold, OneMoreTold, WrittenAgain, MarkedOnce, TakenOut,
         OtherTold, OneLessTold
<1> QED
  BY <1>1, <1>2, <1>3

LEMMA StepsUids ==
    ASSUME Bound, Shown, Bound', Shown', Steps
    PROVE  Base!NewMeansNew
<1>1. /\ Len(jdx) + 1 <= Len(jdx') + 1
      /\ Live' \subseteq Live \cup {Len(jdx) + 1}
  BY StepsLive
<1>2. \A r \in Live : \E i \in DOMAIN Area : Area[i].uid = r
  BY ShownUids
<1>3. (\A i \in DOMAIN Area : Area[i].uid \in Live)'
  BY ShownUids, PTL
<1>4. Len(jdx) \in Nat
  BY DiskNow DEF Shape
<1>5. ASSUME NEW i \in DOMAIN Area', Area'[i].uid < Len(jdx) + 1
      PROVE  \E j \in DOMAIN Area : Area[j].uid = Area'[i].uid
  <2>1. PICK u : u = Area'[i].uid
    OBVIOUS
  <2>2. u \in Live \cup {Len(jdx) + 1}
    BY <1>1, <1>3, <2>1
  <2>3. u # Len(jdx) + 1
    BY <1>4, <1>5, <2>1
  <2> QED
    BY <1>2, <2>1, <2>2, <2>3
<1> QED
  BY <1>1, <1>5 DEF Base!NewMeansNew

LEMMA NextUids ==
    ASSUME Bound, Stands, Tells, Undisturbed,
           Bound', Stands', Tells', Undisturbed', [Next]_vars
    PROVE  Base!NewMeansNew
<1>1. Shown
  BY AreaShown
<1>2. Shown'
  BY AreaShown, PTL
<1>3. Steps
  BY NextSteps
<1> QED
  BY <1>1, <1>2, <1>3, StepsUids

\* The messages of an area go up by their UIDs (the numbers of their index
\* records), and every UID given out is behind the next.
THEOREM UidsAlwaysRise == Spec /\ Undisturbed => []Base!UidsRise
<1>1. Bound /\ Stands /\ Tells /\ Undisturbed => Base!UidsRise
  BY AreaShown, ShownUids
<1>2. Spec => []Bound /\ []Stands /\ []Tells
  BY AlwaysBound, AlwaysStands, AlwaysTells
<1> QED
  BY <1>1, <1>2, StaysUndisturbed, PTL

\* A UID that has been given out is never given to another message, however the
\* calls of several programs interleave.
THEOREM UidsNeverComeBack == Spec /\ Undisturbed => Base!NeverGivenTwice
<1>1. /\ Bound /\ Stands /\ Tells /\ Undisturbed
      /\ Bound' /\ Stands' /\ Tells' /\ Undisturbed' /\ [Next]_vars
      => [Base!NewMeansNew]_(Base!baseVars)
  BY NextUids
<1>2. Spec => []Bound /\ []Stands /\ []Tells
  BY AlwaysBound, AlwaysStands, AlwaysTells
<1> QED
  BY <1>1, <1>2, StaysUndisturbed, PTL DEF Spec, Base!NeverGivenTwice
=============================================================================
