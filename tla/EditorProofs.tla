---------------------------- MODULE EditorProofs ----------------------------
(***************************************************************************)
(* The editor: its history gives back what was there, for any texts, any   *)
(* keys and any limit on the steps; and what was written in it is kept     *)
(* until it is stored, with the copies its text asks for, for any areas,   *)
(* recipients, commands and number of messages.                            *)
(***************************************************************************)
EXTENDS EditHistory, ComposeMessage, FiniteSetTheorems, SequenceTheorems,
        WellFoundedInduction, TLAPS

(***************************************************************************)
(* The history                                                             *)
(***************************************************************************)

\* --------------------------------------------------------------------------
\* Sequences

\* A nonempty set of numbers has a least one.
LEMMA LeastNumber ==
    ASSUME NEW T \in SUBSET Nat, T # {}
    PROVE  \E n \in T : \A m \in T : n <= m
<1>1. T \subseteq Nat
  OBVIOUS
<1>2. PICK n \in T : \A m \in T : ~ (<<m, n>> \in OpToRel(<, Nat))
  BY <1>1, WFMin, NatLessThanWellFounded
<1>3. \A m \in T : ~(m < n)
  BY <1>1, <1>2 DEF OpToRel
<1>4. \A m \in T : n <= m
  BY <1>1, <1>3
<1> QED
  BY <1>4

\* How long two sequences are, one after the other.
LEMMA JoinedLength ==
    \A S : \A s, t \in Seq(S) : Len(s \o t) = Len(s) + Len(t)
  OBVIOUS

\* A sequence is what stands before two places, between them and after them.
LEMMA Cut ==
    ASSUME NEW S, NEW s \in Seq(S), NEW p \in 0 .. Len(s), NEW q \in p .. Len(s)
    PROVE  /\ SubSeq(s, 1, p) \o SubSeq(s, p + 1, q) = SubSeq(s, 1, q)
           /\ SubSeq(s, 1, q) \o SubSeq(s, q + 1, Len(s)) = s
<1>0. Len(s) \in Nat /\ 1 \in 1 .. Len(s) + 1 /\ p \in 0 .. q
  BY LenProperties
<1>1. SubSeq(s, 1, p) \o SubSeq(s, p + 1, q) = SubSeq(s, 1, q)
  <2>1. p \in 1 - 1 .. Len(s) /\ q \in p .. Len(s)
    BY <1>0
  <2> QED BY <2>1, <1>0, ConcatAdjacentSubSeq
<1>2. SubSeq(s, 1, q) \o SubSeq(s, q + 1, Len(s)) = SubSeq(s, 1, Len(s))
  <2>1. q \in 1 - 1 .. Len(s) /\ Len(s) \in q .. Len(s)
    BY <1>0
  <2> QED BY <2>1, <1>0, ConcatAdjacentSubSeq
<1> QED BY <1>1, <1>2, SubSeqFull

\* A part of a sequence.
LEMMA Part ==
    ASSUME NEW S, NEW s \in Seq(S), NEW p \in Nat, NEW q \in 0 .. Len(s)
    PROVE  /\ SubSeq(s, p + 1, q) \in Seq(S)
           /\ Len(SubSeq(s, p + 1, q)) = IF p <= q THEN q - p ELSE 0
           /\ \A i \in 1 .. q - p : SubSeq(s, p + 1, q)[i] = s[p + i]
<1>1. \A i \in p + 1 .. q : s[i] \in S
  BY ElementOfSeq, LenProperties
<1>2. p + 1 \in Int /\ q \in Int
  BY LenProperties
<1> QED BY <1>1, <1>2, SubSeqProperties, LenProperties

\* The numbers CommonFront() and CommonBack() choose.
LEMMA FrontChosen ==
    ASSUME NEW S, NEW a \in Seq(S), NEW b \in Seq(S)
    PROVE  /\ CommonFront(a, b) \in 0 .. Shorter(a, b)
           /\ \A i \in 1 .. CommonFront(a, b) : a[i] = b[i]
<1> DEFINE least == Shorter(a, b)
           T == {n \in 0 .. least : n = least \/ a[n + 1] # b[n + 1]}
<1>1. least \in Nat
  BY LenProperties DEF Shorter
<1>2. T \subseteq Nat /\ least \in T
  BY <1>1
<1>3. PICK n \in T : \A m \in T : n <= m
  BY <1>2, LeastNumber, Zenon
<1>4. ASSUME NEW i \in 1 .. n PROVE a[i] = b[i]
  <2>1. i - 1 \notin T
    BY <1>1, <1>2, <1>3
  <2>2. i - 1 \in 0 .. least /\ (i - 1) + 1 = i
    BY <1>1, <1>2, <1>3
  <2> HIDE DEF least
  <2> QED
    BY <2>1, <2>2
<1>5. n \in 0 .. least /\ (n = least \/ a[n + 1] # b[n + 1])
  BY <1>3
<1> HIDE DEF least, T
<1> QED
  BY <1>4, <1>5 DEF CommonFront, least

LEMMA BackChosen ==
    ASSUME NEW S, NEW a \in Seq(S), NEW b \in Seq(S)
    PROVE  /\ CommonBack(a, b) \in 0 .. Shorter(a, b) - CommonFront(a, b)
           /\ \A i \in 0 .. CommonBack(a, b) - 1 : a[Len(a) - i] = b[Len(b) - i]
<1> DEFINE least == Shorter(a, b) - CommonFront(a, b)
           T == {n \in 0 .. least : n = least \/ a[Len(a) - n] # b[Len(b) - n]}
<1>1. least \in Nat
  BY LenProperties, FrontChosen DEF Shorter
<1>2. T \subseteq Nat /\ least \in T
  BY <1>1
<1>3. PICK n \in T : \A m \in T : n <= m
  BY <1>2, LeastNumber, Zenon
<1>4. ASSUME NEW i \in 0 .. n - 1 PROVE a[Len(a) - i] = b[Len(b) - i]
  <2>1. i \notin T
    BY <1>1, <1>2, <1>3
  <2>2. i \in 0 .. least
    BY <1>1, <1>2, <1>3
  <2> HIDE DEF least
  <2> QED
    BY <2>1, <2>2
<1>5. n \in 0 .. least /\ (n = least \/ a[Len(a) - n] # b[Len(b) - n])
  BY <1>3
<1> HIDE DEF least, T
<1> QED
  BY <1>4, <1>5 DEF CommonBack, least

\* Splicing the middle of one text into another that has the same front and
\* back makes the first.
LEMMA SpliceMiddle ==
    ASSUME NEW S, NEW a \in Seq(S), NEW b \in Seq(S),
           NEW f \in Nat, NEW k \in Nat,
           f + k <= Len(a), f + k <= Len(b),
           \A i \in 1 .. f : a[i] = b[i],
           \A i \in 0 .. k - 1 : a[Len(a) - i] = b[Len(b) - i]
    PROVE  Splice(a, f, Len(SubSeq(a, f + 1, Len(a) - k)),
                  SubSeq(b, f + 1, Len(b) - k)) = b
<1>0. Len(a) \in Nat /\ Len(b) \in Nat
  BY LenProperties
<1>1. Len(SubSeq(a, f + 1, Len(a) - k)) = Len(a) - k - f
  BY <1>0, Part
<1>2. SubSeq(a, 1, f) = SubSeq(b, 1, f)
  <2>1. /\ SubSeq(a, 1, f) \in Seq(S) /\ Len(SubSeq(a, 1, f)) = f
        /\ \A i \in 1 .. f : SubSeq(a, 1, f)[i] = a[i]
    BY <1>0, SubSeqProperties, ElementOfSeq
  <2>2. /\ SubSeq(b, 1, f) \in Seq(S) /\ Len(SubSeq(b, 1, f)) = f
        /\ \A i \in 1 .. f : SubSeq(b, 1, f)[i] = b[i]
    BY <1>0, SubSeqProperties, ElementOfSeq
  <2> QED BY <2>1, <2>2, SeqEqual
<1>3. SubSeq(a, Len(a) - k + 1, Len(a)) = SubSeq(b, Len(b) - k + 1, Len(b))
  <2>1. /\ SubSeq(a, Len(a) - k + 1, Len(a)) \in Seq(S)
        /\ Len(SubSeq(a, Len(a) - k + 1, Len(a))) = k
        /\ \A i \in 1 .. k : SubSeq(a, Len(a) - k + 1, Len(a))[i] = a[Len(a) - k + i]
    <3>1. Len(a) - k \in Nat BY <1>0
    <3> QED BY <1>0, <3>1, Part
  <2>2. /\ SubSeq(b, Len(b) - k + 1, Len(b)) \in Seq(S)
        /\ Len(SubSeq(b, Len(b) - k + 1, Len(b))) = k
        /\ \A i \in 1 .. k : SubSeq(b, Len(b) - k + 1, Len(b))[i] = b[Len(b) - k + i]
    <3>1. Len(b) - k \in Nat BY <1>0
    <3> QED BY <1>0, <3>1, Part
  <2>3. ASSUME NEW i \in 1 .. k
        PROVE  a[Len(a) - k + i] = b[Len(b) - k + i]
    <3>1. k - i \in 0 .. k - 1 OBVIOUS
    <3>2. Len(a) - (k - i) = Len(a) - k + i /\ Len(b) - (k - i) = Len(b) - k + i
      BY <1>0
    <3> QED BY <3>1, <3>2
  <2> QED BY <2>1, <2>2, <2>3, SeqEqual
<1>4. f \in 0 .. Len(b) /\ Len(b) - k \in f .. Len(b)
  BY <1>0
<1>5. SubSeq(b, 1, f) \o SubSeq(b, f + 1, Len(b) - k)
        \o SubSeq(b, Len(b) - k + 1, Len(b)) = b
  BY <1>4, Cut
<1>6. f + (Len(a) - k - f) + 1 = Len(a) - k + 1
  BY <1>0
<1> QED BY <1>1, <1>2, <1>3, <1>5, <1>6 DEF Splice

\* --------------------------------------------------------------------------
\* Steps

\* The step leads from x to y, and back.
Links(x, step, y) ==
    /\ step.row + Len(step.removed) <= Len(x.lines)
    /\ step.row + Len(step.inserted) <= Len(y.lines)
    /\ y.lines = Splice(x.lines, step.row, Len(step.removed), step.inserted)
    /\ x.lines = Splice(y.lines, step.row, Len(step.inserted), step.removed)
    /\ x.header = IF step.headerBefore # None THEN step.headerBefore ELSE y.header
    /\ y.header = IF step.headerAfter # None THEN step.headerAfter ELSE x.header
    /\ (step.headerBefore = None) = (step.headerAfter = None)

\* Splicing nothing into nothing changes nothing.
LEMMA SpliceNothing ==
    ASSUME NEW S, NEW s \in Seq(S), NEW r \in Nat, r <= Len(s)
    PROVE  Splice(s, r, Len(<<>>), <<>>) = s
<1>1. Len(s) \in Nat /\ r \in 0 .. Len(s)
  BY LenProperties
<1>2. SubSeq(s, 1, r) \in Seq(S)
  BY <1>1, SubSeqProperties, ElementOfSeq
<1>3. SubSeq(s, 1, r) \o <<>> = SubSeq(s, 1, r)
  BY <1>2, ConcatEmptySeq
<1>4. r \in r .. Len(s)
  BY <1>1
<1>5. SubSeq(s, 1, r) \o SubSeq(s, r + 1, Len(s)) = s
  BY <1>1, <1>4, Cut
<1>6. Len(<<>>) = 0 /\ r + 0 + 1 = r + 1
  BY EmptySeq
<1> QED BY <1>3, <1>5, <1>6 DEF Splice

\* What settle() makes of two texts leads from the one to the other, and back.
LEMMA StepLinks ==
    ASSUME NEW old \in Message, NEW new \in Message, NEW kind \in Kind
    PROVE  /\ StepOf(old, new, kind) \in Step
           /\ Links(old, StepOf(old, new, kind), new)
           /\ StepOf(old, new, kind).before = old.focus
           /\ StepOf(old, new, kind).kind = kind
<1> DEFINE a == old.lines
           b == new.lines
           f == CommonFront(a, b)
           k == CommonBack(a, b)
           step == StepOf(old, new, kind)
<1>1. /\ a \in Seq(Line) /\ b \in Seq(Line)
      /\ Len(a) \in Nat /\ Len(b) \in Nat
      /\ old.header \in Headers /\ new.header \in Headers
      /\ old.focus \in Foci /\ new.focus \in Foci
  BY LenProperties DEF Message
<1>2. CASE a = b
  <2>1. /\ step.row = 0 /\ step.removed = <<>> /\ step.inserted = <<>>
        /\ step.before = old.focus /\ step.after = new.focus /\ step.kind = kind
        /\ step.headerBefore = IF old.header # new.header THEN old.header ELSE None
        /\ step.headerAfter = IF old.header # new.header THEN new.header ELSE None
    BY <1>2 DEF StepOf
  <2>2. step \in Step
    BY <1>1, <1>2, EmptySeq DEF StepOf, Step
  <2>3. Splice(a, 0, Len(<<>>), <<>>) = a
    BY <1>1, SpliceNothing
  <2>4. Len(<<>>) = 0
    BY EmptySeq
  <2> HIDE DEF step
  <2>5. Links(old, step, new)
    BY <1>1, <1>2, <2>1, <2>3, <2>4, NoneAssumption DEF Links
  <2> QED
    BY <2>1, <2>2, <2>5 DEF step
<1>3. CASE a # b
  <2>1. /\ step.row = f
        /\ step.removed = SubSeq(a, f + 1, Len(a) - k)
        /\ step.inserted = SubSeq(b, f + 1, Len(b) - k)
        /\ step.before = old.focus /\ step.after = new.focus /\ step.kind = kind
        /\ step.headerBefore = IF old.header # new.header THEN old.header ELSE None
        /\ step.headerAfter = IF old.header # new.header THEN new.header ELSE None
    BY <1>3 DEF StepOf
  <2>2. /\ f \in Nat /\ k \in Nat
        /\ f + k <= Len(a) /\ f + k <= Len(b)
        /\ \A i \in 1 .. f : a[i] = b[i]
        /\ \A i \in 0 .. k - 1 : a[Len(a) - i] = b[Len(b) - i]
    <3>1. f \in 0 .. Shorter(a, b) /\ \A i \in 1 .. f : a[i] = b[i]
      BY <1>1, FrontChosen
    <3>2. k \in 0 .. Shorter(a, b) - f /\ \A i \in 0 .. k - 1 : a[Len(a) - i] = b[Len(b) - i]
      <4> HIDE DEF a, b
      <4> QED BY <1>1, BackChosen
    <3>3. Shorter(a, b) \in Nat /\ Shorter(a, b) <= Len(a) /\ Shorter(a, b) <= Len(b)
      BY <1>1 DEF Shorter
    <3> HIDE DEF f, k
    <3> QED BY <1>1, <3>1, <3>2, <3>3
  <2> HIDE DEF f, k, a, b
  <2>3. /\ SubSeq(a, f + 1, Len(a) - k) \in Seq(Line)
        /\ SubSeq(b, f + 1, Len(b) - k) \in Seq(Line)
        /\ f + Len(SubSeq(a, f + 1, Len(a) - k)) <= Len(a)
        /\ f + Len(SubSeq(b, f + 1, Len(b) - k)) <= Len(b)
    <3>1. Len(a) - k \in 0 .. Len(a) /\ Len(b) - k \in 0 .. Len(b)
      BY <1>1, <2>2
    <3>2. /\ SubSeq(a, f + 1, Len(a) - k) \in Seq(Line)
          /\ Len(SubSeq(a, f + 1, Len(a) - k)) = Len(a) - k - f
      BY <1>1, <2>2, <3>1, Part
    <3>3. /\ SubSeq(b, f + 1, Len(b) - k) \in Seq(Line)
          /\ Len(SubSeq(b, f + 1, Len(b) - k)) = Len(b) - k - f
      BY <1>1, <2>2, <3>1, Part
    <3>4. Len(a) \in Nat /\ Len(b) \in Nat
      BY <1>1
    <3>5. f + (Len(a) - k - f) <= Len(a) /\ f + (Len(b) - k - f) <= Len(b)
      BY <2>2, <3>4
    <3> QED BY <3>2, <3>3, <3>5
  <2>4. Splice(a, f, Len(SubSeq(a, f + 1, Len(a) - k)), SubSeq(b, f + 1, Len(b) - k)) = b
    BY <1>1, <2>2, SpliceMiddle
  <2>5. Splice(b, f, Len(SubSeq(b, f + 1, Len(b) - k)), SubSeq(a, f + 1, Len(a) - k)) = a
    <3>1. /\ \A i \in 1 .. f : b[i] = a[i]
          /\ \A i \in 0 .. k - 1 : b[Len(b) - i] = a[Len(a) - i]
      BY <2>2
    <3>2. f + k <= Len(b) /\ f + k <= Len(a) /\ f \in Nat /\ k \in Nat
      BY <2>2
    <3>3. a \in Seq(Line) /\ b \in Seq(Line)
      BY <1>1
    <3> HIDE DEF step
    <3> QED BY <3>1, <3>2, <3>3, SpliceMiddle, Zenon
  <2>6. step \in Step
    <3>1. step = [row |-> f, removed |-> SubSeq(a, f + 1, Len(a) - k),
                  inserted |-> SubSeq(b, f + 1, Len(b) - k),
                  headerBefore |-> IF old.header # new.header THEN old.header ELSE None,
                  headerAfter |-> IF old.header # new.header THEN new.header ELSE None,
                  before |-> old.focus, after |-> new.focus, kind |-> kind]
      BY <1>3 DEF StepOf, f, k, a, b
    <3> HIDE DEF step
    <3> QED BY <1>1, <2>2, <2>3, <3>1 DEF Step
  <2> HIDE DEF step
  <2>7. a = old.lines /\ b = new.lines
    BY DEF a, b
  <2> QED
    <3>1. Links(old, step, new)
      BY <1>1, <2>1, <2>3, <2>4, <2>5, <2>7, NoneAssumption DEF Links
    <3> QED BY <2>1, <2>6, <3>1 DEF step
<1> QED BY <1>2, <1>3

\* One line put in the place of one.
LEMMA SpliceOne ==
    ASSUME NEW S, NEW s \in Seq(S), NEW w \in Seq(S), NEW r \in Nat,
           Len(w) = 1, r + 1 <= Len(s)
    PROVE  /\ Splice(s, r, 1, w) \in Seq(S)
           /\ Len(Splice(s, r, 1, w)) = Len(s)
           /\ \A i \in 1 .. Len(s) :
                Splice(s, r, 1, w)[i] = IF i = r + 1 THEN w[1] ELSE s[i]
<1>0. Len(s) \in Nat
  BY LenProperties
<1> DEFINE p == SubSeq(s, 1, r)
           q == SubSeq(s, r + 1 + 1, Len(s))
<1>1. /\ p \in Seq(S) /\ Len(p) = r
      /\ \A i \in 1 .. r : p[i] = s[i]
  BY <1>0, SubSeqProperties, ElementOfSeq
<1>2. /\ q \in Seq(S) /\ Len(q) = Len(s) - (r + 1)
      /\ \A i \in 1 .. Len(s) - (r + 1) : q[i] = s[r + 1 + i]
  <2>1. r + 1 \in Nat /\ Len(s) \in 0 .. Len(s)
    BY <1>0
  <2> QED BY <1>0, <2>1, Part
<1> DEFINE pw == p \o w
           pwq == pw \o q
<1> HIDE DEF p, q
<1>3. /\ pw \in Seq(S) /\ Len(pw) = r + 1
      /\ \A i \in 1 .. r + 1 : pw[i] = IF i <= r THEN p[i] ELSE w[i - r]
  <2>1. p \in Seq(S) /\ w \in Seq(S)
    BY <1>1
  <2>2. /\ p \o w \in Seq(S) /\ Len(p \o w) = Len(p) + Len(w)
        /\ \A i \in 1 .. Len(p) + Len(w) :
              (p \o w)[i] = IF i <= Len(p) THEN p[i] ELSE w[i - Len(p)]
    <3>1. p \o w \in Seq(S)
      BY <2>1
    <3>2. Len(p \o w) = Len(p) + Len(w)
      BY <2>1, JoinedLength, Zenon
    <3>3. ASSUME NEW i \in 1 .. Len(p) + Len(w)
          PROVE  (p \o w)[i] = IF i <= Len(p) THEN p[i] ELSE w[i - Len(p)]
      BY <2>1, ConcatProperties, Zenon
    <3> QED BY <3>1, <3>2, <3>3
  <2> HIDE DEF pw
  <2>3. /\ pw \in Seq(S) /\ Len(pw) = Len(p) + Len(w)
        /\ \A i \in 1 .. Len(p) + Len(w) :
              pw[i] = IF i <= Len(p) THEN p[i] ELSE w[i - Len(p)]
    BY <2>2, Zenon DEF pw
  <2> QED BY <1>1, <2>3
<1> HIDE DEF pw
<1>4. /\ pwq \in Seq(S) /\ Len(pwq) = Len(s)
      /\ \A i \in 1 .. Len(s) :
            pwq[i] = IF i <= r + 1 THEN pw[i] ELSE q[i - (r + 1)]
  <2>1. pw \in Seq(S) /\ q \in Seq(S)
    BY <1>2, <1>3
  <2>2. /\ pw \o q \in Seq(S) /\ Len(pw \o q) = Len(pw) + Len(q)
        /\ \A i \in 1 .. Len(pw) + Len(q) :
              (pw \o q)[i] = IF i <= Len(pw) THEN pw[i] ELSE q[i - Len(pw)]
    <3>1. pw \o q \in Seq(S)
      BY <2>1
    <3>2. Len(pw \o q) = Len(pw) + Len(q)
      BY <2>1
    <3>3. ASSUME NEW i \in 1 .. Len(pw) + Len(q)
          PROVE  (pw \o q)[i] = IF i <= Len(pw) THEN pw[i] ELSE q[i - Len(pw)]
      BY <2>1
    <3> QED BY <3>1, <3>2, <3>3
  <2> HIDE DEF pwq
  <2>3. /\ pwq \in Seq(S) /\ Len(pwq) = Len(pw) + Len(q)
        /\ \A i \in 1 .. Len(pw) + Len(q) :
              pwq[i] = IF i <= Len(pw) THEN pw[i] ELSE q[i - Len(pw)]
    BY <2>2, Zenon DEF pwq
  <2> QED BY <1>0, <1>2, <1>3, <2>3
<1>5. Splice(s, r, 1, w) = pwq
  BY DEF Splice, p, q, pw
<1> HIDE DEF pwq
<1>6. ASSUME NEW i \in 1 .. Len(s)
      PROVE  pwq[i] = IF i = r + 1 THEN w[1] ELSE s[i]
  <2>1. CASE i <= r
    <3>1. i \in 1 .. r /\ i \in 1 .. r + 1 /\ i <= r + 1 /\ i # r + 1
      BY <1>0, <2>1
    <3> QED BY <1>1, <1>3, <1>4, <2>1, <3>1
  <2>2. CASE i = r + 1
    <3>1. i \in 1 .. r + 1 /\ i <= r + 1 /\ ~(i <= r) /\ i - r = 1
      BY <1>0, <2>2
    <3> QED BY <1>3, <1>4, <2>2, <3>1
  <2>3. CASE i > r + 1
    <3>1. /\ ~(i <= r + 1) /\ i # r + 1
          /\ i - (r + 1) \in 1 .. Len(s) - (r + 1)
          /\ r + 1 + (i - (r + 1)) = i
      BY <1>0, <2>3
    <3> QED BY <1>2, <1>4, <3>1
  <2>4. i <= r \/ i = r + 1 \/ i > r + 1
    BY <1>0
  <2> QED BY <2>1, <2>2, <2>3, <2>4
<1> QED
  BY <1>4, <1>5, <1>6

\* A step gathered into the last one leads from where the last one began.
LEMMA MergedLinks ==
    ASSUME NEW x \in Message, NEW y \in Message, NEW z \in Message,
           NEW last \in Step, NEW step \in Step,
           Links(x, last, y), Links(y, step, z),
           \/ /\ last.headerAfter # None /\ step.headerAfter # None
              /\ last.inserted = <<>> /\ step.inserted = <<>>
              /\ last.removed = <<>> /\ step.removed = <<>>
           \/ /\ last.headerAfter = None /\ step.headerAfter = None
              /\ last.row = step.row
              /\ Len(last.removed) = 1 /\ Len(last.inserted) = 1
              /\ Len(step.removed) = 1 /\ Len(step.inserted) = 1
    PROVE  /\ Merged(last, step) \in Step
           /\ Links(x, Merged(last, step), z)
           /\ Merged(last, step).before = last.before
           /\ Merged(last, step).kind = last.kind
<1> DEFINE m == Merged(last, step)
<1>1. /\ m \in Step
      /\ m.row = last.row /\ m.removed = last.removed /\ m.inserted = step.inserted
      /\ m.headerBefore = last.headerBefore /\ m.before = last.before
      /\ m.kind = last.kind
      /\ m.headerAfter = IF step.headerAfter # None THEN step.headerAfter
                          ELSE last.headerAfter
  BY DEF Merged, Step
<1>2. /\ x.lines \in Seq(Line) /\ y.lines \in Seq(Line) /\ z.lines \in Seq(Line)
      /\ Len(x.lines) \in Nat /\ Len(y.lines) \in Nat /\ Len(z.lines) \in Nat
  BY LenProperties DEF Message
<1>3. /\ last.row \in Nat /\ step.row \in Nat
      /\ last.removed \in Seq(Line) /\ last.inserted \in Seq(Line)
      /\ step.removed \in Seq(Line) /\ step.inserted \in Seq(Line)
  BY DEF Step
<1> HIDE DEF m
<1>4. CASE /\ last.headerAfter # None /\ step.headerAfter # None
           /\ last.inserted = <<>> /\ step.inserted = <<>>
           /\ last.removed = <<>> /\ step.removed = <<>>
  <2>1. Len(<<>>) = 0
    BY EmptySeq
  <2>2. y.lines = x.lines
    BY <1>2, <1>3, <1>4, <2>1, SpliceNothing DEF Links
  <2>3. z.lines = y.lines
    BY <1>2, <1>3, <1>4, <2>1, SpliceNothing DEF Links
  <2>4. Splice(x.lines, last.row, Len(<<>>), <<>>) = x.lines
    BY <1>2, <1>3, <1>4, <2>1, SpliceNothing DEF Links
  <2> QED
    BY <1>1, <1>2, <1>3, <1>4, <2>1, <2>2, <2>3, <2>4 DEF Links, m
<1>5. CASE /\ last.headerAfter = None /\ step.headerAfter = None
           /\ last.row = step.row
           /\ Len(last.removed) = 1 /\ Len(last.inserted) = 1
           /\ Len(step.removed) = 1 /\ Len(step.inserted) = 1
  <2> DEFINE r == last.row
  <2>1. /\ y.lines = Splice(x.lines, r, 1, last.inserted)
        /\ x.lines = Splice(y.lines, r, 1, last.removed)
        /\ z.lines = Splice(y.lines, r, 1, step.inserted)
        /\ r \in Nat /\ r + 1 <= Len(x.lines) /\ r + 1 <= Len(y.lines)
        /\ r + 1 <= Len(z.lines)
    BY <1>3, <1>5 DEF Links
  <2> HIDE DEF r
  <2>2. /\ Len(x.lines) = Len(y.lines)
        /\ \A i \in 1 .. Len(y.lines) :
              x.lines[i] = IF i = r + 1 THEN last.removed[1] ELSE y.lines[i]
    BY <1>2, <1>3, <1>5, <2>1, SpliceOne
  <2>3. /\ Len(z.lines) = Len(y.lines)
        /\ \A i \in 1 .. Len(y.lines) :
              z.lines[i] = IF i = r + 1 THEN step.inserted[1] ELSE y.lines[i]
    <3>1. /\ Len(Splice(y.lines, r, 1, step.inserted)) = Len(y.lines)
          /\ \A i \in 1 .. Len(y.lines) : Splice(y.lines, r, 1, step.inserted)[i] =
                IF i = r + 1 THEN step.inserted[1] ELSE y.lines[i]
      BY <1>2, <1>3, <1>5, <2>1, SpliceOne
    <3> QED BY <2>1, <3>1
  <2>4. Splice(x.lines, r, 1, step.inserted) = z.lines
    <3>1. /\ Splice(x.lines, r, 1, step.inserted) \in Seq(Line)
          /\ Len(Splice(x.lines, r, 1, step.inserted)) = Len(x.lines)
          /\ \A i \in 1 .. Len(x.lines) : Splice(x.lines, r, 1, step.inserted)[i] =
                IF i = r + 1 THEN step.inserted[1] ELSE x.lines[i]
      BY <1>2, <1>3, <1>5, <2>1, SpliceOne
    <3> QED BY <1>2, <2>1, <2>2, <2>3, <3>1, SeqEqual
  <2>5. Splice(z.lines, r, 1, last.removed) = x.lines
    <3>1. /\ Splice(z.lines, r, 1, last.removed) \in Seq(Line)
          /\ Len(Splice(z.lines, r, 1, last.removed)) = Len(z.lines)
          /\ \A i \in 1 .. Len(z.lines) : Splice(z.lines, r, 1, last.removed)[i] =
                IF i = r + 1 THEN last.removed[1] ELSE z.lines[i]
      BY <1>2, <1>3, <1>5, <2>1, SpliceOne
    <3> QED BY <1>2, <2>1, <2>2, <2>3, <3>1, SeqEqual
  <2>6. m.row = r
    BY <1>1 DEF r
  <2> QED
    BY <1>1, <1>5, <2>1, <2>4, <2>5, <2>6 DEF Links, m
<1> QED BY <1>4, <1>5

\* Taking a step back, and putting it back, along a link.
LEMMA ApplyLinks ==
    ASSUME NEW x \in Message, NEW y \in Message, NEW step \in Step,
           Links(x, step, y)
    PROVE  /\ Apply(step, FALSE, y) \in Message
           /\ SameText(Apply(step, FALSE, y), x)
           /\ Apply(step, FALSE, y).focus = step.before
           /\ Apply(step, TRUE, x) \in Message
           /\ SameText(Apply(step, TRUE, x), y)
<1>1. /\ x.lines \in Seq(Line) /\ y.lines \in Seq(Line)
      /\ x.header \in Headers /\ y.header \in Headers
      /\ step.before \in Foci /\ step.after \in Foci
  BY DEF Message, Step
<1> DEFINE back == Apply(step, FALSE, y)
           forth == Apply(step, TRUE, x)
<1>2. back = [lines |-> x.lines, header |-> x.header, focus |-> step.before]
  BY DEF Apply, Links
<1>3. forth = [lines |-> y.lines, header |-> y.header, focus |-> step.after]
  BY DEF Apply, Links
<1> HIDE DEF back, forth
<1>4. /\ back \in Message /\ back.lines = x.lines /\ back.header = x.header
      /\ back.focus = step.before
  BY <1>1, <1>2 DEF Message
<1>5. forth \in Message /\ forth.lines = y.lines /\ forth.header = y.header
  BY <1>1, <1>3 DEF Message
<1> QED BY <1>4, <1>5 DEF SameText, back, forth

\* A message is its text and the place of the typing.
LEMMA SameMessage ==
    ASSUME NEW x \in Message, NEW y \in Message, SameText(x, y), x.focus = y.focus
    PROVE  x = y
BY DEF Message, SameText

\* Links are about texts and not about where the typing stands.
LEMMA LinksOfSameText ==
    ASSUME NEW x, NEW y, NEW u, NEW v, NEW step,
           SameText(x, u), SameText(y, v), Links(x, step, y)
    PROVE  Links(u, step, v)
BY DEF SameText, Links

-----------------------------------------------------------------------------
\* Every step kept leads from what the message was to what it became.
Chain ==
    /\ Len(past) = Len(done) /\ Len(future) = Len(undone)
    /\ done # <<>> \/ undone # <<>> => seen \in Message
    /\ \A i \in 1 .. Len(done) :
        /\ Links(past[i], done[i], AfterDone(i))
        /\ past[i].focus = done[i].before
    /\ \A i \in 1 .. Len(undone) : Links(BeforeUndone(i), undone[i], future[i])
    /\ Len(done) + Len(undone) <= MaxSteps

\* What typedBlank_ and sealed_ know of what was typed last.
Words ==
    /\ tail = "none" =>
        sealed \/ done = <<>> \/ done[Len(done)].kind # "Typing"
    /\ tail = "word" => ~typedBlank

HistoryInv == TypeOK /\ Chain /\ Words

\* The steps and messages in a history.
LEMMA InChain ==
    ASSUME TypeOK, Chain
    PROVE  /\ Len(done) \in Nat /\ Len(undone) \in Nat
           /\ Len(past) = Len(done) /\ Len(future) = Len(undone)
           /\ \A i \in 1 .. Len(done) :
                /\ done[i] \in Step /\ past[i] \in Message
                /\ AfterDone(i) \in Message
                /\ Links(past[i], done[i], AfterDone(i))
                /\ past[i].focus = done[i].before
           /\ \A i \in 1 .. Len(undone) :
                /\ undone[i] \in Step /\ future[i] \in Message
                /\ BeforeUndone(i) \in Message
                /\ Links(BeforeUndone(i), undone[i], future[i])
<1>1. /\ done \in Seq(Step) /\ undone \in Seq(Step)
      /\ past \in Seq(Message) /\ future \in Seq(Message)
      /\ Len(done) \in Nat /\ Len(undone) \in Nat
      /\ Len(past) = Len(done) /\ Len(future) = Len(undone)
  BY LenProperties DEF TypeOK, Chain
<1>2. ASSUME NEW i \in 1 .. Len(done)
      PROVE  /\ done[i] \in Step /\ past[i] \in Message
             /\ AfterDone(i) \in Message
  <2>1. done[i] \in Step /\ past[i] \in Message
    BY <1>1, ElementOfSeq
  <2>2. CASE i = Len(done)
    <3>1. done # <<>>
      BY <1>1, <2>2
    <3> QED BY <2>1, <2>2, <3>1 DEF AfterDone, TypeOK, Chain
  <2>3. CASE i # Len(done)
    <3>1. i + 1 \in 1 .. Len(past)
      BY <1>1, <2>3
    <3>2. past[i + 1] \in Message
      BY <1>1, <3>1, ElementOfSeq
    <3> QED BY <2>1, <2>3, <3>2 DEF AfterDone
  <2> QED BY <2>2, <2>3
<1>3. ASSUME NEW i \in 1 .. Len(undone)
      PROVE  /\ undone[i] \in Step /\ future[i] \in Message
             /\ BeforeUndone(i) \in Message
  <2>1. undone[i] \in Step /\ future[i] \in Message
    BY <1>1, ElementOfSeq
  <2>2. CASE i = Len(undone)
    <3>1. undone # <<>>
      BY <1>1, <2>2
    <3> QED BY <2>1, <2>2, <3>1 DEF BeforeUndone, TypeOK, Chain
  <2>3. CASE i # Len(undone)
    <3>1. i + 1 \in 1 .. Len(future)
      BY <1>1, <2>3
    <3>2. future[i + 1] \in Message
      BY <1>1, <3>1, ElementOfSeq
    <3> QED BY <2>1, <2>3, <3>2 DEF BeforeUndone
  <2> QED BY <2>2, <2>3
<1> QED BY <1>1, <1>2, <1>3 DEF Chain

\* The invariant says what the properties say.
LEMMA InvariantSuffices ==
    ASSUME TypeOK, Chain
    PROVE  UndoRestores /\ RedoRestores /\ KeepsWithinLimit
<1>1. ASSUME NEW i \in 1 .. Len(done)
      PROVE  Apply(done[i], FALSE, AfterDone(i)) = past[i]
  <2>1. /\ done[i] \in Step /\ past[i] \in Message /\ AfterDone(i) \in Message
        /\ Links(past[i], done[i], AfterDone(i))
        /\ past[i].focus = done[i].before
    BY InChain
  <2>2. /\ Apply(done[i], FALSE, AfterDone(i)) \in Message
        /\ SameText(Apply(done[i], FALSE, AfterDone(i)), past[i])
        /\ Apply(done[i], FALSE, AfterDone(i)).focus = done[i].before
    BY <2>1, ApplyLinks
  <2> QED BY <2>1, <2>2, SameMessage
<1>2. ASSUME NEW i \in 1 .. Len(undone)
      PROVE  SameText(Apply(undone[i], TRUE, BeforeUndone(i)), future[i])
  BY InChain, ApplyLinks
<1> QED BY <1>1, <1>2 DEF UndoRestores, RedoRestores, KeepsWithinLimit, Chain
-----------------------------------------------------------------------------
\* A history that has just begun, or is begun again.
LEMMA ForgottenKeeps ==
    ASSUME NEW content, content = None \/ content \in Message,
           seen' = content, done' = <<>>, undone' = <<>>,
           past' = <<>>, future' = <<>>, typedBlank' = FALSE, sealed' = FALSE,
           tail' = "none", gathered' = FALSE
    PROVE  HistoryInv'
<1>1. Len(<<>>) = 0
  BY EmptySeq
<1>2. TypeOK'
  <2>1. /\ done' \in Seq(Step) /\ undone' \in Seq(Step)
        /\ past' \in Seq(Message) /\ future' \in Seq(Message)
    BY EmptySeq, Zenon
  <2>2. Len(done') <= MaxSteps
    BY <1>1, StepsAssumption
  <2>3. {typedBlank, sealed, gathered}' \subseteq BOOLEAN
    BY Zenon
  <2>4. tail' \in {"blank", "word", "none"}
    BY Zenon
  <2> QED BY <2>1, <2>2, <2>3, <2>4, Zenon DEF TypeOK
<1>3. Chain'
  BY <1>1, StepsAssumption DEF Chain
<1>4. Words'
  BY DEF Words
<1> QED BY <1>2, <1>3, <1>4 DEF HistoryInv

\* Without its last element.
LEMMA Shortened ==
    ASSUME NEW S, NEW s \in Seq(S), s # <<>>
    PROVE  /\ SubSeq(s, 1, Len(s) - 1) \in Seq(S)
           /\ Len(SubSeq(s, 1, Len(s) - 1)) = Len(s) - 1
           /\ Len(s) \in Nat \ {0}
           /\ \A i \in 1 .. Len(s) - 1 : SubSeq(s, 1, Len(s) - 1)[i] = s[i]
<1>1. Len(s) \in Nat \ {0}
  BY EmptySeq
<1> DEFINE q == Len(s) - 1
           front == SubSeq(s, 0 + 1, q)
<1>2. 0 \in Nat /\ q \in 0 .. Len(s) /\ q \in Nat /\ 0 <= q /\ q - 0 = q
  BY <1>1
<1> HIDE DEF q
<1>3. /\ front \in Seq(S)
      /\ Len(front) = IF 0 <= q THEN q - 0 ELSE 0
      /\ \A i \in 1 .. q - 0 : front[i] = s[0 + i]
  BY <1>2, Part, Zenon
<1>4. Len(front) = q /\ \A i \in 1 .. q : front[i] = s[i]
  BY <1>2, <1>3
<1>5. front = SubSeq(s, 1, q)
  BY DEF front
<1> HIDE DEF front
<1>6. /\ SubSeq(s, 1, q) \in Seq(S) /\ Len(SubSeq(s, 1, q)) = q
      /\ \A i \in 1 .. q : SubSeq(s, 1, q)[i] = s[i]
  BY <1>3, <1>4, <1>5, Zenon
<1> QED BY <1>1, <1>6 DEF q

\* Looking again: only where the typing stands is noted.
LEMMA LookKeeps ==
    ASSUME HistoryInv, NEW content \in Message, Look(content)
    PROVE  HistoryInv'
<1> USE DEF HistoryInv
<1>1. /\ seen \in Message /\ seen' \in Message /\ SameText(seen, seen')
      /\ seen # None /\ gathered' = FALSE
  BY DEF Look, TypeOK, Message, SameText
<1>2. UNCHANGED <<done, undone, typedBlank, sealed, past, future, tail>>
  BY DEF Look
<1>3. TypeOK'
  BY <1>1, <1>2 DEF TypeOK
<1>4. Chain'
  <2>1. ASSUME NEW i \in 1 .. Len(done)
        PROVE  /\ Links(past[i], done[i], AfterDone(i)')
               /\ past[i].focus = done[i].before
    <3>1. SameText(AfterDone(i), AfterDone(i)')
      BY <1>1, <1>2 DEF AfterDone, SameText
    <3>2. SameText(past[i], past[i])
      BY DEF SameText
    <3> QED BY <3>1, <3>2, LinksOfSameText DEF Chain
  <2>2. ASSUME NEW i \in 1 .. Len(undone)
        PROVE  Links(BeforeUndone(i)', undone[i], future[i])
    <3>1. SameText(BeforeUndone(i), BeforeUndone(i)')
      BY <1>1, <1>2 DEF BeforeUndone, SameText
    <3>2. SameText(future[i], future[i])
      BY DEF SameText
    <3> QED BY <3>1, <3>2, LinksOfSameText DEF Chain
  <2> QED BY <1>1, <1>2, <2>1, <2>2 DEF Chain
<1>5. Words'
  BY <1>2 DEF Words
<1> QED BY <1>3, <1>4, <1>5

\* A change gathered into the last step.
LEMMA GatherKeeps ==
    ASSUME HistoryInv, NEW content \in Message, NEW kind \in Kind, NEW blank \in BOOLEAN,
           Settle(content, kind, blank), Continues(StepOf(seen, content, kind), blank)
    PROVE  HistoryInv'
<1> USE DEF HistoryInv
<1> DEFINE step == StepOf(seen, content, kind)
           n == Len(done)
           last == done[n]
           merged == Merged(last, step)
<1>1. /\ seen \in Message /\ seen # None
      /\ done' = [done EXCEPT ![n] = merged]
      /\ past' = past /\ seen' = content /\ undone' = <<>> /\ future' = <<>>
      /\ typedBlank' = IF kind = "Typing" THEN blank ELSE typedBlank
      /\ sealed' = FALSE /\ gathered' \in BOOLEAN
      /\ tail' = IF kind # "Typing" THEN "none" ELSE IF blank THEN "blank" ELSE "word"
  BY DEF Settle, TypeOK, UndoneAfterChange
<1>2. /\ done # <<>> /\ last.kind = step.kind
      /\ \/ /\ last.headerAfter # None /\ step.headerAfter # None
            /\ last.inserted = <<>> /\ step.inserted = <<>>
            /\ last.removed = <<>> /\ step.removed = <<>>
         \/ /\ last.headerAfter = None /\ step.headerAfter = None
            /\ last.row = step.row
            /\ Len(last.removed) = 1 /\ Len(last.inserted) = 1
            /\ Len(step.removed) = 1 /\ Len(step.inserted) = 1
  BY DEF Continues
<1>3. /\ step \in Step /\ Links(seen, step, content) /\ step.kind = kind
  BY <1>1, StepLinks
<1>4. done \in Seq(Step) /\ n \in Nat \ {0} /\ n \in 1 .. n /\ n <= MaxSteps
  BY <1>2, EmptySeq DEF TypeOK
<1>5. /\ last \in Step /\ past[n] \in Message /\ Links(past[n], last, seen)
      /\ past[n].focus = last.before
  BY <1>4, InChain DEF AfterDone
<1> HIDE DEF step, last
<1>6. /\ merged \in Step /\ Links(past[n], merged, content)
      /\ merged.before = last.before /\ merged.kind = last.kind
  BY <1>1, <1>2, <1>3, <1>5, MergedLinks
<1> HIDE DEF merged
<1>7. /\ done' \in Seq(Step) /\ Len(done') = n
      /\ \A i \in 1 .. n : done'[i] = IF i = n THEN merged ELSE done[i]
  BY <1>1, <1>4, <1>6, ExceptSeq
<1> HIDE DEF n
<1>8. TypeOK'
  BY <1>1, <1>4, <1>7, EmptySeq DEF TypeOK
<1>9. Chain'
  <2>1. ASSUME NEW i \in 1 .. n
        PROVE  /\ Links(past'[i], done'[i], AfterDone(i)')
               /\ past'[i].focus = done'[i].before
    <3>1. CASE i = n
      <4>1. AfterDone(i)' = content
        BY <1>1, <1>7, <3>1 DEF AfterDone
      <4> QED BY <1>1, <1>5, <1>6, <1>7, <3>1, <4>1
    <3>2. CASE i # n
      <4>1. AfterDone(i)' = AfterDone(i)
        BY <1>1, <1>7, <3>2 DEF AfterDone, n
      <4>2. done'[i] = done[i] /\ i \in 1 .. Len(done)
        BY <1>7, <3>2 DEF n
      <4> QED BY <1>1, <4>1, <4>2, InChain
    <3> QED BY <3>1, <3>2
  <2>2. Len(<<>>) = 0
    BY EmptySeq
  <2>3. Len(past') = n
    BY <1>1 DEF Chain, n
  <2> QED BY <1>1, <1>4, <1>7, <2>1, <2>2, <2>3 DEF Chain
<1>10. Words'
  BY <1>1, <1>2, <1>3, <1>4, <1>6, <1>7 DEF Words
<1> QED BY <1>8, <1>9, <1>10

\* A change that is a step of its own.
LEMMA StartKeeps ==
    ASSUME HistoryInv, NEW content \in Message, NEW kind \in Kind, NEW blank \in BOOLEAN,
           Settle(content, kind, blank), ~Continues(StepOf(seen, content, kind), blank)
    PROVE  HistoryInv'
<1> USE DEF HistoryInv
<1> DEFINE step == StepOf(seen, content, kind)
           n == Len(done)
<1>1. /\ seen \in Message /\ seen # None
      /\ done' = Kept(Append(done, step))
      /\ past' = IF Len(done) < MaxSteps THEN Append(past, seen)
                 ELSE Append(Tail(past), seen)
      /\ seen' = content /\ undone' = <<>> /\ future' = <<>>
      /\ typedBlank' = IF kind = "Typing" THEN blank ELSE typedBlank
      /\ sealed' = FALSE /\ gathered' = FALSE
      /\ tail' = IF kind # "Typing" THEN "none" ELSE IF blank THEN "blank" ELSE "word"
  <2>1. ~Continues(step, blank)
    BY Zenon
  <2>2. /\ seen # None
        /\ done' = Kept(Append(done, step))
        /\ past' = IF Len(done) < MaxSteps THEN Append(past, seen)
                   ELSE Append(Tail(past), seen)
    BY <2>1, Zenon DEF Settle
  <2>3. /\ seen' = content /\ undone' = <<>> /\ future' = <<>>
        /\ typedBlank' = IF kind = "Typing" THEN blank ELSE typedBlank
        /\ sealed' = FALSE
        /\ tail' = IF kind # "Typing" THEN "none"
                   ELSE IF blank THEN "blank" ELSE "word"
    BY Zenon DEF Settle, UndoneAfterChange
  <2>4. gathered' = Continues(step, blank)
    BY Zenon DEF Settle
  <2>5. gathered' = FALSE
    BY <2>1, <2>4, Zenon DEF Continues
  <2> QED BY <2>2, <2>3, <2>5, Zenon DEF TypeOK
<1>2. /\ step \in Step /\ Links(seen, step, content) /\ step.kind = kind
      /\ step.before = seen.focus
  BY <1>1, StepLinks
<1>3. /\ done \in Seq(Step) /\ past \in Seq(Message)
      /\ n \in Nat /\ n <= MaxSteps /\ Len(past) = n
      /\ MaxSteps \in Nat \ {0}
  BY LenProperties, StepsAssumption DEF TypeOK, Chain
<1> HIDE DEF step
<1>4. /\ Append(done, step) \in Seq(Step) /\ Len(Append(done, step)) = n + 1
      /\ \A i \in 1 .. n : Append(done, step)[i] = done[i]
      /\ Append(done, step)[n + 1] = step
  BY <1>2, <1>3, AppendProperties
<1>5. Len(<<>>) = 0
  BY EmptySeq
<1>6. ASSUME NEW k \in Nat, k <= MaxSteps, k >= 1,
             done' \in Seq(Step), Len(done') = k,
             past' \in Seq(Message), Len(past') = k,
             done'[k] = step, past'[k] = seen,
             \A i \in 1 .. k - 1 :
                /\ done'[i] = done[i + n + 1 - k]
                /\ past'[i] = past[i + n + 1 - k],
             n + 1 - k \in Nat
      PROVE  HistoryInv'
  <2>1. TypeOK'
    BY <1>1, <1>6, EmptySeq DEF TypeOK
  <2>2. ASSUME NEW i \in 1 .. k
        PROVE  /\ Links(past'[i], done'[i], AfterDone(i)')
               /\ past'[i].focus = done'[i].before
    <3>1. CASE i = k
      <4>1. AfterDone(i)' = content
        BY <1>1, <1>6, <3>1 DEF AfterDone
      <4> QED BY <1>2, <1>6, <3>1, <4>1
    <3>2. CASE i # k
      <4> DEFINE j == i + n + 1 - k
      <4>1. i \in 1 .. k - 1 /\ j \in 1 .. n /\ i + 1 \in 1 .. k
        BY <1>3, <1>6, <3>2
      <4>2. done'[i] = done[j] /\ past'[i] = past[j]
        BY <1>6, <4>1
      <4>3. AfterDone(i)' = AfterDone(j)
        <5>1. AfterDone(i)' = past'[i + 1]
          BY <1>6, <3>2 DEF AfterDone
        <5>2. CASE i + 1 = k
          <6>1. j = n
            BY <1>3, <5>2
          <6> QED BY <1>6, <5>1, <5>2, <6>1 DEF AfterDone
        <5>3. CASE i + 1 # k
          <6>1. /\ i + 1 \in 1 .. k - 1 /\ (i + 1) + n + 1 - k = j + 1
                /\ j # n
            BY <1>3, <1>6, <4>1, <5>3
          <6>2. past'[i + 1] = past[(i + 1) + n + 1 - k]
            BY <1>6, <6>1
          <6>3. AfterDone(j) = past[j + 1]
            BY <6>1 DEF AfterDone
          <6> QED BY <5>1, <6>1, <6>2, <6>3
        <5> QED BY <5>2, <5>3
      <4> HIDE DEF j
      <4> QED BY <4>1, <4>2, <4>3, InChain
    <3> QED BY <3>1, <3>2
  <2>3. Chain'
    BY <1>1, <1>5, <1>6, <2>2 DEF Chain
  <2>4. Words'
    BY <1>1, <1>2, <1>6 DEF Words
  <2> QED BY <2>1, <2>3, <2>4
<1>7. CASE n < MaxSteps
  <2>1. done' = Append(done, step) /\ past' = Append(past, seen)
    BY <1>1, <1>3, <1>4, <1>7 DEF Kept
  <2>2. /\ past' \in Seq(Message) /\ Len(past') = n + 1
        /\ \A i \in 1 .. n : past'[i] = past[i]
        /\ past'[n + 1] = seen
    BY <1>1, <1>3, <2>1, AppendProperties
  <2> DEFINE k == n + 1
  <2>3. /\ k \in Nat /\ k <= MaxSteps /\ k >= 1 /\ n + 1 - k = 0
        /\ k - 1 = n /\ \A i \in 1 .. n : i + n + 1 - k = i
    BY <1>3, <1>7
  <2>4. /\ done' \in Seq(Step) /\ Len(done') = k /\ done'[k] = step
        /\ past' \in Seq(Message) /\ Len(past') = k /\ past'[k] = seen
        /\ \A i \in 1 .. k - 1 :
                /\ done'[i] = done[i + n + 1 - k]
                /\ past'[i] = past[i + n + 1 - k]
        /\ n + 1 - k \in Nat
    BY <1>4, <2>1, <2>2, <2>3
  <2> HIDE DEF k
  <2> QED BY <1>6, <2>3, <2>4
<1>8. CASE n = MaxSteps
  <2> DEFINE all == Append(done, step)
  <2>1. /\ done' = Tail(all) /\ past' = Append(Tail(past), seen)
        /\ all # <<>> /\ past # <<>>
    BY <1>1, <1>3, <1>4, <1>5, <1>8 DEF Kept
  <2>2. /\ all \in Seq(Step) /\ Len(all) = n + 1
        /\ \A i \in 1 .. n : all[i] = done[i]
        /\ all[n + 1] = step
    BY <1>4
  <2> HIDE DEF all
  <2>3. /\ done' \in Seq(Step) /\ Len(done') = n
        /\ \A i \in 1 .. n : done'[i] = all[i + 1]
    BY <1>3, <2>1, <2>2, HeadTailProperties
  <2>4. /\ Tail(past) \in Seq(Message) /\ Len(Tail(past)) = n - 1
        /\ \A i \in 1 .. n - 1 : Tail(past)[i] = past[i + 1]
    BY <1>3, <2>1, HeadTailProperties
  <2>5. /\ past' \in Seq(Message) /\ Len(past') = n
        /\ \A i \in 1 .. n - 1 : past'[i] = past[i + 1]
        /\ past'[n] = seen
    <3> DEFINE rest == Tail(past)
    <3>1. rest \in Seq(Message) /\ Len(rest) = n - 1
      BY <2>4
    <3> HIDE DEF rest
    <3>2. /\ Append(rest, seen) \in Seq(Message) /\ Len(Append(rest, seen)) = n
          /\ \A i \in 1 .. n - 1 : Append(rest, seen)[i] = rest[i]
          /\ Append(rest, seen)[n] = seen
      BY <1>1, <1>3, <3>1, AppendProperties
    <3>3. past' = Append(rest, seen)
      BY <2>1 DEF rest
    <3> QED BY <2>4, <3>2, <3>3 DEF rest
  <2>6. /\ n >= 1 /\ n + 1 - n = 1 /\ \A i \in 1 .. n - 1 : i + n + 1 - n = i + 1
        /\ n \in 1 .. n /\ \A i \in 1 .. n - 1 : i \in 1 .. n /\ i + 1 \in 1 .. n
    BY <1>3, <1>8
  <2>7. /\ done'[n] = step
        /\ \A i \in 1 .. n - 1 :
                /\ done'[i] = done[i + n + 1 - n]
                /\ past'[i] = past[i + n + 1 - n]
    BY <2>2, <2>3, <2>5, <2>6
  <2> HIDE DEF n
  <2> QED BY <1>3, <1>6, <2>3, <2>5, <2>6, <2>7
<1> QED BY <1>3, <1>7, <1>8

\* A step taken back.
LEMMA UndoKeeps ==
    ASSUME HistoryInv, Undo
    PROVE  HistoryInv'
<1> USE DEF HistoryInv
<1> DEFINE n == Len(done)
           m == Len(undone)
           step == done[n]
<1>1. /\ seen # None /\ done # <<>> /\ done \in Seq(Step) /\ past \in Seq(Message)
      /\ undone \in Seq(Step) /\ future \in Seq(Message) /\ seen \in Message
      /\ Len(past) = n /\ Len(future) = m /\ n + m <= MaxSteps
      /\ n <= MaxSteps /\ n \in Nat \ {0} /\ m \in Nat
      /\ MaxSteps \in Nat /\ past # <<>>
  <2>1. n \in Nat \ {0} /\ m \in Nat
    BY EmptySeq, LenProperties DEF Undo, TypeOK
  <2>2. past # <<>>
    BY <2>1, EmptySeq DEF Chain
  <2> QED BY <2>1, <2>2, StepsAssumption DEF Undo, TypeOK, Chain
<1>2. /\ seen' = Apply(step, FALSE, seen) /\ undone' = Append(undone, step)
      /\ done' = SubSeq(done, 1, n - 1)
      /\ past' = SubSeq(past, 1, Len(past) - 1)
      /\ future' = Append(future, seen)
      /\ sealed' = TRUE /\ tail' = "none" /\ gathered' = FALSE
      /\ typedBlank' = typedBlank
  BY Zenon DEF Undo
<1>3. /\ n \in 1 .. n /\ AfterDone(n) = seen
  BY <1>1 DEF AfterDone
<1>4. /\ step \in Step /\ past[n] \in Message /\ Links(past[n], step, seen)
      /\ past[n].focus = step.before
  BY <1>1, <1>3, InChain
<1> HIDE DEF step
<1>5. seen' \in Message /\ SameText(seen', past[n])
  BY <1>1, <1>2, <1>4, ApplyLinks
<1>6. /\ done' \in Seq(Step) /\ Len(done') = n - 1
      /\ \A i \in 1 .. n - 1 : done'[i] = done[i]
  BY <1>1, <1>2, Shortened
<1>7. /\ past' \in Seq(Message) /\ Len(past') = n - 1
      /\ \A i \in 1 .. n - 1 : past'[i] = past[i]
  BY <1>1, <1>2, Shortened
<1>8. /\ undone' \in Seq(Step) /\ Len(undone') = m + 1
      /\ \A i \in 1 .. m : undone'[i] = undone[i]
      /\ undone'[m + 1] = step
  BY <1>1, <1>2, <1>4, AppendProperties
<1>9. /\ future' \in Seq(Message) /\ Len(future') = m + 1
      /\ \A i \in 1 .. m : future'[i] = future[i]
      /\ future'[m + 1] = seen
  BY <1>1, <1>2, AppendProperties
<1>10. TypeOK'
  <2>1. Len(done') <= MaxSteps
    BY <1>1, <1>6
  <2>2. {typedBlank, sealed, gathered}' \subseteq BOOLEAN
    BY <1>2 DEF TypeOK
  <2> QED BY <1>2, <1>5, <1>6, <1>7, <1>8, <1>9, <2>1, <2>2 DEF TypeOK
<1>11. Chain'
  <2>1. ASSUME NEW i \in 1 .. n - 1
        PROVE  /\ Links(past'[i], done'[i], AfterDone(i)')
               /\ past'[i].focus = done'[i].before
    <3>1. i \in 1 .. n /\ i # n /\ done'[i] = done[i] /\ past'[i] = past[i]
      BY <1>1, <1>6, <1>7
    <3>2. Links(past[i], done[i], past[i + 1]) /\ past[i].focus = done[i].before
      BY <3>1 DEF Chain, AfterDone
    <3>3. SameText(AfterDone(i)', past[i + 1])
      <4>1. CASE i = n - 1
        <5>1. AfterDone(i)' = seen' /\ i + 1 = n
          BY <1>1, <1>6, <4>1 DEF AfterDone
        <5> QED BY <1>5, <5>1
      <4>2. CASE i # n - 1
        <5>1. i + 1 \in 1 .. n - 1
          BY <1>1, <4>2
        <5>2. AfterDone(i)' = past'[i + 1]
          BY <1>6, <4>2 DEF AfterDone
        <5> QED BY <1>7, <5>1, <5>2 DEF SameText
      <4> QED BY <4>1, <4>2
    <3>4. SameText(past[i], past'[i]) /\ SameText(past[i + 1], AfterDone(i)')
      BY <3>1, <3>3 DEF SameText
    <3> QED BY <3>1, <3>2, <3>4, LinksOfSameText
  <2>2. ASSUME NEW i \in 1 .. m + 1
        PROVE  Links(BeforeUndone(i)', undone'[i], future'[i])
    <3>1. CASE i = m + 1
      <4>1. BeforeUndone(i)' = seen'
        BY <1>8, <3>1 DEF BeforeUndone
      <4>2. SameText(past[n], seen') /\ SameText(seen, seen)
        BY <1>5 DEF SameText
      <4> QED BY <1>4, <1>8, <1>9, <3>1, <4>1, <4>2, LinksOfSameText
    <3>2. CASE i # m + 1
      <4>1. i \in 1 .. m /\ undone'[i] = undone[i] /\ future'[i] = future[i]
        BY <1>1, <1>8, <1>9, <3>2
      <4>2. BeforeUndone(i)' = future'[i + 1]
        BY <1>8, <3>2 DEF BeforeUndone
      <4>3. BeforeUndone(i)' = BeforeUndone(i)
        <5>1. CASE i = m
          BY <1>9, <4>2, <5>1 DEF BeforeUndone
        <5>2. CASE i # m
          <6>1. i + 1 \in 1 .. m
            BY <1>1, <4>1, <5>2
          <6> QED BY <1>9, <4>2, <5>2, <6>1 DEF BeforeUndone
        <5> QED BY <5>1, <5>2
      <4> QED BY <4>1, <4>3 DEF Chain
    <3> QED BY <3>1, <3>2
  <2>3. n - 1 + (m + 1) <= MaxSteps
    BY <1>1
  <2> QED BY <1>5, <1>6, <1>7, <1>8, <1>9, <2>1, <2>2, <2>3 DEF Chain
<1>12. Words'
  BY <1>2 DEF Words
<1> QED BY <1>10, <1>11, <1>12

\* A step put back.
LEMMA RedoKeeps ==
    ASSUME HistoryInv, Redo
    PROVE  HistoryInv'
<1> USE DEF HistoryInv
<1> DEFINE n == Len(done)
           m == Len(undone)
           step == undone[m]
           was == [seen EXCEPT !.focus = step.before]
<1>1. /\ seen # None /\ undone # <<>> /\ done \in Seq(Step) /\ past \in Seq(Message)
      /\ undone \in Seq(Step) /\ future \in Seq(Message) /\ seen \in Message
      /\ Len(past) = n /\ Len(future) = m /\ n + m <= MaxSteps
      /\ m \in Nat \ {0} /\ n \in Nat
      /\ MaxSteps \in Nat /\ future # <<>>
  <2>1. m \in Nat \ {0} /\ n \in Nat
    BY EmptySeq, LenProperties DEF Redo, TypeOK
  <2>2. future # <<>>
    BY <2>1, EmptySeq DEF Chain
  <2> QED BY <2>1, <2>2, StepsAssumption DEF Redo, TypeOK, Chain
<1>2. /\ seen' = Apply(step, TRUE, seen) /\ done' = Append(done, step)
      /\ undone' = SubSeq(undone, 1, m - 1)
      /\ past' = Append(past, was)
      /\ future' = SubSeq(future, 1, Len(future) - 1)
      /\ sealed' = TRUE /\ tail' = "none" /\ gathered' = FALSE
      /\ typedBlank' = typedBlank
  BY Zenon DEF Redo
<1>3. m \in 1 .. m /\ BeforeUndone(m) = seen
  BY <1>1 DEF BeforeUndone
<1>4. step \in Step /\ future[m] \in Message /\ Links(seen, step, future[m])
  BY <1>1, <1>3, InChain
<1>5. was \in Message /\ SameText(was, seen) /\ was.focus = step.before
  BY <1>1, <1>4 DEF Message, Step, SameText
<1> HIDE DEF step, was
<1>6. seen' \in Message /\ SameText(seen', future[m])
  BY <1>1, <1>2, <1>4, ApplyLinks
<1>7. /\ undone' \in Seq(Step) /\ Len(undone') = m - 1
      /\ \A i \in 1 .. m - 1 : undone'[i] = undone[i]
  BY <1>1, <1>2, Shortened
<1>8. /\ future' \in Seq(Message) /\ Len(future') = m - 1
      /\ \A i \in 1 .. m - 1 : future'[i] = future[i]
  BY <1>1, <1>2, Shortened
<1>9. /\ done' \in Seq(Step) /\ Len(done') = n + 1
      /\ \A i \in 1 .. n : done'[i] = done[i]
      /\ done'[n + 1] = step
  BY <1>1, <1>2, <1>4, AppendProperties
<1>10. /\ past' \in Seq(Message) /\ Len(past') = n + 1
       /\ \A i \in 1 .. n : past'[i] = past[i]
       /\ past'[n + 1] = was
  BY <1>1, <1>2, <1>5, AppendProperties
<1>11. TypeOK'
  <2>1. Len(done') <= MaxSteps
    BY <1>1, <1>9
  <2>2. {typedBlank, sealed, gathered}' \subseteq BOOLEAN
    BY <1>2 DEF TypeOK
  <2> QED BY <1>2, <1>6, <1>7, <1>8, <1>9, <1>10, <2>1, <2>2 DEF TypeOK
<1>12. Chain'
  <2>1. ASSUME NEW i \in 1 .. n + 1
        PROVE  /\ Links(past'[i], done'[i], AfterDone(i)')
               /\ past'[i].focus = done'[i].before
    <3>1. CASE i = n + 1
      <4>1. AfterDone(i)' = seen'
        BY <1>9, <3>1 DEF AfterDone
      <4>2. SameText(seen, was) /\ SameText(future[m], seen')
        BY <1>5, <1>6 DEF SameText
      <4>3. Links(was, step, seen')
        BY <1>4, <4>2, LinksOfSameText
      <4> QED BY <1>5, <1>9, <1>10, <3>1, <4>1, <4>3
    <3>2. CASE i # n + 1
      <4>1. i \in 1 .. n /\ done'[i] = done[i] /\ past'[i] = past[i]
        BY <1>1, <1>9, <1>10, <3>2
      <4>2. AfterDone(i)' = past'[i + 1]
        BY <1>9, <3>2 DEF AfterDone
      <4>3. SameText(AfterDone(i), AfterDone(i)')
        <5>1. CASE i = n
          BY <1>5, <1>10, <4>2, <5>1 DEF AfterDone, SameText
        <5>2. CASE i # n
          <6>1. i + 1 \in 1 .. n
            BY <1>1, <4>1, <5>2
          <6> QED BY <1>10, <4>2, <5>2, <6>1 DEF AfterDone, SameText
        <5> QED BY <5>1, <5>2
      <4>4. SameText(past[i], past'[i])
        BY <4>1 DEF SameText
      <4>5. Links(past[i], done[i], AfterDone(i)) /\ past[i].focus = done[i].before
        BY <4>1 DEF Chain
      <4> QED BY <4>1, <4>3, <4>4, <4>5, LinksOfSameText
    <3> QED BY <3>1, <3>2
  <2>2. ASSUME NEW i \in 1 .. m - 1
        PROVE  Links(BeforeUndone(i)', undone'[i], future'[i])
    <3>1. /\ i \in 1 .. m /\ i # m /\ undone'[i] = undone[i]
          /\ future'[i] = future[i]
      BY <1>1, <1>7, <1>8
    <3>2. Links(future[i + 1], undone[i], future[i])
      BY <3>1 DEF Chain, BeforeUndone
    <3>3. SameText(future[i + 1], BeforeUndone(i)')
      <4>1. CASE i = m - 1
        <5>1. BeforeUndone(i)' = seen' /\ i + 1 = m
          BY <1>1, <1>7, <4>1 DEF BeforeUndone
        <5> QED BY <1>6, <5>1 DEF SameText
      <4>2. CASE i # m - 1
        <5>1. i + 1 \in 1 .. m - 1
          BY <1>1, <4>2
        <5>2. BeforeUndone(i)' = future'[i + 1]
          BY <1>7, <4>2 DEF BeforeUndone
        <5> QED BY <1>8, <5>1, <5>2 DEF SameText
      <4> QED BY <4>1, <4>2
    <3>4. SameText(future[i], future'[i])
      BY <3>1 DEF SameText
    <3> QED BY <3>1, <3>2, <3>3, <3>4, LinksOfSameText
  <2>3. n + 1 + (m - 1) <= MaxSteps
    BY <1>1
  <2> QED BY <1>6, <1>7, <1>8, <1>9, <1>10, <2>1, <2>2, <2>3 DEF Chain
<1>13. Words'
  BY <1>2 DEF Words
<1> QED BY <1>11, <1>12, <1>13
-----------------------------------------------------------------------------
\* A change, gathered or not.
LEMMA SettleKeeps ==
    ASSUME HistoryInv, NEW content \in Message, NEW kind \in Kind, NEW blank \in BOOLEAN,
           Settle(content, kind, blank)
    PROVE  HistoryInv'
BY GatherKeeps, StartKeeps

\* Every step of the history keeps the invariant, and so does none.
LEMMA NextKeeps ==
    ASSUME HistoryInv, [HistoryNext]_historyVars
    PROVE  HistoryInv'
<1>1. Content \subseteq Message
  BY TextsAssumption DEF Content, Message
<1>2. {"Typing", "Deleting", "Other"} \subseteq Kind /\ FALSE \in BOOLEAN
  BY DEF Kind
<1>3. ASSUME NEW content \in Content, Begin(content)
      PROVE  HistoryInv'
  <2>1. content \in Message
    BY <1>1
  <2> QED BY <1>3, <2>1, ForgottenKeeps, Zenon DEF Begin, Forgotten
<1>4. ASSUME NEW content \in Content, Other(content)
      PROVE  HistoryInv'
  <2>1. CASE Look(content)
    BY <1>1, <2>1, LookKeeps
  <2>2. CASE Settle(content, "Other", FALSE)
    BY <1>1, <1>2, <2>2, SettleKeeps
  <2> QED BY <1>4, <2>1, <2>2 DEF Other
<1>5. ASSUME NEW content \in Content, Delete(content)
      PROVE  HistoryInv'
  BY <1>1, <1>2, <1>5, SettleKeeps DEF Delete
<1>6. ASSUME NEW content \in Content, NEW blank \in BOOLEAN, Type(content, blank)
      PROVE  HistoryInv'
  BY <1>1, <1>2, <1>6, SettleKeeps DEF Type
<1>7. CASE Clear
  BY <1>7, ForgottenKeeps, Zenon DEF Clear, Forgotten
<1>8. CASE Undo
  BY <1>8, UndoKeeps
<1>9. CASE Redo
  BY <1>9, RedoKeeps
<1>10. CASE UNCHANGED historyVars
  <2>1. /\ seen' = seen /\ done' = done /\ undone' = undone
        /\ typedBlank' = typedBlank /\ sealed' = sealed /\ past' = past
        /\ future' = future /\ tail' = tail
        /\ gathered' = gathered
    BY <1>10 DEF historyVars
  <2> QED BY <2>1 DEF HistoryInv, TypeOK, Chain, Words, AfterDone, BeforeUndone
<1> QED BY <1>3, <1>4, <1>5, <1>6, <1>7, <1>8, <1>9, <1>10 DEF HistoryNext

LEMMA Inductive == HistorySpec => []HistoryInv
<1>1. HistoryInit => HistoryInv
  <2>1. ASSUME HistoryInit PROVE HistoryInv
    <3>1. Len(<<>>) = 0 /\ <<>> \in Seq(Step) /\ <<>> \in Seq(Message)
      BY EmptySeq
    <3>2. TypeOK
      <4>1. /\ done \in Seq(Step) /\ undone \in Seq(Step)
            /\ past \in Seq(Message) /\ future \in Seq(Message)
            /\ seen = None
        BY <2>1, <3>1, Zenon DEF HistoryInit
      <4>2. Len(done) <= MaxSteps
        BY <2>1, <3>1, StepsAssumption DEF HistoryInit
      <4>3. /\ {typedBlank, sealed, gathered} \subseteq BOOLEAN
            /\ tail \in {"blank", "word", "none"}
        BY <2>1, Zenon DEF HistoryInit
      <4> QED BY <4>1, <4>2, <4>3, Zenon DEF TypeOK
    <3>3. Chain
      BY <2>1, <3>1, StepsAssumption DEF HistoryInit, Chain
    <3>4. Words
      BY <2>1 DEF HistoryInit, Words
    <3> QED BY <3>2, <3>3, <3>4 DEF HistoryInv
  <2> QED BY <2>1
<1>2. HistoryInv /\ [HistoryNext]_historyVars => HistoryInv'
  BY NextKeeps
<1> QED BY <1>1, <1>2, PTL DEF HistorySpec

\* The history's state keeps its types, whatever is typed, taken back and put
\* back (ui/edit_history.hpp).
THEOREM TypeCorrect == HistorySpec => []TypeOK
BY Inductive, PTL DEF HistoryInv

\* Taking every step back, the last first, passes through exactly the messages
\* there were (edit_history.cpp, settle() and apply()).
THEOREM UndoIsFaithful == HistorySpec => []UndoRestores
<1>1. HistoryInv => UndoRestores
  BY InvariantSuffices DEF HistoryInv
<1> QED BY <1>1, Inductive, PTL

\* Putting every undone step back passes through the texts there were
\* (edit_history.cpp, settle() and apply()).
THEOREM RedoIsFaithful == HistorySpec => []RedoRestores
<1>1. HistoryInv => RedoRestores
  BY InvariantSuffices DEF HistoryInv
<1> QED BY <1>1, Inductive, PTL

\* Done and undone together stay within the limit of kMaxSteps, whatever that
\* limit is (edit_history.cpp, settle()).
THEOREM LimitIsKept == HistorySpec => []KeepsWithinLimit
<1>1. HistoryInv => KeepsWithinLimit
  BY InvariantSuffices DEF HistoryInv
<1> QED BY <1>1, Inductive, PTL

\* A step gathers one word, or the blanks after one: what was typed after an
\* undo or another kind of change is never gathered into the step before
\* (edit_history.cpp, continues()).
THEOREM WordsAreKeptApart == HistorySpec => OneWordAStep
<1> DEFINE Apart == gathered' /\ tail' # "none" => tail = "blank" \/ tail = tail'
<1>1. ASSUME HistoryInv, [HistoryNext]_historyVars
      PROVE  [Apart]_historyVars
  <2>1. ASSUME NEW content \in Content, NEW kind \in Kind, NEW blank \in BOOLEAN,
               Settle(content, kind, blank)
        PROVE  Apart
    <3> DEFINE step == StepOf(seen, content, kind)
    <3>1. SUFFICES ASSUME gathered', tail' # "none"
                   PROVE  tail = "blank" \/ tail = tail'
      OBVIOUS
    <3>2. /\ Continues(step, blank)
          /\ tail' = IF kind # "Typing" THEN "none"
                     ELSE IF blank THEN "blank" ELSE "word"
      BY <2>1, <3>1, Zenon DEF Settle
    <3>3. kind = "Typing" /\ step.kind = kind
      BY <3>1, <3>2 DEF StepOf
    <3>4. /\ ~sealed /\ done # <<>> /\ done[Len(done)].kind = "Typing"
          /\ blank => typedBlank
      BY <3>2, <3>3, Zenon DEF Continues
    <3>5. tail # "none" /\ tail \in {"blank", "word", "none"}
      BY <1>1, <3>4 DEF HistoryInv, Words, TypeOK
    <3>6. CASE blank
      BY <1>1, <3>4, <3>5, <3>6 DEF HistoryInv, Words
    <3>7. CASE ~blank
      BY <3>2, <3>3, <3>5, <3>7
    <3> QED BY <3>6, <3>7
  <2>2. ASSUME NEW content \in Content, Begin(content) \/ Look(content)
        PROVE  Apart
    BY <2>2, Zenon DEF Begin, Forgotten, Look
  <2>3. CASE Clear \/ Undo \/ Redo
    BY <2>3, Zenon DEF Clear, Forgotten, Undo, Redo
  <2>4. {"Typing", "Deleting", "Other"} \subseteq Kind /\ FALSE \in BOOLEAN
    BY DEF Kind
  <2> HIDE DEF Apart
  <2>5. CASE HistoryNext
    BY <2>1, <2>2, <2>3, <2>4, <2>5 DEF HistoryNext, Other, Type, Delete
  <2> QED BY <1>1, <2>5
<1> QED BY <1>1, Inductive, PTL DEF HistorySpec, OneWordAStep

(***************************************************************************)
(* Writing a message and storing it                                        *)
(***************************************************************************)

\* --------------------------------------------------------------------------
\* What is written, and the run of its commands

Anyone == Recipient \cup {Blank}

InText == [greets : Anyone, words : Nat, lines : Seq(scope.lines)]

Held == [of : Nat, to : Anyone, words : Nat, lines : Seq(scope.lines),
         copy : BOOLEAN]

InRun == [process : BOOLEAN, commands : Seq(scope.lines), at : Nat,
          carbons : Seq(Anyone), posts : SUBSET Area, keep : SUBSET scope.lines,
          unresolved : BOOLEAN, text : InText]

Item == [line : scope.lines, token : Token]

Typed ==
    /\ scope \in Scopes
    /\ areas \in [Area -> Seq(Held)]
    /\ shown \in 0 .. Len(areas[Here])
    /\ messageCount \in 0 .. Len(areas[Here])
    /\ screen \in {"reader", "list", "compose"}
    /\ begun \in Nat
    /\ compose \in [kind : Kinds, area : Area, to : Anyone]
    /\ edit \in [text : InText, startText : InText \cup {Cleared},
                 startTo : Anyone, inHeader : BOOLEAN]
    /\ copyRun \in InRun \cup {NoRun}

\* What a token the walk has passed came to, or that its line is to stay.
Done(run, item) ==
    \/ item.line \in run.keep
    \/ IsMask(item) /\ item.token.areas # {} /\ Covered(item) \subseteq run.posts
    \/ Found(item) /\ \/ AddressesTheSame(item)
                      \/ item.token.who \in Range(run.carbons)
    \/ Asks(item) /\ run.carbons # <<>>

\* The run as far as the walk has come: every token it has passed is done, and
\* nothing is to be copied that no token names.
Walking(run) ==
    LET items == Items(run.commands) IN
    /\ run.commands = CommandsIn(edit.text, compose.area)
    /\ run.at \in 1 .. Len(items) + 1
    /\ \A j \in 1 .. run.at - 1 : Done(run, items[j])
    /\ \A a \in run.posts : \E item \in Range(items) : a \in Covered(item)
    /\ \A who \in Range(run.carbons) : \E item \in Range(items) :
            Asks(item) \/ (Found(item) /\ item.token.who = who)

\* The run with nothing left to walk and the lines carried out taken out.
Complete(run) ==
    /\ Walking(run)
    /\ run.at = Len(Items(run.commands)) + 1
    /\ run.text.words = edit.text.words
    /\ run.text.lines =
            Selected(edit.text.lines,
                     run.keep \cup (Range(edit.text.lines) \ Range(run.commands)))
    /\ \A l \in Range(run.commands) : l.tokens = <<>> => l \in run.keep

\* The answers to the questions about the commands are those of this message.
Answered(run) ==
    /\ run \in InRun
    /\ compose.to # Blank /\ compose.kind # "change"
    /\ run.process => Complete(run)

\* An area that will take nothing of the message, whatever is asked about it.
Unwritable == compose.area = Here /\ ~scope.writable

\* A box belongs to the message on the screen, and to its commands.
Dialogs ==
    /\ box \in {"save", "drop", "process", "node", "editor", "review"} => Composing
    /\ box = "save" => copyRun = NoRun
    /\ box \in {"editor", "review"} => scope.external
    /\ box \in {"process", "node"} =>
            /\ copyRun \in InRun /\ Walking(copyRun)
            /\ compose.to # Blank /\ compose.kind # "change"
    /\ box = "node" => /\ copyRun.at <= Len(Items(copyRun.commands))
                       /\ Asks(Items(copyRun.commands)[copyRun.at])
                       /\ copyRun.process

\* Nothing is stored of what is being written.
Numbered ==
    \A a \in Area : \A m \in Range(areas[a]) :
        m.of <= begun /\ (Composing => m.of # begun)

\* The template has none of the user's words.
Started == edit.startText # Cleared => edit.startText.words = 0

\* What is changed is the message on the screen.
Changing == Composing /\ compose.kind = "change" =>
                compose.area = Here /\ shown # 0 /\ scope.writable

\* Answers about the commands outlive a refused store only for an editor that
\* asks for them again, or an area that takes nothing.
Refused ==
    /\ ~Composing \/ scope.lines = {} => copyRun = NoRun
    /\ Composing /\ scope.external /\ copyRun # NoRun
            /\ box \notin {"process", "node"} => Unwritable

\* The inductive invariant.
IInv == Typed /\ Dialogs /\ Numbered /\ Started /\ Changing /\ Refused

\* No message that is written outside and has commands is refused: its answers
\* would be those of the text that was refused (the first finding).
AskedAgain == \A s \in Scopes : s.external => (~s.refusals \/ s.lines = {})

\* --------------------------------------------------------------------------
\* Sequences of lines, tokens and messages

\* What a sequence holds when another is put behind it or one element is.
LEMMA JoinedRange ==
    ASSUME NEW S, NEW s \in Seq(S), NEW t \in Seq(S)
    PROVE  /\ s \o t \in Seq(S)
           /\ Range(s \o t) = Range(s) \cup Range(t)
<1>1. s \o t \in Seq(S) /\ Len(s \o t) = Len(s) + Len(t)
      /\ Len(s) \in Nat /\ Len(t) \in Nat
  OBVIOUS
<1>2. /\ \A i \in 1 .. Len(s) : (s \o t)[i] = s[i]
      /\ \A i \in 1 .. Len(t) : (s \o t)[Len(s) + i] = t[i]
  OBVIOUS
<1>a. DOMAIN (s \o t) = 1 .. Len(s) + Len(t)
  BY <1>1
<1>3. ASSUME NEW x \in Range(s \o t) PROVE x \in Range(s) \cup Range(t)
  <2>1. PICK i \in 1 .. Len(s) + Len(t) : x = (s \o t)[i]
    BY <1>1, <1>3 DEF Range
  <2>2. CASE i <= Len(s)
    BY <2>1, <2>2, <1>1, <1>2 DEF Range
  <2>3. CASE i > Len(s)
    <3>1. i - Len(s) \in 1 .. Len(t) /\ Len(s) + (i - Len(s)) = i
      BY <2>1, <2>3, <1>1
    <3> QED
      BY <2>1, <3>1, <1>2 DEF Range
  <2> QED
    BY <2>1, <2>2, <2>3, <1>1
<1>4. ASSUME NEW x \in Range(s) \cup Range(t) PROVE x \in Range(s \o t)
  <2>1. CASE x \in Range(s)
    <3>1. PICK i \in 1 .. Len(s) : x = s[i]
      BY <2>1 DEF Range
    <3> QED
      BY <3>1, <1>1, <1>2 DEF Range
  <2>2. CASE x \in Range(t)
    <3>1. PICK i \in 1 .. Len(t) : x = t[i]
      BY <2>2 DEF Range
    <3>2. Len(s) + i \in 1 .. Len(s) + Len(t)
      BY <3>1, <1>1
    <3>3. x = (s \o t)[Len(s) + i]
      BY <3>1, <1>2
    <3> HIDE DEF Range
    <3> QED
      BY <3>2, <3>3, <1>a DEF Range
  <2> QED
    BY <1>4, <2>1, <2>2
<1> QED
  BY <1>1, <1>3, <1>4

LEMMA AppendedRange ==
    ASSUME NEW S, NEW s \in Seq(S), NEW x \in S
    PROVE  /\ Append(s, x) \in Seq(S)
           /\ Range(Append(s, x)) = Range(s) \cup {x}
           /\ Len(Append(s, x)) = Len(s) + 1
           /\ Append(s, x)[Len(s) + 1] = x
           /\ \A i \in 1 .. Len(s) : Append(s, x)[i] = s[i]
<1>1. /\ Append(s, x) \in Seq(S) /\ Len(Append(s, x)) = Len(s) + 1
      /\ Append(s, x)[Len(s) + 1] = x /\ Len(s) \in Nat
      /\ \A i \in 1 .. Len(s) : Append(s, x)[i] = s[i]
  OBVIOUS
<1>2. DOMAIN Append(s, x) = 1 .. Len(s) + 1 /\ DOMAIN s = 1 .. Len(s)
  BY <1>1
<1>3. Range(Append(s, x)) = Range(s) \cup {x}
  BY <1>1, <1>2 DEF Range
<1> QED
  BY <1>1, <1>3

LEMMA RangeIn ==
    ASSUME NEW S, NEW s \in Seq(S)
    PROVE  Range(s) \subseteq S /\ (s = <<>> <=> Range(s) = {})
<1>1. Range(s) \subseteq S
  BY DEF Range
<1>2. s = <<>> => Range(s) = {}
  BY DEF Range
<1>3. s # <<>> => s[1] \in Range(s)
  BY DEF Range
<1> QED
  BY <1>1, <1>2, <1>3

\* The recursion of Selected, up to m elements.
Selects(s, K, m, upto) ==
    upto = [n \in 0 .. m |-> IF n = 0 THEN <<>>
                             ELSE IF s[n] \in K THEN Append(upto[n - 1], s[n])
                             ELSE upto[n - 1]]

LEMMA SelectsStep ==
    ASSUME NEW s, NEW K, NEW m \in Nat, NEW upto, Selects(s, K, m, upto)
    PROVE  /\ upto[0] = <<>>
           /\ \A n \in 1 .. m :
                upto[n] = IF s[n] \in K THEN Append(upto[n - 1], s[n])
                          ELSE upto[n - 1]
<1> DEFINE F(n) == IF n = 0 THEN <<>>
                   ELSE IF s[n] \in K THEN Append(upto[n - 1], s[n])
                   ELSE upto[n - 1]
<1>1. upto = [n \in 0 .. m |-> F(n)]
  BY DEF Selects
<1>2. \A n \in 0 .. m : upto[n] = F(n)
  <2> HIDE DEF F
  <2> QED
    BY <1>1
<1>3. upto[0] = F(0) /\ \A n \in 1 .. m : upto[n] = F(n) /\ n # 0
  BY <1>2
<1> QED
  BY <1>3

LEMMA SelectsExists ==
    ASSUME NEW s, NEW K, NEW m \in Nat
    PROVE  \E upto : Selects(s, K, m, upto)
<1> DEFINE T == {k \in Nat : ~ \E upto : Selects(s, K, k, upto)}
<1>1. SUFFICES ASSUME T # {} PROVE FALSE
  OBVIOUS
<1>2. PICK n \in T : \A k \in T : n <= k
  BY <1>1, LeastNumber
<1>3. CASE n = 0
  <2> DEFINE upto == [k \in 0 .. 0 |-> <<>>]
  <2>1. Selects(s, K, 0, upto)
    BY DEF Selects
  <2> QED
    BY <2>1, <1>3
<1>4. CASE n # 0
  <2>1. n \in Nat /\ n - 1 \in Nat /\ n - 1 \notin T
    BY <1>2, <1>4
  <2>2. PICK upto : Selects(s, K, n - 1, upto)
    BY <2>1
  <2>3. /\ upto[0] = <<>>
        /\ \A k \in 1 .. n - 1 :
                upto[k] = IF s[k] \in K THEN Append(upto[k - 1], s[k])
                          ELSE upto[k - 1]
    <3> HIDE DEF T
    <3> QED
      BY <2>1, <2>2, SelectsStep
  <2> DEFINE last == IF s[n] \in K THEN Append(upto[n - 1], s[n])
                     ELSE upto[n - 1]
             next == [k \in 0 .. n |-> IF k = n THEN last ELSE upto[k]]
  <2>4. \A k \in 0 .. n - 1 : next[k] = upto[k]
    BY <2>1
  <2>5. next[n] = last
    BY <2>1
  <2>6. next = [k \in 0 .. n |-> next[k]]
    OBVIOUS
  <2>7. last = IF s[n] \in K THEN Append(next[n - 1], s[n]) ELSE next[n - 1]
    BY <2>1, <2>4
  <2> HIDE DEF next, last, T
  <2>8. ASSUME NEW k \in 0 .. n
        PROVE  next[k] = IF k = 0 THEN <<>>
                         ELSE IF s[k] \in K THEN Append(next[k - 1], s[k])
                         ELSE next[k - 1]
    <3>1. CASE k = n
      BY <3>1, <2>5, <2>7, <1>4
    <3>2. CASE k = 0
      BY <3>2, <2>1, <2>3, <2>4
    <3>3. CASE k # n /\ k # 0
      <4>1. k \in 1 .. n - 1 /\ k \in 0 .. n - 1 /\ k - 1 \in 0 .. n - 1
        BY <3>3, <2>1
      <4> QED
        BY <4>1, <3>3, <2>3, <2>4
    <3> QED
      BY <3>1, <3>2, <3>3
  <2>9. Selects(s, K, n, next)
    BY <2>6, <2>8 DEF Selects
  <2> QED
    BY <2>9, <1>2 DEF T
<1> QED
  BY <1>3, <1>4

UpTo(s, m) == {s[i] : i \in 1 .. m}

LEMMA SelectsThose ==
    ASSUME NEW S, NEW s \in Seq(S), NEW K, NEW upto,
           Selects(s, K, Len(s), upto), NEW m \in 0 .. Len(s)
    PROVE  /\ upto[m] \in Seq(S)
           /\ Range(upto[m]) = UpTo(s, m) \cap K
<1> DEFINE Wrong(k) == ~ (/\ upto[k] \in Seq(S)
                          /\ Range(upto[k]) = UpTo(s, k) \cap K)
           T == {k \in 0 .. Len(s) : Wrong(k)}
<1>0. Len(s) \in Nat /\ \A i \in 1 .. Len(s) : s[i] \in S
  OBVIOUS
<1>1. SUFFICES ASSUME T # {} PROVE FALSE
  OBVIOUS
<1>2. PICK n \in T : \A k \in T : n <= k
  <2>1. T \in SUBSET Nat
    BY <1>0
  <2> HIDE DEF T
  <2> QED
    BY <1>1, <2>1, LeastNumber
<1>3. /\ upto[0] = <<>>
      /\ \A k \in 1 .. Len(s) :
            upto[k] = IF s[k] \in K THEN Append(upto[k - 1], s[k])
                      ELSE upto[k - 1]
  BY <1>0, SelectsStep
<1>4. CASE n = 0
  <2>1. upto[0] \in Seq(S) /\ Range(upto[0]) = {}
    <3>1. <<>> \in Seq(S)
      OBVIOUS
    <3> QED
      BY <1>3, <3>1, RangeIn, Zenon
  <2>2. UpTo(s, 0) = {}
    BY DEF UpTo
  <2> QED
    BY <2>1, <2>2, <1>2, <1>4
<1>5. CASE n # 0
  <2>1. n \in 1 .. Len(s) /\ n - 1 \in 0 .. Len(s) /\ ~ (n <= n - 1)
    BY <1>0, <1>2, <1>5
  <2>2. ~ Wrong(n - 1)
    BY <1>2, <2>1
  <2>3. UpTo(s, n) = UpTo(s, n - 1) \cup {s[n]}
    <3>1. 1 .. n = (1 .. n - 1) \cup {n}
      BY <2>1
    <3> QED
      BY <3>1 DEF UpTo
  <2>4. CASE s[n] \in K
    <3>1. upto[n] = Append(upto[n - 1], s[n])
      BY <1>3, <2>1, <2>4
    <3>2. Range(upto[n]) = Range(upto[n - 1]) \cup {s[n]} /\ upto[n] \in Seq(S)
      BY <1>0, <2>1, <2>2, <3>1, AppendedRange
    <3> QED
      BY <2>2, <2>3, <2>4, <3>2, <1>2
  <2>5. CASE s[n] \notin K
    <3>1. upto[n] = upto[n - 1]
      BY <1>3, <2>1, <2>5
    <3> QED
      BY <2>2, <2>3, <2>5, <3>1, <1>2
  <2> QED
    BY <2>4, <2>5
<1> QED
  BY <1>4, <1>5

\* Selected() keeps the elements of K.
LEMMA SelectedHolds ==
    ASSUME NEW S, NEW s \in Seq(S), NEW K
    PROVE  /\ Selected(s, K) \in Seq(S)
           /\ Range(Selected(s, K)) = Range(s) \cap K
<1> DEFINE U == CHOOSE upto : Selects(s, K, Len(s), upto)
<1>1. Len(s) \in Nat /\ DOMAIN s = 1 .. Len(s)
  OBVIOUS
<1>2. Selects(s, K, Len(s), U)
  BY <1>1, SelectsExists
<1>3. Selected(s, K) = U[Len(s)]
  BY DEF Selected, Selects
<1> HIDE DEF U
<1>4. /\ U[Len(s)] \in Seq(S)
      /\ Range(U[Len(s)]) = UpTo(s, Len(s)) \cap K
  <2>1. Len(s) \in 0 .. Len(s)
    BY <1>1
  <2>2. \A m \in 0 .. Len(s) : /\ U[m] \in Seq(S)
                             /\ Range(U[m]) = UpTo(s, m) \cap K
    BY <1>2, SelectsThose
  <2> QED
    BY <2>1, <2>2
<1>5. Range(s) = UpTo(s, Len(s))
  BY <1>1 DEF Range, UpTo
<1> QED
  BY <1>3, <1>4, <1>5

\* The recursion of FlattenSeq, and what it has put together of the first m.
Flattens(ss, m, flat) ==
    flat = [i \in 1 .. m |-> IF i = 1 THEN ss[i] ELSE flat[i - 1] \o ss[i]]

Together(ss, m) == UNION {Range(ss[i]) : i \in 1 .. m}

LEMMA FlattensStep ==
    ASSUME NEW ss, NEW m \in Nat \ {0}, NEW flat, Flattens(ss, m, flat)
    PROVE  /\ flat[1] = ss[1]
           /\ \A i \in 2 .. m : flat[i] = flat[i - 1] \o ss[i]
<1> DEFINE F(i) == IF i = 1 THEN ss[i] ELSE flat[i - 1] \o ss[i]
<1>1. flat = [i \in 1 .. m |-> F(i)]
  BY DEF Flattens
<1>2. \A i \in 1 .. m : flat[i] = F(i)
  <2> HIDE DEF F
  <2> QED
    BY <1>1
<1>3. 1 \in 1 .. m /\ \A i \in 2 .. m : i \in 1 .. m /\ i # 1
  OBVIOUS
<1> QED
  BY <1>2, <1>3

LEMMA FlattensExists ==
    ASSUME NEW ss, NEW m \in Nat \ {0}
    PROVE  \E flat : Flattens(ss, m, flat)
<1> DEFINE T == {k \in Nat \ {0} : ~ \E flat : Flattens(ss, k, flat)}
<1>1. SUFFICES ASSUME T # {} PROVE FALSE
  OBVIOUS
<1>2. PICK n \in T : \A k \in T : n <= k
  BY <1>1, LeastNumber
<1>3. CASE n = 1
  <2> DEFINE flat == [i \in 1 .. 1 |-> ss[i]]
  <2>1. Flattens(ss, 1, flat)
    BY DEF Flattens
  <2> QED
    BY <2>1, <1>2, <1>3
<1>4. CASE n # 1
  <2>1. n \in Nat /\ n - 1 \in Nat \ {0} /\ n - 1 \notin T
    BY <1>2, <1>4
  <2>2. PICK flat : Flattens(ss, n - 1, flat)
    BY <2>1
  <2>3. /\ flat[1] = ss[1]
        /\ \A i \in 2 .. n - 1 : flat[i] = flat[i - 1] \o ss[i]
    <3> HIDE DEF T
    <3> QED
      BY <2>1, <2>2, FlattensStep
  <2> DEFINE next == [i \in 1 .. n |-> IF i = n THEN flat[n - 1] \o ss[n]
                                       ELSE flat[i]]
  <2>4. \A i \in 1 .. n - 1 : next[i] = flat[i]
    BY <2>1
  <2>5. next[n] = flat[n - 1] \o ss[n]
    <3>1. n \in 1 .. n
      BY <2>1
    <3> QED
      BY <3>1, Zenon
  <2>6. next = [i \in 1 .. n |-> next[i]]
    OBVIOUS
  <2> HIDE DEF next, T
  <2>7. ASSUME NEW i \in 1 .. n
        PROVE  next[i] = IF i = 1 THEN ss[i] ELSE next[i - 1] \o ss[i]
    <3>1. CASE i = n
      <4>1. n - 1 \in 1 .. n - 1
        BY <2>1
      <4> QED
        BY <3>1, <4>1, <2>4, <2>5, <1>4
    <3>2. CASE i = 1
      <4>1. 1 \in 1 .. n - 1
        BY <2>1
      <4> QED
        BY <3>2, <4>1, <2>3, <2>4
    <3>3. CASE i # n /\ i # 1
      <4>1. i \in 2 .. n - 1 /\ i \in 1 .. n - 1 /\ i - 1 \in 1 .. n - 1
        BY <3>3, <2>1
      <4> QED
        BY <4>1, <3>3, <2>3, <2>4
    <3> QED
      BY <3>1, <3>2, <3>3
  <2>8. Flattens(ss, n, next)
    BY <2>6, <2>7 DEF Flattens
  <2> QED
    BY <2>8, <1>2 DEF T
<1> QED
  BY <1>3, <1>4

LEMMA FlattensThose ==
    ASSUME NEW S, NEW ss \in Seq(Seq(S)), NEW flat,
           Flattens(ss, Len(ss), flat), NEW m \in 1 .. Len(ss)
    PROVE  flat[m] \in Seq(S) /\ Range(flat[m]) = Together(ss, m)
<1> DEFINE Wrong(k) == ~ (flat[k] \in Seq(S) /\ Range(flat[k]) = Together(ss, k))
           T == {k \in 1 .. Len(ss) : Wrong(k)}
<1>0. Len(ss) \in Nat \ {0} /\ \A i \in 1 .. Len(ss) : ss[i] \in Seq(S)
  OBVIOUS
<1>1. SUFFICES ASSUME T # {} PROVE FALSE
  OBVIOUS
<1>2. PICK n \in T : \A k \in T : n <= k
  <2>1. T \in SUBSET Nat
    BY <1>0
  <2> HIDE DEF T
  <2> QED
    BY <1>1, <2>1, LeastNumber
<1>3. /\ flat[1] = ss[1]
      /\ \A i \in 2 .. Len(ss) : flat[i] = flat[i - 1] \o ss[i]
  BY <1>0, FlattensStep
<1>4. CASE n = 1
  <2>1. Together(ss, 1) = Range(ss[1])
    BY DEF Together
  <2> QED
    BY <2>1, <1>0, <1>2, <1>3, <1>4
<1>5. CASE n # 1
  <2>1. n \in 2 .. Len(ss) /\ n - 1 \in 1 .. Len(ss) /\ ~ (n <= n - 1)
    BY <1>0, <1>2, <1>5
  <2>2. ~ Wrong(n - 1)
    BY <1>2, <2>1
  <2>3. Together(ss, n) = Together(ss, n - 1) \cup Range(ss[n])
    <3>1. 1 .. n = (1 .. n - 1) \cup {n}
      BY <2>1
    <3> QED
      BY <3>1 DEF Together
  <2>4. flat[n] = flat[n - 1] \o ss[n] /\ ss[n] \in Seq(S)
    BY <1>0, <1>3, <2>1
  <2>5. flat[n] \in Seq(S) /\ Range(flat[n]) = Range(flat[n - 1]) \cup Range(ss[n])
    BY <2>2, <2>4, JoinedRange
  <2> QED
    BY <2>2, <2>3, <2>5, <1>2
<1> QED
  BY <1>4, <1>5

\* FlattenSeq() of sequences holds what they hold.
LEMMA FlattenedHolds ==
    ASSUME NEW S, NEW ss \in Seq(Seq(S))
    PROVE  /\ FlattenSeq(ss) \in Seq(S)
           /\ Range(FlattenSeq(ss)) = Together(ss, Len(ss))
<1>0. Len(ss) \in Nat
  OBVIOUS
<1>1. CASE Len(ss) = 0
  <2>1. ss = <<>> /\ FlattenSeq(ss) = ss
    BY <1>1 DEF FlattenSeq
  <2>2. <<>> \in Seq(S) /\ Range(<<>>) = {}
    BY DEF Range
  <2>3. Together(ss, 0) = {}
    BY DEF Together
  <2> QED
    BY <1>1, <2>1, <2>2, <2>3
<1>2. CASE Len(ss) # 0
  <2> DEFINE U == CHOOSE flat : Flattens(ss, Len(ss), flat)
  <2>1. Flattens(ss, Len(ss), U)
    BY <1>0, <1>2, FlattensExists
  <2>2. FlattenSeq(ss) = U[Len(ss)]
    BY <1>2 DEF FlattenSeq, Flattens
  <2> HIDE DEF U
  <2>3. \A m \in 1 .. Len(ss) :
            U[m] \in Seq(S) /\ Range(U[m]) = Together(ss, m)
    BY <2>1, FlattensThose
  <2>4. Len(ss) \in 1 .. Len(ss)
    BY <1>0, <1>2
  <2> QED
    BY <2>2, <2>3, <2>4
<1> QED
  BY <1>1, <1>2

\* RemoveAt() leaves a sequence of what was there.
LEMMA RemovedIn ==
    ASSUME NEW S, NEW s \in Seq(S), NEW n \in DOMAIN s
    PROVE  RemoveAt(s, n) \in Seq(S)
<1>1. SubSeq(s, 1, n - 1) \in Seq(S) /\ SubSeq(s, n + 1, Len(s)) \in Seq(S)
  OBVIOUS
<1> QED
  BY <1>1 DEF RemoveAt

\* --------------------------------------------------------------------------
\* Commands and the walk through them

\* What the constants say of the lines of a scope.
LEMMA LineFacts ==
    ASSUME scope \in Scopes, NEW l \in scope.lines
    PROVE  /\ l \in CommandLine
           /\ l.kind \in {"CC", "XC"}
           /\ l.tokens \in Seq(Token)
           /\ Range(l.tokens) \subseteq Token
           /\ \A t \in Range(l.tokens) : l.kind = "CC" => t.answer # "mask"
<1>1. l \in CommandLine
  BY DEF CommandLine
<1>2. /\ l.kind \in {"CC", "XC"} /\ l.tokens \in Seq(Token)
      /\ \A i \in DOMAIN l.tokens : l.kind = "CC" => l.tokens[i].answer # "mask"
  BY <1>1, LinesAssumption
<1>3. Range(l.tokens) \subseteq Token
  BY <1>2, RangeIn
<1>4. \A t \in Range(l.tokens) : l.kind = "CC" => t.answer # "mask"
  BY <1>2 DEF Range
<1> QED
  BY <1>1, <1>2, <1>3, <1>4

\* The commands of a text are lines of it.
LEMMA CommandsHold ==
    ASSUME NEW text \in InText, NEW a
    PROVE  /\ CommandsIn(text, a) \in Seq(scope.lines)
           /\ Range(CommandsIn(text, a)) =
                  {l \in Range(text.lines) : l.kind = "CC" => Into(a) # Nowhere}
<1> DEFINE K == {l \in Range(text.lines) : l.kind = "CC" => Into(a) # Nowhere}
<1>1. text.lines \in Seq(scope.lines)
  BY DEF InText
<1>2. CommandsIn(text, a) = Selected(text.lines, K)
  BY DEF CommandsIn
<1>3. K \subseteq Range(text.lines)
  OBVIOUS
<1> HIDE DEF K
<1>4. /\ Selected(text.lines, K) \in Seq(scope.lines)
      /\ Range(Selected(text.lines, K)) = Range(text.lines) \cap K
  BY <1>1, SelectedHolds
<1>5. Range(Selected(text.lines, K)) = K
  BY <1>3, <1>4
<1> QED
  BY <1>2, <1>4, <1>5 DEF K

\* The tokens of the commands, each with its line.
LEMMA ItemsHold ==
    ASSUME scope \in Scopes, NEW commands \in Seq(scope.lines)
    PROVE  /\ Items(commands) \in Seq(Item)
           /\ \A x \in Range(Items(commands)) :
                /\ x \in Item /\ x.line \in Range(commands)
                /\ x.token \in Range(x.line.tokens)
           /\ \A l \in Range(commands) : \A t \in Range(l.tokens) :
                \E j \in 1 .. Len(Items(commands)) :
                    Items(commands)[j] = [line |-> l, token |-> t]
<1> DEFINE Of(i) == [k \in DOMAIN commands[i].tokens |->
                        [line |-> commands[i], token |-> commands[i].tokens[k]]]
           ss == [i \in DOMAIN commands |-> Of(i)]
<1>1. Len(commands) \in Nat /\ DOMAIN commands = 1 .. Len(commands)
      /\ \A i \in 1 .. Len(commands) : commands[i] \in scope.lines
  OBVIOUS
<1>2. ASSUME NEW i \in 1 .. Len(commands)
      PROVE  /\ Of(i) \in Seq(Item)
             /\ Range(Of(i)) = {[line |-> commands[i], token |-> t] :
                                    t \in Range(commands[i].tokens)}
  <2>1. commands[i].tokens \in Seq(Token) /\ commands[i] \in scope.lines
    BY <1>1, LineFacts
  <2>2. DOMAIN commands[i].tokens = 1 .. Len(commands[i].tokens)
        /\ Len(commands[i].tokens) \in Nat
        /\ \A k \in 1 .. Len(commands[i].tokens) : commands[i].tokens[k] \in Token
    BY <2>1
  <2>3. Of(i) \in [1 .. Len(commands[i].tokens) -> Item]
    BY <2>1, <2>2 DEF Item
  <2>4. Range(Of(i)) = {[line |-> commands[i], token |-> t] :
                            t \in Range(commands[i].tokens)}
    BY <2>2 DEF Range
  <2>5. Of(i) \in Seq(Item)
    <3> HIDE DEF Of
    <3> QED
      BY <2>2, <2>3
  <2> QED
    BY <2>4, <2>5
<1>3. Items(commands) = FlattenSeq(ss)
  BY DEF Items
<1>4. ss \in Seq(Seq(Item)) /\ Len(ss) = Len(commands)
  <2> HIDE DEF Of
  <2>1. ss \in [1 .. Len(commands) -> Seq(Item)]
    BY <1>1, <1>2
  <2> QED
    BY <1>1, <2>1
<1>5. \A i \in 1 .. Len(commands) : ss[i] = Of(i)
  BY <1>1
<1> HIDE DEF ss
<1>6. /\ FlattenSeq(ss) \in Seq(Item)
      /\ Range(FlattenSeq(ss)) = Together(ss, Len(ss))
  BY <1>4, FlattenedHolds
<1>7. Range(FlattenSeq(ss)) = UNION {Range(Of(i)) : i \in 1 .. Len(commands)}
  <2> HIDE DEF Of
  <2> QED
    BY <1>4, <1>5, <1>6 DEF Together
<1>8. ASSUME NEW x \in Range(Items(commands))
      PROVE  /\ x \in Item /\ x.line \in Range(commands)
             /\ x.token \in Range(x.line.tokens)
  <2>1. PICK i \in 1 .. Len(commands) : x \in Range(Of(i))
    BY <1>3, <1>7, <1>8
  <2>2. PICK t \in Range(commands[i].tokens) : x = [line |-> commands[i], token |-> t]
    BY <1>2, <2>1
  <2>3. x \in Item
    BY <1>3, <1>6, <1>8, RangeIn
  <2>4. commands[i] \in Range(commands)
    BY <1>1 DEF Range
  <2> QED
    BY <2>2, <2>3, <2>4
<1>9. ASSUME NEW l \in Range(commands), NEW t \in Range(l.tokens)
      PROVE  \E j \in 1 .. Len(Items(commands)) :
                Items(commands)[j] = [line |-> l, token |-> t]
  <2>1. PICK i \in 1 .. Len(commands) : l = commands[i]
    BY <1>1, <1>9 DEF Range
  <2>2. [line |-> l, token |-> t] \in Range(Of(i))
    BY <1>2, <1>9, <2>1
  <2>3. [line |-> l, token |-> t] \in Range(Items(commands))
    BY <1>3, <1>7, <2>1, <2>2
  <2>4. DOMAIN Items(commands) = 1 .. Len(Items(commands))
    BY <1>3, <1>6
  <2> QED
    BY <2>3, <2>4 DEF Range
<1> QED
  BY <1>3, <1>6, <1>8, <1>9

\* Where the walk stops, and the tokens it passes on the way.
Stop(run) ==
    LET asks == {i \in run.at .. Len(Items(run.commands)) :
                    Asks(Items(run.commands)[i])}
    IN  IF asks = {} THEN Len(Items(run.commands)) + 1 ELSE Min(asks)

Past(run) == SubSeq(Items(run.commands), run.at, Stop(run) - 1)

Lost(run) == {i \in DOMAIN Past(run) : CameToNothing(Past(run)[i])}

Answers(run) == Selected(Past(run), {i \in Range(Past(run)) :
                                        Found(i) /\ ~AddressesTheSame(i)})

Names(run) == [i \in DOMAIN Answers(run) |-> Answers(run)[i].token.who]

LEMMA WalkedParts ==
    ASSUME NEW run
    PROVE  Walked(run) =
            [run EXCEPT
                !.at = Stop(run),
                !.carbons = @ \o Names(run),
                !.posts = @ \cup UNION {Covered(Past(run)[i]) : i \in DOMAIN Past(run)},
                !.keep = @ \cup {Past(run)[i].line : i \in Lost(run)},
                !.unresolved = @ \/ Lost(run) # {}]
BY DEF Walked, Stop, Past, Lost, Answers, Names

LEMMA StopsThere ==
    ASSUME scope \in Scopes, NEW run \in InRun,
           run.at \in 1 .. Len(Items(run.commands)) + 1
    PROVE  /\ Stop(run) \in run.at .. Len(Items(run.commands)) + 1
           /\ Stop(run) <= Len(Items(run.commands)) =>
                    Asks(Items(run.commands)[Stop(run)])
           /\ \A j \in run.at .. Stop(run) - 1 : ~ Asks(Items(run.commands)[j])
           /\ Past(run) \in Seq(Item)
           /\ Range(Past(run)) =
                    {Items(run.commands)[j] : j \in run.at .. Stop(run) - 1}
           /\ Range(Past(run)) \subseteq Range(Items(run.commands))
<1> DEFINE items == Items(run.commands)
           asks == {i \in run.at .. Len(items) : Asks(items[i])}
<1>1. items \in Seq(Item) /\ Len(items) \in Nat /\ DOMAIN items = 1 .. Len(items)
  <2>1. run.commands \in Seq(scope.lines)
    BY DEF InRun
  <2> QED
    BY <2>1, ItemsHold
<1>2. run.at \in Nat /\ run.at >= 1 /\ run.at <= Len(items) + 1
  BY <1>1
<1>3. /\ Stop(run) \in run.at .. Len(items) + 1
      /\ Stop(run) <= Len(items) => Asks(items[Stop(run)])
      /\ \A j \in run.at .. Stop(run) - 1 : ~ Asks(items[j])
  <2> HIDE DEF items
  <2>1. CASE asks = {}
    <3>1. Stop(run) = Len(items) + 1
      BY <2>1 DEF Stop, items
    <3> QED
      BY <2>1, <3>1, <1>1, <1>2
  <2>2. CASE asks # {}
    <3>1. Stop(run) = Min(asks)
      BY <2>2 DEF Stop, items
    <3>2. asks \in SUBSET Nat
      BY <1>1, <1>2
    <3> HIDE DEF asks
    <3>3. \E n \in asks : \A m \in asks : n <= m
      BY <2>2, <3>2, LeastNumber
    <3>4. Min(asks) \in asks /\ \A m \in asks : Min(asks) <= m
      BY <3>3 DEF Min
    <3>5. Stop(run) \in run.at .. Len(items) /\ Asks(items[Stop(run)])
      BY <3>1, <3>4 DEF asks
    <3>6. ASSUME NEW j \in run.at .. Stop(run) - 1, Asks(items[j]) PROVE FALSE
      <4>1. j \in asks
        BY <3>5, <3>6, <1>1, <1>2 DEF asks
      <4>2. Stop(run) <= j
        BY <3>1, <3>4, <4>1
      <4> QED
        BY <3>5, <3>6, <4>2, <1>1, <1>2
    <3> QED
      BY <3>5, <3>6, <1>1, <1>2
  <2> QED
    BY <2>1, <2>2
<1> HIDE DEF items
<1>4. /\ Past(run) = SubSeq(items, run.at, Stop(run) - 1)
      /\ Stop(run) \in Nat /\ Stop(run) <= Len(items) + 1 /\ run.at <= Stop(run)
  BY <1>1, <1>2, <1>3 DEF Past, items
<1> DEFINE b == Stop(run) - 1
<1>5. b \in Nat /\ b <= Len(items) /\ b + 1 >= run.at
  BY <1>2, <1>4
<1> HIDE DEF b
<1>6. /\ SubSeq(items, run.at, b) \in Seq(Item)
      /\ Len(SubSeq(items, run.at, b)) = b + 1 - run.at
      /\ \A i \in 1 .. b + 1 - run.at :
                SubSeq(items, run.at, b)[i] = items[run.at + i - 1]
  BY <1>1, <1>2, <1>5, SMTT(20)
<1>7. Past(run) = SubSeq(items, run.at, b)
  BY <1>4 DEF b
<1>8. DOMAIN Past(run) = 1 .. b + 1 - run.at
  BY <1>6, <1>7, <1>5, <1>2
<1>9. Range(Past(run)) = {items[j] : j \in run.at .. b}
  <2>1. ASSUME NEW x \in Range(Past(run)) PROVE \E j \in run.at .. b : x = items[j]
    <3>1. PICK i \in 1 .. b + 1 - run.at : x = Past(run)[i]
      BY <1>8, <2>1 DEF Range
    <3>2. run.at + i - 1 \in run.at .. b
      BY <1>2, <1>5, <3>1
    <3>3. x = items[run.at + i - 1]
      BY <1>6, <1>7, <3>1, Zenon
    <3> QED
      BY <3>2, <3>3
  <2>2. ASSUME NEW j \in run.at .. b PROVE items[j] \in Range(Past(run))
    <3>1. j - run.at + 1 \in 1 .. b + 1 - run.at /\ run.at + (j - run.at + 1) - 1 = j
      BY <1>2, <1>5
    <3>2. Past(run)[j - run.at + 1] = items[j]
      BY <1>6, <1>7, <3>1
    <3> QED
      BY <1>8, <3>1, <3>2 DEF Range
  <2> QED
    BY <2>1, <2>2
<1>10. Range(Past(run)) \subseteq Range(items)
  <2>1. run.at .. b \subseteq DOMAIN items
    BY <1>1, <1>2, <1>5
  <2> QED
    BY <1>9, <2>1 DEF Range
<1> QED
  BY <1>3, <1>6, <1>7, <1>9, <1>10 DEF items, b

\* The walk goes on from where it was, and is a walk through the same commands.
LEMMA WalkedKeeps ==
    ASSUME scope \in Scopes, NEW run \in InRun, Walking(run)
    PROVE  /\ Walked(run) \in InRun
           /\ Walking(Walked(run))
           /\ Walked(run).process = run.process
           /\ Walked(run).commands = run.commands
           /\ Walked(run).at <= Len(Items(run.commands)) =>
                    Asks(Items(run.commands)[Walked(run).at])
<1> DEFINE items == Items(run.commands)
           covered == UNION {Covered(Past(run)[i]) : i \in DOMAIN Past(run)}
           lost == {Past(run)[i].line : i \in Lost(run)}
           w == Walked(run)
<1>1. /\ run.commands = CommandsIn(edit.text, compose.area)
      /\ run.at \in 1 .. Len(items) + 1
      /\ \A j \in 1 .. run.at - 1 : Done(run, items[j])
      /\ \A a \in run.posts : \E item \in Range(items) : a \in Covered(item)
      /\ \A who \in Range(run.carbons) : \E item \in Range(items) :
            Asks(item) \/ (Found(item) /\ item.token.who = who)
  BY DEF Walking
<1>2. /\ run.commands \in Seq(scope.lines) /\ run.at \in Nat
      /\ run.carbons \in Seq(Anyone) /\ run.posts \subseteq Area
      /\ run.keep \subseteq scope.lines
  BY DEF InRun
<1>3. /\ items \in Seq(Item) /\ Len(items) \in Nat /\ DOMAIN items = 1 .. Len(items)
      /\ \A x \in Range(items) : /\ x \in Item /\ x.line \in Range(run.commands)
                                 /\ x.token \in Range(x.line.tokens)
  BY <1>2, ItemsHold
<1> HIDE DEF items
<1>4. /\ Stop(run) \in run.at .. Len(items) + 1
      /\ Stop(run) <= Len(items) => Asks(items[Stop(run)])
      /\ \A j \in run.at .. Stop(run) - 1 : ~ Asks(items[j])
      /\ Past(run) \in Seq(Item)
      /\ Range(Past(run)) = {items[j] : j \in run.at .. Stop(run) - 1}
      /\ Range(Past(run)) \subseteq Range(items)
  BY <1>1, StopsThere DEF items
<1>5. /\ Answers(run) \in Seq(Item)
      /\ \A x : x \in Range(Answers(run)) <=>
            x \in Range(Past(run)) /\ Found(x) /\ ~AddressesTheSame(x)
  <2> DEFINE K == {i \in Range(Past(run)) : Found(i) /\ ~AddressesTheSame(i)}
  <2>1. \A x : x \in K <=> x \in Range(Past(run)) /\ Found(x) /\ ~AddressesTheSame(x)
    OBVIOUS
  <2>2. Answers(run) = Selected(Past(run), K)
    BY DEF Answers
  <2> HIDE DEF K
  <2>3. /\ Selected(Past(run), K) \in Seq(Item)
        /\ Range(Selected(Past(run), K)) = Range(Past(run)) \cap K
    BY <1>4, SelectedHolds
  <2> QED
    BY <2>1, <2>2, <2>3
<1>6. /\ Names(run) \in Seq(Anyone)
      /\ \A who : who \in Range(Names(run)) <=>
            \E x \in Range(Answers(run)) : x.token.who = who
  <2>1. /\ Len(Answers(run)) \in Nat /\ DOMAIN Answers(run) = 1 .. Len(Answers(run))
        /\ \A i \in 1 .. Len(Answers(run)) : Answers(run)[i] \in Item
    BY <1>5
  <2>2. Names(run) \in [1 .. Len(Answers(run)) -> Anyone]
    BY <2>1 DEF Names, Item, Token, Anyone
  <2>3. \A who : who \in Range(Names(run)) <=>
            \E x \in Range(Answers(run)) : x.token.who = who
    BY <2>1 DEF Names, Range
  <2> QED
    BY <2>1, <2>2, <2>3
<1>7. \A x : x \in covered <=> \E i \in Range(Past(run)) : x \in Covered(i)
  BY DEF Range
<1>8. \A x : x \in lost <=> \E i \in Range(Past(run)) : CameToNothing(i) /\ x = i.line
  BY DEF Range, Lost
<1>9. covered \subseteq Area /\ lost \subseteq scope.lines
  <2>1. \A i \in Range(Past(run)) : i \in Item
    BY <1>3, <1>4
  <2>2. \A i \in Item : i.line \in scope.lines /\ Covered(i) \subseteq Area
    BY DEF Item, Token, Covered
  <2> HIDE DEF covered, lost
  <2> QED
    BY <1>7, <1>8, <2>1, <2>2
<1>10. w = [run EXCEPT !.at = Stop(run), !.carbons = @ \o Names(run),
                       !.posts = @ \cup covered, !.keep = @ \cup lost,
                       !.unresolved = @ \/ Lost(run) # {}]
  BY WalkedParts
<1> HIDE DEF covered, lost, w
<1>11. /\ run.carbons \o Names(run) \in Seq(Anyone)
       /\ Range(run.carbons \o Names(run)) = Range(run.carbons) \cup Range(Names(run))
  BY <1>2, <1>6, JoinedRange
<1>12. /\ w \in InRun /\ w.process = run.process /\ w.commands = run.commands
       /\ w.at = Stop(run) /\ w.carbons = run.carbons \o Names(run)
       /\ w.posts = run.posts \cup covered /\ w.keep = run.keep \cup lost
  <2>1. Stop(run) \in Nat
    BY <1>2, <1>3, <1>4
  <2> QED
    BY <1>2, <1>9, <1>10, <1>11, <2>1 DEF InRun
<1>13. ASSUME NEW j \in 1 .. w.at - 1 PROVE Done(w, items[j])
  <2>1. CASE j < run.at
    <3>1. Done(run, items[j])
      BY <1>1, <1>2, <1>3, <1>4, <1>12, <1>13, <2>1
    <3>2. run.carbons # <<>> => w.carbons # <<>>
      BY <1>2, <1>11, <1>12, RangeIn
    <3> QED
      BY <1>11, <1>12, <3>1, <3>2 DEF Done
  <2>2. CASE j >= run.at
    <3>1. /\ j \in run.at .. Stop(run) - 1 /\ items[j] \in Range(Past(run))
          /\ ~ Asks(items[j])
      BY <1>2, <1>3, <1>4, <1>12, <1>13, <2>2
    <3> DEFINE x == items[j]
    <3>2. x \in Item /\ x.line \in scope.lines /\ x.token \in Range(x.line.tokens)
      <4>1. x \in Range(items)
        BY <1>4, <3>1
      <4> QED
        BY <4>1, <1>3 DEF Item
    <3>3. /\ x.line.kind \in {"CC", "XC"} /\ x.token \in Token
          /\ x.line.kind = "CC" => x.token.answer # "mask"
      BY <3>2, LineFacts
    <3> HIDE DEF x
    <3>4. CASE CameToNothing(x)
      <4>1. x.line \in lost
        BY <1>8, <3>1, <3>4 DEF x
      <4> QED
        BY <1>12, <4>1 DEF Done, x
    <3>5. CASE ~CameToNothing(x) /\ IsMask(x)
      <4>1. Covered(x) \subseteq covered /\ x.token.areas # {}
        BY <1>7, <3>1, <3>5 DEF x, CameToNothing
      <4> QED
        BY <1>12, <3>5, <4>1 DEF Done, x
    <3>6. CASE ~CameToNothing(x) /\ ~IsMask(x)
      <4>1. Found(x)
        BY <3>1, <3>3, <3>6 DEF x, CameToNothing, IsMask, Found, Asks, Token
      <4>2. AddressesTheSame(x) \/ x.token.who \in Range(Names(run))
        BY <1>5, <1>6, <3>1, <4>1 DEF x
      <4> QED
        BY <1>11, <1>12, <4>1, <4>2 DEF Done, x
    <3> QED
      BY <3>4, <3>5, <3>6 DEF x
  <2> QED
    BY <2>1, <2>2, <1>2, <1>3, <1>4, <1>12
<1>14. \A a \in w.posts : \E item \in Range(items) : a \in Covered(item)
  BY <1>1, <1>4, <1>7, <1>12
<1>15. \A who \in Range(w.carbons) : \E item \in Range(items) :
            Asks(item) \/ (Found(item) /\ item.token.who = who)
  BY <1>1, <1>4, <1>5, <1>6, <1>11, <1>12
<1>16. w.at \in 1 .. Len(items) + 1 /\ (w.at <= Len(items) => Asks(items[w.at]))
  BY <1>1, <1>2, <1>3, <1>4, <1>12
<1>17. Walking(w)
  BY <1>1, <1>12, <1>13, <1>14, <1>15, <1>16 DEF Walking, items
<1> QED
  BY <1>12, <1>16, <1>17 DEF w, items

\* A walk that came to the end leaves what stays of the text.
LEMMA FinishedComplete ==
    ASSUME scope \in Scopes, edit.text \in InText, NEW run \in InRun, Walking(run),
           run.at = Len(Items(run.commands)) + 1
    PROVE  /\ Finished(run) \in InRun /\ Complete(Finished(run))
           /\ Finished(run).process = run.process
<1> DEFINE kept == run.keep \cup {l \in Range(run.commands) :
                                    scope.raw \/ l.tokens = <<>>}
           K == kept \cup (Range(edit.text.lines) \ Range(run.commands))
           left == Selected(edit.text.lines, K)
           f == Finished(run)
<1>1. /\ run.commands \in Seq(scope.lines) /\ run.keep \subseteq scope.lines
      /\ edit.text.lines \in Seq(scope.lines)
  BY DEF InRun, InText
<1>2. kept \subseteq scope.lines /\ run.keep \subseteq kept
      /\ \A l \in Range(run.commands) : l.tokens = <<>> => l \in kept
  BY <1>1, RangeIn
<1>3. f = [run EXCEPT !.keep = kept,
                      !.text = [edit.text EXCEPT !.lines = left]]
  BY DEF Finished
<1> HIDE DEF kept, f
<1>4. left \in Seq(scope.lines)
  <2> HIDE DEF K
  <2> QED
    BY <1>1, SelectedHolds
<1> HIDE DEF left
<1>5. [edit.text EXCEPT !.lines = left] \in InText
      /\ [edit.text EXCEPT !.lines = left].words = edit.text.words
      /\ [edit.text EXCEPT !.lines = left].lines = left
  BY <1>4 DEF InText
<1>6. /\ f \in InRun /\ f.process = run.process /\ f.keep = kept
      /\ f.commands = run.commands /\ f.at = run.at /\ f.posts = run.posts
      /\ f.carbons = run.carbons
      /\ f.text.words = edit.text.words /\ f.text.lines = left
  BY <1>2, <1>3, <1>5 DEF InRun
<1>7. Walking(f)
  <2>1. ASSUME NEW x, Done(run, x) PROVE Done(f, x)
    BY <1>2, <1>6, <2>1 DEF Done
  <2> QED
    BY <1>6, <2>1 DEF Walking
<1>8. Complete(f)
  BY <1>2, <1>6, <1>7 DEF Complete, left, K
<1> QED
  BY <1>6, <1>8 DEF f

\* --------------------------------------------------------------------------
\* What a store puts into the areas

LEMMA StoredHeld ==
    ASSUME begun \in Nat, NEW text \in InText, NEW to \in Anyone,
           NEW copy \in BOOLEAN
    PROVE  Stored(text, to, copy) \in Held
BY DEF Stored, Held, InText

\* A sequence of one.
LEMMA OneHolds ==
    ASSUME NEW S, NEW x \in S
    PROVE  <<x>> \in Seq(S) /\ Range(<<x>>) = {x} /\ Len(<<x>>) = 1 /\ <<x>>[1] = x
<1>1. <<x>> \in Seq(S) /\ DOMAIN <<x>> = {1} /\ <<x>>[1] = x /\ Len(<<x>>) = 1
  OBVIOUS
<1> QED
  BY <1>1 DEF Range

\* The carbon copies an area takes of those asked for.
LEMMA CarbonsHold ==
    ASSUME begun \in Nat, NEW text \in InText, NEW run \in InRun,
           NEW carbons \in SUBSET DOMAIN run.carbons
    PROVE  /\ CarbonCopies(run, text, carbons) \in Seq(Held)
           /\ \A m : m \in Range(CarbonCopies(run, text, carbons)) <=>
                \E k \in carbons : m = Stored(text, run.carbons[k], TRUE)
<1> DEFINE Of(i) == IF i \in carbons THEN <<Stored(text, run.carbons[i], TRUE)>>
                    ELSE <<>>
           ss == [i \in DOMAIN run.carbons |-> Of(i)]
<1>1. /\ Len(run.carbons) \in Nat /\ DOMAIN run.carbons = 1 .. Len(run.carbons)
      /\ \A i \in 1 .. Len(run.carbons) : run.carbons[i] \in Anyone
  BY DEF InRun
<1>2. ASSUME NEW i \in 1 .. Len(run.carbons)
      PROVE  /\ Of(i) \in Seq(Held)
             /\ \A m : m \in Range(Of(i)) <=>
                    i \in carbons /\ m = Stored(text, run.carbons[i], TRUE)
  <2>1. Stored(text, run.carbons[i], TRUE) \in Held
    BY <1>1, StoredHeld
  <2>2. CASE i \in carbons
    <3> DEFINE x == Stored(text, run.carbons[i], TRUE)
    <3> HIDE DEF x
    <3>1. x \in Held /\ Of(i) = <<x>>
      BY <2>1, <2>2 DEF x
    <3> HIDE DEF Of
    <3>2. <<x>> \in Seq(Held) /\ Range(<<x>>) = {x}
      BY <3>1, OneHolds
    <3> QED
      BY <2>2, <3>1, <3>2 DEF x
  <2>3. CASE i \notin carbons
    <3>1. Of(i) = <<>> /\ <<>> \in Seq(Held) /\ Range(<<>>) = {}
      BY <2>3 DEF Range
    <3> QED
      BY <2>3, <3>1
  <2> QED
    BY <2>2, <2>3
<1>3. CarbonCopies(run, text, carbons) = FlattenSeq(ss)
  BY DEF CarbonCopies
<1>4. ss \in Seq(Seq(Held)) /\ Len(ss) = Len(run.carbons)
      /\ \A i \in 1 .. Len(run.carbons) : ss[i] = Of(i)
  <2>1. \A i \in 1 .. Len(run.carbons) : Of(i) \in Seq(Held)
    BY <1>2
  <2> HIDE DEF Of
  <2>2. ss \in [1 .. Len(run.carbons) -> Seq(Held)]
    BY <1>1, <2>1
  <2>3. \A i \in 1 .. Len(run.carbons) : ss[i] = Of(i)
    BY <1>1
  <2> HIDE DEF ss
  <2> QED
    BY <1>1, <2>2, <2>3
<1> HIDE DEF ss
<1>5. /\ FlattenSeq(ss) \in Seq(Held)
      /\ Range(FlattenSeq(ss)) = Together(ss, Len(ss))
  BY <1>4, FlattenedHolds
<1>6. \A m : m \in Together(ss, Len(ss)) <=>
            \E i \in 1 .. Len(run.carbons) : m \in Range(Of(i))
  <2> HIDE DEF Of
  <2> QED
    BY <1>4 DEF Together
<1>7. carbons \subseteq 1 .. Len(run.carbons)
  BY <1>1
<1> HIDE DEF Of
<1>8. \A m : m \in Range(FlattenSeq(ss)) <=>
            \E i \in 1 .. Len(run.carbons) :
                i \in carbons /\ m = Stored(text, run.carbons[i], TRUE)
  <2>1. \A i \in 1 .. Len(run.carbons) : \A m : m \in Range(Of(i)) <=>
            i \in carbons /\ m = Stored(text, run.carbons[i], TRUE)
    BY <1>2
  <2>2. \A m : m \in Range(FlattenSeq(ss)) <=>
            \E i \in 1 .. Len(run.carbons) : m \in Range(Of(i))
    BY <1>5, <1>6, Zenon
  <2> QED
    BY <2>1, <2>2, Zenon
<1>9. \A m : m \in Range(FlattenSeq(ss)) <=>
            \E k \in carbons : m = Stored(text, run.carbons[k], TRUE)
  BY <1>7, <1>8, Zenon
<1> QED
  BY <1>3, <1>5, <1>9, Zenon

\* What the copies some areas took add to an area.
Added(run, carbons, posts, a, m) ==
    /\ Copying(run)
    /\ \/ /\ a = Into(compose.area)
          /\ \E k \in carbons : m = Stored(FinalText(run), run.carbons[k], TRUE)
       \/ a \in posts /\ m = Crosspost(FinalText(run))

\* The rest of a sequence holds what was put behind it.
LEMMA BehindIt ==
    ASSUME NEW S, NEW s \in Seq(S), NEW t \in Seq(S)
    PROVE  /\ s \o t \in Seq(S) /\ Len(s \o t) >= Len(s)
           /\ \A i \in 1 .. Len(s) : (s \o t)[i] = s[i]
           /\ \A m : m \in Range(t) <=>
                \E i \in Len(s) + 1 .. Len(s \o t) : (s \o t)[i] = m
<1>1. s \o t \in Seq(S) /\ Len(s \o t) = Len(s) + Len(t)
      /\ Len(s) \in Nat /\ Len(t) \in Nat
  OBVIOUS
<1>2. /\ \A i \in 1 .. Len(s) : (s \o t)[i] = s[i]
      /\ \A i \in 1 .. Len(t) : (s \o t)[Len(s) + i] = t[i]
      /\ DOMAIN t = 1 .. Len(t)
  OBVIOUS
<1>3. ASSUME NEW m \in Range(t)
      PROVE  \E i \in Len(s) + 1 .. Len(s \o t) : (s \o t)[i] = m
  <2>1. PICK i \in 1 .. Len(t) : m = t[i]
    BY <1>2 DEF Range
  <2>2. Len(s) + i \in Len(s) + 1 .. Len(s \o t)
    BY <1>1, <2>1
  <2>3. (s \o t)[Len(s) + i] = m
    BY <1>2, <2>1
  <2> QED
    BY <2>2, <2>3
<1>4. ASSUME NEW i \in Len(s) + 1 .. Len(s \o t) PROVE (s \o t)[i] \in Range(t)
  <2>1. i - Len(s) \in 1 .. Len(t) /\ Len(s) + (i - Len(s)) = i
    BY <1>1
  <2>2. (s \o t)[i] = t[i - Len(s)]
    BY <1>2, <2>1
  <2> QED
    BY <1>2, <2>1, <2>2 DEF Range
<1> QED
  BY <1>1, <1>2, <1>3, <1>4

\* The areas after, which were held before the copies.
Grown(held, run, carbons, posts, after) ==
    /\ after \in [Area -> Seq(Held)]
    /\ \A a \in Area :
        /\ Len(after[a]) >= Len(held[a])
        /\ \A i \in 1 .. Len(held[a]) : after[a][i] = held[a][i]
        /\ \A m : Added(run, carbons, posts, a, m) <=>
            \E i \in Len(held[a]) + 1 .. Len(after[a]) : after[a][i] = m

LEMMA CopiesHold ==
    ASSUME begun \in Nat, edit.text \in InText, compose.to \in Anyone,
           NEW run \in InRun \cup {NoRun}, NEW held \in [Area -> Seq(Held)],
           NEW carbons, Copying(run) => carbons \subseteq DOMAIN run.carbons,
           NEW posts, NEW after, after = WithCopies(held, run, carbons, posts)
    PROVE  Grown(held, run, carbons, posts, after)
<1>1. CASE ~ Copying(run)
  <2>1. after = held
    BY <1>1 DEF WithCopies
  <2>2. \A a \in Area : held[a] \in Seq(Held) /\ Len(held[a]) \in Nat
    OBVIOUS
  <2>3. \A n \in Nat : n + 1 .. n = {}
    OBVIOUS
  <2>4. ASSUME NEW a \in Area
        PROVE  /\ Len(after[a]) >= Len(held[a])
               /\ \A i \in 1 .. Len(held[a]) : after[a][i] = held[a][i]
               /\ \A m : Added(run, carbons, posts, a, m) <=>
                    \E i \in Len(held[a]) + 1 .. Len(after[a]) : after[a][i] = m
    <3>1. after[a] = held[a] /\ Len(held[a]) \in Nat
      BY <2>1, <2>2
    <3>2. Len(held[a]) + 1 .. Len(after[a]) = {}
      BY <2>3, <3>1
    <3>3. \A m : ~Added(run, carbons, posts, a, m)
      BY <1>1 DEF Added
    <3>4. Len(after[a]) >= Len(held[a])
      BY <3>1
    <3> QED
      BY <3>1, <3>2, <3>3, <3>4, Zenon
  <2> QED
    BY <2>1, <2>4 DEF Grown
<1>2. CASE Copying(run)
  <2> DEFINE text == FinalText(run)
             X(a) == IF a = Into(compose.area) THEN CarbonCopies(run, text, carbons)
                     ELSE <<>>
             Y(a) == IF a \in posts THEN <<Crosspost(text)>> ELSE <<>>
  <2>1. run # NoRun /\ run \in InRun
    BY <1>2 DEF Copying
  <2>2. text \in InText
    BY <1>2, <2>1 DEF FinalText, InRun
  <2>3. after = [a \in Area |-> held[a] \o X(a) \o Y(a)]
    BY <1>2 DEF WithCopies
  <2>4. Crosspost(text) \in Held
    BY <2>2, StoredHeld DEF Crosspost
  <2>5. /\ CarbonCopies(run, text, carbons) \in Seq(Held)
        /\ \A m : m \in Range(CarbonCopies(run, text, carbons)) <=>
                \E k \in carbons : m = Stored(text, run.carbons[k], TRUE)
    <3>1. carbons \in SUBSET DOMAIN run.carbons
      BY <1>2
    <3> HIDE DEF text
    <3> QED
      BY <2>1, <2>2, <3>1, CarbonsHold
  <2>6. ASSUME NEW a \in Area
        PROVE  /\ X(a) \o Y(a) \in Seq(Held) /\ X(a) \in Seq(Held) /\ Y(a) \in Seq(Held)
               /\ \A m : m \in Range(X(a) \o Y(a)) <=>
                    Added(run, carbons, posts, a, m)
    <3>0. <<>> \in Seq(Held) /\ Range(<<>>) = {}
      BY DEF Range
    <3>1. /\ X(a) \in Seq(Held)
          /\ \A m : m \in Range(X(a)) <=>
                /\ a = Into(compose.area)
                /\ \E k \in carbons : m = Stored(text, run.carbons[k], TRUE)
      <4> HIDE DEF text
      <4> QED
        BY <2>5, <3>0
    <3>2. /\ Y(a) \in Seq(Held)
          /\ \A m : m \in Range(Y(a)) <=> a \in posts /\ m = Crosspost(text)
      <4> DEFINE c == Crosspost(text)
      <4>1. c \in Held /\ Y(a) = IF a \in posts THEN <<c>> ELSE <<>>
        BY <2>4
      <4> HIDE DEF c, Y
      <4>2. <<c>> \in Seq(Held) /\ \A m : m \in Range(<<c>>) <=> m = c
        BY <4>1 DEF Range
      <4> QED
        BY <3>0, <4>1, <4>2 DEF c
    <3> HIDE DEF X, Y, text
    <3>3. X(a) \o Y(a) \in Seq(Held)
          /\ Range(X(a) \o Y(a)) = Range(X(a)) \cup Range(Y(a))
      BY <3>1, <3>2, JoinedRange
    <3> QED
      BY <1>2, <3>1, <3>2, <3>3 DEF Added, text
  <2> HIDE DEF X, Y, text
  <2>7. \A a \in Area : after[a] = held[a] \o (X(a) \o Y(a)) /\ held[a] \in Seq(Held)
    <3> SUFFICES ASSUME NEW a \in Area
                 PROVE  after[a] = held[a] \o (X(a) \o Y(a)) /\ held[a] \in Seq(Held)
      OBVIOUS
    <3>1. held[a] \in Seq(Held) /\ X(a) \in Seq(Held) /\ Y(a) \in Seq(Held)
      BY <2>6
    <3>2. (held[a] \o X(a)) \o Y(a) = held[a] \o (X(a) \o Y(a))
      BY <3>1
    <3> QED
      BY <2>3, <3>1, <3>2
  <2>8. ASSUME NEW a \in Area
        PROVE  /\ after[a] \in Seq(Held)
               /\ Len(after[a]) >= Len(held[a])
               /\ \A i \in 1 .. Len(held[a]) : after[a][i] = held[a][i]
               /\ \A m : Added(run, carbons, posts, a, m) <=>
                    \E i \in Len(held[a]) + 1 .. Len(after[a]) : after[a][i] = m
    <3>1. held[a] \in Seq(Held) /\ X(a) \o Y(a) \in Seq(Held)
      BY <2>6
    <3> DEFINE t == X(a) \o Y(a)
    <3>2. after[a] = held[a] \o t /\ \A m : m \in Range(t) <=>
                    Added(run, carbons, posts, a, m)
      BY <2>6, <2>7
    <3> HIDE DEF t
    <3>3. t \in Seq(Held)
      BY <3>1 DEF t
    <3> DEFINE s == held[a]
    <3>4. s \in Seq(Held) /\ after[a] = s \o t
      BY <3>1, <3>2
    <3> HIDE DEF s
    <3>5. /\ s \o t \in Seq(Held) /\ Len(s \o t) >= Len(s)
          /\ \A i \in 1 .. Len(s) : (s \o t)[i] = s[i]
          /\ \A m : m \in Range(t) <=>
                \E i \in Len(s) + 1 .. Len(s \o t) : (s \o t)[i] = m
      BY <3>3, <3>4, BehindIt
    <3>6. /\ after[a] \in Seq(Held) /\ Len(after[a]) >= Len(s)
          /\ \A i \in 1 .. Len(s) : after[a][i] = s[i]
          /\ \A m : m \in Range(t) <=>
                \E i \in Len(s) + 1 .. Len(after[a]) : after[a][i] = m
      BY <3>4, <3>5, Zenon
    <3> QED
      BY <3>2, <3>6, Zenon DEF s
  <2>9. after \in [Area -> Seq(Held)]
    BY <2>3, <2>8
  <2> QED
    BY <2>8, <2>9 DEF Grown
<1> QED
  BY <1>1, <1>2

\* --------------------------------------------------------------------------
\* Storing the message

\* What a step may not do.
Sound == WordsSurvive /\ AsTheTextAsks /\ ReaderIsOnIt

\* A step that stores nothing.
LEMMA Quiet ==
    ASSUME Typed, Numbered, areas' = areas,
           Composing /\ Composing' => edit'.text.words >= edit.text.words,
           Leaving => \/ box \in {"drop", "review"}
                      \/ box = "editor" /\ ~reviewShown
                      \/ screen' = "list"
    PROVE  Sound
<1>1. WordsSurvive
  BY DEF WordsSurvive, Numbered, Leaving
<1>2. AsTheTextAsks /\ ReaderIsOnIt
  BY DEF AsTheTextAsks, ReaderIsOnIt
<1> QED
  BY <1>1, <1>2 DEF Sound

\* A run that may be stored with: there were no commands, they were answered
\* for this text, or nothing will be stored.
Ready(run) ==
    /\ run = NoRun \/ Answered(run) \/ (run \in InRun /\ Unwritable)
    /\ scope.lines = {} => run = NoRun

\* The answers are those of the text being stored.
Stores(run) ==
    /\ Typed /\ Numbered /\ Composing
    /\ compose.kind # "change" /\ compose.to # Blank
    /\ run = NoRun \/ Answered(run)
    /\ ~AsksAbout(run)

Whole(run) == Stored(FinalText(run), compose.to, FALSE)

LEMMA FinalFacts ==
    ASSUME NEW run, Stores(run)
    PROVE  /\ FinalText(run) \in InText
           /\ FinalText(run).words = edit.text.words
           /\ Whole(run) \in Held /\ Whole(run).of = begun /\ ~Whole(run).copy
           /\ Whole(run).words = edit.text.words
           /\ Whole(run).lines = FinalText(run).lines
           /\ Copying(run) => /\ run \in InRun /\ Complete(run)
                              /\ FinalText(run) = run.text
           /\ ~Copying(run) => FinalText(run) = edit.text
<1>1. /\ edit.text \in InText /\ compose.to \in Anyone /\ begun \in Nat
  BY DEF Stores, Typed
<1>2. /\ FinalText(run) \in InText
      /\ FinalText(run).words = edit.text.words
      /\ Copying(run) => /\ run \in InRun /\ Complete(run)
                         /\ FinalText(run) = run.text
      /\ ~Copying(run) => FinalText(run) = edit.text
  <2>1. CASE Copying(run)
    <3>1. run # NoRun /\ run.process /\ Answered(run)
      BY <2>1 DEF Copying, Stores
    <3>2. run \in InRun /\ Complete(run)
      BY <3>1 DEF Answered
    <3>3. FinalText(run) = run.text
      BY <2>1 DEF FinalText
    <3> QED
      BY <2>1, <3>2, <3>3 DEF InRun, Complete
  <2>2. CASE ~Copying(run)
    BY <2>2, <1>1 DEF FinalText
  <2> QED
    BY <2>1, <2>2
<1>3. Whole(run) \in Held
  BY <1>1, <1>2, StoredHeld DEF Whole
<1>4. /\ Whole(run).of = begun /\ ~Whole(run).copy
      /\ Whole(run).words = FinalText(run).words
      /\ Whole(run).lines = FinalText(run).lines
  BY DEF Whole, Stored
<1> QED
  BY <1>2, <1>3, <1>4

\* The message is put behind what its area held, and its copies behind that.
Adds(run, carbons, posts) ==
    /\ areas' \in [Area -> Seq(Held)]
    /\ areas'[compose.area][Len(areas[compose.area]) + 1] = Whole(run)
    /\ Len(areas'[compose.area]) >= Len(areas[compose.area]) + 1
    /\ \A a \in Area :
         /\ Len(areas'[a]) >= Len(areas[a])
         /\ \A i \in 1 .. Len(areas[a]) : areas'[a][i] = areas[a][i]
         /\ \A i \in Len(areas[a]) + 1 .. Len(areas'[a]) :
               \/ /\ a = compose.area /\ i = Len(areas[a]) + 1
               \/ Added(run, carbons, posts, a, areas'[a][i])
         /\ \A m : Added(run, carbons, posts, a, m) =>
               \E i \in 1 .. Len(areas'[a]) : areas'[a][i] = m

\* The areas with the message in them, and then with its copies.
LEMMA StoreAdds ==
    ASSUME NEW run, Stores(run),
           NEW carbons, Copying(run) => carbons \subseteq DOMAIN run.carbons,
           NEW posts,
           areas' = WithCopies(Append1(compose.area, Whole(run)), run, carbons, posts)
    PROVE  Adds(run, carbons, posts)
<1> DEFINE held == Append1(compose.area, Whole(run))
<1>1. /\ edit.text \in InText /\ compose.to \in Anyone /\ begun \in Nat
      /\ compose.area \in Area /\ areas \in [Area -> Seq(Held)]
      /\ run \in InRun \cup {NoRun}
  BY DEF Stores, Typed, Answered
<1>2. Whole(run) \in Held
  BY FinalFacts
<1>3. /\ held \in [Area -> Seq(Held)]
      /\ held[compose.area] = Append(areas[compose.area], Whole(run))
      /\ \A a \in Area \ {compose.area} : held[a] = areas[a]
  BY <1>1, <1>2 DEF Append1
<1>4. areas' = WithCopies(held, run, carbons, posts)
  OBVIOUS
<1> HIDE DEF held
<1>5. /\ areas' \in [Area -> Seq(Held)]
      /\ \A a \in Area :
            /\ Len(areas'[a]) >= Len(held[a])
            /\ \A i \in 1 .. Len(held[a]) : areas'[a][i] = held[a][i]
            /\ \A m : Added(run, carbons, posts, a, m) <=>
                \E i \in Len(held[a]) + 1 .. Len(areas'[a]) : areas'[a][i] = m
  <2>1. Grown(held, run, carbons, posts, areas')
    <3>1. \A after : after = WithCopies(held, run, carbons, posts) =>
                        Grown(held, run, carbons, posts, after)
      BY <1>1, <1>3, CopiesHold, Zenon
    <3> QED
      BY <1>4, <3>1
  <2> QED
    BY <2>1 DEF Grown
<1>6. ASSUME NEW a \in Area
      PROVE  /\ Len(held[a]) >= Len(areas[a])
             /\ Len(held[a]) \in Nat /\ Len(areas[a]) \in Nat /\ Len(areas'[a]) \in Nat
             /\ \A i \in 1 .. Len(areas[a]) : held[a][i] = areas[a][i]
             /\ a = compose.area => /\ Len(held[a]) = Len(areas[a]) + 1
                                    /\ held[a][Len(areas[a]) + 1] = Whole(run)
             /\ a # compose.area => Len(held[a]) = Len(areas[a])
  <2>0. /\ Len(held[a]) \in Nat /\ Len(areas[a]) \in Nat /\ Len(areas'[a]) \in Nat
        /\ areas[a] \in Seq(Held)
    BY <1>1, <1>3, <1>5
  <2>1. CASE a = compose.area
    <3> DEFINE s == areas[a]
    <3>1. s \in Seq(Held) /\ held[a] = Append(s, Whole(run))
      BY <2>0, <2>1, <1>3
    <3> HIDE DEF s
    <3>2. /\ Len(held[a]) = Len(s) + 1 /\ held[a][Len(s) + 1] = Whole(run)
          /\ \A i \in 1 .. Len(s) : held[a][i] = s[i]
      BY <1>2, <3>1, AppendedRange
    <3> QED
      BY <2>0, <2>1, <3>2 DEF s
  <2>2. CASE a # compose.area
    BY <2>0, <2>2, <1>3
  <2> QED
    BY <2>1, <2>2
<1>7. ASSUME NEW a \in Area
      PROVE  /\ Len(areas'[a]) >= Len(areas[a])
             /\ \A i \in 1 .. Len(areas[a]) : areas'[a][i] = areas[a][i]
             /\ \A i \in Len(areas[a]) + 1 .. Len(areas'[a]) :
                   \/ /\ a = compose.area /\ i = Len(areas[a]) + 1
                   \/ Added(run, carbons, posts, a, areas'[a][i])
             /\ \A m : Added(run, carbons, posts, a, m) =>
                   \E i \in 1 .. Len(areas'[a]) : areas'[a][i] = m
  <2>0. /\ Len(held[a]) >= Len(areas[a])
        /\ Len(held[a]) \in Nat /\ Len(areas[a]) \in Nat /\ Len(areas'[a]) \in Nat
        /\ Len(areas'[a]) >= Len(held[a])
    BY <1>5, <1>6
  <2>1. ASSUME NEW i \in 1 .. Len(areas[a]) PROVE areas'[a][i] = areas[a][i]
    <3>1. i \in 1 .. Len(held[a])
      BY <2>0
    <3> QED
      BY <1>5, <1>6, <3>1
  <2>2. ASSUME NEW i \in Len(areas[a]) + 1 .. Len(areas'[a])
        PROVE  \/ /\ a = compose.area /\ i = Len(areas[a]) + 1
               \/ Added(run, carbons, posts, a, areas'[a][i])
    <3>1. CASE i <= Len(held[a])
      BY <2>0, <2>2, <3>1, <1>6
    <3>2. CASE i > Len(held[a])
      <4>1. i \in Len(held[a]) + 1 .. Len(areas'[a])
        BY <2>0, <2>2, <3>2
      <4> QED
        BY <1>5, <4>1
    <3> QED
      BY <2>0, <2>2, <3>1, <3>2
  <2>3. ASSUME NEW m, Added(run, carbons, posts, a, m)
        PROVE  \E i \in 1 .. Len(areas'[a]) : areas'[a][i] = m
    <3>1. PICK i \in Len(held[a]) + 1 .. Len(areas'[a]) : areas'[a][i] = m
      BY <1>5, <2>3
    <3>2. i \in 1 .. Len(areas'[a])
      BY <2>0, <3>1
    <3> QED
      BY <3>1, <3>2
  <2>4. Len(areas'[a]) >= Len(areas[a])
    BY <2>0
  <2> QED
    BY <2>1, <2>2, <2>3, <2>4
<1>8. /\ Len(areas'[compose.area]) >= Len(areas[compose.area]) + 1
      /\ areas'[compose.area][Len(areas[compose.area]) + 1] = Whole(run)
  <2>1. /\ Len(held[compose.area]) = Len(areas[compose.area]) + 1
        /\ held[compose.area][Len(areas[compose.area]) + 1] = Whole(run)
        /\ Len(areas[compose.area]) \in Nat
    BY <1>1, <1>6
  <2>2. Len(areas[compose.area]) + 1 \in 1 .. Len(held[compose.area])
    BY <2>1
  <2> QED
    BY <1>1, <1>5, <2>1, <2>2
<1> QED
  BY <1>5, <1>7, <1>8 DEF Adds

\* What the copies are.
LEMMA AddedAre ==
    ASSUME NEW run, Stores(run),
           NEW carbons, Copying(run) => carbons \subseteq DOMAIN run.carbons,
           NEW posts, Copying(run) => posts \subseteq run.posts,
           NEW a \in Area, NEW m, Added(run, carbons, posts, a, m)
    PROVE  /\ m.of = begun /\ m.copy /\ m.words = edit.text.words
           /\ \/ /\ a # compose.area
                 /\ \E t \in Tokens("XC") : a \in t.areas
                 /\ m.to = compose.to
              \/ /\ a = Into(compose.area)
                 /\ \E t \in Tokens("CC") :
                       t.answer = "ask" \/ (t.answer = "found" /\ t.who = m.to)
<1>1. /\ Copying(run) /\ run \in InRun /\ Complete(run) /\ Walking(run)
      /\ FinalText(run).words = edit.text.words
      /\ scope \in Scopes /\ edit.text \in InText
  BY FinalFacts DEF Added, Stores, Typed, Complete
<1>2. /\ run.commands = CommandsIn(edit.text, compose.area)
      /\ run.commands \in Seq(scope.lines)
      /\ Range(run.commands) \subseteq Range(edit.text.lines)
  BY <1>1, CommandsHold DEF Walking
<1>3. \A x \in Range(Items(run.commands)) :
          /\ x \in Item /\ x.line \in Range(run.commands)
          /\ x.token \in Range(x.line.tokens)
  BY <1>1, <1>2, ItemsHold
<1>4. ASSUME NEW x \in Range(Items(run.commands))
      PROVE  /\ x.line.kind \in {"CC", "XC"}
             /\ x.token \in Tokens(x.line.kind)
  <2>1. /\ x.line \in Range(edit.text.lines) /\ x.line \in scope.lines
        /\ x.token \in Range(x.line.tokens)
    BY <1>2, <1>3 DEF Item
  <2>2. x.line.kind \in {"CC", "XC"}
    BY <1>1, <2>1, LineFacts
  <2> QED
    BY <2>1, <2>2 DEF Tokens, Lines
<1>5. CASE /\ a = Into(compose.area)
           /\ \E k \in carbons : m = Stored(FinalText(run), run.carbons[k], TRUE)
  <2>1. PICK k \in carbons : m = Stored(FinalText(run), run.carbons[k], TRUE)
    BY <1>5
  <2>2. run.carbons[k] \in Range(run.carbons)
    BY <1>1, <2>1 DEF Range
  <2>3. PICK x \in Range(Items(run.commands)) :
            Asks(x) \/ (Found(x) /\ x.token.who = run.carbons[k])
    BY <1>1, <2>2 DEF Walking
  <2>4. /\ m.of = begun /\ m.copy /\ m.words = edit.text.words
        /\ m.to = run.carbons[k]
    BY <1>1, <2>1 DEF Stored
  <2>5. x.token \in Tokens("CC")
    BY <1>4, <2>3 DEF Asks, Found, IsMask
  <2>6. x.token.answer = "ask" \/ (x.token.answer = "found" /\ x.token.who = m.to)
    BY <2>3, <2>4 DEF Asks, Found
  <2> QED
    BY <1>5, <2>4, <2>5, <2>6
<1>6. CASE a \in posts /\ m = Crosspost(FinalText(run))
  <2>1. PICK x \in Range(Items(run.commands)) : a \in Covered(x)
    BY <1>1, <1>6 DEF Walking
  <2>2. IsMask(x) /\ a \in x.token.areas /\ a # compose.area
    BY <2>1 DEF Covered
  <2>3. x.token \in Tokens("XC")
    BY <1>4, <2>2 DEF IsMask
  <2>4. /\ m.of = begun /\ m.copy /\ m.words = edit.text.words
        /\ m.to = compose.to
    BY <1>1, <1>6 DEF Crosspost, Stored
  <2> QED
    BY <2>2, <2>3, <2>4
<1> QED
  BY <1>5, <1>6 DEF Added

\* Where the message and its copies are.
LEMMA StoreParts ==
    ASSUME NEW run, Stores(run),
           NEW carbons, Copying(run) => carbons \subseteq DOMAIN run.carbons,
           NEW posts, Copying(run) => posts \subseteq run.posts,
           areas' = WithCopies(Append1(compose.area, Whole(run)), run, carbons, posts)
    PROVE  /\ areas' \in [Area -> Seq(Held)] /\ areas' # areas
           /\ Itself(compose.area) = {Len(areas[compose.area]) + 1}
           /\ \A a \in Area \ {compose.area} : Itself(a) = {}
           /\ \A a \in Area : \A i \in Copies(a) :
                Added(run, carbons, posts, a, areas'[a][i])
           /\ \A a \in Area : \A m : Added(run, carbons, posts, a, m) =>
                \E i \in Copies(a) : areas'[a][i] = m
           /\ \A a \in Area : \A m \in Range(areas'[a]) :
                \/ m \in Range(areas[a])
                \/ m.of = begun /\ m.words = edit.text.words
           /\ \A a \in Area : Len(areas'[a]) >= Len(areas[a])
           /\ areas'[compose.area][Len(areas[compose.area]) + 1] = Whole(run)
<1> DEFINE n == Len(areas[compose.area]) + 1
<1>1. /\ compose.area \in Area /\ areas \in [Area -> Seq(Held)] /\ Numbered
      /\ Composing
  BY DEF Stores, Typed
<1>2. /\ areas' \in [Area -> Seq(Held)]
      /\ areas'[compose.area][n] = Whole(run)
      /\ Len(areas'[compose.area]) >= n
      /\ \A a \in Area :
           /\ Len(areas'[a]) >= Len(areas[a])
           /\ \A i \in 1 .. Len(areas[a]) : areas'[a][i] = areas[a][i]
           /\ \A i \in Len(areas[a]) + 1 .. Len(areas'[a]) :
                 \/ a = compose.area /\ i = Len(areas[a]) + 1
                 \/ Added(run, carbons, posts, a, areas'[a][i])
           /\ \A m : Added(run, carbons, posts, a, m) =>
                 \E i \in 1 .. Len(areas'[a]) : areas'[a][i] = m
  <2>1. Adds(run, carbons, posts)
    BY StoreAdds
  <2> QED
    BY <2>1 DEF Adds
<1>3. /\ Whole(run).of = begun /\ ~Whole(run).copy
      /\ Whole(run).words = edit.text.words
  BY FinalFacts
<1>4. \A a \in Area : /\ Len(areas[a]) \in Nat /\ Len(areas'[a]) \in Nat
                      /\ DOMAIN areas[a] = 1 .. Len(areas[a])
                      /\ DOMAIN areas'[a] = 1 .. Len(areas'[a])
  BY <1>1, <1>2
<1>5. ASSUME NEW a \in Area, NEW i \in 1 .. Len(areas[a])
      PROVE  /\ areas'[a][i] \in Range(areas[a])
             /\ areas'[a][i].of # begun
  BY <1>1, <1>2, <1>4 DEF Numbered, Range
<1>6. ASSUME NEW a \in Area, NEW m, Added(run, carbons, posts, a, m)
      PROVE  m.of = begun /\ m.copy /\ m.words = edit.text.words
  BY <1>6, AddedAre
<1>7. ASSUME NEW a \in Area, NEW i \in 1 .. Len(areas'[a])
      PROVE  \/ i \in 1 .. Len(areas[a])
             \/ a = compose.area /\ i = n
             \/ Added(run, carbons, posts, a, areas'[a][i])
  <2>1. CASE i \in 1 .. Len(areas[a])
    BY <2>1
  <2>2. CASE i \notin 1 .. Len(areas[a])
    <3>1. i \in Len(areas[a]) + 1 .. Len(areas'[a])
      BY <2>2, <1>4
    <3> QED
      BY <1>2, <3>1
  <2> QED
    BY <2>1, <2>2
<1>8. n \in 1 .. Len(areas'[compose.area])
  BY <1>1, <1>2, <1>4
<1> HIDE DEF n
<1>9. Itself(compose.area) = {n}
  <2>1. n \in Itself(compose.area)
    BY <1>1, <1>2, <1>3, <1>4, <1>8 DEF Itself
  <2>2. ASSUME NEW i \in Itself(compose.area) PROVE i = n
    <3>1. /\ i \in 1 .. Len(areas'[compose.area])
          /\ areas'[compose.area][i].of = begun /\ ~areas'[compose.area][i].copy
      BY <1>1, <1>4 DEF Itself
    <3> QED
      BY <1>1, <1>5, <1>6, <1>7, <3>1
  <2> QED
    BY <2>1, <2>2
<1>10. ASSUME NEW a \in Area \ {compose.area}, NEW i \in Itself(a) PROVE FALSE
  <2>1. /\ i \in 1 .. Len(areas'[a])
        /\ areas'[a][i].of = begun /\ ~areas'[a][i].copy
    BY <1>4 DEF Itself
  <2> QED
    BY <1>5, <1>6, <1>7, <2>1
<1>11. ASSUME NEW a \in Area, NEW i \in Copies(a)
       PROVE  Added(run, carbons, posts, a, areas'[a][i])
  <2>1. /\ i \in 1 .. Len(areas'[a])
        /\ areas'[a][i].of = begun /\ areas'[a][i].copy
    BY <1>4 DEF Copies
  <2> QED
    BY <1>2, <1>3, <1>5, <1>7, <2>1
<1>12. ASSUME NEW a \in Area, NEW m, Added(run, carbons, posts, a, m)
       PROVE  \E i \in Copies(a) : areas'[a][i] = m
  <2>1. PICK i \in 1 .. Len(areas'[a]) : areas'[a][i] = m
    BY <1>2, <1>12
  <2>2. i \in Copies(a)
    BY <1>4, <1>6, <1>12, <2>1 DEF Copies
  <2> QED
    BY <2>1, <2>2
<1>13. ASSUME NEW a \in Area, NEW m \in Range(areas'[a])
       PROVE  m \in Range(areas[a]) \/ (m.of = begun /\ m.words = edit.text.words)
  <2>1. PICK i \in 1 .. Len(areas'[a]) : areas'[a][i] = m
    BY <1>4 DEF Range
  <2> QED
    BY <1>2, <1>3, <1>5, <1>6, <1>7, <2>1
<1>14. areas' # areas
  <2>1. ~ (Len(areas[compose.area]) >= n)
    BY <1>1, <1>4 DEF n
  <2> QED
    BY <1>2, <2>1
<1>15. \A a \in Area : Len(areas'[a]) >= Len(areas[a])
  BY <1>2
<1> QED
  BY <1>2, <1>9, <1>10, <1>11, <1>12, <1>13, <1>14, <1>15 DEF n

\* A line taken out of the message came to what it asked for.
LEMMA NothingDropped ==
    ASSUME NEW run, Stores(run),
           NEW carbons, Copying(run) => carbons \subseteq DOMAIN run.carbons,
           NEW posts, Copying(run) => posts \subseteq run.posts,
           areas' = WithCopies(Append1(compose.area, Whole(run)), run, carbons, posts),
           told' = NotReached(run, carbons, posts),
           NEW l \in Range(edit.text.lines) \ Range(Whole(run).lines),
           NEW t \in Range(l.tokens)
    PROVE  CameTo(l.kind, t)
<1>1. /\ scope \in Scopes /\ edit.text \in InText /\ compose.area \in Area
  BY DEF Stores, Typed
<1>2. Copying(run) /\ run \in InRun /\ Complete(run) /\ Walking(run)
      /\ Whole(run).lines = run.text.lines
  BY FinalFacts DEF Complete
<1>3. edit.text.lines \in Seq(scope.lines)
  BY <1>1 DEF InText
<1>4. l \in Range(run.commands) /\ l \notin run.keep
  <2> DEFINE K == run.keep \cup (Range(edit.text.lines) \ Range(run.commands))
  <2>1. run.text.lines = Selected(edit.text.lines, K)
    BY <1>2 DEF Complete
  <2> HIDE DEF K
  <2>2. Range(run.text.lines) = Range(edit.text.lines) \cap K
    BY <1>3, <2>1, SelectedHolds
  <2> QED
    BY <1>2, <2>2 DEF K
<1>5. /\ run.commands = CommandsIn(edit.text, compose.area)
      /\ run.commands \in Seq(scope.lines)
      /\ l.kind = "CC" => Into(compose.area) # Nowhere
  BY <1>1, <1>2, <1>4, CommandsHold DEF Walking
<1>6. PICK j \in 1 .. Len(Items(run.commands)) :
            Items(run.commands)[j] = [line |-> l, token |-> t]
  BY <1>1, <1>4, <1>5, ItemsHold
<1> DEFINE x == [line |-> l, token |-> t]
<1>7. Done(run, x)
  <2>1. Len(Items(run.commands)) \in Nat
    BY <1>1, <1>5, ItemsHold
  <2>2. j \in 1 .. run.at - 1
    BY <1>2, <1>6, <2>1 DEF Complete
  <2> QED
    BY <1>2, <1>6, <2>2 DEF Walking
<1>8. x.line = l /\ x.token = t
  OBVIOUS
<1> HIDE DEF x
<1>9. l \in scope.lines /\ t \in Token /\ l.kind \in {"CC", "XC"}
  BY <1>1, <1>3, RangeIn, LineFacts
<1>10. /\ told' = (run.posts \ posts) \cup (IF carbons = DOMAIN run.carbons THEN {}
                                            ELSE {Into(compose.area)})
  BY <1>2 DEF NotReached
<1>11. /\ \A a \in Area : \A m : Added(run, carbons, posts, a, m) =>
            \E i \in Copies(a) : areas'[a][i] = m
  BY StoreParts
<1>12. CASE IsMask(x)
  <2>1. /\ l.kind = "XC" /\ t.areas # {}
        /\ t.areas \ {compose.area} \subseteq run.posts
    BY <1>4, <1>7, <1>8, <1>12 DEF Done, IsMask, Covered, Found, Asks
  <2>2. ASSUME NEW a \in t.areas \ {compose.area}
        PROVE  Copies(a) # {} \/ a \in told'
    <3>1. a \in Area /\ a \in run.posts
      BY <2>1, <1>9 DEF Token
    <3>2. CASE a \in posts
      <4>1. Added(run, carbons, posts, a, Crosspost(FinalText(run)))
        BY <1>2, <3>2 DEF Added
      <4> QED
        BY <1>11, <3>1, <4>1
    <3>3. CASE a \notin posts
      BY <1>10, <3>1, <3>3
    <3> QED
      BY <3>2, <3>3
  <2> QED
    BY <2>1, <2>2 DEF CameTo
<1>13. CASE ~IsMask(x)
  <2>1. l.kind = "CC" /\ Into(compose.area) \in Area
    <3>1. l.kind = "CC"
      BY <1>8, <1>9, <1>13 DEF IsMask
    <3>2. scope.carbon \in [Area -> Area \cup {Nowhere}]
      BY <1>1, ScopesAssumption
    <3> QED
      BY <1>1, <1>5, <3>1, <3>2 DEF Into
  <2>2. \/ Found(x) /\ \/ AddressesTheSame(x)
                       \/ x.token.who \in Range(run.carbons)
        \/ Asks(x) /\ run.carbons # <<>>
    BY <1>4, <1>7, <1>8, <1>13 DEF Done
  <2>3. t.answer # "unknown"
    BY <2>2, <1>8 DEF Found, Asks
  <2>4. CASE carbons # DOMAIN run.carbons
    BY <2>1, <2>3, <2>4, <1>10 DEF CameTo
  <2>5. CASE carbons = DOMAIN run.carbons
    <3>0. run.carbons \in Seq(Anyone)
      BY <1>2 DEF InRun
    <3>1. CASE Found(x) /\ AddressesTheSame(x)
      BY <3>1, <2>1, <2>3, <1>8 DEF CameTo, Found, AddressesTheSame
    <3>2. ASSUME NEW k \in DOMAIN run.carbons,
                 t.answer = "found" => run.carbons[k] = t.who
          PROVE  CameTo(l.kind, t)
      <4> DEFINE m == Stored(FinalText(run), run.carbons[k], TRUE)
      <4>1. Added(run, carbons, posts, Into(compose.area), m)
        BY <1>2, <2>5 DEF Added
      <4>2. m.to = run.carbons[k]
        BY DEF Stored
      <4> HIDE DEF m
      <4>3. PICK i \in Copies(Into(compose.area)) :
                areas'[Into(compose.area)][i] = m
        BY <1>11, <2>1, <4>1
      <4> QED
        BY <2>1, <2>3, <3>2, <4>2, <4>3 DEF CameTo
    <3>3. CASE Found(x) /\ x.token.who \in Range(run.carbons)
      <4>1. PICK k \in DOMAIN run.carbons : run.carbons[k] = t.who
        BY <3>3, <1>8 DEF Range
      <4> QED
        BY <3>2, <4>1
    <3>4. CASE Asks(x) /\ run.carbons # <<>>
      <4>1. 1 \in DOMAIN run.carbons /\ t.answer # "found"
        BY <3>0, <3>4, <1>8 DEF Asks
      <4> QED
        BY <3>2, <4>1
    <3> QED
      BY <2>2, <3>1, <3>3, <3>4
  <2> QED
    BY <2>4, <2>5
<1> QED
  BY <1>12, <1>13

\* A scope is for good, and with it what its texts are.
LEMMA SameTypes ==
    ASSUME scope' = scope
    PROVE  /\ InText' = InText /\ Held' = Held /\ InRun' = InRun
BY DEF InText, Held, InRun

LEMMA EmptyIn == Empty \in InText
<1>1. <<>> \in Seq(scope.lines)
  OBVIOUS
<1> QED
  BY <1>1 DEF Empty, Template, InText, Anyone

\* The editor is left with nothing of the message in it.
LEMMA LeftBehind ==
    ASSUME IInv, NEW to \in {"reader", "list"}, LeaveEditor(to),
           box' \in {"none", "error"}, scope' = scope, begun' = begun,
           areas' \in [Area -> Seq(Held)],
           \A a \in Area : \A m \in Range(areas'[a]) : m.of <= begun,
           shown' \in 0 .. Len(areas'[Here]),
           messageCount' \in 0 .. Len(areas'[Here])
    PROVE  IInv'
<1>1. /\ scope \in Scopes /\ begun \in Nat
  BY DEF IInv, Typed
<1>2. /\ screen' = to
      /\ compose' = [kind |-> "new", area |-> Here, to |-> Blank]
      /\ edit' = [text |-> Empty, startText |-> Cleared, startTo |-> Blank,
                  inHeader |-> FALSE]
      /\ copyRun' = NoRun
  BY DEF LeaveEditor
<1>3. /\ InText' = InText /\ Held' = Held /\ InRun' = InRun
  BY SameTypes
<1>4. ~Composing'
  BY <1>2 DEF Composing
<1>5. Typed'
  <2>1. compose' \in [kind : Kinds, area : Area, to : Anyone]
    BY <1>2, AreaAssumption DEF Kinds, Anyone
  <2>2. edit' \in [text : InText, startText : InText \cup {Cleared},
                   startTo : Anyone, inHeader : BOOLEAN]
    BY <1>2, EmptyIn DEF Anyone
  <2>3. screen' \in {"reader", "list", "compose"}
    BY <1>2
  <2> QED
    BY <1>1, <1>2, <1>3, <2>1, <2>2, <2>3 DEF Typed
<1>6. Dialogs'
  BY <1>2 DEF Dialogs
<1>7. Numbered'
  BY <1>4 DEF Numbered
<1>8. Started' /\ Changing' /\ Refused'
  BY <1>2, <1>4 DEF Started, Changing, Refused
<1> QED
  BY <1>5, <1>6, <1>7, <1>8 DEF IInv

\* A step that stays in the editor and leaves the areas alone, and the run of
\* commands it leaves.
LEMMA StaysHere ==
    ASSUME IInv, Composing,
           UNCHANGED <<scope, areas, shown, messageCount, screen, begun>>,
           compose' \in [kind : Kinds, area : Area, to : Anyone],
           compose'.kind = compose.kind, compose'.area = compose.area,
           edit' \in [text : InText, startText : InText \cup {Cleared},
                      startTo : Anyone, inHeader : BOOLEAN],
           edit'.text.words >= edit.text.words,
           edit'.startText # Cleared => edit'.startText.words = 0,
           copyRun' \in InRun \cup {NoRun},
           scope.lines = {} => copyRun' = NoRun,
           Dialogs',
           scope.external /\ copyRun' # NoRun /\ box' \notin {"process", "node"}
                => Unwritable
    PROVE  IInv' /\ Sound
<1>1. /\ InText' = InText /\ Held' = Held /\ InRun' = InRun
  BY SameTypes
<1>2. Typed'
  BY <1>1 DEF Typed, IInv
<1>3. Composing'
  BY DEF Composing
<1>4. Numbered'
  BY <1>3 DEF IInv, Numbered
<1>5. Started'
  BY DEF Started
<1>6. Changing'
  BY DEF Changing, IInv, Composing
<1>7. Refused'
  BY <1>3 DEF Refused, Unwritable
<1>8. Sound
  <2>1. ~Leaving
    BY <1>3 DEF Leaving, Composing
  <2> QED
    BY <2>1, Quiet DEF IInv
<1> QED
  BY <1>2, <1>4, <1>5, <1>6, <1>7, <1>8 DEF IInv

\* No run holds up a box that asks nothing about commands.
LEMMA PlainBox ==
    ASSUME box' \in {"none", "error", "drop", "save", "editor", "review"},
           box' # "none" /\ box' # "error" => Composing',
           box' = "save" => copyRun' = NoRun,
           box' \in {"editor", "review"} => scope'.external
    PROVE  Dialogs'
BY DEF Dialogs

\* What a refused store leaves.
LEMMA RefusedKeeps ==
    ASSUME IInv, AskedAgain, Composing, NEW run, Ready(run), NotStored(run),
           scope.refusals \/ Unwritable
    PROVE  IInv' /\ Sound
<1>1. /\ scope \in Scopes /\ Typed /\ edit.text.words \in Nat
  BY DEF IInv, Typed, InText
<1>2. /\ UNCHANGED <<scope, areas, shown, messageCount, screen, begun, compose,
                     edit>>
      /\ box' = "error" /\ copyRun' = run
  BY DEF NotStored
<1>3. run \in InRun \cup {NoRun} /\ (scope.lines = {} => run = NoRun)
  BY DEF Ready, Answered
<1>4. scope.external /\ run # NoRun => Unwritable
  BY <1>1, <1>3 DEF AskedAgain
<1>5. Dialogs'
  BY <1>2, PlainBox
<1> QED
  BY <1>1, <1>2, <1>3, <1>4, <1>5, StaysHere DEF IInv, Typed, Started

LEMMA NotReadyKeeps ==
    ASSUME IInv, Composing, NEW run, Ready(run), NotReady(run)
    PROVE  IInv' /\ Sound
<1>1. /\ scope \in Scopes /\ Typed /\ edit.text.words \in Nat
      /\ edit \in [text : InText, startText : InText \cup {Cleared},
                   startTo : Anyone, inHeader : BOOLEAN]
  BY DEF IInv, Typed, InText
<1>2. /\ UNCHANGED <<scope, areas, shown, messageCount, screen, begun, compose>>
      /\ box' = "none" /\ copyRun' = run
      /\ edit' = [edit EXCEPT !.inHeader = TRUE]
      /\ compose.kind # "change" /\ compose.to = Blank
  BY DEF NotReady, AddressesReady
<1>3. run \in InRun \cup {NoRun} /\ (scope.lines = {} => run = NoRun)
      /\ (run # NoRun => Unwritable)
  BY <1>2 DEF Ready, Answered
<1>4. Dialogs'
  BY <1>2, PlainBox
<1>5. /\ edit' \in [text : InText, startText : InText \cup {Cleared},
                    startTo : Anyone, inHeader : BOOLEAN]
      /\ edit'.text = edit.text /\ edit'.startText = edit.startText
  BY <1>1, <1>2
<1>6. /\ compose' \in [kind : Kinds, area : Area, to : Anyone]
      /\ compose'.kind = compose.kind /\ compose'.area = compose.area
  BY <1>1, <1>2 DEF Typed
<1>7. edit'.text.words >= edit.text.words
  BY <1>1, <1>5
<1>8. edit'.startText # Cleared => edit'.startText.words = 0
  BY <1>5 DEF IInv, Started
<1> QED
  BY <1>2, <1>3, <1>4, <1>5, <1>6, <1>7, <1>8, StaysHere

LEMMA AskKeeps ==
    ASSUME IInv, Composing, NEW run, Ready(run), AskAboutCopies(run)
    PROVE  IInv' /\ Sound
<1>1. /\ scope \in Scopes /\ Typed /\ edit.text.words \in Nat
      /\ edit.text \in InText /\ compose \in [kind : Kinds, area : Area, to : Anyone]
      /\ edit \in [text : InText, startText : InText \cup {Cleared},
                   startTo : Anyone, inHeader : BOOLEAN]
  BY DEF IInv, Typed, InText
<1> DEFINE commands == CommandsIn(edit.text, compose.area)
<1>2. /\ UNCHANGED <<scope, areas, shown, messageCount, screen, begun, compose,
                     edit>>
      /\ box' = "process" /\ copyRun' = NewRun(commands)
      /\ compose.kind # "change" /\ compose.to # Blank
      /\ commands # <<>>
  BY DEF AskAboutCopies, AddressesReady, AsksAbout
<1>3. commands \in Seq(scope.lines) /\ Range(commands) \subseteq Range(edit.text.lines)
  BY <1>1, CommandsHold
<1>4. commands = CommandsIn(edit.text, compose.area)
  OBVIOUS
<1> HIDE DEF commands
<1>5. NewRun(commands) \in InRun
  <2>1. <<>> \in Seq(Anyone)
    OBVIOUS
  <2> QED
    BY <1>3, <2>1, EmptyIn DEF NewRun, InRun
<1>6. scope.lines # {}
  <2>1. Range(commands) # {} /\ Range(commands) \subseteq scope.lines
    BY <1>2, <1>3, RangeIn
  <2> QED
    BY <2>1
<1>7. Walking(NewRun(commands))
  <2>1. /\ NewRun(commands).commands = commands /\ NewRun(commands).at = 1
        /\ NewRun(commands).posts = {} /\ NewRun(commands).carbons = <<>>
    BY DEF NewRun
  <2>2. Len(Items(commands)) \in Nat
    BY <1>1, <1>3, ItemsHold
  <2>3. 1 \in 1 .. Len(Items(commands)) + 1 /\ 1 .. 1 - 1 = {}
    BY <2>2
  <2>4. Range(<<>>) = {}
    BY DEF Range
  <2> QED
    BY <1>4, <2>1, <2>3, <2>4 DEF Walking
<1>8. Walking(copyRun)'
  <2>1. UNCHANGED <<edit, compose, scope>>
    BY <1>2
  <2>2. Walking(copyRun') = Walking(NewRun(commands))
    BY <1>2
  <2>3. Walking(copyRun)' <=> Walking(copyRun')
    BY <2>1 DEF Walking, Done, CommandsIn, Into, Covered, AddressesTheSame,
                Found, Asks, IsMask, Items
  <2> QED
    BY <1>7, <2>2, <2>3
<1>9. Dialogs'
  <2>1. copyRun' \in InRun' /\ Composing'
    BY <1>2, <1>5, SameTypes DEF Composing
  <2> QED
    BY <1>2, <1>8, <2>1 DEF Dialogs
<1>10. edit'.startText # Cleared => edit'.startText.words = 0
  BY <1>2 DEF IInv, Started
<1> QED
  BY <1>1, <1>2, <1>5, <1>6, <1>9, <1>10, StaysHere

LEMMA ChangeKeeps ==
    ASSUME IInv, AskedAgain, Composing, NEW run, Ready(run), SaveChange(run)
    PROVE  IInv' /\ Sound
<1>1. /\ Typed /\ Numbered /\ compose.kind = "change"
      /\ compose.area = Here /\ shown \in 1 .. Len(areas[Here])
      /\ areas \in [Area -> Seq(Held)] /\ Here \in Area /\ begun \in Nat
  BY AreaAssumption DEF IInv, Typed, SaveChange, Changing
<1>2. CASE scope.refusals /\ NotStored(run)
  BY <1>2, RefusedKeeps
<1>3. CASE /\ areas' = [areas EXCEPT ![Here][shown] =
                              Stored(edit.text, compose.to, FALSE)]
           /\ LeaveEditor("reader")
           /\ box' = "none"
           /\ UNCHANGED <<scope, shown, messageCount, begun, told>>
  <2> DEFINE m == Stored(edit.text, compose.to, FALSE)
             s == areas[Here]
  <2>1. m \in Held /\ m.of = begun /\ ~m.copy /\ m.words = edit.text.words
    BY <1>1, StoredHeld DEF Typed, Stored
  <2>2. areas' = [areas EXCEPT ![Here] = [s EXCEPT ![shown] = m]]
    BY <1>3
  <2>3. s \in Seq(Held) /\ shown \in 1 .. Len(s)
    BY <1>1
  <2> HIDE DEF m
  <2>4. /\ areas'[Here] = [s EXCEPT ![shown] = m]
        /\ \A a \in Area \ {Here} : areas'[a] = areas[a]
    BY <1>1, <2>2
  <2> HIDE DEF s
  <2>5. /\ [s EXCEPT ![shown] = m] \in Seq(Held)
        /\ Len([s EXCEPT ![shown] = m]) = Len(s)
        /\ m \in Range([s EXCEPT ![shown] = m])
        /\ Range([s EXCEPT ![shown] = m]) \subseteq Range(s) \cup {m}
    <3>1. /\ [s EXCEPT ![shown] = m] \in Seq(Held)
          /\ Len([s EXCEPT ![shown] = m]) = Len(s)
          /\ DOMAIN s = 1 .. Len(s)
          /\ DOMAIN [s EXCEPT ![shown] = m] = 1 .. Len(s)
          /\ [s EXCEPT ![shown] = m][shown] = m
          /\ \A i \in 1 .. Len(s) : i # shown => [s EXCEPT ![shown] = m][i] = s[i]
      BY <2>1, <2>3
    <3> QED
      BY <2>3, <3>1 DEF Range
  <2>6. areas' \in [Area -> Seq(Held)]
    BY <1>1, <2>2, <2>5
  <2>7. \A a \in Area : \A x \in Range(areas'[a]) :
            x \in Range(areas[a]) \/ x = m
    BY <2>4, <2>5 DEF s
  <2>8. \A a \in Area : \A x \in Range(areas'[a]) : x.of <= begun
    BY <1>1, <2>1, <2>7 DEF Numbered
  <2>9. Len(areas'[Here]) = Len(areas[Here])
    BY <2>4, <2>5 DEF s
  <2>10. IInv'
    BY <1>1, <1>3, <2>6, <2>8, <2>9, LeftBehind DEF Typed
  <2>11. WordsSurvive
    <3>1. ~Composing'
      BY <1>3 DEF LeaveEditor, Composing
    <3>2. \A a \in Area : \A x \in Range(areas'[a]) :
                x.of = begun => x.words = edit.text.words
      BY <1>1, <2>1, <2>7 DEF Numbered
    <3>3. m \in Range(areas'[compose.area])
      BY <1>1, <2>4, <2>5
    <3> QED
      BY <2>1, <3>1, <3>2, <3>3 DEF WordsSurvive
  <2> QED
    BY <1>1, <2>10, <2>11 DEF Sound, AsTheTextAsks, ReaderIsOnIt
<1> QED
  BY <1>2, <1>3 DEF SaveChange

\* The message is stored, with the copies some areas took of it.
LEMMA StoredKeeps ==
    ASSUME IInv, NEW run, Stores(run),
           NEW carbons, Copying(run) => carbons \subseteq DOMAIN run.carbons,
           NEW posts, Copying(run) => posts \subseteq run.posts,
           areas' = WithCopies(Append1(compose.area, Whole(run)), run, carbons, posts),
           NEW to \in {"reader", "list"}, LeaveEditor(to),
           to = "reader" => told' = NotReached(run, carbons, posts),
           box' \in {"none", "error"}, scope' = scope, begun' = begun,
           Len(areas'[Here]) >= Len(areas[Here])
                /\ (compose.area = Here =>
                        Len(areas'[Here]) >= Len(areas[Here]) + 1) =>
                /\ shown' \in 0 .. Len(areas'[Here])
                /\ messageCount' \in 0 .. Len(areas'[Here]),
           to = "reader" /\ compose.area = Here
                /\ (scope.position = "new" \/ shown = 0) =>
                shown' = Len(areas[Here]) + 1
    PROVE  IInv' /\ Sound
<1>1. /\ Typed /\ Numbered /\ Here \in Area /\ compose.area \in Area
      /\ areas \in [Area -> Seq(Held)] /\ begun \in Nat /\ Composing
  BY AreaAssumption DEF IInv, Typed, Stores
<1>2. /\ areas' \in [Area -> Seq(Held)] /\ areas' # areas
      /\ Itself(compose.area) = {Len(areas[compose.area]) + 1}
      /\ \A a \in Area \ {compose.area} : Itself(a) = {}
      /\ \A a \in Area : \A i \in Copies(a) :
           Added(run, carbons, posts, a, areas'[a][i])
      /\ \A a \in Area : \A m \in Range(areas'[a]) :
           \/ m \in Range(areas[a])
           \/ m.of = begun /\ m.words = edit.text.words
      /\ \A a \in Area : Len(areas'[a]) >= Len(areas[a])
      /\ areas'[compose.area][Len(areas[compose.area]) + 1] = Whole(run)
  BY StoreParts
<1>3. screen' = to /\ ~Composing'
  BY DEF LeaveEditor, Composing
<1>4. IInv'
  <2>1. \A a \in Area : \A m \in Range(areas'[a]) : m.of <= begun
    BY <1>1, <1>2 DEF Numbered
  <2>2. compose.area = Here => Len(areas'[Here]) >= Len(areas[Here]) + 1
    <3>1. SUFFICES ASSUME compose.area = Here
                   PROVE  Len(areas'[Here]) >= Len(areas[Here]) + 1
      OBVIOUS
    <3>2. Len(areas[Here]) + 1 \in DOMAIN areas'[Here]
      BY <1>2, <3>1 DEF Itself
    <3>3. DOMAIN areas'[Here] = 1 .. Len(areas'[Here])
      BY <1>1, <1>2
    <3> QED
      BY <3>2, <3>3
  <2> QED
    BY <1>1, <1>2, <2>1, <2>2, LeftBehind
<1>5. WordsSurvive
  <2>1. \A a \in Area : \A m \in Range(areas'[a]) :
            m.of = begun => m.words = edit.text.words
    BY <1>1, <1>2 DEF Numbered
  <2>2. \E m \in Range(areas'[compose.area]) : m.of = begun /\ ~m.copy
    <3>1. Len(areas[compose.area]) + 1 \in Itself(compose.area)
      BY <1>2
    <3> QED
      BY <3>1 DEF Itself, Range
  <2> QED
    BY <1>3, <2>1, <2>2 DEF WordsSurvive
<1>6. AsTheTextAsks
  <2>1. Cardinality(Itself(compose.area)) = 1
    BY <1>2, FS_Singleton
  <2>2. \A a \in Area : \A i \in Copies(a) :
               \/ /\ a # compose.area
                  /\ \E t \in Tokens("XC") : a \in t.areas
                  /\ areas'[a][i].to = compose.to
               \/ /\ a = Into(compose.area)
                  /\ \E t \in Tokens("CC") :
                        t.answer = "ask"
                        \/ (t.answer = "found" /\ t.who = areas'[a][i].to)
    <3>1. \A a \in Area : \A m : Added(run, carbons, posts, a, m) =>
               \/ /\ a # compose.area
                  /\ \E t \in Tokens("XC") : a \in t.areas
                  /\ m.to = compose.to
               \/ /\ a = Into(compose.area)
                  /\ \E t \in Tokens("CC") :
                        t.answer = "ask" \/ (t.answer = "found" /\ t.who = m.to)
      BY AddedAre
    <3> QED
      BY <1>2, <3>1
  <2>3. ASSUME screen' = "reader", NEW i \in Itself(compose.area),
               NEW l \in Range(edit.text.lines) \ Range(areas'[compose.area][i].lines),
               NEW t \in Range(l.tokens)
        PROVE  CameTo(l.kind, t)
    <3>1. areas'[compose.area][i] = Whole(run)
      BY <1>2, <2>3
    <3>2. /\ told' = NotReached(run, carbons, posts)
          /\ l \in Range(edit.text.lines) \ Range(Whole(run).lines)
      BY <1>3, <2>3, <3>1
    <3> QED
      BY <2>3, <3>2, NothingDropped
  <2> QED
    BY <1>2, <2>1, <2>2, <2>3 DEF AsTheTextAsks
<1>7. ReaderIsOnIt
  BY <1>2, <1>3 DEF ReaderIsOnIt
<1> QED
  BY <1>4, <1>5, <1>6, <1>7 DEF Sound

\* A copy for nobody adds nothing.
LEMMA NoCopies ==
    ASSUME NEW run, Stores(run)
    PROVE  Append1(compose.area, Whole(run)) =
                WithCopies(Append1(compose.area, Whole(run)), run, {}, {})
<1> DEFINE held == Append1(compose.area, Whole(run))
<1>1. /\ areas \in [Area -> Seq(Held)] /\ compose.area \in Area
      /\ Whole(run) \in Held /\ begun \in Nat
  BY FinalFacts DEF Stores, Typed
<1>2. held \in [Area -> Seq(Held)]
  <2>1. Append(areas[compose.area], Whole(run)) \in Seq(Held)
    BY <1>1, AppendedRange
  <2> QED
    BY <1>1, <2>1 DEF Append1
<1> HIDE DEF held
<1>3. CASE ~Copying(run)
  BY <1>3 DEF WithCopies, held
<1>4. CASE Copying(run)
  <2> DEFINE text == FinalText(run)
  <2>1. run \in InRun /\ text \in InText
    BY <1>4, FinalFacts
  <2> HIDE DEF text
  <2>2. CarbonCopies(run, text, {}) = <<>>
    <3> DEFINE none == {}
    <3>1. none \in SUBSET DOMAIN run.carbons /\ none = {}
      OBVIOUS
    <3> HIDE DEF none
    <3>2. /\ CarbonCopies(run, text, none) \in Seq(Held)
          /\ \A m : m \in Range(CarbonCopies(run, text, none)) <=>
                \E k \in none : m = Stored(text, run.carbons[k], TRUE)
      <4>1. \A carbons \in SUBSET DOMAIN run.carbons :
                /\ CarbonCopies(run, text, carbons) \in Seq(Held)
                /\ \A m : m \in Range(CarbonCopies(run, text, carbons)) <=>
                      \E k \in carbons : m = Stored(text, run.carbons[k], TRUE)
        BY <1>1, <2>1, CarbonsHold
      <4> QED
        BY <3>1, <4>1, Zenon
    <3> DEFINE c == CarbonCopies(run, text, none)
    <3>3. c \in Seq(Held) /\ Range(c) = {}
      BY <3>1, <3>2
    <3> HIDE DEF c
    <3>4. c = <<>>
      BY <3>3, RangeIn
    <3> QED
      BY <3>1, <3>4 DEF c
  <2>3. WithCopies(held, run, {}, {}) = [a \in Area |->
            held[a] \o (IF a = Into(compose.area) THEN <<>> ELSE <<>>) \o <<>>]
    BY <1>4, <2>2 DEF WithCopies, text
  <2>4. \A a \in Area : held[a] \o <<>> \o <<>> = held[a]
    BY <1>2
  <2>5. WithCopies(held, run, {}, {}) = [a \in Area |-> held[a]]
    BY <2>3, <2>4
  <2> QED
    BY <1>2, <2>5 DEF held
<1> QED
  BY <1>3, <1>4

\* The run of commands with which a message is stored.
LEMMA ReadyStores ==
    ASSUME IInv, Composing, NEW run, Ready(run), ~AsksAbout(run), AddressesReady,
           compose.kind # "change", ~Unwritable
    PROVE  Stores(run)
BY DEF IInv, Ready, Stores, AddressesReady

\* What writeCopies() does with the areas.
LEMMA CopiesOut ==
    ASSUME NEW held, NEW run, CopyOut(held, run)
    PROVE  \E carbons, posts :
            /\ Copying(run) => carbons \subseteq DOMAIN run.carbons
            /\ Copying(run) => posts \subseteq run.posts
            /\ areas' = WithCopies(held, run, carbons, posts)
            /\ told' = NotReached(run, carbons, posts)
            /\ box' \in {"none", "error"}
<1>1. PICK carbons \in IF Copying(run) THEN SUBSET DOMAIN run.carbons ELSE {{}},
           posts \in IF Copying(run) THEN SUBSET run.posts ELSE {{}} :
        /\ areas' = WithCopies(held, run, carbons, posts)
        /\ told' = NotReached(run, carbons, posts)
        /\ box' = IF told' # {} \/ (Copying(run) /\ run.unresolved)
                  THEN "error" ELSE "none"
  BY DEF CopyOut
<1>2. /\ Copying(run) => carbons \subseteq DOMAIN run.carbons
      /\ Copying(run) => posts \subseteq run.posts
      /\ box' \in {"none", "error"}
  BY <1>1
<1> QED
  BY <1>1, <1>2

LEMMA StoreHereKeeps ==
    ASSUME IInv, AskedAgain, Composing, NEW run, Ready(run), StoreHere(run)
    PROVE  IInv' /\ Sound
<1>1. /\ AddressesReady /\ compose.kind # "change" /\ ~AsksAbout(run)
      /\ compose.area = Here
  BY DEF StoreHere
<1>2. CASE /\ scope.refusals \/ ~scope.writable
           /\ NotStored(run)
  BY <1>1, <1>2, RefusedKeeps DEF Unwritable
<1>3. CASE /\ scope.writable
           /\ \E back \in {TRUE} \cup {~(AnyCopies(run) /\ scope.refusals)} :
               /\ CopyOut(Append1(Here, Stored(FinalText(run), compose.to, FALSE)),
                          run)
               /\ LeaveEditor(IF back THEN "reader" ELSE "list")
               /\ messageCount' = IF back THEN Len(areas'[Here]) ELSE messageCount
               /\ shown' = IF back THEN ReaderAfterSave(Len(areas[Here]) + 1,
                                                        messageCount')
                           ELSE 0
           /\ UNCHANGED <<scope, begun>>
  <2>1. Stores(run)
    BY <1>1, <1>3, ReadyStores DEF Unwritable
  <2>2. PICK back \in BOOLEAN :
               /\ CopyOut(Append1(Here, Stored(FinalText(run), compose.to, FALSE)),
                          run)
               /\ LeaveEditor(IF back THEN "reader" ELSE "list")
               /\ messageCount' = IF back THEN Len(areas'[Here]) ELSE messageCount
               /\ shown' = IF back THEN ReaderAfterSave(Len(areas[Here]) + 1,
                                                        messageCount')
                           ELSE 0
    BY <1>3
  <2> DEFINE to == IF back THEN "reader" ELSE "list"
  <2>3. CopyOut(Append1(compose.area, Whole(run)), run)
    BY <1>1, <2>2 DEF Whole
  <2>4. PICK carbons, posts :
            /\ Copying(run) => carbons \subseteq DOMAIN run.carbons
            /\ Copying(run) => posts \subseteq run.posts
            /\ areas' = WithCopies(Append1(compose.area, Whole(run)), run,
                                   carbons, posts)
            /\ told' = NotReached(run, carbons, posts)
            /\ box' \in {"none", "error"}
    BY <2>3, CopiesOut
  <2>5. /\ to \in {"reader", "list"} /\ LeaveEditor(to)
        /\ scope' = scope /\ begun' = begun
    BY <1>3, <2>2
  <2>6. /\ shown \in 0 .. Len(areas[Here]) /\ messageCount \in 0 .. Len(areas[Here])
        /\ Len(areas[Here]) \in Nat /\ Len(areas'[Here]) \in Nat
    <3>1. areas' \in [Area -> Seq(Held)]
      BY <2>1, <2>4, StoreParts
    <3> QED
      BY <3>1, AreaAssumption DEF IInv, Typed
  <2>7. ASSUME Len(areas'[Here]) >= Len(areas[Here]) + 1
        PROVE  /\ shown' \in 0 .. Len(areas'[Here])
               /\ messageCount' \in 0 .. Len(areas'[Here])
    BY <2>2, <2>6, <2>7 DEF ReaderAfterSave
  <2>8. back /\ (scope.position = "new" \/ shown = 0) =>
                shown' = Len(areas[Here]) + 1
    BY <2>2, <2>6 DEF ReaderAfterSave
  <2>9. to = "reader" => back
    BY <2>2
  <2> HIDE DEF to
  <2> QED
    BY <1>1, <2>1, <2>4, <2>5, <2>7, <2>8, <2>9, StoredKeeps
<1> QED
  BY <1>2, <1>3 DEF StoreHere

LEMMA StoreElsewhereKeeps ==
    ASSUME IInv, AskedAgain, Composing, NEW run, Ready(run), StoreElsewhere(run)
    PROVE  IInv' /\ Sound
<1> DEFINE held == Append1(compose.area, Whole(run))
<1>1. /\ AddressesReady /\ compose.kind # "change" /\ ~AsksAbout(run)
      /\ compose.area # Here /\ ~Unwritable
  BY DEF StoreElsewhere, Unwritable
<1>2. Stores(run)
  BY <1>1, ReadyStores
<1>3. /\ shown \in 0 .. Len(areas[Here]) /\ messageCount \in 0 .. Len(areas[Here])
      /\ areas \in [Area -> Seq(Held)] /\ Len(areas[Here]) \in Nat
      /\ Typed /\ Numbered /\ begun \in Nat
  BY AreaAssumption DEF IInv, Typed
<1>4. CASE scope.refusals /\ NotStored(run)
  BY <1>4, RefusedKeeps
<1>5. CASE \E back \in {TRUE} \cup {~(AnyCopies(run) /\ scope.refusals)} :
                /\ CopyOut(held, run)
                /\ LeaveEditor(IF back THEN "reader" ELSE "list")
                /\ shown' = IF back THEN ReaderAfterSave(0, messageCount) ELSE 0
                /\ UNCHANGED <<scope, messageCount, begun>>
  <2>1. PICK back \in BOOLEAN :
                /\ CopyOut(held, run)
                /\ LeaveEditor(IF back THEN "reader" ELSE "list")
                /\ shown' = IF back THEN ReaderAfterSave(0, messageCount) ELSE 0
                /\ UNCHANGED <<scope, messageCount, begun>>
    BY <1>5
  <2>2. PICK carbons, posts :
            /\ Copying(run) => carbons \subseteq DOMAIN run.carbons
            /\ Copying(run) => posts \subseteq run.posts
            /\ areas' = WithCopies(held, run, carbons, posts)
            /\ told' = NotReached(run, carbons, posts)
            /\ box' \in {"none", "error"}
    <3> HIDE DEF held
    <3> QED
      BY <2>1, CopiesOut
  <2> DEFINE to == IF back THEN "reader" ELSE "list"
  <2>3. to \in {"reader", "list"} /\ LeaveEditor(to)
    BY <2>1
  <2>4. Len(areas'[Here]) \in Nat
    <3>1. areas' \in [Area -> Seq(Held)]
      BY <1>2, <2>2, StoreParts
    <3> QED
      BY <3>1, AreaAssumption
  <2>5. ASSUME Len(areas'[Here]) >= Len(areas[Here])
        PROVE  /\ shown' \in 0 .. Len(areas'[Here])
               /\ messageCount' \in 0 .. Len(areas'[Here])
    BY <1>3, <2>1, <2>4, <2>5 DEF ReaderAfterSave
  <2> HIDE DEF to
  <2> QED
    BY <1>1, <1>2, <2>1, <2>2, <2>3, <2>5, StoredKeeps
<1>6. CASE /\ scope.refusals
           /\ areas' \in {areas, held}
           /\ LeaveEditor("list")
           /\ shown' = 0
           /\ box' = IF Copying(run) /\ run.unresolved THEN "error" ELSE "none"
           /\ UNCHANGED <<scope, messageCount, begun, told>>
  <2>1. box' \in {"none", "error"} /\ screen' = "list"
    BY <1>6 DEF LeaveEditor
  <2>2. CASE areas' = areas
    <3>1. IInv'
      BY <1>3, <1>6, <2>1, <2>2, LeftBehind DEF Numbered
    <3>2. Sound
      BY <1>3, <2>1, <2>2, Quiet DEF Composing
    <3> QED
      BY <3>1, <3>2
  <2>3. CASE areas' = held
    <3>1. areas' = WithCopies(held, run, {}, {})
      BY <1>2, <2>3, NoCopies
    <3>2. Len(areas'[Here]) \in Nat
      <4>1. Append(areas[compose.area], Whole(run)) \in Seq(Held)
        BY <1>2, <1>3, FinalFacts, AppendedRange DEF Typed
      <4>2. areas' \in [Area -> Seq(Held)]
        BY <1>3, <2>3, <4>1 DEF Append1
      <4> QED
        BY <4>2, AreaAssumption
    <3>3. Len(areas'[Here]) >= Len(areas[Here]) =>
               /\ shown' \in 0 .. Len(areas'[Here])
               /\ messageCount' \in 0 .. Len(areas'[Here])
      BY <1>3, <1>6, <3>2
    <3> DEFINE none == {}
    <3>4. /\ Copying(run) => none \subseteq DOMAIN run.carbons
          /\ Copying(run) => none \subseteq run.posts
          /\ areas' = WithCopies(held, run, none, none)
      BY <3>1
    <3> DEFINE to == "list"
    <3>5. to \in {"reader", "list"} /\ LeaveEditor(to) /\ to # "reader"
      BY <1>6
    <3> HIDE DEF none, to
    <3> QED
      BY <1>1, <1>2, <1>6, <2>1, <3>3, <3>4, <3>5, StoredKeeps
  <2> QED
    BY <1>6, <2>2, <2>3
<1> QED
  BY <1>4, <1>5, <1>6 DEF StoreElsewhere, Whole

LEMMA SaveKeeps ==
    ASSUME IInv, AskedAgain, Composing, NEW run, Ready(run), SaveMessage(run)
    PROVE  IInv' /\ Sound
BY NotReadyKeeps, ChangeKeeps, AskKeeps, StoreHereKeeps, StoreElsewhereKeeps
   DEF SaveMessage

\* --------------------------------------------------------------------------
\* Carrying the commands out

\* A run is seen the same after a step that leaves the text alone.
LEMMA WalkingSame ==
    ASSUME UNCHANGED <<scope, edit, compose>>
    PROVE  Walking(copyRun)' <=> Walking(copyRun')
BY DEF Walking, Done, CommandsIn, Into, Covered, AddressesTheSame, Found, Asks,
       IsMask, Items

LEMMA NoRunFacts ==
    ASSUME scope \in Scopes
    PROVE  NoRun \notin InRun /\ Cleared \notin InText
<1>1. scope.lines \subseteq CommandLine
  BY DEF CommandLine
<1>2. Seq(scope.lines) \subseteq Seq(CommandLine)
  BY <1>1
<1> QED
  BY <1>1, <1>2, NoRunAssumption, ClearedAssumption DEF InRun, InText, Anyone

LEMMA ResolveKeeps ==
    ASSUME IInv, AskedAgain, Composing, NEW run \in InRun, Walking(run), run.process,
           compose.to # Blank, compose.kind # "change", scope.lines # {},
           ResolveCopies(run)
    PROVE  IInv' /\ Sound
<1> DEFINE w == Walked(run)
<1>1. /\ scope \in Scopes /\ edit.text \in InText
      /\ compose \in [kind : Kinds, area : Area, to : Anyone]
      /\ edit \in [text : InText, startText : InText \cup {Cleared},
                   startTo : Anyone, inHeader : BOOLEAN]
      /\ edit.text.words \in Nat
  BY DEF IInv, Typed, InText
<1>2. /\ w \in InRun /\ Walking(w) /\ w.process = run.process
      /\ w.commands = run.commands
      /\ w.at <= Len(Items(w.commands)) => Asks(Items(w.commands)[w.at])
  BY <1>1, WalkedKeeps
<1>3. CASE w.at <= Len(Items(run.commands))
  <2>1. /\ copyRun' = w /\ box' = "node"
        /\ UNCHANGED <<scope, areas, shown, messageCount, screen, begun,
                       compose, edit, reviewShown, told>>
    BY <1>3 DEF ResolveCopies
  <2> HIDE DEF w
  <2>2. Walking(copyRun)'
    BY <1>2, <2>1, WalkingSame
  <2>3. Dialogs'
    <3>1. copyRun' \in InRun' /\ Composing'
      BY <1>2, <2>1, SameTypes DEF Composing
    <3>2. /\ (copyRun.at <= Len(Items(copyRun.commands)))'
          /\ Asks(Items(copyRun.commands)[copyRun.at])'
          /\ copyRun'.process
      BY <1>2, <1>3, <2>1
    <3> QED
      BY <2>1, <2>2, <3>1, <3>2 DEF Dialogs
  <2>4. edit'.startText # Cleared => edit'.startText.words = 0
    BY <2>1 DEF IInv, Started
  <2> QED
    BY <1>1, <1>2, <2>1, <2>3, <2>4, StaysHere
<1>4. CASE ~(w.at <= Len(Items(run.commands)))
  <2>1. SaveMessage(Finished(w))
    BY <1>4 DEF ResolveCopies
  <2> HIDE DEF w
  <2>2. w.at = Len(Items(w.commands)) + 1
    <3>1. w.at \in 1 .. Len(Items(w.commands)) + 1 /\ Len(Items(w.commands)) \in Nat
      BY <1>1, <1>2, ItemsHold DEF Walking, InRun
    <3> QED
      BY <1>2, <1>4, <3>1
  <2>3. Finished(w) \in InRun /\ Complete(Finished(w))
    BY <1>1, <1>2, <2>2, FinishedComplete
  <2>4. Ready(Finished(w))
    BY <2>3 DEF Ready, Answered
  <2> QED
    BY <2>1, <2>4, SaveKeeps
<1> QED
  BY <1>3, <1>4

\* The answers of the boxes.
LEMMA SavesKeep ==
    ASSUME IInv, AskedAgain, ConfirmSave \/ ReviewSave \/ IgnoreCopies
    PROVE  IInv' /\ Sound
<1>1. scope \in Scopes /\ copyRun \in InRun \cup {NoRun}
  BY DEF IInv, Typed
<1>2. CASE ConfirmSave
  <2>1. Composing /\ copyRun = NoRun /\ SaveMessage(copyRun)
    BY <1>2 DEF ConfirmSave, IInv, Dialogs
  <2>2. Ready(copyRun)
    BY <2>1 DEF Ready
  <2> QED
    BY <2>1, <2>2, SaveKeeps
<1>3. CASE ReviewSave
  <2>1. Composing /\ scope.external /\ box = "review" /\ SaveMessage(copyRun)
    BY <1>3 DEF ReviewSave, IInv, Dialogs
  <2>2. Ready(copyRun)
    BY <1>1, <2>1 DEF Ready, IInv, Refused
  <2> QED
    BY <2>1, <2>2, SaveKeeps
<1>4. CASE IgnoreCopies
  <2> DEFINE run == [copyRun EXCEPT !.process = FALSE]
  <2>1. /\ Composing /\ copyRun \in InRun /\ compose.to # Blank
        /\ compose.kind # "change" /\ SaveMessage(run)
    BY <1>4 DEF IgnoreCopies, IInv, Dialogs
  <2>2. run \in InRun /\ ~run.process
    BY <2>1 DEF InRun
  <2>3. scope.lines # {}
    BY <1>1, <2>1, NoRunFacts DEF IInv, Refused
  <2> HIDE DEF run
  <2>4. Ready(run)
    BY <2>1, <2>2, <2>3 DEF Ready, Answered
  <2> QED
    BY <2>1, <2>4, SaveKeeps
<1> QED
  BY <1>2, <1>3, <1>4

LEMMA ProcessKeeps ==
    ASSUME IInv, AskedAgain, ProcessCopies
    PROVE  IInv' /\ Sound
<1> DEFINE run == [copyRun EXCEPT !.process = TRUE]
<1>1. /\ Composing /\ copyRun \in InRun /\ compose.to # Blank /\ Walking(copyRun)
      /\ compose.kind # "change" /\ ResolveCopies(run) /\ scope \in Scopes
  BY DEF ProcessCopies, IInv, Dialogs, Typed
<1>2. /\ run \in InRun /\ run.process /\ run.commands = copyRun.commands
      /\ run.at = copyRun.at /\ run.posts = copyRun.posts
      /\ run.carbons = copyRun.carbons /\ run.keep = copyRun.keep
  BY <1>1 DEF InRun
<1>3. scope.lines # {}
  BY <1>1, NoRunFacts DEF IInv, Refused
<1> HIDE DEF run
<1>4. Walking(run)
  <2>1. ASSUME NEW x, Done(copyRun, x) PROVE Done(run, x)
    BY <1>2, <2>1 DEF Done
  <2> QED
    BY <1>1, <1>2, <2>1 DEF Walking
<1> QED
  BY <1>1, <1>2, <1>3, <1>4, ResolveKeeps

LEMMA PickedKeeps ==
    ASSUME IInv, AskedAgain, UseCarbonCopy
    PROVE  IInv' /\ Sound
<1> DEFINE items == Items(copyRun.commands)
           x == items[copyRun.at]
<1>1. /\ Composing /\ copyRun \in InRun /\ compose.to # Blank /\ Walking(copyRun)
      /\ compose.kind # "change" /\ scope \in Scopes
      /\ copyRun.at <= Len(items) /\ Asks(x) /\ copyRun.process
  BY DEF UseCarbonCopy, IInv, Dialogs, Typed
<1>2. scope.lines # {}
  BY <1>1, NoRunFacts DEF IInv, Refused
<1>3. /\ items \in Seq(Item) /\ Len(items) \in Nat /\ DOMAIN items = 1 .. Len(items)
      /\ copyRun.at \in 1 .. Len(items) /\ copyRun.at \in Nat
  <2>1. items \in Seq(Item)
    BY <1>1, ItemsHold DEF InRun
  <2>2. copyRun.at \in 1 .. Len(items) + 1
    BY <1>1 DEF Walking
  <2> QED
    BY <1>1, <2>1, <2>2
<1>4. x \in Range(items) /\ x \in Item
  BY <1>3 DEF Range
<1>5. \A j \in 1 .. copyRun.at : j = copyRun.at \/ j \in 1 .. copyRun.at - 1
  BY <1>3
<1>6. copyRun.at + 1 \in 1 .. Len(items) + 1 /\ copyRun.at + 1 - 1 = copyRun.at
  BY <1>3
<1>7. /\ copyRun.commands = CommandsIn(edit.text, compose.area)
      /\ \A j \in 1 .. copyRun.at - 1 : Done(copyRun, items[j])
      /\ \A a \in copyRun.posts : \E item \in Range(items) : a \in Covered(item)
      /\ \A who \in Range(copyRun.carbons) : \E item \in Range(items) :
              Asks(item) \/ (Found(item) /\ item.token.who = who)
  BY <1>1 DEF Walking
<1>8. CASE \E who \in Recipient :
              ResolveCopies([copyRun EXCEPT !.carbons = Append(@, who), !.at = @ + 1])
  <2>1. PICK who \in Recipient :
              ResolveCopies([copyRun EXCEPT !.carbons = Append(@, who), !.at = @ + 1])
    BY <1>8
  <2> DEFINE carbons == Append(copyRun.carbons, who)
             run == [copyRun EXCEPT !.carbons = Append(@, who), !.at = @ + 1]
  <2>2. /\ carbons \in Seq(Anyone) /\ carbons # <<>>
        /\ Range(carbons) = Range(copyRun.carbons) \cup {who}
    <3>1. copyRun.carbons \in Seq(Anyone) /\ who \in Anyone
      BY <1>1 DEF InRun, Anyone
    <3>2. /\ carbons \in Seq(Anyone)
          /\ Range(carbons) = Range(copyRun.carbons) \cup {who}
      BY <3>1, AppendedRange
    <3> HIDE DEF carbons
    <3> QED
      BY <3>2, RangeIn
  <2>3. run = [copyRun EXCEPT !.carbons = carbons, !.at = @ + 1]
    OBVIOUS
  <2> HIDE DEF run, carbons
  <2>4. /\ run \in InRun /\ run.process /\ run.commands = copyRun.commands
        /\ run.at = copyRun.at + 1 /\ run.posts = copyRun.posts
        /\ run.carbons = carbons /\ run.keep = copyRun.keep
    <3>1. copyRun \in InRun /\ copyRun.at + 1 \in Nat /\ carbons \in Seq(Anyone)
          /\ copyRun.process
      BY <1>1, <1>3, <2>2
    <3> QED
      BY <2>3, <3>1 DEF InRun
  <2>5. ASSUME NEW j \in 1 .. copyRun.at PROVE Done(run, items[j])
    <3>1. CASE j = copyRun.at
      BY <1>1, <2>2, <2>4, <3>1 DEF Done
    <3>2. CASE j \in 1 .. copyRun.at - 1
      <4>1. Done(copyRun, items[j])
        BY <1>7, <3>2
      <4> QED
        BY <2>2, <2>4, <4>1 DEF Done
    <3> QED
      BY <1>5, <3>1, <3>2
  <2>6. ASSUME NEW other \in Range(run.carbons)
        PROVE  \E item \in Range(items) :
                  Asks(item) \/ (Found(item) /\ item.token.who = other)
    <3>1. CASE other \in Range(copyRun.carbons)
      BY <1>7, <3>1
    <3>2. CASE other = who
      BY <1>1, <1>4
    <3> QED
      BY <2>2, <2>4, <3>1, <3>2
  <2> HIDE DEF x
  <2>7. Walking(run)
    <3>1. \A j \in 1 .. run.at - 1 : Done(run, items[j])
      <4>1. run.at - 1 = copyRun.at
        <5>1. run.at = copyRun.at + 1
          BY <2>4
        <5>2. copyRun.at + 1 - 1 = copyRun.at
          BY <1>6
        <5> QED
          BY <5>1, <5>2, <1>3, SMT
      <4> QED
        BY <4>1, <2>5, Zenon
    <3>2. \A a \in run.posts : \E item \in Range(items) : a \in Covered(item)
      BY <1>7, <2>4
    <3>3. run.at \in 1 .. Len(items) + 1 /\ items = Items(run.commands)
          /\ run.commands = CommandsIn(edit.text, compose.area)
      BY <1>6, <1>7, <2>4
    <3> HIDE DEF items
    <3> QED
      BY <2>6, <3>1, <3>2, <3>3 DEF Walking
  <2> QED
    BY <1>1, <1>2, <2>1, <2>4, <2>7, ResolveKeeps DEF run
<1>9. CASE ResolveCopies([copyRun EXCEPT !.keep = @ \cup {x.line},
                                         !.unresolved = TRUE, !.at = @ + 1])
  <2> DEFINE run == [copyRun EXCEPT !.keep = @ \cup {x.line},
                                    !.unresolved = TRUE, !.at = @ + 1]
  <2>1. x.line \in scope.lines
    BY <1>4 DEF Item
  <2>2. /\ run \in InRun /\ run.process /\ run.commands = copyRun.commands
        /\ run.at = copyRun.at + 1 /\ run.posts = copyRun.posts
        /\ run.carbons = copyRun.carbons /\ run.keep = copyRun.keep \cup {x.line}
    <3>1. copyRun \in InRun /\ copyRun.at + 1 \in Nat /\ copyRun.process
      BY <1>1, <1>3
    <3> HIDE DEF x
    <3> QED
      BY <2>1, <3>1 DEF InRun
  <2>3. ResolveCopies(run)
    BY <1>9
  <2> HIDE DEF run
  <2>4. ASSUME NEW j \in 1 .. copyRun.at PROVE Done(run, items[j])
    <3>1. CASE j = copyRun.at
      BY <2>2, <3>1 DEF Done
    <3>2. CASE j \in 1 .. copyRun.at - 1
      <4>1. Done(copyRun, items[j])
        BY <1>7, <3>2
      <4> QED
        BY <2>2, <4>1 DEF Done
    <3> QED
      BY <1>5, <3>1, <3>2
  <2>5. Walking(run)
    <3>1. \A j \in 1 .. run.at - 1 : Done(run, items[j])
      <4>1. run.at - 1 = copyRun.at
        <5>1. run.at = copyRun.at + 1
          BY <2>2
        <5>2. copyRun.at + 1 - 1 = copyRun.at
          BY <1>6
        <5> QED
          BY <5>1, <5>2, <1>3, SMT
      <4> QED
        BY <4>1, <2>4, Zenon
    <3>2. /\ \A a \in run.posts : \E item \in Range(items) : a \in Covered(item)
          /\ \A who \in Range(run.carbons) : \E item \in Range(items) :
                  Asks(item) \/ (Found(item) /\ item.token.who = who)
      BY <1>7, <2>2
    <3>3. run.at \in 1 .. Len(items) + 1 /\ items = Items(run.commands)
          /\ run.commands = CommandsIn(edit.text, compose.area)
      BY <1>6, <1>7, <2>2
    <3> HIDE DEF items
    <3> QED
      BY <3>1, <3>2, <3>3 DEF Walking
  <2> QED
    BY <1>1, <1>2, <2>2, <2>3, <2>5, ResolveKeeps
<1> QED
  BY <1>8, <1>9 DEF UseCarbonCopy

\* --------------------------------------------------------------------------
\* Beginning, writing and leaving

\* A message is begun with nothing of the user's in it.
LEMMA OpenKeeps ==
    ASSUME IInv, NEW kind \in Kinds, NEW a \in Area, NEW to \in Anyone,
           NEW text \in InText, text.words = 0, NEW inHeader \in BOOLEAN,
           kind = "change" => a = Here /\ shown # 0 /\ scope.writable,
           Open(kind, a, to, text, inHeader)
    PROVE  IInv' /\ Sound
<1>1. /\ scope \in Scopes /\ begun \in Nat /\ scope.external \in BOOLEAN
      /\ areas \in [Area -> Seq(Held)] /\ Typed /\ Numbered
  BY ScopesAssumption DEF IInv, Typed
<1>2. /\ screen' = "compose" /\ begun' = begun + 1 /\ ~Composing
      /\ compose' = [kind |-> kind, area |-> a, to |-> to]
      /\ edit' = [text |-> text, startText |-> text, startTo |-> to,
                  inHeader |-> inHeader \/ scope.external]
      /\ box' \in {"editor", "none"} /\ (box' = "editor" => scope.external)
      /\ UNCHANGED <<scope, areas, shown, messageCount, copyRun, told>>
  BY DEF Open, Composing
<1>3. /\ InText' = InText /\ Held' = Held /\ InRun' = InRun
  BY <1>2, SameTypes
<1>4. copyRun' = NoRun
  BY <1>2 DEF IInv, Refused
<1>5. Typed'
  <2>1. compose' \in [kind : Kinds, area : Area, to : Anyone]
    BY <1>2
  <2>2. edit' \in [text : InText, startText : InText \cup {Cleared},
                   startTo : Anyone, inHeader : BOOLEAN]
    BY <1>1, <1>2
  <2>3. begun' \in Nat /\ screen' \in {"reader", "list", "compose"}
    BY <1>1, <1>2
  <2> QED
    BY <1>1, <1>2, <1>3, <1>4, <2>1, <2>2, <2>3 DEF Typed
<1>6. Dialogs'
  BY <1>2, PlainBox DEF Composing
<1>7. Numbered'
  <2>1. SUFFICES ASSUME NEW b \in Area, NEW m \in Range(areas[b])
                 PROVE  m.of <= begun + 1 /\ m.of # begun + 1
    BY <1>2 DEF Numbered
  <2>2. m \in Held /\ m.of <= begun
    BY <1>1, RangeIn DEF Numbered
  <2>3. m.of \in Nat
    BY <2>2 DEF Held
  <2> QED
    BY <1>1, <2>2, <2>3
<1>8. Started'
  BY <1>2 DEF Started
<1>9. Changing' /\ Refused'
  BY <1>2, <1>4 DEF Changing, Refused
<1>10. Sound
  BY <1>1, <1>2, Quiet DEF Leaving
<1> QED
  BY <1>5, <1>6, <1>7, <1>8, <1>9, <1>10 DEF IInv

LEMMA BeginningKeeps ==
    ASSUME IInv, StartNew \/ StartReply \/ StartForwardTo \/ StartChange
    PROVE  IInv' /\ Sound
<1>1. \A to \in Anyone : Template(to) \in InText /\ Template(to).words = 0
  <2>1. <<>> \in Seq(scope.lines)
    OBVIOUS
  <2> QED
    BY <2>1 DEF Template, InText
<1>2. Here \in Area /\ Recipient \subseteq Anyone /\ Blank \in Anyone
  BY AreaAssumption DEF Anyone
<1>3. CASE StartNew
  <2>1. PICK to \in Anyone : Open("new", Here, to, Template(to), TRUE)
    BY <1>3 DEF StartNew, Anyone
  <2> QED
    BY <1>1, <1>2, <2>1, OpenKeeps DEF Kinds
<1>4. CASE StartReply
  <2>1. PICK a \in Area, to \in Recipient, onTo \in BOOLEAN :
            Open("reply", a, to, Template(to), onTo)
    BY <1>4 DEF StartReply
  <2> QED
    BY <1>1, <1>2, <2>1, OpenKeeps DEF Kinds
<1>5. CASE StartForwardTo
  <2>1. PICK a \in Area, to \in Anyone :
            Open("forward", a, to, Template(to), TRUE)
    BY <1>5 DEF StartForwardTo, Anyone
  <2> QED
    BY <1>1, <1>2, <2>1, OpenKeeps DEF Kinds
<1>6. CASE StartChange
  <2> DEFINE m == areas[Here][shown]
  <2>1. /\ shown # 0 /\ scope.writable
        /\ Open("change", Here, m.to, AsRead(m), FALSE)
    BY <1>6 DEF StartChange
  <2>2. m \in Held
    <3>1. areas[Here] \in Seq(Held) /\ shown \in 1 .. Len(areas[Here])
      BY <1>2, <2>1 DEF IInv, Typed
    <3> QED
      BY <3>1
  <2> HIDE DEF m
  <2>3. m.to \in Anyone /\ AsRead(m) \in InText /\ AsRead(m).words = 0
    BY <2>2 DEF Held, AsRead, InText
  <2> QED
    BY <1>2, <2>1, <2>3, OpenKeeps DEF Kinds
<1> QED
  BY <1>3, <1>4, <1>5, <1>6

\* What is made of a text has all the words of it.
LEMMA EditsIn ==
    ASSUME scope \in Scopes, NEW text \in InText, NEW other \in Edits(text)
    PROVE  other \in InText /\ other.words >= text.words
<1>1. text.words \in Nat /\ text.lines \in Seq(scope.lines)
  BY DEF InText
<1>2. CASE other = [text EXCEPT !.words = @ + 1]
  BY <1>1, <1>2 DEF InText
<1>3. ASSUME NEW l \in scope.lines, other = [text EXCEPT !.lines = Append(@, l)]
      PROVE  other \in InText /\ other.words = text.words
  <2>1. Append(text.lines, l) \in Seq(scope.lines)
    BY <1>1, AppendedRange
  <2> QED
    BY <1>3, <2>1 DEF InText
<1>4. ASSUME NEW i \in DOMAIN text.lines,
             other = [text EXCEPT !.lines = RemoveAt(@, i)]
      PROVE  other \in InText /\ other.words = text.words
  <2>1. RemoveAt(text.lines, i) \in Seq(scope.lines)
    BY <1>1, RemovedIn
  <2> QED
    BY <1>4, <2>1 DEF InText
<1>5. \/ other = [text EXCEPT !.words = @ + 1]
      \/ \E l \in scope.lines : other = [text EXCEPT !.lines = Append(@, l)]
      \/ \E i \in DOMAIN text.lines : other = [text EXCEPT !.lines = RemoveAt(@, i)]
  BY DEF Edits
<1> QED
  BY <1>1, <1>2, <1>3, <1>4, <1>5

\* The records of the editor.
InEdit == [text : InText, startText : InText \cup {Cleared}, startTo : Anyone,
           inHeader : BOOLEAN]

\* A step of the editor that asks nothing about commands.
LEMMA EditorStep ==
    ASSUME IInv, Composing,
           UNCHANGED <<scope, areas, shown, messageCount, screen, begun>>,
           compose' \in [kind : Kinds, area : Area, to : Anyone],
           compose'.kind = compose.kind, compose'.area = compose.area,
           edit' \in InEdit, edit'.text.words >= edit.text.words,
           edit'.startText # Cleared => edit'.startText.words = 0,
           copyRun' \in {copyRun, NoRun}, box \notin {"process", "node"},
           box' \in {"none", "error", "drop", "save", "editor", "review"},
           box' = "save" => copyRun' = NoRun,
           box' \in {"editor", "review"} => scope.external
    PROVE  IInv' /\ Sound
<1>1. copyRun' \in InRun \cup {NoRun} /\ (scope.lines = {} => copyRun' = NoRun)
  BY DEF IInv, Typed, Refused
<1>2. Dialogs'
  BY PlainBox DEF Composing
<1>3. scope.external /\ copyRun' # NoRun /\ box' \notin {"process", "node"}
            => Unwritable
  BY DEF IInv, Refused
<1> QED
  BY <1>1, <1>2, <1>3, StaysHere DEF InEdit

\* The header carries the template along while nothing else is written.
LEMMA RefreshedFacts ==
    ASSUME IInv
    PROVE  /\ Refreshed(edit) \in InEdit
           /\ Refreshed(edit).text.words >= edit.text.words
           /\ Refreshed(edit).startText # Cleared =>
                    Refreshed(edit).startText.words = 0
<1>1. /\ edit \in InEdit /\ edit.text \in InText /\ edit.text.words \in Nat
      /\ scope \in Scopes /\ compose.to \in Anyone
      /\ edit.startText # Cleared => edit.startText.words = 0
  BY DEF IInv, Typed, InText, InEdit, Started
<1>2. CASE Refreshed(edit) = edit
  BY <1>1, <1>2
<1>3. CASE Refreshed(edit) # edit
  <2>1. /\ edit.text = edit.startText
        /\ Refreshed(edit) = [edit EXCEPT !.text = Template(compose.to),
                                          !.startText = Template(compose.to),
                                          !.startTo = compose.to]
    BY <1>3 DEF Refreshed
  <2>2. edit.text # Cleared
    BY <1>1, NoRunFacts
  <2>3. Template(compose.to) \in InText /\ Template(compose.to).words = 0
    <3>1. <<>> \in Seq(scope.lines)
      OBVIOUS
    <3> QED
      BY <1>1, <3>1 DEF Template, InText
  <2>4. /\ Refreshed(edit) \in InEdit
        /\ Refreshed(edit).text = Template(compose.to)
        /\ Refreshed(edit).startText = Template(compose.to)
    BY <1>1, <2>1, <2>3 DEF InEdit
  <2> QED
    BY <1>1, <2>1, <2>2, <2>3, <2>4
<1> QED
  BY <1>2, <1>3

LEMMA WritingKeeps ==
    ASSUME IInv, \/ TypeText \/ ExternUtil \/ TypeHeader \/ LeaveHeader
                 \/ EditHeader \/ AskToSave \/ AskToDrop
    PROVE  IInv' /\ Sound
<1>1. /\ scope \in Scopes /\ edit \in InEdit /\ edit.text \in InText
      /\ edit.text.words \in Nat /\ scope.external \in BOOLEAN
      /\ compose \in [kind : Kinds, area : Area, to : Anyone]
      /\ edit.startText # Cleared => edit.startText.words = 0
  BY ScopesAssumption DEF IInv, Typed, InText, InEdit, Started
<1>2. Writing
  BY DEF TypeText, ExternUtil, TypeHeader, LeaveHeader, EditHeader, AskToSave,
         AskToDrop
<1>3. Composing /\ box = "none"
  BY <1>2 DEF Writing, Composing
<1>4. /\ edit.text.words >= edit.text.words
  BY <1>1
<1>5. ASSUME NEW text \in Edits(edit.text)
      PROVE  /\ [edit EXCEPT !.text = text] \in InEdit
             /\ [edit EXCEPT !.text = text].text.words >= edit.text.words
             /\ [edit EXCEPT !.text = text].startText = edit.startText
  <2>1. text \in InText /\ text.words >= edit.text.words
    BY <1>1, EditsIn
  <2> QED
    BY <1>1, <2>1 DEF InEdit
<1>6. ASSUME NEW half \in BOOLEAN
      PROVE  /\ [edit EXCEPT !.inHeader = half] \in InEdit
             /\ [edit EXCEPT !.inHeader = half].text = edit.text
             /\ [edit EXCEPT !.inHeader = half].startText = edit.startText
  BY <1>1 DEF InEdit
<1>7. CASE TypeText
  <2>1. PICK text \in Edits(edit.text) : edit' = [edit EXCEPT !.text = text]
    BY <1>7 DEF TypeText
  <2>2. /\ edit' \in InEdit /\ edit'.text.words >= edit.text.words
        /\ edit'.startText = edit.startText
    BY <1>5, <2>1
  <2>3. UNCHANGED <<scope, areas, shown, messageCount, screen, box, begun,
                    compose, copyRun>>
    BY <1>7 DEF TypeText
  <2> QED
    BY <1>1, <1>3, <2>2, <2>3, EditorStep
<1>8. CASE ExternUtil
  <2>1. /\ edit' \in InEdit /\ edit'.text.words >= edit.text.words
        /\ edit'.startText = edit.startText /\ box' \in {"none", "error"}
    BY <1>1, <1>3, <1>4, <1>5, <1>8 DEF ExternUtil
  <2>2. UNCHANGED <<scope, areas, shown, messageCount, screen, begun,
                    compose, copyRun>>
    BY <1>8 DEF ExternUtil
  <2> QED
    BY <1>1, <1>3, <2>1, <2>2, EditorStep
<1>9. CASE TypeHeader
  <2>1. PICK to \in Anyone : compose' = [compose EXCEPT !.to = to]
    BY <1>9 DEF TypeHeader, Anyone
  <2>2. /\ compose' \in [kind : Kinds, area : Area, to : Anyone]
        /\ compose'.kind = compose.kind /\ compose'.area = compose.area
    BY <1>1, <2>1
  <2>3. UNCHANGED <<scope, areas, shown, messageCount, screen, box, begun,
                    edit, copyRun>>
    BY <1>9 DEF TypeHeader
  <2> QED
    BY <1>1, <1>3, <1>4, <2>2, <2>3, EditorStep
<1>10. CASE LeaveHeader
  <2> DEFINE e == Refreshed(edit)
  <2>1. /\ edit' = [e EXCEPT !.inHeader = scope.external]
        /\ box' \in {"editor", "none"} /\ (box' = "editor" => scope.external)
        /\ UNCHANGED <<scope, areas, shown, messageCount, screen, begun,
                       compose, copyRun>>
    BY <1>10 DEF LeaveHeader
  <2>2. /\ e \in InEdit /\ e.text.words >= edit.text.words
        /\ e.startText # Cleared => e.startText.words = 0
    BY RefreshedFacts
  <2> HIDE DEF e
  <2>3. edit' \in InEdit /\ edit'.text = e.text /\ edit'.startText = e.startText
    BY <1>1, <2>1, <2>2 DEF InEdit
  <2> QED
    BY <1>1, <1>3, <2>1, <2>2, <2>3, EditorStep
<1>11. CASE EditHeader
  <2>1. /\ edit' = [edit EXCEPT !.inHeader = TRUE]
        /\ UNCHANGED <<scope, areas, shown, messageCount, screen, box, begun,
                       compose, copyRun>>
    BY <1>11 DEF EditHeader
  <2> QED
    BY <1>1, <1>3, <1>4, <1>6, <2>1, EditorStep
<1>12. CASE AskToSave
  <2>1. /\ \/ edit' = edit /\ copyRun' = NoRun /\ box' = "save"
           \/ edit' = [edit EXCEPT !.inHeader = TRUE] /\ copyRun' = copyRun
                /\ box' = box
        /\ UNCHANGED <<scope, areas, shown, messageCount, screen, begun, compose>>
    BY <1>12 DEF AskToSave
  <2>2. /\ edit' \in InEdit /\ edit'.text = edit.text
        /\ edit'.startText = edit.startText
    BY <1>1, <1>6, <2>1
  <2>3. /\ copyRun' \in {copyRun, NoRun} /\ box' \in {"save", "none"}
        /\ box' = "save" => copyRun' = NoRun
    BY <1>3, <2>1
  <2> QED
    BY <1>1, <1>3, <1>4, <2>1, <2>2, <2>3, EditorStep
<1>13. CASE AskToDrop
  <2>1. /\ box' = "drop"
        /\ UNCHANGED <<scope, areas, shown, messageCount, screen, begun,
                       compose, edit, copyRun>>
    BY <1>13 DEF AskToDrop
  <2> QED
    BY <1>1, <1>3, <1>4, <2>1, EditorStep
<1> QED
  BY <1>7, <1>8, <1>9, <1>10, <1>11, <1>12, <1>13

\* Dropping it is leaving the areas as they are.
LEMMA DropKeeps ==
    ASSUME IInv, DropMessage,
           box \in {"drop", "review"} \/ (box = "editor" /\ ~reviewShown)
    PROVE  IInv' /\ Sound
<1>1. /\ LeaveEditor("reader") /\ box' = "none"
      /\ UNCHANGED <<scope, areas, shown, messageCount, begun>>
  BY DEF DropMessage
<1>2. /\ Typed /\ Numbered /\ areas \in [Area -> Seq(Held)]
      /\ shown \in 0 .. Len(areas[Here]) /\ messageCount \in 0 .. Len(areas[Here])
  BY DEF IInv, Typed
<1>3. IInv'
  BY <1>1, <1>2, LeftBehind DEF Numbered
<1>4. Sound
  <2>1. ~Composing'
    BY <1>1 DEF LeaveEditor, Composing
  <2> QED
    BY <1>1, <1>2, <2>1, Quiet
<1> QED
  BY <1>3, <1>4

LEMMA ElsewhereKeeps ==
    ASSUME IInv, \/ EditedElsewhere \/ LeftUntouched \/ EditorFailed
                 \/ ReviewOther \/ Dismiss
    PROVE  IInv' /\ Sound
<1>1. /\ scope \in Scopes /\ edit \in InEdit /\ edit.text \in InText
      /\ edit.text.words \in Nat
      /\ compose \in [kind : Kinds, area : Area, to : Anyone]
      /\ edit.startText # Cleared => edit.startText.words = 0
  BY DEF IInv, Typed, InText, InEdit, Started
<1>2. edit.text.words >= edit.text.words
  BY <1>1
<1>3. /\ [edit EXCEPT !.inHeader = TRUE] \in InEdit
      /\ [edit EXCEPT !.inHeader = TRUE].text = edit.text
      /\ [edit EXCEPT !.inHeader = TRUE].startText = edit.startText
  BY <1>1 DEF InEdit
<1>4. box \in {"editor", "review"} => Composing /\ scope.external
  BY DEF IInv, Dialogs
<1>5. ASSUME box = "editor", NEW text \in InText, text.words >= edit.text.words,
             Reviewed(text)
      PROVE  IInv' /\ Sound
  <2>1. /\ edit' = [text |-> text, startText |-> Cleared, startTo |-> compose.to,
                    inHeader |-> TRUE]
        /\ box' = "review"
        /\ UNCHANGED <<scope, areas, shown, messageCount, screen, begun, compose,
                       copyRun>>
    BY <1>5 DEF Reviewed
  <2>2. edit' \in InEdit /\ edit'.text = text /\ edit'.startText = Cleared
    BY <1>1, <2>1 DEF InEdit
  <2> QED
    BY <1>1, <1>4, <1>5, <2>1, <2>2, EditorStep
<1>6. CASE EditedElsewhere
  <2>1. PICK text \in Edits(edit.text) : Reviewed(text)
    BY <1>6 DEF EditedElsewhere
  <2>2. text \in InText /\ text.words >= edit.text.words /\ box = "editor"
    BY <1>1, <1>6, EditsIn DEF EditedElsewhere
  <2> QED
    BY <1>5, <2>1, <2>2
<1>7. CASE LeftUntouched
  <2>1. CASE reviewShown
    <3>1. /\ box' = "review" /\ box = "editor"
          /\ UNCHANGED <<scope, areas, shown, messageCount, screen, begun,
                         compose, edit, copyRun>>
      BY <1>7, <2>1 DEF LeftUntouched
    <3> QED
      BY <1>1, <1>2, <1>4, <3>1, EditorStep
  <2>2. CASE ~reviewShown /\ compose.kind = "forward"
    <3>1. box = "editor" /\ Reviewed(edit.text)
      BY <1>7, <2>2 DEF LeftUntouched
    <3> QED
      BY <1>1, <1>2, <1>5, <3>1
  <2>3. CASE ~reviewShown /\ compose.kind # "forward"
    <3>1. box = "editor" /\ DropMessage
      BY <1>7, <2>3 DEF LeftUntouched
    <3> QED
      BY <2>3, <3>1, DropKeeps
  <2> QED
    BY <2>1, <2>2, <2>3
<1>8. CASE EditorFailed
  <2>1. /\ box = "editor" /\ box' = "error"
        /\ edit' = [edit EXCEPT !.inHeader = TRUE]
        /\ UNCHANGED <<scope, areas, shown, messageCount, screen, begun, compose,
                       copyRun>>
    BY <1>8 DEF EditorFailed
  <2> QED
    BY <1>1, <1>2, <1>3, <1>4, <2>1, EditorStep
<1>9. CASE ReviewOther
  <2>1. /\ box = "review" /\ box' \in {"editor", "none"}
        /\ edit' = [edit EXCEPT !.inHeader = TRUE]
        /\ UNCHANGED <<scope, areas, shown, messageCount, screen, begun, compose,
                       copyRun>>
    BY <1>9 DEF ReviewOther
  <2> QED
    BY <1>1, <1>2, <1>3, <1>4, <2>1, EditorStep
<1>10. CASE Dismiss
  <2>1. /\ box \in {"save", "drop"} /\ box' = "none"
        /\ UNCHANGED <<scope, areas, shown, messageCount, screen, begun, compose,
                       edit, copyRun>>
    BY <1>10 DEF Dismiss
  <2>2. Composing
    BY <2>1 DEF IInv, Dialogs
  <2> QED
    BY <1>1, <1>2, <2>1, <2>2, EditorStep
<1> QED
  BY <1>6, <1>7, <1>8, <1>9, <1>10

\* What happens outside the editor, and the boxes that only say something.
LEMMA OutsideKeeps ==
    ASSUME IInv, RefusedAsReadOnly \/ Acknowledge \/ EnterArea
    PROVE  IInv' /\ Sound
<1>1. /\ Typed /\ Numbered /\ Started /\ scope \in Scopes
      /\ edit.text \in InText /\ edit.text.words \in Nat
      /\ areas \in [Area -> Seq(Held)] /\ Here \in Area
      /\ Len(areas[Here]) \in Nat /\ DOMAIN areas[Here] = 1 .. Len(areas[Here])
  <2>1. areas \in [Area -> Seq(Held)] /\ Here \in Area
    BY AreaAssumption DEF IInv, Typed
  <2> QED
    BY <2>1 DEF IInv, Typed, InText
<1>2. /\ UNCHANGED <<scope, areas, begun, compose, edit, copyRun>>
      /\ box' \in {"none", "error"}
      /\ Composing' <=> Composing
      /\ screen' \in {"reader", "list", "compose"}
      /\ shown' \in 0 .. Len(areas[Here]) /\ messageCount' \in 0 .. Len(areas[Here])
      /\ box \notin {"process", "node"}
  <2>1. CASE RefusedAsReadOnly
    BY <1>1, <2>1 DEF RefusedAsReadOnly, Typed, Composing
  <2>2. CASE Acknowledge
    BY <1>1, <2>2 DEF Acknowledge, Typed, Composing
  <2>3. CASE EnterArea
    <3>1. shown' \in 0 .. Len(areas[Here])
      BY <1>1, <2>3 DEF EnterArea
    <3> QED
      BY <1>1, <2>3, <3>1 DEF EnterArea, Composing
  <2> QED
    BY <2>1, <2>2, <2>3
<1>3. /\ InText' = InText /\ Held' = Held /\ InRun' = InRun
  BY <1>2, SameTypes
<1>4. Typed'
  BY <1>1, <1>2, <1>3 DEF Typed
<1>5. Dialogs'
  BY <1>2, PlainBox
<1>6. Numbered' /\ Started'
  BY <1>1, <1>2 DEF Numbered, Started
<1>7. Changing'
  <2>1. SUFFICES ASSUME Composing, compose.kind = "change"
                 PROVE  shown' = shown
    BY <1>2 DEF IInv, Changing
  <2> QED
    BY <2>1 DEF RefusedAsReadOnly, Acknowledge, EnterArea, Composing
<1>8. Refused'
  BY <1>2 DEF IInv, Refused, Unwritable
<1>9. Sound
  BY <1>1, <1>2, Quiet DEF Leaving, Composing
<1> QED
  BY <1>4, <1>5, <1>6, <1>7, <1>8, <1>9 DEF IInv

\* The program starts in the reader, with messages it has stored before.
LEMMA Starts == Init => IInv
<1> SUFFICES ASSUME Init PROVE IInv
  OBVIOUS
<1>1. Old \in Held /\ <<>> \in Seq(Held) /\ <<Old>> \in Seq(Held)
      /\ <<Old, Old>> \in Seq(Held)
  <2>1. <<>> \in Seq(scope.lines)
    OBVIOUS
  <2>2. Old \in Held
    BY <2>1 DEF Old, Held, Anyone
  <2> HIDE DEF Old
  <2> QED
    BY <2>2
<1>2. /\ areas \in [Area -> {<<>>, <<Old>>, <<Old, Old>>}]
      /\ Here \in Area
  BY AreaAssumption DEF Init
<1>3. areas \in [Area -> Seq(Held)]
  BY <1>1, <1>2
<1>4. Typed
  <2>1. areas[Here] \in Seq(Held) /\ Len(areas[Here]) \in Nat
        /\ DOMAIN areas[Here] = 1 .. Len(areas[Here])
    BY <1>2, <1>3
  <2>2. /\ shown \in 0 .. Len(areas[Here]) /\ messageCount \in 0 .. Len(areas[Here])
    BY <2>1 DEF Init
  <2>3. edit \in [text : InText, startText : InText \cup {Cleared},
                  startTo : Anyone, inHeader : BOOLEAN]
    BY EmptyIn DEF Init, Anyone
  <2>4. compose \in [kind : Kinds, area : Area, to : Anyone]
    BY <1>2 DEF Init, Kinds, Anyone
  <2> QED
    BY <1>3, <2>2, <2>3, <2>4 DEF Init, Typed
<1>5. Numbered
  <2>1. SUFFICES ASSUME NEW a \in Area, NEW m \in Range(areas[a])
                 PROVE  m.of <= begun
    BY DEF Numbered, Init, Composing
  <2>2. m = Old
    <3>1. areas[a] \in {<<>>, <<Old>>, <<Old, Old>>}
      BY <1>2
    <3> HIDE DEF Old
    <3> QED
      BY <2>1, <3>1 DEF Range
  <2> QED
    BY <2>2 DEF Old, Init
<1>6. Dialogs /\ Started /\ Changing /\ Refused
  BY DEF Init, Dialogs, Started, Changing, Refused, Composing
<1> QED
  BY <1>4, <1>5, <1>6 DEF IInv

\* Every step keeps the invariant and what has been written.
LEMMA Steps ==
    ASSUME IInv, AskedAgain, [Next]_vars
    PROVE  IInv' /\ [Sound]_vars
<1>1. CASE Next
  <2>1. CASE RefusedAsReadOnly \/ Acknowledge \/ EnterArea
    BY <2>1, OutsideKeeps
  <2>2. CASE StartNew \/ StartReply \/ StartForwardTo \/ StartChange
    BY <2>2, BeginningKeeps
  <2>3. CASE \/ TypeText \/ ExternUtil \/ TypeHeader \/ LeaveHeader
             \/ EditHeader \/ AskToSave \/ AskToDrop
    BY <2>3, WritingKeeps
  <2>4. CASE ConfirmSave \/ ReviewSave \/ IgnoreCopies
    BY <2>4, SavesKeep
  <2>5. CASE ProcessCopies \/ UseCarbonCopy
    BY <2>5, ProcessKeeps, PickedKeeps
  <2>6. CASE \/ EditedElsewhere \/ LeftUntouched \/ EditorFailed
             \/ ReviewOther \/ Dismiss
    BY <2>6, ElsewhereKeeps
  <2>7. CASE ConfirmDrop \/ ReviewDrop
    BY <2>7, DropKeeps DEF ConfirmDrop, ReviewDrop
  <2> QED
    BY <1>1, <2>1, <2>2, <2>3, <2>4, <2>5, <2>6, <2>7 DEF Next
<1>2. CASE UNCHANGED vars
  <2>1. UNCHANGED <<scope, areas, shown, messageCount, screen, box, begun,
                    compose, edit, copyRun>>
    BY <1>2 DEF vars
  <2>2. /\ InText' = InText /\ Held' = Held /\ InRun' = InRun
    BY <2>1, SameTypes
  <2>3. Typed'
    BY <2>1, <2>2 DEF IInv, Typed
  <2>4. Dialogs'
    <3>1. Walking(copyRun)' <=> Walking(copyRun)
      BY <2>1, WalkingSame
    <3> QED
      BY <2>1, <2>2, <3>1 DEF IInv, Dialogs, Composing
  <2>5. Numbered' /\ Started' /\ Changing' /\ Refused'
    BY <2>1 DEF IInv, Numbered, Started, Changing, Refused, Composing, Unwritable
  <2> QED
    BY <1>2, <2>3, <2>4, <2>5 DEF IInv
<1> QED
  BY <1>1, <1>2

LEMMA ComposeInv ==
    ASSUME AskedAgain
    PROVE  Spec => []IInv /\ [][Sound]_vars
<1>1. Init => IInv
  BY Starts
<1>2. IInv /\ [Next]_vars => IInv' /\ [Sound]_vars
  BY Steps
<1> QED
  BY <1>1, <1>2, PTL DEF Spec

\* The reader's numbers keep within the area it reads, and the answers about the
\* commands are about lines of the text, whatever openCompose(), saveMessage() and
\* the boxes do.
THEOREM ComposeTyped ==
    ASSUME AskedAgain
    PROVE  Spec => []Typed
<1>1. IInv => Typed
  BY DEF IInv
<1> QED
  BY <1>1, ComposeInv, PTL

\* What has been written is in the message and in every copy as it stood, or in
\* the editor still: saveMessage() and what it calls leave the editor only when
\* the message is in its area, the user asked for it to be dropped, or an area
\* would not open again.
THEOREM WritingKept ==
    ASSUME AskedAgain
    PROVE  Spec => NothingWrittenIsLost
<1>1. [Sound]_vars => [WordsSurvive]_vars
  BY DEF Sound
<1> QED
  BY <1>1, ComposeInv, PTL DEF NothingWrittenIsLost

\* Every copy writeCopies() makes is one a line of the stored text asks for, and
\* a line rewriteCopyCommands() takes out came to what it asked for or is told.
THEOREM CopiesFollowTheText ==
    ASSUME AskedAgain
    PROVE  Spec => CopiesAsAsked
<1>1. [Sound]_vars => [AsTheTextAsks]_vars
  BY DEF Sound
<1> QED
  BY <1>1, ComposeInv, PTL DEF CopiesAsAsked

\* readerAfterSave() puts the reader on the message and not on a copy of it.
THEOREM ReaderFollows ==
    ASSUME AskedAgain
    PROVE  Spec => ReaderLandsOnIt
<1>1. [Sound]_vars => [ReaderIsOnIt]_vars
  BY DEF Sound
<1> QED
  BY <1>1, ComposeInv, PTL DEF ReaderLandsOnIt
=============================================================================
