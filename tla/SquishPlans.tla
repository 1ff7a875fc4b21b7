----------------------------- MODULE SquishPlans ----------------------------
(***************************************************************************)
(* What SquishProofs rests on: the chains of a Squish base, what a process *)
(* that opens one loads, the plans of its calls, and what the functions    *)
(* that append to it do to a base in order.                                *)
(***************************************************************************)
EXTENDS SquishBase, FiniteSetTheorems, SequenceTheorems, WellFoundedInduction,
        TLAPS

(***************************************************************************)
(* Numbers and sequences                                                   *)
(***************************************************************************)

\* A nonempty set of numbers has a least one.
LEMMA LeastNumber ==
    ASSUME NEW T \in SUBSET Nat, T # {}
    PROVE  \E n \in T : \A m \in T : n <= m
<1>1. T \subseteq Nat
  OBVIOUS
<1>2. PICK n \in T : \A m \in T : ~ (<<m, n>> \in OpToRel(<, Nat))
  BY <1>1, WFMin, NatLessThanWellFounded
<1>3. \A m \in T : ~(m < n)
  BY <1>1, <1>2 DEF OpToRel
<1>4. \A m \in T : n <= m
  BY <1>1, <1>3
<1> QED
  BY <1>4

LEMMA AppendedSet ==
    ASSUME NEW S, NEW s \in Seq(S), NEW x \in S
    PROVE  /\ Append(s, x) \in Seq(S)
           /\ ToSet(Append(s, x)) = ToSet(s) \cup {x}
           /\ Len(Append(s, x)) = Len(s) + 1
           /\ Append(s, x)[Len(s) + 1] = x
           /\ \A i \in 1 .. Len(s) : Append(s, x)[i] = s[i]
<1>1. /\ Append(s, x) \in Seq(S) /\ Len(Append(s, x)) = Len(s) + 1
      /\ Append(s, x)[Len(s) + 1] = x /\ Len(s) \in Nat
      /\ \A i \in 1 .. Len(s) : Append(s, x)[i] = s[i]
  OBVIOUS
<1>2. DOMAIN Append(s, x) = 1 .. Len(s) + 1 /\ DOMAIN s = 1 .. Len(s)
  BY <1>1
<1>3. ToSet(Append(s, x)) = ToSet(s) \cup {x}
  BY <1>1, <1>2 DEF ToSet
<1> QED
  BY <1>1, <1>3

LEMMA SeqNarrow ==
    ASSUME NEW S, NEW s \in Seq(S), NEW T, \A i \in DOMAIN s : s[i] \in T
    PROVE  s \in Seq(T)
<1>1. Len(s) \in Nat /\ s \in [1 .. Len(s) -> S] /\ DOMAIN s = 1 .. Len(s)
  BY LenProperties
<1>2. s \in [1 .. Len(s) -> T]
  BY <1>1
<1> QED
  BY <1>1, <1>2, SeqDef

LEMMA ToSetIn ==
    ASSUME NEW S, NEW s \in Seq(S)
    PROVE  ToSet(s) \subseteq S /\ (s = <<>> <=> ToSet(s) = {})
<1>1. ToSet(s) \subseteq S
  BY DEF ToSet
<1>2. s = <<>> => ToSet(s) = {}
  BY DEF ToSet
<1>3. s # <<>> => s[1] \in ToSet(s)
  BY DEF ToSet
<1> QED
  BY <1>1, <1>2, <1>3

\* The recursion of Selected, up to m elements.
Selects(s, K, m, upto) ==
    upto = [n \in 0 .. m |-> IF n = 0 THEN <<>>
                             ELSE IF s[n] \in K THEN Append(upto[n - 1], s[n])
                             ELSE upto[n - 1]]

LEMMA SelectsStep ==
    ASSUME NEW s, NEW K, NEW m \in Nat, NEW upto, Selects(s, K, m, upto)
    PROVE  /\ upto[0] = <<>>
           /\ \A n \in 1 .. m :
                upto[n] = IF s[n] \in K THEN Append(upto[n - 1], s[n])
                          ELSE upto[n - 1]
<1> DEFINE F(n) == IF n = 0 THEN <<>>
                   ELSE IF s[n] \in K THEN Append(upto[n - 1], s[n])
                   ELSE upto[n - 1]
<1>1. upto = [n \in 0 .. m |-> F(n)]
  BY DEF Selects
<1>2. \A n \in 0 .. m : upto[n] = F(n)
  <2> HIDE DEF F
  <2> QED
    BY <1>1
<1>3. upto[0] = F(0) /\ \A n \in 1 .. m : upto[n] = F(n) /\ n # 0
  BY <1>2
<1> QED
  BY <1>3

LEMMA SelectsExists ==
    ASSUME NEW s, NEW K, NEW m \in Nat
    PROVE  \E upto : Selects(s, K, m, upto)
<1> DEFINE T == {k \in Nat : ~ \E upto : Selects(s, K, k, upto)}
<1>1. SUFFICES ASSUME T # {} PROVE FALSE
  OBVIOUS
<1>2. PICK n \in T : \A k \in T : n <= k
  BY <1>1, LeastNumber
<1>3. CASE n = 0
  <2> DEFINE upto == [k \in 0 .. 0 |-> <<>>]
  <2>1. Selects(s, K, 0, upto)
    BY DEF Selects
  <2> QED
    BY <2>1, <1>3
<1>4. CASE n # 0
  <2>1. n \in Nat /\ n - 1 \in Nat /\ n - 1 \notin T
    BY <1>2, <1>4
  <2>2. PICK upto : Selects(s, K, n - 1, upto)
    BY <2>1
  <2>3. /\ upto[0] = <<>>
        /\ \A k \in 1 .. n - 1 :
                upto[k] = IF s[k] \in K THEN Append(upto[k - 1], s[k])
                          ELSE upto[k - 1]
    <3> HIDE DEF T
    <3> QED
      BY <2>1, <2>2, SelectsStep
  <2> DEFINE last == IF s[n] \in K THEN Append(upto[n - 1], s[n])
                     ELSE upto[n - 1]
             next == [k \in 0 .. n |-> IF k = n THEN last ELSE upto[k]]
  <2>4. \A k \in 0 .. n - 1 : next[k] = upto[k]
    BY <2>1
  <2>5. next[n] = last
    BY <2>1
  <2>6. next = [k \in 0 .. n |-> next[k]]
    OBVIOUS
  <2>7. last = IF s[n] \in K THEN Append(next[n - 1], s[n]) ELSE next[n - 1]
    BY <2>1, <2>4
  <2> HIDE DEF next, last, T
  <2>8. ASSUME NEW k \in 0 .. n
        PROVE  next[k] = IF k = 0 THEN <<>>
                         ELSE IF s[k] \in K THEN Append(next[k - 1], s[k])
                         ELSE next[k - 1]
    <3>1. CASE k = n
      BY <3>1, <2>5, <2>7, <1>4
    <3>2. CASE k = 0
      BY <3>2, <2>1, <2>3, <2>4
    <3>3. CASE k # n /\ k # 0
      <4>1. k \in 1 .. n - 1 /\ k \in 0 .. n - 1 /\ k - 1 \in 0 .. n - 1
        BY <3>3, <2>1
      <4> QED
        BY <4>1, <3>3, <2>3, <2>4
    <3> QED
      BY <3>1, <3>2, <3>3
  <2>9. Selects(s, K, n, next)
    BY <2>6, <2>8 DEF Selects
  <2> QED
    BY <2>9, <1>2 DEF T
<1> QED
  BY <1>3, <1>4

UpTo(s, m) == {s[i] : i \in 1 .. m}

LEMMA SelectsThose ==
    ASSUME NEW S, NEW s \in Seq(S), NEW K, NEW upto,
           Selects(s, K, Len(s), upto), NEW m \in 0 .. Len(s)
    PROVE  /\ upto[m] \in Seq(S)
           /\ ToSet(upto[m]) = UpTo(s, m) \cap K
<1> DEFINE Wrong(k) == ~ (/\ upto[k] \in Seq(S)
                          /\ ToSet(upto[k]) = UpTo(s, k) \cap K)
           T == {k \in 0 .. Len(s) : Wrong(k)}
<1>0. Len(s) \in Nat /\ \A i \in 1 .. Len(s) : s[i] \in S
  OBVIOUS
<1>1. SUFFICES ASSUME T # {} PROVE FALSE
  OBVIOUS
<1>2. PICK n \in T : \A k \in T : n <= k
  <2>1. T \in SUBSET Nat
    BY <1>0
  <2> HIDE DEF T
  <2> QED
    BY <1>1, <2>1, LeastNumber
<1>3. /\ upto[0] = <<>>
      /\ \A k \in 1 .. Len(s) :
            upto[k] = IF s[k] \in K THEN Append(upto[k - 1], s[k])
                      ELSE upto[k - 1]
  BY <1>0, SelectsStep
<1>4. CASE n = 0
  <2>1. upto[0] \in Seq(S) /\ ToSet(upto[0]) = {}
    <3>1. <<>> \in Seq(S)
      OBVIOUS
    <3> QED
      BY <1>3, <3>1, ToSetIn, Zenon
  <2>2. UpTo(s, 0) = {}
    BY DEF UpTo
  <2> QED
    BY <2>1, <2>2, <1>2, <1>4
<1>5. CASE n # 0
  <2>1. n \in 1 .. Len(s) /\ n - 1 \in 0 .. Len(s) /\ ~ (n <= n - 1)
    BY <1>0, <1>2, <1>5
  <2>2. ~ Wrong(n - 1)
    BY <1>2, <2>1
  <2>3. UpTo(s, n) = UpTo(s, n - 1) \cup {s[n]}
    <3>1. 1 .. n = (1 .. n - 1) \cup {n}
      BY <2>1
    <3> QED
      BY <3>1 DEF UpTo
  <2>4. CASE s[n] \in K
    <3>1. upto[n] = Append(upto[n - 1], s[n])
      BY <1>3, <2>1, <2>4
    <3>2. ToSet(upto[n]) = ToSet(upto[n - 1]) \cup {s[n]} /\ upto[n] \in Seq(S)
      BY <1>0, <2>1, <2>2, <3>1, AppendedSet
    <3> QED
      BY <2>2, <2>3, <2>4, <3>2, <1>2
  <2>5. CASE s[n] \notin K
    <3>1. upto[n] = upto[n - 1]
      BY <1>3, <2>1, <2>5
    <3> QED
      BY <2>2, <2>3, <2>5, <3>1, <1>2
  <2> QED
    BY <2>4, <2>5
<1> QED
  BY <1>4, <1>5

\* Selected() keeps the elements of K.
LEMMA SelectedHolds ==
    ASSUME NEW S, NEW s \in Seq(S), NEW K
    PROVE  /\ Selected(s, K) \in Seq(S)
           /\ ToSet(Selected(s, K)) = ToSet(s) \cap K
<1> DEFINE U == CHOOSE upto : Selects(s, K, Len(s), upto)
<1>1. Len(s) \in Nat /\ DOMAIN s = 1 .. Len(s)
  OBVIOUS
<1>2. Selects(s, K, Len(s), U)
  BY <1>1, SelectsExists
<1>3. Selected(s, K) = U[Len(s)]
  BY DEF Selected, Selects
<1> HIDE DEF U
<1>4. /\ U[Len(s)] \in Seq(S)
      /\ ToSet(U[Len(s)]) = UpTo(s, Len(s)) \cap K
  <2>1. Len(s) \in 0 .. Len(s)
    BY <1>1
  <2>2. \A m \in 0 .. Len(s) : /\ U[m] \in Seq(S)
                             /\ ToSet(U[m]) = UpTo(s, m) \cap K
    BY <1>2, SelectsThose
  <2> QED
    BY <2>1, <2>2
<1>5. ToSet(s) = UpTo(s, Len(s))
  BY <1>1 DEF ToSet, UpTo
<1> QED
  BY <1>3, <1>4, <1>5

Rising(s) == \A i, j \in DOMAIN s : i < j => s[i] < s[j]

\* Sorted(): the numbers of S that there are records for, each once, in order.
LEMMA SortedHolds ==
    ASSUME NEW E, NEW ix \in Seq(E), NEW S
    PROVE  /\ Sorted(ix, S) \in Seq(Nat)
           /\ ToSet(Sorted(ix, S)) = S \cap (1 .. Len(ix))
           /\ Rising(Sorted(ix, S))
<1> DEFINE s == [n \in DOMAIN ix |-> n]
           m == Len(ix)
           U == CHOOSE upto : Selects(s, S, Len(s), upto)
           Wrong(k) == ~ (/\ U[k] \in Seq(1 .. k)
                          /\ Rising(U[k]))
           T == {k \in 0 .. m : Wrong(k)}
<1>1. /\ m \in Nat /\ DOMAIN ix = 1 .. m
  OBVIOUS
<1>2. /\ DOMAIN s = 1 .. m /\ Len(s) = m /\ s \in Seq(Nat)
      /\ \A n \in 1 .. m : s[n] = n
  BY <1>1
<1>3. Sorted(ix, S) = Selected(s, S)
  BY DEF Sorted
<1> HIDE DEF s
<1>4. /\ Sorted(ix, S) \in Seq(Nat)
      /\ ToSet(Sorted(ix, S)) = ToSet(s) \cap S
  BY <1>2, <1>3, SelectedHolds
<1>5. ToSet(s) = 1 .. m
  BY <1>2 DEF ToSet
<1>6. Selects(s, S, m, U)
  BY <1>1, <1>2, SelectsExists
<1>7. Sorted(ix, S) = U[m]
  BY <1>3, <1>2 DEF Selected, Selects
<1> HIDE DEF U, m
<1>8. T = {}
  <2>1. SUFFICES ASSUME T # {} PROVE FALSE
    OBVIOUS
  <2>2. PICK n \in T : \A k \in T : n <= k
    <3>1. T \in SUBSET Nat
      BY <1>1
    <3> HIDE DEF T
    <3> QED
      BY <2>1, <3>1, LeastNumber
  <2>3. /\ U[0] = <<>>
        /\ \A k \in 1 .. m :
              U[k] = IF s[k] \in S THEN Append(U[k - 1], s[k]) ELSE U[k - 1]
    BY <1>1, <1>6, SelectsStep
  <2>4. CASE n = 0
    <3>1. U[0] \in Seq(1 .. 0) /\ Rising(U[0])
      BY <2>3 DEF Rising
    <3> QED
      BY <2>2, <2>4, <3>1
  <2>5. CASE n # 0
    <3>1. n \in 1 .. m /\ n - 1 \in 0 .. m /\ ~ (n <= n - 1)
      BY <1>1, <2>2, <2>5
    <3>2. U[n - 1] \in Seq(1 .. n - 1) /\ Rising(U[n - 1])
      BY <2>2, <3>1
    <3>3. U[n - 1] \in Seq(1 .. n)
      BY <3>1, <3>2
    <3>4. CASE s[n] \in S
      <4>1. U[n] = Append(U[n - 1], n)
        BY <1>2, <2>3, <3>1, <3>4
      <4>2. U[n] \in Seq(1 .. n)
        BY <4>1, <3>1, <3>3
      <4>3. Rising(U[n])
        BY <4>1, <3>1, <3>2, SMTT(20) DEF Rising
      <4> QED
        BY <2>2, <4>2, <4>3
    <3>5. CASE s[n] \notin S
      BY <2>2, <2>3, <3>1, <3>2, <3>3, <3>5
    <3> QED
      BY <3>4, <3>5
  <2> QED
    BY <2>4, <2>5
<1>9. Rising(U[m])
  BY <1>1, <1>8
<1> QED
  BY <1>4, <1>5, <1>7, <1>9 DEF m

\* The largest of a nonempty bounded set of numbers, and the least.
LEMMA MaxHolds ==
    ASSUME NEW T \in SUBSET Nat, T # {}, NEW b \in Nat, \A n \in T : n <= b
    PROVE  Max(T) \in T /\ \A n \in T : n <= Max(T)
<1> DEFINE U == {k \in Nat : \A n \in T : n <= k}
<1>1. U \in SUBSET Nat /\ U # {}
  OBVIOUS
<1>2. PICK k \in U : \A i \in U : k <= i
  <2> HIDE DEF U
  <2> QED
    BY <1>1, LeastNumber
<1>3. k \in T
  <2>1. SUFFICES ASSUME k \notin T PROVE FALSE
    OBVIOUS
  <2>2. \A n \in T : n <= k /\ n # k /\ n \in Nat
    BY <1>2, <2>1
  <2>3. PICK n \in T : TRUE
    OBVIOUS
  <2>4. k - 1 \in Nat /\ \A i \in T : i <= k - 1
    BY <2>2, <2>3, <1>2
  <2>5. k - 1 \in U
    BY <2>4
  <2> QED
    BY <2>5, <1>2
<1>4. \A n \in T : k >= n
  BY <1>2
<1>5. \E x \in T : \A y \in T : x >= y
  BY <1>3, <1>4
<1> HIDE DEF U
<1>6. Max(T) \in T /\ \A y \in T : Max(T) >= y
  BY <1>5, Zenon DEF Max
<1> QED
  BY <1>6

LEMMA MinHolds ==
    ASSUME NEW T \in SUBSET Nat, T # {}
    PROVE  Min(T) \in T /\ \A n \in T : Min(T) <= n
<1>1. \E n \in T : \A m \in T : n <= m
  BY LeastNumber
<1> QED
  BY <1>1, Zenon DEF Min

OneToOne(s) == \A i, j \in DOMAIN s : s[i] = s[j] => i = j

Apart(s, r) == \A i \in DOMAIN s, j \in DOMAIN r : s[i] # r[j]

\* Two sequences that share out the numbers up to n have n elements together.
LEMMA SharedOut ==
    ASSUME NEW n \in Nat, NEW s \in Seq(1 .. n), NEW r \in Seq(1 .. n),
           OneToOne(s), OneToOne(r), Apart(s, r)
    PROVE  /\ Len(s) + Len(r) <= n
           /\ 1 .. n \subseteq ToSet(s) \cup ToSet(r) => Len(s) + Len(r) = n
<1> DEFINE k == Len(s) + Len(r)
           f == [i \in 1 .. k |-> IF i <= Len(s) THEN s[i] ELSE r[i - Len(s)]]
<1>1. /\ Len(s) \in Nat /\ Len(r) \in Nat /\ k \in Nat
      /\ DOMAIN s = 1 .. Len(s) /\ DOMAIN r = 1 .. Len(r)
      /\ \A i \in 1 .. Len(s) : s[i] \in 1 .. n
      /\ \A i \in 1 .. Len(r) : r[i] \in 1 .. n
  OBVIOUS
<1>2. f \in [1 .. k -> 1 .. n]
  BY <1>1
<1>3. \A i \in 1 .. Len(s) : i \in 1 .. k /\ f[i] = s[i]
  BY <1>1
<1>4. \A i \in 1 .. Len(r) : i + Len(s) \in 1 .. k /\ f[i + Len(s)] = r[i]
  BY <1>1
<1>5. \A i \in 1 .. k : \/ i \in 1 .. Len(s)
                        \/ /\ i - Len(s) \in 1 .. Len(r)
                           /\ i = (i - Len(s)) + Len(s)
  BY <1>1
<1> HIDE DEF f, k
<1>6. \A i \in 1 .. k : \/ i \in 1 .. Len(s) /\ f[i] = s[i]
                        \/ /\ i - Len(s) \in 1 .. Len(r)
                           /\ f[i] = r[i - Len(s)]
  BY <1>3, <1>4, <1>5
<1>7. \A i, j \in 1 .. k : f[i] = f[j] => i = j
  <2>1. SUFFICES ASSUME NEW i \in 1 .. k, NEW j \in 1 .. k, f[i] = f[j]
                 PROVE  i = j
    OBVIOUS
  <2>2. i \in Nat /\ j \in Nat
    BY <1>1
  <2>3. CASE i \in 1 .. Len(s) /\ f[i] = s[i]
    <3>1. j \in 1 .. Len(s) /\ f[j] = s[j]
      BY <1>1, <1>6, <2>1, <2>3 DEF Apart
    <3> QED
      BY <1>1, <2>1, <2>3, <3>1 DEF OneToOne
  <2>4. CASE i - Len(s) \in 1 .. Len(r) /\ f[i] = r[i - Len(s)]
    <3>1. j - Len(s) \in 1 .. Len(r) /\ f[j] = r[j - Len(s)]
      BY <1>1, <1>6, <2>1, <2>4 DEF Apart
    <3>2. i - Len(s) = j - Len(s)
      BY <1>1, <2>1, <2>4, <3>1 DEF OneToOne
    <3> QED
      BY <1>1, <2>2, <3>2
  <2> QED
    BY <1>6, <2>3, <2>4
<1>8. f \in Injection(1 .. k, 1 .. n)
  BY <1>2, <1>7 DEF Injection, IsInjective
<1>9. /\ IsFiniteSet(1 .. n) /\ Cardinality(1 .. n) = n
      /\ Cardinality(1 .. k) = k
  <2>1. k \in Int /\ n \in Int /\ 1 \in Int /\ k \in Nat
    BY <1>1
  <2>2. /\ IsFiniteSet(1 .. n)
        /\ Cardinality(1 .. n) = IF 1 > n THEN 0 ELSE n - 1 + 1
        /\ Cardinality(1 .. k) = IF 1 > k THEN 0 ELSE k - 1 + 1
    BY <2>1, FS_Interval
  <2> QED
    BY <2>1, <2>2
<1>10. /\ Cardinality(1 .. k) <= Cardinality(1 .. n)
       /\ Cardinality(1 .. k) = Cardinality(1 .. n)
                <=> f \in Surjection(1 .. k, 1 .. n)
  BY <1>8, <1>9, FS_Injection
<1>11. ASSUME 1 .. n \subseteq ToSet(s) \cup ToSet(r)
       PROVE  f \in Surjection(1 .. k, 1 .. n)
  <2>1. \A o \in 1 .. n : \E i \in 1 .. k : f[i] = o
    BY <1>1, <1>3, <1>4, <1>11 DEF ToSet
  <2> QED
    BY <1>2, <2>1 DEF Surjection
<1> QED
  BY <1>9, <1>10, <1>11 DEF k

(***************************************************************************)
(* The disk                                                                *)
(***************************************************************************)

Letter == [uid : Nat, text : Text, rcvd : BOOLEAN, seen : BOOLEAN]

Frame == [type : {"none", "free", "normal", "update"}, next : Nat, prev : Nat,
          room : 0 .. MaxRoom, msg : Letter \cup {NoMsg}]

Entry == [offset : Nat, uid : Nat, rcvd : BOOLEAN]

Header == [count : Nat, nextUid : Nat, firstFrame : Nat, lastFrame : Nat,
           firstFree : Nat, lastFree : Nat, endFrame : Nat]

Disk == [hdr : Header, frames : [1 .. MaxFrame -> Frame], sqi : Seq(Entry)]

now == [hdr |-> hdr, frames |-> frames, sqi |-> sqi]

After(w, d) == [hdr |-> HeaderAfter(w, d.hdr),
                frames |-> FramesAfter(w, d.frames),
                sqi |-> IndexAfter(w, d.sqi)]

\* The writes there are, and how a plan keeps them.
Write == [kind : {"next", "prev"}, at : Nat, to : Nat]
         \cup [kind : {"head", "frame"}, at : Nat, frame : Frame]
         \cup [kind : {"message"}, at : Nat, msg : Letter]
         \cup [kind : {"tail"}, from : Nat, entries : Seq(Entry)]
         \cup [kind : {"cut"}, to : Nat]
         \cup [kind : {"entry"}, at : Nat, entry : Entry]
         \cup [kind : {"header"}, base : Header]
         \cup [kind : {"return"}]

Item == [write : Write, base : Header, index : Seq(Entry)]

(***************************************************************************)
(* Chains                                                                  *)
(***************************************************************************)

At(s, i) == IF i \in DOMAIN s THEN s[i] ELSE 0

Chain(fs, s, type) ==
    \A i \in DOMAIN s : /\ fs[s[i]].type = type
                        /\ fs[s[i]].prev = At(s, i - 1)
                        /\ fs[s[i]].next = At(s, i + 1)

Bounds(s, first, last) == first = At(s, 1) /\ last = At(s, Len(s))

\* A chain is the same where nothing of its frames' headers is different.
LEMMA ChainSame ==
    ASSUME NEW S, NEW s \in Seq(S), NEW type, NEW fs, NEW fs2, Chain(fs, s, type),
           \A i \in DOMAIN s : /\ fs2[s[i]].type = fs[s[i]].type
                               /\ fs2[s[i]].prev = fs[s[i]].prev
                               /\ fs2[s[i]].next = fs[s[i]].next
    PROVE  Chain(fs2, s, type)
BY DEF Chain

\* A frame at the end of a chain.
AppendLinks(fs, fs2, s, at) ==
    \A i \in DOMAIN s : /\ s[i] # 0
                        /\ fs2[s[i]].type = fs[s[i]].type
                        /\ fs2[s[i]].prev = fs[s[i]].prev
                        /\ fs2[s[i]].next = IF i = Len(s) THEN at
                                            ELSE fs[s[i]].next

LEMMA ChainAppend ==
    ASSUME NEW s \in Seq(Nat), NEW type, NEW fs, NEW fs2, Chain(fs, s, type),
           OneToOne(s), NEW at \in Nat, at # 0, at \notin ToSet(s),
           fs2[at].type = type, fs2[at].prev = At(s, Len(s)), fs2[at].next = 0,
           AppendLinks(fs, fs2, s, at)
    PROVE  /\ Chain(fs2, Append(s, at), type)
           /\ OneToOne(Append(s, at))
           /\ Append(s, at) \in Seq(Nat)
           /\ ToSet(Append(s, at)) = ToSet(s) \cup {at}
           /\ Bounds(Append(s, at), IF s = <<>> THEN at ELSE s[1], at)
<1> DEFINE r == Append(s, at)
<1>1. /\ Len(s) \in Nat /\ DOMAIN s = 1 .. Len(s)
      /\ r \in Seq(Nat) /\ Len(r) = Len(s) + 1 /\ DOMAIN r = 1 .. Len(s) + 1
      /\ r[Len(s) + 1] = at
      /\ \A i \in 1 .. Len(s) : r[i] = s[i]
      /\ s = <<>> <=> Len(s) = 0
  OBVIOUS
<1>2. ToSet(r) = ToSet(s) \cup {at}
  BY AppendedSet
<1> HIDE DEF r
<1>3. OneToOne(r)
  <2>1. \A i \in DOMAIN s : s[i] # at
    BY DEF ToSet
  <2>2. \A i \in DOMAIN r :
            \/ i = Len(s) + 1 /\ r[i] = at
            \/ i \in DOMAIN s /\ r[i] = s[i] /\ r[i] # at
    BY <1>1, <2>1
  <2>3. \A i, j \in DOMAIN r : r[i] = r[j] => i = j
    BY <2>2 DEF OneToOne
  <2> QED
    BY <2>3 DEF OneToOne
<1>4. ASSUME NEW i \in DOMAIN r
      PROVE  /\ fs2[r[i]].type = type
             /\ fs2[r[i]].prev = At(r, i - 1)
             /\ fs2[r[i]].next = At(r, i + 1)
  <2>1. CASE i = Len(s) + 1
    <3>1. At(r, i - 1) = At(s, Len(s)) /\ At(r, i + 1) = 0
      BY <1>1, <2>1 DEF At
    <3> QED
      BY <1>1, <2>1, <3>1
  <2>2. CASE i \in 1 .. Len(s)
    <3>1. At(r, i - 1) = At(s, i - 1)
      BY <1>1, <2>2 DEF At
    <3>2. At(r, i + 1) = IF i = Len(s) THEN at ELSE At(s, i + 1)
      BY <1>1, <2>2 DEF At
    <3>3. r[i] = s[i] /\ i \in DOMAIN s
      BY <1>1, <2>2
    <3> QED
      BY <3>1, <3>2, <3>3 DEF Chain, AppendLinks
  <2> QED
    BY <1>1, <2>1, <2>2
<1>5. Bounds(r, IF s = <<>> THEN at ELSE s[1], at)
  BY <1>1 DEF Bounds, At
<1> QED
  BY <1>1, <1>2, <1>3, <1>4, <1>5 DEF r, Chain

\* One frame out of a chain: its neighbours name each other.
Dropped(s, k) == [i \in 1 .. Len(s) - 1 |-> IF i < k THEN s[i] ELSE s[i + 1]]

DropLinks(fs, fs2, s, k) ==
    \A i \in DOMAIN s :
        i # k => /\ fs2[s[i]].type = fs[s[i]].type
                 /\ fs2[s[i]].prev = IF i = k + 1 THEN fs[s[k]].prev
                                     ELSE fs[s[i]].prev
                 /\ fs2[s[i]].next = IF i = k - 1 THEN fs[s[k]].next
                                     ELSE fs[s[i]].next

LEMMA ChainDrop ==
    ASSUME NEW s \in Seq(Nat), NEW type, NEW fs, NEW fs2, Chain(fs, s, type),
           OneToOne(s), NEW k \in 1 .. Len(s), DropLinks(fs, fs2, s, k)
    PROVE  /\ Chain(fs2, Dropped(s, k), type)
           /\ OneToOne(Dropped(s, k))
           /\ Dropped(s, k) \in Seq(Nat)
           /\ ToSet(Dropped(s, k)) = ToSet(s) \ {s[k]}
           /\ Bounds(Dropped(s, k), IF k = 1 THEN fs[s[k]].next ELSE s[1],
                     IF k = Len(s) THEN fs[s[k]].prev ELSE s[Len(s)])
<1>1. PICK n \in Nat : n = Len(s)
  OBVIOUS
<1>2. PICK m \in Nat : m = n - 1
  BY <1>1
<1> DEFINE r == Dropped(s, k)
<1>3. /\ DOMAIN s = 1 .. n /\ k \in 1 .. n /\ n = m + 1
      /\ \A i \in 1 .. n : s[i] \in Nat
  BY <1>1, <1>2
<1>4. r = [i \in 1 .. m |-> IF i < k THEN s[i] ELSE s[i + 1]]
  BY <1>1, <1>2 DEF Dropped
<1>5. \A i \in 1 .. m : i \in 1 .. n /\ i + 1 \in 1 .. n
  BY <1>3
<1>6. /\ r \in Seq(Nat) /\ Len(r) = m /\ DOMAIN r = 1 .. m
      /\ \A i \in 1 .. m : r[i] = IF i < k THEN s[i] ELSE s[i + 1]
  BY <1>2, <1>3, <1>4, <1>5
<1> HIDE DEF r
<1>7. /\ fs[s[k]].next = At(s, k + 1) /\ fs[s[k]].prev = At(s, k - 1)
  BY <1>3 DEF Chain
<1>8. OneToOne(r)
  <2>1. SUFFICES ASSUME NEW i \in 1 .. m, NEW j \in 1 .. m, r[i] = r[j]
                 PROVE  i = j
    BY <1>6 DEF OneToOne
  <2>2. \A a, b \in 1 .. n : s[a] = s[b] => a = b
    BY <1>3 DEF OneToOne
  <2>3. /\ i < k => r[i] = s[i]
        /\ ~ (i < k) => r[i] = s[i + 1]
        /\ j < k => r[j] = s[j]
        /\ ~ (j < k) => r[j] = s[j + 1]
    BY <1>6
  <2>4. /\ i \in 1 .. n /\ i + 1 \in 1 .. n /\ j \in 1 .. n /\ j + 1 \in 1 .. n
    BY <1>5
  <2>5. CASE i < k /\ j < k
    BY <2>1, <2>2, <2>3, <2>4, <2>5
  <2>6. CASE i < k /\ ~ (j < k)
    <3>1. i = j + 1
      BY <2>1, <2>2, <2>3, <2>4, <2>6
    <3> QED
      BY <1>3, <2>6, <3>1
  <2>7. CASE ~ (i < k) /\ j < k
    <3>1. i + 1 = j
      BY <2>1, <2>2, <2>3, <2>4, <2>7
    <3> QED
      BY <1>3, <2>7, <3>1
  <2>8. CASE ~ (i < k) /\ ~ (j < k)
    <3>1. i + 1 = j + 1
      BY <2>1, <2>2, <2>3, <2>4, <2>8
    <3> QED
      BY <3>1
  <2> QED
    BY <2>5, <2>6, <2>7, <2>8
<1>9. ToSet(r) = ToSet(s) \ {s[k]}
  <2>1. \A a, b \in 1 .. n : s[a] = s[b] => a = b
    BY <1>3 DEF OneToOne
  <2>2. ASSUME NEW i \in 1 .. m
        PROVE  \E j \in 1 .. n : r[i] = s[j] /\ j # k
    <3>1. CASE i < k
      <4>1. r[i] = s[i] /\ i \in 1 .. n /\ i # k
        BY <1>3, <1>5, <1>6, <3>1
      <4> QED
        BY <4>1
    <3>2. CASE ~ (i < k)
      <4>1. r[i] = s[i + 1] /\ i + 1 \in 1 .. n /\ i + 1 # k
        BY <1>3, <1>5, <1>6, <3>2
      <4> QED
        BY <4>1
    <3> QED
      BY <3>1, <3>2
  <2>3. ASSUME NEW j \in 1 .. n, j # k
        PROVE  \E i \in 1 .. m : r[i] = s[j]
    <3>1. CASE j < k
      <4>1. j \in 1 .. m
        BY <1>3, <3>1
      <4> QED
        BY <1>6, <3>1, <4>1
    <3>2. CASE j > k
      <4>1. j - 1 \in 1 .. m /\ ~ (j - 1 < k) /\ (j - 1) + 1 = j
        BY <1>3, <3>2
      <4>2. r[j - 1] = s[j]
        BY <1>6, <4>1
      <4> QED
        BY <4>1, <4>2
    <3> QED
      BY <1>3, <2>3, <3>1, <3>2
  <2>4. ToSet(r) = {r[i] : i \in 1 .. m} /\ ToSet(s) = {s[i] : i \in 1 .. n}
    BY <1>3, <1>6 DEF ToSet
  <2>5. ToSet(r) \subseteq ToSet(s) \ {s[k]}
    BY <1>3, <2>1, <2>2, <2>4
  <2>6. ToSet(s) \ {s[k]} \subseteq ToSet(r)
    BY <2>3, <2>4
  <2> QED
    BY <2>5, <2>6
<1>10. ASSUME NEW i \in 1 .. m
       PROVE  /\ fs2[r[i]].type = type
              /\ fs2[r[i]].prev = At(r, i - 1)
              /\ fs2[r[i]].next = At(r, i + 1)
  <2>1. CASE i < k
    <3>1. i \in 1 .. n /\ i # k /\ r[i] = s[i] /\ i # k + 1
      BY <1>3, <1>5, <1>6, <2>1
    <3>2. At(r, i - 1) = At(s, i - 1)
      <4>1. i - 1 \in 1 .. m => i - 1 \in 1 .. n /\ r[i - 1] = s[i - 1]
        BY <1>3, <1>6, <2>1
      <4>2. i - 1 \notin 1 .. m => i - 1 \notin 1 .. n
        BY <1>3
      <4> QED
        BY <1>3, <1>6, <4>1, <4>2 DEF At
    <3>3. At(r, i + 1) = IF i = k - 1 THEN At(s, k + 1) ELSE At(s, i + 1)
      <4>1. CASE i = k - 1
        <5>1. i + 1 = k /\ (k \in 1 .. m <=> k + 1 \in 1 .. n)
          BY <1>3, <4>1
        <5>2. k \in 1 .. m => r[k] = s[k + 1]
          BY <1>3, <1>6
        <5> QED
          BY <1>3, <1>6, <4>1, <5>1, <5>2 DEF At
      <4>2. CASE i # k - 1
        <5>1. i + 1 \in 1 .. m /\ i + 1 \in 1 .. n /\ i + 1 < k
          BY <1>3, <2>1, <4>2
        <5> QED
          BY <1>3, <1>6, <4>2, <5>1 DEF At
      <4> QED
        BY <4>1, <4>2
    <3>4. /\ fs2[s[i]].type = fs[s[i]].type /\ fs[s[i]].type = type
          /\ fs2[s[i]].prev = fs[s[i]].prev /\ fs[s[i]].prev = At(s, i - 1)
          /\ fs2[s[i]].next = (IF i = k - 1 THEN fs[s[k]].next
                                           ELSE fs[s[i]].next)
          /\ fs[s[i]].next = At(s, i + 1)
      BY <1>3, <3>1 DEF Chain, DropLinks
    <3> QED
      BY <1>7, <3>1, <3>2, <3>3, <3>4
  <2>2. CASE ~ (i < k)
    <3>1. /\ i + 1 \in 1 .. n /\ i + 1 # k /\ r[i] = s[i + 1] /\ i + 1 # k - 1
          /\ (i + 1 = k + 1 <=> i = k) /\ (i + 1) - 1 = i
      BY <1>3, <1>5, <1>6, <2>2
    <3>2. At(r, i + 1) = At(s, (i + 1) + 1)
      <4>1. i + 1 \in 1 .. m => /\ (i + 1) + 1 \in 1 .. n
                                /\ r[i + 1] = s[(i + 1) + 1]
        BY <1>3, <1>6, <2>2
      <4>2. i + 1 \notin 1 .. m => (i + 1) + 1 \notin 1 .. n
        BY <1>3
      <4> QED
        BY <1>3, <1>6, <4>1, <4>2 DEF At
    <3>3. At(r, i - 1) = IF i = k THEN At(s, k - 1) ELSE At(s, i)
      <4>1. CASE i = k
        <5>1. i - 1 = k - 1 /\ (k - 1 \in 1 .. m <=> k - 1 \in 1 .. n)
          BY <1>3, <4>1
        <5>2. k - 1 \in 1 .. m => r[k - 1] = s[k - 1]
          BY <1>3, <1>6
        <5> QED
          BY <1>3, <1>6, <4>1, <5>1, <5>2 DEF At
      <4>2. CASE i # k
        <5>1. /\ i - 1 \in 1 .. m /\ i \in 1 .. n /\ ~ (i - 1 < k)
              /\ (i - 1) + 1 = i
          BY <1>3, <2>2, <4>2
        <5>2. r[i - 1] = s[i]
          BY <1>6, <5>1
        <5> QED
          BY <1>3, <1>6, <4>2, <5>1, <5>2 DEF At
      <4> QED
        BY <4>1, <4>2
    <3>4. /\ fs2[s[i + 1]].type = fs[s[i + 1]].type /\ fs[s[i + 1]].type = type
          /\ fs2[s[i + 1]].prev = (IF i + 1 = k + 1 THEN fs[s[k]].prev
                                                   ELSE fs[s[i + 1]].prev)
          /\ fs[s[i + 1]].prev = At(s, i)
          /\ fs2[s[i + 1]].next = fs[s[i + 1]].next
          /\ fs[s[i + 1]].next = At(s, (i + 1) + 1)
      BY <1>3, <3>1 DEF Chain, DropLinks
    <3> QED
      BY <1>7, <3>1, <3>2, <3>3, <3>4
  <2> QED
    BY <2>1, <2>2
<1>11. Chain(fs2, r, type)
  BY <1>6, <1>10 DEF Chain
<1>12. At(r, 1) = IF k = 1 THEN At(s, k + 1) ELSE s[1]
  <2>1. CASE m = 0
    BY <1>3, <1>6, <2>1 DEF At
  <2>2. CASE m # 0
    <3>1. 1 \in 1 .. m /\ 1 \in 1 .. n /\ 2 \in 1 .. n /\ 1 + 1 = 2
      BY <1>3, <2>2
    <3>2. r[1] = IF k = 1 THEN s[2] ELSE s[1]
      BY <1>3, <1>6, <3>1
    <3> QED
      BY <1>3, <1>6, <3>1, <3>2 DEF At
  <2> QED
    BY <2>1, <2>2
<1>13. At(r, m) = IF k = n THEN At(s, k - 1) ELSE s[n]
  <2>1. CASE m = 0
    BY <1>3, <1>6, <2>1 DEF At
  <2>2. CASE m # 0
    <3>1. m \in 1 .. m /\ m \in 1 .. n /\ m + 1 = n /\ n - 1 = m
      BY <1>3, <2>2
    <3>2. r[m] = IF k = n THEN s[m] ELSE s[n]
      BY <1>3, <1>6, <3>1
    <3> QED
      BY <1>3, <1>6, <3>1, <3>2 DEF At
  <2> QED
    BY <2>1, <2>2
<1> QED
  BY <1>1, <1>6, <1>7, <1>8, <1>9, <1>11, <1>12, <1>13 DEF r, Bounds

\* Another frame in the place of one of a chain.
SwapLinks(fs, fs2, s, k, at) ==
    \A i \in DOMAIN s :
        i # k => /\ fs2[s[i]].type = fs[s[i]].type
                 /\ fs2[s[i]].prev = IF i = k + 1 THEN at ELSE fs[s[i]].prev
                 /\ fs2[s[i]].next = IF i = k - 1 THEN at ELSE fs[s[i]].next

Swapped(s, k, at) == [s EXCEPT ![k] = at]

Exchanged(S, a, b) == (S \ {a}) \cup {b}

SwappedHead(s, k, at) == IF k = 1 THEN at ELSE s[1]

SwappedLast(s, k, at) == IF k = Len(s) THEN at ELSE s[Len(s)]

LEMMA ChainSwap ==
    ASSUME NEW s \in Seq(Nat), NEW type, NEW fs, NEW fs2, Chain(fs, s, type),
           OneToOne(s), NEW k \in 1 .. Len(s), NEW at \in Nat,
           at \notin ToSet(s), fs2[at].type = type,
           fs2[at].prev = fs[s[k]].prev, fs2[at].next = fs[s[k]].next,
           SwapLinks(fs, fs2, s, k, at)
    PROVE  /\ Chain(fs2, Swapped(s, k, at), type)
           /\ OneToOne(Swapped(s, k, at))
           /\ Swapped(s, k, at) \in Seq(Nat)
           /\ ToSet(Swapped(s, k, at)) = Exchanged(ToSet(s), s[k], at)
           /\ Bounds(Swapped(s, k, at), SwappedHead(s, k, at), SwappedLast(s, k, at))
<1>1. PICK n \in Nat : n = Len(s)
  OBVIOUS
<1> DEFINE r == Swapped(s, k, at)
<1>2. /\ DOMAIN s = 1 .. n /\ k \in 1 .. n
      /\ r \in Seq(Nat) /\ Len(r) = n /\ DOMAIN r = 1 .. n
      /\ r[k] = at
      /\ \A i \in 1 .. n : i # k => r[i] = s[i]
  BY <1>1 DEF Swapped
<1> HIDE DEF r
<1>3. at \notin {s[i] : i \in 1 .. n}
  BY <1>2 DEF ToSet
<1>4. \A i, j \in 1 .. n : s[i] = s[j] => i = j
  BY <1>2 DEF OneToOne
<1>5. OneToOne(r)
  BY <1>2, <1>3, <1>4 DEF OneToOne
<1>6. ToSet(r) = (ToSet(s) \ {s[k]}) \cup {at}
  <2>1. ToSet(r) = {r[i] : i \in 1 .. n} /\ ToSet(s) = {s[i] : i \in 1 .. n}
    BY <1>2 DEF ToSet
  <2> QED
    BY <1>2, <1>4, <2>1
<1>7. \A j : j # k => At(r, j) = At(s, j)
  BY <1>2 DEF At
<1>8. At(r, k) = at
  BY <1>2 DEF At
<1>9. ASSUME NEW i \in 1 .. n
      PROVE  /\ fs2[r[i]].type = type
             /\ fs2[r[i]].prev = At(r, i - 1)
             /\ fs2[r[i]].next = At(r, i + 1)
  <2>1. /\ i - 1 = k <=> i = k + 1
        /\ i + 1 = k <=> i = k - 1
    BY <1>2
  <2>2. fs[s[i]].prev = At(s, i - 1) /\ fs[s[i]].next = At(s, i + 1)
        /\ fs[s[i]].type = type
    BY <1>2 DEF Chain
  <2>3. CASE i = k
    <3>1. i - 1 # k /\ i + 1 # k
      BY <1>2, <2>3
    <3> QED
      BY <1>2, <1>7, <2>2, <2>3, <3>1
  <2>4. CASE i # k
    <3>1. /\ fs2[s[i]].type = fs[s[i]].type
          /\ fs2[s[i]].prev = (IF i = k + 1 THEN at ELSE fs[s[i]].prev)
          /\ fs2[s[i]].next = (IF i = k - 1 THEN at ELSE fs[s[i]].next)
      BY <1>2, <2>4 DEF SwapLinks
    <3>2. r[i] = s[i]
      BY <1>2, <2>4
    <3> QED
      BY <1>7, <1>8, <2>1, <2>2, <3>1, <3>2
  <2> QED
    BY <2>3, <2>4
<1>10. Chain(fs2, r, type)
  BY <1>2, <1>9 DEF Chain
<1>11. At(r, 1) = (IF k = 1 THEN at ELSE s[1])
       /\ At(r, n) = (IF k = n THEN at ELSE s[n])
  <2>1. 1 \in 1 .. n /\ n \in 1 .. n
    BY <1>2
  <2> QED
    BY <1>2, <2>1 DEF At
<1> QED
  BY <1>1, <1>2, <1>5, <1>6, <1>10, <1>11 DEF r, Bounds, Exchanged, SwappedHead, SwappedLast

(***************************************************************************)
(* What a process that opens the base loads                                *)
(***************************************************************************)

DiskOf(h, fs, x) == [hdr |-> h, frames |-> fs, sqi |-> x]

Loads(h, x) == SubSeq(x, 1, Min2(h.count, Len(x)))

Loaded(d) == Loads(d.hdr, d.sqi)

LetterOf(d, i) == d.frames[Loaded(d)[i].offset].msg

\* The area as MessageBase has it, on a disk whose next write is w.
ShownAs(d, ix) == [messages |-> [i \in DOMAIN ix |-> d.frames[ix[i].offset].msg],
                   nextUid |-> d.hdr.nextUid]

View(d) == ShownAs(d, Loaded(d))

ViewAt(d, w) ==
    IF w.kind = "cut" THEN ShownAs(d, SubSeq(Loaded(d), 1,
                                             Min2(Len(Loaded(d)), w.to)))
    ELSE View(d)

\* A record that names a frame in use, and a message in its frame.
InUse(fs, x) ==
    \A i \in DOMAIN x : /\ x[i].offset \in 1 .. MaxFrame
                        /\ fs[x[i].offset].type # "free"

Housed(fs, e) ==
    /\ fs[e.offset].msg \in Letter
    /\ fs[e.offset].msg.uid = e.uid
    /\ Room[fs[e.offset].msg.text] <= fs[e.offset].room

Fine(d) ==
    /\ InUse(d.frames, d.sqi)
    /\ \A i \in DOMAIN Loaded(d) : Housed(d.frames, Loaded(d)[i])

\* What one write of a call may do to what is loaded.
Kept(call, d, d2) ==
    /\ Len(Loaded(d2)) > Len(Loaded(d)) =>
            /\ call.kind = "write"
            /\ Len(Loaded(d2)) = Len(Loaded(d)) + call.size
    /\ \A i \in DOMAIN Loaded(d) :
        \/ Loaded(d)[i].uid \in call.named /\ call.kind = "remove"
        \/ \E j \in DOMAIN Loaded(d2) :
            /\ Loaded(d2)[j].uid = Loaded(d)[i].uid
            /\ \/ LetterOf(d2, j).text = LetterOf(d, i).text
               \/ Loaded(d)[i].uid \in call.named /\ call.kind = "replace"

\* A call takes the area from g.from to g.to, in one of its writes.
Good(g, d, it, d2) ==
    /\ it \in Item
    /\ it.write.kind # "return"
    /\ d2 \in Disk
    /\ Fine(d2)
    /\ Kept(g.call, d, d2)
    /\ ViewAt(d, it.write) \in {g.from, g.to}
    /\ ViewAt(d, it.write) = g.to => View(d2) = g.to
    /\ it.write.kind = "cut" => ViewAt(d, it.write) \in {g.to, View(d)}

LEMMA SubSeqHolds ==
    ASSUME NEW S, NEW s \in Seq(S), NEW k \in 0 .. Len(s)
    PROVE  /\ SubSeq(s, 1, k) \in Seq(S) /\ Len(SubSeq(s, 1, k)) = k
           /\ DOMAIN SubSeq(s, 1, k) = 1 .. k
           /\ \A i \in 1 .. k : SubSeq(s, 1, k)[i] = s[i]
  OBVIOUS

LEMMA LoadsHolds ==
    ASSUME NEW h \in Header, NEW x \in Seq(Entry)
    PROVE  /\ Loads(h, x) \in Seq(Entry)
           /\ Len(Loads(h, x)) = Min2(h.count, Len(x))
           /\ DOMAIN Loads(h, x) = 1 .. Min2(h.count, Len(x))
           /\ DOMAIN Loads(h, x) \subseteq DOMAIN x
           /\ \A i \in DOMAIN Loads(h, x) : Loads(h, x)[i] = x[i]
           /\ h.count >= Len(x) => Loads(h, x) = x
<1> DEFINE k == Min2(h.count, Len(x))
<1>1. h.count \in Nat /\ Len(x) \in Nat /\ DOMAIN x = 1 .. Len(x)
      /\ \A i \in 1 .. Len(x) : x[i] \in Entry
  BY DEF Header
<1>2. k \in 0 .. Len(x) /\ (h.count >= Len(x) => k = Len(x))
  BY <1>1 DEF Min2
<1> HIDE DEF k
<1>3. /\ SubSeq(x, 1, k) \in Seq(Entry) /\ Len(SubSeq(x, 1, k)) = k
      /\ \A i \in 1 .. k : SubSeq(x, 1, k)[i] = x[i]
      /\ DOMAIN SubSeq(x, 1, k) = 1 .. k
  BY <1>2, SubSeqHolds
<1>4. 1 .. k \subseteq 1 .. Len(x)
  <2>1. PICK n \in Nat : n = Len(x)
    BY <1>1
  <2>2. k \in Nat /\ k <= n
    BY <1>2, <2>1
  <2> QED
    BY <2>1, <2>2
<1>5. k = Len(x) => SubSeq(x, 1, k) = x
  BY <1>1
<1> QED
  BY <1>1, <1>2, <1>3, <1>4, <1>5 DEF k, Loads

\* A write that changes no letter and none of the loaded UIDs.
Quiet(d, d2) ==
    /\ View(d2) = View(d)
    /\ DOMAIN Loaded(d2) = DOMAIN Loaded(d)
    /\ \A i \in DOMAIN Loaded(d) : Loaded(d2)[i].uid = Loaded(d)[i].uid

LEMMA QuietIsGood ==
    ASSUME NEW g, NEW d \in Disk, NEW d2 \in Disk, NEW it \in Item,
           it.write.kind \notin {"return", "cut"}, Quiet(d, d2), Fine(d2),
           View(d) \in {g.from, g.to}
    PROVE  Good(g, d, it, d2)
<1>1. ViewAt(d, it.write) = View(d) /\ View(d2) = View(d)
  BY DEF ViewAt, Quiet
<1>2. /\ Loaded(d) \in Seq(Entry) /\ Loaded(d2) \in Seq(Entry)
  BY LoadsHolds DEF Loaded, Disk
<1>3. Len(Loaded(d2)) = Len(Loaded(d)) /\ Len(Loaded(d)) \in Nat
  BY <1>2 DEF Quiet
<1>4. ASSUME NEW i \in DOMAIN Loaded(d)
      PROVE  /\ i \in DOMAIN Loaded(d2)
             /\ Loaded(d2)[i].uid = Loaded(d)[i].uid
             /\ LetterOf(d2, i) = LetterOf(d, i)
  <2>1. i \in DOMAIN Loaded(d2) /\ Loaded(d2)[i].uid = Loaded(d)[i].uid
    BY DEF Quiet
  <2>2. View(d2).messages[i] = View(d).messages[i]
    BY <1>1
  <2> QED
    BY <2>1, <2>2 DEF View, ShownAs, LetterOf
<1>5. Kept(g.call, d, d2)
  BY <1>3, <1>4 DEF Kept
<1> QED
  BY <1>1, <1>5 DEF Good

\* A write to the .sqd that leaves alone the letters the index names.
SameLetters(fs, fs2, x) ==
    \A i \in DOMAIN x :
        LET o == x[i].offset
        IN  /\ fs2[o].type # "free"
            /\ fs2[o].msg = fs[o].msg
            /\ fs2[o].room = fs[o].room

LEMMA SameLettersFine ==
    ASSUME NEW h \in Header, NEW x \in Seq(Entry), NEW fs, NEW fs2,
           Fine(DiskOf(h, fs, x)), SameLetters(fs, fs2, x)
    PROVE  Fine(DiskOf(h, fs2, x)) /\ Quiet(DiskOf(h, fs, x), DiskOf(h, fs2, x))
<1> DEFINE d == DiskOf(h, fs, x)
           d2 == DiskOf(h, fs2, x)
           ix == Loads(h, x)
<1>1. /\ Loaded(d) = ix /\ Loaded(d2) = ix
      /\ d.frames = fs /\ d2.frames = fs2 /\ d.sqi = x /\ d2.sqi = x
      /\ d.hdr = h /\ d2.hdr = h
  BY DEF Loaded, DiskOf
<1>2. DOMAIN ix \subseteq DOMAIN x /\ \A i \in DOMAIN ix : ix[i] = x[i]
  BY LoadsHolds
<1> HIDE DEF d, d2, ix
<1>3. \A i \in DOMAIN ix : /\ fs2[ix[i].offset].msg = fs[ix[i].offset].msg
                           /\ fs2[ix[i].offset].room = fs[ix[i].offset].room
  BY <1>2 DEF SameLetters
<1>4. InUse(fs2, x)
  BY <1>1 DEF InUse, SameLetters, Fine, d
<1>5. \A i \in DOMAIN ix : Housed(fs, ix[i])
  BY <1>1 DEF d, Fine
<1>6. \A i \in DOMAIN ix : Housed(fs2, ix[i])
  BY <1>3, <1>5 DEF Housed
<1>7. Fine(d2)
  BY <1>1, <1>4, <1>6 DEF Fine
<1>8. [i \in DOMAIN ix |-> fs2[ix[i].offset].msg]
            = [i \in DOMAIN ix |-> fs[ix[i].offset].msg]
  BY <1>3
<1>9. Quiet(d, d2)
  BY <1>1, <1>8 DEF Quiet, View, ShownAs
<1> QED
  BY <1>7, <1>9 DEF d, d2

(***************************************************************************)
(* Plans                                                                   *)
(***************************************************************************)

Plan == [base : Header, index : Seq(Entry), frames : [1 .. MaxFrame -> Frame],
         todo : Seq(Item), ok : BOOLEAN, pool : Seq(Nat), complete : BOOLEAN,
         at : Nat, room : 0 .. MaxRoom, full : BOOLEAN]

Itm(m, w) == [write |-> w, base |-> m.base, index |-> m.index]

\* The disks a list of writes goes through.
Carried(g, d, list, run) ==
    /\ list \in Seq(Item)
    /\ run \in [0 .. Len(list) -> Disk]
    /\ run[0] = d
    /\ \A k \in 1 .. Len(list) :
            /\ run[k] = After(list[k].write, run[k - 1])
            /\ Good(g, run[k - 1], list[k], run[k])

\* The writes of a plan lead from the disk as it is to this header, these
\* records and the plan's frames.
Leads(g, m, h, x) ==
    /\ m \in Plan
    /\ DiskOf(h, m.frames, x) \in Disk
    /\ Fine(DiskOf(h, m.frames, x))
    /\ \E run : /\ Carried(g, now, m.todo, run)
                /\ run[Len(m.todo)] = DiskOf(h, m.frames, x)

\* The same plan but for its writes and the frames.
Alike(m, m2) ==
    /\ m2.base = m.base /\ m2.index = m.index /\ m2.ok = m.ok
    /\ m2.pool = m.pool /\ m2.complete = m.complete /\ m2.at = m.at
    /\ m2.room = m.room /\ m2.full = m.full

LEMMA DoHolds ==
    ASSUME NEW m \in Plan, m.ok, NEW w \in Write,
           FramesAfter(w, m.frames) \in [1 .. MaxFrame -> Frame]
    PROVE  /\ Do(m, w) \in Plan
           /\ Alike(m, Do(m, w))
           /\ Do(m, w).frames = FramesAfter(w, m.frames)
           /\ Do(m, w).todo = Append(m.todo, Itm(m, w))
           /\ Itm(m, w) \in Item
<1>1. Itm(m, w) \in Item
  BY DEF Itm, Item, Plan
<1>2. Append(m.todo, Itm(m, w)) \in Seq(Item)
  BY <1>1 DEF Plan
<1>3. Do(m, w) = [m EXCEPT !.todo = Append(m.todo, Itm(m, w)),
                           !.frames = FramesAfter(w, m.frames)]
  BY DEF Do, Itm
<1> DEFINE list == Append(m.todo, Itm(m, w))
           fs == FramesAfter(w, m.frames)
<1>4. Do(m, w) = [m EXCEPT !.todo = list, !.frames = fs]
  BY <1>3
<1>5. list \in Seq(Item) /\ fs \in [1 .. MaxFrame -> Frame]
  BY <1>2
<1> HIDE DEF list, fs
<1>6. Do(m, w) \in Plan /\ Alike(m, Do(m, w)) /\ Do(m, w).frames = fs
      /\ Do(m, w).todo = list
  BY <1>4, <1>5 DEF Plan, Alike
<1> QED
  BY <1>1, <1>6 DEF list, fs

LEMMA CarriedOn ==
    ASSUME NEW g, NEW d, NEW list, NEW run, Carried(g, d, list, run),
           NEW it \in Item, NEW d2 \in Disk,
           d2 = After(it.write, run[Len(list)]),
           Good(g, run[Len(list)], it, d2)
    PROVE  \E run2 : /\ Carried(g, d, Append(list, it), run2)
                     /\ run2[Len(Append(list, it))] = d2
<1>1. PICK n \in Nat : n = Len(list)
  BY DEF Carried
<1> DEFINE list2 == Append(list, it)
           run2 == [k \in 0 .. n + 1 |-> IF k = n + 1 THEN d2 ELSE run[k]]
<1>2. /\ list2 \in Seq(Item) /\ Len(list2) = n + 1 /\ list2[n + 1] = it
      /\ \A k \in 1 .. n : list2[k] = list[k]
  BY <1>1 DEF Carried
<1>3. \A k \in 0 .. n : run[k] \in Disk
  BY <1>1 DEF Carried
<1>4. /\ run2 \in [0 .. n + 1 -> Disk]
      /\ run2[n + 1] = d2
      /\ \A k \in 0 .. n : run2[k] = run[k]
  BY <1>1, <1>3
<1> HIDE DEF list2, run2
<1>5. ASSUME NEW k \in 1 .. n + 1
      PROVE  /\ run2[k] = After(list2[k].write, run2[k - 1])
             /\ Good(g, run2[k - 1], list2[k], run2[k])
  <2>1. CASE k = n + 1
    <3>1. k - 1 = n /\ n \in 0 .. n
      BY <1>1, <2>1
    <3>2. run2[k - 1] = run[n]
      BY <1>4, <3>1
    <3> QED
      BY <1>1, <1>2, <1>4, <2>1, <3>2
  <2>2. CASE k # n + 1
    <3>1. k \in 1 .. n /\ k \in 0 .. n /\ k - 1 \in 0 .. n
      BY <1>1, <2>2
    <3>2. run2[k] = run[k] /\ run2[k - 1] = run[k - 1] /\ list2[k] = list[k]
      BY <1>2, <1>4, <3>1
    <3>3. /\ run[k] = After(list[k].write, run[k - 1])
          /\ Good(g, run[k - 1], list[k], run[k])
      BY <1>1, <3>1 DEF Carried
    <3> QED
      BY <3>2, <3>3
  <2> QED
    BY <2>1, <2>2
<1>6. run2[0] = d
  BY <1>1, <1>4 DEF Carried
<1>7. Carried(g, d, list2, run2)
  BY <1>2, <1>4, <1>5, <1>6 DEF Carried
<1> QED
  BY <1>2, <1>4, <1>7 DEF list2

\* One write more.
LEMMA DoLeads ==
    ASSUME NEW g, NEW m, NEW h, NEW x, Leads(g, m, h, x), m.ok,
           NEW w \in Write, NEW h2, NEW fs2, NEW x2,
           h2 = HeaderAfter(w, h), fs2 = FramesAfter(w, m.frames),
           x2 = IndexAfter(w, x),
           Good(g, DiskOf(h, m.frames, x), Itm(m, w), DiskOf(h2, fs2, x2))
    PROVE  /\ Leads(g, Do(m, w), h2, x2)
           /\ Alike(m, Do(m, w))
           /\ Do(m, w).frames = fs2
<1>1. m \in Plan
  BY DEF Leads
<1>2. DiskOf(h2, fs2, x2) \in Disk /\ Fine(DiskOf(h2, fs2, x2))
  BY DEF Good
<1>3. fs2 \in [1 .. MaxFrame -> Frame]
  BY <1>2 DEF DiskOf, Disk
<1>4. /\ Do(m, w) \in Plan
      /\ Alike(m, Do(m, w))
      /\ Do(m, w).frames = fs2
      /\ Do(m, w).todo = Append(m.todo, Itm(m, w))
      /\ Itm(m, w) \in Item
  BY <1>1, <1>3, DoHolds
<1>5. PICK run : /\ Carried(g, now, m.todo, run)
                 /\ run[Len(m.todo)] = DiskOf(h, m.frames, x)
  BY DEF Leads
<1>6. DiskOf(h2, fs2, x2) = After(Itm(m, w).write, DiskOf(h, m.frames, x))
  BY DEF DiskOf, After, Itm
<1>7. \E run2 : /\ Carried(g, now, Append(m.todo, Itm(m, w)), run2)
                /\ run2[Len(Append(m.todo, Itm(m, w)))] = DiskOf(h2, fs2, x2)
  BY <1>2, <1>4, <1>5, <1>6, CarriedOn
<1> QED
  BY <1>2, <1>4, <1>7 DEF Leads

\* A write to the .sqd that nobody who loads the base can tell.
Calm(g, m, m2, h, x, fs2) ==
    /\ Leads(g, m2, h, x)
    /\ Alike(m, m2)
    /\ m2.frames = fs2
    /\ View(DiskOf(h, fs2, x)) = View(DiskOf(h, m.frames, x))

Halfway(g, m, h, x) == View(DiskOf(h, m.frames, x)) \in {g.from, g.to}

LEMMA LeadsTyped ==
    ASSUME NEW g, NEW m, NEW h, NEW x, Leads(g, m, h, x)
    PROVE  /\ m \in Plan /\ h \in Header /\ x \in Seq(Entry)
           /\ m.frames \in [1 .. MaxFrame -> Frame]
           /\ m.base \in Header /\ m.index \in Seq(Entry)
BY DEF Leads, DiskOf, Disk, Plan

LEMMA FrameWrite ==
    ASSUME NEW g, NEW m, NEW h, NEW x, Leads(g, m, h, x), m.ok,
           Halfway(g, m, h, x), NEW w \in Write,
           w.kind \in {"next", "prev", "head", "frame", "message"},
           FramesAfter(w, m.frames) \in [1 .. MaxFrame -> Frame],
           SameLetters(m.frames, FramesAfter(w, m.frames), x)
    PROVE  Calm(g, m, Do(m, w), h, x, FramesAfter(w, m.frames))
<1> DEFINE fs2 == FramesAfter(w, m.frames)
           d == DiskOf(h, m.frames, x)
           d2 == DiskOf(h, fs2, x)
<1>1. /\ m \in Plan /\ h \in Header /\ x \in Seq(Entry)
  BY LeadsTyped
<1>2. h = HeaderAfter(w, h) /\ x = IndexAfter(w, x)
  BY DEF HeaderAfter, IndexAfter
<1>3. Fine(d) /\ d \in Disk
  BY DEF Leads
<1>4. Fine(d2) /\ Quiet(d, d2)
  BY <1>1, <1>3, SameLettersFine
<1>5. d2 \in Disk
  BY <1>1 DEF DiskOf, Disk
<1>6. Itm(m, w) \in Item /\ Itm(m, w).write = w
  BY <1>1, DoHolds DEF Itm
<1>7. View(d) \in {g.from, g.to}
  BY DEF Halfway
<1>8. w.kind \notin {"return", "cut"}
  OBVIOUS
<1> HIDE DEF d, d2, fs2
<1>9. Good(g, d, Itm(m, w), d2)
  BY <1>3, <1>4, <1>5, <1>6, <1>7, <1>8, QuietIsGood
<1>10. /\ Leads(g, Do(m, w), h, x)
       /\ Alike(m, Do(m, w))
       /\ Do(m, w).frames = fs2
  BY <1>2, <1>9, DoLeads DEF d, d2, fs2
<1>11. View(d2) = View(d)
  BY <1>4 DEF Quiet
<1> QED
  BY <1>10, <1>11 DEF Calm, d, d2, fs2

\* setFrameNext() and setFramePrev() of a frame that can be read.
LEMMA NextWrite ==
    ASSUME NEW g, NEW m, NEW h, NEW x, Leads(g, m, h, x), m.ok,
           Halfway(g, m, h, x), NEW at \in 1 .. MaxFrame, NEW to \in Nat,
           Readable(m, at)
    PROVE  Calm(g, m, SetFrameNext(m, at, to), h, x,
                [m.frames EXCEPT ![at].next = to])
<1> DEFINE w == [kind |-> "next", at |-> at, to |-> to]
           fs2 == [m.frames EXCEPT ![at].next = to]
<1>1. /\ m.frames \in [1 .. MaxFrame -> Frame] /\ x \in Seq(Entry)
      /\ Fine(DiskOf(h, m.frames, x))
  BY LeadsTyped DEF Leads
<1>2. w \in Write /\ w.kind = "next"
  BY BoundsAssumption DEF Write
<1>3. FramesAfter(w, m.frames) = fs2
  BY DEF FramesAfter
<1>4. m.frames[at] \in Frame
  BY <1>1
<1>5. [m.frames[at] EXCEPT !.next = to] \in Frame
  BY <1>4 DEF Frame
<1>6. fs2 \in [1 .. MaxFrame -> Frame]
  BY <1>1, <1>5
<1>7. \A o \in 1 .. MaxFrame : /\ fs2[o].type = m.frames[o].type
                               /\ fs2[o].msg = m.frames[o].msg
                               /\ fs2[o].room = m.frames[o].room
  <2>1. SUFFICES ASSUME NEW o \in 1 .. MaxFrame
                 PROVE  /\ fs2[o].type = m.frames[o].type
                        /\ fs2[o].msg = m.frames[o].msg
                        /\ fs2[o].room = m.frames[o].room
    OBVIOUS
  <2>2. CASE o = at
    BY <1>1, <1>4, <2>2 DEF Frame
  <2>3. CASE o # at
    BY <1>1, <2>3
  <2> QED
    BY <2>2, <2>3
<1>8. SetFrameNext(m, at, to) = Do(m, w)
  BY DEF SetFrameNext
<1> HIDE DEF w, fs2
<1>9. SameLetters(m.frames, fs2, x)
  BY <1>1, <1>7 DEF SameLetters, Fine, InUse, DiskOf
<1>10. Calm(g, m, Do(m, w), h, x, FramesAfter(w, m.frames))
  BY <1>2, <1>3, <1>6, <1>9, FrameWrite
<1> QED
  BY <1>3, <1>8, <1>10 DEF fs2

LEMMA PrevWrite ==
    ASSUME NEW g, NEW m, NEW h, NEW x, Leads(g, m, h, x), m.ok,
           Halfway(g, m, h, x), NEW at \in 1 .. MaxFrame, NEW to \in Nat,
           Readable(m, at)
    PROVE  Calm(g, m, SetFramePrev(m, at, to), h, x,
                [m.frames EXCEPT ![at].prev = to])
<1> DEFINE w == [kind |-> "prev", at |-> at, to |-> to]
           fs2 == [m.frames EXCEPT ![at].prev = to]
<1>1. /\ m.frames \in [1 .. MaxFrame -> Frame] /\ x \in Seq(Entry)
      /\ Fine(DiskOf(h, m.frames, x))
  BY LeadsTyped DEF Leads
<1>2. w \in Write /\ w.kind = "prev"
  BY BoundsAssumption DEF Write
<1>3. FramesAfter(w, m.frames) = fs2
  BY DEF FramesAfter
<1>4. m.frames[at] \in Frame
  BY <1>1
<1>5. [m.frames[at] EXCEPT !.prev = to] \in Frame
  BY <1>4 DEF Frame
<1>6. fs2 \in [1 .. MaxFrame -> Frame]
  BY <1>1, <1>5
<1>7. \A o \in 1 .. MaxFrame : /\ fs2[o].type = m.frames[o].type
                               /\ fs2[o].msg = m.frames[o].msg
                               /\ fs2[o].room = m.frames[o].room
  <2>1. SUFFICES ASSUME NEW o \in 1 .. MaxFrame
                 PROVE  /\ fs2[o].type = m.frames[o].type
                        /\ fs2[o].msg = m.frames[o].msg
                        /\ fs2[o].room = m.frames[o].room
    OBVIOUS
  <2>2. CASE o = at
    BY <1>1, <1>4, <2>2 DEF Frame
  <2>3. CASE o # at
    BY <1>1, <2>3
  <2> QED
    BY <2>2, <2>3
<1>8. SetFramePrev(m, at, to) = Do(m, w)
  BY DEF SetFramePrev
<1> HIDE DEF w, fs2
<1>9. SameLetters(m.frames, fs2, x)
  BY <1>1, <1>7 DEF SameLetters, Fine, InUse, DiskOf
<1>10. Calm(g, m, Do(m, w), h, x, FramesAfter(w, m.frames))
  BY <1>2, <1>3, <1>6, <1>9, FrameWrite
<1> QED
  BY <1>3, <1>8, <1>10 DEF fs2

\* One frame linked to what follows it and another to what stands before.
Linking(m, p, a, n, b) ==
    LET r == IF p = 0 THEN m ELSE SetFrameNext(m, p, a)
    IN  IF n = 0 THEN r ELSE SetFramePrev(r, n, b)

LinkedFrames(fs, p, a, n, b) ==
    LET f == IF p = 0 THEN fs ELSE [fs EXCEPT ![p].next = a]
    IN  IF n = 0 THEN f ELSE [f EXCEPT ![n].prev = b]

\* A frame that can be read, or none.
Linkable(m, o) == o = 0 \/ (o \in 1 .. MaxFrame /\ Readable(m, o))

\* Only these two links are different.
OnlyLinked(fs, fs2, p, a, n, b) ==
    \A o \in 1 .. MaxFrame :
        /\ fs2[o].type = fs[o].type
        /\ fs2[o].msg = fs[o].msg
        /\ fs2[o].room = fs[o].room
        /\ fs2[o].next = IF o = p THEN a ELSE fs[o].next
        /\ fs2[o].prev = IF o = n THEN b ELSE fs[o].prev

LEMMA LinkedFramesHolds ==
    ASSUME NEW fs \in [1 .. MaxFrame -> Frame], NEW p \in 0 .. MaxFrame,
           NEW n \in 0 .. MaxFrame, NEW a \in Nat, NEW b \in Nat
    PROVE  /\ LinkedFrames(fs, p, a, n, b) \in [1 .. MaxFrame -> Frame]
           /\ OnlyLinked(fs, LinkedFrames(fs, p, a, n, b), p, a, n, b)
<1> DEFINE f == IF p = 0 THEN fs ELSE [fs EXCEPT ![p].next = a]
           f2 == IF n = 0 THEN f ELSE [f EXCEPT ![n].prev = b]
<1>1. /\ f \in [1 .. MaxFrame -> Frame]
      /\ \A o \in 1 .. MaxFrame :
            f[o] = IF o = p THEN [fs[o] EXCEPT !.next = a] ELSE fs[o]
  <2>1. \A r \in Frame : [r EXCEPT !.next = a] \in Frame
    BY DEF Frame
  <2>2. CASE p = 0
    BY <2>2, BoundsAssumption
  <2>3. CASE p # 0
    <3>1. p \in 1 .. MaxFrame
      BY <2>3, BoundsAssumption
    <3>2. f = [fs EXCEPT ![p] = [fs[p] EXCEPT !.next = a]]
      BY <2>3
    <3>3. fs[p] \in Frame
      BY <3>1
    <3> QED
      BY <2>1, <3>1, <3>2, <3>3
  <2> QED
    BY <2>2, <2>3
<1> HIDE DEF f
<1>2. /\ f2 \in [1 .. MaxFrame -> Frame]
      /\ \A o \in 1 .. MaxFrame :
            f2[o] = IF o = n THEN [f[o] EXCEPT !.prev = b] ELSE f[o]
  <2>1. \A r \in Frame : [r EXCEPT !.prev = b] \in Frame
    BY DEF Frame
  <2>2. CASE n = 0
    BY <1>1, <2>2, BoundsAssumption
  <2>3. CASE n # 0
    <3>1. n \in 1 .. MaxFrame
      BY <2>3, BoundsAssumption
    <3>2. f2 = [f EXCEPT ![n] = [f[n] EXCEPT !.prev = b]]
      BY <2>3
    <3>3. f[n] \in Frame
      BY <1>1, <3>1
    <3> QED
      BY <1>1, <2>1, <3>1, <3>2, <3>3
  <2> QED
    BY <2>2, <2>3
<1>3. LinkedFrames(fs, p, a, n, b) = f2
  BY DEF LinkedFrames, f
<1> HIDE DEF f2
<1>4. ASSUME NEW o \in 1 .. MaxFrame
      PROVE  /\ f2[o].type = fs[o].type
             /\ f2[o].msg = fs[o].msg
             /\ f2[o].room = fs[o].room
             /\ f2[o].next = IF o = p THEN a ELSE fs[o].next
             /\ f2[o].prev = IF o = n THEN b ELSE fs[o].prev
  <2>1. fs[o] \in Frame /\ f[o] \in Frame
    BY <1>1
  <2>2. /\ f[o].type = fs[o].type /\ f[o].msg = fs[o].msg
        /\ f[o].room = fs[o].room /\ f[o].prev = fs[o].prev
        /\ f[o].next = IF o = p THEN a ELSE fs[o].next
    <3>1. CASE o = p
      <4>1. f[o] = [fs[o] EXCEPT !.next = a]
        BY <1>1, <3>1
      <4> QED
        BY <2>1, <3>1, <4>1 DEF Frame
    <3>2. CASE o # p
      BY <1>1, <3>2
    <3> QED
      BY <3>1, <3>2
  <2>3. /\ f2[o].type = f[o].type /\ f2[o].msg = f[o].msg
        /\ f2[o].room = f[o].room /\ f2[o].next = f[o].next
        /\ f2[o].prev = IF o = n THEN b ELSE f[o].prev
    <3>1. CASE o = n
      <4>1. f2[o] = [f[o] EXCEPT !.prev = b]
        BY <1>2, <3>1
      <4> QED
        BY <2>1, <3>1, <4>1 DEF Frame
    <3>2. CASE o # n
      BY <1>2, <3>2
    <3> QED
      BY <3>1, <3>2
  <2> QED
    BY <2>2, <2>3
<1> QED
  BY <1>2, <1>3, <1>4 DEF OnlyLinked

LEMMA CalmThenCalm ==
    ASSUME NEW g, NEW m, NEW m2, NEW m3, NEW h, NEW x, NEW fs2, NEW fs3,
           Calm(g, m, m2, h, x, fs2), Calm(g, m2, m3, h, x, fs3)
    PROVE  Calm(g, m, m3, h, x, fs3)
BY DEF Calm, Alike

LEMMA LinkingWrites ==
    ASSUME NEW g, NEW m, NEW h, NEW x, Leads(g, m, h, x), m.ok,
           Halfway(g, m, h, x), NEW p, NEW n, NEW a \in Nat, NEW b \in Nat,
           Linkable(m, p), Linkable(m, n)
    PROVE  Calm(g, m, Linking(m, p, a, n, b), h, x,
                LinkedFrames(m.frames, p, a, n, b))
<1> DEFINE r == IF p = 0 THEN m ELSE SetFrameNext(m, p, a)
           f == IF p = 0 THEN m.frames ELSE [m.frames EXCEPT ![p].next = a]
<1>1. Calm(g, m, m, h, x, m.frames)
  BY DEF Calm, Alike
<1>2. Calm(g, m, r, h, x, f)
  <2>1. CASE p = 0
    BY <1>1, <2>1
  <2>2. CASE p # 0
    <3>1. p \in 1 .. MaxFrame /\ Readable(m, p)
      BY <2>2 DEF Linkable
    <3>2. Calm(g, m, SetFrameNext(m, p, a), h, x, [m.frames EXCEPT ![p].next = a])
      BY <3>1, NextWrite
    <3> QED
      BY <2>2, <3>2
  <2> QED
    BY <2>1, <2>2
<1>3. Linking(m, p, a, n, b) = IF n = 0 THEN r ELSE SetFramePrev(r, n, b)
  BY DEF Linking
<1>4. LinkedFrames(m.frames, p, a, n, b)
        = IF n = 0 THEN f ELSE [f EXCEPT ![n].prev = b]
  BY DEF LinkedFrames
<1>5. CASE n = 0
  BY <1>2, <1>3, <1>4, <1>5
<1>6. CASE n # 0
  <2>1. n \in 1 .. MaxFrame /\ Readable(m, n)
    BY <1>6 DEF Linkable
  <2>2. f[n].type = m.frames[n].type
    <3>1. m.frames \in [1 .. MaxFrame -> Frame] /\ m.frames[n] \in Frame
      BY <2>1, LeadsTyped
    <3>2. CASE p = 0
      BY <3>2
    <3>3. CASE p # 0 /\ p # n
      <4>1. f = [m.frames EXCEPT ![p] = [m.frames[p] EXCEPT !.next = a]]
        BY <3>3
      <4> QED
        BY <2>1, <3>1, <3>3, <4>1
    <3>4. CASE p # 0 /\ p = n
      <4>1. f[n] = [m.frames[n] EXCEPT !.next = a]
        BY <2>1, <3>1, <3>4
      <4> QED
        BY <3>1, <4>1 DEF Frame
    <3> QED
      BY <3>2, <3>3, <3>4
  <2> HIDE DEF r, f
  <2>3. /\ Leads(g, r, h, x) /\ r.ok /\ r.frames = f /\ r.base = m.base
        /\ Halfway(g, r, h, x)
    BY <1>2 DEF Calm, Alike, Halfway
  <2>4. Readable(r, n)
    BY <2>1, <2>2, <2>3 DEF Readable
  <2>5. Calm(g, r, SetFramePrev(r, n, b), h, x, [f EXCEPT ![n].prev = b])
    BY <2>1, <2>3, <2>4, PrevWrite
  <2>6. Calm(g, m, SetFramePrev(r, n, b), h, x, [f EXCEPT ![n].prev = b])
    BY <1>2, <2>5, CalmThenCalm
  <2> QED
    BY <1>3, <1>4, <1>6, <2>6
<1> QED
  BY <1>5, <1>6

(***************************************************************************)
(* The base in order                                                       *)
(***************************************************************************)

Offs(ix) == [i \in DOMAIN ix |-> ix[i].offset]

\* Every frame of the file is in one place: in the message chain u, in the
\* free chain c or taken out of both.
Parted(e, u, c, X) ==
    /\ OneToOne(u)
    /\ OneToOne(c)
    /\ ToSet(u) \cap ToSet(c) = {}
    /\ ToSet(u) \cap X = {}
    /\ ToSet(c) \cap X = {}
    /\ ToSet(u) \cup ToSet(c) \cup X = 1 .. e - 1

Lettered(fs, ix) ==
    \A i \in DOMAIN ix : /\ Housed(fs, ix[i])
                         /\ fs[ix[i].offset].msg.rcvd = ix[i].rcvd

\* The base that the header b and the index ix in memory make with the frames
\* fs: its messages in the order of the index, its free chain c, and X the
\* frames a call has taken out of either.
Arranged(b, fs, ix, c, X) ==
    /\ b \in Header
    /\ fs \in [1 .. MaxFrame -> Frame]
    /\ ix \in Seq(Entry)
    /\ c \in Seq(Nat)
    /\ b.endFrame \in 1 .. MaxFrame + 1
    /\ Len(ix) < b.nextUid
    /\ Parted(b.endFrame, Offs(ix), c, X)
    /\ Chain(fs, Offs(ix), "normal")
    /\ Bounds(Offs(ix), b.firstFrame, b.lastFrame)
    /\ Chain(fs, c, "free")
    /\ Bounds(c, b.firstFree, b.lastFree)
    /\ Lettered(fs, ix)

LEMMA OffsHolds ==
    ASSUME NEW ix \in Seq(Entry)
    PROVE  /\ Offs(ix) \in Seq(Nat)
           /\ Len(Offs(ix)) = Len(ix)
           /\ DOMAIN Offs(ix) = DOMAIN ix
           /\ \A i \in DOMAIN ix : Offs(ix)[i] = ix[i].offset
           /\ ToSet(Offs(ix)) = {ix[i].offset : i \in DOMAIN ix}
<1>1. DOMAIN ix = 1 .. Len(ix) /\ Len(ix) \in Nat
      /\ \A i \in DOMAIN ix : ix[i].offset \in Nat
  <2>1. /\ DOMAIN ix = 1 .. Len(ix) /\ Len(ix) \in Nat
        /\ \A i \in DOMAIN ix : ix[i] \in Entry
    OBVIOUS
  <2>2. \A r \in Entry : r.offset \in Nat
    BY DEF Entry
  <2> QED
    BY <2>1, <2>2
<1>2. /\ Offs(ix) \in Seq(Nat) /\ DOMAIN Offs(ix) = DOMAIN ix
      /\ Len(Offs(ix)) = Len(ix)
      /\ \A i \in DOMAIN ix : Offs(ix)[i] = ix[i].offset
  BY <1>1 DEF Offs
<1> QED
  BY <1>2 DEF ToSet

\* What a chain names can be read.
LEMMA InChain ==
    ASSUME NEW e \in 1 .. MaxFrame + 1, NEW u \in Seq(Nat), NEW c \in Seq(Nat),
           NEW X, Parted(e, u, c, X)
    PROVE  /\ \A o \in ToSet(u) \cup ToSet(c) \cup X :
                    o \in 1 .. MaxFrame /\ o < e /\ o # 0
           /\ \A i : At(u, i) # 0 => At(u, i) \in ToSet(u)
           /\ \A i : At(c, i) # 0 => At(c, i) \in ToSet(c)
           /\ \A i \in DOMAIN u : At(u, i) # 0 /\ u[i] \in ToSet(u)
           /\ \A i \in DOMAIN c : At(c, i) # 0 /\ c[i] \in ToSet(c)
           /\ \A i : At(u, i) \in 0 .. MaxFrame /\ At(c, i) \in 0 .. MaxFrame
<1>1. MaxFrame \in Nat /\ e \in Nat /\ e - 1 <= MaxFrame
  BY BoundsAssumption
<1>2. ASSUME NEW o \in ToSet(u) \cup ToSet(c) \cup X
      PROVE  o \in 1 .. MaxFrame /\ o < e /\ o # 0
  <2>1. o \in 1 .. e - 1
    BY DEF Parted
  <2> QED
    BY <1>1, <2>1
<1>3. /\ \A i \in DOMAIN u : u[i] \in ToSet(u)
      /\ \A i \in DOMAIN c : c[i] \in ToSet(c)
  BY DEF ToSet
<1> QED
  BY <1>1, <1>2, <1>3 DEF At

LEMMA Reads ==
    ASSUME NEW m, NEW c, NEW X,
           Arranged(m.base, m.frames, m.index, c, X)
    PROVE  /\ \A i : Linkable(m, At(c, i))
           /\ \A i : Linkable(m, At(Offs(m.index), i))
<1>1. /\ m.base.endFrame \in 1 .. MaxFrame + 1 /\ Offs(m.index) \in Seq(Nat)
      /\ c \in Seq(Nat) /\ Parted(m.base.endFrame, Offs(m.index), c, X)
  BY OffsHolds DEF Arranged
<1>2. /\ \A o \in ToSet(Offs(m.index)) \cup ToSet(c) \cup X :
                    o \in 1 .. MaxFrame /\ o < m.base.endFrame
      /\ \A i : At(Offs(m.index), i) # 0
                    => At(Offs(m.index), i) \in ToSet(Offs(m.index))
      /\ \A i : At(c, i) # 0 => At(c, i) \in ToSet(c)
  BY <1>1, InChain
<1>3. \A o \in ToSet(Offs(m.index)) : m.frames[o].type = "normal"
  BY DEF Arranged, Chain, ToSet
<1>4. \A o \in ToSet(c) : m.frames[o].type = "free"
  BY DEF Arranged, Chain, ToSet
<1> QED
  BY <1>2, <1>3, <1>4 DEF Linkable, Readable

LEMMA SameFrame ==
    ASSUME NEW f \in Frame, NEW f2 \in Frame, f2.type = f.type,
           f2.next = f.next, f2.prev = f.prev, f2.room = f.room, f2.msg = f.msg
    PROVE  f2 = f
<1>1. f = [type |-> f.type, next |-> f.next, prev |-> f.prev, room |-> f.room,
           msg |-> f.msg]
  BY DEF Frame
<1>2. f2 = [type |-> f2.type, next |-> f2.next, prev |-> f2.prev,
            room |-> f2.room, msg |-> f2.msg]
  BY DEF Frame
<1> QED
  BY <1>1, <1>2

\* The message chain and its letters, where the frames it names are as they
\* were.
LEMMA SameUsed ==
    ASSUME NEW fs, NEW fs2, NEW ix \in Seq(Entry),
           \A o \in ToSet(Offs(ix)) : fs2[o] = fs[o],
           Chain(fs, Offs(ix), "normal"), Lettered(fs, ix)
    PROVE  Chain(fs2, Offs(ix), "normal") /\ Lettered(fs2, ix)
<1>1. /\ DOMAIN Offs(ix) = DOMAIN ix
      /\ \A i \in DOMAIN ix : Offs(ix)[i] = ix[i].offset
      /\ \A i \in DOMAIN ix : ix[i].offset \in ToSet(Offs(ix))
  BY OffsHolds
<1>2. \A i \in DOMAIN ix : fs2[ix[i].offset] = fs[ix[i].offset]
  BY <1>1
<1>3. Lettered(fs2, ix)
  BY <1>2 DEF Lettered, Housed
<1>4. \A i \in DOMAIN Offs(ix) : fs2[Offs(ix)[i]] = fs[Offs(ix)[i]]
  BY <1>1, <1>2
<1>5. Chain(fs2, Offs(ix), "normal")
  BY <1>4 DEF Chain
<1> QED
  BY <1>3, <1>5

\* A frame to write a message into, out of both chains.
Placed(g, m, m2, h, x, c) ==
    /\ Leads(g, m2, h, x)
    /\ m2.ok
    /\ m2.index = m.index
    /\ m2.full = m.full
    /\ m2.base.count = m.base.count
    /\ m2.base.nextUid = m.base.nextUid
    /\ View(DiskOf(h, m2.frames, x)) = View(DiskOf(h, m.frames, x))
    /\ Arranged(m2.base, m2.frames, m2.index, c, {m2.at})
    /\ ToSet(m2.pool) \subseteq ToSet(c)
    /\ \A o \in ToSet(Offs(m.index)) : m2.frames[o] = m.frames[o]

LEMMA TakeFreeHolds ==
    ASSUME NEW g, NEW m, NEW h, NEW x, Leads(g, m, h, x), m.ok,
           Halfway(g, m, h, x), NEW c,
           Arranged(m.base, m.frames, m.index, c, {}),
           ToSet(m.pool) \subseteq ToSet(c), NEW at \in ToSet(c)
    PROVE  /\ \E c2 : Placed(g, m, TakeFree(m, at), h, x, c2)
           /\ TakeFree(m, at).room = m.frames[at].room
<1> DEFINE f == m.frames[at]
           r == Linking(m, f.prev, f.next, f.next, f.prev)
           fs2 == LinkedFrames(m.frames, f.prev, f.next, f.next, f.prev)
           base2 == [m.base EXCEPT
                        !.firstFree = IF @ = at THEN f.next ELSE @,
                        !.lastFree = IF @ = at THEN f.prev ELSE @]
           pool2 == Selected(m.pool, ToSet(m.pool) \ {at})
           m2 == [r EXCEPT !.base = base2, !.pool = pool2, !.at = at,
                           !.room = f.room]
           u == Offs(m.index)
           e == m.base.endFrame
<1>1. PICK k \in DOMAIN c : c[k] = at
  BY DEF ToSet
<1>2. /\ m \in Plan /\ h \in Header /\ x \in Seq(Entry)
      /\ m.frames \in [1 .. MaxFrame -> Frame]
      /\ m.base \in Header /\ m.index \in Seq(Entry)
  BY LeadsTyped
<1>3. /\ c \in Seq(Nat) /\ u \in Seq(Nat) /\ e \in 1 .. MaxFrame + 1
      /\ Parted(e, u, c, {}) /\ OneToOne(c) /\ OneToOne(u)
      /\ ToSet(u) \cap ToSet(c) = {}
      /\ Chain(m.frames, u, "normal") /\ Chain(m.frames, c, "free")
      /\ Bounds(u, m.base.firstFrame, m.base.lastFrame)
      /\ Bounds(c, m.base.firstFree, m.base.lastFree)
      /\ Lettered(m.frames, m.index) /\ Len(m.index) < m.base.nextUid
  BY OffsHolds DEF Arranged, Parted
<1>4. /\ \A o \in ToSet(u) \cup ToSet(c) : o \in 1 .. MaxFrame /\ o < e /\ o # 0
      /\ \A i : At(c, i) # 0 => At(c, i) \in ToSet(c)
      /\ \A i \in DOMAIN c : c[i] \in ToSet(c)
      /\ \A i : At(c, i) \in 0 .. MaxFrame
  BY <1>3, InChain
<1>5. f.prev = At(c, k - 1) /\ f.next = At(c, k + 1) /\ f \in Frame
      /\ at \in 1 .. MaxFrame /\ f.room \in 0 .. MaxRoom
  <2>1. f \in Frame /\ at \in 1 .. MaxFrame
    BY <1>2, <1>4
  <2> QED
    BY <1>1, <1>3, <2>1 DEF Chain, Frame
<1>6. /\ Linkable(m, f.prev) /\ Linkable(m, f.next)
      /\ f.prev \in 0 .. MaxFrame /\ f.next \in 0 .. MaxFrame
      /\ f.prev \in Nat /\ f.next \in Nat
  <2>1. Linkable(m, At(c, k - 1)) /\ Linkable(m, At(c, k + 1))
    BY Reads
  <2>2. At(c, k - 1) \in 0 .. MaxFrame /\ At(c, k + 1) \in 0 .. MaxFrame
    BY <1>4
  <2> HIDE DEF f
  <2>3. f.prev \in 0 .. MaxFrame /\ f.next \in 0 .. MaxFrame
    BY <1>5, <2>2
  <2> QED
    BY <1>5, <2>1, <2>3, BoundsAssumption
<1> HIDE DEF u, e
<1>7. /\ fs2 \in [1 .. MaxFrame -> Frame]
      /\ OnlyLinked(m.frames, fs2, f.prev, f.next, f.next, f.prev)
  BY <1>2, <1>6, LinkedFramesHolds
<1>8. Calm(g, m, r, h, x, fs2)
  BY <1>6, LinkingWrites
<1>9. TakeFree(m, at) = m2
  <2>1. r = IF f.next = 0
            THEN IF f.prev = 0 THEN m ELSE SetFrameNext(m, f.prev, f.next)
            ELSE SetFramePrev(IF f.prev = 0 THEN m
                              ELSE SetFrameNext(m, f.prev, f.next),
                              f.next, f.prev)
    BY DEF Linking
  <2>2. r.ok /\ r.base = m.base /\ r.pool = m.pool /\ r \in Plan
    BY <1>8 DEF Calm, Alike, Leads
  <2>3. TakeFree(m, at) = IF r.ok
                          THEN [r EXCEPT
                        !.base.firstFree = IF @ = at THEN f.next ELSE @,
                        !.base.lastFree = IF @ = at THEN f.prev ELSE @,
                        !.pool = Selected(@, ToSet(@) \ {at}),
                        !.at = at,
                        !.room = f.room]
                          ELSE r
    BY <2>1 DEF TakeFree, Then
  <2> HIDE DEF r, f
  <2>4. m2 = [r EXCEPT
                        !.base.firstFree = IF @ = at THEN f.next ELSE @,
                        !.base.lastFree = IF @ = at THEN f.prev ELSE @,
                        !.pool = Selected(@, ToSet(@) \ {at}),
                        !.at = at,
                        !.room = f.room]
    BY <2>2 DEF Plan, Header
  <2> QED
    BY <2>2, <2>3, <2>4
<1>10. /\ base2 \in Header
       /\ base2.count = m.base.count /\ base2.nextUid = m.base.nextUid
       /\ base2.endFrame = m.base.endFrame
       /\ base2.firstFrame = m.base.firstFrame
       /\ base2.lastFrame = m.base.lastFrame
       /\ base2.firstFree = IF m.base.firstFree = at THEN f.next
                            ELSE m.base.firstFree
       /\ base2.lastFree = IF m.base.lastFree = at THEN f.prev
                           ELSE m.base.lastFree
  <2> HIDE DEF f
  <2> QED
    BY <1>2, <1>6 DEF Header
<1>11. /\ pool2 \in Seq(Nat) /\ ToSet(pool2) = ToSet(m.pool) \ {at}
  <2>1. m.pool \in Seq(Nat)
    BY <1>2 DEF Plan
  <2>2. /\ Selected(m.pool, ToSet(m.pool) \ {at}) \in Seq(Nat)
        /\ ToSet(Selected(m.pool, ToSet(m.pool) \ {at}))
                = ToSet(m.pool) \cap (ToSet(m.pool) \ {at})
    BY <2>1, SelectedHolds
  <2> QED
    BY <2>2
<1> HIDE DEF base2, pool2
<1>12. /\ m2 \in Plan /\ m2.base = base2 /\ m2.pool = pool2 /\ m2.at = at
       /\ m2.room = f.room /\ m2.index = m.index /\ m2.full = m.full /\ m2.ok
       /\ m2.frames = fs2 /\ m2.todo = r.todo
  <2> HIDE DEF r, f, fs2
  <2>1. /\ r \in Plan /\ r.ok /\ r.index = m.index /\ r.full = m.full
        /\ r.frames = fs2
    BY <1>8 DEF Calm, Alike, Leads
  <2>2. f.room \in 0 .. MaxRoom
    BY <1>5
  <2>3. at \in Nat
    BY <1>5, BoundsAssumption
  <2> QED
    BY <1>10, <1>11, <2>1, <2>2, <2>3 DEF Plan
<1>13. Leads(g, m2, h, x)
  <2> HIDE DEF r, m2, f, fs2
  <2> QED
    BY <1>8, <1>12 DEF Calm, Leads
<1> DEFINE c2 == Dropped(c, k)
<1> HIDE DEF m2, r
<1>14. DropLinks(m.frames, fs2, c, k)
  <2>1. SUFFICES ASSUME NEW i \in DOMAIN c, i # k
        PROVE  /\ fs2[c[i]].type = m.frames[c[i]].type
               /\ fs2[c[i]].prev = IF i = k + 1 THEN f.prev
                                   ELSE m.frames[c[i]].prev
               /\ fs2[c[i]].next = IF i = k - 1 THEN f.next
                                   ELSE m.frames[c[i]].next
    BY <1>1 DEF DropLinks
  <2>2. c[i] \in 1 .. MaxFrame
    BY <1>4
  <2>3. /\ c[i] = f.prev <=> i = k - 1
        /\ c[i] = f.next <=> i = k + 1
    <3>1. c[i] # 0 /\ i \in Nat /\ k \in Nat
      BY <1>3, <1>4
    <3> QED
      BY <1>3, <1>5, <2>1, <3>1 DEF At, OneToOne
  <2> HIDE DEF f, fs2
  <2> QED
    BY <1>7, <2>2, <2>3 DEF OnlyLinked
<1>15. /\ Chain(fs2, c2, "free") /\ OneToOne(c2) /\ c2 \in Seq(Nat)
       /\ ToSet(c2) = ToSet(c) \ {at}
       /\ Bounds(c2, IF k = 1 THEN f.next ELSE c[1],
                 IF k = Len(c) THEN f.prev ELSE c[Len(c)])
  <2>1. k \in 1 .. Len(c)
    BY <1>3
  <2>2. m.frames[c[k]] = f
    BY <1>1
  <2> HIDE DEF fs2, c2, f
  <2>3. /\ Chain(fs2, Dropped(c, k), "free")
        /\ OneToOne(Dropped(c, k))
        /\ Dropped(c, k) \in Seq(Nat)
        /\ ToSet(Dropped(c, k)) = ToSet(c) \ {c[k]}
        /\ Bounds(Dropped(c, k), IF k = 1 THEN m.frames[c[k]].next ELSE c[1],
                 IF k = Len(c) THEN m.frames[c[k]].prev ELSE c[Len(c)])
    BY <1>3, <1>14, <2>1, ChainDrop
  <2> QED
    BY <1>1, <2>2, <2>3 DEF c2
<1>16. Bounds(c2, base2.firstFree, base2.lastFree)
  <2>1. k \in 1 .. Len(c) /\ Len(c) \in Nat /\ DOMAIN c = 1 .. Len(c)
    BY <1>3
  <2>2. m.base.firstFree = c[1] /\ m.base.lastFree = c[Len(c)]
    BY <1>3, <2>1 DEF Bounds, At
  <2>3. /\ c[1] = at <=> k = 1
        /\ c[Len(c)] = at <=> k = Len(c)
    BY <1>1, <1>3, <2>1 DEF OneToOne
  <2> QED
    BY <1>10, <1>15, <2>2, <2>3 DEF Bounds
<1>17. \A o \in ToSet(u) : fs2[o] = m.frames[o]
  <2>1. SUFFICES ASSUME NEW o \in ToSet(u) PROVE fs2[o] = m.frames[o]
    OBVIOUS
  <2>2. o \in 1 .. MaxFrame /\ o # 0 /\ o \notin ToSet(c)
    BY <1>3, <1>4
  <2>3. o # f.prev /\ o # f.next
    BY <1>4, <1>5, <2>2
  <2> HIDE DEF f, fs2
  <2>4. /\ fs2[o].type = m.frames[o].type /\ fs2[o].msg = m.frames[o].msg
        /\ fs2[o].room = m.frames[o].room /\ fs2[o].next = m.frames[o].next
        /\ fs2[o].prev = m.frames[o].prev
    BY <1>7, <2>2, <2>3 DEF OnlyLinked
  <2>5. fs2[o] \in Frame /\ m.frames[o] \in Frame
    BY <1>2, <1>7, <2>2
  <2> QED
    BY <2>4, <2>5, SameFrame
<1>18. Parted(e, u, c2, {at})
  BY <1>3, <1>15 DEF Parted
<1>19. Chain(fs2, u, "normal") /\ Lettered(fs2, m.index)
  BY <1>2, <1>3, <1>17, SameUsed DEF u
<1>20. Arranged(m2.base, m2.frames, m2.index, c2, {m2.at})
  <2> HIDE DEF c2, fs2, f
  <2> QED
    BY <1>2, <1>3, <1>7, <1>10, <1>12, <1>15, <1>16, <1>18, <1>19
    DEF Arranged, u, e
<1>21. View(DiskOf(h, m2.frames, x)) = View(DiskOf(h, m.frames, x))
  BY <1>8, <1>12 DEF Calm
<1>22. ToSet(m2.pool) \subseteq ToSet(c2)
  BY <1>11, <1>12, <1>15
<1> HIDE DEF c2, fs2, f
<1>23. Placed(g, m, m2, h, x, c2)
  BY <1>10, <1>12, <1>13, <1>17, <1>20, <1>21, <1>22 DEF Placed, u
<1> QED
  BY <1>9, <1>12, <1>23 DEF f

(***************************************************************************)
(* The free chain read, and a frame taken                                  *)
(***************************************************************************)

\* The chain scanFreeChain() walks is the one the frames make.
FollowsFree(m, at) ==
    at = [k \in 1 .. MaxFrame + 2 |->
            IF k = 1 THEN m.base.firstFree
            ELSE IF Readable(m, at[k - 1]) THEN m.frames[at[k - 1]].next
            ELSE 0]

LEMMA FollowsStep ==
    ASSUME NEW m, NEW at, FollowsFree(m, at)
    PROVE  /\ DOMAIN at = 1 .. MaxFrame + 2
           /\ at[1] = m.base.firstFree
           /\ \A k \in 2 .. MaxFrame + 2 :
                at[k] = IF Readable(m, at[k - 1]) THEN m.frames[at[k - 1]].next
                        ELSE 0
<1> DEFINE F(k) == IF k = 1 THEN m.base.firstFree
                   ELSE IF Readable(m, at[k - 1]) THEN m.frames[at[k - 1]].next
                   ELSE 0
<1>1. at = [k \in 1 .. MaxFrame + 2 |-> F(k)]
  BY DEF FollowsFree
<1>2. DOMAIN at = 1 .. MaxFrame + 2 /\ \A k \in 1 .. MaxFrame + 2 : at[k] = F(k)
  <2> HIDE DEF F
  <2> QED
    BY <1>1
<1>3. /\ 1 \in 1 .. MaxFrame + 2
      /\ \A k \in 2 .. MaxFrame + 2 : k \in 1 .. MaxFrame + 2 /\ k # 1
  BY BoundsAssumption
<1> QED
  BY <1>2, <1>3

\* From one frame of a chain to the next.
LEMMA NextInChain ==
    ASSUME NEW m, NEW c, NEW X,
           Arranged(m.base, m.frames, m.index, c, X), NEW k \in Nat \ {0}
    PROVE  At(c, k + 1) = IF Readable(m, At(c, k)) THEN m.frames[At(c, k)].next
                          ELSE 0
<1>1. c \in Seq(Nat) /\ Chain(m.frames, c, "free")
  BY DEF Arranged
<1>2. CASE k \in DOMAIN c
  <2>1. At(c, k) = c[k] /\ m.frames[c[k]].next = At(c, k + 1)
    BY <1>1, <1>2 DEF At, Chain
  <2>2. Linkable(m, At(c, k))
    BY Reads
  <2>3. At(c, k) # 0
    <3>1. /\ m.base.endFrame \in 1 .. MaxFrame + 1 /\ Offs(m.index) \in Seq(Nat)
          /\ Parted(m.base.endFrame, Offs(m.index), c, X)
      BY OffsHolds DEF Arranged
    <3> QED
      BY <1>1, <1>2, <3>1, InChain
  <2> QED
    BY <2>1, <2>2, <2>3 DEF Linkable
<1>3. CASE k \notin DOMAIN c
  <2>1. k + 1 \notin DOMAIN c
    BY <1>1, <1>3
  <2>2. At(c, k) = 0 /\ At(c, k + 1) = 0
    BY <1>3, <2>1 DEF At
  <2> QED
    BY <2>2, BoundsAssumption DEF Readable
<1> QED
  BY <1>2, <1>3

LEMMA FreeChainHolds ==
    ASSUME NEW m, NEW c, NEW X,
           Arranged(m.base, m.frames, m.index, c, X)
    PROVE  /\ DOMAIN FreeChain(m) = 1 .. MaxFrame + 2
           /\ \A k \in 1 .. MaxFrame + 2 : FreeChain(m)[k] = At(c, k)
<1> DEFINE G == [k \in 1 .. MaxFrame + 2 |-> At(c, k)]
           U == CHOOSE at : FollowsFree(m, at)
           M == MaxFrame + 2
<1>1. MaxFrame \in Nat /\ M \in Nat
  BY BoundsAssumption
<1>2. m.base.firstFree = At(c, 1)
  BY DEF Arranged, Bounds
<1>3. \A k \in 2 .. M :
            /\ k - 1 \in 1 .. M /\ k - 1 \in Nat \ {0} /\ (k - 1) + 1 = k
  BY <1>1
<1>4. \A k \in 2 .. M :
        At(c, k) = IF Readable(m, At(c, k - 1)) THEN m.frames[At(c, k - 1)].next
                   ELSE 0
  <2>1. SUFFICES ASSUME NEW k \in 2 .. M
                 PROVE  At(c, k) = IF Readable(m, At(c, k - 1))
                                   THEN m.frames[At(c, k - 1)].next ELSE 0
    OBVIOUS
  <2>2. k - 1 \in Nat \ {0} /\ (k - 1) + 1 = k
    BY <1>3
  <2>3. At(c, (k - 1) + 1)
            = IF Readable(m, At(c, k - 1)) THEN m.frames[At(c, k - 1)].next
              ELSE 0
    BY <2>2, NextInChain
  <2> QED
    BY <2>2, <2>3
<1>5. FollowsFree(m, G)
  <2>1. ASSUME NEW k \in 1 .. M
        PROVE  G[k] = IF k = 1 THEN m.base.firstFree
                      ELSE IF Readable(m, G[k - 1])
                           THEN m.frames[G[k - 1]].next
                      ELSE 0
    <3>1. CASE k = 1
      BY <1>2, <3>1
    <3>2. CASE k # 1
      <4>1. k \in 2 .. M
        BY <1>1, <3>2
      <4>2. G[k - 1] = At(c, k - 1) /\ G[k] = At(c, k)
        BY <1>3, <4>1
      <4> QED
        BY <1>4, <3>2, <4>1, <4>2
    <3> QED
      BY <3>1, <3>2
  <2>2. G = [k \in 1 .. M |-> G[k]]
    OBVIOUS
  <2> HIDE DEF G
  <2> QED
    BY <2>1, <2>2 DEF FollowsFree
<1>6. FollowsFree(m, U)
  <2> HIDE DEF G
  <2> QED
    BY <1>5
<1>7. FreeChain(m) = U
  BY DEF FreeChain, FollowsFree
<1> HIDE DEF U
<1>8. /\ DOMAIN U = 1 .. M /\ U[1] = m.base.firstFree
      /\ \A k \in 2 .. M :
            U[k] = IF Readable(m, U[k - 1]) THEN m.frames[U[k - 1]].next ELSE 0
  BY <1>6, FollowsStep
<1> DEFINE T == {k \in 1 .. M : U[k] # At(c, k)}
<1>9. T = {}
  <2>1. SUFFICES ASSUME T # {} PROVE FALSE
    OBVIOUS
  <2>2. PICK n \in T : \A k \in T : n <= k
    <3>1. T \in SUBSET Nat
      BY <1>1
    <3> HIDE DEF T
    <3> QED
      BY <2>1, <3>1, LeastNumber
  <2>3. CASE n = 1
    BY <1>2, <1>8, <2>2, <2>3
  <2>4. CASE n # 1
    <3>1. n \in 2 .. M /\ n - 1 \in 1 .. M /\ ~ (n <= n - 1)
      BY <1>1, <2>2, <2>4
    <3>2. U[n - 1] = At(c, n - 1)
      BY <2>2, <3>1
    <3> QED
      BY <1>4, <1>8, <2>2, <3>1, <3>2
  <2> QED
    BY <2>3, <2>4
<1> QED
  BY <1>7, <1>8, <1>9

\* scanFreeChain() refuses nothing: it reads the start of the chain, or all
\* of it.
Scanned(m, m2, c) ==
    \/ m2 = [m EXCEPT !.pool = c, !.complete = TRUE]
    \/ \E p \in Seq(Nat) : /\ ToSet(p) \subseteq ToSet(c)
                           /\ m2 = [m EXCEPT !.pool = p]

LEMMA ChainFits ==
    ASSUME NEW e \in 1 .. MaxFrame + 1, NEW u \in Seq(Nat), NEW c \in Seq(Nat),
           NEW X, Parted(e, u, c, X)
    PROVE  /\ Len(c) \in 0 .. MaxFrame /\ Len(u) + Len(c) <= e - 1
           /\ X = {} => Len(u) + Len(c) = e - 1
<1>1. /\ ToSet(u) \subseteq 1 .. e - 1 /\ ToSet(c) \subseteq 1 .. e - 1
      /\ X = {} => 1 .. e - 1 \subseteq ToSet(u) \cup ToSet(c)
      /\ OneToOne(u) /\ OneToOne(c) /\ ToSet(u) \cap ToSet(c) = {}
  BY DEF Parted
<1>2. e - 1 \in Nat /\ e - 1 <= MaxFrame /\ MaxFrame \in Nat
  BY BoundsAssumption
<1>3. u \in Seq(1 .. e - 1) /\ c \in Seq(1 .. e - 1)
  <2> DEFINE n == e - 1
  <2>1. /\ \A i \in DOMAIN u : u[i] \in 1 .. n
        /\ \A i \in DOMAIN c : c[i] \in 1 .. n
    BY <1>1 DEF ToSet
  <2> HIDE DEF n
  <2>2. u \in Seq(1 .. n) /\ c \in Seq(1 .. n)
    BY <2>1, SeqNarrow
  <2> QED
    BY <2>2 DEF n
<1>4. Apart(u, c)
  BY <1>1 DEF Apart, ToSet
<1>5. /\ Len(u) + Len(c) <= e - 1
      /\ X = {} => Len(u) + Len(c) = e - 1
  <2> DEFINE n == e - 1
  <2>1. /\ n \in Nat /\ u \in Seq(1 .. n) /\ c \in Seq(1 .. n)
        /\ X = {} => 1 .. n \subseteq ToSet(u) \cup ToSet(c)
    BY <1>1, <1>2, <1>3
  <2> HIDE DEF n
  <2>2. /\ Len(u) + Len(c) <= n
        /\ 1 .. n \subseteq ToSet(u) \cup ToSet(c) => Len(u) + Len(c) = n
    BY <1>1, <1>4, <2>1, SharedOut
  <2> QED
    BY <2>1, <2>2 DEF n
<1>6. Len(u) \in Nat /\ Len(c) \in Nat
  OBVIOUS
<1> QED
  BY <1>2, <1>5, <1>6

LEMMA ScanHolds ==
    ASSUME NEW m \in Plan, NEW c, NEW X,
           Arranged(m.base, m.frames, m.index, c, X), NEW length \in Nat
    PROVE  /\ Scanned(m, ScanFreeChain(m, length), c)
           /\ length > MaxRoom => ScanFreeChain(m, length)
                                    = [m EXCEPT !.pool = c, !.complete = TRUE]
<1> DEFINE A == FreeChain(m)
           K == {k \in DOMAIN A : \/ A[k] = 0
                                  \/ BrokenAt(m, A, k)
                                  \/ Fits(m.frames[A[k]].room, length)}
           stop == Min(K)
<1>1. PICK n \in Nat : n = Len(c)
  BY DEF Arranged
<1>2. /\ m.base.endFrame \in 1 .. MaxFrame + 1 /\ Offs(m.index) \in Seq(Nat)
      /\ c \in Seq(Nat) /\ Parted(m.base.endFrame, Offs(m.index), c, X)
      /\ Chain(m.frames, c, "free") /\ OneToOne(c) /\ DOMAIN c = 1 .. n
      /\ Bounds(c, m.base.firstFree, m.base.lastFree)
      /\ m.frames \in [1 .. MaxFrame -> Frame]
  BY <1>1, OffsHolds DEF Arranged, Parted
<1>3. n <= MaxFrame /\ MaxFrame \in Nat
  BY <1>1, <1>2, ChainFits, BoundsAssumption
<1>4. DOMAIN A = 1 .. MaxFrame + 2 /\ \A k \in 1 .. MaxFrame + 2 : A[k] = At(c, k)
  BY FreeChainHolds
<1>5. \A k \in 1 .. n : /\ A[k] = c[k] /\ c[k] # 0 /\ c[k] \in 1 .. MaxFrame
                        /\ Readable(m, c[k])
  <2>1. SUFFICES ASSUME NEW k \in 1 .. n
                 PROVE  /\ A[k] = c[k] /\ c[k] # 0 /\ c[k] \in 1 .. MaxFrame
                        /\ Readable(m, c[k])
    OBVIOUS
  <2>2. k \in 1 .. MaxFrame + 2 /\ k \in DOMAIN c /\ At(c, k) = c[k]
    BY <1>2, <1>3 DEF At
  <2>3. At(c, k) # 0 /\ c[k] \in ToSet(c)
    BY <1>2, <2>2, InChain
  <2>4. c[k] \in 1 .. MaxFrame
    BY <1>2, <2>3, InChain
  <2>5. Linkable(m, At(c, k))
    BY Reads
  <2> QED
    BY <1>4, <2>2, <2>3, <2>4, <2>5 DEF Linkable
<1>6. A[n + 1] = 0 /\ n + 1 \in K
  <2>1. n + 1 \in 1 .. MaxFrame + 2 /\ n + 1 \notin DOMAIN c
    BY <1>2, <1>3
  <2>2. A[n + 1] = 0
    BY <1>4, <2>1 DEF At
  <2> QED
    BY <1>4, <2>1, <2>2
<1> HIDE DEF A
<1>7. ASSUME NEW k \in 1 .. n PROVE ~ BrokenAt(m, A, k)
  <2>1. /\ m.frames[c[k]].type = "free"
        /\ m.frames[c[k]].prev = At(c, k - 1)
        /\ m.frames[c[k]].next = At(c, k + 1)
    BY <1>2 DEF Chain
  <2>2. At(c, k - 1) = IF k = 1 THEN 0 ELSE A[k - 1]
    <3>1. CASE k = 1
      BY <1>2, <3>1 DEF At
    <3>2. CASE k # 1
      <4>1. k - 1 \in 1 .. n
        BY <3>2
      <4> QED
        BY <1>2, <1>5, <3>2, <4>1 DEF At
    <3> QED
      BY <3>1, <3>2
  <2>3. At(c, k + 1) # c[k]
    <3>1. CASE k + 1 \in 1 .. n
      <4>1. k \in DOMAIN c /\ k + 1 \in DOMAIN c /\ k + 1 # k
        BY <1>2, <3>1
      <4>2. c[k + 1] # c[k]
        BY <1>2, <4>1 DEF OneToOne
      <4> QED
        BY <4>1, <4>2 DEF At
    <3>2. CASE k + 1 \notin 1 .. n
      BY <1>2, <1>5, <3>2 DEF At
    <3> QED
      BY <3>1, <3>2
  <2>4. \A j \in 1 .. k - 1 : A[j] # A[k]
    <3>1. SUFFICES ASSUME NEW j \in 1 .. k - 1 PROVE A[j] # A[k]
      OBVIOUS
    <3>2. j \in 1 .. n /\ j # k
      OBVIOUS
    <3> QED
      BY <1>2, <1>5, <3>2 DEF OneToOne
  <2> QED
    BY <1>5, <2>1, <2>2, <2>3, <2>4 DEF BrokenAt
<1>8. stop \in K /\ stop \in 1 .. n + 1 /\ \A k \in K : stop <= k
  <2>1. K \in SUBSET Nat
    BY <1>3, <1>4
  <2> HIDE DEF K
  <2>2. stop \in K /\ \A k \in K : stop <= k
    BY <1>6, <2>1, MinHolds
  <2>3. stop \in 1 .. MaxFrame + 2
    BY <1>4, <2>2 DEF K
  <2> QED
    BY <1>3, <1>6, <2>2, <2>3
<1>9. ScanFreeChain(m, length)
        = IF A[stop] # 0
          THEN IF BrokenAt(m, A, stop) THEN Refuse(m)
               ELSE [m EXCEPT !.pool = [k \in 1 .. stop |-> A[k]]]
          ELSE IF /\ m.base.firstFree # 0
                  /\ m.base.lastFree # IF stop = 1 THEN 0 ELSE A[stop - 1]
               THEN Refuse(m)
               ELSE [m EXCEPT !.pool = [k \in 1 .. stop - 1 |-> A[k]],
                              !.complete = TRUE]
  BY DEF ScanFreeChain, A
<1> HIDE DEF K, stop
<1>10. CASE stop \in 1 .. n
  <2>1. A[stop] # 0 /\ ~ BrokenAt(m, A, stop)
    BY <1>5, <1>7, <1>10
  <2> DEFINE p == [k \in 1 .. stop |-> A[k]]
  <2>2. ScanFreeChain(m, length) = [m EXCEPT !.pool = p]
    BY <1>9, <2>1
  <2>3. p \in Seq(Nat) /\ ToSet(p) \subseteq ToSet(c)
    <3>1. \A k \in 1 .. stop : k \in 1 .. n
      BY <1>10
    <3>2. \A k \in 1 .. n : c[k] \in Nat /\ c[k] \in ToSet(c)
      BY <1>2 DEF ToSet
    <3>6. \A k \in 1 .. stop : A[k] = c[k] /\ c[k] \in Nat /\ c[k] \in ToSet(c)
      BY <1>5, <3>1, <3>2
    <3>3. stop \in Nat
      BY <1>10
    <3>4. p \in Seq(Nat)
      BY <3>6, <3>3
    <3>5. DOMAIN p = 1 .. stop
      OBVIOUS
    <3> QED
      BY <3>6, <3>4, <3>5 DEF ToSet
  <2>4. ~ (length > MaxRoom)
    <3>1. Fits(m.frames[A[stop]].room, length)
      BY <1>8, <2>1 DEF K
    <3>2. m.frames[A[stop]] \in Frame
      BY <1>2, <1>5, <1>10
    <3>3. m.frames[A[stop]].room \in 0 .. MaxRoom
      BY <3>2 DEF Frame
    <3> QED
      BY <3>1, <3>3, RoomAssumption DEF Fits
  <2> HIDE DEF p
  <2> QED
    BY <2>2, <2>3, <2>4 DEF Scanned
<1>11. CASE stop = n + 1
  <2>1. A[stop] = 0
    BY <1>6, <1>11
  <2>2. m.base.firstFree = 0
        \/ m.base.lastFree = IF stop = 1 THEN 0 ELSE A[stop - 1]
    <3>1. CASE n = 0
      BY <1>2, <3>1 DEF Bounds, At
    <3>2. CASE n # 0
      <4>1. n \in 1 .. n /\ stop # 1 /\ stop - 1 = n
        BY <1>11, <3>2
      <4> QED
        BY <1>1, <1>2, <1>5, <4>1 DEF Bounds, At
    <3> QED
      BY <3>1, <3>2
  <2> DEFINE p == [k \in 1 .. stop - 1 |-> A[k]]
  <2>3. ScanFreeChain(m, length) = [m EXCEPT !.pool = p, !.complete = TRUE]
    BY <1>9, <2>1, <2>2
  <2>4. p = c
    <3>1. stop - 1 = n
      BY <1>11
    <3>2. p = [k \in 1 .. n |-> c[k]]
      BY <1>5, <3>1
    <3>3. c \in [1 .. n -> Nat]
      BY <1>1, <1>2, LenProperties
    <3>4. c = [k \in 1 .. n |-> c[k]]
      BY <3>3
    <3> QED
      BY <3>2, <3>4
  <2> QED
    BY <2>3, <2>4 DEF Scanned
<1> QED
  BY <1>8, <1>10, <1>11

\* What is in memory does not matter to the disk.
LEMMA LeadsOther ==
    ASSUME NEW g, NEW m, NEW h, NEW x, Leads(g, m, h, x), NEW m2 \in Plan,
           m2.todo = m.todo, m2.frames = m.frames
    PROVE  Leads(g, m2, h, x)
BY DEF Leads

LEMMA ScanLeads ==
    ASSUME NEW g, NEW m, NEW h, NEW x, Leads(g, m, h, x), NEW c,
           Arranged(m.base, m.frames, m.index, c, {}),
           NEW m2, Scanned(m, m2, c)
    PROVE  /\ Leads(g, m2, h, x) /\ m2.ok = m.ok
           /\ m2.base = m.base /\ m2.index = m.index /\ m2.frames = m.frames
           /\ m2.full = m.full /\ ToSet(m2.pool) \subseteq ToSet(c)
<1>1. m \in Plan /\ c \in Seq(Nat)
  BY DEF Leads, Arranged
<1>2. /\ m2 \in Plan /\ m2.ok = m.ok /\ m2.todo = m.todo
      /\ m2.base = m.base /\ m2.index = m.index /\ m2.frames = m.frames
      /\ m2.full = m.full /\ ToSet(m2.pool) \subseteq ToSet(c)
  <2>1. CASE m2 = [m EXCEPT !.pool = c, !.complete = TRUE]
    BY <1>1, <2>1 DEF Plan
  <2>2. ASSUME NEW p \in Seq(Nat), ToSet(p) \subseteq ToSet(c),
               m2 = [m EXCEPT !.pool = p]
        PROVE  /\ m2 \in Plan /\ m2.ok = m.ok /\ m2.todo = m.todo
               /\ m2.base = m.base /\ m2.index = m.index
               /\ m2.frames = m.frames /\ m2.full = m.full
               /\ ToSet(m2.pool) \subseteq ToSet(c)
    BY <1>1, <2>2 DEF Plan
  <2> QED
    BY <2>1, <2>2 DEF Scanned
<1> QED
  BY <1>2, LeadsOther

\* A frame at the end of the file.
NewFrame(m, length) == [m EXCEPT !.at = m.base.endFrame, !.room = length,
                                 !.base.endFrame = @ + 1]

LEMMA NewFrameHolds ==
    ASSUME NEW g, NEW m, NEW h, NEW x, Leads(g, m, h, x), m.ok, NEW c,
           Arranged(m.base, m.frames, m.index, c, {}),
           ToSet(m.pool) \subseteq ToSet(c), NEW length \in 0 .. MaxRoom,
           m.base.endFrame <= MaxFrame, NEW m2,
           m2 = NewFrame(m, length)
    PROVE  Placed(g, m, m2, h, x, c) /\ m2.room = length
<1> DEFINE e == m.base.endFrame
           base2 == [m.base EXCEPT !.endFrame = e + 1]
<1>1. /\ m \in Plan /\ m.base \in Header
  BY LeadsTyped
<1>2. e \in 1 .. MaxFrame + 1 /\ e <= MaxFrame /\ MaxFrame \in Nat
  BY BoundsAssumption DEF Arranged
<1>3. /\ base2 \in Header /\ base2.endFrame = e + 1
      /\ base2.count = m.base.count /\ base2.nextUid = m.base.nextUid
      /\ base2.firstFrame = m.base.firstFrame
      /\ base2.lastFrame = m.base.lastFrame
      /\ base2.firstFree = m.base.firstFree
      /\ base2.lastFree = m.base.lastFree
  <2>1. e + 1 \in Nat
    BY <1>2
  <2> HIDE DEF e
  <2> QED
    BY <1>1, <2>1 DEF Header
<1>4. m2 = [m EXCEPT !.at = e, !.room = length, !.base = base2]
  BY <1>1 DEF Plan, NewFrame
<1> HIDE DEF base2
<1>5. /\ m2 \in Plan /\ m2.at = e /\ m2.room = length /\ m2.base = base2
      /\ m2.todo = m.todo /\ m2.frames = m.frames /\ m2.index = m.index
      /\ m2.ok = m.ok /\ m2.full = m.full /\ m2.pool = m.pool
  <2>1. e \in Nat
    BY <1>2
  <2> HIDE DEF e
  <2> QED
    BY <1>1, <1>3, <1>4, <2>1 DEF Plan
<1>6. Leads(g, m2, h, x)
  BY <1>5, LeadsOther
<1>7. ASSUME NEW u, Parted(e, u, c, {})
      PROVE  Parted(e + 1, u, c, {e})
  <2>1. 1 .. (e + 1) - 1 = (1 .. e - 1) \cup {e} /\ e \notin 1 .. e - 1
    BY <1>2
  <2> HIDE DEF e
  <2> QED
    BY <1>7, <2>1 DEF Parted
<1>8. base2.endFrame \in 1 .. MaxFrame + 1
  BY <1>2, <1>3
<1>9. Arranged(m2.base, m2.frames, m2.index, c, {m2.at})
  <2> HIDE DEF e
  <2> QED
    BY <1>3, <1>5, <1>7, <1>8 DEF Arranged, e
<1> HIDE DEF e
<1> QED
  BY <1>3, <1>5, <1>6, <1>9 DEF Placed

\* What allocateFrame() takes is one of the free frames it has read.
LEMMA BestHolds ==
    ASSUME NEW r, r.frames \in [1 .. MaxFrame -> Frame], NEW fits \in Seq(Nat),
           fits # <<>>, ToSet(fits) \subseteq 1 .. MaxFrame
    PROVE  BestOf(r, fits) \in ToSet(fits)
<1> DEFINE R == {r.frames[p].room : p \in ToSet(fits)}
           B == {o \in ToSet(fits) : r.frames[o].room = Min(R)}
           s == Selected(fits, B)
<1>1. \A p \in ToSet(fits) : r.frames[p].room \in Nat
  <2>1. \A p \in ToSet(fits) : r.frames[p] \in Frame
    OBVIOUS
  <2>2. \A fr \in Frame : fr.room \in Nat
    BY RoomAssumption DEF Frame
  <2> QED
    BY <2>1, <2>2
<1>2. ToSet(fits) # {}
  BY ToSetIn
<1>3. R \in SUBSET Nat /\ R # {}
  BY <1>1, <1>2
<1>4. Min(R) \in R
  <2> HIDE DEF R
  <2> QED
    BY <1>3, MinHolds
<1>5. B # {}
  BY <1>4
<1>6. s \in Seq(Nat) /\ ToSet(s) = ToSet(fits) \cap B
  BY SelectedHolds
<1>7. s # <<>>
  <2>1. ToSet(s) # {}
    BY <1>5, <1>6
  <2> HIDE DEF s
  <2> QED
    BY <1>6, <2>1, ToSetIn
<1>8. s[1] \in ToSet(s)
  <2> HIDE DEF s
  <2> QED
    BY <1>6, <1>7 DEF ToSet
<1> QED
  BY <1>6, <1>8 DEF BestOf

\* allocateFrame() once it has read the free chain.
Fitting(r, length) ==
    Selected(r.pool, {o \in ToSet(r.pool) : Fits(r.frames[o].room, length)})

Chosen(r, length) ==
    IF Fitting(r, length) # <<>> THEN TakeFree(r, BestOf(r, Fitting(r, length)))
    ELSE IF r.base.endFrame > scope.frames THEN [r EXCEPT !.full = TRUE]
    ELSE NewFrame(r, length)

LEMMA AllocateIs ==
    ASSUME NEW m, NEW length
    PROVE  AllocateFrame(m, length)
                = Then(IF m.complete THEN m ELSE ScanFreeChain(m, length),
                       LAMBDA r : Chosen(r, length))
BY DEF AllocateFrame, Chosen, Fitting, NewFrame

LEMMA AllocateChooses ==
    ASSUME NEW m, NEW length, NEW r,
           r = IF m.complete THEN m ELSE ScanFreeChain(m, length), r.ok
    PROVE  AllocateFrame(m, length) = Chosen(r, length)
<1>1. AllocateFrame(m, length) = Then(r, LAMBDA q : Chosen(q, length))
  BY AllocateIs
<1> QED
  BY <1>1 DEF Then

\* allocateFrame() answers a frame as long as it was asked for, out of both
\* chains, or the scope has no more file.
Stuck(m) == "full" \in DOMAIN m /\ m.full

Allocated(g, m, m2, h, x, length) ==
    \/ Stuck(m2)
    \/ /\ \E c2 : Placed(g, m, m2, h, x, c2)
       /\ m2.room >= length

LEMMA AllocateHolds ==
    ASSUME scope \in Scopes, NEW g, NEW m, NEW h, NEW x, Leads(g, m, h, x), m.ok,
           Halfway(g, m, h, x), NEW c,
           Arranged(m.base, m.frames, m.index, c, {}),
           ToSet(m.pool) \subseteq ToSet(c), NEW length \in 0 .. MaxRoom
    PROVE  Allocated(g, m, AllocateFrame(m, length), h, x, length)
<1> DEFINE r == IF m.complete THEN m ELSE ScanFreeChain(m, length)
           fits == Fitting(r, length)
           m2 == AllocateFrame(m, length)
<1>1. /\ m \in Plan /\ length \in Nat
  BY LeadsTyped, RoomAssumption
<1>2. /\ Leads(g, r, h, x) /\ r.ok
      /\ r.base = m.base /\ r.index = m.index /\ r.frames = m.frames
      /\ r.full = m.full /\ ToSet(r.pool) \subseteq ToSet(c)
  <2>1. CASE m.complete
    BY <2>1
  <2>2. CASE ~ m.complete
    <3>1. Scanned(m, ScanFreeChain(m, length), c)
      BY <1>1, ScanHolds
    <3>2. Scanned(m, r, c)
      BY <2>2, <3>1
    <3> HIDE DEF r
    <3> QED
      BY <3>2, ScanLeads
  <2> QED
    BY <2>1, <2>2
<1> HIDE DEF r
<1>3. m2 = IF fits # <<>> THEN TakeFree(r, BestOf(r, fits))
           ELSE IF r.base.endFrame > scope.frames THEN [r EXCEPT !.full = TRUE]
           ELSE NewFrame(r, length)
  <2>1. m2 = Chosen(r, length)
    BY <1>2, AllocateChooses DEF r
  <2> QED
    BY <2>1 DEF Chosen
<1> HIDE DEF m2
<1>4. /\ r \in Plan /\ r.pool \in Seq(Nat)
      /\ r.frames \in [1 .. MaxFrame -> Frame]
  BY <1>2, LeadsTyped DEF Plan
<1>5. /\ fits \in Seq(Nat)
      /\ ToSet(fits) = ToSet(r.pool) \cap {o \in ToSet(r.pool) :
                                        Fits(r.frames[o].room, length)}
  BY <1>4, SelectedHolds DEF Fitting
<1> HIDE DEF fits
<1>6. /\ Halfway(g, r, h, x)
      /\ Arranged(r.base, r.frames, r.index, c, {})
  BY <1>2 DEF Halfway
<1>7. ASSUME NEW c2, NEW q, Placed(g, r, q, h, x, c2)
      PROVE  Placed(g, m, q, h, x, c2)
  BY <1>2, <1>7 DEF Placed
<1>8. \A o \in ToSet(c) : o \in 1 .. MaxFrame
  <2>1. /\ m.base.endFrame \in 1 .. MaxFrame + 1 /\ Offs(m.index) \in Seq(Nat)
        /\ c \in Seq(Nat) /\ Parted(m.base.endFrame, Offs(m.index), c, {})
    BY OffsHolds DEF Arranged
  <2> QED
    BY <2>1, InChain
<1>9. CASE fits # <<>>
  <2> DEFINE at == BestOf(r, fits)
  <2>1. at \in ToSet(fits)
    BY <1>2, <1>4, <1>5, <1>8, <1>9, BestHolds
  <2>2. at \in ToSet(c) /\ Fits(r.frames[at].room, length)
    BY <1>2, <1>5, <2>1
  <2>3. m2 = TakeFree(r, at)
    BY <1>3, <1>9
  <2> HIDE DEF at
  <2>4. /\ \E c2 : Placed(g, r, TakeFree(r, at), h, x, c2)
        /\ TakeFree(r, at).room = r.frames[at].room
    BY <1>2, <1>6, <2>2, TakeFreeHolds
  <2>5. \E c2 : Placed(g, m, m2, h, x, c2)
    BY <1>7, <2>3, <2>4
  <2> QED
    BY <2>2, <2>3, <2>4, <2>5 DEF Allocated, Fits, m2
<1>10. CASE fits = <<>> /\ r.base.endFrame > scope.frames
  <2>1. m2 = [r EXCEPT !.full = TRUE]
    BY <1>3, <1>10
  <2>2. Stuck(m2)
    BY <1>4, <2>1 DEF Plan, Stuck
  <2> QED
    BY <2>2 DEF Allocated, m2
<1>11. CASE fits = <<>> /\ ~ (r.base.endFrame > scope.frames)
  <2>1. m2 = NewFrame(r, length)
    BY <1>3, <1>11
  <2>2. r.base.endFrame <= MaxFrame
    <3>1. scope.frames \in 1 .. MaxFrame
      BY BoundsAssumption
    <3>2. r.base.endFrame \in 1 .. MaxFrame + 1
      BY <1>6 DEF Arranged
    <3> QED
      BY <1>11, <3>1, <3>2, BoundsAssumption
  <2>3. Placed(g, r, m2, h, x, c) /\ m2.room = length
    BY <1>2, <1>6, <2>1, <2>2, NewFrameHolds
  <2>4. Placed(g, m, m2, h, x, c)
    BY <1>7, <2>3
  <2> QED
    BY <1>1, <2>3, <2>4 DEF Allocated, m2
<1> QED
  BY <1>9, <1>10, <1>11

(***************************************************************************)
(* Messages appended                                                       *)
(***************************************************************************)

\* The index extended by one record, and the message chain by its frame.
LEMMA OffsAppend ==
    ASSUME NEW ix \in Seq(Entry), NEW e \in Entry
    PROVE  /\ Append(ix, e) \in Seq(Entry)
           /\ Offs(Append(ix, e)) = Append(Offs(ix), e.offset)
           /\ Len(Append(ix, e)) = Len(ix) + 1
<1>1. e.offset \in Nat
  BY DEF Entry
<1>2. PICK n \in Nat : n = Len(ix)
  OBVIOUS
<1> DEFINE r == Append(ix, e)
<1>3. /\ r \in Seq(Entry) /\ Len(r) = n + 1 /\ DOMAIN r = 1 .. n + 1
      /\ r[n + 1] = e /\ \A i \in 1 .. n : r[i] = ix[i]
      /\ DOMAIN ix = 1 .. n
  BY <1>2
<1> HIDE DEF r
<1>4. /\ Offs(ix) \in Seq(Nat) /\ Len(Offs(ix)) = n
      /\ \A i \in 1 .. n : Offs(ix)[i] = ix[i].offset
  BY <1>2, <1>3, OffsHolds
<1>5. /\ Offs(r) \in Seq(Nat) /\ Len(Offs(r)) = n + 1
      /\ \A i \in 1 .. n + 1 : Offs(r)[i] = r[i].offset
  BY <1>3, OffsHolds
<1> DEFINE u == Append(Offs(ix), e.offset)
<1>6. /\ u \in Seq(Nat) /\ Len(u) = n + 1 /\ u[n + 1] = e.offset
      /\ \A i \in 1 .. n : u[i] = Offs(ix)[i]
  BY <1>1, <1>4
<1> HIDE DEF u
<1>7. \A i \in 1 .. n + 1 : Offs(r)[i] = u[i]
  <2>1. \A i \in 1 .. n + 1 : i = n + 1 \/ i \in 1 .. n
    OBVIOUS
  <2>2. n + 1 \in 1 .. n + 1 /\ \A i \in 1 .. n : i \in 1 .. n + 1
    OBVIOUS
  <2>3. Offs(r)[n + 1] = u[n + 1]
    BY <1>3, <1>5, <1>6, <2>2
  <2>4. ASSUME NEW i \in 1 .. n PROVE Offs(r)[i] = u[i]
    <3>1. Offs(r)[i] = r[i].offset
      BY <1>5, <2>2
    <3>2. r[i] = ix[i] /\ Offs(ix)[i] = ix[i].offset /\ u[i] = Offs(ix)[i]
      BY <1>3, <1>4, <1>6
    <3> QED
      BY <3>1, <3>2
  <2> QED
    BY <2>1, <2>3, <2>4
<1>8. Offs(r) = u
  BY <1>5, <1>6, <1>7, SeqEqual
<1> QED
  BY <1>2, <1>3, <1>8 DEF r, u

\* The records on the disk name messages the plan knows.
Known(m, x) == ToSet(Offs(x)) \subseteq ToSet(Offs(m.index))

NewEntry(m, draft) ==
    [offset |-> m.at, uid |-> m.base.nextUid, rcvd |-> draft.rcvd]

Laid(g, m, m2, h, x, c, draft) ==
    /\ Leads(g, m2, h, x)
    /\ m2.ok
    /\ m2.full = m.full
    /\ View(DiskOf(h, m2.frames, x)) = View(DiskOf(h, m.frames, x))
    /\ m2.index = Append(m.index, NewEntry(m, draft))
    /\ m2.base.nextUid = m.base.nextUid + 1
    /\ m2.base.count = Len(m2.index)
    /\ m2.pool = m.pool
    /\ Arranged(m2.base, m2.frames, m2.index, c, {})
    /\ \A o \in ToSet(Offs(m.index)) : m2.frames[o].msg = m.frames[o].msg

\* The header in memory once a message is at the end.
Counted(b, at, n) ==
    [b EXCEPT !.nextUid = b.nextUid + 1, !.count = n + 1,
              !.firstFrame = IF b.firstFrame = 0 THEN at ELSE b.firstFrame,
              !.lastFrame = at]

LEMMA CountedHolds ==
    ASSUME NEW b \in Header, NEW at \in Nat, NEW n \in Nat
    PROVE  /\ Counted(b, at, n) \in Header
           /\ Counted(b, at, n).nextUid = b.nextUid + 1
           /\ Counted(b, at, n).count = n + 1
           /\ Counted(b, at, n).firstFrame
                    = IF b.firstFrame = 0 THEN at ELSE b.firstFrame
           /\ Counted(b, at, n).lastFrame = at
           /\ Counted(b, at, n).firstFree = b.firstFree
           /\ Counted(b, at, n).lastFree = b.lastFree
           /\ Counted(b, at, n).endFrame = b.endFrame
<1> DEFINE f == IF b.firstFrame = 0 THEN at ELSE b.firstFrame
           v == b.nextUid + 1
           k == n + 1
<1>1. f \in Nat /\ v \in Nat /\ k \in Nat
  BY DEF Header
<1>2. Counted(b, at, n) = [b EXCEPT !.nextUid = v, !.count = k,
                                    !.firstFrame = f, !.lastFrame = at]
  BY DEF Counted
<1> HIDE DEF f, v, k
<1>3. /\ Counted(b, at, n) \in Header /\ Counted(b, at, n).nextUid = v
      /\ Counted(b, at, n).count = k /\ Counted(b, at, n).firstFrame = f
      /\ Counted(b, at, n).lastFrame = at
      /\ Counted(b, at, n).firstFree = b.firstFree
      /\ Counted(b, at, n).lastFree = b.lastFree
      /\ Counted(b, at, n).endFrame = b.endFrame
  BY <1>1, <1>2 DEF Header
<1> QED
  BY <1>3 DEF f, v, k

Put1(m, draft) ==
    Do(Linking(m, m.base.lastFrame, m.at, 0, 0),
       [kind |-> "frame", at |-> m.at, frame |->
            [type |-> "normal", next |-> 0, prev |-> m.base.lastFrame,
             room |-> m.room,
             msg |-> [uid |-> m.base.nextUid, text |-> draft.text,
                      rcvd |-> draft.rcvd, seen |-> FALSE]]])

LEMMA PutIs ==
    ASSUME NEW m, NEW draft, ~ m.full, NEW r, r = Put1(m, draft), r \in Plan,
           r.ok, Alike(m, r)
    PROVE  PutMessage(m, draft)
            = [r EXCEPT !.index = Append(m.index, NewEntry(m, draft)),
                        !.base = Counted(m.base, m.at, Len(m.index))]
<1> DEFINE C(q) == [q EXCEPT
                        !.index = Append(@, [offset |-> m.at,
                                             uid |-> m.base.nextUid,
                                             rcvd |-> draft.rcvd]),
                        !.base.nextUid = m.base.nextUid + 1,
                        !.base.count = Len(q.index) + 1,
                        !.base.firstFrame = IF @ = 0 THEN m.at ELSE @,
                        !.base.lastFrame = m.at]
<1>1. PutMessage(m, draft) = Then(r, LAMBDA q : C(q))
  BY DEF PutMessage, Put1, Linking
<1>2. PutMessage(m, draft) = C(r)
  BY <1>1 DEF Then
<1>3. r.base = m.base /\ r.index = m.index /\ r.base \in Header
  BY DEF Alike, Plan
<1>4. C(r) = [r EXCEPT !.index = Append(m.index, NewEntry(m, draft)),
                       !.base = Counted(m.base, m.at, Len(m.index))]
  BY <1>3, ZenonT(30) DEF Counted, NewEntry, Plan, Header
<1> QED
  BY <1>2, <1>4

\* The frames once the message is in, and what was last is linked to it.
PutFrames(m, fs2, draft) ==
    \A o \in 1 .. MaxFrame :
        fs2[o] = IF o = m.at
                 THEN [type |-> "normal", next |-> 0,
                       prev |-> m.base.lastFrame, room |-> m.room,
                       msg |-> [uid |-> m.base.nextUid,
                                text |-> draft.text, rcvd |-> draft.rcvd,
                                seen |-> FALSE]]
                 ELSE IF o = m.base.lastFrame
                 THEN [m.frames[o] EXCEPT !.next = m.at]
                 ELSE m.frames[o]

Unseen(h, x, fs, fs2) == View(DiskOf(h, fs2, x)) = View(DiskOf(h, fs, x))

\* appendOne() in a frame it was given.
LEMMA PutWrites ==
    ASSUME NEW g, NEW m, NEW h, NEW x, Leads(g, m, h, x), m.ok,
           Halfway(g, m, h, x), NEW c,
           Arranged(m.base, m.frames, m.index, c, {m.at}), Known(m, x),
           NEW draft \in Drafts
    PROVE  /\ Put1(m, draft) \in Plan /\ Alike(m, Put1(m, draft))
           /\ Leads(g, Put1(m, draft), h, x)
           /\ Unseen(h, x, m.frames, Put1(m, draft).frames)
           /\ PutFrames(m, Put1(m, draft).frames, draft)
<1> DEFINE last == m.base.lastFrame
           msg == [uid |-> m.base.nextUid, text |-> draft.text,
                   rcvd |-> draft.rcvd, seen |-> FALSE]
           fr == [type |-> "normal", next |-> 0, prev |-> last,
                  room |-> m.room, msg |-> msg]
           w == [kind |-> "frame", at |-> m.at, frame |-> fr]
           m1 == Linking(m, last, m.at, 0, 0)
           fs1 == LinkedFrames(m.frames, last, m.at, 0, 0)
           fs2 == FramesAfter(w, fs1)
           u == Offs(m.index)
<1>1. /\ m \in Plan /\ h \in Header /\ x \in Seq(Entry)
      /\ m.frames \in [1 .. MaxFrame -> Frame]
      /\ m.base \in Header /\ m.index \in Seq(Entry)
  BY LeadsTyped
<1>2. /\ m.base.endFrame \in 1 .. MaxFrame + 1 /\ u \in Seq(Nat)
      /\ c \in Seq(Nat) /\ Parted(m.base.endFrame, u, c, {m.at})
      /\ last = At(u, Len(u))
  BY OffsHolds DEF Arranged, Bounds
<1>3. /\ m.at \in 1 .. MaxFrame /\ m.at # 0 /\ last \in 0 .. MaxFrame
      /\ last \in ToSet(u) \/ last = 0
      /\ m.at \notin ToSet(u)
  <2>1. m.at \in ToSet(u) \cup ToSet(c) \cup {m.at}
    OBVIOUS
  <2> HIDE DEF last, u
  <2>2. m.at \in 1 .. MaxFrame /\ m.at # 0
    BY <1>2, <2>1, InChain
  <2>3. last \in 0 .. MaxFrame /\ (last \in ToSet(u) \/ last = 0)
    BY <1>2, InChain
  <2>4. m.at \notin ToSet(u)
    BY <1>2 DEF Parted
  <2> QED
    BY <2>2, <2>3, <2>4
<1>4. Linkable(m, last) /\ Linkable(m, 0)
  <2>1. Linkable(m, At(u, Len(u)))
    BY Reads
  <2> QED
    BY <1>2, <2>1 DEF Linkable
<1>5. m.at \in Nat /\ 0 \in Nat /\ last \in Nat /\ last \in 0 .. MaxFrame
      /\ 0 \in 0 .. MaxFrame
  BY <1>3, BoundsAssumption
<1> HIDE DEF u, last, m1, fs1
<1>6. Calm(g, m, m1, h, x, fs1)
  BY <1>4, <1>5, LinkingWrites DEF m1, fs1
<1>7. /\ fs1 \in [1 .. MaxFrame -> Frame]
      /\ OnlyLinked(m.frames, fs1, last, m.at, 0, 0)
  BY <1>1, <1>5, LinkedFramesHolds DEF fs1
<1>8. msg \in Letter /\ fr \in Frame
  <2>1. draft.text \in Text /\ draft.rcvd \in BOOLEAN
    BY DraftsAssumption
  <2>2. m.base.nextUid \in Nat
    BY <1>1 DEF Header
  <2>3. msg \in Letter
    BY <2>1, <2>2 DEF Letter
  <2>4. m.room \in 0 .. MaxRoom
    BY <1>1 DEF Plan
  <2> HIDE DEF msg
  <2> QED
    BY <1>5, <2>3, <2>4 DEF Frame
<1> HIDE DEF msg, fr
<1>9. w \in Write /\ w.kind = "frame"
  BY <1>5, <1>8 DEF Write
<1>10. fs2 = [fs1 EXCEPT ![m.at] = fr]
  BY DEF FramesAfter
<1> HIDE DEF w, fs2
<1>11. /\ fs2 \in [1 .. MaxFrame -> Frame]
       /\ fs2[m.at] = fr
       /\ \A o \in 1 .. MaxFrame : o # m.at => fs2[o] = fs1[o]
  BY <1>3, <1>7, <1>8, <1>10
<1>12. /\ Leads(g, m1, h, x) /\ m1.ok /\ m1.frames = fs1 /\ m1 \in Plan
       /\ Halfway(g, m1, h, x) /\ Alike(m, m1)
  BY <1>6 DEF Calm, Alike, Halfway, Leads
<1>13. SameLetters(fs1, fs2, x)
  <2>1. SUFFICES ASSUME NEW i \in DOMAIN x
                 PROVE  /\ fs2[x[i].offset].type # "free"
                        /\ fs2[x[i].offset].msg = fs1[x[i].offset].msg
                        /\ fs2[x[i].offset].room = fs1[x[i].offset].room
    BY DEF SameLetters
  <2>2. x[i].offset \in ToSet(Offs(x))
    BY <1>1, OffsHolds
  <2>3. x[i].offset \in ToSet(u)
    BY <2>2 DEF Known, u
  <2>4. x[i].offset # m.at
    BY <1>3, <2>3
  <2>5. /\ x[i].offset \in 1 .. MaxFrame
        /\ fs1[x[i].offset].type # "free"
    BY <1>12 DEF Leads, Fine, InUse, DiskOf
  <2> QED
    BY <1>11, <2>4, <2>5
<1>14. Calm(g, m1, Do(m1, w), h, x, fs2)
  <2>1. FramesAfter(w, m1.frames) = fs2
    BY <1>12 DEF fs2
  <2> QED
    BY <1>9, <1>11, <1>12, <1>13, <2>1, FrameWrite
<1>15. Calm(g, m, Do(m1, w), h, x, fs2)
  BY <1>6, <1>14, CalmThenCalm
<1>16. Put1(m, draft) = Do(m1, w)
  BY DEF Put1, m1, w, fr, msg, last
<1>17. ASSUME NEW o \in 1 .. MaxFrame
       PROVE  fs2[o] = IF o = m.at THEN fr
                       ELSE IF o = last THEN [m.frames[o] EXCEPT !.next = m.at]
                       ELSE m.frames[o]
  <2>1. CASE o = m.at
    BY <1>11, <2>1
  <2>2. CASE o # m.at
    <3>1. fs2[o] = fs1[o] /\ fs1[o] \in Frame /\ m.frames[o] \in Frame
      BY <1>1, <1>7, <1>11, <2>2
    <3>2. /\ fs1[o].type = m.frames[o].type /\ fs1[o].msg = m.frames[o].msg
          /\ fs1[o].room = m.frames[o].room
          /\ fs1[o].prev = m.frames[o].prev
          /\ fs1[o].next = IF o = last THEN m.at ELSE m.frames[o].next
      <4>1. o # 0
        BY BoundsAssumption
      <4> QED
        BY <1>7, <4>1 DEF OnlyLinked
    <3>3. CASE o = last
      <4> DEFINE f2 == [m.frames[o] EXCEPT !.next = m.at]
      <4>1. /\ f2 \in Frame /\ f2.type = m.frames[o].type
            /\ f2.msg = m.frames[o].msg /\ f2.room = m.frames[o].room
            /\ f2.prev = m.frames[o].prev /\ f2.next = m.at
        BY <1>5, <3>1 DEF Frame
      <4> HIDE DEF f2
      <4>2. fs1[o] = f2
        BY <3>1, <3>2, <3>3, <4>1, SameFrame
      <4> QED
        BY <2>2, <3>1, <3>3, <4>2 DEF f2
    <3>4. CASE o # last
      <4>1. fs1[o] = m.frames[o]
        BY <3>1, <3>2, <3>4, SameFrame
      <4> QED
        BY <2>2, <3>1, <3>4, <4>1
    <3> QED
      BY <3>3, <3>4
  <2> QED
    BY <2>1, <2>2
<1>18. /\ Put1(m, draft) \in Plan /\ Alike(m, Put1(m, draft))
       /\ Leads(g, Put1(m, draft), h, x)
       /\ Put1(m, draft).frames = fs2
       /\ View(DiskOf(h, fs2, x)) = View(DiskOf(h, m.frames, x))
  BY <1>15, <1>16 DEF Calm, Leads
<1> QED
  BY <1>17, <1>18 DEF PutFrames, Unseen, fr, msg, last

LEMMA PutHolds ==
    ASSUME NEW g, NEW m, NEW h, NEW x, Leads(g, m, h, x), m.ok,
           Halfway(g, m, h, x), NEW c,
           Arranged(m.base, m.frames, m.index, c, {m.at}), Known(m, x),
           NEW draft \in Drafts, Room[draft.text] <= m.room, ~ m.full
    PROVE  Laid(g, m, PutMessage(m, draft), h, x, c, draft)
<1> DEFINE u == Offs(m.index)
           b == m.base
           last == b.lastFrame
           msg == [uid |-> b.nextUid, text |-> draft.text,
                   rcvd |-> draft.rcvd, seen |-> FALSE]
           r == Put1(m, draft)
           fs2 == r.frames
           e == NewEntry(m, draft)
           ix2 == Append(m.index, e)
           b2 == Counted(b, m.at, Len(m.index))
           m2 == PutMessage(m, draft)
           u2 == Append(u, m.at)
<1>1. /\ m \in Plan /\ h \in Header /\ x \in Seq(Entry)
      /\ m.frames \in [1 .. MaxFrame -> Frame]
      /\ b \in Header /\ m.index \in Seq(Entry)
  BY LeadsTyped
<1>2. /\ b.endFrame \in 1 .. MaxFrame + 1 /\ u \in Seq(Nat)
      /\ c \in Seq(Nat) /\ Parted(b.endFrame, u, c, {m.at})
      /\ Bounds(u, b.firstFrame, last)
      /\ Bounds(c, b.firstFree, b.lastFree)
      /\ OneToOne(u) /\ Chain(m.frames, u, "normal")
      /\ Chain(m.frames, c, "free") /\ Lettered(m.frames, m.index)
      /\ Len(m.index) < b.nextUid
  BY OffsHolds DEF Arranged, Parted
<1>3. /\ r \in Plan /\ Alike(m, r) /\ Leads(g, r, h, x) /\ r.ok
      /\ View(DiskOf(h, fs2, x)) = View(DiskOf(h, m.frames, x))
      /\ fs2 \in [1 .. MaxFrame -> Frame]
  <2>1. /\ r \in Plan /\ Alike(m, r) /\ Leads(g, r, h, x)
        /\ View(DiskOf(h, fs2, x)) = View(DiskOf(h, m.frames, x))
    <3>1. Put1(m, draft) \in Plan /\ Alike(m, Put1(m, draft))
      BY PutWrites
    <3>2. Leads(g, Put1(m, draft), h, x)
      BY PutWrites
    <3>3. Unseen(h, x, m.frames, Put1(m, draft).frames)
      BY PutWrites
    <3> QED
      BY <3>1, <3>2, <3>3 DEF Unseen
  <2> HIDE DEF r
  <2>2. fs2 \in [1 .. MaxFrame -> Frame] /\ r.ok
    BY <2>1, LeadsTyped DEF Alike
  <2> QED
    BY <2>1, <2>2
<1>4. \A o \in 1 .. MaxFrame :
            fs2[o] = IF o = m.at
                     THEN [type |-> "normal", next |-> 0, prev |-> last,
                           room |-> m.room, msg |-> msg]
                     ELSE IF o = last
                     THEN [m.frames[o] EXCEPT !.next = m.at]
                     ELSE m.frames[o]
  <2>1. PutFrames(m, Put1(m, draft).frames, draft)
    BY PutWrites
  <2>2. PutFrames(m, fs2, draft)
    BY <2>1
  <2> HIDE DEF fs2
  <2> QED
    BY <2>2 DEF PutFrames
<1>5. m2 = [r EXCEPT !.index = ix2, !.base = b2]
  BY <1>3, PutIs
<1>6. /\ b2 \in Header /\ b2.nextUid = b.nextUid + 1
      /\ b2.count = Len(m.index) + 1
      /\ b2.firstFrame = (IF b.firstFrame = 0 THEN m.at ELSE b.firstFrame)
      /\ b2.lastFrame = m.at
      /\ b2.firstFree = b.firstFree /\ b2.lastFree = b.lastFree
      /\ b2.endFrame = b.endFrame
  <2>1. m.at \in Nat /\ Len(m.index) \in Nat
    BY <1>1 DEF Plan
  <2>2. b \in Header
    BY <1>1
  <2> HIDE DEF b
  <2>3. PICK n \in Nat : n = Len(m.index)
    BY <2>1
  <2>4. PICK at \in Nat : at = m.at
    BY <2>1
  <2>5. b2 = Counted(b, at, n)
    BY <2>3, <2>4
  <2> HIDE DEF b2
  <2>6. /\ Counted(b, at, n) \in Header
        /\ Counted(b, at, n).nextUid = b.nextUid + 1
        /\ Counted(b, at, n).count = n + 1
        /\ Counted(b, at, n).firstFrame
                = IF b.firstFrame = 0 THEN at ELSE b.firstFrame
        /\ Counted(b, at, n).lastFrame = at
        /\ Counted(b, at, n).firstFree = b.firstFree
        /\ Counted(b, at, n).lastFree = b.lastFree
        /\ Counted(b, at, n).endFrame = b.endFrame
    BY <2>2, CountedHolds
  <2> QED
    BY <2>3, <2>4, <2>5, <2>6
<1>7. e \in Entry /\ e.offset = m.at /\ e.uid = b.nextUid
      /\ e.rcvd = draft.rcvd
  <2>1. draft.rcvd \in BOOLEAN
    BY DraftsAssumption
  <2>2. m.at \in Nat /\ b.nextUid \in Nat
    BY <1>1 DEF Plan, Header
  <2> QED
    BY <2>1, <2>2 DEF NewEntry, Entry
<1>8. ix2 \in Seq(Entry) /\ Offs(ix2) = u2 /\ Len(ix2) = Len(m.index) + 1
  BY <1>1, <1>7, OffsAppend
<1> HIDE DEF r, fs2, e, ix2, b2, m2
<1>9. /\ m2 \in Plan /\ m2.index = ix2 /\ m2.base = b2 /\ m2.ok
      /\ m2.frames = fs2 /\ m2.todo = r.todo /\ m2.full = m.full
      /\ m2.pool = m.pool
  <2>1. r.ok = m.ok /\ r.full = m.full /\ r.pool = m.pool
    BY <1>3 DEF Alike
  <2> QED
    BY <1>3, <1>5, <1>6, <1>8, <2>1 DEF Plan, fs2
<1>10. Leads(g, m2, h, x)
  BY <1>3, <1>9, LeadsOther DEF fs2
<1> HIDE DEF u, last, b
<1>11. /\ \A o \in ToSet(u) \cup ToSet(c) \cup {m.at} :
                    o \in 1 .. MaxFrame /\ o # 0
       /\ last = At(u, Len(u))
       /\ m.at \notin ToSet(u) /\ m.at \notin ToSet(c)
       /\ ToSet(u) \cap ToSet(c) = {}
       /\ last \in ToSet(u) \/ last = 0
       /\ \A i \in DOMAIN u : u[i] \in ToSet(u)
       /\ \A i \in DOMAIN c : c[i] \in ToSet(c)
  <2>1. /\ \A o \in ToSet(u) \cup ToSet(c) \cup {m.at} :
                    o \in 1 .. MaxFrame /\ o < b.endFrame /\ o # 0
        /\ \A i : At(u, i) # 0 => At(u, i) \in ToSet(u)
        /\ \A i \in DOMAIN u : At(u, i) # 0 /\ u[i] \in ToSet(u)
        /\ \A i \in DOMAIN c : At(c, i) # 0 /\ c[i] \in ToSet(c)
    BY <1>2, InChain
  <2>2. last = At(u, Len(u))
    BY <1>2 DEF Bounds
  <2> QED
    BY <1>2, <2>1, <2>2 DEF Parted
<1>12. /\ fs2[m.at].type = "normal" /\ fs2[m.at].next = 0
       /\ fs2[m.at].prev = last /\ fs2[m.at].room = m.room
       /\ fs2[m.at].msg = msg
  <2> HIDE DEF msg
  <2>1. m.at \in 1 .. MaxFrame
    BY <1>11
  <2>2. fs2[m.at] = [type |-> "normal", next |-> 0, prev |-> last,
                     room |-> m.room, msg |-> msg]
    BY <1>4, <2>1
  <2> QED
    BY <2>2
<1>13. ASSUME NEW i \in DOMAIN u
       PROVE  /\ fs2[u[i]].type = m.frames[u[i]].type
              /\ fs2[u[i]].prev = m.frames[u[i]].prev
              /\ fs2[u[i]].msg = m.frames[u[i]].msg
              /\ fs2[u[i]].room = m.frames[u[i]].room
              /\ fs2[u[i]].next = IF i = Len(u) THEN m.at
                                  ELSE m.frames[u[i]].next
  <2>1. u[i] \in 1 .. MaxFrame /\ u[i] # m.at /\ m.frames[u[i]] \in Frame
    BY <1>1, <1>11
  <2>2. u[i] = last <=> i = Len(u)
    <3>1. DOMAIN u = 1 .. Len(u) /\ Len(u) \in Nat
      BY <1>2
    <3>2. Len(u) \in DOMAIN u
      BY <3>1
    <3> QED
      BY <1>2, <1>11, <3>2 DEF At, OneToOne
  <2>3. CASE u[i] = last
    <3>1. fs2[u[i]] = [m.frames[u[i]] EXCEPT !.next = m.at]
      BY <1>4, <2>1, <2>3
    <3> QED
      BY <2>1, <2>2, <2>3, <3>1 DEF Frame
  <2>4. CASE u[i] # last
    BY <1>4, <2>1, <2>2, <2>4
  <2> QED
    BY <2>3, <2>4
<1>14. \A o \in ToSet(c) : fs2[o] = m.frames[o]
  BY <1>4, <1>11
<1>15. /\ Chain(fs2, u2, "normal") /\ OneToOne(u2) /\ u2 \in Seq(Nat)
       /\ ToSet(u2) = ToSet(u) \cup {m.at}
       /\ Bounds(u2, IF u = <<>> THEN m.at ELSE u[1], m.at)
  <2>1. m.at \in Nat /\ m.at # 0 /\ \A i \in DOMAIN u : u[i] # 0
    BY <1>11, BoundsAssumption
  <2>2. fs2[m.at].prev = At(u, Len(u))
    BY <1>11, <1>12
  <2>3. AppendLinks(m.frames, fs2, u, m.at)
    BY <1>13, <2>1 DEF AppendLinks
  <2>4. /\ u \in Seq(Nat) /\ OneToOne(u) /\ Chain(m.frames, u, "normal")
        /\ m.at \notin ToSet(u) /\ fs2[m.at].type = "normal"
        /\ fs2[m.at].next = 0
    BY <1>2, <1>11, <1>12
  <2> QED
    BY <2>1, <2>2, <2>3, <2>4, ChainAppend
<1>16. Bounds(u2, b2.firstFrame, b2.lastFrame)
  <2>1. CASE u = <<>>
    <3>1. b.firstFrame = 0
      BY <1>2, <2>1 DEF Bounds, At
    <3> QED
      BY <1>6, <1>15, <2>1, <3>1
  <2>2. CASE u # <<>>
    <3>1. 1 \in DOMAIN u
      BY <1>2, <2>2
    <3>2. b.firstFrame = u[1] /\ u[1] # 0
      BY <1>2, <1>11, <3>1 DEF Bounds, At
    <3> QED
      BY <1>6, <1>15, <2>2, <3>2
  <2> QED
    BY <2>1, <2>2
<1>17. Chain(fs2, c, "free")
  BY <1>2, <1>11, <1>14 DEF Chain
<1>18. Parted(b2.endFrame, u2, c, {})
  BY <1>2, <1>6, <1>11, <1>15 DEF Parted
<1>19. Lettered(fs2, ix2)
  <2>1. PICK n \in Nat : n = Len(m.index)
    BY <1>1
  <2>2. /\ DOMAIN m.index = 1 .. n /\ DOMAIN ix2 = 1 .. n + 1
        /\ ix2[n + 1] = e /\ \A i \in 1 .. n : ix2[i] = m.index[i]
    BY <1>1, <1>7, <2>1 DEF ix2
  <2>3. DOMAIN u = 1 .. n /\ \A i \in 1 .. n : u[i] = m.index[i].offset
    BY <1>1, <2>2, OffsHolds DEF u
  <2>4. ASSUME NEW i \in 1 .. n
        PROVE  /\ Housed(fs2, ix2[i])
               /\ fs2[ix2[i].offset].msg.rcvd = ix2[i].rcvd
    <3>1. /\ Housed(m.frames, m.index[i])
          /\ m.frames[m.index[i].offset].msg.rcvd = m.index[i].rcvd
      BY <1>2, <2>2 DEF Lettered
    <3>2. ix2[i] = m.index[i] /\ m.index[i].offset = u[i] /\ i \in DOMAIN u
      BY <2>2, <2>3
    <3>3. fs2[u[i]].msg = m.frames[u[i]].msg
          /\ fs2[u[i]].room = m.frames[u[i]].room
      BY <1>13, <3>2
    <3> QED
      BY <3>1, <3>2, <3>3 DEF Housed
  <2>5. Housed(fs2, e) /\ fs2[e.offset].msg.rcvd = e.rcvd
    <3>1. msg \in Letter
      <4>1. draft.text \in Text /\ draft.rcvd \in BOOLEAN
        BY DraftsAssumption
      <4>2. b.nextUid \in Nat
        BY <1>1 DEF Header
      <4> QED
        BY <4>1, <4>2 DEF Letter
    <3>2. msg.uid = b.nextUid /\ msg.text = draft.text /\ msg.rcvd = draft.rcvd
      OBVIOUS
    <3> HIDE DEF msg
    <3> QED
      BY <1>7, <1>12, <3>1, <3>2 DEF Housed
  <2>6. \A i \in 1 .. n + 1 : i \in 1 .. n \/ i = n + 1
    OBVIOUS
  <2> QED
    BY <2>2, <2>4, <2>5, <2>6 DEF Lettered
<1>20. Len(ix2) < b2.nextUid
  <2>1. Len(m.index) \in Nat /\ b.nextUid \in Nat
    BY <1>1, SMTT(20) DEF Header
  <2> QED
    BY <1>2, <1>6, <1>8, <2>1
<1>21. Arranged(m2.base, m2.frames, m2.index, c, {})
  <2> HIDE DEF u2
  <2> QED
    BY <1>2, <1>3, <1>6, <1>8, <1>9, <1>15, <1>16, <1>17, <1>18, <1>19, <1>20
    DEF Arranged
<1>22. \A o \in ToSet(u) : fs2[o].msg = m.frames[o].msg
  BY <1>13 DEF ToSet
<1> QED
  BY <1>3, <1>6, <1>8, <1>9, <1>10, <1>21, <1>22
  DEF Laid, m2, ix2, e, u, b

(***************************************************************************)
(* A scope with no more file                                               *)
(***************************************************************************)

LEMMA DoStuck ==
    ASSUME NEW m, Stuck(m), NEW w
    PROVE  Stuck(Do(m, w)) /\ Stuck(DoAnyway(m, w)) /\ Stuck(Refuse(m))
BY DEF Stuck, Do, DoAnyway, Refuse

LEMMA LinkStuck ==
    ASSUME NEW m, Stuck(m), NEW at, NEW to
    PROVE  Stuck(SetFrameNext(m, at, to)) /\ Stuck(SetFramePrev(m, at, to))
BY DoStuck DEF SetFrameNext, SetFramePrev

LEMMA TakeFreeStuck ==
    ASSUME NEW m, Stuck(m), NEW at
    PROVE  Stuck(TakeFree(m, at))
<1> DEFINE f == m.frames[at]
           r == Linking(m, f.prev, f.next, f.next, f.prev)
<1>1. Stuck(r)
  BY LinkStuck DEF Linking
<1>2. TakeFree(m, at) = Then(r, LAMBDA q :
            [q EXCEPT !.base.firstFree = IF @ = at THEN f.next ELSE @,
                      !.base.lastFree = IF @ = at THEN f.prev ELSE @,
                      !.pool = Selected(@, ToSet(@) \ {at}),
                      !.at = at,
                      !.room = f.room])
  BY DEF TakeFree, Linking
<1> HIDE DEF r, f
<1> QED
  BY <1>1, <1>2 DEF Then, Stuck

LEMMA AllocateStuck ==
    ASSUME NEW m, Stuck(m), NEW length
    PROVE  Stuck(AllocateFrame(m, length))
<1> DEFINE r == IF m.complete THEN m ELSE ScanFreeChain(m, length)
<1>1. Stuck(ScanFreeChain(m, length))
  <2> DEFINE A == FreeChain(m)
             stop == Min({k \in DOMAIN A : \/ A[k] = 0
                                           \/ BrokenAt(m, A, k)
                                           \/ Fits(m.frames[A[k]].room, length)})
  <2>1. ScanFreeChain(m, length)
        = IF A[stop] # 0
          THEN IF BrokenAt(m, A, stop) THEN Refuse(m)
               ELSE [m EXCEPT !.pool = [k \in 1 .. stop |-> A[k]]]
          ELSE IF /\ m.base.firstFree # 0
                  /\ m.base.lastFree # IF stop = 1 THEN 0 ELSE A[stop - 1]
               THEN Refuse(m)
               ELSE [m EXCEPT !.pool = [k \in 1 .. stop - 1 |-> A[k]],
                              !.complete = TRUE]
    BY DEF ScanFreeChain
  <2> HIDE DEF A, stop
  <2> DEFINE p1 == [k \in 1 .. stop |-> A[k]]
             p2 == [k \in 1 .. stop - 1 |-> A[k]]
  <2>2. Stuck(Refuse(m))
    BY DoStuck
  <2>3. Stuck([m EXCEPT !.pool = p1])
        /\ Stuck([m EXCEPT !.pool = p2, !.complete = TRUE])
    <3> HIDE DEF p1, p2
    <3> QED
      BY DEF Stuck
  <2> QED
    BY <2>1, <2>2, <2>3
<1>2. Stuck(r)
  BY <1>1
<1>3. AllocateFrame(m, length) = Then(r, LAMBDA q : Chosen(q, length))
  BY AllocateIs
<1> HIDE DEF r
<1>4. Stuck(Chosen(r, length))
  <2>1. Stuck(TakeFree(r, BestOf(r, Fitting(r, length))))
    BY <1>2, TakeFreeStuck
  <2>2. Stuck([r EXCEPT !.full = TRUE]) /\ Stuck(NewFrame(r, length))
    BY <1>2 DEF Stuck, NewFrame
  <2> QED
    BY <2>1, <2>2 DEF Chosen
<1> QED
  BY <1>2, <1>3, <1>4 DEF Then

LEMMA AppendOneStuck ==
    ASSUME NEW m, Stuck(m), NEW draft
    PROVE  Stuck(AppendOne(m, draft))
<1> DEFINE r == Then(m, LAMBDA q : AllocateFrame(q, Room[draft.text]))
<1>1. Stuck(r)
  BY AllocateStuck DEF Then
<1>2. AppendOne(m, draft) = Then(r, LAMBDA q : PutMessage(q, draft))
  BY DEF AppendOne
<1> HIDE DEF r
<1>3. PutMessage(r, draft) = r
  BY <1>1 DEF PutMessage, Stuck
<1> QED
  BY <1>1, <1>2, <1>3 DEF Then

LEMMA SettleStuck ==
    ASSUME NEW m, Stuck(m), NEW from
    PROVE  Stuck(Settle(m, from)) /\ Stuck(Return(m)) /\ Stuck(Return(Settle(m, from)))
<1> DEFINE m1 == [m EXCEPT !.ok = TRUE]
           m2 == WriteIndexTail(m1, from)
           m3 == WriteBaseHeader(m2)
<1>1. Stuck(m1)
  BY DEF Stuck
<1> HIDE DEF m1
<1>2. Stuck(m2)
  BY <1>1, DoStuck DEF WriteIndexTail
<1> HIDE DEF m2
<1>3. Stuck(m3)
  BY <1>2, DoStuck DEF WriteBaseHeader
<1> HIDE DEF m3
<1>4. Stuck([m3 EXCEPT !.ok = m.ok])
  BY <1>3 DEF Stuck
<1>5. Settle(m, from) = m \/ Settle(m, from) = [m3 EXCEPT !.ok = m.ok]
  BY DEF Settle, m1, m2, m3
<1>6. Stuck(Settle(m, from))
  BY <1>4, <1>5
<1> QED
  BY <1>6, DoStuck DEF Return

(***************************************************************************)
(* A set of drafts, one after another                                      *)
(***************************************************************************)

Appends(m, drafts, n, upto) ==
    upto = [k \in 0 .. n |-> IF k = 0 THEN m
                             ELSE AppendOne(upto[k - 1], drafts[k])]

LEMMA AppendsStep ==
    ASSUME NEW m, NEW drafts, NEW n \in Nat, NEW upto,
           Appends(m, drafts, n, upto)
    PROVE  /\ upto[0] = m
           /\ \A k \in 1 .. n : upto[k] = AppendOne(upto[k - 1], drafts[k])
<1> DEFINE F(k) == IF k = 0 THEN m ELSE AppendOne(upto[k - 1], drafts[k])
<1>1. upto = [k \in 0 .. n |-> F(k)]
  BY DEF Appends
<1>2. \A k \in 0 .. n : upto[k] = F(k)
  <2> HIDE DEF F
  <2> QED
    BY <1>1
<1>3. upto[0] = F(0) /\ \A k \in 1 .. n : upto[k] = F(k) /\ k # 0
  BY <1>2
<1> QED
  BY <1>3

LEMMA AppendsExists ==
    ASSUME NEW m, NEW drafts, NEW n0 \in Nat
    PROVE  \E upto : Appends(m, drafts, n0, upto)
<1> DEFINE T == {k \in Nat : ~ \E upto : Appends(m, drafts, k, upto)}
<1>1. SUFFICES ASSUME T # {} PROVE FALSE
  OBVIOUS
<1>2. PICK n \in T : \A k \in T : n <= k
  BY <1>1, LeastNumber
<1>3. CASE n = 0
  <2> DEFINE upto == [k \in 0 .. 0 |-> m]
  <2>1. Appends(m, drafts, 0, upto)
    BY DEF Appends
  <2> QED
    BY <2>1, <1>3
<1>4. CASE n # 0
  <2>1. n \in Nat /\ n - 1 \in Nat /\ n - 1 \notin T
    BY <1>2, <1>4
  <2>2. PICK upto : Appends(m, drafts, n - 1, upto)
    BY <2>1
  <2>3. /\ upto[0] = m
        /\ \A k \in 1 .. n - 1 : upto[k] = AppendOne(upto[k - 1], drafts[k])
    <3> HIDE DEF T
    <3>1. PICK n1 \in Nat : n1 = n - 1
      BY <2>1
    <3>2. Appends(m, drafts, n1, upto)
      BY <2>2, <3>1
    <3>3. /\ upto[0] = m
          /\ \A k \in 1 .. n1 : upto[k] = AppendOne(upto[k - 1], drafts[k])
      BY <3>2, AppendsStep
    <3> QED
      BY <3>1, <3>3
  <2> DEFINE last == AppendOne(upto[n - 1], drafts[n])
             next == [k \in 0 .. n |-> IF k = n THEN last ELSE upto[k]]
  <2>4. \A k \in 0 .. n - 1 : next[k] = upto[k]
    BY <2>1
  <2>5. next[n] = last
    BY <2>1
  <2>6. next = [k \in 0 .. n |-> next[k]]
    OBVIOUS
  <2>7. last = AppendOne(next[n - 1], drafts[n])
    BY <2>1, <2>4
  <2> HIDE DEF next, last, T
  <2>8. ASSUME NEW k \in 0 .. n
        PROVE  next[k] = IF k = 0 THEN m
                         ELSE AppendOne(next[k - 1], drafts[k])
    <3>1. CASE k = n
      BY <3>1, <2>5, <2>7, <1>4
    <3>2. CASE k = 0
      BY <3>2, <2>1, <2>3, <2>4
    <3>3. CASE k # n /\ k # 0
      <4>1. k \in 1 .. n - 1 /\ k \in 0 .. n - 1 /\ k - 1 \in 0 .. n - 1
        BY <3>3, <2>1
      <4> QED
        BY <4>1, <3>3, <2>3, <2>4
    <3> QED
      BY <3>1, <3>2, <3>3
  <2>9. Appends(m, drafts, n, next)
    BY <2>6, <2>8 DEF Appends
  <2> QED
    BY <2>9, <1>2 DEF T
<1> QED
  BY <1>3, <1>4

\* k of the drafts in: they stand after the records of the disk, which has
\* none of them yet.
Grown(g, m, h, x, k) ==
    /\ Leads(g, m, h, x)
    /\ m.ok
    /\ ~ m.full
    /\ View(DiskOf(h, m.frames, x)) = g.from
    /\ \E c : /\ Arranged(m.base, m.frames, m.index, c, {})
              /\ ToSet(m.pool) \subseteq ToSet(c)
    /\ Len(m.index) = Len(x) + k
    /\ \A i \in DOMAIN x : m.index[i] = x[i]
    /\ \A i \in 1 .. k : m.index[Len(x) + i].uid = h.nextUid + i - 1
    /\ m.base.nextUid = h.nextUid + k
    /\ m.base.count = Len(m.index)

LEMMA KnownHolds ==
    ASSUME NEW m, NEW x \in Seq(Entry), m.index \in Seq(Entry),
           Len(m.index) >= Len(x), \A i \in DOMAIN x : m.index[i] = x[i]
    PROVE  Known(m, x)
<1>1. DOMAIN x \subseteq DOMAIN m.index
  <2>1. /\ DOMAIN x = 1 .. Len(x) /\ Len(x) \in Nat
        /\ DOMAIN m.index = 1 .. Len(m.index) /\ Len(m.index) \in Nat
    OBVIOUS
  <2> QED
    BY <2>1
<1>2. /\ ToSet(Offs(x)) = {x[i].offset : i \in DOMAIN x}
      /\ ToSet(Offs(m.index)) = {m.index[i].offset : i \in DOMAIN m.index}
  BY OffsHolds
<1>3. \A i \in DOMAIN x : i \in DOMAIN m.index /\ m.index[i].offset = x[i].offset
  BY <1>1
<1> QED
  BY <1>2, <1>3 DEF Known

\* appendOne().
LEMMA AppendOneHolds ==
    ASSUME scope \in Scopes, NEW g, NEW m, NEW h, NEW x, NEW k \in Nat,
           Grown(g, m, h, x, k), NEW draft \in Drafts
    PROVE  Stuck(AppendOne(m, draft)) \/ Grown(g, AppendOne(m, draft), h, x, k + 1)
<1> DEFINE length == Room[draft.text]
           m1 == AllocateFrame(m, length)
           m2 == AppendOne(m, draft)
<1>1. /\ m \in Plan /\ h \in Header /\ x \in Seq(Entry)
      /\ m.base \in Header /\ m.index \in Seq(Entry)
      /\ Leads(g, m, h, x) /\ m.ok /\ ~ m.full /\ Halfway(g, m, h, x)
  <2>1. Leads(g, m, h, x) /\ m.ok /\ ~ m.full
        /\ View(DiskOf(h, m.frames, x)) = g.from
    BY DEF Grown
  <2> QED
    BY <2>1, LeadsTyped DEF Halfway
<1>2. PICK c : /\ Arranged(m.base, m.frames, m.index, c, {})
               /\ ToSet(m.pool) \subseteq ToSet(c)
  BY DEF Grown
<1>3. length \in 0 .. MaxRoom
  <2>1. draft.text \in Text
    BY DraftsAssumption
  <2>2. Room[draft.text] \in 1 .. MaxRoom
    BY <2>1, RoomAssumption
  <2> QED
    BY <2>2, RoomAssumption
<1>4. Allocated(g, m, m1, h, x, length)
  <2> HIDE DEF length
  <2> QED
    BY <1>1, <1>2, <1>3, AllocateHolds
<1>5. m2 = Then(m1, LAMBDA q : PutMessage(q, draft))
  <2>1. m2 = Then(Then(m, LAMBDA q : AllocateFrame(q, length)),
                  LAMBDA q : PutMessage(q, draft))
    BY DEF AppendOne
  <2>2. Then(m, LAMBDA q : AllocateFrame(q, length)) = m1
    BY <1>1 DEF Then
  <2> QED
    BY <2>1, <2>2
<1> HIDE DEF m1, m2, length
<1>6. CASE Stuck(m1)
  <2>1. PutMessage(m1, draft) = m1
    BY <1>6 DEF PutMessage, Stuck
  <2>2. m2 = m1
    BY <1>5, <2>1 DEF Then
  <2> QED
    BY <1>6, <2>2 DEF m2
<1>7. CASE (\E c2 : Placed(g, m, m1, h, x, c2)) /\ m1.room >= length
  <2>1. PICK c2 : Placed(g, m, m1, h, x, c2)
    BY <1>7
  <2>2. /\ Leads(g, m1, h, x) /\ m1.ok /\ m1.index = m.index
        /\ ~ m1.full /\ m1.base.nextUid = m.base.nextUid
        /\ View(DiskOf(h, m1.frames, x)) = g.from
        /\ Arranged(m1.base, m1.frames, m1.index, c2, {m1.at})
        /\ ToSet(m1.pool) \subseteq ToSet(c2)
    BY <1>1, <2>1 DEF Placed, Grown
  <2>3. Len(x) \in Nat /\ Len(m.index) = Len(x) + k
        /\ \A i \in DOMAIN x : m.index[i] = x[i]
    BY <1>1 DEF Grown
  <2>4. Known(m1, x) /\ Halfway(g, m1, h, x)
    <3>1. Len(m1.index) >= Len(x) /\ m1.index \in Seq(Entry)
          /\ \A i \in DOMAIN x : m1.index[i] = x[i]
      BY <1>1, <2>2, <2>3
    <3> QED
      BY <1>1, <2>2, <3>1, KnownHolds DEF Halfway
  <2>5. Room[draft.text] <= m1.room
    <3>1. m1.room \in 0 .. MaxRoom
      BY <2>2, LeadsTyped DEF Plan
    <3> QED
      BY <1>3, <1>7, <3>1, RoomAssumption DEF length
  <2>6. Laid(g, m1, PutMessage(m1, draft), h, x, c2, draft)
    BY <2>2, <2>4, <2>5, PutHolds
  <2>7. m2 = PutMessage(m1, draft)
    BY <1>5, <2>2 DEF Then
  <2>8. /\ Leads(g, m2, h, x) /\ m2.ok /\ ~ m2.full
        /\ View(DiskOf(h, m2.frames, x)) = g.from
        /\ m2.index = Append(m.index, NewEntry(m1, draft))
        /\ m2.base.nextUid = m.base.nextUid + 1
        /\ m2.base.count = Len(m2.index)
        /\ Arranged(m2.base, m2.frames, m2.index, c2, {})
        /\ ToSet(m2.pool) \subseteq ToSet(c2)
    BY <2>2, <2>6, <2>7 DEF Laid
  <2>9. m.base.nextUid = h.nextUid + k /\ h.nextUid \in Nat
    BY <1>1 DEF Grown, Header
  <2>10. PICK n \in Nat : n = Len(x)
    BY <2>3
  <2>11. /\ DOMAIN m.index = 1 .. n + k /\ Len(m.index) = n + k
         /\ DOMAIN x = 1 .. n
         /\ Len(m2.index) = n + k + 1
         /\ m2.index[n + k + 1].uid = m.base.nextUid
         /\ \A i \in 1 .. n + k : m2.index[i] = m.index[i]
    <3> DEFINE e == NewEntry(m1, draft)
    <3>1. e.uid = m.base.nextUid
      BY <2>2 DEF NewEntry
    <3>2. DOMAIN m.index = 1 .. n + k /\ Len(m.index) = n + k /\ DOMAIN x = 1 .. n
      BY <1>1, <2>3, <2>10
    <3>5. e \in Entry
      <4>1. m1.at \in Nat /\ m1.base.nextUid \in Nat
        BY <2>2, LeadsTyped DEF Plan, Header
      <4>2. draft.rcvd \in BOOLEAN
        BY DraftsAssumption
      <4> QED
        BY <4>1, <4>2 DEF NewEntry, Entry
    <3> HIDE DEF e
    <3>3. m2.index = Append(m.index, e)
      BY <2>8 DEF e
    <3>4. /\ Len(m2.index) = n + k + 1 /\ m2.index[n + k + 1] = e
          /\ \A i \in 1 .. n + k : m2.index[i] = m.index[i]
      <4>1. PICK s \in Seq(Entry) : s = m.index
        BY <1>1
      <4>2. PICK a \in Nat : a = n + k
        OBVIOUS
      <4>3. m2.index = Append(s, e) /\ Len(s) = a /\ DOMAIN s = 1 .. a
        BY <3>2, <3>3, <4>1, <4>2
      <4>4. /\ Len(m2.index) = a + 1 /\ m2.index[a + 1] = e
            /\ \A i \in 1 .. a : m2.index[i] = s[i]
        BY <3>5, <4>3
      <4> QED
        BY <4>1, <4>2, <4>4
    <3> QED
      BY <3>1, <3>2, <3>4
  <2>12. Len(m2.index) = Len(x) + (k + 1)
    BY <2>10, <2>11
  <2>13. \A i \in DOMAIN x : m2.index[i] = x[i]
    <3>1. \A i \in 1 .. n : i \in 1 .. n + k
      OBVIOUS
    <3> QED
      BY <2>3, <2>11, <3>1
  <2>14. ASSUME NEW i \in 1 .. k + 1
         PROVE  m2.index[Len(x) + i].uid = h.nextUid + i - 1
    <3>1. CASE i = k + 1
      <4>1. Len(x) + i = n + k + 1
        BY <2>10, <3>1
      <4>2. m2.index[Len(x) + i].uid = h.nextUid + k
        BY <2>9, <2>11, <4>1
      <4> QED
        BY <2>9, <3>1, <4>2
    <3>2. CASE i \in 1 .. k
      <4>1. Len(x) + i \in 1 .. n + k
        BY <2>10, <3>2
      <4>2. m2.index[Len(x) + i] = m.index[Len(x) + i]
        BY <2>11, <4>1
      <4> QED
        BY <3>2, <4>2 DEF Grown
    <3> QED
      BY <3>1, <3>2
  <2>15. m2.base.nextUid = h.nextUid + (k + 1)
    <3>1. PICK a \in Nat : a = h.nextUid
      BY <2>9
    <3>2. m2.base.nextUid = a + k + 1
      BY <2>8, <2>9, <3>1
    <3> QED
      BY <3>1, <3>2
  <2>16. Grown(g, m2, h, x, k + 1)
    BY <2>8, <2>12, <2>13, <2>14, <2>15 DEF Grown
  <2> QED
    BY <2>16 DEF m2
<1> QED
  BY <1>4, <1>6, <1>7 DEF Allocated

LEMMA AppendAllHolds ==
    ASSUME scope \in Scopes, NEW g, NEW m, NEW h, NEW x, Grown(g, m, h, x, 0),
           NEW drafts \in Seq(Drafts)
    PROVE  \/ Stuck(AppendAll(m, drafts))
           \/ Grown(g, AppendAll(m, drafts), h, x, Len(drafts))
<1> DEFINE U == CHOOSE upto : Appends(m, drafts, Len(drafts), upto)
           Wrong(k) == ~ (Stuck(U[k]) \/ Grown(g, U[k], h, x, k))
           T == {k \in 0 .. Len(drafts) : Wrong(k)}
<1>1. PICK n \in Nat : n = Len(drafts)
  OBVIOUS
<1>2. Appends(m, drafts, n, U)
  BY <1>1, AppendsExists
<1>3. AppendAll(m, drafts) = U[n]
  BY <1>1 DEF AppendAll, Appends
<1> HIDE DEF U
<1>4. /\ U[0] = m
      /\ \A k \in 1 .. n : U[k] = AppendOne(U[k - 1], drafts[k])
  BY <1>2, AppendsStep
<1>5. \A k \in 1 .. n : drafts[k] \in Drafts
  BY <1>1
<1>6. T = {}
  <2>1. SUFFICES ASSUME T # {} PROVE FALSE
    OBVIOUS
  <2>2. PICK k \in T : \A i \in T : k <= i
    <3>1. T \in SUBSET Nat
      BY <1>1
    <3> HIDE DEF T
    <3> QED
      BY <2>1, <3>1, LeastNumber
  <2>3. CASE k = 0
    BY <1>4, <2>2, <2>3
  <2>4. CASE k # 0
    <3>1. /\ k \in 1 .. n /\ k - 1 \in 0 .. n /\ ~ (k <= k - 1)
          /\ k - 1 \in Nat /\ (k - 1) + 1 = k
      BY <1>1, <2>2, <2>4
    <3>2. ~ Wrong(k - 1)
      BY <1>1, <2>2, <3>1
    <3>3. PICK j \in Nat : j = k - 1
      BY <3>1
    <3> HIDE DEF T
    <3>4. k = j + 1 /\ U[k] = AppendOne(U[j], drafts[k]) /\ drafts[k] \in Drafts
      BY <1>4, <1>5, <3>1, <3>3
    <3>5. CASE Stuck(U[j])
      <4>1. Stuck(U[k])
        BY <3>4, <3>5, AppendOneStuck
      <4> QED
        BY <2>2, <4>1 DEF T
    <3>6. CASE Grown(g, U[j], h, x, j)
      <4>1. Stuck(U[k]) \/ Grown(g, U[k], h, x, k)
        BY <3>4, <3>6, AppendOneHolds
      <4> QED
        BY <2>2, <4>1 DEF T
    <3> QED
      BY <3>2, <3>3, <3>5, <3>6
  <2> QED
    BY <2>3, <2>4
<1>7. n \in 0 .. Len(drafts)
  BY <1>1
<1>8. ~ Wrong(n)
  BY <1>6, <1>7
<1> QED
  BY <1>1, <1>3, <1>8

(***************************************************************************)
(* A set settled: its records, then the header                             *)
(***************************************************************************)

Begins(y, x, n) == \A i \in 1 .. n : y[i] = x[i]

Joined(x, y, n, k) ==
    SubSeq(x, 1, (n + 1) - 1) \o SubSeq(y, n + 1, n + k)
        \o SubSeq(x, (n + 1) + k, n) = y

LEMMA TailJoins ==
    ASSUME NEW S, NEW x \in Seq(S), NEW y \in Seq(S), NEW n \in Nat,
           NEW k \in Nat, k # 0, Len(x) = n, Len(y) = n + k,
           Begins(y, x, n)
    PROVE  /\ SubSeq(y, n + 1, n + k) \in Seq(S)
           /\ Len(SubSeq(y, n + 1, n + k)) = k
           /\ Joined(x, y, n, k)
<1> DEFINE e == SubSeq(y, n + 1, n + k)
           a == SubSeq(x, 1, (n + 1) - 1)
           z == SubSeq(x, (n + 1) + k, n)
<1>1. /\ e \in Seq(S) /\ Len(e) = k
      /\ \A i \in 1 .. k : e[i] = y[n + i]
  <2>1. /\ DOMAIN y = 1 .. n + k /\ \A i \in 1 .. n + k : y[i] \in S
    OBVIOUS
  <2>2. e = [i \in 1 .. k |-> y[n + i]]
    BY SMT
  <2>3. \A i \in 1 .. k : n + i \in 1 .. n + k
    OBVIOUS
  <2> HIDE DEF e
  <2>4. \A i \in 1 .. k : y[n + i] \in S
    BY <2>1, <2>3
  <2>5. e \in [1 .. k -> S] /\ \A i \in 1 .. k : e[i] = y[n + i]
    BY <2>2, <2>4, Zenon
  <2>6. e \in Seq(S) /\ DOMAIN e = 1 .. k
    BY <2>5, SeqDef
  <2>7. Len(e) = k
    BY <2>6, LenProperties
  <2> QED
    BY <2>5, <2>6, <2>7
<1>2. a = x
  <2>1. (n + 1) - 1 = n
    OBVIOUS
  <2>2. SubSeq(x, 1, n) = x
    BY SubSeqFull
  <2> QED
    BY <2>1, <2>2
<1>3. z = <<>>
  BY SubSeqEmpty
<1> HIDE DEF e, a, z
<1>4. /\ a \o e \in Seq(S) /\ Len(a \o e) = n + k
      /\ \A i \in 1 .. n : (a \o e)[i] = x[i]
      /\ \A i \in 1 .. k : (a \o e)[n + i] = e[i]
  <2>1. /\ a \in Seq(S) /\ e \in Seq(S) /\ Len(a) = n /\ Len(e) = k
    BY <1>1, <1>2
  <2>2. /\ a \o e \in Seq(S) /\ Len(a \o e) = n + k
        /\ \A i \in 1 .. n + k : (a \o e)[i] = IF i <= n THEN a[i] ELSE e[i - n]
    <3>1. /\ a \o e \in Seq(S) /\ Len(a \o e) = Len(a) + Len(e)
          /\ \A i \in 1 .. Len(a) + Len(e) :
                (a \o e)[i] = IF i <= Len(a) THEN a[i] ELSE e[i - Len(a)]
      BY <2>1, ConcatProperties
    <3> QED
      BY <2>1, <3>1
  <2>3. \A i \in 1 .. n : (a \o e)[i] = x[i]
    <3>1. \A i \in 1 .. n : i \in 1 .. n + k /\ i <= n
      OBVIOUS
    <3> QED
      BY <1>2, <2>2, <3>1
  <2>4. \A i \in 1 .. k : (a \o e)[n + i] = e[i]
    <3>1. \A i \in 1 .. k : /\ n + i \in 1 .. n + k /\ ~ (n + i <= n)
                            /\ (n + i) - n = i
      OBVIOUS
    <3> QED
      BY <2>2, <3>1
  <2> QED
    BY <2>2, <2>3, <2>4
<1>5. \A i \in 1 .. n + k : (a \o e)[i] = y[i]
  <2>1. SUFFICES ASSUME NEW i \in 1 .. n + k PROVE (a \o e)[i] = y[i]
    OBVIOUS
  <2>2. CASE i \in 1 .. n
    BY <1>4, <2>2 DEF Begins
  <2>3. CASE i \notin 1 .. n
    <3>1. PICK j \in 1 .. k : i = n + j
      <4>1. i - n \in 1 .. k /\ i = n + (i - n)
        BY <2>3
      <4> QED
        BY <4>1
    <3> QED
      BY <1>1, <1>4, <3>1
  <2> QED
    BY <2>2, <2>3
<1>6. a \o e = y
  BY <1>4, <1>5, SeqEqual
<1>7. a \o e \o z = y
  BY <1>3, <1>4, <1>6, ConcatEmptySeq
<1> QED
  BY <1>1, <1>7 DEF e, a, z, Joined

\* A base in order is fine to load, however many of its records count.
LEMMA ArrangedFine ==
    ASSUME NEW b, NEW fs, NEW ix, NEW c, NEW X, Arranged(b, fs, ix, c, X),
           NEW h \in Header
    PROVE  /\ DiskOf(h, fs, ix) \in Disk
           /\ Fine(DiskOf(h, fs, ix))
<1>1. /\ b.endFrame \in 1 .. MaxFrame + 1 /\ Offs(ix) \in Seq(Nat)
      /\ c \in Seq(Nat) /\ Parted(b.endFrame, Offs(ix), c, X)
      /\ fs \in [1 .. MaxFrame -> Frame] /\ ix \in Seq(Entry)
      /\ Chain(fs, Offs(ix), "normal") /\ Lettered(fs, ix)
  BY OffsHolds DEF Arranged
<1>2. \A i \in DOMAIN ix : ix[i].offset \in ToSet(Offs(ix))
  BY <1>1, OffsHolds
<1>3. \A i \in DOMAIN ix : ix[i].offset \in 1 .. MaxFrame
  BY <1>1, <1>2, InChain
<1>4. \A i \in DOMAIN ix : fs[ix[i].offset].type = "normal"
  BY <1>1, OffsHolds DEF Chain
<1>5. InUse(fs, ix)
  BY <1>3, <1>4 DEF InUse
<1>6. \A i \in DOMAIN Loads(h, ix) : Housed(fs, Loads(h, ix)[i])
  <2>1. /\ DOMAIN Loads(h, ix) \subseteq DOMAIN ix
        /\ \A i \in DOMAIN Loads(h, ix) : Loads(h, ix)[i] = ix[i]
    BY <1>1, LoadsHolds
  <2> QED
    BY <1>1, <2>1 DEF Lettered
<1> QED
  BY <1>1, <1>5, <1>6 DEF Fine, Loaded, DiskOf, Disk

\* The same records loaded over the same frames.
LEMMA SameLoaded ==
    ASSUME NEW d, NEW d2, Loaded(d2) = Loaded(d), d2.frames = d.frames,
           d2.hdr.nextUid = d.hdr.nextUid
    PROVE  Quiet(d, d2)
BY DEF Quiet, View, ShownAs

LEMMA LoadsPrefix ==
    ASSUME NEW h \in Header, NEW x \in Seq(Entry), h.count = Len(x),
           NEW y \in Seq(Entry), Len(y) >= Len(x),
           \A i \in DOMAIN x : y[i] = x[i]
    PROVE  Loads(h, y) = x
<1>1. PICK n \in Nat : n = Len(x)
  OBVIOUS
<1>2. PICK k \in Nat : k = Len(y)
  OBVIOUS
<1>3. Min2(h.count, Len(y)) = n
  BY <1>1, <1>2 DEF Min2
<1>4. /\ Loads(h, y) \in Seq(Entry) /\ Len(Loads(h, y)) = n
      /\ DOMAIN Loads(h, y) = 1 .. n
      /\ \A i \in 1 .. n : Loads(h, y)[i] = y[i]
  BY <1>3, LoadsHolds
<1>5. DOMAIN x = 1 .. n
  BY <1>1
<1> QED
  BY <1>1, <1>4, <1>5, SeqEqual

\* The cut of an index that is not longer than that.
LEMMA CutQuiet ==
    ASSUME NEW g, NEW d \in Disk, NEW it \in Item, it.write.kind = "cut",
           it.write.to = Len(d.sqi), Fine(d), View(d) \in {g.from, g.to}
    PROVE  /\ Good(g, d, it, d)
           /\ IndexAfter(it.write, d.sqi) = d.sqi
<1>1. /\ d.sqi \in Seq(Entry) /\ d.hdr \in Header
  BY DEF Disk
<1>2. /\ Loaded(d) \in Seq(Entry)
      /\ Len(Loaded(d)) = Min2(d.hdr.count, Len(d.sqi))
  BY <1>1, LoadsHolds DEF Loaded
<1>3. Min2(Len(Loaded(d)), it.write.to) = Len(Loaded(d))
  <2>1. Len(Loaded(d)) \in Nat /\ Len(d.sqi) \in Nat /\ d.hdr.count \in Nat
    BY <1>1, <1>2 DEF Header
  <2> QED
    BY <1>2, <2>1 DEF Min2
<1>4. SubSeq(Loaded(d), 1, Min2(Len(Loaded(d)), it.write.to)) = Loaded(d)
  BY <1>2, <1>3, SubSeqFull
<1>5. ViewAt(d, it.write) = View(d)
  BY <1>4 DEF ViewAt, View
<1>6. IndexAfter(it.write, d.sqi) = d.sqi
  BY <1>1, SubSeqFull DEF IndexAfter
<1>7. Kept(g.call, d, d)
  BY <1>2 DEF Kept
<1> QED
  BY <1>5, <1>6, <1>7 DEF Good

\* settleAfterWriting().
LEMMA SettleLeads ==
    ASSUME NEW g, NEW m, NEW h, NEW x, NEW k \in Nat \ {0}, Grown(g, m, h, x, k),
           h.count = Len(x), g.call.kind = "write", g.call.size = k,
           g.to = View(DiskOf(m.base, m.frames, m.index))
    PROVE  /\ Leads(g, Settle(m, Len(x) + 1), m.base, m.index)
           /\ Settle(m, Len(x) + 1).frames = m.frames
           /\ Settle(m, Len(x) + 1).ok
<1> DEFINE ix == m.index
           fs == m.frames
           b == m.base
           from == Len(x) + 1
           entries == SubSeq(ix, from, Len(ix))
           tail == [kind |-> "tail", from |-> from, entries |-> entries]
           cut == [kind |-> "cut", to |-> Len(ix)]
           head == [kind |-> "header", base |-> b]
           m1 == Do(m, tail)
           m2 == Do(m1, cut)
           m3 == Do(m2, head)
           d0 == DiskOf(h, fs, x)
           d1 == DiskOf(h, fs, ix)
           d3 == DiskOf(b, fs, ix)
<1>1. /\ m \in Plan /\ h \in Header /\ x \in Seq(Entry)
      /\ b \in Header /\ ix \in Seq(Entry)
      /\ Leads(g, m, h, x) /\ m.ok /\ View(d0) = g.from
  <2>1. Leads(g, m, h, x) /\ m.ok /\ View(DiskOf(h, m.frames, x)) = g.from
    BY DEF Grown
  <2> QED
    BY <2>1, LeadsTyped
<1>2. PICK c : Arranged(b, fs, ix, c, {})
  BY DEF Grown
<1>3. PICK n \in Nat : n = Len(x)
  BY <1>1
<1>4. /\ Len(ix) = n + k /\ \A i \in 1 .. n : ix[i] = x[i]
      /\ b.count = n + k /\ from = n + 1
  BY <1>1, <1>3 DEF Grown
<1>5. /\ entries \in Seq(Entry) /\ Len(entries) = k /\ entries # <<>>
      /\ SubSeq(x, 1, from - 1) \o entries
            \o SubSeq(x, from + Len(entries), Len(x)) = ix
  <2>1. /\ SubSeq(ix, n + 1, n + k) \in Seq(Entry)
        /\ Len(SubSeq(ix, n + 1, n + k)) = k
        /\ SubSeq(x, 1, (n + 1) - 1) \o SubSeq(ix, n + 1, n + k)
                \o SubSeq(x, (n + 1) + k, n) = ix
    <3>1. PICK y \in Seq(Entry) : y = ix
      BY <1>1
    <3>2. /\ Len(y) = n + k /\ Len(x) = n /\ x \in Seq(Entry)
          /\ Begins(y, x, n) /\ k \in Nat /\ k # 0 /\ y \in Seq(Entry)
          /\ n \in Nat
      BY <1>1, <1>3, <1>4, <3>1 DEF Begins
    <3> HIDE DEF ix
    <3>3. /\ SubSeq(y, n + 1, n + k) \in Seq(Entry)
          /\ Len(SubSeq(y, n + 1, n + k)) = k
          /\ Joined(x, y, n, k)
      BY <3>2, TailJoins
    <3> QED
      BY <3>1, <3>3 DEF Joined
  <2>2. entries = SubSeq(ix, n + 1, n + k)
    BY <1>4
  <2> HIDE DEF entries, from, ix
  <2> QED
    BY <1>3, <1>4, <2>1, <2>2
<1> HIDE DEF entries
<1>6. /\ Settle(m, from) = [m3 EXCEPT !.ok = m.ok]
  <2>1. ~ (Len(ix) < from)
    BY <1>4
  <2>2. [m EXCEPT !.ok = TRUE] = m
    BY <1>1 DEF Plan
  <2>3. m1.index = m.index /\ m1.base = m.base /\ m2.base = m.base
    BY <1>1 DEF Do, Plan
  <2>4. WriteIndexTail(m, from) = m2
    BY <1>5, <2>3 DEF WriteIndexTail, entries
  <2>5. WriteBaseHeader(m2) = m3
    BY <2>3 DEF WriteBaseHeader
  <2> QED
    BY <2>1, <2>2, <2>4, <2>5 DEF Settle
<1>7. tail \in Write /\ cut \in Write /\ head \in Write
  <2>1. from \in Nat /\ Len(ix) \in Nat
    BY <1>3, <1>4
  <2> HIDE DEF from, ix, b
  <2> QED
    BY <1>1, <1>5, <2>1 DEF Write, b
<1>8. /\ d0 \in Disk /\ Fine(d0) /\ d1 \in Disk /\ Fine(d1)
      /\ d3 \in Disk /\ Fine(d3)
  BY <1>1, <1>2, ArrangedFine DEF Leads
<1>9. Loaded(d0) = x /\ Loaded(d1) = x /\ Loaded(d3) = ix
  <2>1. Loads(h, x) = x
    <3>1. h.count >= Len(x)
      BY <1>3
    <3> QED
      BY <1>1, <3>1, LoadsHolds
  <2>2. Loads(h, ix) = x
    <3>1. Len(ix) >= Len(x) /\ \A i \in DOMAIN x : ix[i] = x[i]
      BY <1>1, <1>3, <1>4
    <3> QED
      BY <1>1, <3>1, LoadsPrefix
  <2>3. Loads(b, ix) = ix
    <3>1. b.count >= Len(ix)
      BY <1>4
    <3> HIDE DEF b, ix
    <3> QED
      BY <1>1, <3>1, LoadsHolds
  <2> QED
    BY <2>1, <2>2, <2>3 DEF Loaded, DiskOf
<1>10. /\ HeaderAfter(tail, h) = h /\ FramesAfter(tail, fs) = fs
       /\ IndexAfter(tail, x) = ix
       /\ HeaderAfter(cut, h) = h /\ FramesAfter(cut, fs) = fs
       /\ HeaderAfter(head, h) = b /\ FramesAfter(head, fs) = fs
       /\ IndexAfter(head, ix) = ix
  BY <1>5 DEF HeaderAfter, FramesAfter, IndexAfter
<1>11. Quiet(d0, d1) /\ View(d1) = g.from
  <2>1. d1.frames = d0.frames /\ d1.hdr.nextUid = d0.hdr.nextUid
    BY DEF DiskOf
  <2>2. Quiet(d0, d1)
    BY <1>9, <2>1, SameLoaded
  <2> QED
    BY <1>1, <2>2 DEF Quiet
<1>12. Itm(m, tail) \in Item /\ Itm(m, tail).write = tail
       /\ tail.kind = "tail" /\ cut.kind = "cut" /\ head.kind = "header"
  BY <1>1, <1>7 DEF Itm, Item, Plan
<1> HIDE DEF tail, cut, head, d0, d1, d3, from
<1>13. Good(g, d0, Itm(m, tail), d1)
  BY <1>1, <1>8, <1>11, <1>12, QuietIsGood
<1>14. /\ Leads(g, m1, h, ix) /\ Alike(m, m1) /\ m1.frames = fs
  BY <1>1, <1>7, <1>10, <1>13, DoLeads DEF d0, d1
<1>15. m1 \in Plan /\ m1.ok /\ m1.base = b /\ m1.index = ix
  BY <1>1, <1>14 DEF Alike, Leads
<1>16. Itm(m1, cut) \in Item /\ Itm(m1, cut).write = cut
  BY <1>7, <1>15 DEF Itm, Item, Plan
<1>17. Good(g, d1, Itm(m1, cut), d1) /\ IndexAfter(cut, ix) = ix
  <2>1. d1.sqi = ix /\ cut.to = Len(ix)
    BY DEF d1, DiskOf, cut
  <2> QED
    BY <1>8, <1>11, <1>12, <1>16, <2>1, CutQuiet
<1> HIDE DEF m1
<1>18. /\ Leads(g, m2, h, ix) /\ Alike(m1, m2) /\ m2.frames = fs
  BY <1>7, <1>10, <1>14, <1>15, <1>17, DoLeads DEF d1
<1>19. m2 \in Plan /\ m2.ok /\ m2.base = b /\ m2.index = ix
  BY <1>15, <1>18 DEF Alike, Leads
<1>20. Itm(m2, head) \in Item /\ Itm(m2, head).write = head
  BY <1>7, <1>19 DEF Itm, Item, Plan
<1>21. Good(g, d1, Itm(m2, head), d3)
  <2>1. ViewAt(d1, head) = g.from /\ View(d3) = g.to
    BY <1>11, <1>12 DEF ViewAt, d3
  <2>2. Kept(g.call, d1, d3)
    <3>1. Len(Loaded(d3)) = Len(Loaded(d1)) + g.call.size
      BY <1>3, <1>4, <1>9
    <3>2. ASSUME NEW i \in DOMAIN Loaded(d1)
          PROVE  /\ i \in DOMAIN Loaded(d3)
                 /\ Loaded(d3)[i] = Loaded(d1)[i]
                 /\ LetterOf(d3, i) = LetterOf(d1, i)
      <4>1. i \in 1 .. n /\ i \in 1 .. n + k /\ DOMAIN ix = 1 .. n + k
        BY <1>1, <1>3, <1>4, <1>9
      <4>2. i \in DOMAIN Loaded(d3) /\ Loaded(d3)[i] = Loaded(d1)[i]
        BY <1>4, <1>9, <4>1
      <4>3. d3.frames = d1.frames
        BY DEF d1, d3, DiskOf
      <4> QED
        BY <4>2, <4>3 DEF LetterOf
    <3> QED
      BY <3>1, <3>2 DEF Kept
  <2> QED
    BY <1>8, <1>12, <1>20, <2>1, <2>2 DEF Good
<1> HIDE DEF m2
<1>22. /\ Leads(g, m3, b, ix) /\ Alike(m2, m3) /\ m3.frames = fs
  BY <1>7, <1>10, <1>18, <1>19, <1>21, DoLeads DEF d1, d3
<1>23. m3 \in Plan /\ m3.ok
  BY <1>19, <1>22 DEF Alike, Leads
<1> HIDE DEF m3
<1>24. [m3 EXCEPT !.ok = m.ok] = m3
  BY <1>1, <1>23 DEF Plan
<1> QED
  BY <1>6, <1>22, <1>23, <1>24 DEF from
=============================================================================
