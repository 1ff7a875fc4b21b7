---------------------------- MODULE SquishProofs ----------------------------
(***************************************************************************)
(* The two files of a Squish base agree whenever nobody writes, and what a *)
(* process that opens the base between two writes loads is always whole,   *)
(* for any processes, texts, bounds and calls, as long as the disk takes   *)
(* every write and nobody dies in one.                                     *)
(***************************************************************************)
EXTENDS SquishPlans, TLAPS

(***************************************************************************)
(* Calls                                                                   *)
(***************************************************************************)

Whole(d) ==
    /\ d.hdr.count = Len(d.sqi)
    /\ \E c : Arranged(d.hdr, d.frames, d.sqi, c, {})

\* What the holder has still to write: the writes of a call, each good, up to
\* a base in order, and its return.
Ready(g, d, list) ==
    \E done, ret, run :
        /\ list = Append(done, ret)
        /\ ret \in Item
        /\ ret.write.kind = "return"
        /\ Carried(g, d, done, run)
        /\ Whole(run[Len(done)])
        /\ View(run[Len(done)]) \in {g.from, g.to}

\* A plan that has led to a base in order returns.
LEMMA Returned ==
    ASSUME NEW g, NEW m, NEW h, NEW x, Leads(g, m, h, x),
           Whole(DiskOf(h, m.frames, x)), Halfway(g, m, h, x)
    PROVE  Ready(g, now, Return(m).todo) /\ Return(m).full = m.full
<1> DEFINE w == [kind |-> "return"]
           m1 == [m EXCEPT !.ok = TRUE]
           m2 == Do(m1, w)
<1>1. m \in Plan
  BY LeadsTyped
<1>2. m1 \in Plan /\ m1.ok /\ m1.todo = m.todo /\ Itm(m1, w) = Itm(m, w)
      /\ m1.frames = m.frames /\ m1.full = m.full
  BY <1>1 DEF Plan, Itm
<1>3. w \in Write /\ FramesAfter(w, m1.frames) = m1.frames /\ w.kind = "return"
      /\ m1.frames \in [1 .. MaxFrame -> Frame]
  BY <1>2 DEF Write, FramesAfter, Plan
<1>4. Return(m) = [m2 EXCEPT !.ok = m.ok]
  BY DEF Return, DoAnyway
<1> HIDE DEF m1, w
<1>5. /\ m2 \in Plan /\ m2.todo = Append(m1.todo, Itm(m1, w))
      /\ Itm(m1, w) \in Item /\ m2.full = m1.full
  BY <1>2, <1>3, DoHolds DEF Alike
<1> HIDE DEF m2
<1>6. Return(m).todo = Append(m.todo, Itm(m, w)) /\ Return(m).full = m.full
  BY <1>2, <1>4, <1>5 DEF Plan
<1>7. PICK run : /\ Carried(g, now, m.todo, run)
                 /\ run[Len(m.todo)] = DiskOf(h, m.frames, x)
  BY DEF Leads
<1>8. Itm(m, w) \in Item /\ Itm(m, w).write.kind = "return"
  BY <1>2, <1>3, <1>5 DEF Itm
<1>9. View(DiskOf(h, m.frames, x)) \in {g.from, g.to}
  BY DEF Halfway
<1> QED
  BY <1>6, <1>7, <1>8, <1>9 DEF Ready

\* The next item of a call: its return, or a good write and the rest.
LEMMA ReadyShift ==
    ASSUME NEW g, NEW d, NEW list, Ready(g, d, list)
    PROVE  /\ list \in Seq(Item) /\ list # <<>> /\ d \in Disk
           /\ Head(list) \in Item
           /\ \/ /\ Head(list).write.kind = "return"
                 /\ Tail(list) = <<>>
                 /\ Whole(d)
                 /\ View(d) \in {g.from, g.to}
              \/ /\ Good(g, d, Head(list), After(Head(list).write, d))
                 /\ Ready(g, After(Head(list).write, d), Tail(list))
<1>1. PICK done, ret, run :
        /\ list = Append(done, ret)
        /\ ret \in Item
        /\ ret.write.kind = "return"
        /\ Carried(g, d, done, run)
        /\ Whole(run[Len(done)])
        /\ View(run[Len(done)]) \in {g.from, g.to}
  BY DEF Ready
<1>2. PICK n \in Nat : n = Len(done)
  BY <1>1 DEF Carried
<1>3. /\ done \in Seq(Item) /\ run \in [0 .. n -> Disk] /\ run[0] = d
      /\ \A k \in 1 .. n : /\ run[k] = After(done[k].write, run[k - 1])
                           /\ Good(g, run[k - 1], done[k], run[k])
  BY <1>1, <1>2 DEF Carried
<1>4. d \in Disk /\ list \in Seq(Item) /\ list # <<>> /\ Len(list) = n + 1
      /\ list[n + 1] = ret /\ \A k \in 1 .. n : list[k] = done[k]
  BY <1>1, <1>2, <1>3
<1>5. Head(list) = list[1] /\ Head(list) \in Item
  BY <1>4
<1>6. CASE n = 0
  <2>1. done = <<>>
    BY <1>2, <1>3, <1>6, EmptySeq
  <2>2. Tail(list) = <<>>
    <3>1. list = <<ret>>
      BY <1>1, <2>1
    <3> QED
      BY <3>1
  <2>3. Head(list) = ret /\ run[Len(done)] = d
    BY <1>2, <1>3, <1>4, <1>5, <1>6
  <2> QED
    BY <1>1, <1>4, <1>5, <2>2, <2>3
<1>7. CASE n # 0
  <2>1. PICK m \in Nat : n = m + 1
    <3>1. n - 1 \in Nat /\ n = (n - 1) + 1
      BY <1>7
    <3> QED
      BY <3>1
  <2> DEFINE rest == Tail(done)
             run2 == [k \in 0 .. m |-> run[k + 1]]
             d2 == After(Head(list).write, d)
  <2>2. rest \in Seq(Item) /\ Len(rest) = m
        /\ \A k \in 1 .. m : rest[k] = done[k + 1]
    <3>1. done # <<>>
      BY <1>2, <1>7
    <3>2. /\ Tail(done) \in Seq(Item) /\ Len(Tail(done)) = Len(done) - 1
          /\ \A k \in 1 .. Len(Tail(done)) : Tail(done)[k] = done[k + 1]
      BY <1>3, <3>1, HeadTailProperties
    <3> QED
      BY <1>2, <2>1, <3>2
  <2> HIDE DEF rest
  <2>3. Tail(list) = Append(rest, ret)
    <3>1. PICK L \in Seq(Item) : L = list
      BY <1>4
    <3>2. PICK t \in Seq(Item) : /\ t = Tail(L) /\ Len(t) = m + 1
                                 /\ \A k \in 1 .. m + 1 : t[k] = list[k + 1]
      <4>1. Tail(L) \in Seq(Item) /\ Len(Tail(L)) = m + 1
            /\ \A k \in 1 .. m + 1 : Tail(L)[k] = list[k + 1]
        BY <1>4, <2>1, <3>1
      <4> QED
        BY <4>1
    <3>3. PICK r \in Seq(Item) : /\ r = Append(rest, ret) /\ Len(r) = m + 1
                                 /\ r[m + 1] = ret
                                 /\ \A k \in 1 .. m : r[k] = rest[k]
      <4>1. Append(rest, ret) \in Seq(Item) /\ Len(Append(rest, ret)) = m + 1
            /\ Append(rest, ret)[m + 1] = ret
            /\ \A k \in 1 .. m : Append(rest, ret)[k] = rest[k]
        BY <1>1, <2>2
      <4> QED
        BY <4>1
    <3>4. \A k \in 1 .. m + 1 : t[k] = r[k]
      <4>1. SUFFICES ASSUME NEW k \in 1 .. m + 1
                     PROVE  t[k] = r[k]
        OBVIOUS
      <4>2. CASE k = m + 1
        <5>1. k + 1 = n + 1
          BY <2>1, <4>2
        <5>2. t[k] = list[k + 1]
          BY <3>2
        <5> QED
          BY <1>4, <3>3, <4>2, <5>1, <5>2
      <4>3. CASE k \in 1 .. m
        <5>1. k + 1 \in 1 .. n
          BY <2>1, <4>3
        <5> QED
          BY <1>4, <2>2, <3>2, <3>3, <4>3, <5>1
      <4> QED
        BY <4>2, <4>3
    <3>5. t = r
      BY <3>2, <3>3, <3>4, SeqEqual
    <3> QED
      BY <3>1, <3>2, <3>3, <3>5
  <2>4. /\ d2 = run[1] /\ Good(g, d, Head(list), d2)
    <3>1. 1 \in 1 .. n /\ 1 - 1 = 0
      BY <2>1
    <3> QED
      BY <1>3, <1>4, <1>5, <3>1
  <2>5. Carried(g, d2, rest, run2)
    <3>1. \A k \in 0 .. m : k + 1 \in 0 .. n
      BY <2>1
    <3>2. run2 \in [0 .. m -> Disk]
      BY <1>3, <3>1
    <3>3. run2[0] = d2
      BY <2>4
    <3>4. ASSUME NEW k \in 1 .. m
          PROVE  /\ run2[k] = After(rest[k].write, run2[k - 1])
                 /\ Good(g, run2[k - 1], rest[k], run2[k])
      <4>1. /\ k + 1 \in 1 .. n /\ (k + 1) - 1 = k /\ k - 1 \in 0 .. m
            /\ (k - 1) + 1 = k /\ k \in 0 .. m
        BY <2>1
      <4>2. run2[k] = run[k + 1] /\ run2[k - 1] = run[k]
        BY <4>1
      <4>3. rest[k] = done[k + 1]
        BY <2>2
      <4> HIDE DEF run2, rest
      <4>4. /\ run[k + 1] = After(done[k + 1].write, run[k])
            /\ Good(g, run[k], done[k + 1], run[k + 1])
        BY <1>3, <4>1
      <4> QED
        BY <4>2, <4>3, <4>4
    <3> HIDE DEF run2, rest, d2
    <3> QED
      BY <2>2, <3>2, <3>3, <3>4 DEF Carried
  <2>6. run2[Len(rest)] = run[Len(done)]
    <3>1. m \in 0 .. m
      OBVIOUS
    <3> QED
      BY <1>2, <2>1, <2>2, <3>1
  <2> HIDE DEF rest, run2, d2
  <2>7. Ready(g, d2, Tail(list))
    BY <1>1, <2>3, <2>5, <2>6 DEF Ready
  <2> QED
    BY <1>4, <1>5, <2>4, <2>7 DEF d2
<1> QED
  BY <1>6, <1>7

\* What a call begins with.
Begun(g, m) ==
    /\ Leads(g, m, hdr, sqi)
    /\ m.ok /\ ~ m.full
    /\ m.base = hdr /\ m.index = sqi /\ m.frames = frames
    /\ m.pool = <<>> /\ ~ m.complete

LEMMA ReloadHolds ==
    ASSUME now \in Disk, Whole(now), NEW p, NEW g
    PROVE  /\ Begun(g, Reload(p))
           /\ Fine(now)
           /\ LoadIndex(hdr) = sqi
           /\ Loaded(now) = sqi
           /\ Sane(hdr)
<1>1. /\ hdr \in Header /\ frames \in [1 .. MaxFrame -> Frame]
      /\ sqi \in Seq(Entry)
  BY DEF now, Disk
<1>2. /\ hdr.count = Len(sqi)
      /\ \E c : Arranged(hdr, frames, sqi, c, {})
  BY DEF Whole, now
<1>3. PICK c : Arranged(hdr, frames, sqi, c, {})
  BY <1>2
<1>4. LoadIndex(hdr) = Loads(hdr, sqi) /\ Loaded(now) = Loads(hdr, sqi)
  BY DEF LoadIndex, Loads, Loaded, now
<1>5. Loads(hdr, sqi) = sqi
  <2>1. hdr.count >= Len(sqi)
    BY <1>1, <1>2
  <2> QED
    BY <1>1, <2>1, LoadsHolds
<1>6. Sane(hdr)
  <2>1. /\ hdr.endFrame \in 1 .. MaxFrame + 1 /\ Offs(sqi) \in Seq(Nat)
        /\ c \in Seq(Nat) /\ Parted(hdr.endFrame, Offs(sqi), c, {})
        /\ Bounds(Offs(sqi), hdr.firstFrame, hdr.lastFrame)
        /\ Bounds(c, hdr.firstFree, hdr.lastFree) /\ Len(sqi) < hdr.nextUid
    BY <1>3, OffsHolds DEF Arranged
  <2>2. \A o \in ToSet(Offs(sqi)) \cup ToSet(c) : o < hdr.endFrame /\ o \in Nat
    <3>1. \A o \in ToSet(Offs(sqi)) \cup ToSet(c) \cup {} :
                o \in 1 .. MaxFrame /\ o < hdr.endFrame
      BY <2>1, InChain
    <3> QED
      BY <3>1, BoundsAssumption
  <2>3. \A i : /\ At(Offs(sqi), i) = 0 \/ At(Offs(sqi), i) \in ToSet(Offs(sqi))
               /\ At(c, i) = 0 \/ At(c, i) \in ToSet(c)
    BY <2>1, InChain
  <2>4. \A o \in {hdr.firstFrame, hdr.lastFrame, hdr.firstFree, hdr.lastFree} :
            o = 0 \/ o \in ToSet(Offs(sqi)) \cup ToSet(c)
    BY <2>1, <2>3 DEF Bounds
  <2>5. hdr.endFrame \in Nat /\ hdr.endFrame # 0
    BY <2>1, BoundsAssumption
  <2>6. \A o \in {hdr.firstFrame, hdr.lastFrame, hdr.firstFree, hdr.lastFree} :
            o <= hdr.endFrame
    BY <2>2, <2>4, <2>5
  <2>7. hdr.count <= hdr.nextUid
    <3>1. Len(sqi) \in Nat /\ hdr.nextUid \in Nat
      BY <1>1 DEF Header
    <3> QED
      BY <1>2, <2>1, <3>1
  <2> QED
    BY <2>5, <2>6, <2>7 DEF Sane
<1> DEFINE m == Reload(p)
<1>7. m = [base |-> hdr, index |-> sqi, frames |-> frames, todo |-> <<>>,
           ok |-> TRUE, pool |-> <<>>, complete |-> FALSE, at |-> 0, room |-> 0,
           full |-> FALSE]
  BY <1>4, <1>5, <1>6 DEF Reload, Holding
<1> HIDE DEF m
<1>8. m \in Plan /\ m.todo = <<>> /\ m.frames = frames
  <2>1. 0 \in 0 .. MaxRoom /\ <<>> \in Seq(Item) /\ <<>> \in Seq(Nat)
    BY RoomAssumption
  <2> QED
    BY <1>1, <1>7, <2>1 DEF Plan
<1>9. /\ DiskOf(hdr, frames, sqi) \in Disk
      /\ Fine(DiskOf(hdr, frames, sqi))
  BY <1>1, <1>3, ArrangedFine
<1>10. now = DiskOf(hdr, frames, sqi)
  BY DEF now, DiskOf
<1>11. Carried(g, now, <<>>, [k \in 0 .. 0 |-> now])
  BY EmptySeq DEF Carried
<1>12. Leads(g, m, hdr, sqi)
  <2> DEFINE run == [k \in 0 .. 0 |-> now]
  <2>1. run[Len(<<>>)] = DiskOf(hdr, frames, sqi)
    BY <1>10, EmptySeq
  <2> HIDE DEF run
  <2> QED
    BY <1>8, <1>9, <1>11, <2>1 DEF Leads, run
<1> QED
  BY <1>4, <1>5, <1>6, <1>7, <1>9, <1>10, <1>12 DEF Begun, m

\* What a call makes of the area, and what it began with.
Aim(call, v) == [call |-> call, from |-> View(now), to |-> v]

\* What a call has still to do when it has begun.
Planned(call, plan, v) ==
    /\ Ready(Aim(call, v), now, plan.todo)
    /\ now \in Disk

Grew(a, b) ==
    /\ b.messages \in Seq(Letter)
    /\ Len(b.messages) > Len(a.messages)
    /\ \A i \in DOMAIN a.messages : b.messages[i] = a.messages[i]
    /\ \A i \in DOMAIN b.messages :
            i > Len(a.messages)
                => b.messages[i].uid = a.nextUid + (i - Len(a.messages)) - 1
    /\ b.nextUid = a.nextUid + (Len(b.messages) - Len(a.messages))

\* What one set adds, as MessageBase has it.
LEMMA GrownGrew ==
    ASSUME NEW g, NEW m, NEW h, NEW x, NEW k \in Nat \ {0}, Grown(g, m, h, x, k),
           h.count = Len(x)
    PROVE  Grew(g.from, View(DiskOf(m.base, m.frames, m.index)))
<1>1. /\ m \in Plan /\ h \in Header /\ x \in Seq(Entry)
      /\ m.base \in Header /\ m.index \in Seq(Entry)
      /\ View(DiskOf(h, m.frames, x)) = g.from
  <2>1. Leads(g, m, h, x) /\ View(DiskOf(h, m.frames, x)) = g.from
    BY DEF Grown
  <2> QED
    BY <2>1, LeadsTyped
<1>2. PICK n \in Nat : n = Len(x)
  BY <1>1
<1>3. PICK e \in Nat : e = h.nextUid
  BY <1>1 DEF Header
<1>4. PICK ix \in Seq(Entry) : ix = m.index
  BY <1>1
<1>5. /\ Len(ix) = n + k /\ DOMAIN ix = 1 .. n + k
      /\ \A i \in 1 .. n : ix[i] = x[i]
      /\ \A i \in 1 .. k : ix[n + i].uid = e + i - 1
      /\ m.base.nextUid = e + k /\ m.base.count = n + k
      /\ DOMAIN x = 1 .. n
  <2>1. Len(ix) = n + k /\ DOMAIN x = 1 .. n
    BY <1>1, <1>2, <1>4 DEF Grown
  <2>2. DOMAIN ix = 1 .. n + k
    BY <2>1
  <2> QED
    BY <1>1, <1>2, <1>3, <1>4, <2>1, <2>2 DEF Grown
<1>6. PICK c : Arranged(m.base, m.frames, m.index, c, {})
  BY DEF Grown
<1>7. \A i \in 1 .. n + k : /\ m.frames[ix[i].offset].msg \in Letter
                            /\ m.frames[ix[i].offset].msg.uid = ix[i].uid
  BY <1>4, <1>5, <1>6 DEF Arranged, Lettered, Housed
<1> DEFINE a == g.from
           b == View(DiskOf(m.base, m.frames, m.index))
<1>8. /\ a.messages = [i \in 1 .. n |-> m.frames[x[i].offset].msg]
      /\ a.nextUid = e
  <2>1. Loads(h, x) = x
    <3>1. h.count >= Len(x)
      BY <1>2
    <3> QED
      BY <1>1, <3>1, LoadsHolds
  <2>2. Loaded(DiskOf(h, m.frames, x)) = x
    BY <2>1 DEF Loaded, DiskOf
  <2>3. a = ShownAs(DiskOf(h, m.frames, x), x)
    BY <1>1, <2>2 DEF View
  <2> QED
    BY <1>3, <1>5, <2>3 DEF ShownAs, DiskOf
<1>9. /\ b.messages = [i \in 1 .. n + k |-> m.frames[ix[i].offset].msg]
      /\ b.nextUid = e + k
  <2>1. Loads(m.base, ix) = ix
    <3>1. m.base.count >= Len(ix)
      BY <1>5
    <3> QED
      BY <1>1, <3>1, LoadsHolds
  <2>2. Loaded(DiskOf(m.base, m.frames, ix)) = ix
    BY <2>1 DEF Loaded, DiskOf
  <2>3. b = ShownAs(DiskOf(m.base, m.frames, ix), ix)
    BY <1>4, <2>2 DEF View
  <2> HIDE DEF b
  <2> QED
    BY <1>5, <2>3 DEF ShownAs, DiskOf
<1> HIDE DEF a, b
<1>10. PICK s : s = a.messages
  OBVIOUS
<1>11. PICK t : t = b.messages
  OBVIOUS
<1>12. /\ Len(s) = n /\ DOMAIN s = 1 .. n
       /\ \A i \in 1 .. n : s[i] = m.frames[x[i].offset].msg
  <2>1. s = [i \in 1 .. n |-> m.frames[x[i].offset].msg]
    BY <1>8, <1>10
  <2>2. PICK T : \A i \in 1 .. n : m.frames[x[i].offset].msg \in T
    <3>1. \A i \in 1 .. n : m.frames[x[i].offset].msg
                                \in {m.frames[x[j].offset].msg : j \in 1 .. n}
      OBVIOUS
    <3> QED
      BY <3>1
  <2>3. s \in [1 .. n -> T]
    BY <2>1, <2>2
  <2>4. s \in Seq(T)
    BY <2>3
  <2> QED
    BY <2>1, <2>3, <2>4
<1>13. /\ t \in Seq(Letter) /\ Len(t) = n + k /\ DOMAIN t = 1 .. n + k
       /\ \A i \in 1 .. n + k : t[i] = m.frames[ix[i].offset].msg
  <2>1. t = [i \in 1 .. n + k |-> m.frames[ix[i].offset].msg]
    BY <1>9, <1>11
  <2>2. t \in [1 .. n + k -> Letter]
    BY <1>7, <2>1
  <2>3. t \in Seq(Letter)
    BY <2>2
  <2> QED
    BY <2>1, <2>2, <2>3
<1>14. \A i \in 1 .. n : t[i] = s[i]
  BY <1>5, <1>12, <1>13
<1>15. ASSUME NEW i \in 1 .. n + k, i > n
       PROVE  t[i].uid = e + (i - n) - 1
  <2>1. PICK j \in 1 .. k : i = n + j
    <3>1. i - n \in 1 .. k /\ i = n + (i - n)
      BY <1>15
    <3> QED
      BY <3>1
  <2>2. t[i].uid = ix[n + j].uid
    BY <1>7, <1>13, <2>1
  <2>3. ix[n + j].uid = e + j - 1
    BY <1>5
  <2> QED
    BY <2>1, <2>2, <2>3
<1>16. Grew(a, b)
  <2>1. b.nextUid = a.nextUid + (Len(t) - Len(s))
    BY <1>8, <1>9, <1>12, <1>13
  <2>2. Len(t) > Len(s)
    BY <1>12, <1>13
  <2>3. \A i \in DOMAIN t : i > Len(s) => t[i].uid = a.nextUid + (i - Len(s)) - 1
    BY <1>8, <1>12, <1>13, <1>15
  <2> QED
    BY <1>10, <1>11, <1>12, <1>13, <1>14, <2>1, <2>2, <2>3 DEF Grew
<1> QED
  BY <1>16 DEF a, b

\* writeAll().
LEMMA WritePlan ==
    ASSUME scope \in Scopes, now \in Disk, Whole(now), NEW p,
           NEW drafts \in Seq(Drafts), drafts # <<>>,
           NEW call, call.kind = "write", call.size = Len(drafts),
           ~ PlanWriteAll(p, drafts).full
    PROVE  \E v : /\ Planned(call, PlanWriteAll(p, drafts), v)
                  /\ Grew(View(now), v)
<1> DEFINE r == Reload(p)
           s == IF Len(drafts) > 1 THEN ScanFreeChain(r, kWholeChain) ELSE r
           m == AppendAll(s, drafts)
           v == View(DiskOf(m.base, m.frames, m.index))
           g == Aim(call, v)
           m2 == Settle(m, Len(sqi) + 1)
           k == Len(drafts)
<1>1. /\ Begun(g, r) /\ LoadIndex(hdr) = sqi
  BY ReloadHolds
<1>2. /\ hdr \in Header /\ frames \in [1 .. MaxFrame -> Frame]
      /\ sqi \in Seq(Entry) /\ hdr.count = Len(sqi)
      /\ now = DiskOf(hdr, frames, sqi)
  BY DEF now, Disk, Whole, DiskOf
<1>3. PICK c : Arranged(hdr, frames, sqi, c, {})
  BY DEF Whole, now
<1>4. PlanWriteAll(p, drafts) = Return(m2)
  <2>1. PlanWriteAll(p, drafts)
          = Return(Settle(AppendAll(Then(r, LAMBDA q :
                IF Len(drafts) > 1 THEN ScanFreeChain(q, kWholeChain) ELSE q),
                                    drafts), Len(r.index) + 1))
    BY DEF PlanWriteAll
  <2>2. r.ok /\ r.index = sqi
    BY <1>1 DEF Begun
  <2> HIDE DEF r
  <2>3. Then(r, LAMBDA q :
            IF Len(drafts) > 1 THEN ScanFreeChain(q, kWholeChain) ELSE q) = s
    BY <2>2 DEF Then
  <2> QED
    BY <2>1, <2>2, <2>3
<1>5. /\ Leads(g, s, hdr, sqi) /\ s.ok /\ s.base = hdr /\ s.index = sqi
      /\ s.frames = frames /\ ~ s.full /\ ToSet(s.pool) \subseteq ToSet(c)
  <2>1. /\ Leads(g, r, hdr, sqi) /\ r.ok /\ ~ r.full
        /\ r.base = hdr /\ r.index = sqi /\ r.frames = frames /\ r.pool = <<>>
    BY <1>1 DEF Begun
  <2>2. Arranged(r.base, r.frames, r.index, c, {}) /\ r \in Plan
    BY <1>3, <2>1, LeadsTyped
  <2> HIDE DEF r, g
  <2>3. CASE Len(drafts) > 1
    <3>1. kWholeChain \in Nat
      BY RoomAssumption DEF kWholeChain
    <3>2. Scanned(r, ScanFreeChain(r, kWholeChain), c)
      BY <2>2, <3>1, ScanHolds
    <3>3. Scanned(r, s, c)
      BY <2>3, <3>2
    <3> HIDE DEF s
    <3> QED
      BY <2>1, <2>2, <3>3, ScanLeads
  <2>4. CASE ~ (Len(drafts) > 1)
    <3>1. s = r /\ ToSet(<<>>) = {}
      BY <2>4 DEF ToSet
    <3> QED
      BY <2>1, <3>1
  <2> QED
    BY <2>3, <2>4
<1>6. PICK n \in Nat : n = Len(sqi)
  BY <1>2
<1> HIDE DEF r, s, m2
<1>7. Grown(g, s, hdr, sqi, 0)
  <2>1. View(DiskOf(hdr, s.frames, sqi)) = g.from
    BY <1>2, <1>5 DEF Aim
  <2>2. Len(s.index) = Len(sqi) + 0 /\ s.base.nextUid = hdr.nextUid + 0
    BY <1>2, <1>5, <1>6 DEF Header
  <2>3. Arranged(s.base, s.frames, s.index, c, {})
    BY <1>3, <1>5
  <2> HIDE DEF g
  <2> QED
    BY <1>2, <1>5, <2>1, <2>2, <2>3 DEF Grown
<1>8. Stuck(m) \/ Grown(g, m, hdr, sqi, k)
  <2> HIDE DEF g
  <2> QED
    BY <1>7, AppendAllHolds
<1>9. k \in Nat \ {0} /\ g.call.kind = "write" /\ g.call.size = k
      /\ g.to = v /\ g.from = View(now)
  <2>1. k \in Nat \ {0}
    BY EmptySeq
  <2> QED
    BY <2>1 DEF Aim
<1>10. CASE Stuck(m)
  <2>1. Stuck(Return(m2))
    BY <1>10, SettleStuck DEF m2
  <2> QED
    BY <1>4, <2>1 DEF Stuck
<1>11. CASE Grown(g, m, hdr, sqi, k)
  <2> HIDE DEF g, m, k, v
  <2>0. v = View(DiskOf(m.base, m.frames, m.index))
    BY DEF v
  <2>1. /\ Leads(g, m2, m.base, m.index)
        /\ m2.frames = m.frames
    BY <1>2, <1>9, <1>11, <2>0, SettleLeads DEF m2
  <2>2. Whole(DiskOf(m.base, m2.frames, m.index))
    <3>1. m.base.count = Len(m.index)
          /\ \E c2 : Arranged(m.base, m.frames, m.index, c2, {})
      BY <1>11 DEF Grown
    <3> QED
      BY <2>1, <3>1 DEF Whole, DiskOf
  <2>3. Halfway(g, m2, m.base, m.index)
    BY <1>9, <2>0, <2>1 DEF Halfway
  <2>4. Ready(g, now, Return(m2).todo)
    BY <2>1, <2>2, <2>3, Returned
  <2>5. Grew(View(now), v)
    BY <1>2, <1>9, <1>11, <2>0, GrownGrew
  <2> QED
    BY <1>4, <2>4, <2>5 DEF Planned, g
<1> QED
  BY <1>8, <1>10, <1>11

LEMMA PlannedBy ==
    ASSUME NEW call, NEW v, NEW m, NEW h, NEW x, Leads(Aim(call, v), m, h, x),
           Whole(DiskOf(h, m.frames, x)),
           View(DiskOf(h, m.frames, x)) \in {View(now), v}
    PROVE  Planned(call, Return(m), v) /\ Return(m).full = m.full
<1> DEFINE g == Aim(call, v)
<1>1. Halfway(g, m, h, x)
  BY DEF Halfway, Aim
<1> HIDE DEF g
<1>2. Ready(g, now, Return(m).todo) /\ Return(m).full = m.full
  BY <1>1, Returned DEF g
<1>3. now \in Disk
  BY <1>2, ReadyShift
<1> QED
  BY <1>2, <1>3 DEF Planned, g

\* A call that is refused, or finds nothing to do.
LEMMA NothingPlan ==
    ASSUME now \in Disk, Whole(now), NEW call, NEW p, NEW m,
           m = Reload(p) \/ m = Refuse(Reload(p))
    PROVE  Planned(call, Return(m), View(now))
<1> DEFINE r == Reload(p)
           g == Aim(call, View(now))
<1>1. Begun(g, r)
  BY ReloadHolds
<1>2. /\ Leads(g, r, hdr, sqi) /\ r.frames = frames /\ r \in Plan
  BY <1>1, LeadsTyped DEF Begun
<1> HIDE DEF r, g
<1>3. m \in Plan /\ m.todo = r.todo /\ m.frames = r.frames
  BY <1>2 DEF Refuse, Plan, r
<1>4. Leads(g, m, hdr, sqi)
  BY <1>2, <1>3, LeadsOther
<1>5. now = DiskOf(hdr, m.frames, sqi)
  BY <1>2, <1>3 DEF now, DiskOf
<1> QED
  BY <1>4, <1>5, PlannedBy DEF g

(***************************************************************************)
(* A message changed where it is                                           *)
(***************************************************************************)

Rewrite(fs, at, msg) == [fs EXCEPT ![at] = [fs[at] EXCEPT !.msg = msg]]

LEMMA RewriteHolds ==
    ASSUME NEW fs \in [1 .. MaxFrame -> Frame], NEW at \in 1 .. MaxFrame,
           NEW msg \in Letter
    PROVE  /\ Rewrite(fs, at, msg) \in [1 .. MaxFrame -> Frame]
           /\ Rewrite(fs, at, msg)[at].msg = msg
           /\ \A o \in 1 .. MaxFrame :
                /\ o # at => Rewrite(fs, at, msg)[o] = fs[o]
                /\ Rewrite(fs, at, msg)[o].type = fs[o].type
                /\ Rewrite(fs, at, msg)[o].next = fs[o].next
                /\ Rewrite(fs, at, msg)[o].prev = fs[o].prev
                /\ Rewrite(fs, at, msg)[o].room = fs[o].room
           /\ FramesAfter([kind |-> "message", at |-> at, msg |-> msg], fs)
                    = Rewrite(fs, at, msg)
<1> DEFINE f2 == [fs[at] EXCEPT !.msg = msg]
           fs2 == Rewrite(fs, at, msg)
<1>1. fs[at] \in Frame
  OBVIOUS
<1>2. /\ f2 \in Frame /\ f2.msg = msg /\ f2.type = fs[at].type
      /\ f2.next = fs[at].next /\ f2.prev = fs[at].prev
      /\ f2.room = fs[at].room
  <2>1. PICK f \in Frame : f = fs[at]
    BY <1>1
  <2> QED
    BY <2>1 DEF Frame
<1>3. fs2 = [fs EXCEPT ![at] = f2]
  BY DEF Rewrite
<1>4. FramesAfter([kind |-> "message", at |-> at, msg |-> msg], fs)
            = [fs EXCEPT ![at] = f2]
  BY DEF FramesAfter
<1> HIDE DEF f2, fs2
<1>5. /\ fs2 \in [1 .. MaxFrame -> Frame] /\ fs2[at] = f2
      /\ \A o \in 1 .. MaxFrame : o # at => fs2[o] = fs[o]
  BY <1>2, <1>3
<1>6. \A o \in 1 .. MaxFrame :
                /\ fs2[o].type = fs[o].type
                /\ fs2[o].next = fs[o].next
                /\ fs2[o].prev = fs[o].prev
                /\ fs2[o].room = fs[o].room
  <2>1. SUFFICES ASSUME NEW o \in 1 .. MaxFrame
                 PROVE  /\ fs2[o].type = fs[o].type
                        /\ fs2[o].next = fs[o].next
                        /\ fs2[o].prev = fs[o].prev
                        /\ fs2[o].room = fs[o].room
    OBVIOUS
  <2>2. CASE o = at
    BY <1>2, <1>5, <2>2
  <2>3. CASE o # at
    BY <1>5, <2>3
  <2> QED
    BY <2>2, <2>3
<1> QED
  BY <1>2, <1>3, <1>4, <1>5, <1>6 DEF fs2

\* A letter written over another, in the frame of message n.
Rewritable(g, m, h, x, n, msg) ==
    /\ Leads(g, m, h, x)
    /\ m.ok
    /\ h.count = Len(x)
    /\ OneToOne(Offs(x))
    /\ n \in DOMAIN x
    /\ msg \in Letter
    /\ msg.uid = x[n].uid
    /\ Room[msg.text] <= m.frames[x[n].offset].room
    /\ \/ msg.text = m.frames[x[n].offset].msg.text
       \/ x[n].uid \in g.call.named /\ g.call.kind = "replace"

LEMMA LetterWrite ==
    ASSUME NEW g, NEW m, NEW h, NEW x, NEW n, NEW msg,
           Rewritable(g, m, h, x, n, msg), NEW w,
           w = [kind |-> "message", at |-> x[n].offset, msg |-> msg],
           View(DiskOf(h, m.frames, x)) = g.from,
           View(DiskOf(h, Rewrite(m.frames, x[n].offset, msg), x)) = g.to
    PROVE  /\ Leads(g, Do(m, w), h, x)
           /\ Alike(m, Do(m, w))
           /\ Do(m, w).frames = Rewrite(m.frames, x[n].offset, msg)
<1> DEFINE at == x[n].offset
           fs == m.frames
           fs2 == Rewrite(fs, at, msg)
           d == DiskOf(h, fs, x)
           d2 == DiskOf(h, fs2, x)
<1>1. /\ m \in Plan /\ h \in Header /\ x \in Seq(Entry)
      /\ fs \in [1 .. MaxFrame -> Frame] /\ Leads(g, m, h, x)
      /\ Fine(d) /\ d \in Disk
  <2>1. Leads(g, m, h, x)
    BY DEF Rewritable
  <2> QED
    BY <2>1, LeadsTyped DEF Leads
<1>2. /\ m.ok /\ h.count = Len(x) /\ OneToOne(Offs(x)) /\ n \in DOMAIN x
      /\ msg \in Letter /\ msg.uid = x[n].uid
      /\ Room[msg.text] <= fs[at].room
      /\ \/ msg.text = fs[at].msg.text
         \/ x[n].uid \in g.call.named /\ g.call.kind = "replace"
  BY DEF Rewritable
<1>3. Loaded(d) = x /\ Loaded(d2) = x
  <2>1. h.count >= Len(x)
    BY <1>1, <1>2
  <2>2. Loads(h, x) = x
    BY <1>1, <2>1, LoadsHolds
  <2> QED
    BY <2>2 DEF Loaded, DiskOf
<1>4. /\ \A i \in DOMAIN x : /\ x[i].offset \in 1 .. MaxFrame
                             /\ fs[x[i].offset].type # "free"
                             /\ Housed(fs, x[i])
  <2>1. InUse(fs, x)
    BY <1>1 DEF Fine, DiskOf
  <2>2. \A i \in DOMAIN x : Housed(fs, x[i])
    <3>1. d.frames = fs
      BY DEF DiskOf
    <3> HIDE DEF d, fs
    <3> QED
      BY <1>1, <1>3, <3>1 DEF Fine
  <2> QED
    BY <2>1, <2>2 DEF InUse
<1>5. \A i \in DOMAIN x : x[i].offset = at => i = n
  BY <1>1, <1>2, OffsHolds DEF OneToOne
<1>6. at \in 1 .. MaxFrame
  BY <1>2, <1>4
<1> HIDE DEF at, fs
<1>7. /\ fs2 \in [1 .. MaxFrame -> Frame] /\ fs2[at].msg = msg
      /\ \A o \in 1 .. MaxFrame : /\ o # at => fs2[o] = fs[o]
                                  /\ fs2[o].type = fs[o].type
                                  /\ fs2[o].room = fs[o].room
      /\ FramesAfter(w, fs) = fs2
  <2>1. w = [kind |-> "message", at |-> at, msg |-> msg]
    BY DEF at
  <2>2. /\ fs2 \in [1 .. MaxFrame -> Frame]
        /\ fs2[at].msg = msg
        /\ \A o \in 1 .. MaxFrame :
                /\ o # at => fs2[o] = fs[o]
                /\ fs2[o].type = fs[o].type
                /\ fs2[o].next = fs[o].next
                /\ fs2[o].prev = fs[o].prev
                /\ fs2[o].room = fs[o].room
        /\ FramesAfter([kind |-> "message", at |-> at, msg |-> msg], fs) = fs2
    BY <1>1, <1>2, <1>6, RewriteHolds, ZenonT(30)
  <2> HIDE DEF fs2
  <2> QED
    BY <2>1, <2>2
<1> HIDE DEF fs2
<1>8. \A i \in DOMAIN x : Housed(fs2, x[i])
  <2>1. SUFFICES ASSUME NEW i \in DOMAIN x PROVE Housed(fs2, x[i])
    OBVIOUS
  <2>2. CASE i = n
    BY <1>2, <1>6, <1>7, <2>2 DEF Housed, at
  <2>3. CASE i # n
    <3>1. x[i].offset # at /\ x[i].offset \in 1 .. MaxFrame
      BY <1>4, <1>5, <2>3
    <3>2. fs2[x[i].offset] = fs[x[i].offset]
      BY <1>7, <3>1
    <3> QED
      BY <1>4, <3>2 DEF Housed
  <2> QED
    BY <2>2, <2>3
<1>9. Fine(d2) /\ d2 \in Disk
  <2>1. InUse(fs2, x)
    BY <1>4, <1>7 DEF InUse
  <2>2. d2.frames = fs2 /\ d2.sqi = x
    BY DEF DiskOf
  <2>3. d2 \in Disk
    BY <1>1, <1>7 DEF DiskOf, Disk
  <2> HIDE DEF d2
  <2> QED
    BY <1>3, <1>8, <2>1, <2>2, <2>3 DEF Fine
<1>10. Kept(g.call, d, d2)
  <2>1. ASSUME NEW i \in DOMAIN x
        PROVE  \/ LetterOf(d2, i).text = LetterOf(d, i).text
               \/ x[i].uid \in g.call.named /\ g.call.kind = "replace"
    <3>1. LetterOf(d2, i) = fs2[x[i].offset].msg
          /\ LetterOf(d, i) = fs[x[i].offset].msg
      <4>1. d2.frames = fs2 /\ d.frames = fs
        BY DEF DiskOf
      <4> HIDE DEF d, d2
      <4> QED
        BY <1>3, <4>1 DEF LetterOf
    <3>2. CASE i = n
      BY <1>2, <1>7, <3>1, <3>2 DEF at
    <3>3. CASE i # n
      BY <1>4, <1>5, <1>7, <3>1, <3>3
    <3> QED
      BY <3>2, <3>3
  <2>2. ~ (Len(x) > Len(x))
    BY <1>1
  <2> HIDE DEF d, d2
  <2> QED
    BY <1>3, <2>1, <2>2 DEF Kept
<1>11. w \in Write /\ w.kind = "message"
  <2>1. at \in Nat
    BY <1>6, BoundsAssumption
  <2>2. w = [kind |-> "message", at |-> at, msg |-> msg]
    BY DEF at
  <2> QED
    BY <1>2, <2>1, <2>2 DEF Write
<1>12. Itm(m, w) \in Item /\ Itm(m, w).write = w
  BY <1>1, <1>11 DEF Itm, Item, Plan
<1>13. Good(g, d, Itm(m, w), d2)
  <2>1. View(d) = g.from /\ View(d2) = g.to /\ ViewAt(d, w) = View(d)
    BY <1>11 DEF ViewAt, fs2, fs, at
  <2> HIDE DEF d, d2
  <2> QED
    BY <1>9, <1>10, <1>11, <1>12, <2>1 DEF Good
<1>14. h = HeaderAfter(w, h) /\ x = IndexAfter(w, x)
  BY <1>11 DEF HeaderAfter, IndexAfter
<1> QED
  BY <1>1, <1>2, <1>7, <1>11, <1>13, <1>14, DoLeads DEF fs, fs2, at

LEMMA WholeView ==
    ASSUME NEW h \in Header, NEW fs, NEW x \in Seq(Entry), h.count = Len(x)
    PROVE  /\ Loaded(DiskOf(h, fs, x)) = x
           /\ View(DiskOf(h, fs, x))
                = [messages |-> [i \in DOMAIN x |-> fs[x[i].offset].msg],
                   nextUid |-> h.nextUid]
<1>1. h.count >= Len(x)
  <2>1. Len(x) \in Nat
    OBVIOUS
  <2> QED
    BY <2>1
<1>2. Loads(h, x) = x
  BY <1>1, LoadsHolds
<1> QED
  BY <1>2 DEF Loaded, View, ShownAs, DiskOf

\* One record written anew, of the same message.
Renamed(x, n, e) ==
    /\ x \in Seq(Entry)
    /\ n \in DOMAIN x
    /\ e \in Entry
    /\ e.offset = x[n].offset
    /\ e.uid = x[n].uid

Anew(x, n, e) == [x EXCEPT ![n] = e]

LEMMA RenamedHolds ==
    ASSUME NEW x, NEW n, NEW e, Renamed(x, n, e)
    PROVE  /\ Anew(x, n, e) \in Seq(Entry)
           /\ Len(Anew(x, n, e)) = Len(x)
           /\ DOMAIN Anew(x, n, e) = DOMAIN x
           /\ \A i \in DOMAIN x :
                /\ Anew(x, n, e)[i].offset = x[i].offset
                /\ Anew(x, n, e)[i].uid = x[i].uid
                /\ i # n => Anew(x, n, e)[i] = x[i]
           /\ Anew(x, n, e)[n] = e
           /\ Offs(Anew(x, n, e)) = Offs(x)
<1>1. x \in Seq(Entry) /\ n \in DOMAIN x /\ e \in Entry
      /\ e.offset = x[n].offset /\ e.uid = x[n].uid
  BY DEF Renamed
<1>2. PICK k \in Nat : k = Len(x)
  BY <1>1
<1>3. DOMAIN x = 1 .. k /\ x \in [1 .. k -> Entry]
  BY <1>1, <1>2
<1> DEFINE y == Anew(x, n, e)
<1>4. y \in [1 .. k -> Entry] /\ y[n] = e
      /\ \A i \in 1 .. k : i # n => y[i] = x[i]
  BY <1>1, <1>3 DEF Anew
<1> HIDE DEF y
<1>5. y \in Seq(Entry) /\ Len(y) = k /\ DOMAIN y = 1 .. k
  BY <1>2, <1>4
<1>6. \A i \in 1 .. k : y[i].offset = x[i].offset /\ y[i].uid = x[i].uid
  <2>1. ASSUME NEW i \in 1 .. k
        PROVE  y[i].offset = x[i].offset /\ y[i].uid = x[i].uid
    <3>1. CASE i = n
      BY <1>1, <1>4, <3>1
    <3>2. CASE i # n
      BY <1>4, <3>2
    <3> QED
      BY <3>1, <3>2
  <2> QED
    BY <2>1
<1>7. Offs(y) = Offs(x)
  <2>1. [i \in 1 .. k |-> y[i].offset] = [i \in 1 .. k |-> x[i].offset]
    BY <1>6
  <2> QED
    BY <1>3, <1>5, <2>1 DEF Offs
<1> QED
  BY <1>2, <1>3, <1>4, <1>5, <1>6, <1>7 DEF y

\* writeIndexEntry() of a message that stays where it is.
LEMMA EntryWrite ==
    ASSUME NEW g, NEW m, NEW h, NEW x, Leads(g, m, h, x), m.ok,
           Halfway(g, m, h, x), NEW n, NEW e, Renamed(x, n, e),
           NEW w, w = [kind |-> "entry", at |-> n, entry |-> e]
    PROVE  /\ Leads(g, Do(m, w), h, Anew(x, n, e))
           /\ Alike(m, Do(m, w))
           /\ Do(m, w).frames = m.frames
           /\ View(DiskOf(h, m.frames, Anew(x, n, e)))
                    = View(DiskOf(h, m.frames, x))
<1> DEFINE y == Anew(x, n, e)
           fs == m.frames
           d == DiskOf(h, fs, x)
           d2 == DiskOf(h, fs, y)
<1>1. /\ m \in Plan /\ h \in Header /\ x \in Seq(Entry)
      /\ fs \in [1 .. MaxFrame -> Frame]
      /\ Fine(d) /\ d \in Disk
  BY LeadsTyped DEF Leads
<1>2. /\ y \in Seq(Entry) /\ Len(y) = Len(x) /\ DOMAIN y = DOMAIN x
      /\ \A i \in DOMAIN x : y[i].offset = x[i].offset /\ y[i].uid = x[i].uid
  <2>1. /\ y \in Seq(Entry)
        /\ Len(y) = Len(x)
        /\ DOMAIN y = DOMAIN x
        /\ \A i \in DOMAIN x :
                /\ y[i].offset = x[i].offset
                /\ y[i].uid = x[i].uid
                /\ i # n => y[i] = x[i]
        /\ y[n] = e
        /\ Offs(y) = Offs(x)
    BY RenamedHolds
  <2> HIDE DEF y
  <2> QED
    BY <2>1
<1>3. e \in Entry /\ n \in Nat
  <2>1. n \in DOMAIN x /\ DOMAIN x = 1 .. Len(x)
    BY <1>1 DEF Renamed
  <2> QED
    BY <1>1, <2>1 DEF Renamed
<1>4. w \in Write /\ w.kind = "entry"
  BY <1>3 DEF Write
<1>5. h = HeaderAfter(w, h) /\ y = IndexAfter(w, x)
      /\ FramesAfter(w, fs) = fs
  BY DEF HeaderAfter, IndexAfter, FramesAfter, Anew
<1> HIDE DEF y, fs
<1>6. /\ DOMAIN Loads(h, y) = DOMAIN Loads(h, x)
      /\ \A i \in DOMAIN Loads(h, x) :
            /\ Loads(h, y)[i].offset = Loads(h, x)[i].offset
            /\ Loads(h, y)[i].uid = Loads(h, x)[i].uid
  <2>1. /\ DOMAIN Loads(h, y) = 1 .. Min2(h.count, Len(y))
        /\ DOMAIN Loads(h, x) = 1 .. Min2(h.count, Len(x))
        /\ DOMAIN Loads(h, x) \subseteq DOMAIN x
        /\ \A i \in DOMAIN Loads(h, x) : Loads(h, x)[i] = x[i]
        /\ \A i \in DOMAIN Loads(h, y) : Loads(h, y)[i] = y[i]
    BY <1>1, <1>2, LoadsHolds
  <2>2. DOMAIN Loads(h, y) = DOMAIN Loads(h, x)
    BY <1>2, <2>1
  <2> QED
    BY <1>2, <2>1, <2>2
<1>7. /\ Loaded(d) = Loads(h, x) /\ Loaded(d2) = Loads(h, y)
      /\ d.frames = fs /\ d2.frames = fs /\ d.sqi = x /\ d2.sqi = y
      /\ d.hdr = h /\ d2.hdr = h
  BY DEF Loaded, DiskOf
<1>8. d2 \in Disk
  BY <1>1, <1>2 DEF DiskOf, Disk
<1> HIDE DEF d, d2
<1>9. Fine(d2)
  <2>1. InUse(fs, y)
    <3>1. InUse(fs, x)
      BY <1>1, <1>7 DEF Fine
    <3> QED
      BY <1>2, <3>1 DEF InUse
  <2>2. ASSUME NEW i \in DOMAIN Loads(h, y)
        PROVE  Housed(fs, Loads(h, y)[i])
    <3>1. i \in DOMAIN Loads(h, x) /\ Housed(fs, Loads(h, x)[i])
      BY <1>1, <1>6, <1>7 DEF Fine
    <3> QED
      BY <1>6, <3>1 DEF Housed
  <2> QED
    BY <1>7, <2>1, <2>2 DEF Fine
<1>10. Quiet(d, d2)
  <2>1. [i \in DOMAIN Loads(h, y) |-> fs[Loads(h, y)[i].offset].msg]
          = [i \in DOMAIN Loads(h, x) |-> fs[Loads(h, x)[i].offset].msg]
    BY <1>6
  <2>2. View(d2) = View(d)
    BY <1>7, <2>1 DEF View, ShownAs
  <2> QED
    BY <1>6, <1>7, <2>2 DEF Quiet
<1>11. Itm(m, w) \in Item /\ Itm(m, w).write = w
  BY <1>1, <1>4 DEF Itm, Item, Plan
<1>12. View(d) \in {g.from, g.to}
  BY DEF Halfway, d, fs
<1>13. Good(g, d, Itm(m, w), d2)
  BY <1>1, <1>4, <1>8, <1>9, <1>10, <1>11, <1>12, QuietIsGood
<1>14. /\ Leads(g, Do(m, w), h, y) /\ Alike(m, Do(m, w))
       /\ Do(m, w).frames = fs
  BY <1>4, <1>5, <1>13, DoLeads DEF d, d2, fs
<1>15. View(d2) = View(d)
  BY <1>10 DEF Quiet
<1> QED
  BY <1>14, <1>15 DEF y, d, d2, fs

\* A message rewritten, in its frame and in its record.
LEMMA RewrittenHolds ==
    ASSUME NEW b, NEW fs, NEW ix, NEW c, Arranged(b, fs, ix, c, {}), NEW n,
           NEW e, Renamed(ix, n, e), NEW msg \in Letter, msg.uid = ix[n].uid,
           Room[msg.text] <= fs[ix[n].offset].room, e.rcvd = msg.rcvd
    PROVE  Arranged(b, Rewrite(fs, ix[n].offset, msg), Anew(ix, n, e), c, {})
<1> DEFINE at == ix[n].offset
           fs2 == Rewrite(fs, at, msg)
           y == Anew(ix, n, e)
           u == Offs(ix)
<1>1. /\ b.endFrame \in 1 .. MaxFrame + 1 /\ u \in Seq(Nat)
      /\ c \in Seq(Nat) /\ Parted(b.endFrame, u, c, {})
      /\ fs \in [1 .. MaxFrame -> Frame] /\ ix \in Seq(Entry)
      /\ Chain(fs, u, "normal") /\ Chain(fs, c, "free") /\ Lettered(fs, ix)
      /\ n \in DOMAIN ix /\ e.offset = ix[n].offset /\ e.uid = ix[n].uid
  BY OffsHolds DEF Arranged, Renamed
<1>2. /\ DOMAIN u = DOMAIN ix /\ \A i \in DOMAIN ix : u[i] = ix[i].offset
  BY <1>1, OffsHolds
<1>3. /\ \A i \in DOMAIN u : u[i] \in 1 .. MaxFrame
      /\ \A i \in DOMAIN c : c[i] \in 1 .. MaxFrame
      /\ at \in 1 .. MaxFrame
  <2>1. /\ \A o \in ToSet(u) \cup ToSet(c) \cup {} : o \in 1 .. MaxFrame
        /\ \A i \in DOMAIN u : u[i] \in ToSet(u)
        /\ \A i \in DOMAIN c : c[i] \in ToSet(c)
    BY <1>1, InChain
  <2> QED
    BY <1>1, <1>2, <2>1
<1>4. \A i \in DOMAIN ix : ix[i].offset = at => i = n
  BY <1>1, <1>2 DEF Parted, OneToOne
<1> HIDE DEF at, u
<1>5. /\ fs2 \in [1 .. MaxFrame -> Frame] /\ fs2[at].msg = msg
      /\ \A o \in 1 .. MaxFrame :
                /\ o # at => fs2[o] = fs[o]
                /\ fs2[o].type = fs[o].type
                /\ fs2[o].next = fs[o].next
                /\ fs2[o].prev = fs[o].prev
                /\ fs2[o].room = fs[o].room
  BY <1>1, <1>3, RewriteHolds, ZenonT(30)
<1> HIDE DEF fs2
<1>6. /\ y \in Seq(Entry) /\ Len(y) = Len(ix) /\ DOMAIN y = DOMAIN ix
      /\ \A i \in DOMAIN ix : /\ y[i].offset = ix[i].offset
                              /\ y[i].uid = ix[i].uid
                              /\ i # n => y[i] = ix[i]
      /\ y[n] = e /\ Offs(y) = u
  <2> HIDE DEF y
  <2> QED
    BY RenamedHolds DEF y, u
<1> HIDE DEF y
<1>7. Chain(fs2, u, "normal")
  <2>1. \A i \in DOMAIN u : /\ fs2[u[i]].type = fs[u[i]].type
                            /\ fs2[u[i]].prev = fs[u[i]].prev
                            /\ fs2[u[i]].next = fs[u[i]].next
    BY <1>3, <1>5
  <2> QED
    BY <1>1, <2>1, ChainSame
<1>8. Chain(fs2, c, "free")
  <2>1. \A i \in DOMAIN c : /\ fs2[c[i]].type = fs[c[i]].type
                            /\ fs2[c[i]].prev = fs[c[i]].prev
                            /\ fs2[c[i]].next = fs[c[i]].next
    BY <1>3, <1>5
  <2> QED
    BY <1>1, <2>1, ChainSame
<1>9. Lettered(fs2, y)
  <2>1. SUFFICES ASSUME NEW i \in DOMAIN ix
                 PROVE  /\ Housed(fs2, y[i])
                        /\ fs2[y[i].offset].msg.rcvd = y[i].rcvd
    BY <1>6 DEF Lettered
  <2>2. CASE i = n
    <3>1. y[i].offset = at /\ y[i].uid = msg.uid /\ y[i].rcvd = msg.rcvd
      BY <1>1, <1>6, <2>2 DEF at
    <3>2. Room[msg.text] <= fs2[at].room
      BY <1>3, <1>5 DEF at
    <3> QED
      BY <1>5, <3>1, <3>2 DEF Housed
  <2>3. CASE i # n
    <3>1. y[i] = ix[i] /\ ix[i].offset # at /\ ix[i].offset \in 1 .. MaxFrame
      BY <1>2, <1>3, <1>4, <1>6, <2>3
    <3>2. fs2[ix[i].offset] = fs[ix[i].offset]
      BY <1>5, <3>1
    <3> QED
      BY <1>1, <3>1, <3>2 DEF Lettered, Housed
  <2> QED
    BY <2>2, <2>3
<1> QED
  BY <1>1, <1>5, <1>6, <1>7, <1>8, <1>9 DEF Arranged, y, fs2, at, u

\* The area with one message rewritten.
Rewrote(a, n, msg) == [messages |-> [a.messages EXCEPT ![n] = msg],
                       nextUid |-> a.nextUid]

LEMMA ViewRewrote ==
    ASSUME NEW h \in Header, NEW fs \in [1 .. MaxFrame -> Frame],
           NEW x \in Seq(Entry), h.count = Len(x), OneToOne(Offs(x)),
           InUse(fs, x), NEW n \in DOMAIN x, NEW msg \in Letter
    PROVE  /\ View(DiskOf(h, Rewrite(fs, x[n].offset, msg), x))
                    = Rewrote(View(DiskOf(h, fs, x)), n, msg)
           /\ n \in DOMAIN View(DiskOf(h, fs, x)).messages
           /\ View(DiskOf(h, fs, x)).messages[n] = fs[x[n].offset].msg
<1> DEFINE at == x[n].offset
           fs2 == Rewrite(fs, at, msg)
<1>1. /\ \A i \in DOMAIN x : x[i].offset \in 1 .. MaxFrame
      /\ \A i \in DOMAIN x : x[i].offset = at => i = n
  BY OffsHolds DEF InUse, OneToOne
<1>2. at \in 1 .. MaxFrame
  BY <1>1
<1> HIDE DEF at
<1>3. /\ fs2[at].msg = msg
      /\ \A o \in 1 .. MaxFrame : o # at => fs2[o] = fs[o]
  <2>1. /\ fs2 \in [1 .. MaxFrame -> Frame]
        /\ fs2[at].msg = msg
        /\ \A o \in 1 .. MaxFrame :
                /\ o # at => fs2[o] = fs[o]
                /\ fs2[o].type = fs[o].type
                /\ fs2[o].next = fs[o].next
                /\ fs2[o].prev = fs[o].prev
                /\ fs2[o].room = fs[o].room
    BY <1>2, RewriteHolds, ZenonT(30)
  <2> HIDE DEF fs2
  <2> QED
    BY <2>1
<1> HIDE DEF fs2
<1>4. \A i \in DOMAIN x : fs2[x[i].offset].msg
                            = IF i = n THEN msg ELSE fs[x[i].offset].msg
  BY <1>1, <1>3 DEF at
<1>5. View(DiskOf(h, fs2, x))
            = [messages |-> [i \in DOMAIN x |-> fs2[x[i].offset].msg],
               nextUid |-> h.nextUid]
  BY WholeView
<1>6. View(DiskOf(h, fs, x))
            = [messages |-> [i \in DOMAIN x |-> fs[x[i].offset].msg],
               nextUid |-> h.nextUid]
  BY WholeView
<1>7. [i \in DOMAIN x |-> fs2[x[i].offset].msg]
        = [[i \in DOMAIN x |-> fs[x[i].offset].msg] EXCEPT ![n] = msg]
  BY <1>4
<1>8. View(DiskOf(h, fs2, x)) = Rewrote(View(DiskOf(h, fs, x)), n, msg)
  <2> DEFINE A == [i \in DOMAIN x |-> fs[x[i].offset].msg]
             B == [i \in DOMAIN x |-> fs2[x[i].offset].msg]
  <2>1. B = [A EXCEPT ![n] = msg]
    BY <1>7
  <2>2. View(DiskOf(h, fs2, x)) = [messages |-> B, nextUid |-> h.nextUid]
    BY <1>5
  <2>3. View(DiskOf(h, fs, x)) = [messages |-> A, nextUid |-> h.nextUid]
    BY <1>6
  <2> HIDE DEF A, B
  <2>4. Rewrote([messages |-> A, nextUid |-> h.nextUid], n, msg)
            = [messages |-> [A EXCEPT ![n] = msg], nextUid |-> h.nextUid]
    BY DEF Rewrote
  <2> QED
    BY <2>1, <2>2, <2>3, <2>4
<1>9. /\ n \in DOMAIN View(DiskOf(h, fs, x)).messages
      /\ View(DiskOf(h, fs, x)).messages[n] = fs[x[n].offset].msg
  BY <1>6
<1> QED
  BY <1>8, <1>9 DEF fs2, at

\* A message of the base, and what a call that works on it relies on.
Standing(n) ==
    /\ hdr \in Header /\ frames \in [1 .. MaxFrame -> Frame] /\ sqi \in Seq(Entry)
    /\ hdr.count = Len(sqi)
    /\ now = DiskOf(hdr, frames, sqi)
    /\ OneToOne(Offs(sqi))
    /\ InUse(frames, sqi)
    /\ n \in DOMAIN sqi
    /\ sqi[n].offset \in 1 .. MaxFrame
    /\ sqi[n] \in Entry
    /\ frames[sqi[n].offset] \in Frame
    /\ frames[sqi[n].offset].type = "normal"
    /\ frames[sqi[n].offset].msg \in Letter
    /\ frames[sqi[n].offset].msg.uid = sqi[n].uid
    /\ frames[sqi[n].offset].msg.rcvd = sqi[n].rcvd
    /\ Room[frames[sqi[n].offset].msg.text] <= frames[sqi[n].offset].room

LEMMA Stands ==
    ASSUME now \in Disk, Whole(now), NEW n \in DOMAIN sqi
    PROVE  Standing(n)
<1>1. /\ hdr \in Header /\ frames \in [1 .. MaxFrame -> Frame]
      /\ sqi \in Seq(Entry) /\ hdr.count = Len(sqi)
      /\ now = DiskOf(hdr, frames, sqi)
  BY DEF now, Disk, Whole, DiskOf
<1>2. PICK c : Arranged(hdr, frames, sqi, c, {})
  BY DEF Whole, now
<1>3. /\ OneToOne(Offs(sqi)) /\ Lettered(frames, sqi)
      /\ Chain(frames, Offs(sqi), "normal")
  BY <1>2 DEF Arranged, Parted
<1>4. InUse(frames, sqi)
  <2>1. Fine(DiskOf(hdr, frames, sqi))
    BY <1>1, <1>2, ArrangedFine
  <2> QED
    BY <2>1 DEF Fine, DiskOf
<1>5. sqi[n].offset \in 1 .. MaxFrame /\ sqi[n] \in Entry
  BY <1>1, <1>4 DEF InUse
<1>6. frames[sqi[n].offset] \in Frame
  BY <1>1, <1>5
<1>7. frames[sqi[n].offset].type = "normal"
  BY <1>1, <1>3, OffsHolds DEF Chain
<1> QED
  BY <1>1, <1>3, <1>4, <1>5, <1>6, <1>7 DEF Standing, Lettered, Housed

\* One letter written over another, and its record after it.
Refiled(m, m2, n, e) ==
    /\ m2 = Do([m EXCEPT !.index = Anew(m.index, n, e)],
               [kind |-> "entry", at |-> n, entry |-> e])
    /\ Renamed(m.index, n, e)

LEMMA RefiledHolds ==
    ASSUME NEW g, NEW m, NEW h, NEW x, Leads(g, m, h, x), m.ok,
           Halfway(g, m, h, x), m.index = x, NEW n, NEW e, NEW m2,
           Refiled(m, m2, n, e)
    PROVE  /\ Leads(g, m2, h, Anew(x, n, e))
           /\ m2.frames = m.frames
           /\ m2.ok
           /\ m2.full = m.full
           /\ View(DiskOf(h, m.frames, Anew(x, n, e)))
                    = View(DiskOf(h, m.frames, x))
<1> DEFINE w == [kind |-> "entry", at |-> n, entry |-> e]
           y == Anew(x, n, e)
           m1 == [m EXCEPT !.index = y]
<1>1. Renamed(x, n, e) /\ m2 = Do(m1, w)
  BY DEF Refiled
<1>2. y \in Seq(Entry)
  BY <1>1, RenamedHolds
<1>3. m \in Plan
  BY LeadsTyped
<1> HIDE DEF y
<1>4. /\ m1 \in Plan /\ m1.todo = m.todo /\ m1.frames = m.frames /\ m1.ok
      /\ m1.full = m.full
  BY <1>2, <1>3 DEF Plan
<1> HIDE DEF m1
<1>5. Leads(g, m1, h, x) /\ Halfway(g, m1, h, x)
  BY <1>4, LeadsOther DEF Halfway
<1>6. /\ Leads(g, Do(m1, w), h, Anew(x, n, e))
      /\ Alike(m1, Do(m1, w))
      /\ Do(m1, w).frames = m1.frames
      /\ View(DiskOf(h, m1.frames, Anew(x, n, e)))
                    = View(DiskOf(h, m1.frames, x))
  BY <1>1, <1>4, <1>5, EntryWrite
<1> QED
  BY <1>1, <1>4, <1>6 DEF Alike

Marks(msg, bit) == IF bit = "rcvd" THEN [msg EXCEPT !.rcvd = TRUE]
                                   ELSE [msg EXCEPT !.seen = TRUE]

\* The area with marks set on one message.
MarkedIn(a, b) ==
    \E n \in DOMAIN a.messages, seen, rcvd \in BOOLEAN :
        b = [messages |-> [a.messages EXCEPT ![n].seen = @ \/ seen,
                                             ![n].rcvd = @ \/ rcvd],
             nextUid |-> a.nextUid]

LEMMA MarksHolds ==
    ASSUME NEW a, NEW n \in DOMAIN a.messages, a.messages[n] \in Letter,
           NEW bit \in {"seen", "rcvd"}
    PROVE  /\ Marks(a.messages[n], bit) \in Letter
           /\ Marks(a.messages[n], bit).uid = a.messages[n].uid
           /\ Marks(a.messages[n], bit).text = a.messages[n].text
           /\ Marks(a.messages[n], bit).rcvd
                    = (bit = "rcvd" \/ a.messages[n].rcvd)
           /\ MarkedIn(a, Rewrote(a, n, Marks(a.messages[n], bit)))
<1> DEFINE msg == a.messages[n]
           msg2 == Marks(msg, bit)
<1>1. msg \in Letter
  OBVIOUS
<1> HIDE DEF msg
<1>2. /\ msg.seen \in BOOLEAN /\ msg.rcvd \in BOOLEAN
  BY <1>1 DEF Letter
<1>3. CASE bit = "rcvd"
  <2>1. msg2 = [msg EXCEPT !.rcvd = TRUE]
    BY <1>3 DEF Marks
  <2>2. /\ msg2 \in Letter /\ msg2.uid = msg.uid /\ msg2.text = msg.text
        /\ msg2.rcvd = TRUE
    BY <1>1, <2>1 DEF Letter
  <2>3. [[msg EXCEPT !.seen = msg.seen \/ FALSE] EXCEPT !.rcvd = msg.rcvd \/ TRUE] = msg2
    <3>1. (msg.seen \/ FALSE) = msg.seen /\ (msg.rcvd \/ TRUE) = TRUE
      BY <1>2
    <3>2. [msg EXCEPT !.seen = msg.seen] = msg
      BY <1>1 DEF Letter
    <3> QED
      BY <2>1, <3>1, <3>2
  <2>4. [a.messages EXCEPT ![n].seen = @ \/ FALSE, ![n].rcvd = @ \/ TRUE]
            = [a.messages EXCEPT ![n] = msg2]
    BY <2>3 DEF msg
  <2>5. MarkedIn(a, Rewrote(a, n, msg2))
    BY <2>4 DEF MarkedIn, Rewrote
  <2> QED
    BY <1>3, <2>2, <2>5 DEF msg
<1>4. CASE bit = "seen"
  <2>1. msg2 = [msg EXCEPT !.seen = TRUE]
    BY <1>4 DEF Marks
  <2>2. /\ msg2 \in Letter /\ msg2.uid = msg.uid /\ msg2.text = msg.text
        /\ msg2.rcvd = msg.rcvd
    BY <1>1, <2>1 DEF Letter
  <2>3. [[msg EXCEPT !.seen = msg.seen \/ TRUE] EXCEPT !.rcvd = msg.rcvd \/ FALSE] = msg2
    <3>1. (msg.rcvd \/ FALSE) = msg.rcvd /\ (msg.seen \/ TRUE) = TRUE
      BY <1>2
    <3>2. [msg2 EXCEPT !.rcvd = msg.rcvd] = msg2
      BY <2>2 DEF Letter
    <3> QED
      BY <2>1, <3>1, <3>2
  <2>4. [a.messages EXCEPT ![n].seen = @ \/ TRUE, ![n].rcvd = @ \/ FALSE]
            = [a.messages EXCEPT ![n] = msg2]
    BY <2>3 DEF msg
  <2>5. MarkedIn(a, Rewrote(a, n, msg2))
    BY <2>4 DEF MarkedIn, Rewrote
  <2>6. (bit = "rcvd" \/ msg.rcvd) = msg.rcvd
    BY <1>2, <1>4
  <2> QED
    BY <2>2, <2>5, <2>6 DEF msg
<1> QED
  BY <1>3, <1>4

MarkWrite(r, n, bit) ==
    Do(r, [kind |-> "message", at |-> r.index[n].offset,
           msg |-> Marks(r.frames[r.index[n].offset].msg, bit)])

MarkRun(r, n, bit) ==
    IF ~Holds(r, n) THEN Refuse(r)
    ELSE IF (IF bit = "rcvd" THEN r.frames[r.index[n].offset].msg.rcvd
             ELSE r.frames[r.index[n].offset].msg.seen) THEN r
    ELSE IF bit = "rcvd" THEN MirrorReceived(MarkWrite(r, n, bit), n)
    ELSE MarkWrite(r, n, bit)

LEMMA MarkIs ==
    ASSUME NEW p, NEW n, NEW bit
    PROVE  PlanMark(p, n, bit) = Return(Then(Reload(p), LAMBDA r : MarkRun(r, n, bit)))
BY DEF PlanMark, MarkRun, MarkWrite, Marks

\* setAttributes().
LEMMA MarkPlan ==
    ASSUME now \in Disk, Whole(now), NEW p, NEW n, NEW bit \in {"seen", "rcvd"},
           NEW call
    PROVE  \E v : /\ Planned(call, PlanMark(p, n, bit), v)
                  /\ v = View(now) \/ MarkedIn(View(now), v)
<1> DEFINE r == Reload(p)
           m == MarkRun(r, n, bit)
<1>1. Begun(Aim(call, View(now)), r)
  BY ReloadHolds
<1>2. r.ok /\ r.index = sqi /\ r.frames = frames /\ r.base = hdr
  BY <1>1 DEF Begun
<1>3. PlanMark(p, n, bit) = Return(m)
  <2>1. PlanMark(p, n, bit) = Return(Then(r, LAMBDA q : MarkRun(q, n, bit)))
    BY MarkIs
  <2> HIDE DEF r
  <2> QED
    BY <1>2, <2>1 DEF Then
<1>4. CASE ~Holds(r, n)
  <2>1. m = Refuse(r)
    BY <1>4 DEF MarkRun
  <2>2. Planned(call, Return(m), View(now))
    <3> HIDE DEF m
    <3> QED
      BY <2>1, NothingPlan
  <2> QED
    BY <1>3, <2>2
<1>5. CASE Holds(r, n) /\ m = r
  <2>1. Planned(call, Return(m), View(now))
    <3> HIDE DEF m
    <3> QED
      BY <1>5, NothingPlan
  <2> QED
    BY <1>3, <2>1
<1>6. CASE Holds(r, n) /\ m # r
  <2> DEFINE at == sqi[n].offset
             msg == frames[at].msg
             msg2 == Marks(msg, bit)
             w == [kind |-> "message", at |-> at, msg |-> msg2]
             m1 == Do(r, w)
             fs2 == Rewrite(frames, at, msg2)
             e == [sqi[n] EXCEPT !.rcvd = msg2.rcvd]
             v == Rewrote(View(now), n, msg2)
             g == Aim(call, v)
  <2>1. n \in DOMAIN sqi
    BY <1>2, <1>6 DEF Holds
  <2>2. Standing(n)
    BY <2>1, Stands
  <2>3. /\ hdr \in Header /\ frames \in [1 .. MaxFrame -> Frame]
        /\ sqi \in Seq(Entry) /\ hdr.count = Len(sqi)
        /\ now = DiskOf(hdr, frames, sqi) /\ OneToOne(Offs(sqi))
        /\ InUse(frames, sqi) /\ at \in 1 .. MaxFrame /\ sqi[n] \in Entry
        /\ frames[at] \in Frame /\ msg \in Letter
        /\ msg.uid = sqi[n].uid /\ msg.rcvd = sqi[n].rcvd
        /\ Room[msg.text] <= frames[at].room
    BY <2>2 DEF Standing
  <2>4. IF bit = "rcvd" THEN ~ msg.rcvd ELSE ~ msg.seen
    BY <1>2, <1>6 DEF MarkRun
  <2>5. m = IF bit = "rcvd" THEN MirrorReceived(m1, n) ELSE m1
    <3>1. m1 = MarkWrite(r, n, bit)
      BY <1>2 DEF MarkWrite
    <3> HIDE DEF m1, r
    <3> QED
      BY <1>2, <1>6, <3>1 DEF MarkRun
  <2>6. /\ msg2 \in Letter /\ msg2.uid = msg.uid /\ msg2.text = msg.text
        /\ msg2.rcvd = (bit = "rcvd" \/ msg.rcvd)
        /\ MarkedIn(View(now), v)
        /\ View(DiskOf(hdr, fs2, sqi)) = v
    <3> HIDE DEF at
    <3>1. /\ View(DiskOf(hdr, Rewrite(frames, sqi[n].offset, msg), sqi))
                    = Rewrote(View(DiskOf(hdr, frames, sqi)), n, msg)
          /\ n \in DOMAIN View(DiskOf(hdr, frames, sqi)).messages
          /\ View(DiskOf(hdr, frames, sqi)).messages[n]
                    = frames[sqi[n].offset].msg
      BY <2>1, <2>3, ViewRewrote
    <3>2. n \in DOMAIN View(now).messages /\ View(now).messages[n] = msg
      BY <2>3, <3>1 DEF at
    <3> HIDE DEF msg
    <3>3. /\ msg2 \in Letter /\ msg2.uid = msg.uid /\ msg2.text = msg.text
          /\ msg2.rcvd = (bit = "rcvd" \/ msg.rcvd)
          /\ MarkedIn(View(now), v)
      BY <2>3, <3>2, MarksHolds
    <3> HIDE DEF msg2
    <3>4. View(DiskOf(hdr, Rewrite(frames, sqi[n].offset, msg2), sqi))
                    = Rewrote(View(DiskOf(hdr, frames, sqi)), n, msg2)
      BY <2>1, <2>3, <3>3, ViewRewrote
    <3> QED
      BY <2>3, <3>3, <3>4 DEF at
  <2>7. Begun(g, r)
    BY ReloadHolds
  <2>8. /\ Leads(g, r, hdr, sqi) /\ ~ r.full /\ r \in Plan
    BY <2>7, LeadsTyped DEF Begun
  <2>9. g.from = View(now) /\ g.to = v
    BY DEF Aim
  <2> HIDE DEF r, m, g, v, msg2, msg, fs2
  <2>10. /\ Leads(g, m1, hdr, sqi)
         /\ Alike(r, m1)
         /\ m1.frames = fs2
    <3>1. Rewritable(g, r, hdr, sqi, n, msg2)
      <4>1. msg = frames[sqi[n].offset].msg
        BY DEF msg
      <4> HIDE DEF at
      <4> QED
        BY <1>2, <2>1, <2>3, <2>6, <2>8, <4>1 DEF Rewritable, at
    <3>2. w = [kind |-> "message", at |-> sqi[n].offset, msg |-> msg2]
      BY DEF w
    <3>3. View(DiskOf(hdr, r.frames, sqi)) = g.from
      BY <1>2, <2>3, <2>9
    <3>4. View(DiskOf(hdr, Rewrite(r.frames, sqi[n].offset, msg2), sqi)) = g.to
      BY <1>2, <2>6, <2>9 DEF fs2
    <3> HIDE DEF w
    <3>5. /\ Leads(g, Do(r, w), hdr, sqi)
          /\ Alike(r, Do(r, w))
          /\ Do(r, w).frames = Rewrite(r.frames, sqi[n].offset, msg2)
      BY <3>1, <3>2, <3>3, <3>4, LetterWrite
    <3> QED
      BY <1>2, <3>5 DEF fs2
  <2> HIDE DEF m1
  <2>11. /\ m1 \in Plan /\ m1.ok /\ m1.index = sqi /\ m1.base = hdr
         /\ Halfway(g, m1, hdr, sqi)
    BY <1>2, <2>6, <2>9, <2>10, LeadsTyped DEF Alike, Halfway
  <2>12. Renamed(sqi, n, e) /\ e.rcvd = msg2.rcvd
    BY <2>1, <2>3, <2>6 DEF Renamed, Entry, Letter
  <2>13. PICK c : Arranged(hdr, frames, sqi, c, {})
    BY DEF Whole, now
  <2>14. Arranged(hdr, fs2, Anew(sqi, n, e), c, {})
    <3>1. msg2.uid = sqi[n].uid /\ Room[msg2.text] <= frames[sqi[n].offset].room
      BY <2>3, <2>6 DEF msg
    <3> HIDE DEF e, at
    <3>2. Arranged(hdr, Rewrite(frames, sqi[n].offset, msg2), Anew(sqi, n, e), c, {})
      BY <2>6, <2>12, <2>13, <3>1, RewrittenHolds
    <3> QED
      BY <3>2 DEF fs2, at
  <2>15. Whole(DiskOf(hdr, fs2, Anew(sqi, n, e)))
    <3>1. Len(Anew(sqi, n, e)) = Len(sqi)
      BY <2>12, RenamedHolds
    <3> HIDE DEF e
    <3> QED
      BY <2>3, <2>14, <3>1 DEF Whole, DiskOf
  <2>16. CASE bit = "rcvd"
    <3>1. ~ m1.index[n].rcvd
      BY <2>3, <2>4, <2>11, <2>16
    <3>2. Refiled(m1, m, n, e)
      <4>1. [m1 EXCEPT !.index[n].rcvd = TRUE] = [m1 EXCEPT !.index = Anew(m1.index, n, e)]
        <5>1. e = [m1.index[n] EXCEPT !.rcvd = TRUE]
          <6>1. msg2.rcvd = TRUE
            BY <2>6, <2>16
          <6> QED
            BY <2>11, <6>1
        <5> HIDE DEF e
        <5> QED
          BY <5>1 DEF Anew
      <4>2. m = WriteIndexEntry([m1 EXCEPT !.index[n].rcvd = TRUE], n)
        BY <2>5, <2>16, <3>1 DEF MirrorReceived
      <4>3. PICK m3 : m3 = [m1 EXCEPT !.index = Anew(m1.index, n, e)]
        OBVIOUS
      <4>4. m3.index[n] = e
        <5>1. Anew(m1.index, n, e)[n] = e
          BY <2>11, <2>12, RenamedHolds
        <5>2. m3.index = Anew(m1.index, n, e)
          BY <2>11, <4>3 DEF Plan
        <5> QED
          BY <5>1, <5>2
      <4> HIDE DEF e
      <4>5. m = Do(m3, [kind |-> "entry", at |-> n, entry |-> e])
        BY <4>1, <4>2, <4>3, <4>4 DEF WriteIndexEntry
      <4> QED
        BY <2>11, <2>12, <4>3, <4>5 DEF Refiled
    <3> HIDE DEF e
    <3>3. /\ Leads(g, m, hdr, Anew(sqi, n, e))
          /\ m.frames = m1.frames
          /\ View(DiskOf(hdr, m1.frames, Anew(sqi, n, e)))
                    = View(DiskOf(hdr, m1.frames, sqi))
      BY <2>10, <2>11, <3>2, RefiledHolds
    <3>4. Planned(call, Return(m), v)
      <4>1. /\ m.frames = fs2
            /\ View(DiskOf(hdr, fs2, Anew(sqi, n, e))) = v
        BY <2>6, <2>10, <3>3
      <4>2. Leads(Aim(call, v), m, hdr, Anew(sqi, n, e))
        BY <3>3 DEF g
      <4> QED
        BY <2>15, <4>1, <4>2, PlannedBy
    <3> QED
      BY <1>3, <2>6, <3>4
  <2>17. CASE bit = "seen"
    <3>1. m = m1
      BY <2>5, <2>17
    <3>2. Anew(sqi, n, e) = sqi
      <4>1. e = sqi[n]
        <5>1. msg2.rcvd = sqi[n].rcvd
          BY <2>3, <2>6, <2>17 DEF Entry
        <5> QED
          BY <2>3, <5>1 DEF Entry
      <4> QED
        BY <2>3, <4>1 DEF Anew
    <3>3. Planned(call, Return(m), v)
      <4>1. m.frames = fs2 /\ View(DiskOf(hdr, m.frames, sqi)) = v
        BY <2>6, <2>10, <3>1
      <4>2. Leads(Aim(call, v), m, hdr, sqi)
        BY <2>10, <3>1 DEF g
      <4>3. Whole(DiskOf(hdr, m.frames, sqi))
        BY <2>15, <3>2, <4>1
      <4> QED
        BY <4>1, <4>2, <4>3, PlannedBy
    <3> QED
      BY <1>3, <2>6, <3>3
  <2> QED
    BY <2>16, <2>17
<1> QED
  BY <1>4, <1>5, <1>6

(***************************************************************************)
(* A frame given back                                                      *)
(***************************************************************************)

\* The header of a frame in use written, its message left as it is.
Headed(fs, at, f) == [fs EXCEPT ![at] = [f EXCEPT !.msg = fs[at].msg]]

LEMMA HeadedHolds ==
    ASSUME NEW fs \in [1 .. MaxFrame -> Frame], NEW at \in 1 .. MaxFrame,
           NEW f \in Frame, f.type # "free"
    PROVE  /\ Headed(fs, at, f) \in [1 .. MaxFrame -> Frame]
           /\ Headed(fs, at, f)[at].type = f.type
           /\ Headed(fs, at, f)[at].next = f.next
           /\ Headed(fs, at, f)[at].prev = f.prev
           /\ Headed(fs, at, f)[at].room = f.room
           /\ Headed(fs, at, f)[at].msg = fs[at].msg
           /\ \A o \in 1 .. MaxFrame : o # at => Headed(fs, at, f)[o] = fs[o]
           /\ FramesAfter([kind |-> "head", at |-> at, frame |-> f], fs)
                    = Headed(fs, at, f)
<1> DEFINE f2 == [f EXCEPT !.msg = fs[at].msg]
           fs2 == Headed(fs, at, f)
<1>1. fs[at].msg \in Letter \cup {NoMsg}
  <2>1. fs[at] \in Frame
    OBVIOUS
  <2> QED
    BY <2>1 DEF Frame
<1>2. /\ f2 \in Frame /\ f2.msg = fs[at].msg /\ f2.type = f.type
      /\ f2.next = f.next /\ f2.prev = f.prev /\ f2.room = f.room
  BY <1>1 DEF Frame
<1>3. fs2 = [fs EXCEPT ![at] = f2]
  BY DEF Headed
<1>4. FramesAfter([kind |-> "head", at |-> at, frame |-> f], fs) = fs2
  BY DEF FramesAfter, Headed
<1> HIDE DEF f2, fs2
<1>5. /\ fs2 \in [1 .. MaxFrame -> Frame] /\ fs2[at] = f2
      /\ \A o \in 1 .. MaxFrame : o # at => fs2[o] = fs[o]
  BY <1>2, <1>3
<1> QED
  BY <1>2, <1>4, <1>5 DEF fs2

GivenBack(f, last) ==
    [f EXCEPT !.type = "free", !.next = 0, !.prev = last]

\* The header of a frame given back.
Freed(fs, at, f, last) ==
    [fs EXCEPT ![at] = [f EXCEPT !.type = "free", !.next = 0, !.prev = last,
                                 !.msg = NoMsg]]

LEMMA FreedHolds ==
    ASSUME NEW fs \in [1 .. MaxFrame -> Frame], NEW at \in 1 .. MaxFrame,
           NEW f \in Frame, NEW last \in Nat
    PROVE  /\ Freed(fs, at, f, last) \in [1 .. MaxFrame -> Frame]
           /\ Freed(fs, at, f, last)[at].type = "free"
           /\ Freed(fs, at, f, last)[at].next = 0
           /\ Freed(fs, at, f, last)[at].prev = last
           /\ \A o \in 1 .. MaxFrame : o # at => Freed(fs, at, f, last)[o] = fs[o]
           /\ FramesAfter([kind |-> "head", at |-> at,
                           frame |-> GivenBack(f, last)], fs)
                    = Freed(fs, at, f, last)
           /\ GivenBack(f, last) \in Frame
<1> DEFINE f1 == GivenBack(f, last)
           f2 == [f EXCEPT !.type = "free", !.next = 0, !.prev = last,
                           !.msg = NoMsg]
           fs2 == Freed(fs, at, f, last)
<1>1. f1 \in Frame /\ f1.type = "free" /\ [f1 EXCEPT !.msg = NoMsg] = f2
  BY DEF Frame, GivenBack
<1>2. /\ f2 \in Frame /\ f2.type = "free" /\ f2.next = 0 /\ f2.prev = last
  BY DEF Frame
<1>3. fs2 = [fs EXCEPT ![at] = f2]
  BY DEF Freed
<1> HIDE DEF f1, f2, fs2
<1>4. FramesAfter([kind |-> "head", at |-> at, frame |-> f1], fs) = fs2
  BY <1>1, <1>3 DEF FramesAfter
<1>5. /\ fs2 \in [1 .. MaxFrame -> Frame] /\ fs2[at] = f2
      /\ \A o \in 1 .. MaxFrame : o # at => fs2[o] = fs[o]
  BY <1>2, <1>3
<1> QED
  BY <1>1, <1>2, <1>4, <1>5 DEF fs2, f1

\* The header of the area written, where it loads what the old one does.
LEMMA HeaderWrite ==
    ASSUME NEW g, NEW m, NEW h, NEW x, Leads(g, m, h, x), m.ok,
           Halfway(g, m, h, x), Loads(m.base, x) = Loads(h, x),
           m.base.nextUid = h.nextUid
    PROVE  /\ Leads(g, WriteBaseHeader(m), m.base, x)
           /\ Alike(m, WriteBaseHeader(m))
           /\ WriteBaseHeader(m).frames = m.frames
           /\ View(DiskOf(m.base, m.frames, x)) = View(DiskOf(h, m.frames, x))
<1> DEFINE w == [kind |-> "header", base |-> m.base]
           fs == m.frames
           b == m.base
           d == DiskOf(h, fs, x)
           d2 == DiskOf(b, fs, x)
<1>1. /\ m \in Plan /\ h \in Header /\ x \in Seq(Entry) /\ b \in Header
      /\ fs \in [1 .. MaxFrame -> Frame]
      /\ Fine(d) /\ d \in Disk
  BY LeadsTyped DEF Leads
<1>2. w \in Write /\ w.kind = "header"
  BY <1>1 DEF Write
<1>3. b = HeaderAfter(w, h) /\ x = IndexAfter(w, x) /\ FramesAfter(w, fs) = fs
  BY DEF HeaderAfter, IndexAfter, FramesAfter
<1>4. /\ Loaded(d2) = Loaded(d) /\ d2.frames = fs /\ d.frames = fs
      /\ d2.sqi = x /\ d.sqi = x /\ d2.hdr.nextUid = d.hdr.nextUid
  BY DEF Loaded, DiskOf
<1>5. d2 \in Disk
  BY <1>1 DEF DiskOf, Disk
<1>6. View(d) \in {g.from, g.to}
  BY DEF Halfway
<1>7. Itm(m, w) \in Item /\ Itm(m, w).write = w
  BY <1>1, <1>2 DEF Itm, Item, Plan
<1>8. WriteBaseHeader(m) = Do(m, w)
  BY DEF WriteBaseHeader
<1> HIDE DEF d, d2, w, b, fs
<1>9. Quiet(d, d2)
  BY <1>4, SameLoaded
<1>10. Fine(d2)
  BY <1>1, <1>4 DEF Fine
<1>11. Good(g, d, Itm(m, w), d2)
  BY <1>1, <1>2, <1>5, <1>6, <1>7, <1>9, <1>10, QuietIsGood
<1>12. /\ Leads(g, Do(m, w), b, x) /\ Alike(m, Do(m, w))
       /\ Do(m, w).frames = fs
  BY <1>2, <1>3, <1>11, DoLeads DEF d, d2, fs
<1> QED
  BY <1>8, <1>9, <1>12 DEF Quiet, d, d2, b, fs

\* The base once a frame is on the free chain.
WithFree(b, at) ==
    [b EXCEPT !.firstFree = IF b.lastFree = 0 THEN at ELSE b.firstFree,
              !.lastFree = at]

LEMMA WithFreeHolds ==
    ASSUME NEW b \in Header, NEW at \in Nat
    PROVE  /\ WithFree(b, at) \in Header
           /\ WithFree(b, at).count = b.count
           /\ WithFree(b, at).nextUid = b.nextUid
           /\ WithFree(b, at).firstFrame = b.firstFrame
           /\ WithFree(b, at).lastFrame = b.lastFrame
           /\ WithFree(b, at).endFrame = b.endFrame
           /\ WithFree(b, at).firstFree
                    = IF b.lastFree = 0 THEN at ELSE b.firstFree
           /\ WithFree(b, at).lastFree = at
<1> DEFINE f == IF b.lastFree = 0 THEN at ELSE b.firstFree
<1>1. f \in Nat
  BY DEF Header
<1>2. WithFree(b, at) = [b EXCEPT !.firstFree = f, !.lastFree = at]
  BY DEF WithFree
<1> HIDE DEF f
<1>3. /\ WithFree(b, at) \in Header
      /\ WithFree(b, at).count = b.count
      /\ WithFree(b, at).nextUid = b.nextUid
      /\ WithFree(b, at).firstFrame = b.firstFrame
      /\ WithFree(b, at).lastFrame = b.lastFrame
      /\ WithFree(b, at).endFrame = b.endFrame
      /\ WithFree(b, at).firstFree = f
      /\ WithFree(b, at).lastFree = at
  BY <1>1, <1>2 DEF Header
<1> QED
  BY <1>3 DEF f

\* releaseFrame().
Released(g, m, m2, h, x, c, X, at) ==
    /\ Leads(g, m2, h, x)
    /\ m2.ok
    /\ m2.index = m.index
    /\ m2.full = m.full
    /\ m2.base.count = m.base.count
    /\ m2.base.nextUid = m.base.nextUid
    /\ Unseen(h, x, m.frames, m2.frames)
    /\ Arranged(m2.base, m2.frames, m2.index, Append(c, at), X \ {at})

LEMMA ReleaseIs ==
    ASSUME NEW m, NEW at, NEW f, NEW r,
           r = Do(Linking(m, m.base.lastFree, at, 0, 0),
                  [kind |-> "head", at |-> at,
                   frame |-> GivenBack(f, m.base.lastFree)]),
           r \in Plan, r.ok, r.base = m.base
    PROVE  ReleaseFrame(m, at, f) = [r EXCEPT !.base = WithFree(m.base, at)]
<1> DEFINE last == m.base.lastFree
           C(q) == [q EXCEPT !.base.firstFree = IF last = 0 THEN at ELSE @,
                             !.base.lastFree = at]
<1>1. ReleaseFrame(m, at, f) = Then(r, LAMBDA q : C(q))
  BY DEF ReleaseFrame, Linking, GivenBack
<1>2. ReleaseFrame(m, at, f) = C(r)
  BY <1>1 DEF Then
<1>3. r.base \in Header
  BY DEF Plan
<1>4. C(r) = [r EXCEPT !.base = WithFree(m.base, at)]
  BY <1>3 DEF WithFree, Plan, Header
<1> QED
  BY <1>2, <1>4

LEMMA ReleaseHolds ==
    ASSUME NEW g, NEW m, NEW h, NEW x, Leads(g, m, h, x), m.ok,
           Halfway(g, m, h, x), NEW c, NEW X,
           Arranged(m.base, m.frames, m.index, c, X), NEW at \in X,
           at \notin ToSet(Offs(x)), NEW f \in Frame
    PROVE  Released(g, m, ReleaseFrame(m, at, f), h, x, c, X, at)
<1> DEFINE last == m.base.lastFree
           b == m.base
           fs == m.frames
           u == Offs(m.index)
           r == Linking(m, last, at, 0, 0)
           fs1 == LinkedFrames(fs, last, at, 0, 0)
           w == [kind |-> "head", at |-> at,
                 frame |-> GivenBack(f, last)]
           fs2 == Freed(fs1, at, f, last)
           r2 == Do(r, w)
           m2 == ReleaseFrame(m, at, f)
           c2 == Append(c, at)
<1>1. /\ m \in Plan /\ h \in Header /\ x \in Seq(Entry) /\ b \in Header
      /\ fs \in [1 .. MaxFrame -> Frame] /\ m.index \in Seq(Entry)
  BY LeadsTyped
<1>2. /\ b.endFrame \in 1 .. MaxFrame + 1 /\ u \in Seq(Nat)
      /\ c \in Seq(Nat) /\ Parted(b.endFrame, u, c, X)
      /\ Chain(fs, u, "normal") /\ Chain(fs, c, "free") /\ Lettered(fs, m.index)
      /\ Bounds(u, b.firstFrame, b.lastFrame)
      /\ Bounds(c, b.firstFree, b.lastFree)
      /\ Len(m.index) < b.nextUid
  BY <1>1, OffsHolds DEF Arranged
<1>3. /\ \A o \in ToSet(u) \cup ToSet(c) \cup X :
                    o \in 1 .. MaxFrame /\ o < b.endFrame /\ o # 0
      /\ \A i : At(c, i) # 0 => At(c, i) \in ToSet(c)
      /\ \A i \in DOMAIN c : At(c, i) # 0 /\ c[i] \in ToSet(c)
  BY <1>2, InChain
<1>4. /\ OneToOne(c) /\ ToSet(u) \cap ToSet(c) = {} /\ ToSet(u) \cap X = {}
      /\ ToSet(c) \cap X = {} /\ ToSet(u) \cup ToSet(c) \cup X = 1 .. b.endFrame - 1
      /\ OneToOne(u)
  BY <1>2 DEF Parted
<1>5. last = At(c, Len(c)) /\ (last = 0 \/ last \in ToSet(c)) /\ last \in Nat
      /\ last \in 0 .. MaxFrame
  BY <1>2, <1>3, BoundsAssumption DEF Bounds
<1>6. at \in 1 .. MaxFrame /\ at \in Nat /\ at # 0 /\ at \notin ToSet(c)
      /\ at \notin ToSet(u) /\ at # last
  BY <1>3, <1>4, <1>5, BoundsAssumption
<1>7. Linkable(m, last) /\ Linkable(m, 0)
  <2>1. \A i : Linkable(m, At(c, i))
    BY Reads
  <2> QED
    BY <1>5, <2>1 DEF Linkable
<1>8. Calm(g, m, r, h, x, fs1)
  <2> HIDE DEF last
  <2> QED
    BY <1>6, <1>7, LinkingWrites
<1>9. /\ fs1 \in [1 .. MaxFrame -> Frame]
      /\ OnlyLinked(fs, fs1, last, at, 0, 0)
  <2>1. 0 \in 0 .. MaxFrame
    BY BoundsAssumption
  <2> HIDE DEF last
  <2> QED
    BY <1>1, <1>5, <1>6, <2>1, LinkedFramesHolds
<1> HIDE DEF last, r, fs1
<1>10. /\ Leads(g, r, h, x) /\ Alike(m, r) /\ r.frames = fs1 /\ r.ok
       /\ Unseen(h, x, fs, fs1) /\ Halfway(g, r, h, x)
  BY <1>8 DEF Calm, Alike, Unseen, Halfway
<1>11. /\ fs2 \in [1 .. MaxFrame -> Frame]
       /\ fs2[at].type = "free" /\ fs2[at].next = 0 /\ fs2[at].prev = last
       /\ \A o \in 1 .. MaxFrame : o # at => fs2[o] = fs1[o]
       /\ FramesAfter(w, fs1) = fs2
       /\ GivenBack(f, last) \in Frame
  <2>1. /\ fs2 \in [1 .. MaxFrame -> Frame]
        /\ fs2[at].type = "free"
        /\ fs2[at].next = 0
        /\ fs2[at].prev = last
        /\ \A o \in 1 .. MaxFrame : o # at => fs2[o] = fs1[o]
        /\ FramesAfter(w, fs1) = fs2
        /\ GivenBack(f, last) \in Frame
    <3>1. /\ fs1 \in [1 .. MaxFrame -> Frame] /\ at \in 1 .. MaxFrame
          /\ last \in Nat
      BY <1>5, <1>6, <1>9
    <3>2. /\ Freed(fs1, at, f, last) \in [1 .. MaxFrame -> Frame]
          /\ Freed(fs1, at, f, last)[at].type = "free"
          /\ Freed(fs1, at, f, last)[at].next = 0
          /\ Freed(fs1, at, f, last)[at].prev = last
          /\ \A o \in 1 .. MaxFrame :
                o # at => Freed(fs1, at, f, last)[o] = fs1[o]
          /\ FramesAfter([kind |-> "head", at |-> at,
                           frame |-> GivenBack(f, last)], fs1)
                    = Freed(fs1, at, f, last)
          /\ GivenBack(f, last) \in Frame
      <4> HIDE DEF w, fs2
      <4> QED
        BY <3>1, FreedHolds
    <3> QED
      BY <3>2
  <2> HIDE DEF fs2, w
  <2> QED
    BY <2>1
<1>12. w \in Write /\ w.kind = "head"
  BY <1>6, <1>11 DEF Write
<1> HIDE DEF fs2, w
<1>13. SameLetters(fs1, fs2, x)
  <2>1. SUFFICES ASSUME NEW i \in DOMAIN x
                 PROVE  /\ fs2[x[i].offset].type # "free"
                        /\ fs2[x[i].offset].msg = fs1[x[i].offset].msg
                        /\ fs2[x[i].offset].room = fs1[x[i].offset].room
    BY DEF SameLetters
  <2>2. InUse(fs1, x)
    <3>1. Fine(DiskOf(h, fs1, x))
      BY <1>10 DEF Leads
    <3> QED
      BY <3>1 DEF Fine, DiskOf
  <2>3. x[i].offset # at
    <3>1. x[i].offset \in ToSet(Offs(x))
      BY <1>1, OffsHolds
    <3> QED
      BY <3>1
  <2>4. x[i].offset \in 1 .. MaxFrame /\ fs1[x[i].offset].type # "free"
    BY <2>2 DEF InUse
  <2> QED
    BY <1>11, <2>3, <2>4
<1>14. Calm(g, r, r2, h, x, fs2)
  BY <1>10, <1>11, <1>12, <1>13, FrameWrite
<1> HIDE DEF r2
<1>15. /\ Leads(g, r2, h, x) /\ Alike(m, r2) /\ r2.frames = fs2 /\ r2.ok
       /\ Unseen(h, x, fs, fs2) /\ r2 \in Plan
  <2>1. Leads(g, r2, h, x) /\ Alike(r, r2) /\ r2.frames = fs2
        /\ Unseen(h, x, fs1, fs2)
    BY <1>10, <1>14 DEF Calm, Unseen
  <2> QED
    BY <1>10, <2>1, LeadsTyped DEF Alike, Unseen
<1>16. m2 = [r2 EXCEPT !.base = WithFree(b, at)]
  <2>1. r2 = Do(Linking(m, m.base.lastFree, at, 0, 0),
                [kind |-> "head", at |-> at,
                 frame |-> GivenBack(f, m.base.lastFree)])
    BY DEF r2, r, w, last
  <2>2. r2 \in Plan /\ r2.ok /\ r2.base = m.base
    BY <1>15 DEF Alike
  <2> QED
    BY <2>1, <2>2, ReleaseIs
<1> HIDE DEF m2
<1> DEFINE b2 == WithFree(b, at)
<1>17. /\ b2 \in Header /\ b2.count = b.count /\ b2.nextUid = b.nextUid
       /\ b2.firstFrame = b.firstFrame /\ b2.lastFrame = b.lastFrame
       /\ b2.endFrame = b.endFrame
       /\ b2.firstFree = (IF b.lastFree = 0 THEN at ELSE b.firstFree)
       /\ b2.lastFree = at
  BY <1>1, <1>6, WithFreeHolds
<1> HIDE DEF b2
<1>18. /\ m2 \in Plan /\ m2.todo = r2.todo /\ m2.frames = fs2 /\ m2.ok
       /\ m2.index = m.index /\ m2.full = m.full /\ m2.base = b2
  BY <1>15, <1>16, <1>17 DEF Alike, Plan, b2
<1>19. Leads(g, m2, h, x)
  BY <1>15, <1>18, LeadsOther
<1>20. \A o \in ToSet(u) : fs2[o] = fs[o]
  <2>1. SUFFICES ASSUME NEW o \in ToSet(u) PROVE fs2[o] = fs[o]
    OBVIOUS
  <2>2. o \in 1 .. MaxFrame /\ o # at /\ o # last /\ o # 0
    BY <1>3, <1>4, <1>5, <1>6
  <2>3. fs2[o] = fs1[o]
    BY <1>11, <2>2
  <2>4. /\ fs1[o].type = fs[o].type /\ fs1[o].msg = fs[o].msg
        /\ fs1[o].room = fs[o].room /\ fs1[o].next = fs[o].next
        /\ fs1[o].prev = fs[o].prev
    BY <1>9, <2>2 DEF OnlyLinked
  <2>5. fs1[o] \in Frame /\ fs[o] \in Frame
    BY <1>1, <1>9, <2>2
  <2> QED
    BY <2>3, <2>4, <2>5, SameFrame
<1>21. Chain(fs2, u, "normal") /\ Lettered(fs2, m.index)
  BY <1>1, <1>2, <1>20, SameUsed
<1>22. AppendLinks(fs, fs2, c, at)
  <2>1. SUFFICES ASSUME NEW i \in DOMAIN c
                 PROVE  /\ c[i] # 0
                        /\ fs2[c[i]].type = fs[c[i]].type
                        /\ fs2[c[i]].prev = fs[c[i]].prev
                        /\ fs2[c[i]].next = IF i = Len(c) THEN at
                                            ELSE fs[c[i]].next
    BY DEF AppendLinks
  <2>2. c[i] \in ToSet(c) /\ c[i] \in 1 .. MaxFrame /\ c[i] # at /\ c[i] # 0
    BY <1>3, <1>6
  <2>3. fs2[c[i]] = fs1[c[i]]
    BY <1>11, <2>2
  <2>4. /\ fs1[c[i]].type = fs[c[i]].type
        /\ fs1[c[i]].next = (IF c[i] = last THEN at ELSE fs[c[i]].next)
        /\ fs1[c[i]].prev = fs[c[i]].prev
    BY <1>9, <2>2 DEF OnlyLinked
  <2>5. c[i] = last <=> i = Len(c)
    <3>1. Len(c) \in DOMAIN c
      <4>1. DOMAIN c = 1 .. Len(c) /\ Len(c) \in Nat
        BY <1>2
      <4> QED
        BY <4>1
    <3>2. last = c[Len(c)]
      BY <1>5, <3>1 DEF At
    <3> QED
      BY <1>4, <3>1, <3>2 DEF OneToOne
  <2> QED
    BY <2>2, <2>3, <2>4, <2>5
<1>23. /\ Chain(fs2, c2, "free") /\ OneToOne(c2) /\ c2 \in Seq(Nat)
       /\ ToSet(c2) = ToSet(c) \cup {at}
       /\ Bounds(c2, IF c = <<>> THEN at ELSE c[1], at)
  <2>1. fs2[at].prev = At(c, Len(c)) /\ fs2[at].type = "free" /\ fs2[at].next = 0
    BY <1>5, <1>11
  <2>2. /\ c \in Seq(Nat) /\ Chain(fs, c, "free") /\ OneToOne(c) /\ at \in Nat
        /\ at # 0 /\ at \notin ToSet(c)
    BY <1>2, <1>4, <1>6
  <2>3. /\ Chain(fs2, Append(c, at), "free")
        /\ OneToOne(Append(c, at))
        /\ Append(c, at) \in Seq(Nat)
        /\ ToSet(Append(c, at)) = ToSet(c) \cup {at}
        /\ Bounds(Append(c, at), IF c = <<>> THEN at ELSE c[1], at)
    BY <1>22, <2>1, <2>2, ChainAppend
  <2> QED
    BY <2>3
<1>24. b2.firstFree = (IF c = <<>> THEN at ELSE c[1])
  <2>1. CASE c = <<>>
    <3>1. last = 0
      BY <1>5, <2>1 DEF At
    <3> QED
      BY <1>17, <2>1, <3>1 DEF last
  <2>2. CASE c # <<>>
    <3>1. 1 \in DOMAIN c /\ Len(c) \in DOMAIN c
      BY <1>2, <2>2
    <3>2. last # 0 /\ b.firstFree = c[1]
      BY <1>2, <1>3, <1>5, <3>1 DEF At, Bounds
    <3> QED
      BY <1>17, <2>2, <3>2 DEF last
  <2> QED
    BY <2>1, <2>2
<1> HIDE DEF c2
<1>25. Parted(b2.endFrame, u, c2, X \ {at})
  BY <1>4, <1>6, <1>17, <1>23 DEF Parted
<1>26. Arranged(b2, fs2, m.index, c2, X \ {at})
  <2>1. Bounds(c2, b2.firstFree, b2.lastFree)
    BY <1>17, <1>23, <1>24
  <2>2. Bounds(u, b2.firstFrame, b2.lastFrame)
    BY <1>2, <1>17
  <2> QED
    BY <1>1, <1>2, <1>11, <1>17, <1>21, <1>23, <1>25, <2>1, <2>2 DEF Arranged
<1>27. Arranged(m2.base, m2.frames, m2.index, c2, X \ {at})
  BY <1>18, <1>26
<1> QED
  BY <1>15, <1>17, <1>18, <1>19, <1>27 DEF Released, c2, m2

\* The index record of a message brought up to date.
LEMMA NameIs ==
    ASSUME NEW m \in Plan, NEW n \in DOMAIN m.index, NEW b \in BOOLEAN,
           NEW e, e = [m.index[n] EXCEPT !.rcvd = b]
    PROVE  /\ Refiled(m, WriteIndexEntry([m EXCEPT !.index[n].rcvd = b], n), n, e)
           /\ e.rcvd = b
<1>1. m.index \in Seq(Entry) /\ m.index[n] \in Entry
  BY DEF Plan
<1>2. e \in Entry /\ e.offset = m.index[n].offset /\ e.uid = m.index[n].uid
      /\ e.rcvd = b
  BY <1>1 DEF Entry
<1>3. Renamed(m.index, n, e)
  BY <1>1, <1>2 DEF Renamed
<1>4. PICK m3 : m3 = [m EXCEPT !.index = Anew(m.index, n, e)]
  OBVIOUS
<1>5. [m EXCEPT !.index[n].rcvd = b] = m3
  BY <1>4 DEF Anew
<1>6. m3.index[n] = e
  <2>1. Anew(m.index, n, e)[n] = e
    BY <1>3, RenamedHolds
  <2>2. m3.index = Anew(m.index, n, e)
    BY <1>4 DEF Plan
  <2> QED
    BY <2>1, <2>2
<1>7. WriteIndexEntry([m EXCEPT !.index[n].rcvd = b], n)
        = Do(m3, [kind |-> "entry", at |-> n, entry |-> e])
  BY <1>5, <1>6 DEF WriteIndexEntry
<1> QED
  BY <1>2, <1>3, <1>4, <1>7 DEF Refiled

\* The area with one message replaced, its UID and its seen mark kept.
ReplacedIn(a, b) ==
    \E n \in DOMAIN a.messages, msg \in Letter :
        /\ msg.uid = a.messages[n].uid
        /\ msg.seen = a.messages[n].seen
        /\ b = Rewrote(a, n, msg)

\* What a call that replaces message n begins with.
Replacing(g, r, n, msg, call) ==
    /\ g = Aim(call, Rewrote(View(now), n, msg))
    /\ Begun(g, r)
    /\ Standing(n)
    /\ Whole(now)
    /\ msg \in Letter
    /\ msg.uid = sqi[n].uid
    /\ call.kind = "replace"
    /\ sqi[n].uid \in call.named

LEMMA InPlaceHolds ==
    ASSUME NEW g, NEW r, NEW n, NEW msg, NEW call, Replacing(g, r, n, msg, call),
           Room[msg.text] <= frames[sqi[n].offset].room
    PROVE  Planned(call, Return(ReplaceInPlace(r, n, msg)),
                   Rewrote(View(now), n, msg))
<1> DEFINE at == sqi[n].offset
           old == frames[at]
           up == [old EXCEPT !.type = "update"]
           fs1 == Headed(frames, at, up)
           fs2 == Rewrite(fs1, at, msg)
           fs3 == Headed(fs2, at, old)
           w1 == [kind |-> "head", at |-> at, frame |-> up]
           w2 == [kind |-> "message", at |-> at, msg |-> msg]
           w3 == [kind |-> "head", at |-> at, frame |-> old]
           m1 == Do(r, w1)
           m2 == Do(m1, w2)
           m3 == Do(m2, w3)
           e == [sqi[n] EXCEPT !.rcvd = msg.rcvd]
           m4 == WriteIndexEntry([m3 EXCEPT !.index[n].rcvd = msg.rcvd], n)
           y == Anew(sqi, n, e)
           v == Rewrote(View(now), n, msg)
<1>1. /\ hdr \in Header /\ frames \in [1 .. MaxFrame -> Frame]
      /\ sqi \in Seq(Entry) /\ hdr.count = Len(sqi)
      /\ now = DiskOf(hdr, frames, sqi) /\ OneToOne(Offs(sqi))
      /\ InUse(frames, sqi) /\ n \in DOMAIN sqi /\ at \in 1 .. MaxFrame
      /\ old \in Frame /\ old.type = "normal"
  BY DEF Replacing, Standing
<1>2. /\ Leads(g, r, hdr, sqi) /\ r.ok /\ r.index = sqi /\ r.frames = frames
      /\ r.base = hdr /\ g.from = View(now) /\ g.to = v /\ g = Aim(call, v)
      /\ g.call = call
  BY DEF Replacing, Begun, Aim
<1>3. /\ msg \in Letter /\ msg.uid = sqi[n].uid /\ call.kind = "replace"
      /\ sqi[n].uid \in call.named
  BY DEF Replacing
<1>4. ReplaceInPlace(r, n, msg) = m4
  BY <1>2 DEF ReplaceInPlace
<1>5. \A i \in DOMAIN sqi : sqi[i].offset \in 1 .. MaxFrame
                            /\ frames[sqi[i].offset].type # "free"
  BY <1>1 DEF InUse
<1>6. /\ up \in Frame /\ up.type = "update" /\ up.next = old.next
      /\ up.prev = old.prev /\ up.room = old.room
  BY <1>1 DEF Frame
<1>7. \A i \in DOMAIN sqi : sqi[i].offset = at => i = n
  BY <1>1, OffsHolds DEF OneToOne
<1> HIDE DEF at, old, up, v, e
\* The frame says it is being updated.
<1>8. /\ fs1 \in [1 .. MaxFrame -> Frame]
      /\ fs1[at].type = "update" /\ fs1[at].next = old.next
      /\ fs1[at].prev = old.prev /\ fs1[at].room = old.room
      /\ fs1[at].msg = old.msg
      /\ \A o \in 1 .. MaxFrame : o # at => fs1[o] = frames[o]
      /\ FramesAfter(w1, frames) = fs1
  <2>1. /\ Headed(frames, at, up) \in [1 .. MaxFrame -> Frame]
        /\ Headed(frames, at, up)[at].type = up.type
        /\ Headed(frames, at, up)[at].next = up.next
        /\ Headed(frames, at, up)[at].prev = up.prev
        /\ Headed(frames, at, up)[at].room = up.room
        /\ Headed(frames, at, up)[at].msg = frames[at].msg
        /\ \A o \in 1 .. MaxFrame : o # at => Headed(frames, at, up)[o] = frames[o]
        /\ FramesAfter([kind |-> "head", at |-> at, frame |-> up], frames)
                = Headed(frames, at, up)
    BY <1>1, <1>6, HeadedHolds
  <2> QED
    BY <1>6, <2>1 DEF old
<1> HIDE DEF fs1
<1>9. w1 \in Write /\ w1.kind = "head" /\ w3 \in Write /\ w3.kind = "head"
  <2>1. at \in Nat
    BY <1>1, BoundsAssumption
  <2> QED
    BY <1>1, <1>6, <2>1 DEF Write
<1> HIDE DEF w1, w3
<1>10. /\ Leads(g, m1, hdr, sqi) /\ Alike(r, m1) /\ m1.frames = fs1
       /\ View(DiskOf(hdr, fs1, sqi)) = g.from /\ m1.ok
  <2>1. SameLetters(frames, fs1, sqi)
    <3>1. \A i \in DOMAIN sqi : /\ fs1[sqi[i].offset].type # "free"
                                /\ fs1[sqi[i].offset].msg = frames[sqi[i].offset].msg
                                /\ fs1[sqi[i].offset].room = frames[sqi[i].offset].room
      <4>1. SUFFICES ASSUME NEW i \in DOMAIN sqi
                     PROVE  /\ fs1[sqi[i].offset].type # "free"
                            /\ fs1[sqi[i].offset].msg = frames[sqi[i].offset].msg
                            /\ fs1[sqi[i].offset].room = frames[sqi[i].offset].room
        OBVIOUS
      <4>2. CASE sqi[i].offset = at
        BY <1>8, <4>2 DEF old
      <4>3. CASE sqi[i].offset # at
        BY <1>5, <1>8, <4>3
      <4> QED
        BY <4>2, <4>3
    <3> QED
      BY <3>1 DEF SameLetters
  <2>2. Halfway(g, r, hdr, sqi)
    BY <1>1, <1>2 DEF Halfway
  <2> HIDE DEF m1
  <2>3. Calm(g, r, m1, hdr, sqi, fs1)
    BY <1>2, <1>8, <1>9, <2>1, <2>2, FrameWrite DEF m1
  <2> QED
    BY <1>1, <1>2, <2>3 DEF Calm, Alike
<1> HIDE DEF m1
\* The message itself.
<1>11. InUse(fs1, sqi)
  <2>1. Fine(DiskOf(hdr, fs1, sqi))
    BY <1>10 DEF Leads
  <2> QED
    BY <2>1 DEF Fine, DiskOf
<1>12. View(DiskOf(hdr, fs2, sqi)) = g.to
  <2>1. View(DiskOf(hdr, Rewrite(fs1, sqi[n].offset, msg), sqi))
                    = Rewrote(View(DiskOf(hdr, fs1, sqi)), n, msg)
    BY <1>1, <1>3, <1>8, <1>11, ViewRewrote
  <2> QED
    BY <1>2, <1>10, <2>1 DEF at, v
<1>13. /\ fs2 \in [1 .. MaxFrame -> Frame] /\ fs2[at].msg = msg
       /\ fs2[at].type = "update" /\ fs2[at].room = old.room
       /\ \A o \in 1 .. MaxFrame : o # at => fs2[o] = frames[o]
  <2>1. /\ Rewrite(fs1, at, msg) \in [1 .. MaxFrame -> Frame]
        /\ Rewrite(fs1, at, msg)[at].msg = msg
        /\ \A o \in 1 .. MaxFrame :
                /\ o # at => Rewrite(fs1, at, msg)[o] = fs1[o]
                /\ Rewrite(fs1, at, msg)[o].type = fs1[o].type
                /\ Rewrite(fs1, at, msg)[o].next = fs1[o].next
                /\ Rewrite(fs1, at, msg)[o].prev = fs1[o].prev
                /\ Rewrite(fs1, at, msg)[o].room = fs1[o].room
    BY <1>1, <1>3, <1>8, RewriteHolds, ZenonT(30)
  <2> QED
    BY <1>1, <1>8, <2>1
<1> HIDE DEF fs2
<1>14. /\ Leads(g, m2, hdr, sqi) /\ Alike(m1, m2) /\ m2.frames = fs2
  <2>1. Rewritable(g, m1, hdr, sqi, n, msg)
    <3>1. Room[msg.text] <= m1.frames[sqi[n].offset].room
      BY <1>8, <1>10 DEF at, old
    <3> QED
      BY <1>1, <1>2, <1>3, <1>10, <3>1 DEF Rewritable
  <2>2. w2 = [kind |-> "message", at |-> sqi[n].offset, msg |-> msg]
    BY DEF w2, at
  <2>3. /\ View(DiskOf(hdr, m1.frames, sqi)) = g.from
        /\ View(DiskOf(hdr, Rewrite(m1.frames, sqi[n].offset, msg), sqi)) = g.to
    BY <1>10, <1>12 DEF fs2, at
  <2> HIDE DEF w2
  <2>4. /\ Leads(g, Do(m1, w2), hdr, sqi)
        /\ Alike(m1, Do(m1, w2))
        /\ Do(m1, w2).frames = Rewrite(m1.frames, sqi[n].offset, msg)
    BY <2>1, <2>2, <2>3, LetterWrite
  <2> QED
    BY <1>10, <2>4 DEF fs2, at
<1> HIDE DEF w2, m2
<1>15. m2.ok /\ m2.index = sqi /\ Halfway(g, m2, hdr, sqi)
  BY <1>2, <1>10, <1>12, <1>14 DEF Alike, Halfway
\* The frame is a message's again.
<1>16. /\ fs3 \in [1 .. MaxFrame -> Frame]
       /\ fs3[at].type = "normal" /\ fs3[at].next = old.next
       /\ fs3[at].prev = old.prev /\ fs3[at].room = old.room
       /\ fs3[at].msg = msg
       /\ \A o \in 1 .. MaxFrame : o # at => fs3[o] = frames[o]
       /\ FramesAfter(w3, fs2) = fs3
  <2>1. /\ Headed(fs2, at, old) \in [1 .. MaxFrame -> Frame]
        /\ Headed(fs2, at, old)[at].type = old.type
        /\ Headed(fs2, at, old)[at].next = old.next
        /\ Headed(fs2, at, old)[at].prev = old.prev
        /\ Headed(fs2, at, old)[at].room = old.room
        /\ Headed(fs2, at, old)[at].msg = fs2[at].msg
        /\ \A o \in 1 .. MaxFrame : o # at => Headed(fs2, at, old)[o] = fs2[o]
        /\ FramesAfter([kind |-> "head", at |-> at, frame |-> old], fs2)
                = Headed(fs2, at, old)
    BY <1>1, <1>13, HeadedHolds
  <2> QED
    BY <1>1, <1>13, <2>1 DEF w3
<1> HIDE DEF fs3
<1>17. /\ Leads(g, m3, hdr, sqi) /\ Alike(m2, m3) /\ m3.frames = fs3
       /\ View(DiskOf(hdr, fs3, sqi)) = g.to /\ m3.ok /\ m3.index = sqi
       /\ m3 \in Plan
  <2>1. SameLetters(fs2, fs3, sqi)
    <3>1. \A i \in DOMAIN sqi : /\ fs3[sqi[i].offset].type # "free"
                                /\ fs3[sqi[i].offset].msg = fs2[sqi[i].offset].msg
                                /\ fs3[sqi[i].offset].room = fs2[sqi[i].offset].room
      <4>1. SUFFICES ASSUME NEW i \in DOMAIN sqi
                     PROVE  /\ fs3[sqi[i].offset].type # "free"
                            /\ fs3[sqi[i].offset].msg = fs2[sqi[i].offset].msg
                            /\ fs3[sqi[i].offset].room = fs2[sqi[i].offset].room
        OBVIOUS
      <4>2. CASE sqi[i].offset = at
        BY <1>13, <1>16, <4>2
      <4>3. CASE sqi[i].offset # at
        BY <1>5, <1>13, <1>16, <4>3
      <4> QED
        BY <4>2, <4>3
    <3> QED
      BY <3>1 DEF SameLetters
  <2> HIDE DEF m3
  <2>2. Calm(g, m2, m3, hdr, sqi, fs3)
    BY <1>9, <1>14, <1>15, <1>16, <2>1, FrameWrite DEF m3
  <2> QED
    BY <1>12, <1>14, <1>15, <2>2, LeadsTyped DEF Calm, Alike
<1> HIDE DEF m3
\* The record.
<1>18. Refiled(m3, m4, n, e) /\ e.rcvd = msg.rcvd
  <2>1. msg.rcvd \in BOOLEAN
    BY <1>3 DEF Letter
  <2> HIDE DEF m4
  <2> QED
    BY <1>1, <1>17, <2>1, NameIs DEF e, m4
<1>19. /\ Leads(g, m4, hdr, y)
       /\ m4.frames = fs3
       /\ View(DiskOf(hdr, fs3, y)) = g.to
  <2>1. Halfway(g, m3, hdr, sqi)
    BY <1>17 DEF Halfway
  <2> HIDE DEF m4
  <2>2. /\ Leads(g, m4, hdr, Anew(sqi, n, e))
        /\ m4.frames = m3.frames
        /\ View(DiskOf(hdr, m3.frames, Anew(sqi, n, e)))
                = View(DiskOf(hdr, m3.frames, sqi))
    BY <1>17, <1>18, <2>1, RefiledHolds
  <2> QED
    BY <1>17, <2>2
<1> HIDE DEF m4
<1>20. fs3 = Rewrite(frames, at, msg)
  <2> DEFINE fs4 == Rewrite(frames, at, msg)
  <2>1. /\ Rewrite(frames, at, msg) \in [1 .. MaxFrame -> Frame]
        /\ Rewrite(frames, at, msg)[at].msg = msg
        /\ \A o \in 1 .. MaxFrame :
                /\ o # at => Rewrite(frames, at, msg)[o] = frames[o]
                /\ Rewrite(frames, at, msg)[o].type = frames[o].type
                /\ Rewrite(frames, at, msg)[o].next = frames[o].next
                /\ Rewrite(frames, at, msg)[o].prev = frames[o].prev
                /\ Rewrite(frames, at, msg)[o].room = frames[o].room
    BY <1>1, <1>3, RewriteHolds, ZenonT(30)
  <2>2. /\ fs4 \in [1 .. MaxFrame -> Frame]
        /\ \A o \in 1 .. MaxFrame : o # at => fs4[o] = frames[o]
        /\ fs4[at].msg = msg /\ fs4[at].type = old.type
        /\ fs4[at].next = old.next /\ fs4[at].prev = old.prev
        /\ fs4[at].room = old.room
    BY <1>1, <2>1 DEF old
  <2> HIDE DEF fs4
  <2>3. fs4[at] \in Frame /\ fs3[at] \in Frame
    BY <1>1, <1>16, <2>2
  <2>4. fs4[at] = fs3[at]
    BY <1>1, <1>16, <2>2, <2>3, SameFrame
  <2>5. \A o \in 1 .. MaxFrame : fs4[o] = fs3[o]
    BY <1>16, <2>2, <2>4
  <2>6. fs3 = fs4
    <3>1. fs3 \in [1 .. MaxFrame -> Frame] /\ fs4 \in [1 .. MaxFrame -> Frame]
      BY <1>16, <2>2
    <3>2. /\ fs3 = [o \in 1 .. MaxFrame |-> fs3[o]]
          /\ fs4 = [o \in 1 .. MaxFrame |-> fs4[o]]
      BY <3>1
    <3>3. [o \in 1 .. MaxFrame |-> fs3[o]] = [o \in 1 .. MaxFrame |-> fs4[o]]
      BY <2>5
    <3> QED
      BY <3>2, <3>3
  <2> QED
    BY <2>6 DEF fs4
<1>21. Whole(DiskOf(hdr, fs3, y))
  <2>1. PICK c : Arranged(hdr, frames, sqi, c, {})
    BY DEF Replacing, Whole, now
  <2>2. Renamed(sqi, n, e)
    BY <1>17, <1>18 DEF Refiled
  <2>3. Arranged(hdr, Rewrite(frames, sqi[n].offset, msg), Anew(sqi, n, e), c, {})
    BY <1>3, <1>18, <2>1, <2>2, RewrittenHolds
  <2>4. Len(Anew(sqi, n, e)) = Len(sqi)
    BY <2>2, RenamedHolds
  <2> QED
    BY <1>1, <1>20, <2>3, <2>4 DEF Whole, DiskOf, at
<1>22. Planned(call, Return(m4), v)
  <2>1. Leads(Aim(call, v), m4, hdr, y)
    BY <1>2, <1>19
  <2>2. Whole(DiskOf(hdr, m4.frames, y)) /\ View(DiskOf(hdr, m4.frames, y)) = v
    BY <1>2, <1>19, <1>21
  <2> QED
    BY <2>1, <2>2, PlannedBy
<1> QED
  BY <1>4, <1>22 DEF v

\* The record of message n names another frame: the area moves in this write.
Moved(g, m, h, x, n, e) ==
    /\ Leads(g, m, h, x)
    /\ m.ok
    /\ h.count = Len(x)
    /\ n \in DOMAIN x
    /\ e \in Entry
    /\ e.uid = x[n].uid
    /\ e.offset \in 1 .. MaxFrame
    /\ m.frames[e.offset].type # "free"
    /\ Housed(m.frames, e)
    /\ x[n].uid \in g.call.named
    /\ g.call.kind = "replace"

LEMMA AnewHolds ==
    ASSUME NEW x \in Seq(Entry), NEW n \in DOMAIN x, NEW e \in Entry
    PROVE  /\ Anew(x, n, e) \in Seq(Entry)
           /\ Len(Anew(x, n, e)) = Len(x)
           /\ DOMAIN Anew(x, n, e) = DOMAIN x
           /\ \A i \in DOMAIN x : i # n => Anew(x, n, e)[i] = x[i]
           /\ Anew(x, n, e)[n] = e
           /\ Offs(Anew(x, n, e)) = Swapped(Offs(x), n, e.offset)
<1>1. PICK k \in Nat : k = Len(x)
  OBVIOUS
<1>2. DOMAIN x = 1 .. k /\ x \in [1 .. k -> Entry]
  BY <1>1
<1> DEFINE y == Anew(x, n, e)
<1>3. y \in [1 .. k -> Entry] /\ y[n] = e
      /\ \A i \in 1 .. k : i # n => y[i] = x[i]
  BY <1>2 DEF Anew
<1> HIDE DEF y
<1>4. y \in Seq(Entry) /\ Len(y) = k /\ DOMAIN y = 1 .. k
  BY <1>1, <1>3
<1>5. Offs(y) = Swapped(Offs(x), n, e.offset)
  <2>1. /\ Offs(y) = [i \in 1 .. k |-> y[i].offset]
        /\ Offs(x) = [i \in 1 .. k |-> x[i].offset]
    BY <1>2, <1>4 DEF Offs
  <2>2. [i \in 1 .. k |-> y[i].offset]
            = [[i \in 1 .. k |-> x[i].offset] EXCEPT ![n] = e.offset]
    BY <1>2, <1>3
  <2> QED
    BY <2>1, <2>2 DEF Swapped
<1> QED
  BY <1>1, <1>2, <1>3, <1>4, <1>5 DEF y

LEMMA ViewMoved ==
    ASSUME NEW h \in Header, NEW fs, NEW x \in Seq(Entry), h.count = Len(x),
           NEW n \in DOMAIN x, NEW e \in Entry
    PROVE  View(DiskOf(h, fs, Anew(x, n, e)))
                = Rewrote(View(DiskOf(h, fs, x)), n, fs[e.offset].msg)
<1> DEFINE y == Anew(x, n, e)
           A == [i \in DOMAIN x |-> fs[x[i].offset].msg]
           B == [i \in DOMAIN y |-> fs[y[i].offset].msg]
           msg == fs[e.offset].msg
<1>1. /\ y \in Seq(Entry) /\ Len(y) = Len(x) /\ DOMAIN y = DOMAIN x
      /\ \A i \in DOMAIN x : i # n => y[i] = x[i]
      /\ y[n] = e
  BY AnewHolds
<1> HIDE DEF y
<1>2. View(DiskOf(h, fs, x)) = [messages |-> A, nextUid |-> h.nextUid]
  BY WholeView
<1>3. View(DiskOf(h, fs, y)) = [messages |-> B, nextUid |-> h.nextUid]
  BY <1>1, WholeView
<1>4. B = [A EXCEPT ![n] = msg]
  BY <1>1
<1> HIDE DEF A, B, msg
<1>5. Rewrote([messages |-> A, nextUid |-> h.nextUid], n, msg)
            = [messages |-> [A EXCEPT ![n] = msg], nextUid |-> h.nextUid]
  BY DEF Rewrote
<1> QED
  BY <1>2, <1>3, <1>4, <1>5 DEF y, msg

LEMMA MoveWrite ==
    ASSUME NEW g, NEW m, NEW h, NEW x, NEW n, NEW e, Moved(g, m, h, x, n, e),
           NEW w, w = [kind |-> "entry", at |-> n, entry |-> e],
           View(DiskOf(h, m.frames, x)) = g.from,
           View(DiskOf(h, m.frames, Anew(x, n, e))) = g.to
    PROVE  /\ Leads(g, Do(m, w), h, Anew(x, n, e))
           /\ Alike(m, Do(m, w))
           /\ Do(m, w).frames = m.frames
<1> DEFINE fs == m.frames
           y == Anew(x, n, e)
           d == DiskOf(h, fs, x)
           d2 == DiskOf(h, fs, y)
<1>1. /\ Leads(g, m, h, x) /\ m.ok /\ h.count = Len(x) /\ n \in DOMAIN x
      /\ e \in Entry /\ e.uid = x[n].uid /\ e.offset \in 1 .. MaxFrame
      /\ fs[e.offset].type # "free" /\ Housed(fs, e)
      /\ x[n].uid \in g.call.named /\ g.call.kind = "replace"
  BY DEF Moved
<1>2. /\ m \in Plan /\ h \in Header /\ x \in Seq(Entry)
      /\ fs \in [1 .. MaxFrame -> Frame]
      /\ Fine(d) /\ d \in Disk
  BY <1>1, LeadsTyped DEF Leads
<1>3. /\ y \in Seq(Entry) /\ Len(y) = Len(x) /\ DOMAIN y = DOMAIN x
      /\ \A i \in DOMAIN x : i # n => y[i] = x[i]
      /\ y[n] = e
  BY <1>1, <1>2, AnewHolds
<1>4. n \in Nat
  BY <1>1, <1>2
<1>5. w \in Write /\ w.kind = "entry"
  BY <1>1, <1>4 DEF Write
<1>6. h = HeaderAfter(w, h) /\ y = IndexAfter(w, x) /\ FramesAfter(w, fs) = fs
  BY DEF HeaderAfter, IndexAfter, FramesAfter, Anew
<1> HIDE DEF y, fs
<1>7. Loaded(d) = x /\ Loaded(d2) = y
  BY <1>1, <1>2, <1>3, WholeView
<1>8. /\ d.frames = fs /\ d2.frames = fs /\ d.sqi = x /\ d2.sqi = y
  BY DEF DiskOf
<1>9. d2 \in Disk
  BY <1>2, <1>3 DEF DiskOf, Disk
<1>10. View(d) = g.from /\ View(d2) = g.to
  BY DEF fs, y
<1> HIDE DEF d, d2
<1>11. InUse(fs, x) /\ \A i \in DOMAIN x : Housed(fs, x[i])
  BY <1>2, <1>7, <1>8 DEF Fine
<1>12. Fine(d2)
  <2>1. \A i \in DOMAIN y : /\ y[i].offset \in 1 .. MaxFrame
                            /\ fs[y[i].offset].type # "free"
                            /\ Housed(fs, y[i])
    BY <1>1, <1>3, <1>11 DEF InUse
  <2> QED
    BY <1>7, <1>8, <2>1 DEF Fine, InUse
<1>13. Kept(g.call, d, d2)
  <2>1. ASSUME NEW i \in DOMAIN x
        PROVE  /\ i \in DOMAIN y /\ y[i].uid = x[i].uid
               /\ \/ LetterOf(d2, i).text = LetterOf(d, i).text
                  \/ x[i].uid \in g.call.named /\ g.call.kind = "replace"
    <3>1. CASE i = n
      BY <1>1, <1>3, <3>1
    <3>2. CASE i # n
      BY <1>3, <1>7, <1>8, <3>2 DEF LetterOf
    <3> QED
      BY <3>1, <3>2
  <2>2. ~ (Len(y) > Len(x))
    BY <1>2, <1>3
  <2> QED
    BY <1>7, <2>1, <2>2 DEF Kept
<1>14. Itm(m, w) \in Item /\ Itm(m, w).write = w
  BY <1>2, <1>5 DEF Itm, Item, Plan
<1>15. ViewAt(d, w) = View(d)
  BY <1>5 DEF ViewAt
<1>16. Good(g, d, Itm(m, w), d2)
  BY <1>5, <1>9, <1>10, <1>12, <1>13, <1>14, <1>15 DEF Good
<1> QED
  BY <1>1, <1>5, <1>6, <1>16, DoLeads DEF d, d2, fs, y

\* A message in another frame, which its neighbours are linked to.
Relinked(fs, fs2, old, at) ==
    \A o \in 1 .. MaxFrame :
        o # at => /\ fs2[o].type = fs[o].type
                  /\ fs2[o].msg = fs[o].msg
                  /\ fs2[o].room = fs[o].room
                  /\ fs2[o].next = IF o = old.prev THEN at ELSE fs[o].next
                  /\ fs2[o].prev = IF o = old.next THEN at ELSE fs[o].prev

WithMoved(b, from, at) ==
    [b EXCEPT !.firstFrame = IF b.firstFrame = from THEN at ELSE b.firstFrame,
              !.lastFrame = IF b.lastFrame = from THEN at ELSE b.lastFrame]

LEMMA WithMovedHolds ==
    ASSUME NEW b \in Header, NEW from, NEW at \in Nat
    PROVE  /\ WithMoved(b, from, at) \in Header
           /\ WithMoved(b, from, at).count = b.count
           /\ WithMoved(b, from, at).nextUid = b.nextUid
           /\ WithMoved(b, from, at).firstFree = b.firstFree
           /\ WithMoved(b, from, at).lastFree = b.lastFree
           /\ WithMoved(b, from, at).endFrame = b.endFrame
           /\ WithMoved(b, from, at).firstFrame
                    = IF b.firstFrame = from THEN at ELSE b.firstFrame
           /\ WithMoved(b, from, at).lastFrame
                    = IF b.lastFrame = from THEN at ELSE b.lastFrame
<1> DEFINE f == IF b.firstFrame = from THEN at ELSE b.firstFrame
           l == IF b.lastFrame = from THEN at ELSE b.lastFrame
<1>1. f \in Nat /\ l \in Nat
  BY DEF Header
<1>2. WithMoved(b, from, at) = [b EXCEPT !.firstFrame = f, !.lastFrame = l]
  BY DEF WithMoved
<1> HIDE DEF f, l
<1>3. /\ WithMoved(b, from, at) \in Header
      /\ WithMoved(b, from, at).count = b.count
      /\ WithMoved(b, from, at).nextUid = b.nextUid
      /\ WithMoved(b, from, at).firstFree = b.firstFree
      /\ WithMoved(b, from, at).lastFree = b.lastFree
      /\ WithMoved(b, from, at).endFrame = b.endFrame
      /\ WithMoved(b, from, at).firstFrame = f
      /\ WithMoved(b, from, at).lastFrame = l
  BY <1>1, <1>2 DEF Header
<1> QED
  BY <1>3 DEF f, l

LEMMA MovedHolds ==
    ASSUME NEW b, NEW fs, NEW ix, NEW c, NEW at, Arranged(b, fs, ix, c, {at}),
           NEW n \in DOMAIN ix, NEW e \in Entry, e.offset = at,
           NEW fs2 \in [1 .. MaxFrame -> Frame], NEW old,
           old = fs[ix[n].offset], Relinked(fs, fs2, old, at),
           Housed(fs2, e), fs2[at].msg.rcvd = e.rcvd, fs2[at].type = "normal",
           fs2[at].next = old.next, fs2[at].prev = old.prev
    PROVE  Arranged(WithMoved(b, ix[n].offset, at), fs2, Anew(ix, n, e), c,
                    {ix[n].offset})
<1> DEFINE from == ix[n].offset
           u == Offs(ix)
           y == Anew(ix, n, e)
           v == Swapped(u, n, at)
           b2 == WithMoved(b, from, at)
<1>1. /\ b \in Header /\ b.endFrame \in 1 .. MaxFrame + 1 /\ u \in Seq(Nat)
      /\ c \in Seq(Nat) /\ Parted(b.endFrame, u, c, {at})
      /\ fs \in [1 .. MaxFrame -> Frame] /\ ix \in Seq(Entry)
      /\ Chain(fs, u, "normal") /\ Chain(fs, c, "free") /\ Lettered(fs, ix)
      /\ Bounds(u, b.firstFrame, b.lastFrame)
      /\ Bounds(c, b.firstFree, b.lastFree)
      /\ Len(ix) < b.nextUid
  BY OffsHolds DEF Arranged
<1>2. /\ DOMAIN u = DOMAIN ix /\ Len(u) = Len(ix)
      /\ \A i \in DOMAIN ix : u[i] = ix[i].offset
      /\ ToSet(u) = {ix[i].offset : i \in DOMAIN ix}
  BY <1>1, OffsHolds
<1>3. /\ \A o \in ToSet(u) \cup ToSet(c) \cup {at} :
                    o \in 1 .. MaxFrame /\ o < b.endFrame /\ o # 0
      /\ \A i : At(u, i) # 0 => At(u, i) \in ToSet(u)
      /\ \A i \in DOMAIN u : At(u, i) # 0 /\ u[i] \in ToSet(u)
      /\ \A i \in DOMAIN c : At(c, i) # 0 /\ c[i] \in ToSet(c)
  BY <1>1, InChain
<1>4. /\ OneToOne(u) /\ OneToOne(c) /\ ToSet(u) \cap ToSet(c) = {}
      /\ at \notin ToSet(u) /\ at \notin ToSet(c)
      /\ ToSet(u) \cup ToSet(c) \cup {at} = 1 .. b.endFrame - 1
  BY <1>1 DEF Parted
<1>5. PICK k \in Nat : k = Len(ix)
  BY <1>1
<1>6. /\ DOMAIN ix = 1 .. k /\ DOMAIN u = 1 .. k /\ Len(u) = k /\ n \in 1 .. k
      /\ u[n] = from /\ from \in ToSet(u) /\ from # at /\ at \in Nat
      /\ at \in 1 .. MaxFrame
  <2>1. DOMAIN ix = 1 .. k /\ n \in 1 .. k
    BY <1>1, <1>5
  <2>2. at \in 1 .. MaxFrame /\ at \in Nat
    BY <1>3, BoundsAssumption
  <2>3. DOMAIN u = 1 .. k /\ Len(u) = k
    BY <1>2, <1>5, <2>1
  <2>4. u[n] = from /\ from \in ToSet(u)
    BY <1>2
  <2>5. from # at
    BY <1>4, <2>4
  <2> QED
    BY <2>1, <2>2, <2>3, <2>4, <2>5
<1>7. old.prev = At(u, n - 1) /\ old.next = At(u, n + 1)
  <2>1. fs[u[n]].prev = At(u, n - 1) /\ fs[u[n]].next = At(u, n + 1)
    BY <1>1, <1>6 DEF Chain
  <2> QED
    BY <1>6, <2>1
<1>8. /\ y \in Seq(Entry) /\ Len(y) = k /\ DOMAIN y = 1 .. k
      /\ \A i \in 1 .. k : i # n => y[i] = ix[i]
      /\ y[n] = e /\ Offs(y) = v
  <2>1. /\ Anew(ix, n, e) \in Seq(Entry)
        /\ Len(Anew(ix, n, e)) = Len(ix)
        /\ DOMAIN Anew(ix, n, e) = DOMAIN ix
        /\ \A i \in DOMAIN ix : i # n => Anew(ix, n, e)[i] = ix[i]
        /\ Anew(ix, n, e)[n] = e
        /\ Offs(Anew(ix, n, e)) = Swapped(Offs(ix), n, e.offset)
    BY <1>1, AnewHolds
  <2> HIDE DEF y
  <2> QED
    BY <1>5, <1>6, <2>1 DEF y
<1> HIDE DEF y, u, from
<1>9. \A i \in 1 .. k : /\ u[i] \in 1 .. MaxFrame /\ u[i] # at
  BY <1>3, <1>4, <1>6
<1>10. SwapLinks(fs, fs2, u, n, at)
  <2>1. SUFFICES ASSUME NEW i \in 1 .. k, i # n
                 PROVE  /\ fs2[u[i]].type = fs[u[i]].type
                        /\ fs2[u[i]].prev = IF i = n + 1 THEN at ELSE fs[u[i]].prev
                        /\ fs2[u[i]].next = IF i = n - 1 THEN at ELSE fs[u[i]].next
    BY <1>6 DEF SwapLinks
  <2>2. u[i] \in 1 .. MaxFrame /\ u[i] # at
    BY <1>9
  <2>3. /\ fs2[u[i]].type = fs[u[i]].type
        /\ fs2[u[i]].next = (IF u[i] = old.prev THEN at ELSE fs[u[i]].next)
        /\ fs2[u[i]].prev = (IF u[i] = old.next THEN at ELSE fs[u[i]].prev)
    BY <2>2 DEF Relinked
  <2>4. u[i] = old.prev <=> i = n - 1
    <3>1. CASE n - 1 \in 1 .. k
      <4>1. old.prev = u[n - 1]
        BY <1>6, <1>7, <3>1 DEF At
      <4> QED
        BY <1>4, <1>6, <3>1, <4>1 DEF OneToOne
    <3>2. CASE n - 1 \notin 1 .. k
      <4>1. old.prev = 0
        BY <1>6, <1>7, <3>2 DEF At
      <4> QED
        BY <2>2, <3>2, <4>1
    <3> QED
      BY <3>1, <3>2
  <2>5. u[i] = old.next <=> i = n + 1
    <3>1. CASE n + 1 \in 1 .. k
      <4>1. old.next = u[n + 1]
        BY <1>6, <1>7, <3>1 DEF At
      <4> QED
        BY <1>4, <1>6, <3>1, <4>1 DEF OneToOne
    <3>2. CASE n + 1 \notin 1 .. k
      <4>1. old.next = 0
        BY <1>6, <1>7, <3>2 DEF At
      <4> QED
        BY <2>2, <3>2, <4>1
    <3> QED
      BY <3>1, <3>2
  <2> QED
    BY <2>3, <2>4, <2>5
<1>11. old = fs[u[n]]
  BY <1>6 DEF from
<1>12. /\ Chain(fs2, v, "normal") /\ OneToOne(v) /\ v \in Seq(Nat)
       /\ ToSet(v) = (ToSet(u) \ {from}) \cup {at}
       /\ Bounds(v, IF n = 1 THEN at ELSE u[1], IF n = k THEN at ELSE u[k])
  <2>1. /\ u \in Seq(Nat) /\ Chain(fs, u, "normal") /\ OneToOne(u)
        /\ n \in 1 .. Len(u) /\ at \in Nat /\ at \notin ToSet(u)
        /\ fs2[at].type = "normal" /\ fs2[at].prev = fs[u[n]].prev
        /\ fs2[at].next = fs[u[n]].next
    BY <1>1, <1>4, <1>6, <1>11
  <2>2. /\ Chain(fs2, Swapped(u, n, at), "normal")
        /\ OneToOne(Swapped(u, n, at))
        /\ Swapped(u, n, at) \in Seq(Nat)
        /\ ToSet(Swapped(u, n, at)) = (ToSet(u) \ {u[n]}) \cup {at}
        /\ Bounds(Swapped(u, n, at), IF n = 1 THEN at ELSE u[1],
                  IF n = Len(u) THEN at ELSE u[Len(u)])
    <3>1. /\ Chain(fs2, Swapped(u, n, at), "normal")
          /\ OneToOne(Swapped(u, n, at))
          /\ Swapped(u, n, at) \in Seq(Nat)
      BY <1>10, <2>1, ChainSwap
    <3>2. ToSet(Swapped(u, n, at)) = Exchanged(ToSet(u), u[n], at)
      <4>1. Swapped(u, n, at) \in Seq(Nat)
        BY <3>1
      <4>2. /\ DOMAIN Swapped(u, n, at) = 1 .. k /\ Swapped(u, n, at)[n] = at
            /\ \A i \in 1 .. k : i # n => Swapped(u, n, at)[i] = u[i]
        BY <1>6, <2>1 DEF Swapped
      <4>3. \A i, j \in 1 .. k : u[i] = u[j] => i = j
        BY <1>6, <2>1 DEF OneToOne
      <4>4. DOMAIN u = 1 .. k /\ n \in 1 .. k
        BY <1>6, <2>1
      <4> HIDE DEF u
      <4> QED
        BY <4>2, <4>3, <4>4 DEF Exchanged, ToSet
    <3>3. Bounds(Swapped(u, n, at), SwappedHead(u, n, at), SwappedLast(u, n, at))
      BY <1>10, <2>1, ChainSwap
    <3> QED
      BY <3>1, <3>2, <3>3 DEF Exchanged, SwappedHead, SwappedLast
  <2> HIDE DEF v
  <2> QED
    BY <1>6, <2>2 DEF v
<1> HIDE DEF v
<1>13. /\ b2 \in Header /\ b2.nextUid = b.nextUid /\ b2.endFrame = b.endFrame
       /\ b2.firstFree = b.firstFree /\ b2.lastFree = b.lastFree
       /\ b2.firstFrame = (IF b.firstFrame = from THEN at ELSE b.firstFrame)
       /\ b2.lastFrame = (IF b.lastFrame = from THEN at ELSE b.lastFrame)
  BY <1>1, <1>6, WithMovedHolds
<1> HIDE DEF b2
<1>14. Bounds(v, b2.firstFrame, b2.lastFrame)
  <2>1. 1 \in 1 .. k /\ k \in 1 .. k
    BY <1>6
  <2>2. b.firstFrame = u[1] /\ b.lastFrame = u[k]
    BY <1>1, <1>6, <2>1 DEF Bounds, At
  <2>3. (u[1] = from <=> n = 1) /\ (u[k] = from <=> n = k)
    BY <1>4, <1>6, <2>1 DEF OneToOne
  <2>4. /\ b2.firstFrame = (IF n = 1 THEN at ELSE u[1])
        /\ b2.lastFrame = (IF n = k THEN at ELSE u[k])
    BY <1>13, <2>2, <2>3
  <2> QED
    BY <1>12, <2>4
<1>15. Chain(fs2, c, "free")
  <2>1. ASSUME NEW i \in DOMAIN c
        PROVE  /\ fs2[c[i]].type = fs[c[i]].type
               /\ fs2[c[i]].prev = fs[c[i]].prev
               /\ fs2[c[i]].next = fs[c[i]].next
    <3>1. c[i] \in ToSet(c) /\ c[i] \in 1 .. MaxFrame /\ c[i] # at /\ c[i] # 0
      BY <1>3, <1>4
    <3>2. c[i] # old.prev /\ c[i] # old.next
      BY <1>3, <1>4, <1>7, <3>1
    <3> QED
      BY <3>1, <3>2 DEF Relinked
  <2> QED
    BY <1>1, <2>1, ChainSame
<1>16. Parted(b2.endFrame, v, c, {from})
  <2>1. from \notin ToSet(v)
    BY <1>6, <1>12
  <2> QED
    BY <1>1, <1>4, <1>6, <1>12, <1>13, <2>1 DEF Parted
<1>17. Lettered(fs2, y)
  <2>1. SUFFICES ASSUME NEW i \in 1 .. k
                 PROVE  Housed(fs2, y[i]) /\ fs2[y[i].offset].msg.rcvd = y[i].rcvd
    BY <1>8 DEF Lettered
  <2>2. CASE i = n
    BY <1>8, <2>2
  <2>3. CASE i # n
    <3>1. y[i] = ix[i] /\ ix[i].offset = u[i]
      BY <1>2, <1>6, <1>8, <2>3
    <3>2. /\ fs2[u[i]].msg = fs[u[i]].msg /\ fs2[u[i]].room = fs[u[i]].room
      BY <1>9 DEF Relinked
    <3>3. Housed(fs, ix[i]) /\ fs[ix[i].offset].msg.rcvd = ix[i].rcvd
      BY <1>1, <1>6 DEF Lettered
    <3> QED
      BY <3>1, <3>2, <3>3 DEF Housed
  <2> QED
    BY <2>2, <2>3
<1>18. Len(y) < b2.nextUid
  BY <1>1, <1>5, <1>8, <1>13
<1> QED
  BY <1>1, <1>8, <1>12, <1>13, <1>14, <1>15, <1>16, <1>17, <1>18
     DEF Arranged, y, b2, from

(***************************************************************************)
(* A message that has outgrown its frame                                   *)
(***************************************************************************)

FillAt(r, msg) == Do(r, [kind |-> "message", at |-> r.at, msg |-> msg])

HeadAt(r, old) ==
    Do(r, [kind |-> "head", at |-> r.at, frame |-> [old EXCEPT !.room = r.room]])

NameAt(r, n, msg) ==
    WriteIndexEntry([r EXCEPT !.index[n].offset = r.at,
                              !.index[n].rcvd = msg.rcvd], n)

BeforeAt(r, old) == IF old.prev = 0 THEN r ELSE SetFrameNext(r, old.prev, r.at)

AfterAt(r, old) == IF old.next = 0 THEN r ELSE SetFramePrev(r, old.next, r.at)

EndsAt(r, from) ==
    [r EXCEPT !.base.firstFrame = IF @ = from THEN r.at ELSE @,
              !.base.lastFrame = IF @ = from THEN r.at ELSE @]

Leave(r, from, old) == WriteBaseHeader(ReleaseFrame(EndsAt(r, from), from, old))

InIts(r, old, n, msg) == NameAt(HeadAt(FillAt(r, msg), old), n, msg)

Moving(r, from, old, n, msg) ==
    IF r.full THEN r
    ELSE Then(AfterAt(BeforeAt(InIts(r, old, n, msg), old), old),
              LAMBDA q : Leave(q, from, old))

LEMMA ElsewhereIs ==
    ASSUME NEW m, NEW n, NEW msg
    PROVE  ReplaceElsewhere(m, n, msg)
            = Then(AllocateFrame(m, Room[msg.text]),
                   LAMBDA q : Moving(q, m.index[n].offset,
                                     m.frames[m.index[n].offset], n, msg))
BY DEF ReplaceElsewhere, Moving, Leave, EndsAt, AfterAt, BeforeAt, InIts,
       NameAt, HeadAt, FillAt

\* The new frame filled, and given the old one's links.
Filled(g, m, m2, h, x, old, msg) ==
    /\ Leads(g, m2, h, x)
    /\ Alike(m, m2)
    /\ Unseen(h, x, m.frames, m2.frames)
    /\ \A o \in 1 .. MaxFrame : o # m.at => m2.frames[o] = m.frames[o]
    /\ m2.frames[m.at].type = "normal"
    /\ m2.frames[m.at].next = old.next
    /\ m2.frames[m.at].prev = old.prev
    /\ m2.frames[m.at].room = m.room
    /\ m2.frames[m.at].msg = msg

LEMMA FilledHolds ==
    ASSUME NEW g, NEW m, NEW h, NEW x, Leads(g, m, h, x), m.ok,
           Halfway(g, m, h, x), NEW c,
           Arranged(m.base, m.frames, m.index, c, {m.at}), Known(m, x),
           NEW msg \in Letter, NEW old \in Frame, old.type = "normal"
    PROVE  Filled(g, m, HeadAt(FillAt(m, msg), old), h, x, old, msg)
<1> DEFINE at == m.at
           w1 == [kind |-> "message", at |-> at, msg |-> msg]
           m1 == Do(m, w1)
           fs1 == Rewrite(m.frames, at, msg)
           new == [old EXCEPT !.room = m.room]
           w2 == [kind |-> "head", at |-> at, frame |-> new]
           fs2 == Headed(fs1, at, new)
           m2 == Do(m1, w2)
<1>1. /\ m \in Plan /\ h \in Header /\ x \in Seq(Entry)
      /\ m.frames \in [1 .. MaxFrame -> Frame]
      /\ m.base \in Header /\ m.index \in Seq(Entry) /\ m.room \in Nat
  BY LeadsTyped, RoomAssumption DEF Plan
<1>2. /\ at \in 1 .. MaxFrame /\ at \in Nat /\ at \notin ToSet(Offs(m.index))
  <2>1. m.base.endFrame \in 1 .. MaxFrame + 1 /\ Offs(m.index) \in Seq(Nat)
        /\ c \in Seq(Nat) /\ Parted(m.base.endFrame, Offs(m.index), c, {m.at})
    BY <1>1, OffsHolds DEF Arranged
  <2>2. \A o \in ToSet(Offs(m.index)) \cup ToSet(c) \cup {m.at} :
                    o \in 1 .. MaxFrame
    BY <2>1, InChain
  <2> QED
    BY <2>1, <2>2, BoundsAssumption DEF Parted
<1>3. \A i \in DOMAIN x : x[i].offset # at /\ x[i].offset \in 1 .. MaxFrame
  <2>1. ToSet(Offs(x)) = {x[i].offset : i \in DOMAIN x}
    BY <1>1, OffsHolds
  <2>2. InUse(m.frames, x)
    BY DEF Leads, Fine, DiskOf
  <2> QED
    BY <1>2, <2>1, <2>2 DEF Known, InUse
<1>4. \A i \in DOMAIN x : m.frames[x[i].offset].type # "free"
  BY DEF Leads, Fine, DiskOf, InUse
<1> HIDE DEF at
<1>5. /\ new \in Frame /\ new.type = "normal" /\ new.next = old.next
      /\ new.prev = old.prev /\ new.room = m.room
  BY <1>1 DEF Frame, Plan
<1> HIDE DEF new
<1>6. /\ fs1 \in [1 .. MaxFrame -> Frame] /\ fs1[at].msg = msg
      /\ \A o \in 1 .. MaxFrame : o # at => fs1[o] = m.frames[o]
      /\ FramesAfter(w1, m.frames) = fs1
  <2>1. /\ Rewrite(m.frames, at, msg) \in [1 .. MaxFrame -> Frame]
        /\ Rewrite(m.frames, at, msg)[at].msg = msg
        /\ \A o \in 1 .. MaxFrame :
                /\ o # at => Rewrite(m.frames, at, msg)[o] = m.frames[o]
                /\ Rewrite(m.frames, at, msg)[o].type = m.frames[o].type
                /\ Rewrite(m.frames, at, msg)[o].next = m.frames[o].next
                /\ Rewrite(m.frames, at, msg)[o].prev = m.frames[o].prev
                /\ Rewrite(m.frames, at, msg)[o].room = m.frames[o].room
        /\ FramesAfter([kind |-> "message", at |-> at, msg |-> msg], m.frames)
                = Rewrite(m.frames, at, msg)
    BY <1>1, <1>2, RewriteHolds
  <2> QED
    BY <2>1
<1> HIDE DEF fs1
<1>7. w1 \in Write /\ w1.kind = "message" /\ w2 \in Write /\ w2.kind = "head"
  BY <1>2, <1>5 DEF Write
<1>8. /\ Leads(g, m1, h, x) /\ Alike(m, m1) /\ m1.frames = fs1 /\ m1.ok
      /\ Unseen(h, x, m.frames, fs1) /\ Halfway(g, m1, h, x)
  <2>1. SameLetters(m.frames, fs1, x)
    BY <1>3, <1>4, <1>6 DEF SameLetters
  <2> HIDE DEF m1, w1
  <2>2. Calm(g, m, m1, h, x, fs1)
    BY <1>6, <1>7, <2>1, FrameWrite DEF m1
  <2> QED
    BY <2>2 DEF Calm, Alike, Unseen, Halfway
<1> HIDE DEF w1, m1
<1>9. /\ fs2 \in [1 .. MaxFrame -> Frame]
      /\ fs2[at].type = "normal" /\ fs2[at].next = old.next
      /\ fs2[at].prev = old.prev /\ fs2[at].room = m.room
      /\ fs2[at].msg = msg
      /\ \A o \in 1 .. MaxFrame : o # at => fs2[o] = m.frames[o]
      /\ FramesAfter(w2, fs1) = fs2
  <2>1. /\ Headed(fs1, at, new) \in [1 .. MaxFrame -> Frame]
        /\ Headed(fs1, at, new)[at].type = new.type
        /\ Headed(fs1, at, new)[at].next = new.next
        /\ Headed(fs1, at, new)[at].prev = new.prev
        /\ Headed(fs1, at, new)[at].room = new.room
        /\ Headed(fs1, at, new)[at].msg = fs1[at].msg
        /\ \A o \in 1 .. MaxFrame : o # at => Headed(fs1, at, new)[o] = fs1[o]
        /\ FramesAfter([kind |-> "head", at |-> at, frame |-> new], fs1)
                = Headed(fs1, at, new)
    BY <1>2, <1>5, <1>6, HeadedHolds
  <2> QED
    BY <1>5, <1>6, <2>1
<1> HIDE DEF fs2
<1>10. /\ Leads(g, m2, h, x) /\ Alike(m1, m2) /\ m2.frames = fs2
       /\ Unseen(h, x, fs1, fs2)
  <2>1. SameLetters(fs1, fs2, x)
    BY <1>3, <1>4, <1>6, <1>9 DEF SameLetters
  <2> HIDE DEF m2, w2
  <2>2. Calm(g, m1, m2, h, x, fs2)
    BY <1>7, <1>8, <1>9, <2>1, FrameWrite DEF m2
  <2> QED
    BY <1>8, <2>2 DEF Calm, Unseen
<1>11. m2 = HeadAt(FillAt(m, msg), old)
  <2>1. m1 = FillAt(m, msg)
    BY DEF m1, w1, FillAt, at
  <2>2. m1.at = at /\ m1.room = m.room
    BY <1>8 DEF Alike, at
  <2> QED
    BY <2>1, <2>2 DEF HeadAt, new
<1> HIDE DEF m2
<1>12. Alike(m, m2) /\ Unseen(h, x, m.frames, m2.frames)
  BY <1>8, <1>10 DEF Alike, Unseen
<1> QED
  BY <1>9, <1>10, <1>11, <1>12 DEF Filled, at

\* The index record of a message that is elsewhere now.
LEMMA NameAtIs ==
    ASSUME NEW m \in Plan, NEW n \in DOMAIN m.index, NEW msg \in Letter,
           NEW e, e = [offset |-> m.at, uid |-> m.index[n].uid,
                       rcvd |-> msg.rcvd]
    PROVE  /\ e \in Entry
           /\ NameAt(m, n, msg)
                = Do([m EXCEPT !.index = Anew(m.index, n, e)],
                     [kind |-> "entry", at |-> n, entry |-> e])
<1>1. m.index \in Seq(Entry) /\ m.index[n] \in Entry /\ m.at \in Nat
      /\ msg.rcvd \in BOOLEAN
  BY DEF Plan, Letter
<1>2. e \in Entry
  BY <1>1 DEF Entry
<1>3. PICK m3 : m3 = [m EXCEPT !.index = Anew(m.index, n, e)]
  OBVIOUS
<1>4. [m EXCEPT !.index[n].offset = m.at, !.index[n].rcvd = msg.rcvd] = m3
  <2>1. e = [[m.index[n] EXCEPT !.offset = m.at] EXCEPT !.rcvd = msg.rcvd]
    <3>1. PICK y \in Entry : y = m.index[n]
      BY <1>1
    <3>2. PICK z : z = [y EXCEPT !.offset = m.at]
      OBVIOUS
    <3>3. z \in Entry /\ z.uid = y.uid /\ z.offset = m.at
      BY <1>1, <3>1, <3>2 DEF Entry
    <3>4. PICK t : t = [z EXCEPT !.rcvd = msg.rcvd]
      OBVIOUS
    <3>5. t \in Entry /\ t.uid = y.uid /\ t.offset = m.at /\ t.rcvd = msg.rcvd
      BY <1>1, <3>3, <3>4 DEF Entry
    <3>6. t = e
      <4>1. e.uid = y.uid /\ e.offset = m.at /\ e.rcvd = msg.rcvd
        BY <3>1
      <4> QED
        BY <1>2, <3>5, <4>1 DEF Entry
    <3> QED
      BY <3>1, <3>2, <3>4, <3>6
  <2>2. [m.index EXCEPT ![n] = e]
            = [[m.index EXCEPT ![n].offset = m.at] EXCEPT ![n].rcvd = msg.rcvd]
    BY <1>1, <2>1
  <2> QED
    BY <1>3, <2>2 DEF Anew, Plan
<1>5. m3.index[n] = e
  <2>1. Anew(m.index, n, e)[n] = e
    BY <1>1, <1>2, AnewHolds
  <2>2. m3.index = Anew(m.index, n, e)
    BY <1>3 DEF Plan
  <2> QED
    BY <2>1, <2>2
<1>6. NameAt(m, n, msg) = Do(m3, [kind |-> "entry", at |-> n, entry |-> e])
  BY <1>4, <1>5 DEF NameAt, WriteIndexEntry
<1> QED
  BY <1>2, <1>3, <1>6

LEMMA LinkKeepsAt ==
    ASSUME NEW m \in Plan, NEW at, NEW to
    PROVE  SetFrameNext(m, at, to).at = m.at
BY DEF SetFrameNext, Do, Refuse, Plan

LEMMA EndsAtIs ==
    ASSUME NEW m \in Plan, NEW from \in Nat
    PROVE  /\ EndsAt(m, from) \in Plan
           /\ EndsAt(m, from).base = WithMoved(m.base, from, m.at)
           /\ EndsAt(m, from).todo = m.todo
           /\ EndsAt(m, from).frames = m.frames
           /\ EndsAt(m, from).index = m.index
           /\ EndsAt(m, from).ok = m.ok
           /\ EndsAt(m, from).full = m.full
<1>1. m.base \in Header /\ m.at \in Nat
  BY DEF Plan
<1>2. EndsAt(m, from) = [m EXCEPT !.base = WithMoved(m.base, from, m.at)]
  BY DEF EndsAt, WithMoved
<1>3. WithMoved(m.base, from, m.at) \in Header
  BY <1>1, WithMovedHolds
<1> QED
  BY <1>2, <1>3 DEF Plan

\* The message in its new frame, its record naming it.
Coming(g, q, n, msg, old, c, e, y, r) ==
    /\ Leads(g, q, hdr, sqi) /\ q.ok /\ q.index = sqi
    /\ View(DiskOf(hdr, q.frames, sqi)) = g.from
    /\ Arranged(q.base, q.frames, sqi, c, {q.at})
    /\ Standing(n) /\ msg \in Letter /\ msg.uid = sqi[n].uid
    /\ old \in Frame /\ old.type = "normal" /\ Room[msg.text] <= q.room
    /\ g.to = Rewrote(g.from, n, msg)
    /\ sqi[n].uid \in g.call.named /\ g.call.kind = "replace"
    /\ e = [offset |-> q.at, uid |-> sqi[n].uid, rcvd |-> msg.rcvd]
    /\ y = Anew(sqi, n, e)
    /\ r = InIts(q, old, n, msg)

Come(g, q, old, e, y, r, msg) ==
    /\ Leads(g, r, hdr, y) /\ e \in Entry /\ r.index = y
    /\ r.ok = q.ok /\ r.base = q.base /\ r.at = q.at /\ r.full = q.full
    /\ \A o \in 1 .. MaxFrame : o # q.at => r.frames[o] = q.frames[o]
    /\ r.frames[q.at].type = "normal"
    /\ r.frames[q.at].next = old.next
    /\ r.frames[q.at].prev = old.prev
    /\ r.frames[q.at].msg = msg
    /\ Housed(r.frames, e)
    /\ View(DiskOf(hdr, r.frames, y)) = g.to
    /\ q.at \in 1 .. MaxFrame

LEMMA InItsHolds ==
    ASSUME NEW g, NEW q, NEW n, NEW msg, NEW old, NEW c, NEW e, NEW y, NEW r,
           Coming(g, q, n, msg, old, c, e, y, r)
    PROVE  Come(g, q, old, e, y, r, msg)
<1>0. /\ Leads(g, q, hdr, sqi) /\ q.ok /\ q.index = sqi
      /\ View(DiskOf(hdr, q.frames, sqi)) = g.from
      /\ Arranged(q.base, q.frames, sqi, c, {q.at})
      /\ Standing(n) /\ msg \in Letter /\ msg.uid = sqi[n].uid
      /\ old \in Frame /\ old.type = "normal" /\ Room[msg.text] <= q.room
      /\ g.to = Rewrote(g.from, n, msg)
      /\ sqi[n].uid \in g.call.named /\ g.call.kind = "replace"
      /\ e = [offset |-> q.at, uid |-> sqi[n].uid, rcvd |-> msg.rcvd]
      /\ y = Anew(sqi, n, e)
      /\ r = InIts(q, old, n, msg)
  BY DEF Coming
<1> DEFINE at == q.at
           r2 == HeadAt(FillAt(q, msg), old)
           r3 == [r2 EXCEPT !.index = y]
           w == [kind |-> "entry", at |-> n, entry |-> e]
<1>1. /\ hdr \in Header /\ sqi \in Seq(Entry) /\ hdr.count = Len(sqi)
      /\ n \in DOMAIN sqi
  BY <1>0 DEF Standing
<1>2. at \in 1 .. MaxFrame
  <2>1. /\ q.base.endFrame \in 1 .. MaxFrame + 1 /\ Offs(sqi) \in Seq(Nat)
        /\ c \in Seq(Nat) /\ Parted(q.base.endFrame, Offs(sqi), c, {q.at})
    BY <1>0, <1>1, OffsHolds DEF Arranged
  <2>2. \A o \in ToSet(Offs(sqi)) \cup ToSet(c) \cup {q.at} :
                    o \in 1 .. MaxFrame
    BY <1>0, <2>1, InChain
  <2> QED
    BY <1>0, <2>2
<1>3. Filled(g, q, r2, hdr, sqi, old, msg)
  <2>1. Halfway(g, q, hdr, sqi) /\ Known(q, sqi)
    BY <1>0 DEF Halfway, Known
  <2>2. Arranged(q.base, q.frames, q.index, c, {q.at})
    BY <1>0
  <2> QED
    BY <1>0, <2>1, <2>2, FilledHolds
<1> HIDE DEF r2
<1>4. /\ Leads(g, r2, hdr, sqi) /\ r2.ok /\ r2.index = sqi /\ r2.at = at
      /\ r2.base = q.base /\ r2.full = q.full
      /\ Unseen(hdr, sqi, q.frames, r2.frames)
      /\ r2.frames[at].type = "normal" /\ r2.frames[at].next = old.next
      /\ r2.frames[at].prev = old.prev /\ r2.frames[at].room = q.room
      /\ r2.frames[at].msg = msg
      /\ \A o \in 1 .. MaxFrame : o # at => r2.frames[o] = q.frames[o]
  BY <1>0, <1>3 DEF Filled, Alike
<1>5. r2 \in Plan
  BY <1>0, <1>4, LeadsTyped
<1>6. /\ e \in Entry /\ r = Do(r3, w)
  <2>1. e = [offset |-> r2.at, uid |-> r2.index[n].uid, rcvd |-> msg.rcvd]
    BY <1>0, <1>4
  <2>2. n \in DOMAIN r2.index
    BY <1>0, <1>1, <1>4
  <2>3. /\ e \in Entry
        /\ NameAt(r2, n, msg)
                = Do([r2 EXCEPT !.index = Anew(r2.index, n, e)],
                     [kind |-> "entry", at |-> n, entry |-> e])
    BY <1>0, <1>5, <2>1, <2>2, NameAtIs
  <2>4. r = NameAt(r2, n, msg)
    BY <1>0 DEF InIts, r2
  <2> QED
    BY <1>0, <1>4, <2>3, <2>4
<1>7. y \in Seq(Entry)
  BY <1>0, <1>1, <1>6, AnewHolds
<1>8. /\ r3 \in Plan /\ r3.todo = r2.todo /\ r3.frames = r2.frames /\ r3.ok
      /\ r3.index = y /\ r3.base = r2.base /\ r3.at = at /\ r3.full = r2.full
  BY <1>0, <1>4, <1>5, <1>7 DEF Plan
<1> HIDE DEF r3
<1>9. Leads(g, r3, hdr, sqi)
  BY <1>0, <1>4, <1>8, LeadsOther
<1>10. e.offset = at /\ e.uid = sqi[n].uid /\ Housed(r2.frames, e)
  <2>1. e.offset = at /\ e.uid = sqi[n].uid
    BY <1>0
  <2> QED
    BY <1>0, <1>4, <2>1 DEF Housed
<1>11. Moved(g, r3, hdr, sqi, n, e)
  <2>1. r3.frames[e.offset].type # "free" /\ Housed(r3.frames, e)
    BY <1>0, <1>4, <1>8, <1>10
  <2> QED
    BY <1>0, <1>1, <1>2, <1>6, <1>8, <1>9, <1>10, <2>1 DEF Moved
<1>12. /\ View(DiskOf(hdr, r3.frames, sqi)) = g.from
       /\ View(DiskOf(hdr, r3.frames, y)) = g.to
  <2>1. View(DiskOf(hdr, r3.frames, sqi)) = g.from
    BY <1>0, <1>4, <1>8 DEF Unseen
  <2>2. View(DiskOf(hdr, r3.frames, Anew(sqi, n, e)))
                = Rewrote(View(DiskOf(hdr, r3.frames, sqi)), n,
                          r3.frames[e.offset].msg)
    BY <1>0, <1>1, <1>6, ViewMoved
  <2> QED
    BY <1>0, <1>4, <1>8, <1>10, <2>1, <2>2
<1>13. /\ Leads(g, Do(r3, w), hdr, Anew(sqi, n, e))
       /\ Alike(r3, Do(r3, w))
       /\ Do(r3, w).frames = r3.frames
  BY <1>0, <1>11, <1>12, MoveWrite
<1> HIDE DEF w
<1>14. /\ Leads(g, r, hdr, y) /\ r.frames = r2.frames /\ r.index = y
       /\ r.ok /\ r.base = q.base /\ r.at = at /\ r.full = q.full
  BY <1>0, <1>4, <1>6, <1>8, <1>13 DEF Alike
<1> QED
  BY <1>0, <1>2, <1>4, <1>6, <1>8, <1>10, <1>12, <1>14 DEF Come

\* What has to be in hand to leave the old frame: the message stands in its
\* new one, which its record names.
Arrived(g, q, n, old, c, e, y, r) ==
    /\ Leads(g, r, hdr, y) /\ e \in Entry /\ r.index = y
    /\ r.ok /\ r.base = q.base /\ r.at = q.at /\ ~ r.full
    /\ \A o \in 1 .. MaxFrame : o # q.at => r.frames[o] = q.frames[o]
    /\ r.frames[q.at].type = "normal"
    /\ r.frames[q.at].next = old.next
    /\ r.frames[q.at].prev = old.prev
    /\ r.frames[q.at].msg.rcvd = e.rcvd
    /\ Housed(r.frames, e)
    /\ View(DiskOf(hdr, r.frames, y)) = g.to
    /\ q.at \in 1 .. MaxFrame
    /\ q.frames \in [1 .. MaxFrame -> Frame]
    /\ Arranged(q.base, q.frames, sqi, c, {q.at})
    /\ q.index = sqi
    /\ q.base.count = hdr.count
    /\ q.base.nextUid = hdr.nextUid
    /\ Standing(n)
    /\ old = frames[sqi[n].offset]
    /\ q.frames[sqi[n].offset] = old
    /\ e.offset = q.at
    /\ y = Anew(sqi, n, e)

\* The neighbours linked to it.
LEMMA LinkedInHolds ==
    ASSUME NEW g, NEW q, NEW n, NEW old, NEW c, NEW e, NEW y, NEW r,
           Arrived(g, q, n, old, c, e, y, r), NEW r2,
           r2 = AfterAt(BeforeAt(r, old), old)
    PROVE  /\ Leads(g, r2, hdr, y) /\ Alike(r, r2)
           /\ View(DiskOf(hdr, r2.frames, y)) = g.to
           /\ Relinked(q.frames, r2.frames, old, q.at)
           /\ r2.frames[q.at].type = "normal"
           /\ r2.frames[q.at].next = old.next
           /\ r2.frames[q.at].prev = old.prev
           /\ r2.frames[q.at].msg.rcvd = e.rcvd
           /\ Housed(r2.frames, e)
           /\ r2.frames \in [1 .. MaxFrame -> Frame]
<1> DEFINE at == q.at
           from == sqi[n].offset
           u == Offs(sqi)
           fs2 == LinkedFrames(r.frames, old.prev, at, old.next, at)
<1>1. /\ Leads(g, r, hdr, y) /\ r.ok /\ r.at = at /\ r.base = q.base
      /\ r.index = y
      /\ View(DiskOf(hdr, r.frames, y)) = g.to
      /\ at \in 1 .. MaxFrame
      /\ q.frames \in [1 .. MaxFrame -> Frame]
      /\ Arranged(q.base, q.frames, sqi, c, {at})
      /\ q.index = sqi
      /\ old = q.frames[from]
      /\ e.offset = at
      /\ \A o \in 1 .. MaxFrame : o # at => r.frames[o] = q.frames[o]
  BY DEF Arrived
<1>2. /\ r.frames[at].type = "normal"
      /\ r.frames[at].next = old.next
      /\ r.frames[at].prev = old.prev
      /\ r.frames[at].msg.rcvd = e.rcvd
      /\ Housed(r.frames, e)
  BY DEF Arrived
<1>3. sqi \in Seq(Entry) /\ n \in DOMAIN sqi
  BY DEF Arrived, Standing
<1>4. r \in Plan /\ r.frames \in [1 .. MaxFrame -> Frame]
  BY <1>1, LeadsTyped
<1>5. /\ u \in Seq(Nat) /\ DOMAIN u = DOMAIN sqi /\ u[n] = from
  BY <1>3, OffsHolds
<1>6. old.prev = At(u, n - 1) /\ old.next = At(u, n + 1)
  <2>1. Chain(q.frames, u, "normal")
    BY <1>1 DEF Arranged
  <2> QED
    BY <1>1, <1>3, <1>5, <2>1 DEF Chain
<1>7. /\ \A i : At(u, i) # 0 => At(u, i) \in ToSet(u)
      /\ \A o \in ToSet(u) : o # at
      /\ \A i : At(u, i) \in 0 .. MaxFrame
  <2>1. /\ q.base.endFrame \in 1 .. MaxFrame + 1
        /\ c \in Seq(Nat) /\ Parted(q.base.endFrame, u, c, {at})
    BY <1>1 DEF Arranged
  <2>2. /\ \A i : At(u, i) # 0 => At(u, i) \in ToSet(u)
        /\ \A i : At(u, i) \in 0 .. MaxFrame
    BY <1>5, <2>1, InChain
  <2>3. ToSet(u) \cap {at} = {}
    BY <2>1 DEF Parted
  <2> QED
    BY <2>2, <2>3
<1>8. at # 0 /\ at \in Nat
  BY <1>1, BoundsAssumption
<1>9. old.prev # at /\ old.next # at
  BY <1>6, <1>7, <1>8
<1>10. Linkable(r, old.prev) /\ Linkable(r, old.next)
  <2>1. \A i : Linkable(q, At(u, i))
    BY <1>1, Reads
  <2>2. ASSUME NEW o, Linkable(q, o), o # at
        PROVE  Linkable(r, o)
    BY <1>1, <2>2 DEF Linkable, Readable
  <2> QED
    BY <1>6, <1>9, <2>1, <2>2
<1>11. r2 = Linking(r, old.prev, at, old.next, at)
  <2>1. BeforeAt(r, old).at = at
    BY <1>1, <1>4, LinkKeepsAt DEF BeforeAt
  <2>2. BeforeAt(r, old) = IF old.prev = 0 THEN r ELSE SetFrameNext(r, old.prev, at)
    BY <1>1 DEF BeforeAt
  <2> DEFINE r1 == BeforeAt(r, old)
  <2>3. r2 = IF old.next = 0 THEN r1 ELSE SetFramePrev(r1, old.next, at)
    <3>1. r2 = AfterAt(r1, old)
      OBVIOUS
    <3> HIDE DEF r1
    <3> QED
      BY <2>1, <3>1 DEF AfterAt, r1
  <2> HIDE DEF r1, at
  <2> QED
    BY <2>2, <2>3 DEF Linking, r1
<1> HIDE DEF at
<1>12. Calm(g, r, r2, hdr, y, fs2)
  <2>1. Halfway(g, r, hdr, y)
    BY <1>1 DEF Halfway
  <2> HIDE DEF fs2
  <2> QED
    BY <1>1, <1>8, <1>10, <1>11, <2>1, LinkingWrites, SMTT(20) DEF fs2
<1>13. /\ fs2 \in [1 .. MaxFrame -> Frame]
       /\ OnlyLinked(r.frames, fs2, old.prev, at, old.next, at)
  BY <1>4, <1>6, <1>7, <1>8, LinkedFramesHolds
<1> HIDE DEF fs2
<1>14. Leads(g, r2, hdr, y) /\ Alike(r, r2) /\ r2.frames = fs2
       /\ View(DiskOf(hdr, fs2, y)) = g.to
  BY <1>1, <1>12 DEF Calm
<1>15. Relinked(q.frames, fs2, old, at)
  BY <1>1, <1>13 DEF OnlyLinked, Relinked
<1>16. /\ fs2[at].type = "normal"
       /\ fs2[at].next = old.next
       /\ fs2[at].prev = old.prev
       /\ fs2[at].msg = r.frames[at].msg
       /\ fs2[at].room = r.frames[at].room
  BY <1>1, <1>2, <1>9, <1>13 DEF OnlyLinked
<1>17. Housed(fs2, e)
  BY <1>1, <1>2, <1>16 DEF Housed
<1> QED
  BY <1>2, <1>13, <1>14, <1>15, <1>16, <1>17 DEF at

\* The old frame given back, and the header.
LEMMA LeftHolds ==
    ASSUME NEW g, NEW q, NEW n, NEW old, NEW c, NEW e, NEW y, NEW r,
           Arrived(g, q, n, old, c, e, y, r), NEW r2,
           r2 = AfterAt(BeforeAt(r, old), old), NEW call, NEW v,
           g = Aim(call, v)
    PROVE  Planned(call, Return(Leave(r2, sqi[n].offset, old)), v)
<1> DEFINE from == sqi[n].offset
           r3 == EndsAt(r2, from)
           r4 == ReleaseFrame(r3, from, old)
           r5 == WriteBaseHeader(r4)
           b == WithMoved(q.base, from, q.at)
<1>1. /\ Leads(g, r2, hdr, y) /\ Alike(r, r2)
      /\ View(DiskOf(hdr, r2.frames, y)) = g.to
      /\ Relinked(q.frames, r2.frames, old, q.at)
      /\ r2.frames[q.at].type = "normal"
      /\ r2.frames[q.at].next = old.next
      /\ r2.frames[q.at].prev = old.prev
      /\ r2.frames[q.at].msg.rcvd = e.rcvd
      /\ Housed(r2.frames, e)
      /\ r2.frames \in [1 .. MaxFrame -> Frame]
  BY LinkedInHolds
<1>2. /\ e \in Entry /\ r.index = y /\ r.ok /\ r.base = q.base /\ r.at = q.at
      /\ ~ r.full /\ q.at \in 1 .. MaxFrame
      /\ Arranged(q.base, q.frames, sqi, c, {q.at})
      /\ q.base.count = hdr.count /\ q.base.nextUid = hdr.nextUid
      /\ old = q.frames[from] /\ e.offset = q.at /\ y = Anew(sqi, n, e)
  BY DEF Arrived
<1>3. /\ sqi \in Seq(Entry) /\ n \in DOMAIN sqi /\ hdr.count = Len(sqi)
      /\ from \in 1 .. MaxFrame /\ old \in Frame /\ hdr \in Header
  BY DEF Arrived, Standing
<1>4. Arranged(b, r2.frames, y, c, {from})
  <2>1. /\ Arranged(q.base, q.frames, sqi, c, {q.at})
        /\ n \in DOMAIN sqi /\ e \in Entry /\ e.offset = q.at
        /\ r2.frames \in [1 .. MaxFrame -> Frame]
        /\ old = q.frames[sqi[n].offset]
        /\ Relinked(q.frames, r2.frames, old, q.at)
        /\ Housed(r2.frames, e) /\ r2.frames[q.at].msg.rcvd = e.rcvd
        /\ r2.frames[q.at].type = "normal"
        /\ r2.frames[q.at].next = old.next
        /\ r2.frames[q.at].prev = old.prev
    BY <1>1, <1>2, <1>3
  <2>2. PICK at : at = q.at
    OBVIOUS
  <2>3. PICK fs, fs2 : fs = q.frames /\ fs2 = r2.frames
    OBVIOUS
  <2>4. Arranged(WithMoved(q.base, sqi[n].offset, at), fs2, Anew(sqi, n, e), c,
                 {sqi[n].offset})
    <3>1. /\ Arranged(q.base, fs, sqi, c, {at})
          /\ n \in DOMAIN sqi /\ e \in Entry /\ e.offset = at
          /\ fs2 \in [1 .. MaxFrame -> Frame]
          /\ old = fs[sqi[n].offset]
          /\ Relinked(fs, fs2, old, at)
          /\ Housed(fs2, e) /\ fs2[at].msg.rcvd = e.rcvd
          /\ fs2[at].type = "normal"
          /\ fs2[at].next = old.next
          /\ fs2[at].prev = old.prev
      BY <2>1, <2>2, <2>3
    <3> QED
      BY <3>1, MovedHolds
  <2> QED
    BY <1>2, <2>2, <2>3, <2>4
<1>5. g.from = View(now) /\ g.to = v
  BY DEF Aim
<1> HIDE DEF b
<1>6. r2 \in Plan /\ r2.ok /\ r2.index = y /\ r2.base = q.base /\ r2.at = q.at
      /\ r2.full = r.full
  BY <1>1, <1>2, LeadsTyped DEF Alike
<1>7. /\ r3 \in Plan /\ r3.base = b /\ r3.todo = r2.todo
      /\ r3.frames = r2.frames /\ r3.index = y /\ r3.ok /\ r3.full = r2.full
  <2>1. from \in Nat
    BY <1>3, BoundsAssumption
  <2> HIDE DEF from
  <2> QED
    BY <1>6, <2>1, EndsAtIs DEF b
<1> HIDE DEF r3
<1>8. Leads(g, r3, hdr, y)
  BY <1>1, <1>7, LeadsOther
<1>9. y \in Seq(Entry) /\ Len(y) = Len(sqi)
  BY <1>2, <1>3, AnewHolds
<1>10. from \notin ToSet(Offs(y))
  <2>1. Parted(b.endFrame, Offs(y), c, {from})
    BY <1>4 DEF Arranged
  <2> QED
    BY <2>1 DEF Parted
<1>11. Released(g, r3, r4, hdr, y, c, {from}, from)
  <2>1. Halfway(g, r3, hdr, y)
    BY <1>1, <1>7 DEF Halfway
  <2>2. Arranged(r3.base, r3.frames, r3.index, c, {from})
    BY <1>4, <1>7
  <2> HIDE DEF from
  <2>3. from \in {from}
    OBVIOUS
  <2> QED
    BY <1>3, <1>7, <1>8, <1>10, <2>1, <2>2, <2>3, ReleaseHolds
<1> HIDE DEF r4
<1>12. /\ Leads(g, r4, hdr, y) /\ r4.ok /\ r4.index = y
       /\ r4.base.count = hdr.count /\ r4.base.nextUid = hdr.nextUid
       /\ View(DiskOf(hdr, r4.frames, y)) = g.to
       /\ Arranged(r4.base, r4.frames, y, Append(c, from), {})
  <2>1. b.count = hdr.count /\ b.nextUid = hdr.nextUid
    <3>1. q.base \in Header /\ q.at \in Nat
      BY <1>2, BoundsAssumption DEF Arranged
    <3> QED
      BY <1>2, <3>1, WithMovedHolds DEF b
  <2>2. {from} \ {from} = {}
    OBVIOUS
  <2> HIDE DEF from
  <2> QED
    BY <1>1, <1>7, <1>11, <2>1, <2>2 DEF Released, Unseen
<1> HIDE DEF from
<1>13. /\ Leads(g, r5, r4.base, y)
       /\ r5.frames = r4.frames
       /\ View(DiskOf(r4.base, r4.frames, y)) = View(DiskOf(hdr, r4.frames, y))
  <2>1. Halfway(g, r4, hdr, y)
    BY <1>12 DEF Halfway
  <2>2. Loads(r4.base, y) = Loads(hdr, y)
    BY <1>12 DEF Loads
  <2> QED
    BY <1>12, <2>1, <2>2, HeaderWrite
<1> HIDE DEF r5
<1>14. Whole(DiskOf(r4.base, r5.frames, y))
  <2>1. r4.base.count = Len(y)
    BY <1>3, <1>9, <1>12
  <2> QED
    BY <1>12, <1>13, <2>1 DEF Whole, DiskOf
<1>15. r5 = Leave(r2, from, old)
  BY DEF r5, r4, r3, Leave
<1>16. View(DiskOf(r4.base, r5.frames, y)) = v
  BY <1>5, <1>12, <1>13
<1>17. Planned(call, Return(r5), v)
  BY <1>13, <1>14, <1>16, PlannedBy
<1> QED
  BY <1>15, <1>17 DEF from

LEMMA ElsewhereHolds ==
    ASSUME scope \in Scopes, NEW g, NEW r, NEW n, NEW msg, NEW call,
           Replacing(g, r, n, msg, call)
    PROVE  \/ Stuck(Return(ReplaceElsewhere(r, n, msg)))
           \/ Planned(call, Return(ReplaceElsewhere(r, n, msg)),
                      Rewrote(View(now), n, msg))
<1> DEFINE from == sqi[n].offset
           old == frames[from]
           q == AllocateFrame(r, Room[msg.text])
           m == ReplaceElsewhere(r, n, msg)
           e == [offset |-> q.at, uid |-> sqi[n].uid, rcvd |-> msg.rcvd]
           y == Anew(sqi, n, e)
           in == InIts(q, old, n, msg)
           in2 == AfterAt(BeforeAt(in, old), old)
           v == Rewrote(View(now), n, msg)
<1>1. /\ g = Aim(call, v) /\ Begun(g, r) /\ Standing(n) /\ Whole(now)
      /\ msg \in Letter /\ msg.uid = sqi[n].uid /\ call.kind = "replace"
      /\ sqi[n].uid \in call.named
  BY DEF Replacing
<1>2. /\ Leads(g, r, hdr, sqi) /\ r.ok /\ ~ r.full /\ r.base = hdr
      /\ r.index = sqi /\ r.frames = frames /\ r.pool = <<>>
  BY <1>1 DEF Begun
<1>3. /\ hdr \in Header /\ sqi \in Seq(Entry) /\ n \in DOMAIN sqi
      /\ now = DiskOf(hdr, frames, sqi) /\ old \in Frame /\ old.type = "normal"
      /\ from \in 1 .. MaxFrame
  BY <1>1 DEF Standing
<1>4. g.from = View(now) /\ g.to = v /\ g.call = call
  BY <1>1 DEF Aim
<1>5. m = Then(q, LAMBDA s : Moving(s, from, old, n, msg))
  <2>1. ReplaceElsewhere(r, n, msg)
            = Then(AllocateFrame(r, Room[msg.text]),
                   LAMBDA s : Moving(s, r.index[n].offset,
                                     r.frames[r.index[n].offset], n, msg))
    BY ElsewhereIs
  <2> QED
    BY <1>2, <2>1
<1> HIDE DEF v, old, from
<1>6. PICK c0 : Arranged(hdr, frames, sqi, c0, {})
  BY <1>1 DEF Whole, now
<1>7. Allocated(g, r, q, hdr, sqi, Room[msg.text])
  <2>1. Halfway(g, r, hdr, sqi)
    BY <1>2, <1>3, <1>4 DEF Halfway
  <2>2. Arranged(r.base, r.frames, r.index, c0, {})
    BY <1>2, <1>6
  <2>3. ToSet(r.pool) \subseteq ToSet(c0)
    BY <1>2 DEF ToSet
  <2>4. Room[msg.text] \in 0 .. MaxRoom
    <3>1. msg.text \in Text
      BY <1>1 DEF Letter
    <3> QED
      BY <3>1, RoomAssumption
  <2> QED
    BY <1>2, <2>1, <2>2, <2>3, <2>4, AllocateHolds
<1> HIDE DEF q
<1>8. CASE Stuck(q)
  <2>1. m = q
    <3>1. q.full
      BY <1>8 DEF Stuck
    <3> QED
      BY <1>5, <3>1 DEF Then, Moving
  <2>2. Stuck(Return(q))
    BY <1>8, SettleStuck
  <2> QED
    BY <2>1, <2>2
<1>9. CASE ~ Stuck(q)
  <2>1. PICK c : Placed(g, r, q, hdr, sqi, c)
    BY <1>7, <1>9 DEF Allocated
  <2>2. q.room >= Room[msg.text]
    BY <1>7, <1>9 DEF Allocated
  <2>3. /\ Leads(g, q, hdr, sqi) /\ q.ok /\ q.index = sqi /\ q.full = r.full
        /\ q.base.count = hdr.count /\ q.base.nextUid = hdr.nextUid
        /\ View(DiskOf(hdr, q.frames, sqi)) = g.from
        /\ Arranged(q.base, q.frames, sqi, c, {q.at})
        /\ q.frames[from] = old
    <3>1. from \in ToSet(Offs(sqi))
      <4>1. ToSet(Offs(sqi)) = {sqi[i].offset : i \in DOMAIN sqi}
        BY <1>3, OffsHolds
      <4> QED
        BY <1>3, <4>1 DEF from
    <3> QED
      BY <1>2, <1>3, <1>4, <2>1, <3>1 DEF Placed, old
  <2>4. /\ Leads(g, in, hdr, y) /\ e \in Entry /\ in.index = y
        /\ in.ok = q.ok /\ in.base = q.base /\ in.at = q.at /\ in.full = q.full
        /\ \A o \in 1 .. MaxFrame : o # q.at => in.frames[o] = q.frames[o]
        /\ in.frames[q.at].type = "normal"
        /\ in.frames[q.at].next = old.next
        /\ in.frames[q.at].prev = old.prev
        /\ in.frames[q.at].msg = msg
        /\ Housed(in.frames, e)
        /\ View(DiskOf(hdr, in.frames, y)) = g.to
        /\ q.at \in 1 .. MaxFrame
    <3>1. Room[msg.text] <= q.room
      <4>1. Room[msg.text] \in Nat /\ q.room \in Nat
        <5>1. msg.text \in Text /\ q \in Plan
          BY <1>1, <2>3, LeadsTyped DEF Letter
        <5> QED
          BY <5>1, RoomAssumption DEF Plan
      <4> QED
        BY <2>2, <4>1
    <3>2. /\ g.to = Rewrote(g.from, n, msg)
          /\ sqi[n].uid \in g.call.named /\ g.call.kind = "replace"
      BY <1>1, <1>4 DEF v
    <3> HIDE DEF in, y, e
    <3>3. /\ e = [offset |-> q.at, uid |-> sqi[n].uid, rcvd |-> msg.rcvd]
          /\ y = Anew(sqi, n, e) /\ in = InIts(q, old, n, msg)
      BY DEF e, y, in
    <3>4. Coming(g, q, n, msg, old, c, e, y, in)
      BY <1>1, <1>3, <2>3, <3>1, <3>2, <3>3 DEF Coming
    <3>5. Come(g, q, old, e, y, in, msg)
      BY <3>4, InItsHolds
    <3> QED
      BY <3>5 DEF Come
  <2>5. Arrived(g, q, n, old, c, e, y, in)
    <3>1. e.offset = q.at /\ e.rcvd = msg.rcvd /\ y = Anew(sqi, n, e)
      OBVIOUS
    <3>2. old = frames[sqi[n].offset] /\ q.frames[sqi[n].offset] = old
      BY <2>3 DEF old, from
    <3>3. q.frames \in [1 .. MaxFrame -> Frame]
      BY <2>3, LeadsTyped
    <3> HIDE DEF e, y, in
    <3> QED
      BY <1>1, <1>2, <2>3, <2>4, <3>1, <3>2, <3>3 DEF Arrived
  <2>6. Alike(in, in2)
    <3> HIDE DEF in, y, e
    <3> QED
      BY <2>5, LinkedInHolds
  <2> HIDE DEF e, y, in
  <2>7. in2.ok
    BY <2>3, <2>4, <2>6 DEF Alike
  <2>8. m = Leave(in2, from, old)
    <3>1. m = Moving(q, from, old, n, msg)
      <4>1. Then(q, LAMBDA s : Moving(s, from, old, n, msg))
                = Moving(q, from, old, n, msg)
        BY <2>3 DEF Then
      <4> QED
        BY <1>5, <4>1
    <3>2. Moving(q, from, old, n, msg)
            = Then(in2, LAMBDA s : Leave(s, from, old))
      <4>1. ~ q.full
        BY <1>2, <2>3
      <4> QED
        BY <4>1 DEF Moving, in
    <3> HIDE DEF in2, m
    <3>3. Then(in2, LAMBDA s : Leave(s, from, old)) = Leave(in2, from, old)
      BY <2>7 DEF Then
    <3> QED
      BY <3>1, <3>2, <3>3
  <2>9. Planned(call, Return(Leave(in2, sqi[n].offset, old)), v)
    BY <1>1, <2>5, LeftHolds
  <2> HIDE DEF in2, m
  <2>10. Planned(call, Return(m), v)
    BY <2>8, <2>9 DEF from
  <2> QED
    BY <2>10 DEF v, m
<1> QED
  BY <1>8, <1>9

Replacement(r, n, draft) ==
    [uid |-> r.index[n].uid, text |-> draft.text, rcvd |-> draft.rcvd,
     seen |-> r.frames[r.index[n].offset].msg.seen]

ReplaceRun(r, n, draft) ==
    IF ~Holds(r, n) THEN Refuse(r)
    ELSE IF Fits(r.frames[r.index[n].offset].room, Room[draft.text])
    THEN ReplaceInPlace(r, n, Replacement(r, n, draft))
    ELSE ReplaceElsewhere(r, n, Replacement(r, n, draft))

LEMMA ReplaceIs ==
    ASSUME NEW p, NEW n, NEW draft
    PROVE  PlanReplace(p, n, draft)
                = Return(Then(Reload(p), LAMBDA r : ReplaceRun(r, n, draft)))
BY DEF PlanReplace, ReplaceRun, Replacement

\* replace().
LEMMA ReplacePlan ==
    ASSUME scope \in Scopes, now \in Disk, Whole(now), NEW p, NEW n,
           NEW draft \in Drafts, NEW call, call.kind = "replace",
           n \in DOMAIN sqi => sqi[n].uid \in call.named,
           ~ PlanReplace(p, n, draft).full
    PROVE  \E v : /\ Planned(call, PlanReplace(p, n, draft), v)
                  /\ v = View(now) \/ ReplacedIn(View(now), v)
<1> DEFINE r == Reload(p)
           m == ReplaceRun(r, n, draft)
           msg == Replacement(r, n, draft)
           v == Rewrote(View(now), n, msg)
           g == Aim(call, v)
<1>1. Begun(g, r)
  BY ReloadHolds
<1>2. r.ok /\ r.index = sqi /\ r.frames = frames /\ r.base = hdr
  BY <1>1 DEF Begun
<1>3. PlanReplace(p, n, draft) = Return(m)
  <2>1. PlanReplace(p, n, draft)
            = Return(Then(r, LAMBDA q : ReplaceRun(q, n, draft)))
    BY ReplaceIs
  <2> HIDE DEF r
  <2> QED
    BY <1>2, <2>1 DEF Then
<1>4. CASE ~Holds(r, n)
  <2>1. m = Refuse(r)
    BY <1>4 DEF ReplaceRun
  <2>2. Planned(call, Return(m), View(now))
    <3> HIDE DEF m
    <3> QED
      BY <2>1, NothingPlan
  <2> QED
    BY <1>3, <2>2
<1>5. CASE Holds(r, n)
  <2>1. n \in DOMAIN sqi
    BY <1>2, <1>5 DEF Holds
  <2>2. Standing(n)
    BY <2>1, Stands
  <2>3. /\ frames[sqi[n].offset].msg \in Letter /\ sqi[n] \in Entry
        /\ frames[sqi[n].offset].msg.uid = sqi[n].uid
        /\ frames[sqi[n].offset] \in Frame
        /\ now = DiskOf(hdr, frames, sqi) /\ hdr \in Header
        /\ frames \in [1 .. MaxFrame -> Frame] /\ sqi \in Seq(Entry)
        /\ hdr.count = Len(sqi) /\ OneToOne(Offs(sqi)) /\ InUse(frames, sqi)
    BY <2>2 DEF Standing
  <2>4. /\ msg \in Letter /\ msg.uid = sqi[n].uid /\ msg.text = draft.text
        /\ msg.seen = frames[sqi[n].offset].msg.seen
    <3>1. msg = [uid |-> sqi[n].uid, text |-> draft.text, rcvd |-> draft.rcvd,
                 seen |-> frames[sqi[n].offset].msg.seen]
      BY <1>2 DEF Replacement
    <3>2. draft.text \in Text /\ draft.rcvd \in BOOLEAN
      BY DraftsAssumption
    <3> HIDE DEF msg
    <3> QED
      BY <2>3, <3>1, <3>2 DEF Letter, Entry
  <2> HIDE DEF msg, r
  <2>5. Replacing(g, r, n, msg, call)
    BY <1>1, <2>1, <2>2, <2>4 DEF Replacing
  <2>6. ReplacedIn(View(now), v)
    <3>1. /\ n \in DOMAIN View(DiskOf(hdr, frames, sqi)).messages
          /\ View(DiskOf(hdr, frames, sqi)).messages[n]
                    = frames[sqi[n].offset].msg
      BY <2>1, <2>3, <2>4, ViewRewrote
    <3>2. /\ n \in DOMAIN View(now).messages
          /\ msg.uid = View(now).messages[n].uid
          /\ msg.seen = View(now).messages[n].seen
      BY <2>3, <2>4, <3>1
    <3> QED
      BY <2>4, <3>2 DEF ReplacedIn
  <2>7. CASE Fits(r.frames[r.index[n].offset].room, Room[draft.text])
    <3>1. m = ReplaceInPlace(r, n, msg)
      BY <1>5, <2>7 DEF ReplaceRun, msg
    <3>2. Room[msg.text] <= frames[sqi[n].offset].room
      <4>1. Room[msg.text] \in Nat /\ frames[sqi[n].offset].room \in Nat
        BY <2>3, <2>4, RoomAssumption DEF Letter, Frame
      <4>2. frames[sqi[n].offset].room >= Room[msg.text]
        BY <1>2, <2>4, <2>7 DEF Fits
      <4> QED
        BY <4>1, <4>2
    <3>3. Planned(call, Return(ReplaceInPlace(r, n, msg)), v)
      BY <2>5, <3>2, InPlaceHolds
    <3> QED
      BY <1>3, <2>6, <3>1, <3>3
  <2>8. CASE ~ Fits(r.frames[r.index[n].offset].room, Room[draft.text])
    <3>1. m = ReplaceElsewhere(r, n, msg)
      BY <1>5, <2>8 DEF ReplaceRun, msg
    <3>2. \/ Stuck(Return(ReplaceElsewhere(r, n, msg)))
          \/ Planned(call, Return(ReplaceElsewhere(r, n, msg)), v)
      BY <2>5, ElsewhereHolds
    <3>3. ~ Stuck(Return(m))
      BY <1>3 DEF Stuck
    <3> QED
      BY <1>3, <2>6, <3>1, <3>2, <3>3
  <2> QED
    BY <2>7, <2>8
<1> QED
  BY <1>4, <1>5

(***************************************************************************)
(* Messages removed: the index                                             *)
(***************************************************************************)

LEMMA RisingIsOneToOne ==
    ASSUME NEW s \in Seq(Nat), Rising(s)
    PROVE  OneToOne(s)
<1>1. SUFFICES ASSUME NEW i \in DOMAIN s, NEW j \in DOMAIN s, s[i] = s[j]
               PROVE  i = j
  BY DEF OneToOne
<1>2. PICK n \in Nat : n = Len(s)
  OBVIOUS
<1>3. i \in 1 .. n /\ j \in 1 .. n /\ s[i] \in Nat /\ s[j] \in Nat
  BY <1>2
<1>4. ~ i < j /\ ~ j < i
  BY <1>1, <1>3 DEF Rising
<1> QED
  BY <1>3, <1>4

\* A rising sequence that has every number up to k begins with them.
LEMMA RisingStart ==
    ASSUME NEW s \in Seq(Nat), Rising(s), 0 \notin ToSet(s),
           NEW k \in Nat, 1 .. k \subseteq ToSet(s)
    PROVE  \A i \in 1 .. k : i \in DOMAIN s /\ s[i] = i
<1> DEFINE T == {i \in 1 .. k : ~ (i \in DOMAIN s /\ s[i] = i)}
<1>1. SUFFICES ASSUME T # {} PROVE FALSE
  OBVIOUS
<1>2. PICK i \in T : \A j \in T : i <= j
  <2>1. T \in SUBSET Nat
    OBVIOUS
  <2> HIDE DEF T
  <2> QED
    BY <1>1, <2>1, LeastNumber
<1>3. PICK n \in Nat : n = Len(s)
  OBVIOUS
<1>4. DOMAIN s = 1 .. n /\ \A j \in 1 .. n : s[j] \in Nat /\ s[j] \in ToSet(s)
  <2>1. DOMAIN s = 1 .. n /\ \A j \in 1 .. n : s[j] \in Nat
    BY <1>3
  <2> QED
    BY <2>1 DEF ToSet
<1>5. i \in 1 .. k /\ i \in Nat /\ ~ (i \in 1 .. n /\ s[i] = i)
  BY <1>2, <1>4
<1>6. PICK j \in 1 .. n : s[j] = i
  BY <1>4, <1>5 DEF ToSet
<1>7. \A a \in 1 .. k : a < i => a \in 1 .. n /\ s[a] = a
  BY <1>2, <1>4
<1>8. ~ j < i
  <2>1. j < i => j \in 1 .. k
    BY <1>5
  <2> QED
    BY <1>5, <1>6, <1>7, <2>1
<1>9. i \in 1 .. n /\ i # j /\ i < j
  BY <1>5, <1>6, <1>8
<1>10. s[i] < i /\ s[i] # 0
  BY <1>4, <1>6, <1>9 DEF Rising
<1>11. s[i] \in 1 .. k /\ s[s[i]] = s[i] /\ s[i] \in 1 .. n
  BY <1>4, <1>5, <1>7, <1>9, <1>10
<1>12. s[s[i]] < s[i]
  BY <1>4, <1>9, <1>10, <1>11 DEF Rising
<1> QED
  BY <1>4, <1>9, <1>11, <1>12

\* y is what is left of ix without S: its i-th record is the kt[i]-th of ix.
Remains(ix, S, kt, y) ==
    /\ kt \in Seq(Nat)
    /\ Rising(kt)
    /\ ToSet(kt) = DOMAIN ix \ S
    /\ y \in Seq(Entry)
    /\ DOMAIN y = DOMAIN kt
    /\ \A i \in DOMAIN y : /\ kt[i] \in DOMAIN ix
                           /\ kt[i] \notin S
                           /\ y[i] = ix[kt[i]]
    /\ \A q \in DOMAIN ix : q \notin S => \E i \in DOMAIN y : kt[i] = q
    /\ Len(y) < Len(ix)

LEMMA WithoutHolds ==
    ASSUME NEW ix \in Seq(Entry), NEW S, S \subseteq DOMAIN ix, S # {}
    PROVE  /\ Remains(ix, S, Sorted(ix, DOMAIN ix \ S), Without(ix, S))
           /\ Min(S) \in S
           /\ \A i \in 1 .. Min(S) - 1 : /\ i \in DOMAIN Without(ix, S)
                                         /\ Without(ix, S)[i] = ix[i]
<1> DEFINE K == DOMAIN ix \ S
           kt == Sorted(ix, K)
           y == Without(ix, S)
           t == Sorted(ix, S)
<1>1. PICK n \in Nat : n = Len(ix)
  OBVIOUS
<1>2. DOMAIN ix = 1 .. n /\ S \subseteq 1 .. n /\ K = (1 .. n) \ S
      /\ \A i \in 1 .. n : ix[i] \in Entry
  BY <1>1
<1>3. /\ kt \in Seq(Nat) /\ Rising(kt) /\ ToSet(kt) = K
      /\ t \in Seq(Nat) /\ Rising(t) /\ ToSet(t) = S
  <2>1. /\ Sorted(ix, K) \in Seq(Nat)
        /\ ToSet(Sorted(ix, K)) = K \cap (1 .. Len(ix))
        /\ Rising(Sorted(ix, K))
    BY SortedHolds
  <2>2. /\ Sorted(ix, S) \in Seq(Nat)
        /\ ToSet(Sorted(ix, S)) = S \cap (1 .. Len(ix))
        /\ Rising(Sorted(ix, S))
    BY SortedHolds
  <2> QED
    BY <1>1, <1>2, <2>1, <2>2
<1>4. y = [i \in DOMAIN kt |-> ix[kt[i]]]
  BY DEF Without
<1> HIDE DEF kt, y, t, K
<1>5. PICK l \in Nat : l = Len(kt)
  BY <1>3
<1>6. DOMAIN kt = 1 .. l /\ \A i \in 1 .. l : kt[i] \in K
  <2>1. DOMAIN kt = 1 .. l
    BY <1>3, <1>5, LenProperties
  <2>2. \A i \in DOMAIN kt : kt[i] \in ToSet(kt)
    BY DEF ToSet
  <2> QED
    BY <1>3, <2>1, <2>2
<1>7. /\ DOMAIN y = 1 .. l /\ y \in Seq(Entry) /\ Len(y) = l
      /\ \A i \in 1 .. l : y[i] = ix[kt[i]]
  BY <1>2, <1>4, <1>6
<1>8. \A q \in 1 .. n : q \notin S => \E i \in 1 .. l : kt[i] = q
  BY <1>2, <1>3, <1>6 DEF ToSet
<1>9. l < n
  <2>1. \A i \in DOMAIN kt : kt[i] \in 1 .. n
    BY <1>2, <1>6
  <2>2. \A i \in DOMAIN t : t[i] \in S
    BY <1>3 DEF ToSet
  <2>3. kt \in Seq(1 .. n) /\ t \in Seq(1 .. n)
    <3>1. \A i \in DOMAIN t : t[i] \in 1 .. n
      BY <1>2, <2>2
    <3> QED
      BY <1>3, <2>1, <3>1, SeqNarrow
  <2>4. OneToOne(kt) /\ OneToOne(t)
    BY <1>3, RisingIsOneToOne
  <2>5. Apart(kt, t)
    BY <1>2, <1>6, <2>2 DEF Apart
  <2>6. Len(kt) + Len(t) <= n
    BY <2>3, <2>4, <2>5, SharedOut
  <2>7. Len(t) \in Nat /\ Len(t) # 0
    <3>1. t # <<>>
      BY <1>3, ToSetIn
    <3> QED
      BY <1>3, <3>1, EmptySeq
  <2> QED
    BY <1>5, <2>6, <2>7
<1>10. Remains(ix, S, kt, y)
  BY <1>1, <1>2, <1>3, <1>5, <1>6, <1>7, <1>8, <1>9 DEF Remains, K
<1>11. Min(S) \in S /\ \A i \in S : Min(S) <= i
  <2>1. S \in SUBSET Nat
    BY <1>2
  <2> QED
    BY <2>1, MinHolds
<1>12. PICK k \in Nat : k = Min(S) - 1
  <2>1. Min(S) \in 1 .. n
    BY <1>2, <1>11
  <2> QED
    BY <2>1
<1>13. 1 .. k \subseteq K
  BY <1>2, <1>11, <1>12
<1>14. 0 \notin ToSet(kt)
  BY <1>2, <1>3
<1>15. \A i \in 1 .. k : i \in DOMAIN kt /\ kt[i] = i
  BY <1>3, <1>13, <1>14, RisingStart
<1>16. \A i \in 1 .. k : i \in DOMAIN y /\ y[i] = ix[i]
  BY <1>6, <1>7, <1>15
<1> QED
  BY <1>10, <1>11, <1>12, <1>16 DEF kt, y, K

LEMMA PartHolds ==
    ASSUME NEW S, NEW s \in Seq(S), NEW a \in Nat, NEW b \in Nat,
           a + b <= Len(s)
    PROVE  /\ SubSeq(s, a + 1, a + b) \in Seq(S)
           /\ Len(SubSeq(s, a + 1, a + b)) = b
           /\ \A i \in 1 .. b : SubSeq(s, a + 1, a + b)[i] = s[a + i]
<1> DEFINE e == SubSeq(s, a + 1, a + b)
<1>1. e = [i \in 1 .. b |-> s[a + i]]
  BY SMT
<1>2. \A i \in 1 .. b : s[a + i] \in S
  OBVIOUS
<1> QED
  BY <1>1, <1>2

Both(s, r) == s \o r

LEMMA JoinHolds ==
    ASSUME NEW S, NEW s \in Seq(S), NEW r \in Seq(S), NEW n \in Nat,
           NEW k \in Nat, Len(s) = n, Len(r) = k
    PROVE  /\ Both(s, r) \in Seq(S) /\ Len(Both(s, r)) = n + k
           /\ \A i \in 1 .. n : Both(s, r)[i] = s[i]
           /\ \A i \in 1 .. k : Both(s, r)[n + i] = r[i]
<1>1. /\ s \o r \in Seq(S) /\ Len(s \o r) = n + k
      /\ \A i \in 1 .. n + k : (s \o r)[i] = IF i <= n THEN s[i] ELSE r[i - n]
  <2>1. /\ s \o r \in Seq(S) /\ Len(s \o r) = Len(s) + Len(r)
        /\ \A i \in 1 .. Len(s) + Len(r) :
              (s \o r)[i] = IF i <= Len(s) THEN s[i] ELSE r[i - Len(s)]
    BY ConcatProperties
  <2> QED
    BY <2>1
<1>2. \A i \in 1 .. n : i \in 1 .. n + k /\ i <= n
  OBVIOUS
<1>3. \A i \in 1 .. k : n + i \in 1 .. n + k /\ ~ (n + i <= n) /\ (n + i) - n = i
  OBVIOUS
<1> QED
  BY <1>1, <1>2, <1>3 DEF Both

\* x with the records j + 1 to j + d written anew, from y.
Overwrite(x, y, j, d, r) ==
    SubSeq(x, 1, (j + 1) - 1) \o SubSeq(y, j + 1, j + d)
        \o SubSeq(x, (j + 1) + d, j + d + r)

Overwritten(S, x, y, j, d, r) ==
    /\ SubSeq(y, j + 1, j + d) \in Seq(S)
    /\ Len(SubSeq(y, j + 1, j + d)) = d
    /\ Overwrite(x, y, j, d, r) \in Seq(S)
    /\ Len(Overwrite(x, y, j, d, r)) = j + d + r
    /\ \A i \in 1 .. j : Overwrite(x, y, j, d, r)[i] = x[i]
    /\ \A i \in 1 .. d : Overwrite(x, y, j, d, r)[j + i] = y[j + i]
    /\ \A i \in 1 .. r : Overwrite(x, y, j, d, r)[j + d + i] = x[j + d + i]

LEMMA OverwriteHolds ==
    ASSUME NEW S, NEW x \in Seq(S), NEW y \in Seq(S), NEW j \in Nat,
           NEW d \in Nat, NEW r \in Nat, Len(x) = j + d + r, Len(y) = j + d
    PROVE  Overwritten(S, x, y, j, d, r)
<1> DEFINE a == SubSeq(x, 1, (j + 1) - 1)
           b == SubSeq(y, j + 1, j + d)
           c == SubSeq(x, (j + 1) + d, j + d + r)
<1>1. a \in Seq(S) /\ Len(a) = j /\ \A i \in 1 .. j : a[i] = x[i]
  <2>1. j \in 0 .. Len(x) /\ (j + 1) - 1 = j
    OBVIOUS
  <2>2. /\ SubSeq(x, 1, j) \in Seq(S) /\ Len(SubSeq(x, 1, j)) = j
        /\ \A i \in 1 .. j : SubSeq(x, 1, j)[i] = x[i]
    BY <2>1, SubSeqHolds
  <2> QED
    BY <2>1, <2>2
<1>2. b \in Seq(S) /\ Len(b) = d /\ \A i \in 1 .. d : b[i] = y[j + i]
  <2>1. j + d <= Len(y)
    OBVIOUS
  <2>2. /\ SubSeq(y, j + 1, j + d) \in Seq(S)
        /\ Len(SubSeq(y, j + 1, j + d)) = d
        /\ \A i \in 1 .. d : SubSeq(y, j + 1, j + d)[i] = y[j + i]
    BY <2>1, PartHolds
  <2> QED
    BY <2>2
<1>3. c \in Seq(S) /\ Len(c) = r /\ \A i \in 1 .. r : c[i] = x[(j + d) + i]
  <2>1. PICK k \in Nat : k = j + d
    OBVIOUS
  <2>2. /\ SubSeq(x, k + 1, k + r) \in Seq(S) /\ Len(SubSeq(x, k + 1, k + r)) = r
        /\ \A i \in 1 .. r : SubSeq(x, k + 1, k + r)[i] = x[k + i]
    <3>1. k + r <= Len(x)
      BY <2>1
    <3> QED
      BY <3>1, PartHolds
  <2>3. (j + 1) + d = k + 1 /\ j + d + r = k + r
    BY <2>1
  <2> QED
    BY <2>1, <2>2, <2>3
<1>4. Overwrite(x, y, j, d, r) = Both(Both(a, b), c)
  BY DEF Overwrite, Both
<1> HIDE DEF a, b, c
<1>5. /\ Both(a, b) \in Seq(S) /\ Len(Both(a, b)) = j + d
      /\ \A i \in 1 .. j : Both(a, b)[i] = a[i]
      /\ \A i \in 1 .. d : Both(a, b)[j + i] = b[i]
  BY <1>1, <1>2, JoinHolds
<1>6. PICK k \in Nat : k = j + d
  OBVIOUS
<1>7. PICK t \in Seq(S) : t = Both(a, b)
  BY <1>5
<1>8. /\ Both(t, c) \in Seq(S) /\ Len(Both(t, c)) = k + r
      /\ \A i \in 1 .. k : Both(t, c)[i] = t[i]
      /\ \A i \in 1 .. r : Both(t, c)[k + i] = c[i]
  <2>1. Len(t) = k
    BY <1>5, <1>6, <1>7
  <2>2. c \in Seq(S) /\ Len(c) = r
    BY <1>3
  <2> QED
    BY <2>1, <2>2, JoinHolds
<1>9. \A i \in 1 .. j : i \in 1 .. k
  BY <1>6
<1>10. \A i \in 1 .. d : j + i \in 1 .. k
  BY <1>6
<1>11. \A i \in 1 .. j : Both(t, c)[i] = x[i]
  BY <1>1, <1>5, <1>7, <1>8, <1>9
<1>12. \A i \in 1 .. d : Both(t, c)[j + i] = y[j + i]
  BY <1>2, <1>5, <1>7, <1>8, <1>10
<1>13. \A i \in 1 .. r : Both(t, c)[j + d + i] = x[j + d + i]
  BY <1>3, <1>6, <1>8
<1>14. Overwrite(x, y, j, d, r) = Both(t, c)
  BY <1>4, <1>7
<1> QED
  BY <1>2, <1>6, <1>8, <1>11, <1>12, <1>13, <1>14 DEF b, Overwritten

\* What a call that removes S begins with.
Removing(g, r, S, call) ==
    /\ g = Aim(call, View(DiskOf(hdr, frames, Without(sqi, S))))
    /\ Begun(g, r)
    /\ now \in Disk
    /\ Whole(now)
    /\ S \subseteq DOMAIN sqi
    /\ S # {}
    /\ call.kind = "remove"
    /\ \A n \in S : sqi[n].uid \in call.named

\* The index between its tail's write and its cut.
Mixed(x2, y) ==
    /\ x2 \in Seq(Entry)
    /\ Len(x2) = Len(sqi)
    /\ \A i \in DOMAIN y : x2[i] = y[i]
    /\ \A i \in DOMAIN sqi : i \notin DOMAIN y => x2[i] = sqi[i]

\* The index of the base and what will be left of it.
Leftover(kt, y, S) ==
    /\ Remains(sqi, S, kt, y)
    /\ hdr \in Header /\ frames \in [1 .. MaxFrame -> Frame] /\ sqi \in Seq(Entry)
    /\ hdr.count = Len(sqi)
    /\ now = DiskOf(hdr, frames, sqi)
    /\ InUse(frames, sqi)
    /\ \A i \in DOMAIN sqi : Housed(frames, sqi[i])

LEMMA MixedFine ==
    ASSUME NEW S, NEW kt, NEW y, Leftover(kt, y, S), NEW x2, Mixed(x2, y)
    PROVE  /\ DiskOf(hdr, frames, x2) \in Disk
           /\ Fine(DiskOf(hdr, frames, x2))
           /\ Loaded(DiskOf(hdr, frames, x2)) = x2
           /\ DiskOf(hdr, frames, y) \in Disk
           /\ Fine(DiskOf(hdr, frames, y))
           /\ Loaded(DiskOf(hdr, frames, y)) = y
<1>1. PICK n \in Nat : n = Len(sqi)
  BY DEF Leftover
<1>2. /\ DOMAIN sqi = 1 .. n /\ DOMAIN x2 = 1 .. n /\ x2 \in Seq(Entry)
      /\ y \in Seq(Entry) /\ Len(y) < n /\ hdr \in Header
      /\ frames \in [1 .. MaxFrame -> Frame] /\ hdr.count = n
      /\ Len(x2) = n
  BY <1>1 DEF Leftover, Mixed, Remains
<1>3. PICK l \in Nat : l = Len(y)
  BY <1>2
<1>4. DOMAIN y = 1 .. l /\ l <= n
  BY <1>2, <1>3
<1>5. \A i \in 1 .. l : \E q \in 1 .. n : y[i] = sqi[q]
  BY <1>2, <1>4 DEF Leftover, Remains
<1>6. \A i \in 1 .. n : \E q \in 1 .. n : x2[i] = sqi[q]
  <2>1. SUFFICES ASSUME NEW i \in 1 .. n
                 PROVE  \E q \in 1 .. n : x2[i] = sqi[q]
    OBVIOUS
  <2>2. CASE i \in DOMAIN y
    BY <1>4, <1>5, <2>2 DEF Mixed
  <2>3. CASE i \notin DOMAIN y
    BY <1>2, <2>3 DEF Mixed
  <2> QED
    BY <2>2, <2>3
<1>7. \A q \in 1 .. n : /\ sqi[q].offset \in 1 .. MaxFrame
                        /\ frames[sqi[q].offset].type # "free"
                        /\ Housed(frames, sqi[q])
  BY <1>2 DEF Leftover, InUse
<1>8. Loads(hdr, x2) = x2 /\ Loads(hdr, y) = y
  <2>1. hdr.count >= Len(x2) /\ hdr.count >= Len(y)
    BY <1>2
  <2> QED
    BY <1>2, <2>1, LoadsHolds
<1>9. InUse(frames, x2) /\ \A i \in DOMAIN x2 : Housed(frames, x2[i])
  BY <1>2, <1>6, <1>7 DEF InUse
<1>10. InUse(frames, y) /\ \A i \in DOMAIN y : Housed(frames, y[i])
  BY <1>4, <1>5, <1>7 DEF InUse
<1> QED
  BY <1>2, <1>8, <1>9, <1>10 DEF DiskOf, Disk, Fine, Loaded

\* Every message but those of S is still there to be loaded.
LEMMA MixedKeeps ==
    ASSUME NEW S, NEW kt, NEW y, Leftover(kt, y, S), NEW x2, Mixed(x2, y)
    PROVE  /\ \A q \in DOMAIN sqi : q \in S \/ \E j \in DOMAIN y : y[j] = sqi[q]
           /\ \A i \in DOMAIN x2 : \/ \E q \in S : x2[i] = sqi[q]
                                   \/ \E j \in DOMAIN y : y[j] = x2[i]
           /\ DOMAIN y \subseteq DOMAIN x2
           /\ Len(y) < Len(x2)
<1>1. PICK n \in Nat : n = Len(sqi)
  BY DEF Leftover
<1>2. /\ DOMAIN sqi = 1 .. n /\ DOMAIN x2 = 1 .. n /\ x2 \in Seq(Entry)
      /\ y \in Seq(Entry) /\ Len(y) < n /\ Len(x2) = n
  BY <1>1 DEF Leftover, Mixed, Remains
<1>3. \A q \in DOMAIN sqi : q \in S \/ \E j \in DOMAIN y : y[j] = sqi[q]
  BY DEF Leftover, Remains
<1>4. \A i \in DOMAIN x2 : \/ \E q \in S : x2[i] = sqi[q]
                           \/ \E j \in DOMAIN y : y[j] = x2[i]
  <2>1. SUFFICES ASSUME NEW i \in DOMAIN x2
                 PROVE  \/ \E q \in S : x2[i] = sqi[q]
                        \/ \E j \in DOMAIN y : y[j] = x2[i]
    OBVIOUS
  <2>2. CASE i \in DOMAIN y
    BY <2>2 DEF Mixed
  <2>3. CASE i \notin DOMAIN y
    BY <1>2, <1>3, <2>3 DEF Mixed
  <2> QED
    BY <2>2, <2>3
<1> QED
  BY <1>2, <1>3, <1>4

LEMMA TailGood ==
    ASSUME NEW S, NEW kt, NEW y, Leftover(kt, y, S), NEW x2, Mixed(x2, y),
           NEW g, g.call.kind = "remove",
           \A n \in S : sqi[n].uid \in g.call.named,
           g.from = View(now), g.to = View(DiskOf(hdr, frames, y)),
           NEW it \in Item, it.write.kind = "tail"
    PROVE  Good(g, now, it, DiskOf(hdr, frames, x2))
<1> DEFINE d == DiskOf(hdr, frames, sqi)
           d2 == DiskOf(hdr, frames, x2)
<1>1. PICK n \in Nat : n = Len(sqi)
  BY DEF Leftover
<1>2. /\ DOMAIN sqi = 1 .. n /\ DOMAIN x2 = 1 .. n /\ x2 \in Seq(Entry)
      /\ y \in Seq(Entry) /\ now = d /\ hdr.count >= Len(sqi)
      /\ hdr \in Header /\ sqi \in Seq(Entry) /\ Len(x2) = n
  BY <1>1 DEF Leftover, Mixed, Remains
<1>3. Loaded(d) = sqi
  <2>1. Loads(hdr, sqi) = sqi
    BY <1>2, LoadsHolds
  <2> QED
    BY <2>1 DEF Loaded, DiskOf
<1>4. d2 \in Disk /\ Fine(d2) /\ Loaded(d2) = x2
      /\ Loaded(DiskOf(hdr, frames, y)) = y
  BY MixedFine
<1>5. /\ \A q \in DOMAIN sqi : q \in S \/ \E j \in DOMAIN y : y[j] = sqi[q]
      /\ DOMAIN y \subseteq DOMAIN x2
      /\ \A j \in DOMAIN y : x2[j] = y[j]
      /\ Len(y) < Len(x2)
  BY MixedKeeps DEF Mixed
<1>6. d.frames = frames /\ d2.frames = frames
  BY DEF DiskOf
<1>7. View(d) # g.to
  <2>1. DOMAIN View(d).messages = 1 .. n
    BY <1>2, <1>3 DEF View, ShownAs
  <2>2. DOMAIN g.to.messages = DOMAIN y
    BY <1>4 DEF View, ShownAs
  <2>3. DOMAIN y # 1 .. n
    <3>1. PICK l \in Nat : l = Len(y)
      BY <1>2
    <3>2. DOMAIN y = 1 .. l /\ l < n
      BY <1>2, <1>5, <3>1
    <3> QED
      BY <3>2
  <2> QED
    BY <2>1, <2>2, <2>3
<1> HIDE DEF d, d2
<1>8. Kept(g.call, d, d2)
  <2>1. ~ Len(Loaded(d2)) > Len(Loaded(d))
    BY <1>1, <1>2, <1>3, <1>4
  <2>2. ASSUME NEW i \in DOMAIN Loaded(d)
        PROVE  \/ Loaded(d)[i].uid \in g.call.named
               \/ \E j \in DOMAIN Loaded(d2) :
                    /\ Loaded(d2)[j].uid = Loaded(d)[i].uid
                    /\ LetterOf(d2, j).text = LetterOf(d, i).text
    <3>1. i \in DOMAIN sqi
      BY <1>3
    <3>2. CASE i \in S
      BY <1>3, <3>2
    <3>3. CASE i \notin S
      <4>1. PICK j \in DOMAIN y : y[j] = sqi[i]
        BY <1>5, <3>1, <3>3
      <4>2. j \in DOMAIN x2 /\ x2[j] = sqi[i]
        BY <1>5, <4>1
      <4> QED
        BY <1>3, <1>4, <1>6, <4>2 DEF LetterOf
    <3> QED
      BY <3>2, <3>3
  <2> QED
    BY <2>1, <2>2 DEF Kept
<1>9. ViewAt(d, it.write) = View(d)
  BY DEF ViewAt
<1>10. it.write.kind # "return" /\ it.write.kind # "cut"
  OBVIOUS
<1>11. Good(g, d, it, d2)
  BY <1>2, <1>4, <1>7, <1>8, <1>9, <1>10 DEF Good
<1> QED
  BY <1>2, <1>11 DEF d2

LEMMA CutGood ==
    ASSUME NEW S, NEW kt, NEW y, Leftover(kt, y, S), NEW x2, Mixed(x2, y),
           NEW g, g.call.kind = "remove",
           \A n \in S : sqi[n].uid \in g.call.named,
           g.to = View(DiskOf(hdr, frames, y)),
           NEW it \in Item, it.write = [kind |-> "cut", to |-> Len(y)]
    PROVE  /\ Good(g, DiskOf(hdr, frames, x2), it, DiskOf(hdr, frames, y))
           /\ IndexAfter(it.write, x2) = y
<1> DEFINE d == DiskOf(hdr, frames, x2)
           d2 == DiskOf(hdr, frames, y)
<1>1. /\ x2 \in Seq(Entry) /\ y \in Seq(Entry)
      /\ \A i \in DOMAIN y : x2[i] = y[i]
  BY DEF Leftover, Mixed, Remains
<1>2. /\ d \in Disk /\ d2 \in Disk /\ Fine(d2) /\ Loaded(d) = x2
      /\ Loaded(d2) = y
  BY MixedFine
<1>3. /\ \A i \in DOMAIN x2 : \/ \E q \in S : x2[i] = sqi[q]
                              \/ \E j \in DOMAIN y : y[j] = x2[i]
      /\ Len(y) < Len(x2)
  BY MixedKeeps
<1>4. PICK l \in Nat : l = Len(y)
  BY <1>1
<1>5. PICK n \in Nat : n = Len(x2)
  BY <1>1
<1>6. SubSeq(x2, 1, l) = y
  <2>1. l \in 0 .. Len(x2)
    BY <1>3, <1>4, <1>5
  <2>2. /\ SubSeq(x2, 1, l) \in Seq(Entry) /\ Len(SubSeq(x2, 1, l)) = l
        /\ \A i \in 1 .. l : SubSeq(x2, 1, l)[i] = x2[i]
    BY <1>1, <2>1, SubSeqHolds
  <2>3. PICK z \in Seq(Entry) : z = SubSeq(x2, 1, l)
    BY <2>2
  <2>4. Len(z) = l /\ \A i \in 1 .. l : z[i] = y[i]
    BY <1>1, <1>4, <2>2, <2>3
  <2>5. z = y
    BY <1>1, <1>4, <2>4, SeqEqual
  <2> QED
    BY <2>3, <2>5
<1>7. Min2(Len(x2), l) = l
  BY <1>3, <1>4, <1>5 DEF Min2
<1>8. it.write.kind = "cut" /\ it.write.to = l
  BY <1>4
<1>9. d.frames = frames /\ d2.frames = frames /\ d.hdr = hdr /\ d2.hdr = hdr
  BY DEF DiskOf
<1> HIDE DEF d, d2
<1>10. ViewAt(d, it.write) = g.to
  <2>1. ViewAt(d, it.write) = ShownAs(d, SubSeq(Loaded(d), 1,
                                           Min2(Len(Loaded(d)), it.write.to)))
    BY <1>8 DEF ViewAt
  <2>2. ViewAt(d, it.write) = ShownAs(d, y)
    BY <1>2, <1>6, <1>7, <1>8, <2>1
  <2>3. g.to = ShownAs(d2, y)
    BY <1>2 DEF View, d2
  <2> QED
    BY <1>9, <2>2, <2>3 DEF ShownAs
<1>11. IndexAfter(it.write, x2) = y
  BY <1>6, <1>8 DEF IndexAfter
<1>12. Kept(g.call, d, d2)
  <2>1. ~ Len(Loaded(d2)) > Len(Loaded(d))
    BY <1>2, <1>3, <1>4, <1>5
  <2>2. ASSUME NEW i \in DOMAIN Loaded(d)
        PROVE  \/ Loaded(d)[i].uid \in g.call.named
               \/ \E j \in DOMAIN Loaded(d2) :
                    /\ Loaded(d2)[j].uid = Loaded(d)[i].uid
                    /\ LetterOf(d2, j).text = LetterOf(d, i).text
    <3>1. \/ \E q \in S : x2[i] = sqi[q]
          \/ \E j \in DOMAIN y : y[j] = x2[i]
      BY <1>2, <1>3
    <3>2. CASE \E q \in S : x2[i] = sqi[q]
      BY <1>2, <3>2
    <3>3. CASE \E j \in DOMAIN y : y[j] = x2[i]
      BY <1>2, <1>9, <3>3 DEF LetterOf
    <3> QED
      BY <3>1, <3>2, <3>3
  <2> QED
    BY <2>1, <2>2 DEF Kept
<1>13. View(d2) = g.to
  BY DEF d2
<1>14. Good(g, d, it, d2)
  BY <1>2, <1>8, <1>10, <1>12, <1>13 DEF Good
<1> QED
  BY <1>11, <1>14 DEF d, d2

\* The records of the set are out of the index, and the frames as they were.
CutDone(g, m, y) ==
    /\ Leads(g, m, hdr, y)
    /\ m.ok
    /\ ~ m.full
    /\ m.base = hdr
    /\ m.index = y
    /\ m.frames = frames

LEMMA RemovingStands ==
    ASSUME NEW g, NEW r, NEW S, NEW call, Removing(g, r, S, call)
    PROVE  /\ Leftover(Sorted(sqi, DOMAIN sqi \ S), Without(sqi, S), S)
           /\ Leads(g, r, hdr, sqi) /\ r.ok /\ ~ r.full
           /\ r.base = hdr /\ r.index = sqi /\ r.frames = frames
           /\ g.from = View(now)
           /\ g.to = View(DiskOf(hdr, frames, Without(sqi, S)))
           /\ g.call = call
<1>1. /\ Leads(g, r, hdr, sqi) /\ r.ok /\ ~ r.full
      /\ r.base = hdr /\ r.index = sqi /\ r.frames = frames
  BY DEF Removing, Begun
<1>2. /\ g.from = View(now) /\ g.call = call
      /\ g.to = View(DiskOf(hdr, frames, Without(sqi, S)))
  BY DEF Removing, Aim
<1>3. S \subseteq DOMAIN sqi /\ S # {} /\ now \in Disk /\ Whole(now)
  BY DEF Removing
<1>4. \A n \in DOMAIN sqi : Standing(n)
  BY <1>3, Stands
<1>5. PICK n \in DOMAIN sqi : Standing(n)
  BY <1>3, <1>4
<1>6. /\ hdr \in Header /\ frames \in [1 .. MaxFrame -> Frame] /\ sqi \in Seq(Entry)
      /\ hdr.count = Len(sqi) /\ now = DiskOf(hdr, frames, sqi)
      /\ InUse(frames, sqi)
  BY <1>5 DEF Standing
<1>7. \A i \in DOMAIN sqi : Housed(frames, sqi[i])
  BY <1>4 DEF Standing, Housed
<1>8. Remains(sqi, S, Sorted(sqi, DOMAIN sqi \ S), Without(sqi, S))
  BY <1>3, <1>6, WithoutHolds
<1> QED
  BY <1>1, <1>2, <1>6, <1>7, <1>8 DEF Leftover

LEMMA CutWrites ==
    ASSUME NEW g, NEW r, NEW S, NEW call, Removing(g, r, S, call),
           NEW y, y = Without(sqi, S), NEW x2, Mixed(x2, y),
           NEW m, Leads(g, m, hdr, x2), m.ok, ~ m.full, m.base = hdr,
           m.index = y, m.frames = frames
    PROVE  CutDone(g, Do(m, [kind |-> "cut", to |-> Len(y)]), y)
<1> DEFINE kt == Sorted(sqi, DOMAIN sqi \ S)
           w == [kind |-> "cut", to |-> Len(y)]
<1>1. /\ Leftover(kt, y, S) /\ g.call = call
      /\ g.to = View(DiskOf(hdr, frames, y))
  BY RemovingStands
<1>2. m \in Plan /\ y \in Seq(Entry)
  BY <1>1, LeadsTyped DEF Leftover, Remains
<1>3. w \in Write
  <2>1. PICK l \in Nat : l = Len(y)
    BY <1>2
  <2> QED
    BY <2>1 DEF Write
<1>4. Itm(m, w) \in Item /\ Itm(m, w).write = w
  BY <1>2, <1>3 DEF Itm, Item, Plan
<1>5. /\ HeaderAfter(w, hdr) = hdr /\ FramesAfter(w, frames) = frames
  BY DEF HeaderAfter, FramesAfter
<1>6. g.call.kind = "remove" /\ \A n \in S : sqi[n].uid \in g.call.named
  BY <1>1 DEF Removing
<1> HIDE DEF kt
<1>7. /\ Good(g, DiskOf(hdr, frames, x2), Itm(m, w), DiskOf(hdr, frames, y))
      /\ IndexAfter(w, x2) = y
  <2>1. PICK it \in Item : it = Itm(m, w)
    BY <1>4
  <2>2. it.write = [kind |-> "cut", to |-> Len(y)]
    BY <1>4, <2>1
  <2>3. /\ Good(g, DiskOf(hdr, frames, x2), it, DiskOf(hdr, frames, y))
        /\ IndexAfter(it.write, x2) = y
    BY <1>1, <1>6, <2>2, CutGood
  <2> QED
    BY <2>1, <2>2, <2>3
<1> HIDE DEF w
<1>8. Leads(g, Do(m, w), hdr, y) /\ Alike(m, Do(m, w)) /\ Do(m, w).frames = frames
  BY <1>3, <1>5, <1>7, DoLeads
<1> QED
  BY <1>8 DEF CutDone, Alike, w

LEMMA TailWrites ==
    ASSUME NEW g, NEW r, NEW S, NEW call, Removing(g, r, S, call),
           NEW y, y = Without(sqi, S), NEW m, Leads(g, m, hdr, sqi), m.ok,
           m.frames = frames, NEW w \in Write, w.kind = "tail",
           NEW x2, x2 = IndexAfter(w, sqi), Mixed(x2, y)
    PROVE  /\ Leads(g, Do(m, w), hdr, x2)
           /\ Alike(m, Do(m, w))
           /\ Do(m, w).frames = frames
<1> DEFINE kt == Sorted(sqi, DOMAIN sqi \ S)
<1>1. /\ Leftover(kt, y, S) /\ g.call = call /\ g.from = View(now)
      /\ g.to = View(DiskOf(hdr, frames, y))
  BY RemovingStands, ZenonT(30)
<1>2. m \in Plan
  BY LeadsTyped
<1>3. Itm(m, w) \in Item /\ Itm(m, w).write = w
  BY <1>2 DEF Itm, Item, Plan
<1>4. /\ HeaderAfter(w, hdr) = hdr /\ FramesAfter(w, frames) = frames
  BY DEF HeaderAfter, FramesAfter
<1>5. g.call.kind = "remove" /\ \A n \in S : sqi[n].uid \in g.call.named
  BY <1>1 DEF Removing
<1>6. now = DiskOf(hdr, frames, sqi)
  BY <1>1 DEF Leftover
<1> HIDE DEF kt
<1>7. Good(g, now, Itm(m, w), DiskOf(hdr, frames, x2))
  <2>1. PICK it \in Item : it = Itm(m, w)
    BY <1>3
  <2>2. it.write.kind = "tail"
    BY <1>3, <2>1
  <2>3. Good(g, now, it, DiskOf(hdr, frames, x2))
    BY <1>1, <1>5, <2>2, TailGood
  <2> QED
    BY <2>1, <2>3
<1> QED
  BY <1>4, <1>6, <1>7, DoLeads

LEMMA CutIndexHolds ==
    ASSUME NEW g, NEW r, NEW S, NEW call, Removing(g, r, S, call)
    PROVE  CutDone(g, CutIndex(r, S), Without(sqi, S))
<1> DEFINE kt == Sorted(sqi, DOMAIN sqi \ S)
           y == Without(sqi, S)
           r1 == [r EXCEPT !.index = y]
           entries == SubSeq(y, Min(S), Len(y))
           tail == [kind |-> "tail", from |-> Min(S), entries |-> entries]
           cut == [kind |-> "cut", to |-> Len(y)]
<1>1. /\ Leftover(kt, y, S) /\ Leads(g, r, hdr, sqi) /\ r.ok /\ ~ r.full
      /\ r.base = hdr /\ r.index = sqi /\ r.frames = frames
  BY RemovingStands
<1>2. /\ sqi \in Seq(Entry) /\ y \in Seq(Entry) /\ Len(y) < Len(sqi)
      /\ S \subseteq DOMAIN sqi /\ S # {}
  BY <1>1 DEF Leftover, Remains, Removing
<1>3. /\ Min(S) \in S
      /\ \A i \in 1 .. Min(S) - 1 : i \in DOMAIN y /\ y[i] = sqi[i]
  BY <1>2, WithoutHolds
<1> HIDE DEF kt, y
<1>4. r1 \in Plan /\ r1.ok /\ ~ r1.full /\ r1.base = hdr /\ r1.index = y
      /\ r1.frames = frames /\ r1.todo = r.todo
  <2>1. r \in Plan
    BY <1>1, LeadsTyped
  <2> QED
    BY <1>1, <1>2, <2>1 DEF Plan
<1>5. Leads(g, r1, hdr, sqi)
  BY <1>1, <1>4, LeadsOther
<1>6. PICK n \in Nat, l \in Nat : /\ n = Len(sqi) /\ l = Len(y)
                                  /\ DOMAIN sqi = 1 .. n /\ DOMAIN y = 1 .. l
  <2>1. /\ Len(sqi) \in Nat /\ DOMAIN sqi = 1 .. Len(sqi)
        /\ Len(y) \in Nat /\ DOMAIN y = 1 .. Len(y)
    BY <1>2, LenProperties
  <2> QED
    BY <2>1
<1>7. PICK j \in Nat : j = Min(S) - 1 /\ Min(S) = j + 1
  <2>1. Min(S) \in 1 .. n
    BY <1>2, <1>3, <1>6
  <2> QED
    BY <2>1
<1>8. j <= l /\ l < n /\ \A i \in 1 .. j : y[i] = sqi[i]
  <2>1. j # 0 => j \in 1 .. j
    OBVIOUS
  <2>2. \A i \in 1 .. j : i \in 1 .. l /\ y[i] = sqi[i]
    BY <1>2, <1>3, <1>6, <1>7
  <2> QED
    BY <1>2, <1>6, <2>1, <2>2
<1>9. PICK d \in Nat, e \in Nat : l = j + d /\ n = j + d + e
  <2>1. l - j \in Nat /\ n - l \in Nat
    BY <1>8
  <2>2. l = j + (l - j) /\ n = j + (l - j) + (n - l)
    OBVIOUS
  <2> QED
    BY <2>1, <2>2
<1>10. /\ entries \in Seq(Entry) /\ Len(entries) = d
       /\ Overwrite(sqi, y, j, d, e) \in Seq(Entry)
       /\ Len(Overwrite(sqi, y, j, d, e)) = j + d + e
       /\ \A i \in 1 .. j : Overwrite(sqi, y, j, d, e)[i] = sqi[i]
       /\ \A i \in 1 .. d : Overwrite(sqi, y, j, d, e)[j + i] = y[j + i]
       /\ \A i \in 1 .. e :
                Overwrite(sqi, y, j, d, e)[j + d + i] = sqi[j + d + i]
  <2>1. /\ SubSeq(y, j + 1, j + d) \in Seq(Entry)
        /\ Len(SubSeq(y, j + 1, j + d)) = d
        /\ Overwrite(sqi, y, j, d, e) \in Seq(Entry)
        /\ Len(Overwrite(sqi, y, j, d, e)) = j + d + e
        /\ \A i \in 1 .. j : Overwrite(sqi, y, j, d, e)[i] = sqi[i]
        /\ \A i \in 1 .. d : Overwrite(sqi, y, j, d, e)[j + i] = y[j + i]
        /\ \A i \in 1 .. e :
                Overwrite(sqi, y, j, d, e)[j + d + i] = sqi[j + d + i]
    <3>1. Len(sqi) = j + d + e /\ Len(y) = j + d
      BY <1>6, <1>9
    <3>2. Overwritten(Entry, sqi, y, j, d, e)
      BY <1>2, <3>1, OverwriteHolds
    <3> QED
      BY <3>2 DEF Overwritten
  <2>2. entries = SubSeq(y, j + 1, j + d)
    BY <1>6, <1>7, <1>9
  <2> QED
    BY <2>1, <2>2
<1> HIDE DEF entries
<1>11. CutIndex(r, S) = Do(IF entries = <<>> THEN r1 ELSE Do(r1, tail), cut)
  <2>1. [r EXCEPT !.index = Without(@, S)] = r1
    BY <1>1, LeadsTyped DEF y
  <2>2. CutIndex(r, S) = WriteIndexTail(r1, Min(S))
    BY <2>1 DEF CutIndex
  <2> HIDE DEF r1
  <2> QED
    BY <1>4, <2>2 DEF WriteIndexTail, entries
<1> HIDE DEF r1
<1>12. CASE d = 0
  <2>1. entries = <<>>
    BY <1>10, <1>12, EmptySeq
  <2>2. Mixed(sqi, y)
    <3>1. l = j
      BY <1>9, <1>12
    <3> QED
      BY <1>2, <1>6, <1>8, <3>1 DEF Mixed
  <2>3. CutIndex(r, S) = Do(r1, cut)
    BY <1>11, <2>1
  <2>4. y = Without(sqi, S)
    BY DEF y
  <2>5. CutDone(g, Do(r1, [kind |-> "cut", to |-> Len(y)]), y)
    BY <1>4, <1>5, <2>2, <2>4, CutWrites
  <2> QED
    BY <2>3, <2>4, <2>5
<1>13. CASE d # 0
  <2> DEFINE x2 == Overwrite(sqi, y, j, d, e)
             m == Do(r1, tail)
  <2>1. entries # <<>>
    BY <1>10, <1>13
  <2>2. IndexAfter(tail, sqi) = x2
    <3>1. IndexAfter(tail, sqi)
            = SubSeq(sqi, 1, Min(S) - 1) \o entries
                \o SubSeq(sqi, Min(S) + Len(entries), Len(sqi))
      BY DEF IndexAfter
    <3>2. entries = SubSeq(y, j + 1, j + d)
      BY <1>6, <1>7, <1>9 DEF entries
    <3>3. /\ Min(S) - 1 = (j + 1) - 1 /\ Min(S) + Len(entries) = (j + 1) + d
          /\ Len(sqi) = j + d + e
      BY <1>6, <1>7, <1>9, <1>10
    <3> QED
      BY <3>1, <3>2, <3>3 DEF Overwrite
  <2>3. Mixed(x2, y)
    <3>1. PICK x \in Seq(Entry) : x = x2
      BY <1>10
    <3> HIDE DEF x2
    <3>2. /\ Len(x) = j + d + e
          /\ \A i \in 1 .. j : x[i] = sqi[i]
          /\ \A i \in 1 .. d : x[j + i] = y[j + i]
          /\ \A i \in 1 .. e : x[j + d + i] = sqi[j + d + i]
      BY <1>10, <3>1 DEF x2
    <3>3. \A i \in 1 .. l : x[i] = y[i]
      <4>1. SUFFICES ASSUME NEW i \in 1 .. l PROVE x[i] = y[i]
        OBVIOUS
      <4>2. CASE i <= j
        BY <1>8, <3>2, <4>2
      <4>3. CASE ~ (i <= j)
        <5>1. i - j \in 1 .. d /\ j + (i - j) = i
          BY <1>9, <4>3
        <5> QED
          BY <3>2, <5>1
      <4> QED
        BY <4>2, <4>3
    <3>4. \A i \in 1 .. n : i \notin 1 .. l => x[i] = sqi[i]
      <4>1. SUFFICES ASSUME NEW i \in 1 .. n, i \notin 1 .. l
                     PROVE  x[i] = sqi[i]
        OBVIOUS
      <4>2. i - l \in 1 .. e /\ j + d + (i - l) = i
        BY <1>9, <4>1
      <4> QED
        BY <3>2, <4>2
    <3>5. DOMAIN y = 1 .. l /\ DOMAIN sqi = 1 .. n /\ Len(x) = Len(sqi)
      BY <1>6, <1>9, <3>2
    <3> QED
      BY <3>1, <3>3, <3>4, <3>5 DEF Mixed
  <2>4. tail \in Write /\ tail.kind = "tail"
    BY <1>7, <1>10 DEF Write
  <2>5. y = Without(sqi, S)
    BY DEF y
  <2> HIDE DEF tail, x2
  <2>6. Leads(g, m, hdr, x2) /\ Alike(r1, m) /\ m.frames = frames
    BY <1>4, <1>5, <2>2, <2>3, <2>4, <2>5, TailWrites
  <2>7. m.ok /\ ~ m.full /\ m.base = hdr /\ m.index = y
    BY <1>4, <2>6 DEF Alike
  <2> HIDE DEF m
  <2>8. CutDone(g, Do(m, [kind |-> "cut", to |-> Len(y)]), y)
    BY <2>3, <2>5, <2>6, <2>7, CutWrites
  <2>9. CutIndex(r, S) = Do(m, cut)
    BY <1>11, <2>1 DEF m
  <2> QED
    BY <2>5, <2>8, <2>9
<1> QED
  BY <1>12, <1>13

(***************************************************************************)
(* Messages removed: the chain linked over them                            *)
(***************************************************************************)

\* removeAll()'s walk from a frame that stays ends where it began.
LEMMA StayingHolds ==
    ASSUME NEW m, NEW going, NEW at, at \notin going, NEW link
    PROVE  Staying(m, going, at, link) = at
<1> DEFINE Go(k, o) == IF k = 0 THEN at
                       ELSE IF o \in going /\ Readable(m, o)
                            THEN IF link = "prev" THEN m.frames[o].prev
                                                  ELSE m.frames[o].next
                            ELSE o
           Is(walk) == walk = [k \in 0 .. MaxFrame |->
                                IF k = 0 THEN at
                                ELSE LET o == walk[k - 1]
                                     IN  IF o \in going /\ Readable(m, o)
                                         THEN IF link = "prev"
                                              THEN m.frames[o].prev
                                              ELSE m.frames[o].next
                                         ELSE o]
           still == [k \in 0 .. MaxFrame |-> at]
           W == CHOOSE walk : Is(walk)
           T == {k \in 0 .. MaxFrame : W[k] # at}
<1>1. MaxFrame \in Nat
  BY BoundsAssumption
<1>2. Is(still)
  BY <1>1
<1>3. Is(W)
  <2> HIDE DEF Is, still
  <2> QED
    BY <1>2
<1>4. Staying(m, going, at, link) = W[MaxFrame]
  BY DEF Staying
<1>5. /\ W[0] = at
      /\ \A k \in 1 .. MaxFrame : W[k - 1] = at => W[k] = at
  <2> HIDE DEF W
  <2> QED
    BY <1>1, <1>3
<1> HIDE DEF W
<1>6. T = {}
  <2>1. SUFFICES ASSUME T # {} PROVE FALSE
    OBVIOUS
  <2>2. PICK k \in T : \A i \in T : k <= i
    <3>1. T \in SUBSET Nat
      BY <1>1
    <3> HIDE DEF T
    <3> QED
      BY <2>1, <3>1, LeastNumber
  <2>3. k \in 1 .. MaxFrame /\ k - 1 \in 0 .. MaxFrame
    BY <1>1, <1>5, <2>2
  <2>4. k - 1 \notin T
    BY <2>2, <2>3
  <2> QED
    BY <1>5, <2>2, <2>3, <2>4
<1> QED
  BY <1>1, <1>4, <1>6

\* From one number that stays to the next, over those of S.
Gap(n, S, q, p) ==
    /\ q \in 0 .. n /\ p \in 1 .. n + 1 /\ q < p
    /\ q \notin S /\ p \notin S
    /\ \A z \in 1 .. n : q < z /\ z < p => z \in S

LEMMA GapIsOne ==
    ASSUME NEW n \in Nat, NEW S, NEW q, NEW p, NEW q2, NEW p2,
           Gap(n, S, q, p), Gap(n, S, q2, p2)
    PROVE  q = q2 <=> p = p2
<1>1. /\ q \in Nat /\ p \in Nat /\ q2 \in Nat /\ p2 \in Nat
      /\ q < p /\ q2 < p2
  BY DEF Gap
<1>2. ASSUME q = q2 PROVE p = p2
  <2>1. ~ p < p2
    BY <1>1, <1>2 DEF Gap
  <2>2. ~ p2 < p
    BY <1>1, <1>2 DEF Gap
  <2> QED
    BY <1>1, <2>1, <2>2
<1>3. ASSUME p = p2 PROVE q = q2
  <2>1. ~ q < q2
    BY <1>1, <1>3 DEF Gap
  <2>2. ~ q2 < q
    BY <1>1, <1>3 DEF Gap
  <2> QED
    BY <1>1, <2>1, <2>2
<1> QED
  BY <1>2, <1>3

\* The set in order, and where its runs end and begin.
InOrder(n, S, t) ==
    /\ S \subseteq 1 .. n
    /\ t \in Seq(Nat)
    /\ Rising(t)
    /\ ToSet(t) = S

RunEnds(t) == {i \in DOMAIN t : i = Len(t) \/ t[i + 1] # t[i] + 1}

RunStart(t, i) == Max({1} \cup {j + 1 : j \in RunEnds(t) \cap 1 .. i - 1})

LEMMA OrderHolds ==
    ASSUME NEW n \in Nat, NEW S, NEW t, InOrder(n, S, t)
    PROVE  /\ Len(t) \in Nat /\ DOMAIN t = 1 .. Len(t)
           /\ \A i \in 1 .. Len(t) : t[i] \in S /\ t[i] \in 1 .. n
           /\ \A z \in S : \E i \in 1 .. Len(t) : t[i] = z
           /\ \A i, j \in 1 .. Len(t) : i < j <=> t[i] < t[j]
<1>1. PICK l \in Nat : l = Len(t)
  BY DEF InOrder
<1>2. DOMAIN t = 1 .. l
  BY <1>1 DEF InOrder
<1>3. \A i \in 1 .. l : t[i] \in S /\ t[i] \in 1 .. n
  BY <1>2 DEF InOrder, ToSet
<1>4. \A z \in S : \E i \in 1 .. l : t[i] = z
  BY <1>2 DEF InOrder, ToSet
<1>5. \A i, j \in 1 .. l : i < j => t[i] < t[j]
  BY <1>2 DEF InOrder, Rising
<1>6. \A i, j \in 1 .. l : t[i] < t[j] => i < j
  <2>1. SUFFICES ASSUME NEW i \in 1 .. l, NEW j \in 1 .. l, t[i] < t[j]
                 PROVE  i < j
    OBVIOUS
  <2>2. t[i] \in Nat /\ t[j] \in Nat
    BY <1>3
  <2>3. CASE i = j
    BY <2>1, <2>2, <2>3
  <2>4. CASE j < i
    <3>1. t[j] < t[i]
      BY <1>5, <2>4
    <3> QED
      BY <2>1, <2>2, <3>1
  <2> QED
    BY <2>3, <2>4
<1> QED
  BY <1>1, <1>2, <1>3, <1>4, <1>5, <1>6

LEMMA RunEndsHolds ==
    ASSUME NEW n \in Nat, NEW S, NEW t, InOrder(n, S, t), NEW i \in DOMAIN t
    PROVE  i \in RunEnds(t) <=> t[i] + 1 \notin S
<1>1. PICK l \in Nat : l = Len(t) /\ DOMAIN t = 1 .. l
  BY OrderHolds
<1>2. /\ \A k \in 1 .. l : t[k] \in S /\ t[k] \in 1 .. n
      /\ \A z \in S : \E k \in 1 .. l : t[k] = z
      /\ \A k, j \in 1 .. l : k < j <=> t[k] < t[j]
  BY <1>1, OrderHolds
<1>3. i \in 1 .. l /\ t[i] \in Nat
  BY <1>1, <1>2
<1>4. ASSUME t[i] + 1 \in S PROVE i \notin RunEnds(t)
  <2>1. PICK k \in 1 .. l : t[k] = t[i] + 1
    BY <1>2, <1>4
  <2>2. i < k
    BY <1>2, <1>3, <2>1
  <2>3. i + 1 \in 1 .. l
    BY <1>3, <2>1, <2>2
  <2>4. ~ (i + 1 < k)
    <3>1. SUFFICES ASSUME i + 1 < k PROVE FALSE
      OBVIOUS
    <3>2. t[i + 1] < t[k]
      BY <1>2, <2>1, <2>3, <3>1
    <3>3. t[i] < t[i + 1]
      BY <1>2, <1>3, <2>3
    <3>4. t[i + 1] \in Nat
      BY <1>2, <2>3
    <3> QED
      BY <1>3, <2>1, <3>2, <3>3, <3>4
  <2>5. k = i + 1
    BY <1>3, <2>1, <2>2, <2>4
  <2> QED
    BY <1>1, <1>3, <2>1, <2>3, <2>5 DEF RunEnds
<1>5. ASSUME i \notin RunEnds(t) PROVE t[i] + 1 \in S
  <2>1. i # l /\ t[i + 1] = t[i] + 1
    BY <1>1, <1>5 DEF RunEnds
  <2>2. i + 1 \in 1 .. l
    BY <1>3, <2>1
  <2> QED
    BY <1>2, <2>1, <2>2
<1> QED
  BY <1>4, <1>5

LEMMA RunStartHolds ==
    ASSUME NEW n \in Nat, NEW S, NEW t, InOrder(n, S, t), NEW i \in RunEnds(t)
    PROVE  /\ RunStart(t, i) \in DOMAIN t
           /\ Gap(n, S, t[RunStart(t, i)] - 1, t[i] + 1)
<1> DEFINE B == {1} \cup {j + 1 : j \in RunEnds(t) \cap 1 .. i - 1}
<1>1. PICK l \in Nat : l = Len(t) /\ DOMAIN t = 1 .. l
  BY OrderHolds
<1>2. /\ \A k \in 1 .. l : t[k] \in S /\ t[k] \in 1 .. n
      /\ \A z \in S : \E k \in 1 .. l : t[k] = z
      /\ \A k, j \in 1 .. l : k < j <=> t[k] < t[j]
  BY <1>1, OrderHolds
<1>3. \A k \in 1 .. l : k \in RunEnds(t) <=> t[k] + 1 \notin S
  BY <1>1, RunEndsHolds
<1>4. i \in 1 .. l
  BY <1>1 DEF RunEnds
<1>5. B \in SUBSET Nat /\ B # {} /\ \A k \in B : k <= i
  BY <1>4
<1>6. Max(B) \in B /\ \A k \in B : k <= Max(B)
  <2>1. PICK b \in Nat : b = i
    BY <1>4
  <2>2. PICK A \in SUBSET Nat : A = B
    BY <1>5
  <2> HIDE DEF B
  <2>3. A # {} /\ \A k \in A : k <= b
    BY <1>5, <2>1, <2>2
  <2>4. Max(A) \in A /\ \A k \in A : k <= Max(A)
    BY <2>3, MaxHolds
  <2> QED
    BY <2>2, <2>4
<1>7. PICK f \in Nat : f = RunStart(t, i) /\ f = Max(B)
  <2>1. RunStart(t, i) = Max(B)
    BY DEF RunStart
  <2> QED
    BY <1>5, <1>6, <2>1
<1>8. f \in B /\ \A k \in B : k <= f
  BY <1>6, <1>7
<1>9. f \in 1 .. i /\ f \in 1 .. l
  BY <1>4, <1>5, <1>8
<1>10. PICK a \in 1 .. n, b \in 1 .. n : a = t[f] /\ b = t[i]
  BY <1>2, <1>4, <1>9
<1>11. a \in S /\ b \in S /\ b + 1 \notin S
  BY <1>2, <1>3, <1>4, <1>9, <1>10
<1>12. \A j \in 1 .. l : f <= j /\ j < i => t[j] + 1 \in S
  <2>1. SUFFICES ASSUME NEW j \in 1 .. l, f <= j, j < i, j \in RunEnds(t)
                 PROVE  FALSE
    BY <1>3
  <2>2. j \in 1 .. i - 1
    BY <1>4, <2>1
  <2>3. j + 1 \in B
    BY <2>1, <2>2
  <2> HIDE DEF B
  <2>4. j + 1 <= f
    BY <1>8, <2>3
  <2> QED
    BY <2>1, <2>4
<1>13. a - 1 \notin S
  <2>1. SUFFICES ASSUME a - 1 \in S PROVE FALSE
    OBVIOUS
  <2>2. PICK k \in 1 .. l : t[k] = a - 1
    BY <1>2, <2>1
  <2>3. k < f
    BY <1>2, <1>9, <1>10, <2>2
  <2>4. f # 1
    BY <2>3
  <2>5. PICK j \in RunEnds(t) \cap 1 .. i - 1 : f = j + 1
    BY <1>8, <2>4
  <2>6. j \in 1 .. l /\ t[j] + 1 \notin S
    BY <1>3, <1>4, <2>5
  <2>7. k = j \/ k < j
    BY <2>3, <2>5
  <2>8. CASE k = j
    BY <1>10, <1>11, <2>2, <2>6, <2>8
  <2>9. CASE k < j
    <3>1. t[k] < t[j]
      BY <1>2, <2>6, <2>9
    <3>2. t[j] < t[f]
      BY <1>2, <1>9, <2>5, <2>6
    <3>3. t[j] \in Nat
      BY <1>2, <2>6
    <3> QED
      BY <1>10, <2>2, <3>1, <3>2, <3>3
  <2> QED
    BY <2>7, <2>8, <2>9
<1>14. a <= b
  <2>1. CASE f = i
    BY <1>10, <2>1
  <2>2. CASE f # i
    BY <1>2, <1>4, <1>9, <1>10, <2>2
  <2> QED
    BY <2>1, <2>2
<1>15. \A z \in 1 .. n : a <= z /\ z <= b => z \in S
  <2> DEFINE T == {z \in 1 .. n : a <= z /\ z <= b /\ z \notin S}
  <2>1. SUFFICES ASSUME T # {} PROVE FALSE
    OBVIOUS
  <2>2. PICK z \in T : \A y \in T : z <= y
    <3>1. T \in SUBSET Nat
      OBVIOUS
    <3> HIDE DEF T
    <3> QED
      BY <2>1, <3>1, LeastNumber
  <2>3. z \in 1 .. n /\ a < z /\ z <= b /\ z \notin S
    BY <1>11, <2>2
  <2>4. z - 1 \in 1 .. n /\ a <= z - 1 /\ z - 1 < b /\ z - 1 < z
    BY <1>10, <2>3
  <2>5. z - 1 \in S
    BY <2>2, <2>4
  <2>6. PICK k \in 1 .. l : t[k] = z - 1
    BY <1>2, <2>5
  <2>7. k < i
    BY <1>2, <1>4, <1>10, <2>4, <2>6
  <2>8. ~ (k < f)
    <3>1. SUFFICES ASSUME k < f PROVE FALSE
      OBVIOUS
    <3>2. t[k] < t[f]
      BY <1>2, <1>9, <3>1
    <3> QED
      BY <1>10, <2>4, <2>6, <3>2
  <2>9. t[k] + 1 \in S
    BY <1>9, <1>12, <2>7, <2>8
  <2> QED
    BY <2>3, <2>6, <2>9
<1>16. Gap(n, S, a - 1, b + 1)
  <2>1. a - 1 \in 0 .. n /\ b + 1 \in 1 .. n + 1 /\ a - 1 < b + 1
    BY <1>10, <1>14
  <2>2. \A z \in 1 .. n : a - 1 < z /\ z < b + 1 => a <= z /\ z <= b
    BY <1>10
  <2> QED
    BY <1>11, <1>13, <1>15, <2>1, <2>2 DEF Gap
<1> QED
  BY <1>1, <1>7, <1>9, <1>10, <1>16

\* The frames fs2 are those of fs linked over the runs of S that end in D.
Bridged(n, S, u, fs, fs2, D) ==
    /\ \A o \in 1 .. MaxFrame : /\ fs2[o].type = fs[o].type
                                /\ fs2[o].msg = fs[o].msg
                                /\ fs2[o].room = fs[o].room
                                /\ o \notin ToSet(u) =>
                                        /\ fs2[o].next = fs[o].next
                                        /\ fs2[o].prev = fs[o].prev
    /\ \A q, p : Gap(n, S, q, p) =>
            /\ q # 0 => fs2[u[q]].next = IF p - 1 \in D THEN At(u, p)
                                         ELSE fs[u[q]].next
            /\ p # n + 1 => fs2[u[p]].prev = IF p - 1 \in D THEN At(u, q)
                                             ELSE fs[u[p]].prev

Chained(n, u) ==
    /\ u \in Seq(Nat)
    /\ Len(u) = n
    /\ OneToOne(u)
    /\ ToSet(u) \subseteq 1 .. MaxFrame

LEMMA ChainedHolds ==
    ASSUME NEW n \in Nat, NEW u, Chained(n, u)
    PROVE  /\ \A i \in 1 .. n : /\ u[i] \in 1 .. MaxFrame /\ u[i] \in ToSet(u)
                                /\ At(u, i) = u[i]
           /\ At(u, 0) = 0 /\ At(u, n + 1) = 0
           /\ \A i, j \in 1 .. n : u[i] = u[j] => i = j
           /\ \A i \in 0 .. n + 1 : At(u, i) \in 0 .. MaxFrame
                                    /\ (At(u, i) # 0 => At(u, i) \in ToSet(u))
<1>1. DOMAIN u = 1 .. n
  BY DEF Chained
<1>2. \A i \in 1 .. n : u[i] \in ToSet(u) /\ u[i] \in 1 .. MaxFrame
  BY <1>1 DEF Chained, ToSet
<1>3. \A i, j \in 1 .. n : u[i] = u[j] => i = j
  BY <1>1 DEF Chained, OneToOne
<1>4. 0 \notin 1 .. n /\ n + 1 \notin 1 .. n
  OBVIOUS
<1>5. MaxFrame \in Nat
  BY BoundsAssumption
<1>6. \A i \in 0 .. n + 1 : i \in 1 .. n \/ At(u, i) = 0
  BY <1>1 DEF At
<1>7. \A i \in 1 .. n : At(u, i) = u[i]
  BY <1>1 DEF At
<1>8. At(u, 0) = 0 /\ At(u, n + 1) = 0
  BY <1>1, <1>4 DEF At
<1>9. \A i \in 0 .. n + 1 : At(u, i) \in 0 .. MaxFrame
                            /\ (At(u, i) # 0 => At(u, i) \in ToSet(u))
  BY <1>2, <1>5, <1>6, <1>7
<1> QED
  BY <1>2, <1>3, <1>7, <1>8, <1>9

LEMMA BridgeOne ==
    ASSUME NEW n \in Nat, NEW S, NEW u, Chained(n, u), NEW fs, NEW fs2, NEW D,
           Bridged(n, S, u, fs, fs2, D), NEW q, NEW p, Gap(n, S, q, p),
           NEW fs3, OnlyLinked(fs2, fs3, At(u, q), At(u, p), At(u, p), At(u, q))
    PROVE  Bridged(n, S, u, fs, fs3, D \cup {p - 1})
<1>1. /\ \A i \in 1 .. n : /\ u[i] \in 1 .. MaxFrame /\ u[i] \in ToSet(u)
                           /\ At(u, i) = u[i]
      /\ At(u, 0) = 0 /\ At(u, n + 1) = 0
      /\ \A i, j \in 1 .. n : u[i] = u[j] => i = j
      /\ \A i \in 0 .. n + 1 : At(u, i) # 0 => At(u, i) \in ToSet(u)
  BY ChainedHolds
<1>2. q \in 0 .. n /\ p \in 1 .. n + 1
  BY DEF Gap
<1>3. \A o \in 1 .. MaxFrame :
        /\ fs3[o].type = fs2[o].type /\ fs3[o].msg = fs2[o].msg
        /\ fs3[o].room = fs2[o].room
        /\ fs3[o].next = IF o = At(u, q) THEN At(u, p) ELSE fs2[o].next
        /\ fs3[o].prev = IF o = At(u, p) THEN At(u, q) ELSE fs2[o].prev
  BY DEF OnlyLinked
<1>4. ASSUME NEW o \in 1 .. MaxFrame
      PROVE  /\ fs3[o].type = fs[o].type
             /\ fs3[o].msg = fs[o].msg
             /\ fs3[o].room = fs[o].room
             /\ o \notin ToSet(u) => /\ fs3[o].next = fs[o].next
                                     /\ fs3[o].prev = fs[o].prev
  <2>1. /\ fs2[o].type = fs[o].type /\ fs2[o].msg = fs[o].msg
        /\ fs2[o].room = fs[o].room
        /\ o \notin ToSet(u) => /\ fs2[o].next = fs[o].next
                                /\ fs2[o].prev = fs[o].prev
    BY DEF Bridged
  <2>2. o # 0 /\ q \in 0 .. n + 1 /\ p \in 0 .. n + 1
    BY <1>2
  <2>3. o \notin ToSet(u) => o # At(u, q) /\ o # At(u, p)
    BY <1>1, <2>2
  <2> QED
    BY <1>3, <2>1, <2>3
<1>5. ASSUME NEW a, NEW b, Gap(n, S, a, b)
      PROVE  /\ a # 0 => fs3[u[a]].next = IF b - 1 \in D \cup {p - 1}
                                          THEN At(u, b) ELSE fs[u[a]].next
             /\ b # n + 1 => fs3[u[b]].prev = IF b - 1 \in D \cup {p - 1}
                                              THEN At(u, a) ELSE fs[u[b]].prev
  <2>1. a \in 0 .. n /\ b \in 1 .. n + 1 /\ (a = q <=> b = p)
    BY <1>5, GapIsOne DEF Gap
  <2>2. b - 1 = p - 1 <=> b = p
    BY <1>2, <2>1
  <2>3. /\ a # 0 => fs2[u[a]].next = IF b - 1 \in D THEN At(u, b)
                                     ELSE fs[u[a]].next
        /\ b # n + 1 => fs2[u[b]].prev = IF b - 1 \in D THEN At(u, a)
                                         ELSE fs[u[b]].prev
    BY <1>5 DEF Bridged
  <2>4. ASSUME a # 0
        PROVE  fs3[u[a]].next = IF b - 1 \in D \cup {p - 1}
                                THEN At(u, b) ELSE fs[u[a]].next
    <3>1. a \in 1 .. n
      BY <2>1, <2>4
    <3>2. u[a] \in 1 .. MaxFrame /\ u[a] # 0
      BY <1>1, <3>1
    <3>3. CASE a = q
      <4>1. u[a] = At(u, q) /\ b = p
        BY <1>1, <2>1, <3>1, <3>3
      <4> QED
        BY <1>3, <2>2, <3>2, <4>1
    <3>4. CASE a # q
      <4>1. u[a] # At(u, q)
        <5>1. CASE q = 0
          BY <1>1, <3>2, <5>1
        <5>2. CASE q # 0
          <6>1. q \in 1 .. n
            BY <1>2, <5>2
          <6> QED
            BY <1>1, <3>1, <3>4, <6>1
        <5> QED
          BY <5>1, <5>2
      <4>2. fs3[u[a]].next = fs2[u[a]].next
        BY <1>3, <3>2, <4>1
      <4>3. b - 1 \in D \cup {p - 1} <=> b - 1 \in D
        BY <2>1, <2>2, <3>4
      <4> QED
        BY <2>3, <2>4, <4>2, <4>3
    <3> QED
      BY <3>3, <3>4
  <2>5. ASSUME b # n + 1
        PROVE  fs3[u[b]].prev = IF b - 1 \in D \cup {p - 1}
                                THEN At(u, a) ELSE fs[u[b]].prev
    <3>1. b \in 1 .. n
      BY <2>1, <2>5
    <3>2. u[b] \in 1 .. MaxFrame /\ u[b] # 0
      BY <1>1, <3>1
    <3>3. CASE b = p
      <4>1. u[b] = At(u, p) /\ a = q
        BY <1>1, <2>1, <3>1, <3>3
      <4> QED
        BY <1>3, <2>2, <3>2, <3>3, <4>1
    <3>4. CASE b # p
      <4>1. u[b] # At(u, p)
        <5>1. CASE p = n + 1
          BY <1>1, <3>2, <5>1
        <5>2. CASE p # n + 1
          <6>1. p \in 1 .. n
            BY <1>2, <5>2
          <6> QED
            BY <1>1, <3>1, <3>4, <6>1
        <5> QED
          BY <5>1, <5>2
      <4>2. fs3[u[b]].prev = fs2[u[b]].prev
        BY <1>3, <3>2, <4>1
      <4>3. b - 1 \in D \cup {p - 1} <=> b - 1 \in D
        BY <2>1, <2>2, <3>4
      <4> QED
        BY <2>3, <2>5, <4>2, <4>3
    <3> QED
      BY <3>3, <3>4
  <2> QED
    BY <2>4, <2>5
<1> QED
  BY <1>4, <1>5 DEF Bridged

\* The message chain with the runs of S that end in D linked over.
Bridging(g, m, y, S, D) ==
    /\ Leads(g, m, hdr, y)
    /\ m.ok /\ ~ m.full /\ m.base = hdr /\ m.index = y
    /\ View(DiskOf(hdr, m.frames, y)) = g.to
    /\ Bridged(Len(sqi), S, Offs(sqi), frames, m.frames, D)

LEMMA SqiChained ==
    ASSUME now \in Disk, Whole(now)
    PROVE  /\ Chained(Len(sqi), Offs(sqi))
           /\ Len(sqi) \in Nat
           /\ DOMAIN sqi = 1 .. Len(sqi)
           /\ \A i \in 1 .. Len(sqi) :
                /\ Offs(sqi)[i] = sqi[i].offset
                /\ frames[sqi[i].offset].prev = At(Offs(sqi), i - 1)
                /\ frames[sqi[i].offset].next = At(Offs(sqi), i + 1)
           /\ \A i : At(Offs(sqi), i) = 0
                     \/ /\ At(Offs(sqi), i) \in 1 .. MaxFrame
                        /\ At(Offs(sqi), i) < hdr.endFrame
                        /\ frames[At(Offs(sqi), i)].type # "none"
<1>1. PICK c : Arranged(hdr, frames, sqi, c, {})
  BY DEF Whole, now
<1>2. /\ sqi \in Seq(Entry) /\ hdr.endFrame \in 1 .. MaxFrame + 1
      /\ Parted(hdr.endFrame, Offs(sqi), c, {}) /\ c \in Seq(Nat)
      /\ Chain(frames, Offs(sqi), "normal")
  BY <1>1 DEF Arranged
<1>3. /\ Offs(sqi) \in Seq(Nat) /\ Len(Offs(sqi)) = Len(sqi)
      /\ DOMAIN Offs(sqi) = DOMAIN sqi
      /\ \A i \in DOMAIN sqi : Offs(sqi)[i] = sqi[i].offset
  BY <1>2, OffsHolds
<1>4. /\ \A o \in ToSet(Offs(sqi)) \cup ToSet(c) \cup {} :
                o \in 1 .. MaxFrame /\ o < hdr.endFrame /\ o # 0
      /\ \A i : At(Offs(sqi), i) # 0 => At(Offs(sqi), i) \in ToSet(Offs(sqi))
  BY <1>2, <1>3, InChain
<1>5. Len(sqi) \in Nat /\ DOMAIN sqi = 1 .. Len(sqi)
  BY <1>2
<1>6. Chained(Len(sqi), Offs(sqi))
  <2>1. ToSet(Offs(sqi)) \subseteq 1 .. MaxFrame
    BY <1>4
  <2> QED
    BY <1>2, <1>3, <2>1 DEF Chained, Parted
<1>7. \A i \in 1 .. Len(sqi) :
        /\ Offs(sqi)[i] = sqi[i].offset
        /\ frames[sqi[i].offset].type = "normal"
        /\ frames[sqi[i].offset].prev = At(Offs(sqi), i - 1)
        /\ frames[sqi[i].offset].next = At(Offs(sqi), i + 1)
  BY <1>2, <1>3, <1>5 DEF Chain
<1>8. \A i : At(Offs(sqi), i) = 0
             \/ /\ At(Offs(sqi), i) \in 1 .. MaxFrame
                /\ At(Offs(sqi), i) < hdr.endFrame
                /\ frames[At(Offs(sqi), i)].type # "none"
  <2>1. SUFFICES ASSUME NEW i, At(Offs(sqi), i) # 0
                 PROVE  /\ At(Offs(sqi), i) \in 1 .. MaxFrame
                        /\ At(Offs(sqi), i) < hdr.endFrame
                        /\ frames[At(Offs(sqi), i)].type # "none"
    OBVIOUS
  <2>2. i \in DOMAIN Offs(sqi) /\ At(Offs(sqi), i) = Offs(sqi)[i]
    BY <2>1 DEF At
  <2>3. frames[At(Offs(sqi), i)].type = "normal"
    BY <1>2, <2>2 DEF Chain
  <2> QED
    BY <1>4, <2>1, <2>3
<1> QED
  BY <1>5, <1>6, <1>7, <1>8

Bridge(m, p, a) ==
    Then(Then(m, LAMBDA q : IF p = 0 THEN q ELSE SetFrameNext(q, p, a)),
         LAMBDA q : IF a = 0 THEN q ELSE SetFramePrev(q, a, p))

LEMMA LinkOverIs ==
    ASSUME NEW m, m.ok, NEW going, NEW first, NEW last,
           first.prev \notin going, last.next \notin going,
           first.prev # 0 => SetFrameNext(m, first.prev, last.next).ok
    PROVE  LinkOver(m, going, first, last)
                = Linking(m, first.prev, last.next, last.next, first.prev)
<1> DEFINE P == first.prev
           A == last.next
           r == IF P = 0 THEN m ELSE SetFrameNext(m, P, A)
<1>1. /\ Staying(m, going, P, "prev") = P
      /\ Staying(m, going, A, "next") = A
  BY StayingHolds
<1>2. LinkOver(m, going, first, last) = Bridge(m, P, A)
  <2>1. LinkOver(m, going, first, last)
          = Bridge(m, Staying(m, going, first.prev, "prev"),
                   Staying(m, going, last.next, "next"))
    BY DEF LinkOver, Bridge
  <2> QED
    BY <1>1, <2>1
<1>3. Then(m, LAMBDA q : IF P = 0 THEN q ELSE SetFrameNext(q, P, A)) = r
  BY DEF Then
<1>4. r.ok
  OBVIOUS
<1> HIDE DEF r
<1>5. Then(r, LAMBDA q : IF A = 0 THEN q ELSE SetFramePrev(q, A, P))
        = IF A = 0 THEN r ELSE SetFramePrev(r, A, P)
  BY <1>4 DEF Then
<1>6. Bridge(m, P, A) = IF A = 0 THEN r ELSE SetFramePrev(r, A, P)
  <2> HIDE DEF P, A
  <2> QED
    BY <1>3, <1>5 DEF Bridge
<1> QED
  BY <1>2, <1>6 DEF Linking, r

LEMMA LinkOverHolds ==
    ASSUME NEW g, NEW r, NEW S, NEW call, Removing(g, r, S, call),
           NEW y, y = Without(sqi, S), NEW m, NEW D, Bridging(g, m, y, S, D),
           NEW q, NEW p, Gap(Len(sqi), S, q, p),
           NEW going, going = {sqi[i].offset : i \in S},
           NEW first, first.prev = At(Offs(sqi), q),
           NEW last, last.next = At(Offs(sqi), p)
    PROVE  Bridging(g, LinkOver(m, going, first, last), y, S, D \cup {p - 1})
<1> DEFINE u == Offs(sqi)
           P == At(u, q)
           A == At(u, p)
           m2 == Linking(m, P, A, A, P)
<1>1. now \in Disk /\ Whole(now) /\ S \subseteq DOMAIN sqi
  BY DEF Removing
<1>2. PICK n \in Nat : /\ n = Len(sqi) /\ Chained(n, u) /\ DOMAIN sqi = 1 .. n
                       /\ \A i \in 1 .. n : u[i] = sqi[i].offset
  BY <1>1, SqiChained
<1>3. \A i : At(u, i) = 0 \/ /\ At(u, i) \in 1 .. MaxFrame
                             /\ At(u, i) < hdr.endFrame
                             /\ frames[At(u, i)].type # "none"
  BY <1>1, SqiChained
<1>4. /\ Leads(g, m, hdr, y) /\ m.ok /\ ~ m.full /\ m.base = hdr /\ m.index = y
      /\ View(DiskOf(hdr, m.frames, y)) = g.to
      /\ Bridged(n, S, u, frames, m.frames, D)
  BY <1>2 DEF Bridging
<1>5. Gap(n, S, q, p) /\ q \in 0 .. n /\ p \in 1 .. n + 1 /\ q \notin S /\ p \notin S
  BY <1>2 DEF Gap
<1> HIDE DEF u
<1>6. /\ \A i \in 1 .. n : u[i] \in 1 .. MaxFrame /\ At(u, i) = u[i]
      /\ At(u, 0) = 0 /\ At(u, n + 1) = 0
      /\ \A i, j \in 1 .. n : u[i] = u[j] => i = j
      /\ \A i \in 0 .. n + 1 : At(u, i) \in 0 .. MaxFrame
  BY <1>2, ChainedHolds
<1>7. \A i \in 0 .. n + 1 : i \notin S => At(u, i) \notin going
  <2>1. SUFFICES ASSUME NEW i \in 0 .. n + 1, i \notin S, NEW j \in S,
                        At(u, i) = sqi[j].offset
                 PROVE  FALSE
    OBVIOUS
  <2>2. j \in 1 .. n /\ u[j] = sqi[j].offset /\ u[j] \in 1 .. MaxFrame
    BY <1>1, <1>2, <1>6
  <2>3. i # 0 /\ i # n + 1
    BY <1>6, <2>1, <2>2
  <2>4. i \in 1 .. n
    BY <2>3
  <2> QED
    BY <1>6, <2>1, <2>2, <2>4
<1>8. P \notin going /\ A \notin going /\ P \in Nat /\ A \in Nat
      /\ P \in 0 .. MaxFrame /\ A \in 0 .. MaxFrame
  <2>1. q \in 0 .. n + 1 /\ p \in 0 .. n + 1 /\ MaxFrame \in Nat
    BY <1>5, BoundsAssumption
  <2> QED
    BY <1>5, <1>6, <1>7, <2>1
<1>9. Linkable(m, P) /\ Linkable(m, A)
  <2>1. \A i : Linkable(m, At(u, i))
    <3>1. SUFFICES ASSUME NEW i PROVE Linkable(m, At(u, i))
      OBVIOUS
    <3>2. CASE At(u, i) = 0
      BY <3>2 DEF Linkable
    <3>3. CASE At(u, i) # 0
      <4>1. PICK o \in 1 .. MaxFrame : o = At(u, i)
        BY <1>3, <3>3
      <4>2. o < hdr.endFrame /\ frames[o].type # "none"
        BY <1>3, <3>3, <4>1
      <4>3. m.frames[o].type = frames[o].type
        BY <1>4 DEF Bridged
      <4> QED
        BY <1>4, <4>1, <4>2, <4>3 DEF Linkable, Readable
    <3> QED
      BY <3>2, <3>3
  <2> QED
    BY <2>1
<1>10. Halfway(g, m, hdr, y)
  BY <1>4 DEF Halfway
<1> HIDE DEF P, A
<1>11. Calm(g, m, m2, hdr, y, LinkedFrames(m.frames, P, A, A, P))
  BY <1>4, <1>8, <1>9, <1>10, LinkingWrites
<1>12. P # 0 => SetFrameNext(m, P, A).ok
  <2>1. SUFFICES ASSUME P # 0 PROVE SetFrameNext(m, P, A).ok
    OBVIOUS
  <2>2. P \in 1 .. MaxFrame /\ Readable(m, P)
    BY <1>9, <2>1 DEF Linkable
  <2>3. Calm(g, m, SetFrameNext(m, P, A), hdr, y,
             [m.frames EXCEPT ![P].next = A])
    BY <1>4, <1>8, <1>10, <2>2, NextWrite
  <2> QED
    BY <1>4, <2>3 DEF Calm, Alike
<1>13. LinkOver(m, going, first, last) = m2
  <2>1. first.prev = P /\ last.next = A
    BY DEF P, A, u
  <2> QED
    BY <1>4, <1>8, <1>12, <2>1, LinkOverIs
<1> HIDE DEF m2
<1>14. OnlyLinked(m.frames, m2.frames, P, A, A, P)
  <2>1. m.frames \in [1 .. MaxFrame -> Frame]
    BY <1>4, LeadsTyped
  <2>2. OnlyLinked(m.frames, LinkedFrames(m.frames, P, A, A, P), P, A, A, P)
    BY <1>8, <2>1, LinkedFramesHolds
  <2> QED
    BY <1>11, <2>2 DEF Calm
<1>15. Bridged(n, S, u, frames, m2.frames, D \cup {p - 1})
  BY <1>2, <1>4, <1>5, <1>14, BridgeOne DEF P, A
<1>16. /\ Leads(g, m2, hdr, y) /\ Alike(m, m2)
       /\ View(DiskOf(hdr, m2.frames, y)) = View(DiskOf(hdr, m.frames, y))
  BY <1>11 DEF Calm
<1> QED
  BY <1>2, <1>4, <1>13, <1>15, <1>16 DEF Bridging, Alike, u

\* A number of the set that the next one follows ends no run.
LEMMA BridgedOn ==
    ASSUME NEW n \in Nat, NEW S, S \subseteq 1 .. n, NEW u, NEW fs, NEW fs2,
           NEW D, Bridged(n, S, u, fs, fs2, D), NEW b \in S, b + 1 \in S
    PROVE  Bridged(n, S, u, fs, fs2, D \cup {b})
<1>1. ASSUME NEW q, NEW p, Gap(n, S, q, p)
      PROVE  p - 1 \in D \cup {b} <=> p - 1 \in D
  <2>1. p \in 1 .. n + 1 /\ p \notin S /\ b \in 1 .. n
    BY <1>1 DEF Gap
  <2>2. p - 1 # b
    <3>1. p - 1 = b => p = b + 1
      BY <2>1
    <3> QED
      BY <2>1, <3>1
  <2> QED
    BY <2>2
<1> QED
  BY <1>1 DEF Bridged

StartOf(ends, i) == Max({1} \cup {j + 1 : j \in ends \cap 1 .. i - 1})

Links(m, offs, olds, ends, n, upto) ==
    upto = [i \in 0 .. n |->
                IF i = 0 THEN m
                ELSE IF i \in ends THEN LinkOver(upto[i - 1], ToSet(offs),
                                                olds[StartOf(ends, i)], olds[i])
                ELSE upto[i - 1]]

Linked(m, offs, olds, ends, n, upto) ==
    /\ upto[0] = m
    /\ \A i \in 1 .. n :
            upto[i] = IF i \in ends THEN LinkOver(upto[i - 1], ToSet(offs),
                                                olds[StartOf(ends, i)], olds[i])
                      ELSE upto[i - 1]

LEMMA LinksStep ==
    ASSUME NEW m, NEW offs, NEW olds, NEW ends, NEW n \in Nat,
           NEW upto, Links(m, offs, olds, ends, n, upto)
    PROVE  Linked(m, offs, olds, ends, n, upto)
<1> DEFINE F(i) == IF i = 0 THEN m
                   ELSE IF i \in ends THEN LinkOver(upto[i - 1], ToSet(offs),
                                                olds[StartOf(ends, i)], olds[i])
                   ELSE upto[i - 1]
<1>1. upto = [i \in 0 .. n |-> F(i)]
  BY DEF Links
<1>2. \A i \in 0 .. n : upto[i] = F(i)
  <2> HIDE DEF F
  <2> QED
    BY <1>1
<1>3. upto[0] = F(0) /\ \A i \in 1 .. n : upto[i] = F(i) /\ i # 0
  BY <1>2
<1> QED
  BY <1>3 DEF Linked

LEMMA LinksExists ==
    ASSUME NEW m, NEW offs, NEW olds, NEW ends, NEW n0 \in Nat
    PROVE  \E upto : Links(m, offs, olds, ends, n0, upto)
<1> DEFINE Ok(k) == \E upto : Links(m, offs, olds, ends, k, upto)
           T == {k \in Nat : ~ Ok(k)}
<1>1. SUFFICES ASSUME T # {} PROVE FALSE
  OBVIOUS
<1>2. PICK n \in T : \A k \in T : n <= k
  BY <1>1, LeastNumber
<1>3. CASE n = 0
  <2> DEFINE upto == [k \in 0 .. 0 |-> m]
  <2>1. Links(m, offs, olds, ends, 0, upto)
    BY DEF Links
  <2> QED
    BY <2>1, <1>3
<1>4. CASE n # 0
  <2>1. n \in Nat /\ n - 1 \in Nat /\ n - 1 \notin T
    BY <1>2, <1>4
  <2>2. PICK n1 \in Nat : n1 = n - 1
    BY <2>1
  <2>3. PICK upto : Links(m, offs, olds, ends, n1, upto)
    BY <2>1, <2>2
  <2> HIDE DEF T
  <2>4. /\ upto[0] = m
        /\ \A i \in 1 .. n1 :
                upto[i] = IF i \in ends THEN LinkOver(upto[i - 1], ToSet(offs),
                                                olds[StartOf(ends, i)], olds[i])
                          ELSE upto[i - 1]
    <3>1. Linked(m, offs, olds, ends, n1, upto)
      BY <2>3, LinksStep
    <3> QED
      BY <3>1 DEF Linked
  <2> DEFINE last == IF n \in ends THEN LinkOver(upto[n - 1], ToSet(offs),
                                                olds[StartOf(ends, n)], olds[n])
                     ELSE upto[n - 1]
             next == [k \in 0 .. n |-> IF k = n THEN last ELSE upto[k]]
  <2>5. \A k \in 0 .. n1 : next[k] = upto[k]
    BY <2>1, <2>2
  <2>6. next[n] = last /\ next[n - 1] = upto[n - 1] /\ next[0] = m
    BY <1>4, <2>1, <2>2, <2>4, <2>5
  <2>7. next = [k \in 0 .. n |-> next[k]]
    OBVIOUS
  <2> HIDE DEF next
  <2>8. ASSUME NEW k \in 0 .. n
        PROVE  next[k] = IF k = 0 THEN m
                         ELSE IF k \in ends
                              THEN LinkOver(next[k - 1], ToSet(offs),
                                            olds[StartOf(ends, k)], olds[k])
                         ELSE next[k - 1]
    <3>1. CASE k = n
      BY <1>4, <2>6, <3>1
    <3>2. CASE k = 0
      BY <2>6, <3>2
    <3>3. CASE k # n /\ k # 0
      <4>1. k \in 1 .. n1 /\ k \in 0 .. n1 /\ k - 1 \in 0 .. n1
        BY <2>1, <2>2, <3>3
      <4>2. next[k] = upto[k] /\ next[k - 1] = upto[k - 1]
        BY <2>5, <4>1
      <4>3. upto[k] = IF k \in ends THEN LinkOver(upto[k - 1], ToSet(offs),
                                                olds[StartOf(ends, k)], olds[k])
                      ELSE upto[k - 1]
        BY <2>4, <4>1
      <4> QED
        BY <3>3, <4>2, <4>3
    <3> QED
      BY <3>1, <3>2, <3>3
  <2> HIDE DEF last
  <2>9. Links(m, offs, olds, ends, n, next)
    BY <2>7, <2>8 DEF Links
  <2> QED
    BY <1>2, <2>9 DEF T
<1> QED
  BY <1>3, <1>4

EndsOf(offs, olds) ==
    {i \in DOMAIN offs : i = Len(offs) \/ olds[i].next # offs[i + 1]}

EndsAre(S, t, offs, olds) ==
    /\ EndsOf(offs, olds) = RunEnds(t)
    /\ ToSet(offs) = {sqi[i].offset : i \in S}
    /\ Len(offs) = Len(t)
    /\ DOMAIN offs = DOMAIN t

LEMMA EndsHolds ==
    ASSUME now \in Disk, Whole(now), NEW S, S \subseteq DOMAIN sqi,
           NEW t, InOrder(Len(sqi), S, t),
           NEW offs, offs = [i \in DOMAIN t |-> sqi[t[i]].offset],
           NEW olds, olds = [i \in DOMAIN t |-> frames[sqi[t[i]].offset]]
    PROVE  EndsAre(S, t, offs, olds)
<1> DEFINE u == Offs(sqi)
<1>1. PICK n \in Nat : /\ n = Len(sqi) /\ Chained(n, u) /\ DOMAIN sqi = 1 .. n
                       /\ \A i \in 1 .. n :
                            /\ u[i] = sqi[i].offset
                            /\ frames[sqi[i].offset].next = At(u, i + 1)
  BY SqiChained
<1>2. InOrder(n, S, t)
  BY <1>1
<1> HIDE DEF u
<1>3. /\ \A i \in 1 .. n : u[i] \in 1 .. MaxFrame /\ At(u, i) = u[i]
      /\ At(u, n + 1) = 0
      /\ \A i, j \in 1 .. n : u[i] = u[j] => i = j
  BY <1>1, ChainedHolds
<1>4. PICK l \in Nat : l = Len(t) /\ DOMAIN t = 1 .. l
  BY <1>2, OrderHolds
<1>5. /\ \A i \in 1 .. l : t[i] \in S /\ t[i] \in 1 .. n
      /\ \A z \in S : \E i \in 1 .. l : t[i] = z
  BY <1>2, <1>4, OrderHolds
<1>6. /\ \A i \in 1 .. l : offs[i] = u[t[i]] /\ olds[i].next = At(u, t[i] + 1)
      /\ DOMAIN offs = 1 .. l /\ Len(offs) = l
  <2>1. offs = [i \in 1 .. l |-> sqi[t[i]].offset]
        /\ olds = [i \in 1 .. l |-> frames[sqi[t[i]].offset]]
    BY <1>4
  <2>2. \A i \in 1 .. l : offs[i] = u[t[i]] /\ olds[i].next = At(u, t[i] + 1)
    BY <1>1, <1>5, <2>1
  <2> QED
    BY <2>1, <2>2
<1>7. ASSUME NEW i \in 1 .. l, i # l
      PROVE  olds[i].next = offs[i + 1] <=> t[i + 1] = t[i] + 1
  <2>1. i + 1 \in 1 .. l
    BY <1>7
  <2>2. PICK a \in 1 .. n, b \in 1 .. n : a = t[i] /\ b = t[i + 1]
    BY <1>5, <2>1
  <2>3. offs[i + 1] = u[b] /\ olds[i].next = At(u, a + 1)
    BY <1>6, <2>1, <2>2
  <2>4. CASE a + 1 \in 1 .. n
    <3>1. At(u, a + 1) = u[a + 1]
      BY <1>3, <2>4
    <3>2. u[a + 1] = u[b] <=> a + 1 = b
      BY <1>3, <2>4
    <3> QED
      BY <2>2, <2>3, <3>1, <3>2
  <2>5. CASE a + 1 \notin 1 .. n
    <3>1. a + 1 = n + 1
      BY <2>5
    <3>2. At(u, a + 1) = 0 /\ u[b] # 0 /\ b # a + 1
      <4>1. At(u, n + 1) = 0 /\ u[b] \in 1 .. MaxFrame
        BY <1>3
      <4> QED
        BY <2>5, <3>1, <4>1
    <3> QED
      BY <2>2, <2>3, <3>2
  <2> QED
    BY <2>4, <2>5
<1>8. EndsOf(offs, olds) = RunEnds(t)
  BY <1>4, <1>6, <1>7 DEF EndsOf, RunEnds
<1>9. ToSet(offs) = {sqi[i].offset : i \in S}
  <2>1. \A i \in 1 .. l : offs[i] = sqi[t[i]].offset
    BY <1>1, <1>5, <1>6
  <2>2. ToSet(offs) = {offs[i] : i \in 1 .. l}
    BY <1>6 DEF ToSet
  <2>3. \A i \in 1 .. l : \E z \in S : offs[i] = sqi[z].offset
    BY <1>5, <2>1
  <2>4. \A z \in S : \E i \in 1 .. l : offs[i] = sqi[z].offset
    BY <1>5, <2>1, SMTT(20)
  <2>5. ASSUME NEW v \in {offs[i] : i \in 1 .. l}
        PROVE  v \in {sqi[z].offset : z \in S}
    <3>1. PICK i \in 1 .. l : v = offs[i]
      OBVIOUS
    <3>2. PICK z \in S : offs[i] = sqi[z].offset
      BY <2>3
    <3> QED
      BY <3>1, <3>2
  <2>6. ASSUME NEW v \in {sqi[z].offset : z \in S}
        PROVE  v \in {offs[i] : i \in 1 .. l}
    <3>1. PICK z \in S : v = sqi[z].offset
      OBVIOUS
    <3>2. PICK i \in 1 .. l : offs[i] = sqi[z].offset
      BY <2>4
    <3> QED
      BY <3>1, <3>2
  <2> QED
    BY <2>2, <2>5, <2>6
<1>10. Len(offs) = Len(t) /\ DOMAIN offs = DOMAIN t
  BY <1>4, <1>6
<1> QED
  BY <1>8, <1>9, <1>10 DEF EndsAre

LEMMA LinkRunsHolds ==
    ASSUME NEW g, NEW r, NEW S, NEW call, Removing(g, r, S, call),
           NEW y, y = Without(sqi, S), NEW m, Bridging(g, m, y, S, {}),
           NEW t, InOrder(Len(sqi), S, t),
           NEW offs, offs = [i \in DOMAIN t |-> sqi[t[i]].offset],
           NEW olds, olds = [i \in DOMAIN t |-> frames[sqi[t[i]].offset]]
    PROVE  Bridging(g, LinkRuns(m, offs, olds), y, S, S)
<1> DEFINE u == Offs(sqi)
           ends == RunEnds(t)
           Of(k) == {t[j] : j \in 1 .. k}
           U == CHOOSE upto : Links(m, offs, olds, ends, Len(offs), upto)
           Wrong(k) == ~ Bridging(g, U[k], y, S, Of(k))
           T == {k \in 0 .. Len(t) : Wrong(k)}
<1>1. now \in Disk /\ Whole(now) /\ S \subseteq DOMAIN sqi
  BY DEF Removing
<1>2. PICK n \in Nat : /\ n = Len(sqi) /\ DOMAIN sqi = 1 .. n
                       /\ \A i \in 1 .. n :
                            /\ frames[sqi[i].offset].prev = At(u, i - 1)
                            /\ frames[sqi[i].offset].next = At(u, i + 1)
  BY <1>1, SqiChained
<1>3. InOrder(n, S, t)
  BY <1>2
<1>4. PICK l \in Nat : l = Len(t) /\ DOMAIN t = 1 .. l
  BY <1>3, OrderHolds
<1>5. /\ \A i \in 1 .. l : t[i] \in S /\ t[i] \in 1 .. n
      /\ \A z \in S : \E i \in 1 .. l : t[i] = z
  BY <1>3, <1>4, OrderHolds
<1>6. /\ EndsOf(offs, olds) = ends
      /\ ToSet(offs) = {sqi[i].offset : i \in S}
      /\ Len(offs) = l
  <2>1. EndsAre(S, t, offs, olds)
    BY <1>1, EndsHolds
  <2> QED
    BY <1>4, <2>1 DEF EndsAre
<1>7. \A i \in 1 .. l : olds[i] = frames[sqi[t[i]].offset]
  BY <1>4
<1> HIDE DEF ends
<1>8. LinkRuns(m, offs, olds) = U[l]
  <2>1. LinkRuns(m, offs, olds)
          = (CHOOSE upto : Links(m, offs, olds, EndsOf(offs, olds), Len(offs),
                                 upto))[Len(offs)]
    BY DEF LinkRuns, Links, StartOf, EndsOf
  <2> QED
    BY <1>6, <2>1
<1>9. Links(m, offs, olds, ends, l, U)
  BY <1>6, LinksExists
<1> HIDE DEF U, u
<1>10. /\ U[0] = m
       /\ \A i \in 1 .. l :
            U[i] = IF i \in ends THEN LinkOver(U[i - 1], ToSet(offs),
                                               olds[StartOf(ends, i)], olds[i])
                   ELSE U[i - 1]
  <2>1. Linked(m, offs, olds, ends, l, U)
    BY <1>9, LinksStep
  <2> QED
    BY <2>1 DEF Linked
<1>11. T = {}
  <2>1. SUFFICES ASSUME T # {} PROVE FALSE
    OBVIOUS
  <2>2. PICK k \in T : \A i \in T : k <= i
    <3>1. T \in SUBSET Nat
      BY <1>4
    <3> HIDE DEF T
    <3> QED
      BY <2>1, <3>1, LeastNumber
  <2>3. CASE k = 0
    <3>1. Of(0) = {}
      OBVIOUS
    <3> QED
      BY <1>10, <2>2, <2>3, <3>1
  <2>4. CASE k # 0
    <3>1. /\ k \in 1 .. l /\ k - 1 \in 0 .. Len(t) /\ ~ (k <= k - 1)
          /\ k - 1 \in Nat
      BY <1>4, <2>2, <2>4
    <3>2. ~ Wrong(k - 1)
      BY <2>2, <3>1
    <3>3. PICK j \in Nat : j = k - 1
      BY <3>1
    <3> HIDE DEF T
    <3>4. Bridging(g, U[j], y, S, Of(j))
      BY <3>2, <3>3
    <3>5. Of(k) = Of(j) \cup {t[k]}
      BY <3>1, <3>3
    <3> HIDE DEF Of
    <3>6. CASE k \in ends
      <4>1. PICK f \in 1 .. l : /\ f = StartOf(ends, k)
                                /\ Gap(n, S, t[f] - 1, t[k] + 1)
        <5>1. /\ RunStart(t, k) \in DOMAIN t
              /\ Gap(n, S, t[RunStart(t, k)] - 1, t[k] + 1)
          BY <1>3, <3>6, RunStartHolds DEF ends
        <5>2. RunStart(t, k) = StartOf(ends, k)
          BY DEF RunStart, StartOf, ends
        <5> QED
          BY <1>4, <5>1, <5>2
      <4>2. /\ olds[f].prev = At(u, t[f] - 1) /\ olds[k].next = At(u, t[k] + 1)
            /\ (t[k] + 1) - 1 = t[k]
        <5>1. PICK a \in 1 .. n, b \in 1 .. n : a = t[f] /\ b = t[k]
          BY <1>5, <3>1
        <5>2. olds[f] = frames[sqi[a].offset] /\ olds[k] = frames[sqi[b].offset]
          BY <1>7, <3>1, <5>1
        <5>3. /\ frames[sqi[a].offset].prev = At(u, a - 1)
              /\ frames[sqi[b].offset].next = At(u, b + 1)
              /\ (b + 1) - 1 = b
          BY <1>2 DEF u
        <5> QED
          BY <5>1, <5>2, <5>3
      <4>3. U[k] = LinkOver(U[j], ToSet(offs), olds[f], olds[k])
        BY <1>10, <3>1, <3>3, <3>6, <4>1
      <4>4. Bridging(g, LinkOver(U[j], ToSet(offs), olds[f], olds[k]), y, S,
                     Of(j) \cup {(t[k] + 1) - 1})
        <5>1. Gap(Len(sqi), S, t[f] - 1, t[k] + 1)
          BY <1>2, <4>1
        <5>2. PICK a, b : a = t[f] - 1 /\ b = t[k] + 1
          OBVIOUS
        <5>3. PICK first, last : first = olds[f] /\ last = olds[k]
          OBVIOUS
        <5>4. /\ first.prev = At(Offs(sqi), a) /\ last.next = At(Offs(sqi), b)
              /\ Gap(Len(sqi), S, a, b)
          BY <4>2, <5>1, <5>2, <5>3 DEF u
        <5>5. Bridging(g, LinkOver(U[j], ToSet(offs), first, last), y, S,
                       Of(j) \cup {b - 1})
          BY <1>6, <3>4, <5>4, LinkOverHolds
        <5> QED
          BY <5>2, <5>3, <5>5
      <4> QED
        BY <2>2, <3>5, <4>2, <4>3, <4>4 DEF T
    <3>7. CASE k \notin ends
      <4>1. U[k] = U[j]
        BY <1>10, <3>1, <3>3, <3>7
      <4>2. t[k] \in S /\ t[k] + 1 \in S
        <5>1. k \in DOMAIN t
          BY <1>4, <3>1
        <5> QED
          BY <1>3, <1>5, <3>1, <3>7, <5>1, RunEndsHolds DEF ends
      <4>3. Bridged(Len(sqi), S, Offs(sqi), frames, U[j].frames, Of(j))
        BY <3>4 DEF Bridging
      <4>4. S \subseteq 1 .. n
        BY <1>1, <1>2
      <4>5. Bridged(Len(sqi), S, Offs(sqi), frames, U[j].frames,
                    Of(j) \cup {t[k]})
        BY <1>2, <4>2, <4>3, <4>4, BridgedOn
      <4>6. Bridging(g, U[k], y, S, Of(k))
        BY <3>4, <3>5, <4>1, <4>5 DEF Bridging
      <4> QED
        BY <2>2, <4>6 DEF T
    <3> QED
      BY <3>6, <3>7
  <2> QED
    BY <2>3, <2>4
<1>12. Bridging(g, U[l], y, S, Of(l))
  <2>1. l \in 0 .. Len(t)
    BY <1>4
  <2> QED
    BY <1>11, <2>1
<1>13. Of(l) = S
  BY <1>5
<1> QED
  BY <1>8, <1>12, <1>13

\* Once every run is linked over, a frame names the next that stays.
LEMMA BridgedAll ==
    ASSUME now \in Disk, Whole(now), NEW S, NEW fs2,
           Bridged(Len(sqi), S, Offs(sqi), frames, fs2, S),
           NEW q, NEW p, Gap(Len(sqi), S, q, p)
    PROVE  /\ q # 0 => fs2[Offs(sqi)[q]].next = At(Offs(sqi), p)
           /\ p # Len(sqi) + 1 => fs2[Offs(sqi)[p]].prev = At(Offs(sqi), q)
<1> DEFINE u == Offs(sqi)
<1>1. PICK n \in Nat : /\ n = Len(sqi) /\ Chained(n, u) /\ DOMAIN sqi = 1 .. n
                       /\ \A i \in 1 .. n :
                            /\ u[i] = sqi[i].offset
                            /\ frames[sqi[i].offset].prev = At(u, i - 1)
                            /\ frames[sqi[i].offset].next = At(u, i + 1)
  BY SqiChained
<1>2. /\ q \in 0 .. n /\ p \in 1 .. n + 1 /\ q < p
      /\ \A z \in 1 .. n : q < z /\ z < p => z \in S
  BY <1>1 DEF Gap
<1>3. /\ q # 0 => fs2[u[q]].next = IF p - 1 \in S THEN At(u, p)
                                   ELSE frames[u[q]].next
      /\ p # n + 1 => fs2[u[p]].prev = IF p - 1 \in S THEN At(u, q)
                                       ELSE frames[u[p]].prev
  BY <1>1 DEF Bridged
<1> HIDE DEF u
<1>4. p - 1 \notin S => p - 1 = q
  <2>1. SUFFICES ASSUME p - 1 # q PROVE p - 1 \in S
    OBVIOUS
  <2>2. p - 1 \in 1 .. n /\ q < p - 1 /\ p - 1 < p
    BY <1>2, <2>1
  <2> QED
    BY <1>2, <2>2
<1>5. ASSUME q # 0 PROVE fs2[u[q]].next = At(u, p)
  <2>1. q \in 1 .. n /\ q + 1 \in Nat
    BY <1>2, <1>5
  <2>2. frames[u[q]].next = At(u, q + 1)
    BY <1>1, <2>1
  <2>3. p - 1 = q => q + 1 = p
    BY <1>2
  <2> QED
    BY <1>3, <1>4, <1>5, <2>2, <2>3
<1>6. ASSUME p # n + 1 PROVE fs2[u[p]].prev = At(u, q)
  <2>1. p \in 1 .. n
    BY <1>2, <1>6
  <2>2. frames[u[p]].prev = At(u, p - 1)
    BY <1>1, <2>1
  <2> QED
    BY <1>3, <1>4, <1>6, <2>2
<1> QED
  BY <1>1, <1>5, <1>6 DEF u

\* What stays, in order, with what stands before the first and after the last.
Stop(n, kt, i) == IF i = 0 THEN 0 ELSE IF i = Len(kt) + 1 THEN n + 1 ELSE kt[i]

LEMMA StopsHold ==
    ASSUME NEW n \in Nat, NEW S, S \subseteq 1 .. n, NEW kt,
           InOrder(n, (1 .. n) \ S, kt), NEW i \in 0 .. Len(kt)
    PROVE  Gap(n, S, Stop(n, kt, i), Stop(n, kt, i + 1))
<1>1. PICK l \in Nat : l = Len(kt) /\ DOMAIN kt = 1 .. l
  BY OrderHolds
<1>2. /\ \A k \in 1 .. l : kt[k] \in (1 .. n) \ S /\ kt[k] \in 1 .. n
      /\ \A z \in (1 .. n) \ S : \E k \in 1 .. l : kt[k] = z
      /\ \A k, j \in 1 .. l : k < j <=> kt[k] < kt[j]
  <2>1. PICK K : K = (1 .. n) \ S
    OBVIOUS
  <2>2. InOrder(n, K, kt)
    BY <2>1
  <2>3. /\ \A k \in 1 .. l : kt[k] \in K /\ kt[k] \in 1 .. n
        /\ \A z \in K : \E k \in 1 .. l : kt[k] = z
        /\ \A k, j \in 1 .. l : k < j <=> kt[k] < kt[j]
    BY <1>1, <2>2, OrderHolds
  <2> QED
    BY <2>1, <2>3
<1>3. PICK q, p : q = Stop(n, kt, i) /\ p = Stop(n, kt, i + 1)
  OBVIOUS
<1>4. i \in 0 .. l
  BY <1>1
<1>5. /\ i = 0 => q = 0
      /\ i # 0 => i \in 1 .. l /\ q = kt[i]
  <2>1. i # 0 => i \in 1 .. l /\ i # l + 1
    BY <1>4
  <2> QED
    BY <1>1, <1>3, <2>1 DEF Stop
<1>6. /\ i = l => p = n + 1
      /\ i # l => i + 1 \in 1 .. l /\ p = kt[i + 1]
  <2>1. i + 1 # 0 /\ (i + 1 = l + 1 <=> i = l)
    BY <1>4
  <2>2. i # l => i + 1 \in 1 .. l
    BY <1>4
  <2> QED
    BY <1>1, <1>3, <2>1, <2>2 DEF Stop
<1>7. q \in 0 .. n /\ q \notin S
  BY <1>2, <1>5
<1>8. p \in 1 .. n + 1 /\ p \notin S
  <2>1. CASE i = l
    BY <1>6, <2>1
  <2>2. CASE i # l
    BY <1>2, <1>6, <2>2
  <2> QED
    BY <2>1, <2>2
<1>9. q < p
  <2>1. CASE i = l
    BY <1>6, <1>7, <2>1
  <2>2. CASE i # l /\ i = 0
    BY <1>2, <1>5, <1>6, <2>2
  <2>3. CASE i # l /\ i # 0
    <3>1. i < i + 1
      BY <1>4
    <3> QED
      BY <1>2, <1>5, <1>6, <2>3, <3>1
  <2> QED
    BY <2>1, <2>2, <2>3
<1>10. ASSUME NEW z \in 1 .. n, q < z, z < p PROVE z \in S
  <2>1. SUFFICES ASSUME z \notin S PROVE FALSE
    OBVIOUS
  <2>2. PICK k \in 1 .. l : kt[k] = z
    BY <1>2, <2>1
  <2>3. ~ (k <= i)
    <3>1. SUFFICES ASSUME k <= i PROVE FALSE
      OBVIOUS
    <3>2. i # 0 /\ i \in 1 .. l /\ q = kt[i]
      BY <1>4, <1>5, <3>1
    <3>3. CASE k = i
      BY <1>7, <1>10, <2>2, <3>2, <3>3
    <3>4. CASE k < i
      <4>1. kt[k] < kt[i]
        BY <1>2, <3>2, <3>4
      <4> QED
        BY <1>7, <1>10, <2>2, <3>2, <4>1
    <3> QED
      BY <1>4, <3>1, <3>3, <3>4
  <2>4. i # l /\ i + 1 \in 1 .. l /\ p = kt[i + 1]
    BY <1>4, <1>6, <2>3
  <2>5. k < i + 1
    BY <1>2, <1>10, <2>2, <2>4
  <2> QED
    BY <1>4, <2>3, <2>5
<1> QED
  BY <1>3, <1>7, <1>8, <1>9, <1>10 DEF Gap

\* The header in memory once the ends of the message chain are known.
WithEnds(b, y) ==
    [b EXCEPT !.firstFrame = IF y = <<>> THEN 0 ELSE y[1].offset,
              !.lastFrame = IF y = <<>> THEN 0 ELSE Last(y).offset]

LEMMA WithEndsHolds ==
    ASSUME NEW b \in Header, NEW y \in Seq(Entry)
    PROVE  /\ WithEnds(b, y) \in Header
           /\ WithEnds(b, y).count = b.count
           /\ WithEnds(b, y).nextUid = b.nextUid
           /\ WithEnds(b, y).firstFree = b.firstFree
           /\ WithEnds(b, y).lastFree = b.lastFree
           /\ WithEnds(b, y).endFrame = b.endFrame
           /\ Bounds(Offs(y), WithEnds(b, y).firstFrame,
                     WithEnds(b, y).lastFrame)
<1>1. PICK l \in Nat : l = Len(y) /\ DOMAIN y = 1 .. l
  BY LenProperties
<1>2. DOMAIN Offs(y) = 1 .. l /\ Len(Offs(y)) = l
      /\ \A i \in 1 .. l : Offs(y)[i] = y[i].offset
  BY <1>1, OffsHolds
<1> DEFINE f == IF y = <<>> THEN 0 ELSE y[1].offset
           e == IF y = <<>> THEN 0 ELSE Last(y).offset
<1>3. f = At(Offs(y), 1) /\ e = At(Offs(y), l) /\ f \in Nat /\ e \in Nat
  <2>1. CASE y = <<>>
    <3>1. l = 0
      BY <1>1, <2>1
    <3> QED
      BY <1>2, <2>1, <3>1 DEF At
  <2>2. CASE y # <<>>
    <3>1. l # 0
      BY <1>1, <2>2, EmptySeq
    <3>2. 1 \in 1 .. l /\ l \in 1 .. l
      BY <3>1
    <3>3. y[1] \in Entry /\ y[l] \in Entry
      BY <1>1, <3>2
    <3>4. f = y[1].offset /\ e = y[l].offset
      BY <1>1, <2>2 DEF Last
    <3> QED
      BY <1>2, <3>2, <3>3, <3>4 DEF At, Entry
  <2> QED
    BY <2>1, <2>2
<1>4. WithEnds(b, y) = [b EXCEPT !.firstFrame = f, !.lastFrame = e]
  BY DEF WithEnds
<1> HIDE DEF f, e
<1>5. /\ WithEnds(b, y) \in Header
      /\ WithEnds(b, y).count = b.count
      /\ WithEnds(b, y).nextUid = b.nextUid
      /\ WithEnds(b, y).firstFree = b.firstFree
      /\ WithEnds(b, y).lastFree = b.lastFree
      /\ WithEnds(b, y).endFrame = b.endFrame
      /\ WithEnds(b, y).firstFrame = f
      /\ WithEnds(b, y).lastFrame = e
  BY <1>3, <1>4 DEF Header
<1> QED
  BY <1>2, <1>3, <1>5 DEF Bounds

\* What stays, as the index and the chain have it.
Kept2(n, S, kt, y) ==
    /\ InOrder(n, (1 .. n) \ S, kt)
    /\ y \in Seq(Entry)
    /\ Len(y) = Len(kt)
    /\ Len(y) < n
    /\ \A i \in 1 .. Len(kt) : y[i] = sqi[kt[i]]

LEMMA LeftChain ==
    ASSUME now \in Disk, Whole(now), NEW S, S \subseteq DOMAIN sqi,
           NEW kt, NEW y, Kept2(Len(sqi), S, kt, y), NEW fs2,
           Bridged(Len(sqi), S, Offs(sqi), frames, fs2, S)
    PROVE  /\ Chain(fs2, Offs(y), "normal")
           /\ Lettered(fs2, y)
           /\ OneToOne(Offs(y))
           /\ ToSet(Offs(y)) = ToSet(Offs(sqi)) \ {sqi[i].offset : i \in S}
<1> DEFINE u == Offs(sqi)
           v == Offs(y)
<1>1. PICK n \in Nat : /\ n = Len(sqi) /\ Chained(n, u) /\ DOMAIN sqi = 1 .. n
                       /\ \A i \in 1 .. n : u[i] = sqi[i].offset
  BY SqiChained
<1>2. PICK l \in Nat : l = Len(kt) /\ l = Len(y) /\ DOMAIN y = 1 .. l
  <2>1. Len(y) \in Nat /\ DOMAIN y = 1 .. Len(y)
    BY LenProperties DEF Kept2
  <2> QED
    BY <2>1 DEF Kept2
<1>3. PICK K : K = (1 .. n) \ S /\ InOrder(n, K, kt)
  BY <1>1 DEF Kept2
<1>4. /\ \A i \in 1 .. l : kt[i] \in K /\ kt[i] \in 1 .. n /\ kt[i] \notin S
      /\ \A z \in K : \E i \in 1 .. l : kt[i] = z
      /\ \A i, j \in 1 .. l : i < j <=> kt[i] < kt[j]
  <2>1. /\ \A k \in 1 .. l : kt[k] \in K /\ kt[k] \in 1 .. n
        /\ \A z \in K : \E k \in 1 .. l : kt[k] = z
        /\ \A k, j \in 1 .. l : k < j <=> kt[k] < kt[j]
    <3> HIDE DEF u, v
    <3>1. l = Len(kt)
      BY <1>2
    <3>2. InOrder(n, K, kt)
      BY <1>3
    <3> QED
      BY <3>1, <3>2, OrderHolds, SMTT(20)
  <2> QED
    BY <1>3, <2>1
<1>5. /\ \A i \in 1 .. n : /\ u[i] \in 1 .. MaxFrame /\ u[i] \in ToSet(u)
                           /\ At(u, i) = u[i]
      /\ At(u, 0) = 0 /\ At(u, n + 1) = 0
      /\ \A i, j \in 1 .. n : u[i] = u[j] => i = j
  BY <1>1, ChainedHolds
<1>6. \A i \in DOMAIN sqi : Standing(i)
  BY Stands
<1>7. \A i \in 1 .. n :
        /\ frames[u[i]].type = "normal"
        /\ Housed(frames, sqi[i])
        /\ frames[u[i]].msg.rcvd = sqi[i].rcvd
  BY <1>1, <1>6 DEF Standing, Housed
<1>8. \A i \in 1 .. l : y[i] = sqi[kt[i]] /\ v[i] = u[kt[i]]
  <2>1. \A i \in DOMAIN y : v[i] = y[i].offset
    BY OffsHolds DEF Kept2
  <2>2. \A i \in 1 .. l : y[i] = sqi[kt[i]]
    BY <1>2 DEF Kept2
  <2> QED
    BY <1>1, <1>2, <1>4, <2>1, <2>2
<1>9. DOMAIN v = 1 .. l
  BY <1>2, OffsHolds DEF Kept2
<1> HIDE DEF u, v
<1>10. \A o \in 1 .. MaxFrame : /\ fs2[o].type = frames[o].type
                                /\ fs2[o].msg = frames[o].msg
                                /\ fs2[o].room = frames[o].room
  BY DEF Bridged, u
<1>11. ASSUME NEW i \in 0 .. l + 1
       PROVE  At(v, i) = At(u, Stop(n, kt, i))
  <2>1. CASE i = 0
    <3>1. i \notin 1 .. l
      BY <2>1
    <3> QED
      BY <1>5, <1>9, <2>1, <3>1 DEF At, Stop
  <2>2. CASE i = l + 1
    <3>1. i \notin 1 .. l /\ i # 0
      BY <2>2
    <3>2. Stop(n, kt, i) = n + 1
      BY <1>2, <2>2, <3>1 DEF Stop
    <3> QED
      BY <1>5, <1>9, <3>1, <3>2 DEF At
  <2>3. CASE i # 0 /\ i # l + 1
    <3>1. i \in 1 .. l
      BY <2>3
    <3>2. Stop(n, kt, i) = kt[i]
      BY <1>2, <2>3 DEF Stop
    <3> QED
      BY <1>4, <1>5, <1>8, <1>9, <3>1, <3>2 DEF At
  <2> QED
    BY <2>1, <2>2, <2>3
<1>12. ASSUME NEW i \in 0 .. l
       PROVE  /\ i # 0 => fs2[u[kt[i]]].next = At(v, i + 1)
              /\ i # l => fs2[u[kt[i + 1]]].prev = At(v, i)
  <2>1. PICK q, p : q = Stop(n, kt, i) /\ p = Stop(n, kt, i + 1)
    OBVIOUS
  <2>2. Gap(n, S, q, p)
    <3>1. S \subseteq 1 .. n /\ i \in 0 .. Len(kt) /\ InOrder(n, (1 .. n) \ S, kt)
      BY <1>1, <1>2, <1>3
    <3> QED
      BY <2>1, <3>1, StopsHold
  <2>3. /\ q # 0 => fs2[u[q]].next = At(u, p)
        /\ p # n + 1 => fs2[u[p]].prev = At(u, q)
    <3>1. /\ q # 0 => fs2[Offs(sqi)[q]].next = At(Offs(sqi), p)
          /\ p # Len(sqi) + 1 => fs2[Offs(sqi)[p]].prev = At(Offs(sqi), q)
      BY <1>1, <2>2, BridgedAll
    <3> QED
      BY <1>1, <3>1 DEF u
  <2>4. i + 1 \in 0 .. l + 1 /\ i \in 0 .. l + 1
    OBVIOUS
  <2>5. At(v, i) = At(u, q) /\ At(v, i + 1) = At(u, p)
    BY <1>11, <2>1, <2>4
  <2>6. i # 0 => q = kt[i] /\ q # 0
    <3>1. SUFFICES ASSUME i # 0 PROVE q = kt[i] /\ q # 0
      OBVIOUS
    <3>2. i \in 1 .. l /\ i # l + 1
      BY <3>1
    <3>3. q = kt[i]
      BY <1>2, <2>1, <3>1, <3>2 DEF Stop
    <3>4. kt[i] \in 1 .. n
      BY <1>4, <3>2
    <3> QED
      BY <3>3, <3>4
  <2>7. i # l => p = kt[i + 1] /\ p # n + 1
    <3>1. SUFFICES ASSUME i # l PROVE p = kt[i + 1] /\ p # n + 1
      OBVIOUS
    <3>2. i + 1 \in 1 .. l /\ i + 1 # l + 1 /\ i + 1 # 0
      BY <3>1
    <3>3. kt[i + 1] \in 1 .. n
      BY <1>4, <3>2
    <3>4. p = kt[i + 1]
      BY <1>2, <2>1, <3>2 DEF Stop
    <3> QED
      BY <3>3, <3>4
  <2> QED
    BY <2>3, <2>5, <2>6, <2>7
<1>13. Chain(fs2, v, "normal")
  <2>1. SUFFICES ASSUME NEW i \in 1 .. l
                 PROVE  /\ fs2[v[i]].type = "normal"
                        /\ fs2[v[i]].prev = At(v, i - 1)
                        /\ fs2[v[i]].next = At(v, i + 1)
    BY <1>9 DEF Chain
  <2>2. v[i] = u[kt[i]] /\ kt[i] \in 1 .. n /\ v[i] \in 1 .. MaxFrame
    BY <1>4, <1>5, <1>8
  <2>3. fs2[v[i]].type = "normal"
    BY <1>7, <1>10, <2>2
  <2>4. fs2[v[i]].next = At(v, i + 1)
    <3>1. i \in 0 .. l /\ i # 0
      OBVIOUS
    <3> QED
      BY <1>12, <2>2, <3>1
  <2>5. fs2[v[i]].prev = At(v, i - 1)
    <3>1. PICK j \in 0 .. l : j = i - 1
      OBVIOUS
    <3>2. j # l /\ j + 1 = i
      BY <3>1
    <3>3. fs2[u[kt[j + 1]]].prev = At(v, j)
      BY <1>12, <3>2
    <3> QED
      BY <2>2, <3>1, <3>2, <3>3
  <2> QED
    BY <2>3, <2>4, <2>5
<1>14. Lettered(fs2, y)
  <2>1. SUFFICES ASSUME NEW i \in 1 .. l
                 PROVE  /\ Housed(fs2, y[i])
                        /\ fs2[y[i].offset].msg.rcvd = y[i].rcvd
    BY <1>2 DEF Lettered
  <2>2. PICK q \in 1 .. n : q = kt[i] /\ y[i] = sqi[q]
    BY <1>4, <1>8
  <2>3. u[q] = sqi[q].offset /\ u[q] \in 1 .. MaxFrame
    BY <1>1, <1>5 DEF u
  <2>4. PICK o \in 1 .. MaxFrame : o = u[q] /\ o = y[i].offset
    BY <2>2, <2>3
  <2>5. fs2[o].msg = frames[o].msg /\ fs2[o].room = frames[o].room
    BY <1>10
  <2>6. Housed(frames, y[i]) /\ frames[o].msg.rcvd = y[i].rcvd
    BY <1>7, <2>2, <2>4
  <2> QED
    BY <2>4, <2>5, <2>6 DEF Housed
<1>15. OneToOne(v)
  <2>1. SUFFICES ASSUME NEW i \in 1 .. l, NEW j \in 1 .. l, v[i] = v[j]
                 PROVE  i = j
    BY <1>9 DEF OneToOne
  <2>2. kt[i] = kt[j] /\ kt[i] \in Nat
    BY <1>4, <1>5, <1>8, <2>1
  <2>3. ~ i < j /\ ~ j < i
    BY <1>4, <2>2
  <2> QED
    BY <2>3
<1>16. ToSet(v) = ToSet(u) \ {sqi[i].offset : i \in S}
  <2>1. ToSet(v) = {v[i] : i \in 1 .. l} /\ ToSet(u) = {u[i] : i \in 1 .. n}
    <3>1. DOMAIN u = 1 .. n
      BY <1>1 DEF Chained
    <3> QED
      BY <1>9, <3>1 DEF ToSet
  <2>2. ASSUME NEW i \in 1 .. l
        PROVE  /\ \E q \in 1 .. n : u[q] = v[i]
               /\ \A z \in S : v[i] # sqi[z].offset
    <3>1. kt[i] \in 1 .. n /\ v[i] = u[kt[i]] /\ kt[i] \notin S
      BY <1>4, <1>8
    <3>2. \A z \in S : z \in 1 .. n /\ u[z] = sqi[z].offset
      BY <1>1 DEF u
    <3> QED
      BY <1>5, <3>1, <3>2
  <2>3. ASSUME NEW q \in 1 .. n, \A z \in S : u[q] # sqi[z].offset
        PROVE  \E i \in 1 .. l : v[i] = u[q]
    <3>1. q \notin S
      BY <1>1, <2>3 DEF u
    <3>2. q \in K
      BY <1>3, <3>1
    <3> QED
      BY <1>4, <1>8, <3>2
  <2> QED
    BY <2>1, <2>2, <2>3
<1> QED
  BY <1>13, <1>14, <1>15, <1>16 DEF u, v

LEMMA LeftArranged ==
    ASSUME now \in Disk, Whole(now), NEW S, S \subseteq DOMAIN sqi, S # {},
           NEW y, y = Without(sqi, S), NEW fs2 \in [1 .. MaxFrame -> Frame],
           Bridged(Len(sqi), S, Offs(sqi), frames, fs2, S)
    PROVE  \E c : Arranged(WithEnds(hdr, y), fs2, y, c,
                           {sqi[i].offset : i \in S})
<1> DEFINE X == {sqi[i].offset : i \in S}
           kt == Sorted(sqi, DOMAIN sqi \ S)
           b == WithEnds(hdr, y)
<1>1. PICK c : Arranged(hdr, frames, sqi, c, {})
  BY DEF Whole, now
<1>2. /\ hdr \in Header /\ sqi \in Seq(Entry) /\ c \in Seq(Nat)
      /\ hdr.endFrame \in 1 .. MaxFrame + 1
      /\ Len(sqi) < hdr.nextUid
      /\ Parted(hdr.endFrame, Offs(sqi), c, {})
      /\ Chain(frames, c, "free")
      /\ Bounds(c, hdr.firstFree, hdr.lastFree)
      /\ Offs(sqi) \in Seq(Nat)
  BY <1>1, OffsHolds DEF Arranged
<1>3. PICK n \in Nat : n = Len(sqi) /\ DOMAIN sqi = 1 .. n
  BY <1>2, LenProperties
<1>4. Remains(sqi, S, kt, y)
  BY <1>2, WithoutHolds
<1> HIDE DEF kt, b, X
<1>5. Kept2(Len(sqi), S, kt, y)
  <2>1. /\ y \in Seq(Entry) /\ Len(y) < n /\ kt \in Seq(Nat) /\ Rising(kt)
        /\ ToSet(kt) = (1 .. n) \ S /\ DOMAIN y = DOMAIN kt
        /\ \A i \in DOMAIN y : y[i] = sqi[kt[i]]
    BY <1>3, <1>4 DEF Remains
  <2>2. DOMAIN kt = 1 .. Len(kt) /\ Len(y) = Len(kt)
    <3>1. /\ DOMAIN kt = 1 .. Len(kt) /\ Len(kt) \in Nat
          /\ DOMAIN y = 1 .. Len(y) /\ Len(y) \in Nat
      BY <2>1, LenProperties
    <3> QED
      BY <2>1, <3>1
  <2> QED
    BY <1>3, <2>1, <2>2 DEF Kept2, InOrder
<1>6. /\ Chain(fs2, Offs(y), "normal")
      /\ Lettered(fs2, y)
      /\ OneToOne(Offs(y))
      /\ ToSet(Offs(y)) = ToSet(Offs(sqi)) \ X
  <2>1. PICK kt0 : Kept2(Len(sqi), S, kt0, y)
    BY <1>5
  <2>2. /\ Chain(fs2, Offs(y), "normal")
        /\ Lettered(fs2, y)
        /\ OneToOne(Offs(y))
        /\ ToSet(Offs(y)) = ToSet(Offs(sqi)) \ {sqi[i].offset : i \in S}
    BY <2>1, LeftChain
  <2> QED
    BY <2>2 DEF X
<1>7. y \in Seq(Entry) /\ Len(y) \in Nat /\ Len(y) < n
  BY <1>3, <1>4 DEF Remains
<1>8. /\ b \in Header /\ b.nextUid = hdr.nextUid
      /\ b.firstFree = hdr.firstFree /\ b.lastFree = hdr.lastFree
      /\ b.endFrame = hdr.endFrame
      /\ Bounds(Offs(y), b.firstFrame, b.lastFrame)
  BY <1>2, <1>7, WithEndsHolds DEF b
<1>9. Len(y) < b.nextUid
  <2>1. hdr.nextUid \in Nat
    BY <1>2 DEF Header
  <2> QED
    BY <1>2, <1>3, <1>7, <1>8, <2>1
<1>10. X \subseteq ToSet(Offs(sqi))
  <2>1. ToSet(Offs(sqi)) = {sqi[i].offset : i \in DOMAIN sqi}
    BY <1>2, OffsHolds
  <2> QED
    BY <2>1 DEF X
<1>11. Parted(b.endFrame, Offs(y), c, X)
  BY <1>2, <1>6, <1>8, <1>10 DEF Parted
<1>12. Chain(fs2, c, "free")
  <2>1. \A i \in DOMAIN c : c[i] \in 1 .. MaxFrame /\ c[i] \notin ToSet(Offs(sqi))
    <3>1. \A o \in ToSet(Offs(sqi)) \cup ToSet(c) \cup {} :
                o \in 1 .. MaxFrame /\ o < hdr.endFrame /\ o # 0
      BY <1>2, InChain
    <3>2. \A i \in DOMAIN c : c[i] \in ToSet(c)
      BY DEF ToSet
    <3> QED
      BY <1>2, <3>1, <3>2 DEF Parted
  <2>2. \A i \in DOMAIN c : /\ fs2[c[i]].type = frames[c[i]].type
                            /\ fs2[c[i]].prev = frames[c[i]].prev
                            /\ fs2[c[i]].next = frames[c[i]].next
    BY <2>1 DEF Bridged
  <2> QED
    BY <1>2, <2>2, ChainSame
<1>13. Arranged(b, fs2, y, c, X)
  BY <1>2, <1>6, <1>7, <1>8, <1>9, <1>11, <1>12 DEF Arranged
<1> QED
  BY <1>13 DEF b, X

(***************************************************************************)
(* Messages removed: their frames given back, and the header               *)
(***************************************************************************)

ReleaseStep(q, at, f) == Then(q, LAMBDA r : ReleaseFrame(r, at, f))

Releases(m, offs, olds, n, upto) ==
    upto = [i \in 0 .. n |-> IF i = 0 THEN m
                             ELSE ReleaseStep(upto[i - 1], offs[i], olds[i])]

ReleasesTo(m, offs, olds, n, upto) ==
    /\ upto[0] = m
    /\ \A i \in 1 .. n : upto[i] = ReleaseStep(upto[i - 1], offs[i], olds[i])

LEMMA ReleasesStep ==
    ASSUME NEW m, NEW offs, NEW olds, NEW n \in Nat, NEW upto,
           Releases(m, offs, olds, n, upto)
    PROVE  ReleasesTo(m, offs, olds, n, upto)
<1> DEFINE F(i) == IF i = 0 THEN m ELSE ReleaseStep(upto[i - 1], offs[i], olds[i])
<1>1. upto = [i \in 0 .. n |-> F(i)]
  BY DEF Releases
<1>2. \A i \in 0 .. n : upto[i] = F(i)
  <2> HIDE DEF F
  <2> QED
    BY <1>1
<1>3. upto[0] = F(0) /\ \A i \in 1 .. n : upto[i] = F(i) /\ i # 0
  BY <1>2
<1> QED
  BY <1>3 DEF ReleasesTo

LEMMA ReleasesExists ==
    ASSUME NEW m, NEW offs, NEW olds, NEW n0 \in Nat
    PROVE  \E upto : Releases(m, offs, olds, n0, upto)
<1> DEFINE Ok(k) == \E upto : Releases(m, offs, olds, k, upto)
           T == {k \in Nat : ~ Ok(k)}
<1>1. SUFFICES ASSUME T # {} PROVE FALSE
  OBVIOUS
<1>2. PICK n \in T : \A k \in T : n <= k
  BY <1>1, LeastNumber
<1>3. CASE n = 0
  <2> DEFINE upto == [k \in 0 .. 0 |-> m]
  <2>1. Releases(m, offs, olds, 0, upto)
    BY DEF Releases
  <2> QED
    BY <2>1, <1>3
<1>4. CASE n # 0
  <2>1. n \in Nat /\ n - 1 \in Nat /\ n - 1 \notin T
    BY <1>2, <1>4
  <2>2. PICK n1 \in Nat : n1 = n - 1
    BY <2>1
  <2>3. PICK upto : Releases(m, offs, olds, n1, upto)
    BY <2>1, <2>2
  <2> HIDE DEF T
  <2>4. /\ upto[0] = m
        /\ \A i \in 1 .. n1 :
                upto[i] = ReleaseStep(upto[i - 1], offs[i], olds[i])
    <3>1. ReleasesTo(m, offs, olds, n1, upto)
      BY <2>3, ReleasesStep
    <3> QED
      BY <3>1 DEF ReleasesTo
  <2> DEFINE last == ReleaseStep(upto[n - 1], offs[n], olds[n])
             next == [k \in 0 .. n |-> IF k = n THEN last ELSE upto[k]]
  <2>5. \A k \in 0 .. n1 : next[k] = upto[k]
    BY <2>1, <2>2
  <2>6. next[n] = last /\ next[n - 1] = upto[n - 1] /\ next[0] = m
    BY <1>4, <2>1, <2>2, <2>4, <2>5
  <2>7. next = [k \in 0 .. n |-> next[k]]
    OBVIOUS
  <2> HIDE DEF next
  <2>8. ASSUME NEW k \in 0 .. n
        PROVE  next[k] = IF k = 0 THEN m
                         ELSE ReleaseStep(next[k - 1], offs[k], olds[k])
    <3>1. CASE k = n
      BY <1>4, <2>6, <3>1
    <3>2. CASE k = 0
      BY <2>6, <3>2
    <3>3. CASE k # n /\ k # 0
      <4>1. k \in 1 .. n1 /\ k \in 0 .. n1 /\ k - 1 \in 0 .. n1
        BY <2>1, <2>2, <3>3
      <4>2. next[k] = upto[k] /\ next[k - 1] = upto[k - 1]
        BY <2>5, <4>1
      <4> QED
        BY <2>4, <3>3, <4>1, <4>2
    <3> QED
      BY <3>1, <3>2, <3>3
  <2> HIDE DEF last
  <2>9. Releases(m, offs, olds, n, next)
    BY <2>7, <2>8 DEF Releases
  <2> QED
    BY <1>2, <2>9 DEF T
<1> QED
  BY <1>3, <1>4

\* The frames X still to be given back.
Releasing(g, m, y, X) ==
    /\ Leads(g, m, hdr, y)
    /\ m.ok /\ ~ m.full /\ m.index = y
    /\ m.base.nextUid = hdr.nextUid
    /\ View(DiskOf(hdr, m.frames, y)) = g.to
    /\ \E c : Arranged(m.base, m.frames, m.index, c, X)

LEMMA ReleaseOne ==
    ASSUME NEW g, NEW m, NEW y, NEW X, Releasing(g, m, y, X), NEW at \in X,
           NEW f \in Frame
    PROVE  Releasing(g, ReleaseStep(m, at, f), y, X \ {at})
<1> DEFINE m2 == ReleaseFrame(m, at, f)
<1>1. PICK c : Arranged(m.base, m.frames, m.index, c, X)
  BY DEF Releasing
<1>2. /\ Leads(g, m, hdr, y) /\ m.ok /\ ~ m.full /\ m.index = y
      /\ m.base.nextUid = hdr.nextUid
      /\ View(DiskOf(hdr, m.frames, y)) = g.to
  BY DEF Releasing
<1>3. Halfway(g, m, hdr, y)
  BY <1>2 DEF Halfway
<1>4. at \notin ToSet(Offs(y))
  <2>1. Parted(m.base.endFrame, Offs(y), c, X)
    BY <1>1, <1>2 DEF Arranged
  <2> QED
    BY <2>1 DEF Parted
<1>5. ReleaseStep(m, at, f) = m2
  BY <1>2 DEF ReleaseStep, Then
<1> HIDE DEF m2
<1>6. Released(g, m, m2, hdr, y, c, X, at)
  BY <1>1, <1>2, <1>3, <1>4, ReleaseHolds DEF m2
<1>7. /\ Leads(g, m2, hdr, y) /\ m2.ok /\ m2.index = m.index
      /\ m2.full = m.full /\ m2.base.nextUid = m.base.nextUid
      /\ View(DiskOf(hdr, m2.frames, y)) = View(DiskOf(hdr, m.frames, y))
      /\ Arranged(m2.base, m2.frames, m2.index, Append(c, at), X \ {at})
  BY <1>6 DEF Released, Unseen
<1>8. \E c2 : Arranged(m2.base, m2.frames, m2.index, c2, X \ {at})
  BY <1>7
<1> QED
  BY <1>2, <1>5, <1>7, <1>8 DEF Releasing

LEMMA ReleaseAllHolds ==
    ASSUME NEW g, NEW m, NEW y, NEW offs, NEW olds, NEW l \in Nat,
           Len(offs) = l, \A i \in 1 .. l : olds[i] \in Frame,
           \A i, j \in 1 .. l : offs[i] = offs[j] => i = j,
           Releasing(g, m, y, {offs[i] : i \in 1 .. l})
    PROVE  Releasing(g, ReleaseAll(m, offs, olds), y, {})
<1> DEFINE U == CHOOSE upto : Releases(m, offs, olds, Len(offs), upto)
           Still(k) == {offs[i] : i \in {j \in 1 .. l : j > k}}
           Wrong(k) == ~ Releasing(g, U[k], y, Still(k))
           T == {k \in 0 .. l : Wrong(k)}
<1>1. ReleaseAll(m, offs, olds) = U[l]
  <2>1. ReleaseAll(m, offs, olds) = U[Len(offs)]
    BY DEF ReleaseAll, Releases, ReleaseStep
  <2> QED
    BY <2>1
<1>2. Releases(m, offs, olds, l, U)
  BY ReleasesExists
<1> HIDE DEF U
<1>3. ReleasesTo(m, offs, olds, l, U)
  BY <1>2, ReleasesStep
<1>4. /\ U[0] = m
      /\ \A i \in 1 .. l : U[i] = ReleaseStep(U[i - 1], offs[i], olds[i])
  BY <1>3 DEF ReleasesTo
<1>5. T = {}
  <2>1. SUFFICES ASSUME T # {} PROVE FALSE
    OBVIOUS
  <2>2. PICK k \in T : \A i \in T : k <= i
    <3>1. T \in SUBSET Nat
      OBVIOUS
    <3> HIDE DEF T
    <3> QED
      BY <2>1, <3>1, LeastNumber
  <2>3. CASE k = 0
    <3>1. Still(0) = {offs[i] : i \in 1 .. l}
      OBVIOUS
    <3> HIDE DEF Still
    <3> QED
      BY <1>4, <2>2, <2>3, <3>1
  <2>4. CASE k # 0
    <3>1. /\ k \in 1 .. l /\ k - 1 \in 0 .. l /\ ~ (k <= k - 1)
      BY <2>2, <2>4
    <3>2. ~ Wrong(k - 1)
      BY <2>2, <3>1
    <3>3. PICK j \in Nat : j = k - 1 /\ k = j + 1
      BY <3>1
    <3> HIDE DEF T
    <3>4. Releasing(g, U[j], y, Still(j))
      BY <3>2, <3>3
    <3>5. offs[k] \in Still(j) /\ Still(k) = Still(j) \ {offs[k]}
      <4>1. \A i \in 1 .. l : i > j <=> i > k \/ i = k
        BY <3>1, <3>3
      <4>2. \A i \in 1 .. l : i > k => i # k
        BY <3>1
      <4> QED
        BY <3>1, <4>1, <4>2
    <3> HIDE DEF Still
    <3>6. U[k] = ReleaseStep(U[j], offs[k], olds[k]) /\ olds[k] \in Frame
      BY <1>4, <3>1, <3>3
    <3>7. Releasing(g, ReleaseStep(U[j], offs[k], olds[k]), y,
                    Still(j) \ {offs[k]})
      BY <3>4, <3>5, <3>6, ReleaseOne
    <3>8. ~ Wrong(k)
      BY <3>5, <3>6, <3>7
    <3> QED
      BY <2>2, <3>8 DEF T
  <2> QED
    BY <2>3, <2>4
<1>6. Releasing(g, U[l], y, Still(l))
  <2>1. l \in 0 .. l
    OBVIOUS
  <2> HIDE DEF Wrong
  <2>2. ~ Wrong(l)
    BY <1>5, <2>1
  <2> QED
    BY <2>2 DEF Wrong
<1>7. Still(l) = {}
  OBVIOUS
<1> HIDE DEF Still
<1> QED
  BY <1>1, <1>6, <1>7

\* The header written once every frame is back.
CountedAll(m) == [m EXCEPT !.base.count = Len(m.index)]

LEMMA CountHolds ==
    ASSUME NEW g, NEW m, NEW y, Releasing(g, m, y, {}), hdr.count >= Len(y),
           NEW m2, m2 = WriteBaseHeader(CountedAll(m))
    PROVE  \E h : /\ Leads(g, m2, h, y)
                  /\ Whole(DiskOf(h, m2.frames, y))
                  /\ View(DiskOf(h, m2.frames, y)) = g.to
<1> DEFINE m1 == CountedAll(m)
           h == [m.base EXCEPT !.count = Len(y)]
<1>1. PICK c : Arranged(m.base, m.frames, m.index, c, {})
  BY DEF Releasing
<1>2. /\ Leads(g, m, hdr, y) /\ m.ok /\ m.index = y
      /\ m.base.nextUid = hdr.nextUid
      /\ View(DiskOf(hdr, m.frames, y)) = g.to
  BY DEF Releasing
<1>3. m \in Plan /\ m.base \in Header /\ y \in Seq(Entry) /\ hdr \in Header
  BY <1>2, LeadsTyped
<1>4. Len(y) \in Nat
  BY <1>3, LenProperties
<1>5. /\ h \in Header /\ h.count = Len(y) /\ h.nextUid = m.base.nextUid
      /\ h.firstFrame = m.base.firstFrame /\ h.lastFrame = m.base.lastFrame
      /\ h.firstFree = m.base.firstFree /\ h.lastFree = m.base.lastFree
      /\ h.endFrame = m.base.endFrame
  BY <1>3, <1>4 DEF Header
<1>6. m1 = [m EXCEPT !.base = h]
  BY <1>2, <1>3 DEF CountedAll, Plan
<1> HIDE DEF h
<1>7. /\ m1 \in Plan /\ m1.base = h /\ m1.ok /\ m1.todo = m.todo
      /\ m1.frames = m.frames
  BY <1>2, <1>3, <1>5, <1>6 DEF Plan
<1> HIDE DEF m1
<1>8. Leads(g, m1, hdr, y)
  BY <1>2, <1>7, LeadsOther
<1>9. Loads(h, y) = y /\ Loads(hdr, y) = y
  <2>1. h.count >= Len(y)
    BY <1>4, <1>5
  <2> QED
    BY <1>3, <1>5, <2>1, LoadsHolds
<1>10. Halfway(g, m1, hdr, y)
  BY <1>2, <1>7 DEF Halfway
<1>11. /\ Leads(g, m2, h, y)
       /\ m2.frames = m1.frames
       /\ View(DiskOf(h, m1.frames, y)) = View(DiskOf(hdr, m1.frames, y))
  <2>1. Loads(m1.base, y) = Loads(hdr, y) /\ m1.base.nextUid = hdr.nextUid
    BY <1>2, <1>5, <1>7, <1>9
  <2>2. m2 = WriteBaseHeader(m1)
    BY DEF m1
  <2>3. /\ Leads(g, WriteBaseHeader(m1), m1.base, y)
        /\ WriteBaseHeader(m1).frames = m1.frames
        /\ View(DiskOf(m1.base, m1.frames, y)) = View(DiskOf(hdr, m1.frames, y))
    BY <1>7, <1>8, <1>10, <2>1, HeaderWrite
  <2> QED
    BY <1>7, <2>2, <2>3
<1>12. Arranged(h, m2.frames, y, c, {})
  BY <1>1, <1>2, <1>5, <1>7, <1>11 DEF Arranged
<1>13. Whole(DiskOf(h, m2.frames, y))
  BY <1>5, <1>12 DEF Whole, DiskOf
<1> QED
  BY <1>2, <1>7, <1>11, <1>13

(***************************************************************************)
(* Messages removed: the call                                              *)
(***************************************************************************)

EndsNamed(r) ==
    [r EXCEPT !.base.firstFrame = IF r.index = <<>> THEN 0
                                  ELSE r.index[1].offset,
              !.base.lastFrame = IF r.index = <<>> THEN 0
                                 ELSE Last(r.index).offset]

Taken(r, S, offs, olds) ==
    Then(Then(LinkRuns(CutIndex(r, S), offs, olds),
              LAMBDA q : ReleaseAll(EndsNamed(q), offs, olds)),
         LAMBDA q : WriteBaseHeader(CountedAll(q)))

Unreadable(r, S) == \E n \in S : \/ n \notin DOMAIN r.index
                                 \/ ~Readable(r, r.index[n].offset)

OffsOf(r, t) == [i \in DOMAIN t |-> r.index[t[i]].offset]
OldsOf(r, t) == [i \in DOMAIN t |-> r.frames[r.index[t[i]].offset]]

RemoveRun(r, S) ==
    IF Unreadable(r, S) THEN Refuse(r)
    ELSE Taken(r, S, OffsOf(r, Sorted(r.index, S)), OldsOf(r, Sorted(r.index, S)))

LEMMA RemoveIs ==
    ASSUME NEW p, NEW S
    PROVE  PlanRemoveAll(p, S) = Return(Then(Reload(p), LAMBDA r : RemoveRun(r, S)))
BY DEF PlanRemoveAll, RemoveRun, Unreadable, OffsOf, OldsOf, Taken, EndsNamed,
       CountedAll

LEMMA EndsNamedHolds ==
    ASSUME NEW m \in Plan, m.base = hdr
    PROVE  EndsNamed(m) = [m EXCEPT !.base = WithEnds(hdr, m.index)]
BY DEF EndsNamed, WithEnds, Plan

LEMMA TakenHolds ==
    ASSUME NEW g, NEW r, NEW S, NEW call, Removing(g, r, S, call),
           NEW t, t = Sorted(sqi, S),
           NEW offs, offs = [i \in DOMAIN t |-> sqi[t[i]].offset],
           NEW olds, olds = [i \in DOMAIN t |-> frames[sqi[t[i]].offset]]
    PROVE  Planned(call, Return(Taken(r, S, offs, olds)),
                   View(DiskOf(hdr, frames, Without(sqi, S))))
<1>1. PICK y : y = Without(sqi, S)
  OBVIOUS
<1> DEFINE X == {sqi[i].offset : i \in S}
           m1 == CutIndex(r, S)
           m2 == LinkRuns(m1, offs, olds)
           m3 == EndsNamed(m2)
           m4 == ReleaseAll(m3, offs, olds)
           m5 == WriteBaseHeader(CountedAll(m4))
           kt == Sorted(sqi, DOMAIN sqi \ S)
<1>2. now \in Disk /\ Whole(now) /\ S \subseteq DOMAIN sqi /\ S # {}
  BY DEF Removing
<1>3. /\ Leftover(kt, y, S) /\ g.call = call /\ g.from = View(now)
      /\ g.to = View(DiskOf(hdr, frames, y))
  BY <1>1, RemovingStands
<1>4. /\ sqi \in Seq(Entry) /\ hdr \in Header /\ hdr.count = Len(sqi)
      /\ y \in Seq(Entry) /\ Len(y) < Len(sqi)
      /\ frames \in [1 .. MaxFrame -> Frame]
  BY <1>3 DEF Leftover, Remains
<1>5. PICK n \in Nat : n = Len(sqi) /\ DOMAIN sqi = 1 .. n /\ Chained(n, Offs(sqi))
                       /\ \A i \in 1 .. n : Offs(sqi)[i] = sqi[i].offset
  BY <1>2, SqiChained
<1>6. InOrder(n, S, t)
  <2>1. /\ Sorted(sqi, S) \in Seq(Nat)
        /\ ToSet(Sorted(sqi, S)) = S \cap (1 .. Len(sqi))
        /\ Rising(Sorted(sqi, S))
    BY <1>4, SortedHolds
  <2> QED
    BY <1>2, <1>5, <2>1 DEF InOrder
<1>7. PICK l \in Nat : l = Len(t) /\ DOMAIN t = 1 .. l
  BY <1>6, OrderHolds
<1>8. /\ \A i \in 1 .. l : t[i] \in S /\ t[i] \in 1 .. n
      /\ \A i, j \in 1 .. l : i < j <=> t[i] < t[j]
  BY <1>6, <1>7, OrderHolds
<1>9. EndsAre(S, t, offs, olds)
  BY <1>2, <1>5, <1>6, EndsHolds
<1>10. Len(offs) = l /\ DOMAIN offs = 1 .. l /\ ToSet(offs) = X
  BY <1>7, <1>9 DEF EndsAre
<1>11. X = {offs[i] : i \in 1 .. l}
  BY <1>10 DEF ToSet
<1>12. \A i \in 1 .. l : offs[i] = sqi[t[i]].offset /\ olds[i] = frames[sqi[t[i]].offset]
  BY <1>7
<1>13. /\ \A i \in 1 .. n : sqi[i].offset \in 1 .. MaxFrame
       /\ \A i, j \in 1 .. n : sqi[i].offset = sqi[j].offset => i = j
  <2>1. /\ \A i \in 1 .. n : Offs(sqi)[i] \in 1 .. MaxFrame
        /\ \A i, j \in 1 .. n : Offs(sqi)[i] = Offs(sqi)[j] => i = j
    BY <1>5, ChainedHolds
  <2> QED
    BY <1>5, <2>1
<1>14. \A i \in 1 .. l : olds[i] \in Frame
  <2>1. SUFFICES ASSUME NEW i \in 1 .. l PROVE olds[i] \in Frame
    OBVIOUS
  <2>2. PICK a \in 1 .. n : a = t[i]
    BY <1>8
  <2>3. PICK o \in 1 .. MaxFrame : o = sqi[a].offset
    BY <1>13
  <2> QED
    BY <1>4, <1>12, <2>2, <2>3
<1>15. \A i, j \in 1 .. l : offs[i] = offs[j] => i = j
  <2>1. SUFFICES ASSUME NEW i \in 1 .. l, NEW j \in 1 .. l, offs[i] = offs[j]
                 PROVE  i = j
    OBVIOUS
  <2>2. t[i] = t[j] /\ t[i] \in Nat
    <3>1. PICK a \in 1 .. n, b \in 1 .. n : a = t[i] /\ b = t[j]
      BY <1>8
    <3>2. sqi[a].offset = sqi[b].offset
      BY <1>12, <2>1, <3>1
    <3>3. a = b
      BY <1>13, <3>2
    <3> QED
      BY <3>1, <3>3
  <2>3. ~ i < j /\ ~ j < i
    BY <1>8, <2>2
  <2> QED
    BY <2>3
<1> HIDE DEF X, kt
<1>16. CutDone(g, m1, y)
  BY <1>1, CutIndexHolds
<1> HIDE DEF m1
<1>17. Bridging(g, m1, y, S, {})
  <2>1. /\ Leads(g, m1, hdr, y) /\ m1.ok /\ ~ m1.full /\ m1.base = hdr
        /\ m1.index = y /\ m1.frames = frames
    BY <1>16 DEF CutDone
  <2>2. Bridged(Len(sqi), S, Offs(sqi), frames, frames, {})
    BY DEF Bridged
  <2> QED
    BY <1>3, <2>1, <2>2 DEF Bridging
<1>18. Bridging(g, m2, y, S, S)
  <2>1. InOrder(Len(sqi), S, t)
    BY <1>5, <1>6
  <2> QED
    BY <1>1, <1>17, <2>1, LinkRunsHolds
<1> HIDE DEF m2
<1>19. /\ Leads(g, m2, hdr, y) /\ m2.ok /\ ~ m2.full /\ m2.base = hdr
       /\ m2.index = y /\ View(DiskOf(hdr, m2.frames, y)) = g.to
       /\ Bridged(Len(sqi), S, Offs(sqi), frames, m2.frames, S)
  BY <1>18 DEF Bridging
<1>20. m2 \in Plan /\ m2.frames \in [1 .. MaxFrame -> Frame]
  BY <1>19, LeadsTyped
<1>21. \E c : Arranged(WithEnds(hdr, y), m2.frames, y, c, X)
  <2>1. \E c : Arranged(WithEnds(hdr, y), m2.frames, y, c,
                        {sqi[i].offset : i \in S})
    BY <1>1, <1>2, <1>19, <1>20, LeftArranged
  <2> QED
    BY <2>1 DEF X
<1>22. m3 = [m2 EXCEPT !.base = WithEnds(hdr, y)]
  BY <1>19, <1>20, EndsNamedHolds
<1>23. WithEnds(hdr, y) \in Header /\ WithEnds(hdr, y).nextUid = hdr.nextUid
  BY <1>4, WithEndsHolds
<1>24. /\ m3 \in Plan /\ m3.ok /\ ~ m3.full /\ m3.index = y
       /\ m3.base = WithEnds(hdr, y) /\ m3.todo = m2.todo
       /\ m3.frames = m2.frames
  BY <1>19, <1>20, <1>22, <1>23 DEF Plan
<1> HIDE DEF m3
<1>25. Leads(g, m3, hdr, y)
  BY <1>19, <1>24, LeadsOther
<1>26. Releasing(g, m3, y, X)
  BY <1>19, <1>21, <1>23, <1>24, <1>25 DEF Releasing
<1>27. Releasing(g, m4, y, {})
  <2>1. Releasing(g, m3, y, {offs[i] : i \in 1 .. l})
    BY <1>11, <1>26
  <2> QED
    BY <1>10, <1>14, <1>15, <2>1, ReleaseAllHolds, SMTT(20)
<1> HIDE DEF m4
<1>28. m4.ok
  BY <1>27 DEF Releasing
<1>29. PICK h : /\ Leads(g, m5, h, y)
                /\ Whole(DiskOf(h, m5.frames, y))
                /\ View(DiskOf(h, m5.frames, y)) = g.to
  <2>1. hdr.count >= Len(y)
    BY <1>4, LenProperties
  <2> QED
    BY <1>27, <2>1, CountHolds
<1>30. Taken(r, S, offs, olds) = m5
  <2>1. Taken(r, S, offs, olds)
            = Then(Then(m2, LAMBDA q : ReleaseAll(EndsNamed(q), offs, olds)),
                   LAMBDA q : WriteBaseHeader(CountedAll(q)))
    BY DEF Taken, m2, m1
  <2>2. Then(m2, LAMBDA q : ReleaseAll(EndsNamed(q), offs, olds)) = m4
    BY <1>19 DEF Then, m3, m4
  <2>3. Then(m4, LAMBDA q : WriteBaseHeader(CountedAll(q))) = m5
    BY <1>28 DEF Then
  <2> QED
    BY <2>1, <2>2, <2>3
<1> HIDE DEF m5
<1>31. g = Aim(call, g.to)
  BY <1>3 DEF Removing, Aim
<1>32. Planned(call, Return(m5), g.to)
  <2>1. PICK v : v = g.to /\ g = Aim(call, v)
    BY <1>31
  <2>2. Leads(Aim(call, v), m5, h, y)
    BY <1>29, <2>1
  <2>3. View(DiskOf(h, m5.frames, y)) \in {View(now), v}
    BY <1>29, <2>1
  <2>4. Planned(call, Return(m5), v)
    BY <1>29, <2>2, <2>3, PlannedBy
  <2> QED
    BY <2>1, <2>4
<1> QED
  BY <1>1, <1>3, <1>30, <1>32

\* The area with the messages of a set gone from it.
RemovedIn(a, b) ==
    \E n \in Nat : \E S, kt :
        /\ S \subseteq 1 .. n /\ S # {}
        /\ DOMAIN a.messages = 1 .. n
        /\ InOrder(n, (1 .. n) \ S, kt)
        /\ b = [messages |-> [k \in DOMAIN kt |-> a.messages[kt[k]]],
                nextUid |-> a.nextUid]

LEMMA RemovedView ==
    ASSUME NEW kt, NEW y, NEW S, Leftover(kt, y, S), S # {}, S \subseteq DOMAIN sqi
    PROVE  RemovedIn(View(now), View(DiskOf(hdr, frames, y)))
<1>1. /\ sqi \in Seq(Entry) /\ hdr \in Header /\ hdr.count = Len(sqi)
      /\ now = DiskOf(hdr, frames, sqi) /\ frames \in [1 .. MaxFrame -> Frame]
      /\ y \in Seq(Entry) /\ Len(y) < Len(sqi) /\ kt \in Seq(Nat) /\ Rising(kt)
      /\ ToSet(kt) = DOMAIN sqi \ S /\ DOMAIN y = DOMAIN kt
      /\ \A i \in DOMAIN y : kt[i] \in DOMAIN sqi /\ y[i] = sqi[kt[i]]
  BY DEF Leftover, Remains
<1>2. PICK n \in Nat : n = Len(sqi) /\ DOMAIN sqi = 1 .. n
  BY <1>1, LenProperties
<1>3. InOrder(n, (1 .. n) \ S, kt)
  BY <1>1, <1>2 DEF InOrder
<1>4. View(now) = [messages |-> [i \in DOMAIN sqi |-> frames[sqi[i].offset].msg],
                   nextUid |-> hdr.nextUid]
  BY <1>1, WholeView, ZenonT(30)
<1>5. Loaded(DiskOf(hdr, frames, y)) = y
  <2>1. hdr.count >= Len(y)
    BY <1>1, LenProperties
  <2> QED
    BY <1>1, <2>1, LoadsHolds DEF Loaded, DiskOf
<1>6. View(DiskOf(hdr, frames, y))
        = [messages |-> [i \in DOMAIN y |-> frames[y[i].offset].msg],
           nextUid |-> hdr.nextUid]
  BY <1>5 DEF View, ShownAs, DiskOf
<1>7. DOMAIN View(now).messages = 1 .. n /\ View(now).nextUid = hdr.nextUid
      /\ \A i \in 1 .. n : View(now).messages[i] = frames[sqi[i].offset].msg
  BY <1>2, <1>4
<1>8. [i \in DOMAIN y |-> frames[y[i].offset].msg]
        = [k \in DOMAIN kt |-> View(now).messages[kt[k]]]
  <2>1. \A i \in DOMAIN y : frames[y[i].offset].msg = View(now).messages[kt[i]]
    BY <1>1, <1>2, <1>7
  <2> QED
    BY <1>1, <2>1
<1>9. PICK a, b : a = View(now) /\ b = View(DiskOf(hdr, frames, y))
  OBVIOUS
<1>10. b = [messages |-> [k \in DOMAIN kt |-> a.messages[kt[k]]],
            nextUid |-> a.nextUid]
  BY <1>6, <1>7, <1>8, <1>9
<1>11. S \subseteq 1 .. n /\ DOMAIN a.messages = 1 .. n
  BY <1>2, <1>7, <1>9
<1>12. RemovedIn(a, b)
  BY <1>3, <1>10, <1>11 DEF RemovedIn
<1> QED
  BY <1>9, <1>12

\* removeAll().
LEMMA RemovePlan ==
    ASSUME now \in Disk, Whole(now), NEW p, NEW S, S # {},
           NEW call, call.kind = "remove",
           \A n \in S \cap DOMAIN sqi : sqi[n].uid \in call.named
    PROVE  \E v : /\ Planned(call, PlanRemoveAll(p, S), v)
                  /\ v = View(now) \/ RemovedIn(View(now), v)
<1> DEFINE r == Reload(p)
           v == View(DiskOf(hdr, frames, Without(sqi, S)))
           g == Aim(call, v)
           t == Sorted(sqi, S)
           kt == Sorted(sqi, DOMAIN sqi \ S)
<1>1. Begun(g, r)
  BY ReloadHolds
<1>2. r.ok /\ r.index = sqi /\ r.frames = frames /\ r.base = hdr
  BY <1>1 DEF Begun
<1>3. PlanRemoveAll(p, S) = Return(RemoveRun(r, S))
  <2>1. PlanRemoveAll(p, S) = Return(Then(r, LAMBDA q : RemoveRun(q, S)))
    BY RemoveIs
  <2> HIDE DEF r
  <2> QED
    BY <1>2, <2>1 DEF Then
<1> HIDE DEF r
<1>4. CASE Unreadable(r, S)
  <2>1. RemoveRun(r, S) = Refuse(r)
    BY <1>4 DEF RemoveRun
  <2>2. Planned(call, Return(Refuse(r)), View(now))
    BY NothingPlan DEF r
  <2> QED
    BY <1>3, <2>1, <2>2
<1>5. CASE ~ Unreadable(r, S)
  <2>1. S \subseteq DOMAIN sqi
    BY <1>2, <1>5 DEF Unreadable
  <2>2. Removing(g, r, S, call)
    BY <1>1, <2>1 DEF Removing
  <2>3. RemoveRun(r, S) = Taken(r, S, OffsOf(r, t), OldsOf(r, t))
    BY <1>2, <1>5 DEF RemoveRun
  <2>4. /\ OffsOf(r, t) = [i \in DOMAIN t |-> sqi[t[i]].offset]
        /\ OldsOf(r, t) = [i \in DOMAIN t |-> frames[sqi[t[i]].offset]]
    BY <1>2 DEF OffsOf, OldsOf
  <2> HIDE DEF g, v
  <2>5. Planned(call, Return(Taken(r, S, OffsOf(r, t), OldsOf(r, t))), v)
    <3>1. PICK t1 : t1 = Sorted(sqi, S)
      OBVIOUS
    <3>2. PICK offs : offs = [i \in DOMAIN t1 |-> sqi[t1[i]].offset]
      OBVIOUS
    <3>3. PICK olds : olds = [i \in DOMAIN t1 |-> frames[sqi[t1[i]].offset]]
      OBVIOUS
    <3>4. Planned(call, Return(Taken(r, S, offs, olds)),
                  View(DiskOf(hdr, frames, Without(sqi, S))))
      BY <2>2, <3>1, <3>2, <3>3, TakenHolds
    <3>5. offs = OffsOf(r, t) /\ olds = OldsOf(r, t)
      BY <2>4, <3>1, <3>2, <3>3
    <3> QED
      BY <3>4, <3>5 DEF v
  <2>6. RemovedIn(View(now), v)
    <3>1. Leftover(kt, Without(sqi, S), S)
      BY <2>2, RemovingStands
    <3> QED
      BY <2>1, <3>1, RemovedView DEF v
  <2> QED
    BY <1>3, <2>3, <2>5, <2>6
<1> QED
  BY <1>4, <1>5

(***************************************************************************)
(* The base at every step                                                  *)
(***************************************************************************)

\* The disk takes every write and no process dies in a call.
NoFaults == Faults = {}

\* What a call may make of the area.
Moves(a, b) ==
    \/ b = a
    \/ Grew(a, b)
    \/ ReplacedIn(a, b)
    \/ RemovedIn(a, b)
    \/ MarkedIn(a, b)

\* A call that has this still to do.
Working(call, d, list) ==
    \E g : g.call = call /\ Moves(g.from, g.to) /\ Ready(g, d, list)

\* The inductive invariant.
Sound ==
    /\ scope \in Scopes
    /\ now \in Disk
    /\ Fine(now)
    /\ lock = NoProc => todo = <<>> /\ Whole(now)
    /\ lock # NoProc => Working(op, now, todo)

\* The area as MessageBase has it.
ShownOf(d, list) ==
    IF list = <<>> THEN View(d) ELSE ViewAt(d, Head(list).write)

\* A call that is about to begin.
Starting(call, list) ==
    \E g : /\ g.call = call /\ g.from = View(now) /\ Moves(g.from, g.to)
           /\ Ready(g, now, list)

LEMMA PlanStarts ==
    ASSUME NEW call, NEW plan, NEW v, Planned(call, plan, v), Moves(View(now), v)
    PROVE  Starting(call, plan.todo)
<1>1. PICK g : g = Aim(call, v)
  OBVIOUS
<1>2. g.call = call /\ g.from = View(now) /\ g.to = v
  BY <1>1 DEF Aim
<1>3. Ready(g, now, plan.todo)
  BY <1>1 DEF Planned
<1> QED
  BY <1>2, <1>3 DEF Starting

\* Of what is still to do, what the area looks like.
LEMMA ReadyShows ==
    ASSUME NEW g, NEW d, NEW list, Ready(g, d, list)
    PROVE  /\ list # <<>>
           /\ ShownOf(d, list) \in {g.from, g.to}
           /\ View(d) = g.to => ShownOf(d, list) = g.to
<1>1. list # <<>>
  BY ReadyShift
<1>2. ShownOf(d, list) = ViewAt(d, Head(list).write)
  BY <1>1 DEF ShownOf
<1>3. CASE Head(list).write.kind = "return" /\ View(d) \in {g.from, g.to}
  <2>1. ViewAt(d, Head(list).write) = View(d)
    BY <1>3 DEF ViewAt
  <2> QED
    BY <1>1, <1>2, <1>3, <2>1
<1>4. CASE Good(g, d, Head(list), After(Head(list).write, d))
  <2>1. PICK w : w = Head(list).write
    OBVIOUS
  <2>2. /\ ViewAt(d, w) \in {g.from, g.to}
        /\ w.kind = "cut" => ViewAt(d, w) \in {g.to, View(d)}
    BY <1>4, <2>1 DEF Good
  <2>3. w.kind # "cut" => ViewAt(d, w) = View(d)
    BY DEF ViewAt
  <2> QED
    BY <1>1, <1>2, <2>1, <2>2, <2>3
<1>5. \/ Head(list).write.kind = "return" /\ View(d) \in {g.from, g.to}
      \/ Good(g, d, Head(list), After(Head(list).write, d))
  BY ReadyShift
<1> QED
  BY <1>3, <1>4, <1>5

LEMMA WholeFine ==
    ASSUME NEW d \in Disk, Whole(d)
    PROVE  Fine(d) /\ Loaded(d) = d.sqi
<1>1. PICK c : Arranged(d.hdr, d.frames, d.sqi, c, {})
  BY DEF Whole
<1>2. /\ d.hdr \in Header /\ d.sqi \in Seq(Entry) /\ c \in Seq(Nat)
      /\ d.hdr.endFrame \in 1 .. MaxFrame + 1 /\ d.hdr.count = Len(d.sqi)
      /\ Parted(d.hdr.endFrame, Offs(d.sqi), c, {})
      /\ Chain(d.frames, Offs(d.sqi), "normal")
      /\ Lettered(d.frames, d.sqi)
  BY <1>1 DEF Arranged, Whole
<1>3. Loaded(d) = d.sqi
  <2>1. d.hdr.count >= Len(d.sqi)
    BY <1>2, LenProperties
  <2> QED
    BY <1>2, <2>1, LoadsHolds DEF Loaded
<1>4. /\ Offs(d.sqi) \in Seq(Nat) /\ DOMAIN Offs(d.sqi) = DOMAIN d.sqi
      /\ \A i \in DOMAIN d.sqi : Offs(d.sqi)[i] = d.sqi[i].offset
  BY <1>2, OffsHolds
<1>5. \A i \in DOMAIN d.sqi : d.sqi[i].offset \in 1 .. MaxFrame
  <2>1. \A o \in ToSet(Offs(d.sqi)) \cup ToSet(c) \cup {} :
                o \in 1 .. MaxFrame /\ o < d.hdr.endFrame /\ o # 0
    BY <1>2, <1>4, InChain
  <2> QED
    BY <1>4, <2>1 DEF ToSet
<1>6. \A i \in DOMAIN d.sqi : d.frames[d.sqi[i].offset].type = "normal"
  BY <1>2, <1>4 DEF Chain
<1> QED
  BY <1>2, <1>3, <1>5, <1>6 DEF Fine, InUse, Lettered

\* An area that has never been written to.
LEMMA EmptyIsSound == Init => Sound
<1> SUFFICES ASSUME Init PROVE Sound
  OBVIOUS
<1> USE DEF Init
<1>1. MaxFrame \in Nat /\ MaxFrame # 0 /\ MaxRoom \in Nat
  BY BoundsAssumption, RoomAssumption
<1>2. hdr \in Header
  BY DEF EmptyHeader, Header
<1>3. NoFrame \in Frame
  BY <1>1 DEF NoFrame, Frame
<1>4. frames \in [1 .. MaxFrame -> Frame]
  BY <1>3
<1>5. sqi \in Seq(Entry) /\ Len(sqi) = 0 /\ DOMAIN sqi = {}
  OBVIOUS
<1>6. now \in Disk
  BY <1>2, <1>4, <1>5 DEF now, Disk
<1>7. Offs(sqi) = <<>>
  BY <1>5 DEF Offs
<1>8. /\ hdr.count = 0 /\ hdr.nextUid = 1 /\ hdr.firstFrame = 0
      /\ hdr.lastFrame = 0 /\ hdr.firstFree = 0 /\ hdr.lastFree = 0
      /\ hdr.endFrame = 1
  BY DEF EmptyHeader
<1>9. ToSet(<<>>) = {} /\ OneToOne(<<>>) /\ <<>> \in Seq(Nat)
  BY DEF ToSet, OneToOne
<1>10. Parted(hdr.endFrame, Offs(sqi), <<>>, {})
  BY <1>7, <1>8, <1>9 DEF Parted
<1>11. Chain(frames, <<>>, "normal") /\ Chain(frames, <<>>, "free")
  BY DEF Chain
<1>12. Bounds(<<>>, 0, 0)
  BY DEF Bounds, At
<1>13. Lettered(frames, sqi)
  BY <1>5 DEF Lettered
<1>14. hdr.endFrame \in 1 .. MaxFrame + 1 /\ Len(sqi) < hdr.nextUid
  BY <1>1, <1>5, <1>8
<1> HIDE DEF Init
<1>15. Arranged(hdr, frames, sqi, <<>>, {})
  BY <1>2, <1>4, <1>5, <1>7, <1>8, <1>9, <1>10, <1>11, <1>12, <1>13, <1>14
     DEF Arranged
<1>16. Whole(now)
  BY <1>5, <1>8, <1>15 DEF Whole, now
<1>17. Fine(now)
  BY <1>6, <1>16, WholeFine
<1> QED
  BY <1>6, <1>16, <1>17 DEF Sound, Init

(***************************************************************************)
(* Each step                                                               *)
(***************************************************************************)
Still == now' = now /\ todo' = todo /\ lock' = lock /\ op' = op /\ scope' = scope

LEMMA StillIsSound ==
    ASSUME Sound, Still
    PROVE  Sound'
BY DEF Sound, Still

\* What a step does to the disk and to the area.
Stepped ==
    /\ now' = now \/ Kept(op, now, now')
    /\ Moves(ShownOf(now, todo), ShownOf(now, todo)')

LEMMA StillSteps ==
    ASSUME Still
    PROVE  Stepped
BY DEF Still, Stepped, Moves

LEMMA BeginStarts ==
    ASSUME Sound, scope' = scope, NEW p \in Proc, NEW plan, NEW call,
           Begin(p, plan, call), Starting(call, plan.todo)
    PROVE  Sound' /\ Stepped
<1>1. /\ now' = now /\ lock = NoProc /\ lock' = p /\ p # NoProc
      /\ todo' = plan.todo /\ op' = call
  BY NoProcAssumption DEF Begin, disk, now
<1>2. PICK g : /\ g.call = call /\ g.from = View(now) /\ Moves(g.from, g.to)
               /\ Ready(g, now, plan.todo)
  BY DEF Starting
<1>3. Working(op', now', todo')
  BY <1>1, <1>2 DEF Working
<1>4. Sound'
  BY <1>1, <1>3 DEF Sound
<1>5. ShownOf(now, todo) = g.from
  <2>1. todo = <<>>
    BY <1>1 DEF Sound
  <2> QED
    BY <1>2, <2>1 DEF ShownOf
<1>6. ShownOf(now, plan.todo) \in {g.from, g.to}
  BY <1>2, ReadyShows
<1>7. ShownOf(now, todo)' = ShownOf(now, plan.todo)
  BY <1>1
<1> QED
  BY <1>1, <1>2, <1>4, <1>5, <1>6, <1>7 DEF Stepped, Moves

LEMMA SoundLoads ==
    ASSUME Sound, lock = NoProc
    PROVE  now \in Disk /\ Whole(now) /\ LoadIndex(hdr) = sqi /\ scope \in Scopes
<1>1. now \in Disk /\ Whole(now)
  BY DEF Sound
<1> QED
  BY <1>1, ReloadHolds DEF Sound

LEMMA WriteAllSteps ==
    ASSUME Sound, scope' = scope, NEW p \in Proc, WriteAll(p)
    PROVE  Sound' /\ Stepped
<1>1. PICK drafts \in UNION {[1 .. k -> Drafts] : k \in 1 .. MaxSet} :
       \E call :
        /\ Begin(p, PlanWriteAll(p, drafts), call)
        /\ call.kind = "write" /\ call.size = Len(drafts)
  <2>1. PICK drafts \in UNION {[1 .. k -> Drafts] : k \in 1 .. MaxSet} :
          Begin(p, PlanWriteAll(p, drafts),
                [NoOp EXCEPT !.kind = "write",
                             !.from = Len(LoadIndex(hdr)) + 1,
                             !.size = Len(drafts)])
    BY DEF WriteAll
  <2>2. PICK call : call = [NoOp EXCEPT !.kind = "write",
                                        !.from = Len(LoadIndex(hdr)) + 1,
                                        !.size = Len(drafts)]
    OBVIOUS
  <2>3. call.kind = "write" /\ call.size = Len(drafts)
    BY <2>2 DEF NoOp
  <2> QED
    BY <2>1, <2>2, <2>3
<1>0. PICK call :
        /\ Begin(p, PlanWriteAll(p, drafts), call)
        /\ call.kind = "write" /\ call.size = Len(drafts)
  BY <1>1
<1>2. drafts \in Seq(Drafts) /\ drafts # <<>>
  <2>1. PICK k \in 1 .. MaxSet : drafts \in [1 .. k -> Drafts]
    OBVIOUS
  <2>2. k \in Nat /\ k # 0
    BY BoundsAssumption
  <2>3. drafts \in Seq(Drafts) /\ Len(drafts) = k
    BY <2>1, <2>2
  <2> QED
    BY <2>2, <2>3
<1>3. lock = NoProc /\ ~ PlanWriteAll(p, drafts).full
  BY <1>0 DEF Begin
<1>4. now \in Disk /\ Whole(now) /\ scope \in Scopes
  BY <1>3, SoundLoads
<1>5. PICK v : /\ Planned(call, PlanWriteAll(p, drafts), v)
               /\ Grew(View(now), v)
  BY <1>0, <1>2, <1>3, <1>4, WritePlan
<1>6. Starting(call, PlanWriteAll(p, drafts).todo)
  BY <1>5, PlanStarts DEF Moves
<1> QED
  BY <1>0, <1>6, BeginStarts

LEMMA NumbersHold ==
    ASSUME NEW kind, NEW S, LoadIndex(hdr) = sqi
    PROVE  /\ Numbers(kind, S).kind = kind
           /\ \A n \in S \cap DOMAIN sqi : sqi[n].uid \in Numbers(kind, S).named
<1>1. Named(S) = {sqi[n].uid : n \in S \cap DOMAIN sqi}
  BY DEF Named
<1>2. Numbers(kind, S).kind = kind /\ Numbers(kind, S).named = Named(S)
  BY DEF Numbers, NoOp
<1> QED
  BY <1>1, <1>2

LEMMA ReplaceOneSteps ==
    ASSUME Sound, scope' = scope, NEW p \in Proc, ReplaceOne(p)
    PROVE  Sound' /\ Stepped
<1>1. PICK n \in DOMAIN view[p].index, draft \in Drafts :
            Begin(p, PlanReplace(p, n, draft), Numbers("replace", {n}))
  BY DEF ReplaceOne
<1>2. PICK call : call = Numbers("replace", {n})
  OBVIOUS
<1>3. lock = NoProc /\ ~ PlanReplace(p, n, draft).full
  BY <1>1 DEF Begin
<1>4. now \in Disk /\ Whole(now) /\ scope \in Scopes /\ LoadIndex(hdr) = sqi
  BY <1>3, SoundLoads
<1>5. call.kind = "replace" /\ (n \in DOMAIN sqi => sqi[n].uid \in call.named)
  BY <1>2, <1>4, NumbersHold
<1>6. PICK v : /\ Planned(call, PlanReplace(p, n, draft), v)
               /\ v = View(now) \/ ReplacedIn(View(now), v)
  BY <1>3, <1>4, <1>5, ReplacePlan
<1>7. Starting(call, PlanReplace(p, n, draft).todo)
  BY <1>6, PlanStarts DEF Moves
<1> QED
  BY <1>1, <1>2, <1>7, BeginStarts

LEMMA RemoveAllSteps ==
    ASSUME Sound, scope' = scope, NEW p \in Proc, RemoveAll(p)
    PROVE  Sound' /\ Stepped
<1>1. PICK S : S # {} /\ Begin(p, PlanRemoveAll(p, S), Numbers("remove", S))
  BY DEF RemoveAll
<1>2. PICK call : call = Numbers("remove", S)
  OBVIOUS
<1>3. lock = NoProc
  BY <1>1 DEF Begin
<1>4. now \in Disk /\ Whole(now) /\ LoadIndex(hdr) = sqi
  BY <1>3, SoundLoads
<1>5. /\ call.kind = "remove"
      /\ \A n \in S \cap DOMAIN sqi : sqi[n].uid \in call.named
  BY <1>2, <1>4, NumbersHold
<1>6. PICK v : /\ Planned(call, PlanRemoveAll(p, S), v)
               /\ v = View(now) \/ RemovedIn(View(now), v)
  BY <1>1, <1>4, <1>5, RemovePlan
<1>7. Starting(call, PlanRemoveAll(p, S).todo)
  BY <1>6, PlanStarts DEF Moves
<1> QED
  BY <1>1, <1>2, <1>7, BeginStarts

LEMMA SetAttributesSteps ==
    ASSUME Sound, scope' = scope, NEW p \in Proc, SetAttributes(p)
    PROVE  Sound' /\ Stepped
<1>1. PICK n \in DOMAIN view[p].index, bit \in {"seen", "rcvd"} :
            Begin(p, PlanMark(p, n, bit), Numbers("mark", {n}))
  BY DEF SetAttributes
<1>2. PICK call : call = Numbers("mark", {n})
  OBVIOUS
<1>3. lock = NoProc
  BY <1>1 DEF Begin
<1>4. now \in Disk /\ Whole(now)
  BY <1>3, SoundLoads
<1>5. PICK v : /\ Planned(call, PlanMark(p, n, bit), v)
               /\ v = View(now) \/ MarkedIn(View(now), v)
  BY <1>4, MarkPlan
<1>6. Starting(call, PlanMark(p, n, bit).todo)
  BY <1>5, PlanStarts DEF Moves
<1> QED
  BY <1>1, <1>2, <1>6, BeginStarts

LEMMA PutSteps ==
    ASSUME Sound, scope' = scope, NEW p \in Proc, Put(p)
    PROVE  Sound' /\ Stepped
<1>1. PICK w : w = Head(todo).write
  OBVIOUS
<1>2. /\ lock = p /\ p # NoProc /\ now' = After(w, now) /\ todo' = Tail(todo)
      /\ lock' = LockAfter(p, w)
      /\ op' = IF w.kind = "return" THEN NoOp ELSE op
  BY <1>1, NoProcAssumption DEF Put, now, After
<1>3. PICK g : /\ g.call = op /\ Moves(g.from, g.to) /\ Ready(g, now, todo)
  BY <1>2 DEF Sound, Working
<1>4. /\ todo # <<>> /\ ShownOf(now, todo) \in {g.from, g.to}
      /\ ShownOf(now, todo) = ViewAt(now, w)
  BY <1>1, <1>3, ReadyShows DEF ShownOf
<1>5. CASE w.kind = "return" /\ Tail(todo) = <<>> /\ Whole(now)
  <2>1. now' = now
    BY <1>2, <1>5 DEF After, now, HeaderAfter, FramesAfter, IndexAfter
  <2>2. lock' = NoProc /\ todo' = <<>>
    BY <1>2, <1>5 DEF LockAfter
  <2>3. Sound'
    BY <1>5, <2>1, <2>2 DEF Sound
  <2>4. ShownOf(now, todo)' = View(now)
    BY <2>1, <2>2 DEF ShownOf
  <2>5. ShownOf(now, todo) = View(now)
    BY <1>4, <1>5 DEF ViewAt
  <2> QED
    BY <2>1, <2>3, <2>4, <2>5 DEF Stepped, Moves
<1>6. CASE /\ Good(g, now, Head(todo), After(w, now))
           /\ Ready(g, After(w, now), Tail(todo))
  <2>1. /\ w.kind # "return" /\ now' \in Disk /\ Fine(now')
        /\ Kept(op, now, now')
        /\ ViewAt(now, w) = g.to => View(now') = g.to
    BY <1>1, <1>2, <1>3, <1>6 DEF Good
  <2>2. lock' = p /\ op' = op
    BY <1>2, <2>1 DEF LockAfter
  <2>3. Ready(g, now', todo')
    BY <1>2, <1>6
  <2>4. Working(op', now', todo')
    BY <1>3, <2>2, <2>3 DEF Working
  <2>5. Sound'
    BY <1>2, <2>1, <2>2, <2>4 DEF Sound
  <2>6. /\ ShownOf(now', todo') \in {g.from, g.to}
        /\ View(now') = g.to => ShownOf(now', todo') = g.to
    BY <2>3, ReadyShows
  <2>7. ShownOf(now, todo)' = ShownOf(now', todo')
    OBVIOUS
  <2>8. Moves(ShownOf(now, todo), ShownOf(now, todo)')
    <3>1. CASE ShownOf(now, todo) = g.to
      <4>1. ShownOf(now, todo)' = ShownOf(now, todo)
        BY <1>4, <2>1, <2>6, <2>7, <3>1
      <4> QED
        BY <4>1 DEF Moves
    <3>2. CASE ShownOf(now, todo) = g.from
      <4>1. CASE ShownOf(now, todo)' = g.from
        BY <3>2, <4>1 DEF Moves
      <4>2. CASE ShownOf(now, todo)' = g.to
        BY <1>3, <3>2, <4>2
      <4> QED
        BY <2>6, <2>7, <4>1, <4>2
    <3> QED
      BY <1>4, <3>1, <3>2
  <2> QED
    BY <2>1, <2>5, <2>8 DEF Stepped
<1>7. \/ w.kind = "return" /\ Tail(todo) = <<>> /\ Whole(now)
      \/ /\ Good(g, now, Head(todo), After(w, now))
         /\ Ready(g, After(w, now), Tail(todo))
  BY <1>1, <1>3, ReadyShift
<1> QED
  BY <1>5, <1>6, <1>7

LEMMA StepIsSound ==
    ASSUME NoFaults, Sound, [Next]_vars
    PROVE  Sound' /\ Stepped
<1>1. CASE UNCHANGED vars
  <2>1. Still
    BY <1>1 DEF vars, disk, Still, now
  <2> QED
    BY <2>1, StillIsSound, StillSteps
<1>2. CASE Next
  <2>1. PICK p \in scope.procs :
            \/ ReadHeader(p) \/ ReadIndex(p) \/ Close(p)
            \/ WriteAll(p) \/ ReplaceOne(p) \/ RemoveAll(p) \/ SetAttributes(p)
            \/ Put(p) \/ IoError(p) \/ Crash(p)
    BY <1>2 DEF Next
  <2>2. scope' = scope
    BY <1>2 DEF Next
  <2>3. p \in Proc
    BY BoundsAssumption DEF Sound
  <2>4. CASE ReadHeader(p) \/ ReadIndex(p) \/ Close(p)
    <3>1. Still
      BY <2>2, <2>4 DEF ReadHeader, ReadIndex, Close, Still, now, disk
    <3> QED
      BY <3>1, StillIsSound, StillSteps
  <2>5. ~ IoError(p) /\ ~ Crash(p)
    BY DEF NoFaults, IoError, Crash
  <2> QED
    BY <2>1, <2>2, <2>3, <2>4, <2>5, WriteAllSteps, ReplaceOneSteps,
       RemoveAllSteps, SetAttributesSteps, PutSteps
<1> QED
  BY <1>1, <1>2

(***************************************************************************)
(* The theorems                                                            *)
(***************************************************************************)

LEMMA AlwaysSound == ASSUME NoFaults PROVE Spec => []Sound
<1>1. Sound /\ [Next]_vars => Sound'
  BY StepIsSound
<1> QED
  BY <1>1, EmptyIsSound, PTL DEF Spec

LEMMA SoundAgrees == Sound => FilesAgree
<1> SUFFICES ASSUME Sound, lock = NoProc
             PROVE  LET Off(i) == IF i \in DOMAIN sqi THEN sqi[i].offset ELSE 0
                        used == {Off(i) : i \in DOMAIN sqi}
                        free == ScanFreeChain(Holding(hdr, sqi), kWholeChain)
                    IN  /\ hdr.count = Len(sqi)
                        /\ hdr.firstFrame = Off(1)
                        /\ hdr.lastFrame = Off(Len(sqi))
                        /\ \A i \in DOMAIN sqi :
                              LET f == frames[sqi[i].offset] IN
                              /\ f.type = "normal"
                              /\ f.prev = Off(i - 1)
                              /\ f.next = Off(i + 1)
                              /\ f.msg.uid = sqi[i].uid
                              /\ f.msg.rcvd = sqi[i].rcvd
                        /\ free.ok
                        /\ used \cap ToSet(free.pool) = {}
                        /\ used \cup ToSet(free.pool) = 1 .. hdr.endFrame - 1
                        /\ Len(sqi) + Len(free.pool) = hdr.endFrame - 1
  BY DEF FilesAgree
<1> DEFINE Off(i) == IF i \in DOMAIN sqi THEN sqi[i].offset ELSE 0
           used == {Off(i) : i \in DOMAIN sqi}
           m == Holding(hdr, sqi)
<1>1. now \in Disk /\ Whole(now)
  BY DEF Sound
<1>2. PICK c : Arranged(hdr, frames, sqi, c, {})
  BY <1>1 DEF Whole, now
<1>3. /\ hdr \in Header /\ sqi \in Seq(Entry) /\ c \in Seq(Nat)
      /\ hdr.endFrame \in 1 .. MaxFrame + 1 /\ frames \in [1 .. MaxFrame -> Frame]
      /\ Parted(hdr.endFrame, Offs(sqi), c, {})
      /\ Chain(frames, Offs(sqi), "normal")
      /\ Bounds(Offs(sqi), hdr.firstFrame, hdr.lastFrame)
      /\ Lettered(frames, sqi)
  BY <1>2 DEF Arranged
<1>4. hdr.count = Len(sqi) /\ Sane(hdr)
  BY <1>1, ReloadHolds DEF Whole, now
<1>5. /\ Offs(sqi) \in Seq(Nat) /\ Len(Offs(sqi)) = Len(sqi)
      /\ DOMAIN Offs(sqi) = DOMAIN sqi
      /\ \A i \in DOMAIN sqi : Offs(sqi)[i] = sqi[i].offset
      /\ ToSet(Offs(sqi)) = {sqi[i].offset : i \in DOMAIN sqi}
  BY <1>3, OffsHolds
<1>6. \A i : Off(i) = At(Offs(sqi), i)
  BY <1>5 DEF At
<1>7. hdr.firstFrame = Off(1) /\ hdr.lastFrame = Off(Len(sqi))
  BY <1>3, <1>5, <1>6 DEF Bounds
<1>8. \A i \in DOMAIN sqi : /\ frames[sqi[i].offset].type = "normal"
                            /\ frames[sqi[i].offset].prev = Off(i - 1)
                            /\ frames[sqi[i].offset].next = Off(i + 1)
                            /\ frames[sqi[i].offset].msg.uid = sqi[i].uid
                            /\ frames[sqi[i].offset].msg.rcvd = sqi[i].rcvd
  BY <1>3, <1>5, <1>6, ZenonT(30) DEF Chain, Lettered, Housed
<1>9. used = ToSet(Offs(sqi))
  BY <1>5
<1>10. m \in Plan /\ m.base = hdr /\ m.frames = frames /\ m.index = sqi /\ m.ok
  BY <1>3, <1>4, RoomAssumption DEF Holding, Plan
<1> HIDE DEF m, Off, used
<1>11. ScanFreeChain(m, kWholeChain) = [m EXCEPT !.pool = c, !.complete = TRUE]
  <2>1. kWholeChain \in Nat /\ kWholeChain > MaxRoom
    BY RoomAssumption DEF kWholeChain
  <2>2. Arranged(m.base, m.frames, m.index, c, {})
    BY <1>2, <1>10
  <2> QED
    BY <1>10, <2>1, <2>2, ScanHolds
<1>12. /\ ScanFreeChain(m, kWholeChain).ok
       /\ ScanFreeChain(m, kWholeChain).pool = c
  BY <1>10, <1>11 DEF Plan
<1>13. /\ used \cap ToSet(c) = {}
       /\ used \cup ToSet(c) = 1 .. hdr.endFrame - 1
  BY <1>3, <1>9 DEF Parted
<1>14. Len(sqi) + Len(c) = hdr.endFrame - 1
  <2>1. Len(Offs(sqi)) + Len(c) = hdr.endFrame - 1
    <3>1. PICK e \in 1 .. MaxFrame + 1, u \in Seq(Nat) :
                e = hdr.endFrame /\ u = Offs(sqi)
      BY <1>3, <1>5
    <3>2. Parted(e, u, c, {})
      BY <1>3, <3>1
    <3>3. Len(u) + Len(c) = e - 1
      BY <1>3, <3>2, ChainFits
    <3> QED
      BY <3>1, <3>3
  <2> QED
    BY <1>5, <2>1
<1> QED
  BY <1>4, <1>7, <1>8, <1>12, <1>13, <1>14 DEF m, Off, used

LEMMA FreshIsLoaded == Fresh = Loaded(now)
BY DEF Fresh, Loaded, Loads, LoadIndex, now

LEMMA SoundFits == Sound => MessagesFit
<1> SUFFICES ASSUME Sound, NEW i \in DOMAIN Loaded(now)
             PROVE  Room[frames[Loaded(now)[i].offset].msg.text]
                        <= frames[Loaded(now)[i].offset].room
  BY FreshIsLoaded DEF MessagesFit
<1>1. Housed(now.frames, Loaded(now)[i])
  BY DEF Sound, Fine
<1> QED
  BY <1>1 DEF Housed, now

LEMMA SoundInUse == Sound => IndexNeverIntoFree
<1> SUFFICES ASSUME Sound PROVE IndexNeverIntoFree
  OBVIOUS
<1>1. InUse(now.frames, now.sqi)
  BY DEF Sound, Fine
<1> QED
  BY <1>1 DEF InUse, IndexNeverIntoFree, now

\* Between two calls the header, the index, the chains and the messages of a
\* base agree.
THEOREM FilesAgreeAlways == ASSUME NoFaults PROVE Spec => []FilesAgree
BY AlwaysSound, SoundAgrees, PTL

\* No message ever runs past the room its frame owns.
THEOREM MessagesAlwaysFit == ASSUME NoFaults PROVE Spec => []MessagesFit
BY AlwaysSound, SoundFits, PTL

\* The index never points into free space, whichever writes are still to come.
THEOREM IndexNeverPointsIntoFree ==
    ASSUME NoFaults PROVE Spec => []IndexNeverIntoFree
BY AlwaysSound, SoundInUse, PTL

ArrivesStep ==
    Len(Fresh') > Len(Fresh) => op.kind = "write" /\ Len(Fresh') = Len(Fresh) + op.size

LEMMA StepArrives ==
    ASSUME NoFaults, Sound, [Next]_vars
    PROVE  ArrivesStep
<1>1. Sound' /\ (now' = now \/ Kept(op, now, now'))
  BY StepIsSound DEF Stepped
<1>2. Fresh = Loaded(now) /\ Fresh' = Loaded(now')
  <2>1. Fresh' = Loaded(now')
    BY DEF Fresh, Loaded, Loads, LoadIndex, now
  <2> QED
    BY <2>1, FreshIsLoaded
<1>3. CASE now' = now
  <2>1. Len(Fresh) \in Nat
    <3>1. now \in Disk
      BY DEF Sound
    <3>2. now.hdr \in Header /\ now.sqi \in Seq(Entry)
      BY <3>1 DEF Disk
    <3>3. Loaded(now) \in Seq(Entry)
      BY <3>2, LoadsHolds DEF Loaded
    <3> QED
      BY <1>2, <3>3, LenProperties
  <2> QED
    BY <1>2, <1>3, <2>1 DEF ArrivesStep
<1>4. CASE Kept(op, now, now')
  BY <1>2, <1>4 DEF Kept, ArrivesStep
<1> QED
  BY <1>1, <1>3, <1>4

\* An area grows by a whole set at once: a process that opens it finds all of
\* the set or none.
THEOREM SetsArriveWhole == ASSUME NoFaults PROVE Spec => SetArrivesWhole
<1>1. Sound /\ [Next]_vars => ArrivesStep
  BY StepArrives
<1>2. Sound /\ [Next]_vars
        => [Len(Fresh') > Len(Fresh) =>
                op.kind = "write" /\ Len(Fresh') = Len(Fresh) + op.size]_vars
  BY <1>1 DEF ArrivesStep
<1> QED
  BY <1>2, AlwaysSound, PTL DEF Spec, SetArrivesWhole

NamedStep ==
    \A uid \in {e.uid : e \in ToSet(Fresh)} :
         \A m \in Found(uid) :
            \/ uid \in op.named /\ op.kind = "remove"
            \/ \E n \in Found(uid)' :
                    /\ n.uid = uid
                    /\ n.text = m.text \/ (uid \in op.named
                                            /\ op.kind = "replace")

\* The messages a process would read for a UID on a disk.
FoundIn(d, uid) == {LetterOf(d, i) : i \in {j \in DOMAIN Loaded(d) :
                                                Loaded(d)[j].uid = uid}}

LEMMA FoundIs ==
    /\ \A uid : Found(uid) = FoundIn(now, uid)
    /\ \A uid : Found(uid)' = FoundIn(now', uid)
BY DEF Found, FoundIn, LetterOf, Fresh, Loaded, Loads, LoadIndex, now

LEMMA StepNames ==
    ASSUME NoFaults, Sound, [Next]_vars
    PROVE  NamedStep
<1>1. Sound' /\ (now' = now \/ Kept(op, now, now'))
  BY StepIsSound DEF Stepped
<1>2. \A j \in DOMAIN Loaded(now') :
            LetterOf(now', j).uid = Loaded(now')[j].uid
  <2>1. Fine(now')
    BY <1>1 DEF Sound
  <2> QED
    BY <2>1 DEF Fine, Housed, LetterOf
<1>3. SUFFICES ASSUME NEW uid, NEW i \in DOMAIN Loaded(now),
                      Loaded(now)[i].uid = uid
               PROVE  \/ uid \in op.named /\ op.kind = "remove"
                      \/ \E n \in FoundIn(now', uid) :
                            /\ n.uid = uid
                            /\ \/ n.text = LetterOf(now, i).text
                               \/ uid \in op.named /\ op.kind = "replace"
  BY FoundIs DEF NamedStep, FoundIn
<1>4. \/ uid \in op.named /\ op.kind = "remove"
      \/ \E j \in DOMAIN Loaded(now') :
            /\ Loaded(now')[j].uid = uid
            /\ \/ LetterOf(now', j).text = LetterOf(now, i).text
               \/ uid \in op.named /\ op.kind = "replace"
  <2>1. CASE now' = now
    BY <1>3, <2>1
  <2>2. CASE Kept(op, now, now')
    BY <1>3, <2>2 DEF Kept
  <2> QED
    BY <1>1, <2>1, <2>2
<1> QED
  BY <1>2, <1>4 DEF FoundIn

\* A message leaves the area only by a call that names it, and what it says
\* changes only by a call that replaces it.
THEOREM OnlyTheNamedChange == ASSUME NoFaults PROVE Spec => OnlyWhatIsNamed
<1>1. Sound /\ [Next]_vars => NamedStep
  BY StepNames
<1>2. Sound /\ [Next]_vars
        => [\A uid \in {e.uid : e \in ToSet(Fresh)} :
             \A m \in Found(uid) :
                \/ uid \in op.named /\ op.kind = "remove"
                \/ \E n \in Found(uid)' :
                        /\ n.uid = uid
                        /\ n.text = m.text \/ (uid \in op.named
                                                /\ op.kind = "replace")]_vars
  BY <1>1 DEF NamedStep
<1> QED
  BY <1>2, AlwaysSound, PTL DEF Spec, OnlyWhatIsNamed

(***************************************************************************)
(* The message base it implements                                          *)
(***************************************************************************)

\* What removeAll() leaves, as MessageBase counts it.
LeftBefore(K, n) == Cardinality({i \in K : i < n})
PlaceIn(K, k) == CHOOSE n \in K : LeftBefore(K, n) = k - 1

LEMMA RisingCounts ==
    ASSUME NEW n \in Nat, NEW K, NEW t, InOrder(n, K, t), NEW k \in 1 .. Len(t)
    PROVE  LeftBefore(K, t[k]) = k - 1
<1>1. PICK l \in Nat : l = Len(t) /\ DOMAIN t = 1 .. l
  BY OrderHolds
<1>2. /\ \A i \in 1 .. l : t[i] \in K /\ t[i] \in 1 .. n
      /\ \A z \in K : \E i \in 1 .. l : t[i] = z
      /\ \A i, j \in 1 .. l : i < j <=> t[i] < t[j]
  BY <1>1, OrderHolds, SMTT(20)
<1> DEFINE T == {i \in K : i < t[k]}
           f == [i \in 1 .. k - 1 |-> t[i]]
<1>3. k \in 1 .. l /\ k - 1 \in Nat
  BY <1>1
<1>4. \A i \in 1 .. k - 1 : i \in 1 .. l /\ i < k
  BY <1>3
<1>5. f \in [1 .. k - 1 -> T]
  BY <1>2, <1>3, <1>4
<1>6. \A i, j \in 1 .. k - 1 : f[i] = f[j] => i = j
  <2>1. SUFFICES ASSUME NEW i \in 1 .. k - 1, NEW j \in 1 .. k - 1, f[i] = f[j]
                 PROVE  i = j
    OBVIOUS
  <2>2. t[i] = t[j] /\ t[i] \in Nat
    BY <1>2, <1>4, <2>1
  <2>3. ~ i < j /\ ~ j < i
    BY <1>2, <1>4, <2>2, SMTT(20)
  <2> QED
    BY <2>3
<1>7. \A z \in T : \E i \in 1 .. k - 1 : f[i] = z
  <2>1. SUFFICES ASSUME NEW z \in T PROVE \E i \in 1 .. k - 1 : f[i] = z
    OBVIOUS
  <2>2. PICK i \in 1 .. l : t[i] = z
    BY <1>2
  <2>3. i < k
    BY <1>2, <1>3, <2>2
  <2>4. i \in 1 .. k - 1
    BY <1>3, <2>3
  <2> QED
    BY <2>2, <2>4
<1>8. IsFiniteSet(1 .. k - 1) /\ Cardinality(1 .. k - 1) = k - 1
  <2>1. PICK j \in Nat : j = k - 1
    BY <1>3
  <2>2. IsFiniteSet(1 .. j) /\ Cardinality(1 .. j) = j
    BY FS_Interval
  <2> QED
    BY <2>1, <2>2
<1>9. f \in Bijection(1 .. k - 1, T)
  <2> HIDE DEF f, T
  <2> QED
    <3>1. IsInjective(f)
      BY <1>5, <1>6 DEF IsInjective
    <3>2. f \in Surjection(1 .. k - 1, T)
      BY <1>5, <1>7 DEF Surjection
    <3> QED
      BY <1>5, <3>1, <3>2 DEF Bijection, Injection
<1>10. ExistsBijection(1 .. k - 1, T)
  BY <1>9 DEF ExistsBijection
<1> HIDE DEF T
<1>11. Cardinality(T) = k - 1
  BY <1>8, <1>10, FS_Bijection
<1> QED
  BY <1>11 DEF T, LeftBefore

LEMMA OrderCounts ==
    ASSUME NEW n \in Nat, NEW K, NEW t, InOrder(n, K, t)
    PROVE  /\ Cardinality(K) = Len(t)
           /\ \A k \in 1 .. Len(t) : PlaceIn(K, k) = t[k]
<1>1. PICK l \in Nat : l = Len(t) /\ DOMAIN t = 1 .. l
  BY OrderHolds
<1>2. /\ \A i \in 1 .. l : t[i] \in K /\ t[i] \in 1 .. n
      /\ \A z \in K : \E i \in 1 .. l : t[i] = z
      /\ \A i, j \in 1 .. l : i < j <=> t[i] < t[j]
  BY <1>1, OrderHolds
<1>3. ASSUME NEW k \in 1 .. l PROVE PlaceIn(K, k) = t[k]
  <2>1. t[k] \in K /\ LeftBefore(K, t[k]) = k - 1
    BY <1>1, <1>2, RisingCounts
  <2>2. ASSUME NEW z \in K, LeftBefore(K, z) = k - 1 PROVE z = t[k]
    <3>1. PICK i \in 1 .. l : t[i] = z
      BY <1>2
    <3>2. LeftBefore(K, t[i]) = i - 1
      BY <1>1, RisingCounts
    <3>3. i = k
      BY <2>2, <3>1, <3>2
    <3> QED
      BY <3>1, <3>3
  <2> QED
    BY <2>1, <2>2 DEF PlaceIn
<1>4. Cardinality(K) = l
  <2>1. t \in [1 .. l -> K]
    BY <1>1, <1>2 DEF InOrder
  <2>2. \A i, j \in 1 .. l : t[i] = t[j] => i = j
    <3>1. SUFFICES ASSUME NEW i \in 1 .. l, NEW j \in 1 .. l, t[i] = t[j]
                   PROVE  i = j
      OBVIOUS
    <3>2. t[i] \in Nat
      BY <1>2
    <3>3. ~ i < j /\ ~ j < i
      BY <1>2, <3>1, <3>2
    <3> QED
      BY <3>3
  <2>3. t \in Bijection(1 .. l, K)
    <3>1. IsInjective(t)
      BY <2>1, <2>2 DEF IsInjective
    <3>2. t \in Surjection(1 .. l, K)
      BY <1>2, <2>1 DEF Surjection
    <3> QED
      BY <2>1, <3>1, <3>2 DEF Bijection, Injection
  <2>4. ExistsBijection(1 .. l, K)
    BY <2>3 DEF ExistsBijection
  <2>5. IsFiniteSet(1 .. l) /\ Cardinality(1 .. l) = l
    BY FS_Interval
  <2> QED
    BY <2>4, <2>5, FS_Bijection
<1> QED
  BY <1>1, <1>3, <1>4

\* A step of MessageBase from one area to another.
AppendStep(a, b) ==
    LET new == SubSeq(b.messages, Len(a.messages) + 1, Len(b.messages))
    IN  /\ Len(b.messages) > Len(a.messages)
        /\ new \in Seq(Letter)
        /\ new # <<>>
        /\ \A i \in DOMAIN new : new[i].uid = a.nextUid + i - 1
        /\ b.messages = a.messages \o new
        /\ b.nextUid = a.nextUid + Len(new)

ReplaceStep(a, b) ==
    \E n \in DOMAIN a.messages :
        /\ n \in DOMAIN b.messages
        /\ b.messages[n] \in Letter
        /\ b.messages[n].uid = a.messages[n].uid
        /\ b.messages[n].seen = a.messages[n].seen
        /\ b.messages = [a.messages EXCEPT ![n] = b.messages[n]]
        /\ b.nextUid = a.nextUid

MarkStep(a, b) ==
    \E n \in DOMAIN a.messages, seen, rcvd \in BOOLEAN :
        /\ b.messages = [a.messages EXCEPT ![n].seen = @ \/ seen,
                                           ![n].rcvd = @ \/ rcvd]
        /\ b.nextUid = a.nextUid

RemoveStep(a, b) ==
    \E S \in (SUBSET DOMAIN a.messages) \ {{}} :
        LET K == DOMAIN a.messages \ S
        IN  /\ b.messages = [k \in 1 .. Cardinality(K) |->
                                a.messages[PlaceIn(K, k)]]
            /\ b.nextUid = a.nextUid

BaseStep(a, b) ==
    AppendStep(a, b) \/ ReplaceStep(a, b) \/ MarkStep(a, b) \/ RemoveStep(a, b)

Area(a) == a.messages \in Seq(Letter) /\ a.nextUid \in Nat

LEMMA GrewIsStep ==
    ASSUME NEW a, NEW b, Area(a), Grew(a, b)
    PROVE  AppendStep(a, b)
<1>1. PICK s \in Seq(Letter), r \in Seq(Letter) :
            s = a.messages /\ r = b.messages
  BY DEF Area, Grew
<1>2. PICK n \in Nat, k \in Nat : n = Len(s) /\ k = Len(r)
  OBVIOUS
<1>3. /\ n < k
      /\ \A i \in 1 .. n : r[i] = s[i]
      /\ \A i \in 1 .. k : i > n => r[i].uid = a.nextUid + (i - n) - 1
      /\ b.nextUid = a.nextUid + (k - n)
  <2>1. DOMAIN s = 1 .. n /\ DOMAIN r = 1 .. k
    BY <1>2
  <2> QED
    BY <1>1, <1>2, <2>1 DEF Grew
<1>4. PICK e \in Nat : k = n + e /\ e # 0 /\ k - n = e
  <2>1. k - n \in Nat /\ k - n # 0 /\ k = n + (k - n)
    BY <1>3
  <2> QED
    BY <2>1
<1> DEFINE new == SubSeq(r, n + 1, k)
<1>5. /\ new \in Seq(Letter) /\ Len(new) = e
      /\ \A i \in 1 .. e : new[i] = r[n + i]
  <2>1. \A i \in n + 1 .. k : r[i] \in Letter
    <3>1. \A i \in n + 1 .. k : i \in 1 .. k
      BY <1>2
    <3>2. \A i \in 1 .. k : r[i] \in Letter
      BY <1>2
    <3> QED
      BY <3>1, <3>2
  <2>2. /\ new \in Seq(Letter)
        /\ Len(new) = IF n + 1 <= k THEN k - (n + 1) + 1 ELSE 0
        /\ \A i \in 1 .. k - (n + 1) + 1 : new[i] = r[(n + 1) + i - 1]
    <3>1. n + 1 \in Int /\ k \in Int
      OBVIOUS
    <3> QED
      BY <2>1, <3>1, SubSeqProperties
  <2> HIDE DEF new
  <2>3. n + 1 <= k /\ k - (n + 1) + 1 = e
    BY <1>4
  <2>4. Len(new) = e
    BY <2>2, <2>3
  <2>5. \A i \in 1 .. e : new[i] = r[n + i]
    <3>1. \A i \in 1 .. e : (n + 1) + i - 1 = n + i
      OBVIOUS
    <3> QED
      BY <2>2, <2>3, <3>1
  <2> QED
    BY <2>2, <2>4, <2>5
<1> HIDE DEF new
<1>6. new # <<>> /\ DOMAIN new = 1 .. e
  BY <1>4, <1>5
<1>7. a.nextUid \in Nat
  BY DEF Area
<1>8. \A i \in 1 .. e : new[i].uid = a.nextUid + i - 1
  <2>1. SUFFICES ASSUME NEW i \in 1 .. e PROVE new[i].uid = a.nextUid + i - 1
    OBVIOUS
  <2>2. n + i \in 1 .. k /\ n + i > n /\ (n + i) - n = i
    BY <1>4
  <2>3. r[n + i].uid = a.nextUid + ((n + i) - n) - 1
    BY <1>3, <2>2
  <2> QED
    BY <1>5, <2>2, <2>3
<1>9. r = s \o new
  <2>1. /\ s \o new \in Seq(Letter) /\ Len(s \o new) = n + e
        /\ \A i \in 1 .. n + e :
                (s \o new)[i] = IF i <= n THEN s[i] ELSE new[i - n]
    BY <1>2, <1>5, ConcatProperties, ZenonT(30)
  <2>2. \A i \in 1 .. k : (s \o new)[i] = r[i]
    <3>1. SUFFICES ASSUME NEW i \in 1 .. k PROVE (s \o new)[i] = r[i]
      OBVIOUS
    <3>2. CASE i <= n
      <4>1. (s \o new)[i] = s[i] /\ i \in 1 .. n
        BY <1>4, <2>1, <3>2
      <4> QED
        BY <1>3, <4>1
    <3>3. CASE ~ (i <= n)
      <4>1. PICK j \in 1 .. e : i = n + j
        <5>1. i - n \in 1 .. e /\ i = n + (i - n)
          BY <1>4, <3>3
        <5> QED
          BY <5>1
      <4>2. (s \o new)[n + j] = new[j]
        <5>1. n + j \in 1 .. n + e /\ ~ (n + j <= n) /\ (n + j) - n = j
          BY <4>1
        <5> QED
          BY <2>1, <5>1
      <4> QED
        BY <1>5, <4>1, <4>2
    <3> QED
      BY <3>2, <3>3
  <2> DEFINE c == s \o new
  <2>3. c \in Seq(Letter) /\ Len(c) = k /\ \A i \in 1 .. k : c[i] = r[i]
    BY <1>4, <2>1, <2>2
  <2> HIDE DEF c
  <2>4. c = r
    BY <1>2, <2>3, SeqEqual
  <2> QED
    BY <2>4 DEF c
<1>10. b.nextUid = a.nextUid + Len(new)
  BY <1>3, <1>4, <1>5
<1>11. new = SubSeq(b.messages, Len(a.messages) + 1, Len(b.messages))
  BY <1>1, <1>2 DEF new
<1>12. Len(b.messages) > Len(a.messages)
  BY <1>1, <1>2, <1>3
<1> QED
  BY <1>1, <1>5, <1>6, <1>8, <1>9, <1>10, <1>11, <1>12 DEF AppendStep

LEMMA ReplacedIsStep ==
    ASSUME NEW a, NEW b, Area(a), ReplacedIn(a, b)
    PROVE  ReplaceStep(a, b)
<1>1. PICK n \in DOMAIN a.messages, msg \in Letter :
        /\ msg.uid = a.messages[n].uid
        /\ msg.seen = a.messages[n].seen
        /\ b = Rewrote(a, n, msg)
  BY DEF ReplacedIn
<1>2. b.messages = [a.messages EXCEPT ![n] = msg] /\ b.nextUid = a.nextUid
  BY <1>1 DEF Rewrote
<1>3. PICK s \in Seq(Letter) : s = a.messages
  BY DEF Area
<1>4. n \in DOMAIN b.messages /\ b.messages[n] = msg
  BY <1>2, <1>3
<1> QED
  BY <1>1, <1>2, <1>4 DEF ReplaceStep

LEMMA MarkedIsStep ==
    ASSUME NEW a, NEW b, MarkedIn(a, b)
    PROVE  MarkStep(a, b)
<1>1. PICK n \in DOMAIN a.messages, seen, rcvd \in BOOLEAN :
        b = [messages |-> [a.messages EXCEPT ![n].seen = @ \/ seen,
                                             ![n].rcvd = @ \/ rcvd],
             nextUid |-> a.nextUid]
  BY DEF MarkedIn
<1>2. /\ b.messages = [a.messages EXCEPT ![n].seen = @ \/ seen,
                                         ![n].rcvd = @ \/ rcvd]
      /\ b.nextUid = a.nextUid
  BY <1>1
<1> QED
  BY <1>2 DEF MarkStep

LEMMA RemovedIsStep ==
    ASSUME NEW a, NEW b, RemovedIn(a, b)
    PROVE  RemoveStep(a, b)
<1>1. PICK n \in Nat : \E S, kt :
        /\ S \subseteq 1 .. n /\ S # {}
        /\ DOMAIN a.messages = 1 .. n
        /\ InOrder(n, (1 .. n) \ S, kt)
        /\ b = [messages |-> [k \in DOMAIN kt |-> a.messages[kt[k]]],
                nextUid |-> a.nextUid]
  BY DEF RemovedIn
<1>2. PICK S, kt :
        /\ S \subseteq 1 .. n /\ S # {}
        /\ DOMAIN a.messages = 1 .. n
        /\ InOrder(n, (1 .. n) \ S, kt)
        /\ b = [messages |-> [k \in DOMAIN kt |-> a.messages[kt[k]]],
                nextUid |-> a.nextUid]
  BY <1>1
<1>3. PICK K : K = (1 .. n) \ S
  OBVIOUS
<1>4. InOrder(n, K, kt)
  BY <1>2, <1>3
<1>5. /\ Cardinality(K) = Len(kt)
      /\ \A k \in 1 .. Len(kt) : PlaceIn(K, k) = kt[k]
  BY <1>4, OrderCounts
<1>6. DOMAIN kt = 1 .. Len(kt)
  BY <1>4, OrderHolds
<1>7. b.messages = [k \in 1 .. Cardinality(K) |-> a.messages[PlaceIn(K, k)]]
  BY <1>2, <1>5, <1>6
<1>8. S \in (SUBSET DOMAIN a.messages) \ {{}} /\ K = DOMAIN a.messages \ S
  BY <1>2, <1>3
<1>9. b.nextUid = a.nextUid
  BY <1>2
<1> QED
  BY <1>7, <1>8, <1>9 DEF RemoveStep

LEMMA MovesAreSteps ==
    ASSUME NEW a, NEW b, Area(a), Moves(a, b)
    PROVE  b = a \/ BaseStep(a, b)
BY GrewIsStep, ReplacedIsStep, MarkedIsStep, RemovedIsStep DEF Moves, BaseStep

LEMMA ShownIs ==
    ShownOf(now, todo) = [messages |-> Shown, nextUid |-> hdr.nextUid]
<1>1. Fresh = Loaded(now)
  BY FreshIsLoaded
<1>2. CASE Cutting
  <2>1. todo # <<>> /\ Head(todo).write.kind = "cut"
    BY <1>2 DEF Cutting
  <2>2. Committed = SubSeq(Loaded(now), 1, Min2(Len(Loaded(now)),
                                                Head(todo).write.to))
    BY <1>1, <1>2 DEF Committed
  <2>3. ShownOf(now, todo) = ShownAs(now, Committed)
    BY <2>1, <2>2 DEF ShownOf, ViewAt
  <2> QED
    BY <2>3 DEF ShownAs, Shown, now
<1>3. CASE ~ Cutting
  <2>1. ShownOf(now, todo) = View(now)
    BY <1>3 DEF Cutting, ShownOf, ViewAt
  <2>2. Committed = Loaded(now)
    BY <1>1, <1>3 DEF Committed
  <2>3. ShownOf(now, todo) = ShownAs(now, Committed)
    BY <2>1, <2>2 DEF View
  <2> QED
    BY <2>3 DEF ShownAs, Shown, now
<1> QED
  BY <1>2, <1>3

LEMMA ShownIsArea ==
    ASSUME Sound
    PROVE  Area(ShownOf(now, todo))
<1>1. now \in Disk /\ Fine(now)
  BY DEF Sound
<1>2. /\ hdr \in Header /\ sqi \in Seq(Entry)
      /\ frames \in [1 .. MaxFrame -> Frame]
  BY <1>1 DEF Disk, now
<1>3. /\ Loaded(now) \in Seq(Entry)
      /\ \A i \in DOMAIN Loaded(now) : frames[Loaded(now)[i].offset].msg \in Letter
  <2>1. Loaded(now) \in Seq(Entry)
    BY <1>2, LoadsHolds DEF Loaded, now
  <2>2. \A i \in DOMAIN Loaded(now) : Housed(frames, Loaded(now)[i])
    BY <1>1 DEF Fine, now
  <2> QED
    BY <2>1, <2>2 DEF Housed
<1>4. PICK ix \in Seq(Entry) : ix = Loaded(now)
  BY <1>3
<1>5. PICK n \in Nat : n = Len(ix) /\ DOMAIN ix = 1 .. n
  BY LenProperties
<1>6. \E k \in 0 .. n : \/ Committed = SubSeq(ix, 1, k)
                        \/ Committed = ix /\ k = n
  <2>1. CASE Cutting
    <3>1. Committed = SubSeq(ix, 1, Min2(n, Head(todo).write.to))
      BY <1>4, <1>5, <2>1, FreshIsLoaded DEF Committed
    <3>2. lock # NoProc
      BY <2>1 DEF Cutting, Sound
    <3>3. PICK g : Ready(g, now, todo)
      BY <3>2 DEF Sound, Working
    <3>4. Head(todo) \in Item
      BY <3>3, ReadyShift
    <3>5. Head(todo).write.to \in Nat
      BY <2>1, <3>4 DEF Cutting, Item, Write
    <3>6. Min2(n, Head(todo).write.to) \in 0 .. n
      BY <3>5 DEF Min2
    <3> QED
      BY <3>1, <3>6
  <2>2. CASE ~ Cutting
    BY <1>4, <1>5, <2>2, FreshIsLoaded DEF Committed
  <2> QED
    BY <2>1, <2>2
<1>7. PICK k \in 0 .. n : /\ DOMAIN Committed = 1 .. k
                          /\ \A i \in 1 .. k : i \in 1 .. n /\ Committed[i] = ix[i]
  <2>1. PICK k \in 0 .. n : \/ Committed = SubSeq(ix, 1, k)
                            \/ Committed = ix /\ k = n
    BY <1>6
  <2>2. CASE Committed = SubSeq(ix, 1, k)
    BY <1>5, <2>2, SubSeqHolds
  <2>3. CASE Committed = ix /\ k = n
    BY <1>5, <2>3
  <2> QED
    BY <2>1, <2>2, <2>3
<1>8. \A i \in 1 .. k : frames[Committed[i].offset].msg \in Letter
  BY <1>3, <1>4, <1>5, <1>7
<1>9. Shown \in [1 .. k -> Letter]
  BY <1>7, <1>8 DEF Shown
<1>10. Shown \in Seq(Letter)
  BY <1>9
<1>11. hdr.nextUid \in Nat
  BY <1>2 DEF Header
<1>12. PICK a : a = ShownOf(now, todo)
  OBVIOUS
<1>13. a.messages = Shown /\ a.nextUid = hdr.nextUid
  BY <1>12, ShownIs
<1> QED
  BY <1>10, <1>11, <1>12, <1>13 DEF Area

LEMMA StepsAreAbstract ==
    ASSUME NEW a, NEW b, BaseStep(a, b),
           a = [messages |-> Shown, nextUid |-> hdr.nextUid],
           b = [messages |-> Shown', nextUid |-> hdr'.nextUid]
    PROVE  Abstract!BaseNext
<1>1. /\ a.messages = Shown /\ a.nextUid = hdr.nextUid
      /\ b.messages = Shown' /\ b.nextUid = hdr'.nextUid
  OBVIOUS
<1>2. Abstract!Message = Letter
  BY DEF Abstract!Message, Letter
<1>3. CASE AppendStep(a, b)
  BY <1>1, <1>2, <1>3 DEF AppendStep, Abstract!BaseNext, Abstract!AppendSet
<1>4. CASE ReplaceStep(a, b)
  BY <1>1, <1>2, <1>4 DEF ReplaceStep, Abstract!BaseNext, Abstract!Replace
<1>5. CASE MarkStep(a, b)
  BY <1>1, <1>2, <1>5 DEF MarkStep, Abstract!BaseNext, Abstract!Mark
<1>6. CASE RemoveStep(a, b)
  <2>1. PICK S \in (SUBSET DOMAIN a.messages) \ {{}} :
            LET K == DOMAIN a.messages \ S
            IN  /\ b.messages = [k \in 1 .. Cardinality(K) |->
                                    a.messages[PlaceIn(K, k)]]
                /\ b.nextUid = a.nextUid
    BY <1>6 DEF RemoveStep
  <2>2. S \in (SUBSET DOMAIN Shown) \ {{}}
    BY <1>1, <2>1
  <2>3. Shown'
            = [k \in 1 .. Cardinality(DOMAIN Shown \ S) |->
                    Shown[PlaceIn(DOMAIN Shown \ S, k)]]
    BY <1>1, <2>1
  <2>4. hdr'.nextUid = hdr.nextUid
    BY <1>1, <2>1
  <2>5. Abstract!RemoveSet(S)
    BY <2>3, <2>4 DEF Abstract!RemoveSet, PlaceIn, LeftBefore,
                      Cardinality, Abstract!Cardinality
  <2> QED
    BY <2>2, <2>5 DEF Abstract!BaseNext
<1> QED
  BY <1>3, <1>4, <1>5, <1>6 DEF BaseStep

LEMMA InitIsAbstract == Init => Abstract!BaseInit
<1> SUFFICES ASSUME Init PROVE Abstract!BaseInit
  OBVIOUS
<1>1. sqi = <<>> /\ todo = <<>> /\ hdr.nextUid = 1
  BY DEF Init, EmptyHeader
<1>2. Fresh = <<>>
  <2>1. /\ sqi \in Seq(Entry) /\ hdr \in Header
    BY <1>1, EmptyIsSound DEF Sound, Disk, now
  <2>2. /\ Loads(hdr, sqi) \in Seq(Entry)
        /\ DOMAIN Loads(hdr, sqi) \subseteq DOMAIN sqi
    BY <2>1, LoadsHolds
  <2>3. DOMAIN sqi = {}
    BY <1>1
  <2>4. Loads(hdr, sqi) = <<>>
    <3>1. PICK ix \in Seq(Entry) : ix = Loads(hdr, sqi)
      BY <2>2
    <3>2. Len(ix) \in Nat /\ DOMAIN ix = 1 .. Len(ix)
      BY LenProperties
    <3>3. DOMAIN ix = {}
      BY <2>2, <2>3, <3>1
    <3>4. Len(ix) = 0
      BY <3>2, <3>3
    <3> QED
      BY <3>1, <3>4, EmptySeq
  <2> QED
    BY <2>4 DEF Fresh, LoadIndex, Loads
<1>3. Committed = <<>>
  BY <1>1, <1>2 DEF Committed, Cutting
<1>4. Shown = <<>>
  BY <1>3 DEF Shown
<1> QED
  BY <1>1, <1>4 DEF Abstract!BaseInit

LEMMA StepIsAbstract ==
    ASSUME NoFaults, Sound, [Next]_vars
    PROVE  [Abstract!BaseNext]_Abstract!baseVars
<1>1. PICK a : a = ShownOf(now, todo)
  OBVIOUS
<1>2. PICK b : b = ShownOf(now, todo)'
  OBVIOUS
<1>3. Area(a) /\ Moves(a, b)
  BY <1>1, <1>2, StepIsSound, ShownIsArea DEF Stepped
<1>4. a = [messages |-> Shown, nextUid |-> hdr.nextUid]
  BY <1>1, ShownIs
<1>5. b = [messages |-> Shown', nextUid |-> hdr'.nextUid]
  <2>1. (ShownOf(now, todo) = [messages |-> Shown, nextUid |-> hdr.nextUid])'
    BY ShownIs, PTL
  <2> QED
    BY <1>2, <2>1
<1>6. CASE b = a
  <2>1. Shown' = Shown /\ hdr'.nextUid = hdr.nextUid
    BY <1>4, <1>5, <1>6
  <2> QED
    BY <2>1 DEF Abstract!baseVars
<1>7. CASE BaseStep(a, b)
  BY <1>4, <1>5, <1>7, StepsAreAbstract
<1> QED
  BY <1>3, <1>6, <1>7, MovesAreSteps

\* The two files written a piece at a time are one area changed a call at a
\* time.
THEOREM ImplementsBase == ASSUME NoFaults PROVE Spec => ImplementsMessageBase
<1>1. Sound /\ [Next]_vars => [Abstract!BaseNext]_Abstract!baseVars
  BY StepIsAbstract
<1> QED
  BY <1>1, InitIsAbstract, AlwaysSound, PTL
     DEF Spec, ImplementsMessageBase, Abstract!BaseSpec

(***************************************************************************)
(* The UIDs                                                                *)
(***************************************************************************)

\* UidsRise of an area.
UidsUp(a) ==
    /\ \A i, j \in DOMAIN a.messages :
            i < j => a.messages[i].uid < a.messages[j].uid
    /\ \A i \in DOMAIN a.messages : a.messages[i].uid < a.nextUid

\* NewMeansNew, of two areas.
OnlyNewUids(a, b) ==
    /\ a.nextUid <= b.nextUid
    /\ \A i \in DOMAIN b.messages :
            b.messages[i].uid < a.nextUid
                => \E j \in DOMAIN a.messages :
                        a.messages[j].uid = b.messages[i].uid

\* Every message has a UID it had, or one from the next on.
LEMMA SameUids ==
    ASSUME NEW a, NEW b, Area(a), UidsUp(a), b.nextUid = a.nextUid,
           NEW at, \A k \in DOMAIN b.messages :
                        /\ at[k] \in DOMAIN a.messages
                        /\ b.messages[k].uid = a.messages[at[k]].uid,
           \A k, l \in DOMAIN b.messages : k < l => at[k] < at[l]
    PROVE  UidsUp(b) /\ OnlyNewUids(a, b)
<1>1. a.nextUid \in Nat
  BY DEF Area
<1>2. UidsUp(b)
  BY DEF UidsUp
<1>3. OnlyNewUids(a, b)
  BY <1>1 DEF OnlyNewUids
<1> QED
  BY <1>2, <1>3

LEMMA GrewUids ==
    ASSUME NEW a, NEW b, Area(a), UidsUp(a), Grew(a, b)
    PROVE  UidsUp(b) /\ OnlyNewUids(a, b)
<1>1. PICK s \in Seq(Letter), r \in Seq(Letter), u \in Nat :
            s = a.messages /\ r = b.messages /\ u = a.nextUid
  BY DEF Area, Grew
<1>2. PICK n \in Nat, k \in Nat : n = Len(s) /\ k = Len(r)
  OBVIOUS
<1>3. DOMAIN s = 1 .. n /\ DOMAIN r = 1 .. k
  BY <1>2
<1>4. /\ n < k
      /\ \A i \in 1 .. n : r[i] = s[i]
      /\ \A i \in 1 .. k : i > n => r[i].uid = u + (i - n) - 1
      /\ b.nextUid = u + (k - n)
  BY <1>1, <1>2, <1>3 DEF Grew
<1>5. /\ \A i, j \in 1 .. n : i < j => s[i].uid < s[j].uid
      /\ \A i \in 1 .. n : s[i].uid < u
  BY <1>1, <1>3 DEF UidsUp
<1>6. \A i \in 1 .. k : r[i].uid \in Nat
  <2>1. \A i \in 1 .. k : r[i] \in Letter
    BY <1>3
  <2> QED
    BY <2>1 DEF Letter
<1>7. ASSUME NEW i \in 1 .. k, NEW j \in 1 .. k, i < j
      PROVE  r[i].uid < r[j].uid
  <2>1. CASE j <= n
    <3>1. i \in 1 .. n /\ j \in 1 .. n
      BY <1>7, <2>1
    <3> QED
      BY <1>4, <1>5, <1>7, <3>1
  <2>2. CASE ~ (j <= n) /\ i <= n
    <3>1. i \in 1 .. n /\ r[i].uid < u /\ r[j].uid = u + (j - n) - 1
      BY <1>4, <1>5, <2>2
    <3>2. PICK x \in Nat, y \in Nat : x = r[i].uid /\ y = r[j].uid
      BY <1>6
    <3>3. x < u /\ y = u + (j - n) - 1
      BY <3>1, <3>2
    <3>4. PICK d \in Nat : j - n = d /\ d # 0
      <4>1. j - n \in Nat /\ j - n # 0
        BY <2>2
      <4> QED
        BY <4>1
    <3>5. x < y
      BY <3>3, <3>4
    <3> QED
      BY <3>2, <3>5
  <2>3. CASE ~ (i <= n)
    <3>1. PICK x \in Nat, y \in Nat : x = r[i].uid /\ y = r[j].uid
      BY <1>6
    <3>2. x = u + (i - n) - 1 /\ y = u + (j - n) - 1
      BY <1>4, <1>7, <2>3, <3>1
    <3>3. x < y
      BY <1>7, <3>2
    <3> QED
      BY <3>1, <3>3
  <2> QED
    BY <2>1, <2>2, <2>3
<1>8. ASSUME NEW i \in 1 .. k PROVE r[i].uid < u + (k - n)
  <2>1. CASE i <= n
    <3>0. i \in 1 .. n
      BY <2>1
    <3>1. r[i].uid < u
      <4>1. r[i] = s[i]
        BY <1>4, <3>0
      <4>2. s[i].uid < u
        BY <1>5, <3>0
      <4> QED
        BY <4>1, <4>2
    <3>2. k - n \in Nat
      BY <1>4
    <3> QED
      BY <1>6, <3>1, <3>2
  <2>2. CASE ~ (i <= n)
    <3>1. r[i].uid = u + (i - n) - 1
      BY <1>4, <2>2
    <3> QED
      BY <3>1
  <2> QED
    BY <2>1, <2>2
<1>9. UidsUp(b)
  BY <1>1, <1>3, <1>4, <1>7, <1>8 DEF UidsUp
<1>10. ASSUME NEW i \in 1 .. k, r[i].uid < u
       PROVE  \E j \in 1 .. n : s[j].uid = r[i].uid
  <2>1. CASE i <= n
    BY <1>4, <2>1
  <2>2. CASE ~ (i <= n)
    <3>1. r[i].uid = u + (i - n) - 1 /\ i - n \in Nat /\ i - n # 0
      BY <1>4, <2>2
    <3> QED
      BY <1>10, <3>1
  <2> QED
    BY <2>1, <2>2
<1>11. u <= u + (k - n)
  BY <1>4
<1>12. OnlyNewUids(a, b)
  BY <1>1, <1>3, <1>4, <1>10, <1>11 DEF OnlyNewUids
<1> QED
  BY <1>9, <1>12

LEMMA ReplacedUids ==
    ASSUME NEW a, NEW b, Area(a), UidsUp(a), ReplacedIn(a, b)
    PROVE  UidsUp(b) /\ OnlyNewUids(a, b)
<1>1. PICK n \in DOMAIN a.messages, msg \in Letter :
            msg.uid = a.messages[n].uid /\ b = Rewrote(a, n, msg)
  BY DEF ReplacedIn
<1>2. b.messages = [a.messages EXCEPT ![n] = msg] /\ b.nextUid = a.nextUid
  BY <1>1 DEF Rewrote
<1>3. PICK s \in Seq(Letter) : s = a.messages
  BY DEF Area
<1>4. DOMAIN b.messages = DOMAIN s
  BY <1>2, <1>3
<1>5. \A k \in DOMAIN s : b.messages[k].uid = s[k].uid
  BY <1>1, <1>2, <1>3
<1> DEFINE at == [k \in DOMAIN s |-> k]
<1>6. \A k \in DOMAIN b.messages : /\ at[k] \in DOMAIN a.messages
                                   /\ b.messages[k].uid = a.messages[at[k]].uid
  BY <1>3, <1>4, <1>5
<1>7. \A k, l \in DOMAIN b.messages : k < l => at[k] < at[l]
  BY <1>4
<1> HIDE DEF at
<1> QED
  BY <1>2, <1>6, <1>7, SameUids

LEMMA MarkedUids ==
    ASSUME NEW a, NEW b, Area(a), UidsUp(a), MarkedIn(a, b)
    PROVE  UidsUp(b) /\ OnlyNewUids(a, b)
<1>1. PICK n \in DOMAIN a.messages, seen, rcvd \in BOOLEAN :
        b = [messages |-> [a.messages EXCEPT ![n].seen = @ \/ seen,
                                             ![n].rcvd = @ \/ rcvd],
             nextUid |-> a.nextUid]
  BY DEF MarkedIn
<1>2. PICK s \in Seq(Letter) : s = a.messages
  BY DEF Area
<1>3. /\ b.messages = [s EXCEPT ![n].seen = @ \/ seen, ![n].rcvd = @ \/ rcvd]
      /\ b.nextUid = a.nextUid
  BY <1>1, <1>2
<1>4. DOMAIN b.messages = DOMAIN s
  BY <1>3
<1>5. \A k \in DOMAIN s : b.messages[k].uid = s[k].uid
  <2>1. \A k \in DOMAIN s : s[k] \in Letter
    OBVIOUS
  <2> QED
    BY <1>3, <2>1 DEF Letter
<1> DEFINE at == [k \in DOMAIN s |-> k]
<1>6. \A k \in DOMAIN b.messages : /\ at[k] \in DOMAIN a.messages
                                   /\ b.messages[k].uid = a.messages[at[k]].uid
  BY <1>2, <1>4, <1>5
<1>7. \A k, l \in DOMAIN b.messages : k < l => at[k] < at[l]
  BY <1>4
<1> HIDE DEF at
<1> QED
  BY <1>3, <1>6, <1>7, SameUids

LEMMA RemovedUids ==
    ASSUME NEW a, NEW b, Area(a), UidsUp(a), RemovedIn(a, b)
    PROVE  UidsUp(b) /\ OnlyNewUids(a, b)
<1>1. PICK n \in Nat : \E S, kt :
        /\ S \subseteq 1 .. n /\ S # {}
        /\ DOMAIN a.messages = 1 .. n
        /\ InOrder(n, (1 .. n) \ S, kt)
        /\ b = [messages |-> [k \in DOMAIN kt |-> a.messages[kt[k]]],
                nextUid |-> a.nextUid]
  BY DEF RemovedIn
<1>2. PICK S, kt :
        /\ DOMAIN a.messages = 1 .. n
        /\ InOrder(n, (1 .. n) \ S, kt)
        /\ b = [messages |-> [k \in DOMAIN kt |-> a.messages[kt[k]]],
                nextUid |-> a.nextUid]
  BY <1>1
<1>3. PICK K : K = (1 .. n) \ S
  OBVIOUS
<1>4. InOrder(n, K, kt)
  BY <1>2, <1>3
<1>5. Rising(kt) /\ \A k \in DOMAIN kt : kt[k] \in K
  BY <1>4, OrderHolds DEF Rising
<1>6. /\ b.messages = [k \in DOMAIN kt |-> a.messages[kt[k]]]
      /\ b.nextUid = a.nextUid
  BY <1>2
<1>7. \A k \in DOMAIN b.messages : /\ kt[k] \in DOMAIN a.messages
                                   /\ b.messages[k].uid = a.messages[kt[k]].uid
  BY <1>2, <1>3, <1>5, <1>6
<1>8. \A k, l \in DOMAIN b.messages : k < l => kt[k] < kt[l]
  BY <1>5, <1>6 DEF Rising
<1> QED
  BY <1>6, <1>7, <1>8, SameUids

LEMMA MovesUids ==
    ASSUME NEW a, NEW b, Area(a), UidsUp(a), Moves(a, b)
    PROVE  UidsUp(b) /\ OnlyNewUids(a, b)
<1>1. CASE b = a
  <2>1. a.nextUid \in Nat
    BY DEF Area
  <2> QED
    BY <1>1, <2>1 DEF OnlyNewUids
<1> QED
  BY <1>1, GrewUids, ReplacedUids, MarkedUids, RemovedUids DEF Moves

LEMMA StepUids ==
    ASSUME NoFaults, Sound, Abstract!UidsRise, [Next]_vars
    PROVE  /\ Abstract!UidsRise'
           /\ Abstract!NewMeansNew
<1>1. PICK a : a = ShownOf(now, todo)
  OBVIOUS
<1>2. PICK b : b = ShownOf(now, todo)'
  OBVIOUS
<1>3. Area(a) /\ Moves(a, b)
  BY <1>1, <1>2, StepIsSound, ShownIsArea DEF Stepped
<1>4. a = [messages |-> Shown, nextUid |-> hdr.nextUid]
  BY <1>1, ShownIs
<1>5. b = [messages |-> Shown', nextUid |-> hdr'.nextUid]
  <2>1. (ShownOf(now, todo) = [messages |-> Shown, nextUid |-> hdr.nextUid])'
    BY ShownIs, PTL
  <2> QED
    BY <1>2, <2>1
<1>6. /\ a.messages = Shown /\ a.nextUid = hdr.nextUid
      /\ b.messages = Shown' /\ b.nextUid = hdr'.nextUid
  BY <1>4, <1>5
<1>7. UidsUp(a)
  BY <1>6 DEF UidsUp, Abstract!UidsRise
<1>8. UidsUp(b) /\ OnlyNewUids(a, b)
  BY <1>3, <1>7, MovesUids
<1>9. Abstract!UidsRise'
  BY <1>6, <1>8 DEF UidsUp, Abstract!UidsRise
<1>10. Abstract!NewMeansNew
  BY <1>6, <1>8 DEF OnlyNewUids, Abstract!NewMeansNew
<1> QED
  BY <1>9, <1>10

LEMMA StartUids == Init => Abstract!UidsRise
<1> SUFFICES ASSUME Init PROVE Abstract!UidsRise
  OBVIOUS
<1>1. Abstract!BaseInit
  BY InitIsAbstract
<1>2. Shown = <<>>
  BY <1>1 DEF Abstract!BaseInit
<1>3. DOMAIN Shown = {}
  BY <1>2
<1> QED
  BY <1>3 DEF Abstract!UidsRise

\* The messages of a base go up by their UIDs, and every UID given out is behind
\* the next.
THEOREM UidsAlwaysRise == ASSUME NoFaults PROVE Spec => []Abstract!UidsRise
<1>1. Sound /\ Abstract!UidsRise /\ [Next]_vars => Abstract!UidsRise'
  BY StepUids
<1> QED
  BY <1>1, StartUids, AlwaysSound, PTL DEF Spec

\* A UID that has been given out is never given to another message.
THEOREM UidsNeverComeBack == ASSUME NoFaults PROVE Spec => Abstract!NeverGivenTwice
<1>1. Sound /\ Abstract!UidsRise /\ [Next]_vars
            => [Abstract!NewMeansNew]_Abstract!baseVars
  BY StepUids
<1> QED
  BY <1>1, UidsAlwaysRise, AlwaysSound, PTL DEF Spec, Abstract!NeverGivenTwice
=============================================================================
