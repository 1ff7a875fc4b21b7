--------------------------- MODULE BaseFilesProofs ---------------------------
(***************************************************************************)
(* What BaseFiles guarantees for every number of processes, every format   *)
(* and any number of refusals and deaths.                                  *)
(***************************************************************************)
EXTENDS BaseFiles, TLAPS, FiniteSetTheorems

Making == {"make", "create", "header"}

\* The names makeFiles will take back if it fails now.
Due(j) == IF j.step = "giveBack" THEN j.left ELSE j.made

\* What is to be taken back is there, and is what this call made.
Owned(j, d) ==
    /\ j.own \subseteq File
    /\ Due(j) \in Seq(Names)
    /\ \A i \in DOMAIN Due(j) : d[Due(j)[i]] \in j.own
    /\ \A i, k \in DOMAIN Due(j) : Due(j)[i] = Due(j)[k] => i = k
    /\ j.step \notin Making \cup {"giveBack"} => j.made = <<>>
    /\ j.step \in Making => j.left \in Seq(Names)

Whole(j) ==
    j = [step |-> j.step, left |-> j.left, seen |-> j.seen, keep |-> j.keep,
         creating |-> j.creating, again |-> j.again, made |-> j.made,
         own |-> j.own, open |-> j.open]

Shape ==
    /\ making \in Formats
    /\ disk = [name \in Names |-> disk[name]]
    /\ job = [p \in Processes |-> job[p]]
    /\ \A p \in Processes : Whole(job[p])

\* No file was made by two.
Apart == \A p, q \in Processes : p # q => job[p].own \cap job[q].own = {}

IInv == Shape /\ (\A p \in Processes : Owned(job[p], disk)) /\ Apart

\* A format is a sequence of the names in it.
LEMMA Format ==
    ASSUME making \in Formats
    PROVE  making \in Seq(Names)
  BY FormatsAssumption DEF Names, ToSet

LEMMA InitInvariant == Init => IInv
  <1> SUFFICES ASSUME Init
               PROVE  IInv
    OBVIOUS
  <1>1. Shape
    BY DEF Init, Shape, Whole, Idle
  <1>2. \A p \in Processes : job[p] = Idle
    BY DEF Init
  <1>3. Owned(Idle, disk) /\ Idle.own = {}
    BY DEF Owned, Idle, Due, Making
  <1>4. QED
    BY <1>1, <1>2, <1>3 DEF IInv, Apart

\* What a step comes to that does not touch the names: one process has moved on,
\* with no more to take back than before.
Quietly(p) ==
    /\ UNCHANGED <<making, disk>>
    /\ job' = [job EXCEPT ![p] = job'[p]]
    /\ Whole(job'[p])
    /\ Owned(job'[p], disk)
    /\ job'[p].own \subseteq job[p].own

LEMMA QuietlyKeeps ==
    ASSUME IInv, NEW p \in Processes, Quietly(p)
    PROVE  IInv'
  <1>1. \A q \in Processes \ {p} : job'[q] = job[q]
    BY DEF Quietly, IInv, Shape
  <1>2. Names' = Names
    BY DEF Quietly, Names
  <1>3. Shape'
    <2>1. \A q \in Processes : Whole(job[q])'
      BY <1>1 DEF Quietly, IInv, Shape, Whole
    <2>2. job' = [q \in Processes |-> job'[q]]
      BY DEF Quietly, IInv, Shape
    <2>3. QED
      BY <1>2, <2>1, <2>2 DEF Quietly, IInv, Shape
  <1>4. \A q \in Processes : Owned(job[q], disk)'
    <2>1. Owned(job[p], disk)'
      BY <1>2 DEF Quietly, Owned, Due, File
    <2>2. ASSUME NEW q \in Processes \ {p}
          PROVE  Owned(job[q], disk)'
      BY <1>1, <1>2 DEF Quietly, Owned, Due, File, IInv
    <2>3. QED
      BY <2>1, <2>2
  <1>5. Apart'
    BY <1>1 DEF Quietly, IInv, Apart
  <1>6. QED
    BY <1>3, <1>4, <1>5 DEF IInv

\* The steps before makeFiles and after it.
LEMMA AskingStep ==
    ASSUME IInv, NEW p \in Processes,
           \/ OpenArea(p) \/ Look(p) \/ AskCreate(p) \/ Create(p) \/ GiveUp(p)
           \/ AskMissing(p) \/ AllThere(p) \/ AskWhole(p)
           \/ NothingToComplete(p) \/ AskEmpty(p) \/ Judge(p) \/ Complete(p)
           \/ Made(p) \/ OpenFile(p) \/ ReadHeader(p) \/ Write(p) \/ Close(p) \/ Die(p)
    PROVE  Quietly(p)
  <1>1. Whole(job[p]) /\ Owned(job[p], disk) /\ making \in Seq(Names)
        /\ job = [q \in Processes |-> job[q]]
    BY Format DEF IInv, Shape
  <1>2. Owned(Idle, disk) /\ Idle.own = {} /\ Whole(Idle)
    BY DEF Owned, Idle, Due, Making, Whole
  <1>3. CASE Fail(p) /\ UNCHANGED <<making, disk>>
    BY <1>1, <1>2, <1>3 DEF Fail, Quietly
  <1>4. ASSUME NEW creating, NEW again, AskStands(p, creating, again),
               UNCHANGED <<making, disk>>
        PROVE  Quietly(p)
    <2>1. PICK left : job' = [job EXCEPT ![p] =
                [Idle EXCEPT !.step = "stands", !.left = left,
                             !.creating = creating, !.again = again]]
      BY <1>4 DEF AskStands
    <2>2. /\ job'[p].step = "stands" /\ job'[p].made = <<>> /\ job'[p].own = {}
          /\ Whole(job'[p]) /\ job' = [job EXCEPT ![p] = job'[p]]
      BY <1>1, <2>1 DEF Idle, Whole
    <2>3. QED
      BY <1>4, <2>2 DEF Quietly, Owned, Due, Making
  \* The fields that matter, when nothing is being made.
  <1>5. ASSUME UNCHANGED <<making, disk>>, job' = [job EXCEPT ![p] = job'[p]],
               Whole(job'[p]), job'[p].made = <<>>, job'[p].own \subseteq job[p].own,
               job'[p].step # "giveBack",
               job'[p].step \in Making => job'[p].left \in Seq(Names)
        PROVE  Quietly(p)
    BY <1>1, <1>5 DEF Quietly, Owned, Due
  <1>6. job[p].step \notin Making \cup {"giveBack"} => job[p].made = <<>>
    BY <1>1 DEF Owned
  <1>7. ASSUME Look(p)
        PROVE  Quietly(p)
    BY <1>1, <1>5, <1>6, <1>7 DEF Look, Quiet, Whole, Making
  <1>8. ASSUME NEW step, NEW names, GoOver(p, step, names), UNCHANGED <<making, disk>>,
               job[p].made = <<>>, step \notin Making \cup {"giveBack"}
        PROVE  Quietly(p)
    BY <1>1, <1>5, <1>8 DEF GoOver, Whole
  <1>9. ASSUME NEW keep, StartMaking(p, keep), UNCHANGED <<making, disk>>, job[p].made = <<>>
        PROVE  Quietly(p)
    BY <1>1, <1>5, <1>9 DEF StartMaking, Whole, Making
  <1>10. ASSUME StartOpening(p), UNCHANGED <<making, disk>>
         PROVE  Quietly(p)
    BY <1>1, <1>5, <1>10 DEF StartOpening, Whole, Making
  <1>11. ASSUME \/ OpenArea(p) \/ AskCreate(p) \/ Create(p) \/ GiveUp(p)
                \/ AskMissing(p) \/ AllThere(p) \/ AskWhole(p)
                \/ NothingToComplete(p) \/ AskEmpty(p) \/ Complete(p) \/ Made(p)
         PROVE  Quietly(p)
    <2>1. CASE AskEmpty(p)
      BY <1>1, <1>5, <1>6, <2>1 DEF AskEmpty, Go, At, Quiet, Whole, Making
    <2>2. CASE ~ AskEmpty(p)
      BY <1>3, <1>4, <1>6, <1>8, <1>9, <1>10, <1>11, <2>2
         DEF OpenArea, AskCreate, Create, GiveUp, AskMissing, AllThere, AskWhole,
             NothingToComplete, Complete, Made, Quiet, At, Making
    <2>3. QED
      BY <2>1, <2>2
  <1>12. ASSUME Judge(p)
         PROVE  Quietly(p)
    <2>1. CASE job' = [job EXCEPT ![p].seen = @ \ {NextSeen(p)}]
      BY <1>1, <1>5, <1>6, <1>12, <2>1 DEF Judge, At, Quiet, Whole, Making
    <2>2. QED
      BY <1>3, <1>12, <2>1 DEF Judge, Quiet
  <1>13. ASSUME OpenFile(p) \/ ReadHeader(p)
         PROVE  Quietly(p)
    <2>1. CASE Fail(p)
      BY <1>3, <1>13, <2>1 DEF OpenFile, ReadHeader, Quiet
    <2>2. CASE ~ Fail(p)
      BY <1>1, <1>5, <1>6, <1>13, <2>2 DEF OpenFile, ReadHeader, Go, At, Quiet, Whole, Making
    <2>3. QED
      BY <2>1, <2>2
  <1>14. ASSUME Write(p)
         PROVE  Quietly(p)
    BY <1>1, <1>14 DEF Write, Quietly
  <1>15. ASSUME Close(p) \/ Die(p)
         PROVE  Quietly(p)
    BY <1>3, <1>15 DEF Close, Die, Quiet
  <1>16. QED
    BY <1>7, <1>11, <1>12, <1>13, <1>14, <1>15

\* The steps of makeFiles that make no file and remove none.
LEMMA MakingStep ==
    ASSUME IInv, NEW p \in Processes,
           \/ Kept(p) \/ NotThere(p) \/ Taken(p) \/ Refused(p) \/ WriteHeader(p)
           \/ NotGivenBack(p) \/ GivenBack(p)
    PROVE  Quietly(p)
  <1>1. Whole(job[p]) /\ Owned(job[p], disk) /\ job = [q \in Processes |-> job[q]]
    BY DEF IInv, Shape
  <1>2. ASSUME Kept(p) \/ NotThere(p) \/ WriteHeader(p)
        PROVE  Quietly(p)
    <2>1. /\ UNCHANGED <<making, disk>>
          /\ job[p].step \in Making /\ job'[p].step \in Making
          /\ job'[p].left = job[p].left \/ (More(p) /\ job'[p].left = Tail(job[p].left))
          /\ job'[p].made = job[p].made /\ job'[p].own = job[p].own
          /\ Whole(job'[p]) /\ job' = [job EXCEPT ![p] = job'[p]]
      BY <1>1, <1>2 DEF Kept, NotThere, WriteHeader, Pop, Go, At, Quiet, Whole, Making
    <2>2. job'[p].left \in Seq(Names)
      <3>1. job[p].left \in Seq(Names)
        BY <1>1, <2>1 DEF Owned
      <3>2. job[p].left # <<>> => Tail(job[p].left) \in Seq(Names)
        BY <3>1
      <3>3. QED
        BY <2>1, <3>1, <3>2 DEF More
    <2>3. QED
      BY <1>1, <2>1, <2>2 DEF Quietly, Owned, Due, Making
  <1>3. ASSUME Taken(p) \/ Refused(p)
        PROVE  Quietly(p)
    <2>1. /\ UNCHANGED <<making, disk>>
          /\ job[p].step \in Making /\ job'[p].step = "giveBack"
          /\ job'[p].left = job[p].made /\ job'[p].own = job[p].own
          /\ Whole(job'[p]) /\ job' = [job EXCEPT ![p] = job'[p]]
      BY <1>1, <1>3 DEF Taken, Refused, Creating, StartGivingBack, At, Quiet, Whole, Making
    <2>2. QED
      BY <1>1, <2>1 DEF Quietly, Owned, Due, Making
  <1>4. ASSUME NotGivenBack(p)
        PROVE  Quietly(p)
    <2>1. /\ UNCHANGED <<making, disk>>
          /\ job[p].step = "giveBack" /\ job'[p].step = "giveBack" /\ More(p)
          /\ job'[p].left = Tail(job[p].left) /\ job'[p].own = job[p].own
          /\ Whole(job'[p]) /\ job' = [job EXCEPT ![p] = job'[p]]
      BY <1>1, <1>4 DEF NotGivenBack, Pop, At, Whole
    <2>2. QED
      BY <1>1, <2>1 DEF Quietly, Owned, Due, More, Making
  <1>5. ASSUME GivenBack(p)
        PROVE  Quietly(p)
    <2>1. Owned(Idle, disk) /\ Idle.own = {} /\ Whole(Idle)
      BY DEF Owned, Idle, Due, Making, Whole
    <2>2. QED
      BY <1>1, <1>5, <2>1 DEF GivenBack, Fail, Quiet, Quietly
  <1>6. QED
    BY <1>2, <1>3, <1>4, <1>5

\* A file is made under a name nobody has anything at.
LEMMA MakeFileStep ==
    ASSUME IInv, NEW p \in Processes, MakeFile(p)
    PROVE  IInv'
  <1>1. Whole(job[p]) /\ Owned(job[p], disk) /\ job = [q \in Processes |-> job[q]]
        /\ disk = [name \in Names |-> disk[name]] /\ None \notin File
    BY BoundsAssumption DEF IInv, Shape, File
  <1>2. PICK file \in FreeFile :
           /\ disk' = [disk EXCEPT ![Name(p)] = file]
           /\ job' = [job EXCEPT
                 ![p].step = IF Name(p) = HeadFile THEN "header" ELSE "make",
                 ![p].left = Tail(@), ![p].made = Append(@, Name(p)),
                 ![p].own = @ \cup {file}]
    BY DEF MakeFile
  <1>3. /\ UNCHANGED making /\ Names' = Names /\ File' = File
        /\ job[p].step \in Making /\ job[p].left # <<>> /\ disk[Name(p)] = None
    BY DEF MakeFile, Creating, More, At, Making, Names, File
  <1> DEFINE name == Head(job[p].left)
  <1>4. job[p].left \in Seq(Names)
    BY <1>1, <1>3 DEF Owned
  <1>5. name \in Names /\ Tail(job[p].left) \in Seq(Names) /\ name = Name(p)
    BY <1>3, <1>4 DEF Name
  <1> HIDE DEF name
  <1>6. /\ job'[p].step \in Making /\ job'[p].left = Tail(job[p].left)
        /\ job'[p].made = Append(job[p].made, name)
        /\ job'[p].own = job[p].own \cup {file}
        /\ Whole(job'[p])
    BY <1>1, <1>2, <1>5 DEF Whole, Making
  <1>7. \A q \in Processes \ {p} : job'[q] = job[q]
    BY <1>1, <1>2
  <1>8. file \in File /\ \A q \in Processes : file \notin job[q].own
    BY DEF FreeFile, InUse
  <1>9. disk'[name] = file /\ \A n \in Names \ {name} : disk'[n] = disk[n]
    BY <1>1, <1>2, <1>5
  <1>10. Shape'
    <2>1. \A q \in Processes : Whole(job[q])'
      BY <1>6, <1>7 DEF IInv, Shape, Whole
    <2>2. job' = [q \in Processes |-> job'[q]] /\ disk' = [n \in Names |-> disk'[n]]
      BY <1>1, <1>2
    <2>3. QED
      BY <1>3, <2>1, <2>2 DEF IInv, Shape
  \* What anybody has to take back is elsewhere.
  <1>11. \A q \in Processes : \A i \in DOMAIN Due(job[q]) :
            Due(job[q])[i] \in Names \ {name}
    <2>1. ASSUME NEW q \in Processes, NEW i \in DOMAIN Due(job[q])
          PROVE  Due(job[q])[i] \in Names \ {name}
      <3>1. job[q].own \subseteq File /\ disk[Due(job[q])[i]] \in job[q].own
            /\ Due(job[q]) \in Seq(Names)
        BY DEF IInv, Owned
      <3>2. Due(job[q])[i] \in Names
        BY <3>1
      <3>3. QED
        BY <1>1, <1>3, <1>5, <3>1, <3>2
    <2>2. QED
      BY <2>1
  <1>12. \A q \in Processes : Owned(job[q], disk)'
    <2>1. ASSUME NEW q \in Processes \ {p}
          PROVE  Owned(job[q], disk)'
      BY <1>3, <1>7, <1>9, <1>11 DEF IInv, Owned, Due
    <2>2. Owned(job[p], disk)'
      <3>1. Due(job[p]) = job[p].made /\ Due(job'[p]) = Append(job[p].made, name)
        BY <1>3, <1>6 DEF Due, Making
      <3>2. job[p].made \in Seq(Names) /\ Append(job[p].made, name) \in Seq(Names)
        BY <1>1, <1>5, <3>1 DEF Owned
      <3>3. \A i \in DOMAIN job[p].made : disk'[job[p].made[i]] \in job[p].own
        BY <1>1, <1>9, <1>11, <3>1 DEF Owned
      <3>4. \A i \in DOMAIN Append(job[p].made, name) :
               disk'[Append(job[p].made, name)[i]] \in job'[p].own
        BY <1>6, <1>9, <3>2, <3>3
      <3>5. \A i, k \in DOMAIN Append(job[p].made, name) :
               Append(job[p].made, name)[i] = Append(job[p].made, name)[k] => i = k
        BY <1>1, <1>11, <3>1, <3>2 DEF Owned
      <3>6. QED
        BY <1>1, <1>3, <1>5, <1>6, <1>8, <3>1, <3>2, <3>4, <3>5 DEF Owned, Due
    <2>3. QED
      BY <2>1, <2>2
  <1>13. Apart'
    BY <1>6, <1>7, <1>8 DEF IInv, Apart
  <1>14. QED
    BY <1>10, <1>12, <1>13 DEF IInv

\* A name is taken back: it is the caller's own file that goes.
LEMMA GiveBackStep ==
    ASSUME IInv, NEW p \in Processes, GiveBack(p)
    PROVE  /\ IInv'
           /\ Name(p) \in Names /\ disk[Name(p)] \in job[p].own
           /\ \A n \in Names \ {Name(p)} : disk'[n] = disk[n]
  <1>1. Whole(job[p]) /\ Owned(job[p], disk) /\ job = [q \in Processes |-> job[q]]
        /\ disk = [name \in Names |-> disk[name]]
    BY DEF IInv, Shape
  <1>2. /\ job[p].step = "giveBack" /\ job[p].left # <<>>
        /\ disk' = [disk EXCEPT ![Name(p)] = None]
        /\ job' = [job EXCEPT ![p].left = Tail(@)]
        /\ UNCHANGED making /\ Names' = Names /\ File' = File
    BY DEF GiveBack, At, More, Pop, Names, File
  <1> DEFINE name == Head(job[p].left)
  <1>3. job[p].left \in Seq(Names) /\ Due(job[p]) = job[p].left
    BY <1>1, <1>2 DEF Owned, Due
  <1>4. /\ name = Name(p) /\ 1 \in DOMAIN job[p].left /\ name = job[p].left[1]
        /\ name \in Names /\ Tail(job[p].left) \in Seq(Names)
    BY <1>2, <1>3 DEF Name
  <1> HIDE DEF name
  <1>5. disk[name] \in job[p].own
    BY <1>1, <1>3, <1>4 DEF Owned
  <1>6. \A n \in Names \ {name} : disk'[n] = disk[n]
    BY <1>1, <1>2, <1>4
  <1>7. /\ job'[p].step = "giveBack" /\ job'[p].left = Tail(job[p].left)
        /\ job'[p].made = job[p].made /\ job'[p].own = job[p].own /\ Whole(job'[p])
    BY <1>1, <1>2 DEF Whole
  <1>8. \A q \in Processes \ {p} : job'[q] = job[q]
    BY <1>1, <1>2
  <1>9. Shape'
    <2>1. \A q \in Processes : Whole(job[q])'
      BY <1>7, <1>8 DEF IInv, Shape, Whole
    <2>2. job' = [q \in Processes |-> job'[q]] /\ disk' = [n \in Names |-> disk'[n]]
      BY <1>1, <1>2
    <2>3. QED
      BY <1>2, <2>1, <2>2 DEF IInv, Shape
  <1>10. \A q \in Processes : Owned(job[q], disk)'
    <2>1. ASSUME NEW q \in Processes \ {p}
          PROVE  Owned(job[q], disk)'
      <3>1. Owned(job[q], disk) /\ job[q].own \cap job[p].own = {}
        BY DEF IInv, Apart
      <3>2. \A i \in DOMAIN Due(job[q]) : Due(job[q])[i] \in Names \ {name}
        BY <1>5, <3>1 DEF Owned
      <3>3. QED
        BY <1>2, <1>6, <1>8, <3>1, <3>2 DEF Owned, Due
    <2>2. Owned(job[p], disk)'
      <3>1. Due(job'[p]) = Tail(job[p].left)
        BY <1>7 DEF Due
      <3>2. \A i \in DOMAIN Tail(job[p].left) :
               /\ i + 1 \in DOMAIN job[p].left /\ i \in Nat
               /\ Tail(job[p].left)[i] = job[p].left[i + 1]
               /\ job[p].left[i + 1] \in Names
        BY <1>2, <1>3
      <3>3. \A i \in DOMAIN Tail(job[p].left) : Tail(job[p].left)[i] \in Names \ {name}
        <4>1. ASSUME NEW i \in DOMAIN Tail(job[p].left), job[p].left[i + 1] = name
              PROVE  FALSE
          <5>1. i + 1 = 1
            BY <1>1, <1>3, <1>4, <3>2, <4>1 DEF Owned
          <5>2. i \in DOMAIN Tail(job[p].left) /\ i = 0
            BY <3>2, <4>1, <5>1
          <5>3. QED
            BY <1>4, <5>2
        <4>2. QED
          BY <3>2, <4>1
      <3>4. \A i \in DOMAIN Tail(job[p].left) :
               disk'[Tail(job[p].left)[i]] \in job[p].own
        <4>1. \A k \in DOMAIN job[p].left : disk[job[p].left[k]] \in job[p].own
          BY <1>1, <1>3 DEF Owned
        <4>2. QED
          BY <1>6, <3>2, <3>3, <4>1
      <3>5. \A i, k \in DOMAIN Tail(job[p].left) :
               Tail(job[p].left)[i] = Tail(job[p].left)[k] => i = k
        <4>1. ASSUME NEW i \in DOMAIN Tail(job[p].left), NEW k \in DOMAIN Tail(job[p].left),
                     Tail(job[p].left)[i] = Tail(job[p].left)[k]
              PROVE  i = k
          <5>1. i + 1 = k + 1
            BY <1>1, <1>3, <3>2, <4>1 DEF Owned
          <5>2. QED
            BY <3>2, <5>1
        <4>2. QED
          BY <4>1
      <3>6. job[p].own \subseteq File
        BY <1>1 DEF Owned
      <3> DEFINE rest == Tail(job[p].left)
      <3>7. rest \in Seq(Names) /\ Due(job'[p]) = rest
        BY <1>4, <3>1
      <3>8. /\ \A i \in DOMAIN rest : disk'[rest[i]] \in job[p].own
            /\ \A i, k \in DOMAIN rest : rest[i] = rest[k] => i = k
        BY <3>4, <3>5
      <3> HIDE DEF rest
      <3>9. job'[p].own = job[p].own /\ job'[p].step \notin Making
        BY <1>7 DEF Making
      <3>10. job'[p].step = "giveBack"
        BY <1>7
      <3>11. Due(job[p])' = rest /\ Names' = Names /\ File' = File
        BY <1>2, <3>7 DEF Due
      <3>12. QED
        BY <3>6, <3>7, <3>8, <3>9, <3>10, <3>11 DEF Owned
    <2>3. QED
      BY <2>1, <2>2
  <1>11. Apart'
    BY <1>7, <1>8 DEF IInv, Apart
  <1>12. QED
    BY <1>4, <1>5, <1>6, <1>9, <1>10, <1>11 DEF IInv

\* The tosser makes a base where nothing is, so that nobody has anything to take
\* back, or fills one that is there.
LEMMA TossStep ==
    ASSUME IInv, Toss
    PROVE  IInv'
  <1>1. /\ UNCHANGED <<making, job>> /\ Names' = Names /\ File' = File
        /\ disk' = [name \in Names |-> disk'[name]]
    BY DEF Toss, Names, File, IInv, Shape
  <1>2. Shape'
    BY <1>1 DEF IInv, Shape, Whole
  <1>3. ASSUME NEW p \in Processes
        PROVE  Owned(job[p], disk)'
    <2>1. Owned(job[p], disk)
      BY DEF IInv
    <2>2. CASE UNCHANGED disk
      BY <1>1, <2>1, <2>2 DEF Owned, Due
    <2>3. CASE Standing = {}
      <3>1. \A i \in DOMAIN Due(job[p]) :
               Due(job[p])[i] \in Names /\ disk[Due(job[p])[i]] # None
        BY <2>1, BoundsAssumption DEF Owned, File
      <3>2. DOMAIN Due(job[p]) = {}
        BY <2>3, <3>1 DEF Standing
      <3>3. QED
        BY <1>1, <2>1, <3>2 DEF Owned, Due
    <2>4. QED
      BY <2>2, <2>3 DEF Toss
  <1>4. Apart'
    BY <1>1 DEF IInv, Apart
  <1>5. QED
    BY <1>2, <1>3, <1>4 DEF IInv

\* Every step keeps the invariant.
LEMMA NextInvariant == IInv /\ [Next]_vars => IInv'
  <1> SUFFICES ASSUME IInv, [Next]_vars
               PROVE  IInv'
    OBVIOUS
  <1>1. ASSUME NEW p \in Processes, Step(p)
        PROVE  IInv'
    BY <1>1, AskingStep, MakingStep, MakeFileStep, GiveBackStep, QuietlyKeeps DEF Step
  <1>2. CASE UNCHANGED vars
    <2>1. UNCHANGED <<making, disk, job, Names, File>>
      BY <1>2 DEF vars, Names, File
    <2>2. Shape' /\ Apart'
      BY <2>1 DEF IInv, Shape, Apart, Whole
    <2>3. \A p \in Processes : Owned(job[p], disk)'
      BY <2>1 DEF IInv, Owned, Due
    <2>4. QED
      BY <2>2, <2>3 DEF IInv
  <1>3. QED
    BY <1>1, <1>2, TossStep DEF Next

\* In every state what a call would take back is there, and is what it made.
THEOREM InvariantHolds == Spec => []IInv
  <1>1. QED
    BY InitInvariant, NextInvariant, PTL DEF Spec

\* However many programs make, complete, give back and open the files of a base
\* at once, refused or killed anywhere: a removal by name hits a file that the
\* caller made.
THEOREM OnlyItsOwn == Spec => TakesBackItsOwn
  <1>1. ASSUME IInv, [Next]_vars, NEW p \in Processes, At(p, "giveBack"), job'[p] # job[p],
               NEW name \in Standing, disk'[name] # disk[name]
        PROVE  disk[name] \in job[p].own
    <2>1. PICK q \in Processes : Step(q)
      BY <1>1 DEF Next, Toss, vars
    <2>2. CASE GiveBack(q)
      <3>1. q = p
        BY <1>1, <2>2 DEF GiveBack, Pop, IInv, Shape
      <3>2. QED
        BY <1>1, <2>2, <3>1, GiveBackStep DEF Standing
    <2>3. CASE MakeFile(q)
      <3>1. q = p
        BY <1>1, <2>3 DEF MakeFile, IInv, Shape
      <3>2. QED
        BY <1>1, <2>3, <3>1 DEF MakeFile, Creating, At
    <2>4. CASE ~ GiveBack(q) /\ ~ MakeFile(q)
      <3>1. Quietly(q)
        BY <1>1, <2>1, <2>4, AskingStep, MakingStep DEF Step
      <3>2. QED
        BY <1>1, <3>1 DEF Quietly
    <2>5. QED
      BY <2>2, <2>3, <2>4
  <1>2. IInv /\ [Next]_vars =>
           [\A p \in Processes :
               At(p, "giveBack") /\ job'[p] # job[p]
                  => \A name \in Standing : disk'[name] # disk[name] => disk[name] \in job[p].own]_vars
    BY <1>1
  <1>3. QED
    BY <1>2, InvariantHolds, PTL DEF Spec, TakesBackItsOwn

-----------------------------------------------------------------------------
(* What a process knows of the files, and what the files are to it.          *)

\* From the k-th to the m-th of the files, in the order they are made.
From(k, m) == [i \in 1 .. m - k + 1 |-> making[k + i - 1]]

\* All there, with a header: nobody makes or removes a file of it any more.
Sound == Standing = Names /\ holds[disk[HeadFile]] # "nothing"

\* A file is had, on the disk or open, under one name only.
Seat(f, name) == disk[name] = f \/ \E p \in Processes : job[p].open[name] = f
OneSeat == \A f \in File : \A a, b \in Names : Seat(f, a) /\ Seat(f, b) => a = b

Typed ==
    /\ disk \in [Names -> File \cup {None}]
    /\ holds \in [File -> {"nothing", "header", "mail"}]

\* Where a call is in its list; that a head it may still take back is blank; and
\* that the head it has open is in its place, or blank.
Ready(j) ==
    /\ j.left \in Seq(Names) /\ j.seen \subseteq Names
    /\ j.open \in [Names -> File \cup {None}]
    /\ j.step \in Making => \E k \in 1 .. Len(making) + 1 : j.left = From(k, Len(making))
    /\ j.step = "create" => j.left # <<>> /\ j.keep
    /\ j.step = "header" => j.left = <<>> /\ HeadFile \in ToSet(j.made)
    /\ HeadFile \in ToSet(Due(j)) =>
          \/ j.step = "make" /\ j.left = <<>>
          \/ j.step \in {"header", "giveBack"} /\ holds[disk[HeadFile]] = "nothing"
    /\ j.step \notin {"open", "reading"} => j.open[HeadFile] = None
    /\ j.step = "open" =>
          \/ j.left = PartsOf /\ j.open[HeadFile] = None
          \/ /\ j.open[HeadFile] # None
             /\ \E k \in 1 .. Len(making) : j.left = From(k, Len(making) - 1)
    /\ j.step = "reading" => j.open[HeadFile] # None /\ holds[j.open[HeadFile]] # "nothing"
    /\ j.open[HeadFile] # None =>
          holds[j.open[HeadFile]] = "nothing" \/ disk[HeadFile] = j.open[HeadFile]

\* What may hold mail for all the call has seen.
Unjudged(j) ==
    {name \in Names : \/ j.step = "judge" /\ name \in ToSet(j.left)
                      \/ j.step \in {"judge", "empty"} /\ name \in j.seen}

\* What the call found still stands, while no two make files at once.
Good(j) ==
    /\ j.step \in Making => \A name \in Names \ ToSet(j.left) : disk[name] # None
    /\ j.step = "make" /\ ~ j.keep =>
          (Sound /\ j.made = <<>>) \/ \A name \in ToSet(j.left) : disk[name] = None
    /\ j.step = "create" => (Sound /\ j.made = <<>>) \/ disk[Head(j.left)] = None
    /\ j.step = "stands" /\ j.creating =>
          \A name \in Names \ (ToSet(j.left) \cup j.seen) : Sound \/ disk[name] = None
    /\ j.step = "giveBack" /\ j.left # <<>> => ~ Sound
    /\ j.step = "reading" => Sound
    /\ j.step = "open" /\ j.open[HeadFile] # None /\ holds[j.open[HeadFile]] # "nothing" =>
          Sound \/ \E name \in ToSet(j.left) : disk[name] = None
    /\ j.step \in {"judge", "empty", "giveBack"} \cup Making =>
          \A name \in Mail : Sound \/ name \in Unjudged(j)

\* No two have files to take back.
Alone == \A p, q \in Processes : p # q => Due(job[p]) = <<>> \/ Due(job[q]) = <<>>

\* Whoever left the head blank is still there to see to it.
HeadDue(j) == j.step = "header" \/ (j.step = "giveBack" /\ HeadFile \in ToSet(j.left))
Startable ==
    Sound \/ \A name \in Standing :
                \/ IsEmpty(name)
                \/ /\ name = HeadFile /\ holds[disk[name]] = "nothing"
                   /\ \E p \in Processes : HeadDue(job[p])

Knows ==
    /\ Typed
    /\ OneSeat
    /\ \A p \in Processes : Ready(job[p])
    /\ ~ met => Alone /\ \A p \in Processes : Good(job[p])
    /\ ~ met /\ ~ spoilt => Startable

-----------------------------------------------------------------------------
(* The order of the files.                                                   *)

LEMMA OrderOfFiles ==
    ASSUME making \in Formats
    PROVE  /\ making \in Seq(Names) /\ Len(making) \in Nat \ {0}
           /\ DOMAIN making = 1 .. Len(making)
           /\ \A i, k \in 1 .. Len(making) : making[i] = making[k] => i = k
           /\ \A i \in 1 .. Len(making) : making[i] \in Names
           /\ \A name \in Names : \E i \in 1 .. Len(making) : name = making[i]
           /\ HeadFile = making[Len(making)] /\ HeadFile \in Names
<1>1. making \in Seq(Names) /\ making \in Seq(STRING) /\ Len(making) > 0 /\ IsInjective(making)
  BY Format, FormatsAssumption
<1>2. Len(making) \in Nat \ {0} /\ DOMAIN making = 1 .. Len(making)
  BY <1>1
<1>3. \A i, k \in 1 .. Len(making) : making[i] = making[k] => i = k
  BY <1>1, <1>2 DEF IsInjective
<1>4. HeadFile = making[Len(making)]
  BY DEF HeadFile, Last
<1> QED
  BY <1>1, <1>2, <1>3, <1>4 DEF Names, ToSet

LEMMA FromOrder ==
    ASSUME making \in Formats, NEW m \in 0 .. Len(making), NEW k \in 1 .. m + 1
    PROVE  /\ From(k, m) \in Seq(Names)
           /\ From(k, m) = <<>> <=> k = m + 1
           /\ ToSet(From(k, m)) = {making[i] : i \in k .. m}
           /\ k <= m => Head(From(k, m)) = making[k] /\ Tail(From(k, m)) = From(k + 1, m)
<1> DEFINE n == Len(making)
           s == From(k, m)
<1>1. n \in Nat /\ \A i \in 1 .. n : making[i] \in Names
  BY OrderOfFiles
<1>2. m \in Nat /\ m <= n /\ k \in Nat /\ k >= 1 /\ k <= m + 1
  BY <1>1
<1> HIDE DEF n
<1>3. \A i \in 1 .. m - k + 1 : k + i - 1 \in 1 .. n
  BY <1>1, <1>2
<1>4. s \in Seq(Names) /\ Len(s) = m - k + 1 /\ \A i \in 1 .. m - k + 1 : s[i] = making[k + i - 1]
  BY <1>1, <1>2, <1>3 DEF From
<1>5. s = <<>> <=> k = m + 1
  BY <1>2, <1>4
<1>6. ToSet(s) = {making[i] : i \in k .. m}
  <2>1. DOMAIN s = 1 .. m - k + 1
    BY DEF From
  <2>2. \A i \in DOMAIN s : k + i - 1 \in k .. m /\ s[i] = making[k + i - 1]
    BY <1>2, <1>4, <2>1
  <2>3. \A i \in k .. m : i - k + 1 \in DOMAIN s /\ k + (i - k + 1) - 1 = i
    BY <1>2, <2>1
  <2> HIDE DEF s
  <2> QED
    BY <2>2, <2>3 DEF ToSet
<1>7. k <= m => Head(s) = making[k] /\ Tail(s) = From(k + 1, m)
  <2> SUFFICES ASSUME k <= m
               PROVE  Head(s) = making[k] /\ Tail(s) = From(k + 1, m)
    OBVIOUS
  <2> HIDE DEF s
  <2>1. Head(s) = making[k]
    BY <1>2, <1>4
  <2>2. /\ Tail(s) \in Seq(Names) /\ Len(Tail(s)) = m - k
        /\ \A i \in 1 .. m - k : Tail(s)[i] = s[i + 1]
    BY <1>2, <1>4
  <2>3. Tail(s) = [i \in 1 .. m - k |-> Tail(s)[i]]
    <3> DEFINE t == Tail(s)
    <3>1. t \in Seq(Names) /\ Len(t) = m - k
      BY <2>2
    <3> HIDE DEF t
    <3>2. t = [i \in 1 .. Len(t) |-> t[i]]
      BY <3>1
    <3>3. t = [i \in 1 .. m - k |-> t[i]]
      BY <3>1, <3>2
    <3> QED
      BY <3>3 DEF t
  <2>4. \A i \in 1 .. m - k : Tail(s)[i] = making[(k + 1) + i - 1]
    <3>1. \A i \in 1 .. m - k : i + 1 \in 1 .. m - k + 1 /\ k + (i + 1) - 1 = (k + 1) + i - 1
      BY <1>2
    <3> QED
      BY <1>4, <2>2, <3>1
  <2>5. m - (k + 1) + 1 = m - k
    BY <1>2
  <2>6. Tail(s) = [i \in 1 .. m - k |-> making[(k + 1) + i - 1]]
    BY <2>3, <2>4
  <2> QED
    BY <2>1, <2>5, <2>6 DEF From
<1> QED
  BY <1>4, <1>5, <1>6, <1>7

LEMMA AllFrom ==
    ASSUME making \in Formats
    PROVE  making = From(1, Len(making)) /\ ToSet(making) = Names
<1>1. making \in Seq(Names) /\ Len(making) \in Nat /\ DOMAIN making = 1 .. Len(making)
  BY OrderOfFiles
<1>2. making = [i \in 1 .. Len(making) |-> making[i]]
  BY <1>1
<1>3. Len(making) - 1 + 1 = Len(making) /\ \A i \in 1 .. Len(making) : 1 + i - 1 = i
  BY <1>1
<1>4. [i \in 1 .. Len(making) |-> making[i]] = [i \in 1 .. Len(making) |-> making[1 + i - 1]]
  BY <1>3
<1> QED
  BY <1>2, <1>3, <1>4 DEF From, Names

\* A list is its head and the rest.
LEMMA HeadAndTail ==
    ASSUME NEW S, NEW s \in Seq(S), s # <<>>
    PROVE  /\ Head(s) \in S /\ Tail(s) \in Seq(S)
           /\ ToSet(s) = {Head(s)} \cup ToSet(Tail(s)) /\ ToSet(s) \subseteq S
<1>1. /\ Len(s) \in Nat \ {0} /\ DOMAIN s = 1 .. Len(s) /\ Head(s) = s[1] /\ Head(s) \in S
      /\ Tail(s) \in Seq(S) /\ DOMAIN Tail(s) = 1 .. Len(s) - 1
      /\ \A i \in 1 .. Len(s) - 1 : Tail(s)[i] = s[i + 1]
      /\ \A i \in 1 .. Len(s) : s[i] \in S
  OBVIOUS
<1>2. ASSUME NEW x \in ToSet(s)
      PROVE  x \in {Head(s)} \cup ToSet(Tail(s))
  <2>1. PICK i \in 1 .. Len(s) : x = s[i]
    BY <1>1 DEF ToSet
  <2>2. CASE i = 1
    BY <1>1, <2>1, <2>2
  <2>3. CASE i # 1
    <3>1. i - 1 \in 1 .. Len(s) - 1 /\ (i - 1) + 1 = i
      BY <1>1, <2>3
    <3>2. Tail(s)[i - 1] = x
      BY <1>1, <2>1, <3>1
    <3> QED
      BY <1>1, <3>1, <3>2 DEF ToSet
  <2> QED
    BY <2>2, <2>3
<1>3. ASSUME NEW x \in {Head(s)} \cup ToSet(Tail(s))
      PROVE  x \in ToSet(s)
  <2>1. CASE x = Head(s)
    BY <1>1, <2>1 DEF ToSet
  <2>2. CASE x \in ToSet(Tail(s))
    <3>1. PICK i \in 1 .. Len(s) - 1 : x = Tail(s)[i]
      BY <1>1, <2>2 DEF ToSet
    <3>2. i + 1 \in 1 .. Len(s)
      BY <1>1
    <3> QED
      BY <1>1, <3>1, <3>2 DEF ToSet
  <2> QED
    BY <1>3, <2>1, <2>2
<1> QED
  BY <1>1, <1>2, <1>3 DEF ToSet

LEMMA PartsInOrder ==
    ASSUME making \in Formats
    PROVE  /\ PartsOf \in Seq(Names) /\ PartsOf # <<>> /\ Head(PartsOf) = HeadFile
           /\ Tail(PartsOf) = From(1, Len(making) - 1) /\ ToSet(PartsOf) = Names
<1> DEFINE n == Len(making)
           rest == From(1, n - 1)
<1>1. /\ n \in Nat \ {0} /\ making \in Seq(Names) /\ HeadFile \in Names /\ HeadFile = making[n]
      /\ \A i \in 1 .. n : making[i] \in Names
      /\ \A name \in Names : \E i \in 1 .. n : name = making[i]
  BY OrderOfFiles
<1>2. n - 1 \in 0 .. n /\ 1 \in 1 .. (n - 1) + 1
  BY <1>1
<1>3. rest \in Seq(Names) /\ ToSet(rest) = {making[i] : i \in 1 .. n - 1}
  BY <1>2, FromOrder
<1>4. Front(making) = rest
  <2>1. SubSeq(making, 1, n - 1) = [i \in 1 .. n - 1 |-> making[1 + i - 1]]
    BY <1>1
  <2>2. (n - 1) - 1 + 1 = n - 1
    BY <1>1
  <2> QED
    BY <2>1, <2>2 DEF Front, From
<1>5. PartsOf = <<HeadFile>> \o rest
  BY <1>4 DEF PartsOf
<1> HIDE DEF rest
<1>6. /\ PartsOf \in Seq(Names) /\ PartsOf # <<>> /\ Head(PartsOf) = HeadFile
      /\ Tail(PartsOf) = rest
  <2>1. <<HeadFile>> \in Seq(Names) /\ Len(<<HeadFile>>) = 1 /\ <<HeadFile>>[1] = HeadFile
    BY <1>1
  <2>2. /\ PartsOf \in Seq(Names) /\ Len(PartsOf) = 1 + Len(rest) /\ Len(rest) \in Nat
        /\ PartsOf[1] = HeadFile
        /\ \A i \in 1 .. Len(rest) : PartsOf[i + 1] = rest[i]
    BY <1>3, <1>5, <2>1
  <2> DEFINE t == Tail(PartsOf)
  <2>3. /\ t \in Seq(Names) /\ Len(t) = Len(rest)
        /\ \A i \in 1 .. Len(rest) : t[i] = PartsOf[i + 1]
    BY <2>2
  <2>4. PartsOf # <<>> /\ Head(PartsOf) = HeadFile
    BY <2>2
  <2> HIDE DEF t
  <2>5. t = rest
    BY <1>3, <2>2, <2>3
  <2> QED
    BY <2>2, <2>4, <2>5 DEF t
<1>7. ToSet(PartsOf) = {HeadFile} \cup {making[i] : i \in 1 .. n - 1}
  BY <1>3, <1>6, HeadAndTail
<1>8. \A i \in 1 .. n : i = n \/ i \in 1 .. n - 1
  BY <1>1
<1>9. {HeadFile} \cup {making[i] : i \in 1 .. n - 1} = Names
  BY <1>1, <1>8
<1> QED
  BY <1>6, <1>7, <1>9 DEF rest

-----------------------------------------------------------------------------
(* The steps that touch no file: the process moves on.                       *)

Moves(p) ==
    /\ UNCHANGED <<making, disk, holds, met>>
    /\ job' = [job EXCEPT ![p] = job'[p]]
    /\ Ready(job'[p])
    /\ \A name \in Names : job'[p].open[name] \in {None, job[p].open[name], disk[name]}
    /\ Due(job[p]) = <<>> => Due(job'[p]) = <<>>
    /\ ~ met => Good(job'[p])
    /\ ~ spoilt' => ~ spoilt /\ (HeadDue(job[p]) => HeadDue(job'[p]))

LEMMA MovesKeeps ==
    ASSUME IInv, Knows, NEW p \in Processes, Moves(p)
    PROVE  Knows'
<1>1. \A q \in Processes \ {p} : job'[q] = job[q]
  BY DEF Moves, IInv, Shape
<1>2. /\ UNCHANGED <<making, disk, holds, met>> /\ Names' = Names /\ File' = File
      /\ HeadFile' = HeadFile /\ PartsOf' = PartsOf /\ Standing' = Standing
      /\ Sound' = Sound /\ Mail' = Mail
  BY DEF Moves, Names, File, HeadFile, PartsOf, Standing, Sound, Mail
<1>3. Typed'
  BY <1>2 DEF Knows, Typed
<1>4. OneSeat'
  <2>1. ASSUME NEW f \in File, NEW name \in Names, Seat(f, name)'
        PROVE  Seat(f, name)
    <3>1. CASE disk[name] = f
      BY <3>1 DEF Seat
    <3>2. CASE disk[name] # f
      <4>1. PICK q \in Processes : job'[q].open[name] = f
        BY <1>2, <2>1, <3>2 DEF Seat
      <4>2. None # f
        BY BoundsAssumption DEF File
      <4>3. job[q].open[name] = f
        BY <1>1, <3>2, <4>1, <4>2 DEF Moves
      <4> QED
        BY <4>3 DEF Seat
    <3> QED
      BY <3>1, <3>2
  <2>2. OneSeat
    BY DEF Knows
  <2> QED
    BY <1>2, <2>1, <2>2 DEF OneSeat
<1>5. \A q \in Processes : Ready(job[q])'
  <2>0. \A k, m : From(k, m)' = From(k, m)
    BY <1>2 DEF From
  <2>1. Ready(job[p])'
    BY <1>2, <2>0 DEF Moves, Ready, Due
  <2>2. ASSUME NEW q \in Processes \ {p}
        PROVE  Ready(job[q])'
    <3>1. Ready(job[q]) /\ job'[q] = job[q]
      BY <1>1 DEF Knows
    <3> QED
      BY <1>2, <2>0, <3>1 DEF Ready, Due
  <2> QED
    BY <2>1, <2>2
<1>6. ASSUME ~ met'
      PROVE  Alone' /\ \A q \in Processes : Good(job[q])'
  <2>1. ~ met /\ Alone /\ \A q \in Processes : Good(job[q])
    BY <1>2, <1>6 DEF Knows
  <2>2. \A q \in Processes : Due(job[q]) = <<>> => Due(job'[q]) = <<>>
    BY <1>1 DEF Moves
  <2>3. \A q \in Processes : Due(job[q])' = Due(job'[q])
    BY DEF Due
  <2>4. Alone'
    BY <2>1, <2>2, <2>3 DEF Alone
  <2>5. Good(job[p])'
    BY <1>2, <2>1 DEF Moves, Good, Unjudged
  <2>6. ASSUME NEW q \in Processes \ {p}
        PROVE  Good(job[q])'
    <3>1. Good(job[q]) /\ job'[q] = job[q]
      BY <1>1, <2>1
    <3> QED
      BY <1>2, <3>1 DEF Good, Unjudged
  <2> QED
    BY <2>4, <2>5, <2>6
<1>7. ASSUME ~ met', ~ spoilt'
      PROVE  Startable'
  <2>1. Startable /\ (HeadDue(job[p]) => HeadDue(job'[p]))
    BY <1>2, <1>7 DEF Knows, Moves
  <2>2. \A q \in Processes : HeadDue(job[q]) => HeadDue(job[q])'
    BY <1>1, <1>2, <2>1 DEF HeadDue
  <2>3. \A name \in Standing : IsEmpty(name)' = IsEmpty(name)
    BY <1>2 DEF IsEmpty, Fresh
  <2> QED
    BY <1>2, <2>1, <2>2, <2>3 DEF Startable
<1> QED
  BY <1>3, <1>4, <1>5, <1>6, <1>7 DEF Knows

\* What is known of a process before its step.
LEMMA JobNow ==
    ASSUME IInv, Knows, NEW p \in Processes
    PROVE  /\ Whole(job[p]) /\ Owned(job[p], disk) /\ job = [q \in Processes |-> job[q]]
           /\ Ready(job[p]) /\ (~ met => Good(job[p])) /\ making \in Formats /\ Typed
BY DEF IInv, Shape, Knows

LEMMA NothingInEmpty == ToSet(<<>>) = {}
BY DEF ToSet

LEMMA IdleKnows ==
    ASSUME making \in Formats
    PROVE  Ready(Idle) /\ Good(Idle) /\ Due(Idle) = <<>> /\ ~ HeadDue(Idle)
<1>1. /\ Idle.step = "idle" /\ Idle.left = <<>> /\ Idle.seen = {} /\ Idle.made = <<>>
      /\ Idle.open = [name \in Names |-> None]
  BY DEF Idle
<1>2. HeadFile \in Names
  BY OrderOfFiles
<1>3. Due(Idle) = <<>> /\ ~ HeadDue(Idle)
  BY <1>1 DEF Due, HeadDue
<1>4. Ready(Idle)
  BY <1>1, <1>2, <1>3, NothingInEmpty DEF Ready, Making
<1>5. Good(Idle)
  BY <1>1 DEF Good, Making
<1> QED
  BY <1>3, <1>4, <1>5

LEMMA FailMoves ==
    ASSUME IInv, Knows, NEW p \in Processes, Fail(p), UNCHANGED <<making, disk, holds, met>>,
           ~ spoilt' => ~ spoilt /\ ~ HeadDue(job[p])
    PROVE  Moves(p)
<1>1. /\ job'[p] = Idle /\ job' = [job EXCEPT ![p] = job'[p]]
  BY JobNow DEF Fail
<1>2. Idle.open = [name \in Names |-> None]
  BY DEF Idle
<1>3. Ready(Idle) /\ Good(Idle) /\ Due(Idle) = <<>>
  BY JobNow, IdleKnows
<1> QED
  BY <1>1, <1>2, <1>3 DEF Moves

LEMMA AskStandsMoves ==
    ASSUME IInv, Knows, NEW p \in Processes, NEW creating, NEW again,
           AskStands(p, creating, again), Quiet, ~ HeadDue(job[p])
    PROVE  Moves(p)
<1> DEFINE j == [Idle EXCEPT !.step = "stands", !.left = <<HeadFile>> \o PartsOf,
                             !.creating = creating, !.again = again]
<1>1. job'[p] = j /\ job' = [job EXCEPT ![p] = job'[p]]
  BY JobNow DEF AskStands
<1>2. /\ j.step = "stands" /\ j.left = <<HeadFile>> \o PartsOf /\ j.seen = {} /\ j.made = <<>>
      /\ j.open = [name \in Names |-> None]
  BY DEF Idle
<1> HIDE DEF j
<1>3. /\ HeadFile \in Names /\ PartsOf \in Seq(Names) /\ ToSet(PartsOf) = Names
  BY JobNow, OrderOfFiles, PartsInOrder
<1>4. j.left \in Seq(Names) /\ j.left # <<>> /\ Tail(j.left) = PartsOf
  BY <1>2, <1>3
<1>5. ToSet(j.left) = Names
  BY <1>3, <1>4, HeadAndTail
<1>6. Ready(j)
  BY <1>2, <1>3, <1>4, NothingInEmpty DEF Ready, Due, Making
<1>7. Good(j)
  BY <1>2, <1>5 DEF Good, Making
<1>8. Due(j) = <<>>
  BY <1>2 DEF Due
<1> QED
  BY <1>1, <1>2, <1>6, <1>7, <1>8 DEF Moves, Quiet

\* The listings: nothing is being made.
LEMMA LookMoves ==
    ASSUME IInv, Knows, NEW p \in Processes, Look(p)
    PROVE  Moves(p)
<1> DEFINE j == job[p]
           k == job'[p]
<1>1. /\ Ready(j) /\ Owned(j, disk) /\ (~ met => Good(j)) /\ making \in Formats
      /\ Whole(j) /\ job = [q \in Processes |-> job[q]]
  BY JobNow
<1>2. /\ k = [j EXCEPT !.left = Tail(j.left), !.seen = j.seen \cup ({Name(p)} \cap Standing)]
      /\ job' = [job EXCEPT ![p] = k]
  BY <1>1 DEF Look
<1>3. /\ k.step = j.step /\ k.left = Tail(j.left) /\ k.creating = j.creating /\ k.made = j.made
      /\ k.seen = j.seen \cup ({Head(j.left)} \cap Standing) /\ k.open = j.open
  BY <1>1, <1>2 DEF Whole, Name
<1>4. j.step \in {"stands", "missing", "judge"} /\ j.left # <<>> /\ Quiet
  BY DEF Look, More
<1> HIDE DEF j, k
<1>5. j.left \in Seq(Names) /\ j.seen \subseteq Names
  BY <1>1 DEF Ready
<1>6. /\ Head(j.left) \in Names /\ Tail(j.left) \in Seq(Names)
      /\ ToSet(j.left) = {Head(j.left)} \cup ToSet(Tail(j.left))
  BY <1>4, <1>5, HeadAndTail
<1>7. Due(j) = <<>> /\ Due(k) = <<>>
  BY <1>1, <1>3, <1>4 DEF Owned, Due, Making
<1>8. Ready(k)
  BY <1>1, <1>3, <1>4, <1>5, <1>6, <1>7, NothingInEmpty DEF Ready, Making, Standing
<1>9. Good(j) => Good(k)
  <2>1. Mail \subseteq Standing /\ \A name \in Names : name \notin Standing => disk[name] = None
    BY DEF Mail, Standing
  <2> QED
    BY <1>3, <1>4, <1>6, <2>1 DEF Good, Unjudged, Making
<1>10. ~ HeadDue(j)
  BY <1>4 DEF HeadDue
<1> QED
  BY <1>1, <1>2, <1>3, <1>4, <1>7, <1>8, <1>9, <1>10 DEF Moves, Quiet, j, k

LEMMA StartOpeningMoves ==
    ASSUME IInv, Knows, NEW p \in Processes, StartOpening(p), Quiet,
           job[p].step \notin {"open", "reading"}, ~ HeadDue(job[p])
    PROVE  Moves(p)
<1> DEFINE j == job[p]
           k == job'[p]
<1>1. /\ Ready(j) /\ making \in Formats /\ Whole(j) /\ job = [q \in Processes |-> job[q]]
  BY JobNow
<1>2. /\ k = [j EXCEPT !.step = "open", !.left = PartsOf, !.made = <<>>, !.own = {}]
      /\ job' = [job EXCEPT ![p] = k]
  BY <1>1 DEF StartOpening
<1>3. /\ k.step = "open" /\ k.left = PartsOf /\ k.seen = j.seen /\ k.made = <<>>
      /\ k.open = j.open
  BY <1>1, <1>2 DEF Whole
<1>4. j.step \notin {"open", "reading"}
  OBVIOUS
<1> HIDE DEF j, k
<1>5. PartsOf \in Seq(Names)
  BY <1>1, PartsInOrder
<1>6. j.open[HeadFile] = None
  BY <1>1, <1>4 DEF Ready
<1>7. Due(k) = <<>>
  BY <1>3 DEF Due
<1>8. Ready(k)
  BY <1>1, <1>3, <1>5, <1>6, <1>7, NothingInEmpty DEF Ready, Making
<1>9. Good(k)
  BY <1>3, <1>6 DEF Good, Making
<1> QED
  BY <1>1, <1>2, <1>3, <1>7, <1>8, <1>9 DEF Moves, Quiet, j, k

\* makeFiles begins: from the first of the files.
LEMMA StartMakingMoves ==
    ASSUME IInv, Knows, NEW p \in Processes, NEW keep \in BOOLEAN, StartMaking(p, keep), Quiet,
           job[p].step \in {"stands", "empty"},
           ~ met /\ ~ Sound => Mail = {} /\ (~ keep => Standing = {})
    PROVE  Moves(p)
<1> DEFINE j == job[p]
           k == job'[p]
<1>1. /\ Ready(j) /\ Owned(j, disk) /\ making \in Formats
      /\ Whole(j) /\ job = [q \in Processes |-> job[q]]
  BY JobNow
<1>2. /\ k = [j EXCEPT !.step = "make", !.left = making, !.keep = keep]
      /\ job' = [job EXCEPT ![p] = k]
  BY <1>1 DEF StartMaking
<1>3. /\ k.step = "make" /\ k.left = making /\ k.seen = j.seen /\ k.made = j.made
      /\ k.open = j.open /\ k.keep = keep
  BY <1>1, <1>2 DEF Whole
<1>4. j.step \in {"stands", "empty"}
  OBVIOUS
<1> HIDE DEF j, k
<1>5. /\ making \in Seq(Names) /\ making = From(1, Len(making)) /\ ToSet(making) = Names
      /\ 1 \in 1 .. Len(making) + 1
  BY <1>1, OrderOfFiles, AllFrom
<1>6. j.made = <<>> /\ Due(j) = <<>> /\ Due(k) = <<>>
  BY <1>1, <1>3, <1>4 DEF Owned, Due, Making
<1>7. Ready(k)
  BY <1>1, <1>3, <1>4, <1>5, <1>6, NothingInEmpty DEF Ready, Making
<1>8. ~ met => Good(k)
  <2>1. \A name \in Names : name \notin Standing => disk[name] = None
    BY DEF Standing
  <2> QED
    BY <1>3, <1>5, <1>6, <2>1 DEF Good, Making
<1>9. ~ HeadDue(j)
  BY <1>4 DEF HeadDue
<1> QED
  BY <1>1, <1>2, <1>3, <1>6, <1>7, <1>8, <1>9 DEF Moves, Quiet, j, k

LEMMA CreateMoves ==
    ASSUME IInv, Knows, NEW p \in Processes, Create(p)
    PROVE  Moves(p)
<1>1. /\ job[p].step = "stands" /\ job[p].left = <<>> /\ job[p].seen = {} /\ job[p].creating
      /\ StartMaking(p, FALSE) /\ Quiet
  BY DEF Create, At, More
<1>2. ASSUME ~ met, ~ Sound
      PROVE  Mail = {} /\ Standing = {}
  <2>1. Good(job[p])
    BY <1>2, JobNow
  <2>2. \A name \in Names : disk[name] = None
    BY <1>1, <1>2, <2>1, NothingInEmpty DEF Good
  <2> QED
    BY <2>2 DEF Mail, Standing
<1> QED
  BY <1>1, <1>2, StartMakingMoves

LEMMA CompleteMoves ==
    ASSUME IInv, Knows, NEW p \in Processes, Complete(p)
    PROVE  Moves(p)
<1>1. /\ job[p].step = "empty" /\ job[p].seen = {} /\ StartMaking(p, TRUE) /\ Quiet
  BY DEF Complete, At
<1>2. ASSUME ~ met, ~ Sound
      PROVE  Mail = {}
  <2>1. Good(job[p])
    BY <1>2, JobNow
  <2>2. Unjudged(job[p]) = {}
    BY <1>1 DEF Unjudged
  <2> QED
    BY <1>1, <1>2, <2>1, <2>2 DEF Good
<1> QED
  BY <1>1, <1>2, StartMakingMoves

LEMMA GoOverMoves ==
    ASSUME IInv, Knows, NEW p \in Processes, NEW step \in {"missing", "judge"},
           GoOver(p, step, PartsOf), Quiet, job[p].step \in {"stands", "missing"}
    PROVE  Moves(p)
<1> DEFINE j == job[p]
           k == job'[p]
<1>1. /\ Ready(j) /\ Owned(j, disk) /\ making \in Formats
      /\ Whole(j) /\ job = [q \in Processes |-> job[q]]
  BY JobNow
<1>2. /\ k = [j EXCEPT !.step = step, !.left = PartsOf, !.seen = {}]
      /\ job' = [job EXCEPT ![p] = k]
  BY <1>1 DEF GoOver
<1>3. /\ k.step = step /\ k.left = PartsOf /\ k.seen = {} /\ k.made = j.made /\ k.open = j.open
  BY <1>1, <1>2 DEF Whole
<1>4. j.step \in {"stands", "missing"}
  OBVIOUS
<1> HIDE DEF j, k
<1>5. PartsOf \in Seq(Names) /\ ToSet(PartsOf) = Names
  BY <1>1, PartsInOrder
<1>6. j.made = <<>> /\ Due(j) = <<>> /\ Due(k) = <<>>
  BY <1>1, <1>3, <1>4 DEF Owned, Due, Making
<1>7. Ready(k)
  BY <1>1, <1>3, <1>4, <1>5, <1>6, NothingInEmpty DEF Ready, Making
<1>8. Good(k)
  <2>1. step = "judge" => Unjudged(k) = Names
    BY <1>3, <1>5 DEF Unjudged
  <2>2. Mail \subseteq Names
    BY DEF Mail, Standing
  <2> QED
    BY <1>3, <2>1, <2>2 DEF Good, Making
<1>9. ~ HeadDue(j)
  BY <1>4 DEF HeadDue
<1> QED
  BY <1>1, <1>2, <1>3, <1>6, <1>7, <1>8, <1>9 DEF Moves, Quiet, j, k

LEMMA AskEmptyMoves ==
    ASSUME IInv, Knows, NEW p \in Processes, AskEmpty(p)
    PROVE  Moves(p)
<1> DEFINE j == job[p]
           k == job'[p]
<1>1. /\ Ready(j) /\ Owned(j, disk) /\ (~ met => Good(j)) /\ making \in Formats
      /\ Whole(j) /\ job = [q \in Processes |-> job[q]]
  BY JobNow
<1>2. /\ j.step = "judge" /\ j.left = <<>> /\ Quiet
      /\ k = [j EXCEPT !.step = "empty"] /\ job' = [job EXCEPT ![p] = k]
  BY <1>1 DEF AskEmpty, Go, At, More
<1>3. /\ k.step = "empty" /\ k.left = j.left /\ k.seen = j.seen /\ k.made = j.made
      /\ k.open = j.open
  BY <1>1, <1>2 DEF Whole
<1> HIDE DEF j, k
<1>4. j.made = <<>> /\ Due(j) = <<>> /\ Due(k) = <<>>
  BY <1>1, <1>2, <1>3 DEF Owned, Due, Making
<1>5. Ready(k)
  BY <1>1, <1>2, <1>3, <1>4, NothingInEmpty DEF Ready, Making
<1>6. Good(j) => Good(k)
  <2>1. Unjudged(j) = Unjudged(k)
    BY <1>2, <1>3, NothingInEmpty DEF Unjudged
  <2> QED
    BY <1>2, <1>3, <2>1 DEF Good, Making
<1>7. ~ HeadDue(j)
  BY <1>2 DEF HeadDue
<1> QED
  BY <1>1, <1>2, <1>3, <1>4, <1>5, <1>6, <1>7 DEF Moves, Quiet, j, k

LEMMA JudgeMoves ==
    ASSUME IInv, Knows, NEW p \in Processes, Judge(p)
    PROVE  Moves(p)
<1>1. job[p].step = "empty" /\ Quiet
  BY DEF Judge, At
<1>2. CASE Fail(p)
  BY <1>1, <1>2, FailMoves DEF Quiet, HeadDue
<1>3. CASE ~ Fail(p)
  <2> DEFINE j == job[p]
             k == job'[p]
  <2>1. /\ Ready(j) /\ Owned(j, disk) /\ (~ met => Good(j)) /\ making \in Formats
        /\ Whole(j) /\ job = [q \in Processes |-> job[q]]
    BY JobNow
  <2>2. /\ IsEmpty(NextSeen(p)) /\ k = [j EXCEPT !.seen = j.seen \ {NextSeen(p)}]
        /\ job' = [job EXCEPT ![p] = k]
    BY <1>3, <2>1 DEF Judge
  <2>3. /\ k.step = "empty" /\ k.left = j.left /\ k.seen = j.seen \ {NextSeen(p)}
        /\ k.made = j.made /\ k.open = j.open /\ j.step = "empty"
    BY <1>1, <2>1, <2>2 DEF Whole
  <2> HIDE DEF j, k
  <2>4. j.made = <<>> /\ Due(j) = <<>> /\ Due(k) = <<>>
    BY <2>1, <2>3 DEF Owned, Due, Making
  <2>5. Ready(k)
    BY <2>1, <2>3, <2>4, NothingInEmpty DEF Ready, Making
  <2>6. Good(j) => Good(k)
    <3>1. NextSeen(p) \notin Mail
      BY <2>2 DEF IsEmpty, Fresh, Mail
    <3>2. \A name \in Unjudged(j) : name \in Unjudged(k) \/ name = NextSeen(p)
      BY <2>3 DEF Unjudged
    <3> QED
      BY <2>3, <3>1, <3>2 DEF Good, Making
  <2>7. ~ HeadDue(j)
    BY <2>3 DEF HeadDue
  <2> QED
    BY <1>1, <2>1, <2>2, <2>3, <2>4, <2>5, <2>6, <2>7 DEF Moves, Quiet, j, k
<1> QED
  BY <1>2, <1>3

\* The steps before makeFiles, and the ends of calls.
LEMMA AskingMoves ==
    ASSUME IInv, Knows, NEW p \in Processes,
           \/ OpenArea(p) \/ Look(p) \/ AskCreate(p) \/ Create(p) \/ GiveUp(p)
           \/ AskMissing(p) \/ AllThere(p) \/ AskWhole(p)
           \/ NothingToComplete(p) \/ AskEmpty(p) \/ Judge(p) \/ Complete(p)
           \/ GivenBack(p) \/ Close(p) \/ Die(p)
    PROVE  Moves(p)
<1>1. ASSUME OpenArea(p) \/ AskCreate(p)
      PROVE  Moves(p)
  BY <1>1, AskStandsMoves DEF OpenArea, AskCreate, At, HeadDue
<1>2. ASSUME GiveUp(p) \/ NothingToComplete(p) \/ Close(p)
      PROVE  Moves(p)
  BY <1>2, FailMoves DEF GiveUp, NothingToComplete, Close, At, HeadDue, Quiet
<1>3. ASSUME GivenBack(p)
      PROVE  Moves(p)
  BY <1>3, FailMoves, NothingInEmpty DEF GivenBack, At, More, HeadDue, Quiet
<1>4. ASSUME Die(p)
      PROVE  Moves(p)
  <2>1. job[p].left \in Seq(Names)
    BY JobNow DEF Ready
  <2>2. HeadFile \in ToSet(job[p].left) => Contains(job[p].left, HeadFile)
    BY <2>1 DEF ToSet, Contains
  <2>3. ~ spoilt' => ~ spoilt /\ ~ HeadDue(job[p])
    BY <1>4, <2>2 DEF Die, At, HeadDue
  <2> QED
    BY <1>4, <2>3, FailMoves DEF Die
<1>5. ASSUME AskMissing(p) \/ AskWhole(p)
      PROVE  Moves(p)
  BY <1>5, GoOverMoves DEF AskMissing, AskWhole, At
<1>6. ASSUME AllThere(p)
      PROVE  Moves(p)
  BY <1>6, StartOpeningMoves DEF AllThere, HeadDue
<1> QED
  BY <1>1, <1>2, <1>3, <1>4, <1>5, <1>6, LookMoves, CreateMoves, AskEmptyMoves, JudgeMoves,
     CompleteMoves

\* makeFiles goes on to the next file, or finds that it has to make this one.
LEMMA KeptMoves ==
    ASSUME IInv, Knows, NEW p \in Processes, Kept(p) \/ NotThere(p)
    PROVE  Moves(p)
<1> DEFINE j == job[p]
           k == job'[p]
<1>1. /\ Ready(j) /\ Owned(j, disk) /\ (~ met => Good(j)) /\ making \in Formats
      /\ Whole(j) /\ job = [q \in Processes |-> job[q]]
  BY JobNow
<1>2. /\ j.step = "make" /\ j.left # <<>> /\ j.keep /\ Quiet
      /\ \/ Head(j.left) \in Standing /\ k = [j EXCEPT !.left = Tail(j.left)]
         \/ Head(j.left) \notin Standing /\ k = [j EXCEPT !.step = "create"]
      /\ job' = [job EXCEPT ![p] = k]
  BY <1>1 DEF Kept, NotThere, Pop, Go, At, More, Name
<1>3. /\ k.seen = j.seen /\ k.made = j.made /\ k.open = j.open /\ k.keep = j.keep
      /\ \/ Head(j.left) \in Standing /\ k.step = "make" /\ k.left = Tail(j.left)
         \/ Head(j.left) \notin Standing /\ k.step = "create" /\ k.left = j.left
  BY <1>1, <1>2 DEF Whole
<1> HIDE DEF j, k
<1>4. j.left \in Seq(Names)
  BY <1>1 DEF Ready
<1>5. /\ Head(j.left) \in Names /\ Tail(j.left) \in Seq(Names)
      /\ ToSet(j.left) = {Head(j.left)} \cup ToSet(Tail(j.left))
  BY <1>2, <1>4, HeadAndTail
<1>6. Due(j) = j.made /\ Due(k) = j.made
  BY <1>2, <1>3 DEF Due
<1>7. HeadFile \notin ToSet(j.made)
  BY <1>1, <1>2, <1>6 DEF Ready
<1>8. Ready(k)
  <2>1. \E i \in 1 .. Len(making) + 1 : k.left = From(i, Len(making))
    <3>1. PICK i \in 1 .. Len(making) + 1 : j.left = From(i, Len(making))
      BY <1>1, <1>2 DEF Ready, Making
    <3>2. Len(making) \in Nat /\ Len(making) \in 0 .. Len(making)
      BY <1>1, OrderOfFiles
    <3>3. i <= Len(making) /\ Tail(j.left) = From(i + 1, Len(making))
      BY <1>1, <1>2, <3>1, <3>2, FromOrder, SMTT(20)
    <3>4. i + 1 \in 1 .. Len(making) + 1
      BY <3>2, <3>3
    <3> QED
      BY <1>3, <3>1, <3>3, <3>4
  <2>2. k.left \in Seq(Names) /\ k.step \in {"make", "create"} /\ (k.step = "create" => k.left # <<>>)
    BY <1>2, <1>3, <1>4, <1>5
  <2> QED
    BY <1>1, <1>2, <1>3, <1>6, <1>7, <2>1, <2>2 DEF Ready, Making
<1>9. Good(j) => Good(k)
  <2>1. \A name \in Names : name \notin Standing <=> disk[name] = None
    BY DEF Standing
  <2>2. Unjudged(j) = {}
    BY <1>2 DEF Unjudged
  <2> QED
    BY <1>2, <1>3, <1>5, <2>1, <2>2 DEF Good, Making
<1>10. ~ HeadDue(j)
  BY <1>2 DEF HeadDue
<1> QED
  BY <1>1, <1>2, <1>3, <1>6, <1>8, <1>9, <1>10 DEF Moves, Quiet, j, k

\* A creation fails, or the header: what was made is to go.  The base is not all
\* there then.
LEMMA RefusedMoves ==
    ASSUME IInv, Knows, NEW p \in Processes, Taken(p) \/ Refused(p)
    PROVE  Moves(p)
<1> DEFINE j == job[p]
           k == job'[p]
<1>1. /\ Ready(j) /\ Owned(j, disk) /\ (~ met => Good(j)) /\ making \in Formats
      /\ Whole(j) /\ job = [q \in Processes |-> job[q]]
  BY JobNow
<1>2. /\ \/ /\ j.left # <<>> /\ (j.step = "create" \/ (j.step = "make" /\ ~ j.keep))
         \/ j.step = "header"
      /\ k = [j EXCEPT !.step = "giveBack", !.left = j.made]
      /\ job' = [job EXCEPT ![p] = k]
      /\ UNCHANGED <<making, disk, holds, met, spoilt>>
  BY <1>1 DEF Taken, Refused, Creating, StartGivingBack, At, More, Quiet
<1>3. /\ k.step = "giveBack" /\ k.left = j.made
      /\ k.seen = j.seen /\ k.made = j.made /\ k.open = j.open
  BY <1>1, <1>2 DEF Whole
<1> HIDE DEF j, k
<1>4. Due(j) = j.made /\ Due(k) = j.made /\ j.step \in Making
  BY <1>2, <1>3 DEF Due, Making
<1>5. j.made \in Seq(Names)
  BY <1>1, <1>4 DEF Owned
<1>6. HeadFile \in ToSet(j.made) <=> j.step = "header"
  BY <1>1, <1>2, <1>4 DEF Ready
<1>7. j.step = "header" => holds[disk[HeadFile]] = "nothing"
  BY <1>1, <1>4, <1>6 DEF Ready
<1>8. Ready(k)
  BY <1>1, <1>2, <1>3, <1>4, <1>5, <1>6, <1>7 DEF Ready, Making
<1>9. Good(j) => Good(k)
  <2>1. ASSUME Good(j), j.made # <<>>
        PROVE  ~ Sound
    <3>1. CASE j.step = "header"
      BY <1>7, <3>1 DEF Sound
    <3>2. CASE j.step # "header"
      <4>1. j.left \in Seq(Names) /\ j.left # <<>>
        BY <1>1, <1>2, <3>2 DEF Ready
      <4>2. Head(j.left) \in Names /\ Head(j.left) \in ToSet(j.left)
        BY <4>1, HeadAndTail
      <4>3. disk[Head(j.left)] = None
        BY <1>2, <2>1, <3>2, <4>2 DEF Good
      <4> QED
        BY <4>2, <4>3 DEF Sound, Standing
    <3> QED
      BY <3>1, <3>2
  <2>2. Unjudged(j) = {}
    BY <1>4 DEF Unjudged, Making
  <2> QED
    BY <1>3, <1>4, <2>1, <2>2 DEF Good, Making
<1>10. HeadDue(j) => HeadDue(k)
  BY <1>3, <1>4, <1>6 DEF HeadDue, Making
<1> QED
  BY <1>1, <1>2, <1>3, <1>4, <1>8, <1>9, <1>10 DEF Moves, j, k

LEMMA NotGivenBackMoves ==
    ASSUME IInv, Knows, NEW p \in Processes, NotGivenBack(p)
    PROVE  Moves(p)
<1> DEFINE j == job[p]
           k == job'[p]
<1>1. /\ Ready(j) /\ Owned(j, disk) /\ (~ met => Good(j)) /\ making \in Formats
      /\ Whole(j) /\ job = [q \in Processes |-> job[q]]
  BY JobNow
<1>2. /\ j.step = "giveBack" /\ j.left # <<>>
      /\ k = [j EXCEPT !.left = Tail(j.left)] /\ job' = [job EXCEPT ![p] = k]
      /\ UNCHANGED <<making, disk, holds, met>>
      /\ spoilt' = (spoilt \/ Head(j.left) = HeadFile)
  BY <1>1 DEF NotGivenBack, Pop, At, More, Name
<1>3. /\ k.step = "giveBack" /\ k.left = Tail(j.left)
      /\ k.seen = j.seen /\ k.made = j.made /\ k.open = j.open
  BY <1>1, <1>2 DEF Whole
<1> HIDE DEF j, k
<1>4. j.left \in Seq(Names)
  BY <1>1 DEF Ready
<1>5. /\ Head(j.left) \in Names /\ Tail(j.left) \in Seq(Names)
      /\ ToSet(j.left) = {Head(j.left)} \cup ToSet(Tail(j.left))
  BY <1>2, <1>4, HeadAndTail
<1>6. Due(j) = j.left /\ Due(k) = Tail(j.left)
  BY <1>2, <1>3 DEF Due
<1>7. Ready(k)
  BY <1>1, <1>2, <1>3, <1>5, <1>6 DEF Ready, Making
<1>8. Good(j) => Good(k)
  BY <1>2, <1>3 DEF Good, Making, Unjudged
<1>9. Head(j.left) # HeadFile => (HeadDue(j) => HeadDue(k))
  BY <1>2, <1>3, <1>5 DEF HeadDue
<1> QED
  BY <1>1, <1>2, <1>3, <1>6, <1>7, <1>8, <1>9 DEF Moves, j, k

LEMMA MadeMoves ==
    ASSUME IInv, Knows, NEW p \in Processes, Made(p)
    PROVE  Moves(p)
BY StartOpeningMoves, AskStandsMoves DEF Made, At, HeadDue

\* The driver opens its files one after the other, the head first.
LEMMA OpenFileMoves ==
    ASSUME IInv, Knows, NEW p \in Processes, OpenFile(p)
    PROVE  Moves(p)
<1>1. job[p].step = "open" /\ job[p].left # <<>> /\ Quiet
  BY DEF OpenFile, At, More
<1>2. CASE Fail(p)
  BY <1>1, <1>2, FailMoves DEF Quiet, HeadDue
<1>3. CASE ~ Fail(p)
  <2> DEFINE j == job[p]
             k == job'[p]
             n == Len(making)
  <2>1. /\ Ready(j) /\ Owned(j, disk) /\ (~ met => Good(j)) /\ making \in Formats /\ Typed
        /\ Whole(j) /\ job = [q \in Processes |-> job[q]]
    BY JobNow
  <2>2. /\ Head(j.left) \in Standing
        /\ k = [j EXCEPT !.left = Tail(j.left), !.open[Head(j.left)] = disk[Head(j.left)]]
        /\ job' = [job EXCEPT ![p] = k]
    BY <1>3, <2>1 DEF OpenFile, Name
  <2>3. /\ k.step = "open" /\ k.left = Tail(j.left) /\ k.seen = j.seen /\ k.made = j.made
        /\ k.open = [j.open EXCEPT ![Head(j.left)] = disk[Head(j.left)]]
        /\ j.step = "open" /\ j.left # <<>>
    BY <1>1, <2>1, <2>2 DEF Whole
  <2> HIDE DEF j, k
  <2>4. j.left \in Seq(Names) /\ j.open \in [Names -> File \cup {None}]
        /\ disk \in [Names -> File \cup {None}]
    BY <2>1 DEF Ready, Typed
  <2>5. /\ Head(j.left) \in Names /\ Tail(j.left) \in Seq(Names)
        /\ ToSet(j.left) = {Head(j.left)} \cup ToSet(Tail(j.left))
    BY <2>3, <2>4, HeadAndTail
  <2>6. /\ k.open \in [Names -> File \cup {None}]
        /\ k.open[Head(j.left)] = disk[Head(j.left)] /\ disk[Head(j.left)] # None
        /\ \A name \in Names : name # Head(j.left) => k.open[name] = j.open[name]
    BY <2>2, <2>3, <2>4, <2>5 DEF Standing
  <2>7. /\ HeadFile \in Names /\ HeadFile = making[n] /\ n \in Nat \ {0}
        /\ \A i, m \in 1 .. n : making[i] = making[m] => i = m
        /\ \A name \in Names : \E i \in 1 .. n : name = making[i]
    BY <2>1, OrderOfFiles
  <2>8. n - 1 \in 0 .. n /\ (n - 1) + 1 = n
    BY <2>7
  <2>9. Due(j) = <<>> /\ Due(k) = <<>>
    BY <2>1, <2>3 DEF Owned, Due, Making
  \* The head first, then the files in the order they are made.
  <2>10. \/ Head(j.left) = HeadFile /\ k.left = From(1, n - 1)
         \/ /\ Head(j.left) # HeadFile /\ j.open[HeadFile] # None
            /\ \E i \in 1 .. n : k.left = From(i, n - 1)
    <3>1. CASE j.left = PartsOf
      BY <2>1, <2>3, <3>1, PartsInOrder
    <3>2. CASE j.left # PartsOf
      <4>1. j.open[HeadFile] # None
        BY <2>1, <2>3, <3>2 DEF Ready
      <4>2. PICK i \in 1 .. n : j.left = From(i, n - 1)
        BY <2>1, <2>3, <3>2 DEF Ready
      <4>a. i \in 1 .. (n - 1) + 1
        BY <2>7
      <4>b. /\ From(i, n - 1) = <<>> <=> i = (n - 1) + 1
            /\ i <= n - 1 => /\ Head(From(i, n - 1)) = making[i]
                             /\ Tail(From(i, n - 1)) = From(i + 1, n - 1)
        BY <2>1, <2>8, <4>a, FromOrder
      <4>c. i <= n - 1
        BY <2>3, <2>7, <4>2, <4>a, <4>b
      <4>3. i <= n - 1 /\ Head(j.left) = making[i] /\ Tail(j.left) = From(i + 1, n - 1)
        BY <4>2, <4>b, <4>c
      <4>4. i + 1 \in 1 .. n /\ i # n
        BY <2>7, <4>3
      <4>5. Head(j.left) # HeadFile
        BY <2>7, <4>3, <4>4
      <4> QED
        BY <2>3, <4>1, <4>3, <4>4, <4>5
    <3> QED
      BY <3>1, <3>2
  <2>11. Ready(k)
    <3>1. k.open[HeadFile] # None /\ \E i \in 1 .. n : k.left = From(i, n - 1)
      BY <2>6, <2>7, <2>10, SMTT(20)
    <3>2. holds[k.open[HeadFile]] = "nothing" \/ disk[HeadFile] = k.open[HeadFile]
      BY <2>1, <2>6, <2>7, <2>10 DEF Ready
    <3> QED
      BY <2>1, <2>3, <2>5, <2>6, <2>9, <3>1, <3>2, NothingInEmpty DEF Ready, Making
  <2>12. ASSUME Good(j)
         PROVE  Good(k)
    <3>1. ASSUME holds[k.open[HeadFile]] # "nothing", ~ Sound
          PROVE  \E name \in ToSet(k.left) : disk[name] = None
      <4>1. CASE Head(j.left) # HeadFile
        <5>1. k.open[HeadFile] = j.open[HeadFile] /\ j.open[HeadFile] # None
          BY <2>6, <2>7, <2>10, <4>1
        <5>2. \E name \in ToSet(j.left) : disk[name] = None
          BY <2>3, <2>12, <3>1, <5>1 DEF Good
        <5> QED
          BY <2>3, <2>5, <2>6, <5>2
      <4>2. CASE Head(j.left) = HeadFile
        <5>1. disk[HeadFile] # None /\ holds[disk[HeadFile]] # "nothing"
          BY <2>6, <3>1, <4>2
        <5>2. PICK name \in Names : disk[name] = None
          BY <3>1, <5>1 DEF Sound, Standing
        <5>3. PICK i \in 1 .. n : name = making[i]
          BY <2>7
        <5>4. i # n
          BY <2>7, <5>1, <5>2, <5>3
        <5>5. i \in 1 .. n - 1
          BY <2>7, <5>4
        <5>6. 1 \in 1 .. (n - 1) + 1
          BY <2>7
        <5>7. ToSet(From(1, n - 1)) = {making[m] : m \in 1 .. n - 1}
          BY <2>1, <2>8, <5>6, FromOrder
        <5> QED
          BY <2>7, <2>10, <4>2, <5>2, <5>3, <5>5, <5>7
      <4> QED
        BY <4>1, <4>2
    <3> QED
      BY <2>3, <3>1 DEF Good, Making
  <2>13. ~ HeadDue(j)
    BY <2>3 DEF HeadDue
  <2> QED
    BY <1>1, <2>1, <2>2, <2>3, <2>6, <2>9, <2>11, <2>12, <2>13 DEF Moves, Quiet, j, k
<1> QED
  BY <1>2, <1>3

LEMMA ReadHeaderMoves ==
    ASSUME IInv, Knows, NEW p \in Processes, ReadHeader(p)
    PROVE  Moves(p)
<1>1. job[p].step = "open" /\ job[p].left = <<>> /\ Quiet
  BY DEF ReadHeader, At, More
<1>2. CASE Fail(p)
  BY <1>1, <1>2, FailMoves DEF Quiet, HeadDue
<1>3. CASE ~ Fail(p)
  <2> DEFINE j == job[p]
             k == job'[p]
  <2>1. /\ Ready(j) /\ Owned(j, disk) /\ (~ met => Good(j)) /\ making \in Formats
        /\ Whole(j) /\ job = [q \in Processes |-> job[q]]
    BY JobNow
  <2>2. /\ holds[j.open[HeadFile]] # "nothing" /\ k = [j EXCEPT !.step = "reading"]
        /\ job' = [job EXCEPT ![p] = k]
    BY <1>3, <2>1 DEF ReadHeader, Go
  <2>3. /\ k.step = "reading" /\ k.left = <<>> /\ k.seen = j.seen /\ k.made = j.made
        /\ k.open = j.open /\ j.step = "open" /\ j.left = <<>>
    BY <1>1, <2>1, <2>2 DEF Whole
  <2> HIDE DEF j, k
  <2>4. j.open[HeadFile] # None
    BY <2>1, <2>3, PartsInOrder DEF Ready
  <2>5. Due(j) = <<>> /\ Due(k) = <<>>
    BY <2>1, <2>3 DEF Owned, Due, Making
  <2>6. Ready(k)
    BY <2>1, <2>2, <2>3, <2>4, <2>5, NothingInEmpty DEF Ready, Making
  <2>7. Good(j) => Good(k)
    BY <2>2, <2>3, <2>4, NothingInEmpty DEF Good, Making
  <2>8. ~ HeadDue(j)
    BY <2>3 DEF HeadDue
  <2> QED
    BY <1>1, <2>1, <2>2, <2>3, <2>5, <2>6, <2>7, <2>8 DEF Moves, Quiet, j, k
<1> QED
  BY <1>2, <1>3

-----------------------------------------------------------------------------
(* The steps that touch a file.                                              *)

\* A free file is had by nobody.
LEMMA FreeIsFree ==
    ASSUME IInv, Knows, NEW f \in FreeFile, NEW name \in Names
    PROVE  f \in File /\ f # None /\ disk[name] # f /\ \A q \in Processes : job[q].open[name] # f
<1>1. f \in File /\ f \notin InUse /\ f # None
  BY BoundsAssumption DEF FreeFile, File
<1>2. disk[name] # f
  BY <1>1 DEF InUse, Standing
<1>3. ASSUME NEW q \in Processes
      PROVE  job[q].open[name] # f
  <2>1. job[q].open \in [Names -> File \cup {None}]
    BY JobNow DEF Ready
  <2>2. job[q].open[name] \in Range(job[q].open)
    BY <2>1 DEF Range
  <2> QED
    BY <1>1, <2>2 DEF InUse
<1> QED
  BY <1>1, <1>2, <1>3

LEMMA Appended ==
    ASSUME NEW S, NEW s \in Seq(S), NEW x \in S
    PROVE  ToSet(Append(s, x)) = ToSet(s) \cup {x}
<1> DEFINE t == Append(s, x)
<1>1. /\ t \in Seq(S) /\ DOMAIN t = 1 .. Len(s) + 1 /\ t[Len(s) + 1] = x
      /\ \A i \in 1 .. Len(s) : t[i] = s[i]
      /\ DOMAIN s = 1 .. Len(s) /\ Len(s) \in Nat
  OBVIOUS
<1> HIDE DEF t
<1>2. \A i \in DOMAIN t : i \in DOMAIN s \/ i = Len(s) + 1
  BY <1>1
<1>3. \A i \in DOMAIN s : i \in DOMAIN t
  BY <1>1
<1>4. Len(s) + 1 \in DOMAIN t
  BY <1>1
<1>5. ToSet(t) = ToSet(s) \cup {x}
  BY <1>1, <1>2, <1>3, <1>4 DEF ToSet
<1> QED
  BY <1>5 DEF t

\* What is due to be taken back is there, and is nobody else's.
LEMMA DueStands ==
    ASSUME IInv, Knows, NEW p \in Processes, NEW name \in ToSet(Due(job[p]))
    PROVE  /\ name \in Names /\ disk[name] \in job[p].own /\ disk[name] # None
           /\ \A q \in Processes \ {p} : disk[name] \notin job[q].own
<1>1. Owned(job[p], disk)
  BY JobNow
<1>2. PICK i \in DOMAIN Due(job[p]) : name = Due(job[p])[i]
  BY DEF ToSet
<1>3. name \in Names /\ disk[name] \in job[p].own /\ job[p].own \subseteq File
  BY <1>1, <1>2 DEF Owned
<1>4. disk[name] # None
  BY <1>3, BoundsAssumption DEF File
<1> QED
  BY <1>3, <1>4 DEF IInv, Apart

\* Where makeFiles is.
LEMMA InOrder ==
    ASSUME IInv, Knows, NEW p \in Processes, job[p].step \in Making, job[p].left # <<>>
    PROVE  /\ Head(job[p].left) \in Names /\ Tail(job[p].left) \in Seq(Names)
           /\ ToSet(job[p].left) = {Head(job[p].left)} \cup ToSet(Tail(job[p].left))
           /\ Head(job[p].left) \notin ToSet(Tail(job[p].left))
           /\ Head(job[p].left) = HeadFile <=> Tail(job[p].left) = <<>>
           /\ HeadFile \notin ToSet(Due(job[p]))
           /\ Due(job[p]) = job[p].made
           /\ \E i \in 1 .. Len(making) :
                 /\ Head(job[p].left) = making[i] /\ job[p].left = From(i, Len(making))
                 /\ Tail(job[p].left) = From(i + 1, Len(making))
<1> DEFINE j == job[p]
           n == Len(making)
<1>1. /\ Ready(j) /\ making \in Formats /\ j.step \in Making /\ j.left # <<>>
  BY JobNow
<1> HIDE DEF j
<1>2. j.left \in Seq(Names)
  BY <1>1 DEF Ready
<1>3. /\ Head(j.left) \in Names /\ Tail(j.left) \in Seq(Names)
      /\ ToSet(j.left) = {Head(j.left)} \cup ToSet(Tail(j.left))
  BY <1>1, <1>2, HeadAndTail
<1>4. Due(j) = j.made /\ HeadFile \notin ToSet(j.made)
  BY <1>1 DEF Ready, Due, Making
<1>5. PICK i \in 1 .. n + 1 : j.left = From(i, n)
  BY <1>1 DEF Ready
<1>6. /\ n \in Nat \ {0} /\ HeadFile = making[n]
      /\ \A x, y \in 1 .. n : making[x] = making[y] => x = y
  BY <1>1, OrderOfFiles
<1>7. n \in 0 .. Len(making)
  BY <1>6
<1>8. /\ j.left = <<>> <=> i = n + 1
      /\ i <= n => Head(j.left) = making[i] /\ Tail(j.left) = From(i + 1, n)
  BY <1>1, <1>5, <1>7, FromOrder
<1>9. i \in 1 .. n /\ i + 1 \in 1 .. n + 1
  BY <1>1, <1>5, <1>6, <1>8
<1>10. /\ From(i + 1, n) = <<>> <=> i + 1 = n + 1
       /\ ToSet(From(i + 1, n)) = {making[x] : x \in i + 1 .. n}
  BY <1>1, <1>7, <1>9, FromOrder
<1>11. Head(j.left) = making[i] /\ Tail(j.left) = From(i + 1, n)
  BY <1>6, <1>8, <1>9
<1> HIDE DEF n
<1>12. Head(j.left) \notin ToSet(Tail(j.left))
  <2>1. \A x \in i + 1 .. n : x \in 1 .. n /\ x # i
    BY <1>6, <1>9
  <2>2. \A x \in i + 1 .. n : making[x] # making[i]
    BY <1>6, <1>9, <2>1
  <2> QED
    BY <1>10, <1>11, <2>2
<1>13. Head(j.left) = HeadFile <=> Tail(j.left) = <<>>
  <2>1. making[i] = making[n] <=> i = n
    BY <1>6, <1>9
  <2>2. i = n <=> i + 1 = n + 1
    BY <1>6, <1>9
  <2> QED
    BY <1>6, <1>10, <1>11, <2>1, <2>2
<1> QED
  BY <1>3, <1>4, <1>5, <1>9, <1>11, <1>12, <1>13 DEF j, n

\* The last file an opener still lacks is the last file missing: what comes before
\* it in the order stands, since its maker has made or found that, and what comes
\* after it the opener lacks as well.
LEMMA LastMissing ==
    ASSUME IInv, Knows, ~ met, ~ Sound, NEW p \in Processes, NEW q \in Processes,
           job[p].step \in Making, job[p].left # <<>>,
           job[q].step = "open", job[q].open[HeadFile] # None,
           holds[job[q].open[HeadFile]] # "nothing",
           \A x \in ToSet(job[q].left) : disk[x] = None => x = Head(job[p].left)
    PROVE  \A x \in Names : x # Head(job[p].left) => disk[x] # None
<1> DEFINE n == Len(making)
           name == Head(job[p].left)
<1>1. /\ Ready(job[p]) /\ Ready(job[q]) /\ Good(job[p]) /\ Good(job[q]) /\ making \in Formats
  BY JobNow
<1>2. /\ n \in Nat \ {0} /\ HeadFile = making[n]
      /\ \A x, y \in 1 .. n : making[x] = making[y] => x = y
      /\ \A x \in Names : \E m \in 1 .. n : x = making[m]
  BY <1>1, OrderOfFiles
<1>3. PICK i \in 1 .. n : name = making[i] /\ job[p].left = From(i, n)
  BY InOrder
<1>4. PICK k \in 1 .. n : job[q].left = From(k, n - 1)
  BY <1>1 DEF Ready
<1>5. /\ n \in 0 .. Len(making) /\ i \in 1 .. n + 1
      /\ n - 1 \in 0 .. Len(making) /\ k \in 1 .. (n - 1) + 1
  BY <1>2
<1>6. /\ ToSet(job[p].left) = {making[m] : m \in i .. n}
      /\ ToSet(job[q].left) = {making[m] : m \in k .. n - 1}
  BY <1>1, <1>3, <1>4, <1>5, FromOrder
<1>7. name \in ToSet(job[q].left)
  BY <1>1 DEF Good
<1> HIDE DEF n, name
<1>8. i \in k .. n - 1
  <2>1. PICK m \in k .. n - 1 : name = making[m]
    BY <1>6, <1>7
  <2>2. m \in 1 .. n
    BY <1>2, <2>1
  <2>3. m = i
    BY <1>2, <1>3, <2>1, <2>2
  <2> QED
    BY <2>1, <2>3
<1>9. disk[HeadFile] # None
  BY <1>1 DEF Ready
<1>10. ASSUME NEW x \in Names, x # name
       PROVE  disk[x] # None
  <2>1. PICK m \in 1 .. n : x = making[m]
    BY <1>2
  <2>2. CASE m < i
    <3>1. x \notin ToSet(job[p].left)
      <4>1. \A y \in i .. n : y \in 1 .. n /\ y # m
        BY <1>2, <2>1, <2>2
      <4>2. \A y \in i .. n : making[y] # making[m]
        BY <1>2, <2>1, <4>1
      <4> QED
        BY <1>6, <2>1, <4>2
    <3> QED
      BY <1>1, <3>1 DEF Good
  <2>3. CASE m > i /\ m # n
    <3>1. m \in k .. n - 1
      BY <1>2, <1>8, <2>1, <2>3
    <3>2. x \in ToSet(job[q].left)
      BY <1>6, <2>1, <3>1
    <3> QED
      BY <1>10, <3>2 DEF name
  <2>4. CASE m = n
    BY <1>2, <1>9, <2>1, <2>4
  <2>5. CASE m = i
    BY <1>3, <1>10, <2>1, <2>5
  <2> QED
    BY <1>2, <2>1, <2>2, <2>3, <2>4, <2>5
<1> QED
  BY <1>10 DEF name

LEMMA MakeFileKnows ==
    ASSUME IInv, Knows, NEW p \in Processes, MakeFile(p)
    PROVE  Knows'
<1> DEFINE j == job[p]
           k == job'[p]
           name == Head(j.left)
<1>1. /\ Ready(j) /\ Owned(j, disk) /\ (~ met => Good(j)) /\ making \in Formats /\ Typed
      /\ Whole(j) /\ job = [q \in Processes |-> job[q]]
  BY JobNow
<1>2. PICK file \in FreeFile :
         /\ disk' = [disk EXCEPT ![name] = file]
         /\ holds' = [holds EXCEPT ![file] = "nothing"]
         /\ job' = [job EXCEPT
               ![p].step = IF name = HeadFile THEN "header" ELSE "make",
               ![p].left = Tail(@), ![p].made = Append(@, name),
               ![p].own = @ \cup {file}]
  BY DEF MakeFile, Name
<1>3. /\ j.left # <<>> /\ disk[name] = None
      /\ (j.step = "create" \/ (j.step = "make" /\ ~ j.keep)) /\ j.step \in Making
      /\ UNCHANGED <<making, spoilt>>
      /\ met' = (met \/ \E q \in Processes \ {p} : InTheMaking(q))
  BY DEF MakeFile, Creating, More, At, Name, Making, Meeting
<1>4. /\ k.step = (IF name = HeadFile THEN "header" ELSE "make") /\ k.left = Tail(j.left)
      /\ k.made = Append(j.made, name) /\ k.open = j.open /\ k.seen = j.seen
      /\ k.keep = j.keep
      /\ \A q \in Processes \ {p} : job'[q] = job[q]
  BY <1>1, <1>2 DEF Whole
<1>5. /\ name \in Names /\ Tail(j.left) \in Seq(Names)
      /\ ToSet(j.left) = {name} \cup ToSet(Tail(j.left))
      /\ name \notin ToSet(Tail(j.left))
      /\ name = HeadFile <=> Tail(j.left) = <<>>
      /\ HeadFile \notin ToSet(Due(j)) /\ Due(j) = j.made
      /\ \E i \in 1 .. Len(making) :
            /\ name = making[i] /\ j.left = From(i, Len(making))
            /\ Tail(j.left) = From(i + 1, Len(making))
  BY <1>3, InOrder
<1>6. /\ file \in File /\ file # None /\ \A a \in Names : disk[a] # file
      /\ \A a \in Names : \A q \in Processes : job[q].open[a] # file
  BY <1>5, FreeIsFree
<1>7. /\ Names' = Names /\ File' = File /\ HeadFile' = HeadFile /\ PartsOf' = PartsOf
      /\ HeadFile \in Names /\ \A a, b : From(a, b)' = From(a, b)
  BY <1>1, <1>3, OrderOfFiles DEF Names, File, HeadFile, PartsOf, From
<1> HIDE DEF j, k, name
<1>8. /\ disk'[name] = file /\ \A a \in Names : a # name => disk'[a] = disk[a]
      /\ holds'[file] = "nothing" /\ \A f \in File : f # file => holds'[f] = holds[f]
  BY <1>1, <1>2, <1>5, <1>6 DEF Typed
<1>9. Typed'
  BY <1>1, <1>2, <1>5, <1>6, <1>7 DEF Typed
<1>10. OneSeat'
  <2>1. ASSUME NEW f \in File, NEW a \in Names, Seat(f, a)'
        PROVE  IF f = file THEN a = name ELSE Seat(f, a)
    <3>1. CASE disk'[a] = f
      BY <1>6, <1>8, <3>1 DEF Seat
    <3>2. CASE disk'[a] # f
      <4>1. PICK q \in Processes : job'[q].open[a] = f
        BY <2>1, <3>2 DEF Seat
      <4>2. job[q].open[a] = f
        BY <1>4, <4>1 DEF j, k
      <4> QED
        BY <1>6, <4>2 DEF Seat
    <3> QED
      BY <3>1, <3>2
  <2>2. OneSeat
    BY DEF Knows
  <2> QED
    BY <1>7, <2>1, <2>2 DEF OneSeat
<1>11. j.made \in Seq(Names)
  BY <1>1, <1>5 DEF Owned
<1>12. /\ ToSet(k.made) = ToSet(j.made) \cup {name} /\ Due(k) = k.made
       /\ HeadFile \in ToSet(Due(k)) <=> name = HeadFile
       /\ k.step # "giveBack"
  BY <1>4, <1>5, <1>11, Appended DEF Due
<1>13. \A q \in Processes : Ready(job[q])'
  <2>1. Ready(job[p])'
    <3>1. \E i \in 1 .. Len(making) + 1 : k.left = From(i, Len(making))
      <4>1. PICK i \in 1 .. Len(making) : Tail(j.left) = From(i + 1, Len(making))
        BY <1>5
      <4>2. i + 1 \in 1 .. Len(making) + 1
        BY <1>1, OrderOfFiles
      <4> QED
        BY <1>4, <4>1, <4>2
    <3>2. k.open[HeadFile] = None
      BY <1>1, <1>3, <1>4 DEF Ready, Making
    <3>3. name = HeadFile => holds'[disk'[HeadFile]] = "nothing"
      BY <1>8
    <3>4. k.left \in Seq(Names) /\ k.seen \subseteq Names /\ k.open \in [Names -> File \cup {None}]
      BY <1>1, <1>4, <1>5 DEF Ready
    <3>5. /\ k.step \in {"make", "header"} /\ (k.step = "header" <=> name = HeadFile)
          /\ (k.step = "header" => k.left = <<>> /\ HeadFile \in ToSet(k.made))
      BY <1>4, <1>5, <1>12
    <3>6. job'[p] = k /\ Due(job[p])' = Due(k) /\ making' = making
      BY <1>3 DEF k, Due
    <3> QED
      BY <1>7, <1>12, <3>1, <3>2, <3>3, <3>4, <3>5, <3>6 DEF Ready, Making
  <2>2. ASSUME NEW q \in Processes \ {p}
        PROVE  Ready(job[q])'
    <3>1. Ready(job[q]) /\ job'[q] = job[q] /\ job[q].open \in [Names -> File \cup {None}]
      BY <1>4 DEF Knows, Ready
    <3>2. /\ HeadFile \in ToSet(Due(job[q])) =>
                holds'[disk'[HeadFile]] = holds[disk[HeadFile]]
      <4>1. SUFFICES ASSUME HeadFile \in ToSet(Due(job[q]))
                     PROVE  holds'[disk'[HeadFile]] = holds[disk[HeadFile]]
        OBVIOUS
      <4>2. disk[HeadFile] # None /\ disk[HeadFile] \in File
        BY <1>1, <1>7, <4>1, DueStands DEF Typed
      <4> QED
        BY <1>3, <1>6, <1>7, <1>8, <4>2
    <3>3. job[q].open[HeadFile] # None =>
             holds'[job[q].open[HeadFile]] = holds[job[q].open[HeadFile]]
      BY <1>6, <1>7, <1>8, <3>1
    <3>4. job[q].open[HeadFile] # None /\ disk[HeadFile] = job[q].open[HeadFile] =>
             disk'[HeadFile] = disk[HeadFile]
      BY <1>3, <1>7, <1>8
    <3>5. Due(job[q])' = Due(job[q]) /\ making' = making
      BY <1>3, <3>1 DEF Due
    <3> QED
      BY <1>7, <3>1, <3>2, <3>3, <3>4, <3>5 DEF Ready
  <2> QED
    BY <2>1, <2>2
<1>14. ~ Sound /\ Mail' \subseteq Mail /\ \A a \in Standing : a # name
  <2>1. \A a \in Standing : a # name
    BY <1>3 DEF Standing
  <2>2. ASSUME NEW a \in Mail'
        PROVE  a \in Mail
    <3>1. a \in Names /\ disk'[a] # None /\ holds'[disk'[a]] = "mail"
      BY <1>7, <2>2 DEF Mail, Standing
    <3>2. a # name
      BY <1>8, <3>1
    <3>3. disk[a] # None /\ disk[a] \in File /\ disk[a] # file
      BY <1>1, <1>6, <1>8, <3>1, <3>2 DEF Typed
    <3> QED
      BY <1>8, <3>1, <3>2, <3>3 DEF Mail, Standing
  <2> QED
    BY <1>5, <2>1, <2>2 DEF Sound
<1>15. ASSUME ~ met'
       PROVE  Alone' /\ \A q \in Processes : Good(job[q])'
  <2>1. /\ ~ met /\ Alone /\ \A q \in Processes : Good(job[q])
        /\ \A q \in Processes \ {p} : ~ InTheMaking(q)
    BY <1>3, <1>15 DEF Knows
  <2>2. \A q \in Processes \ {p} : Due(job'[q]) = <<>>
    <3>1. ASSUME NEW q \in Processes \ {p}
          PROVE  Due(job'[q]) = <<>>
      <4>1. job'[q] = job[q] /\ Owned(job[q], disk) /\ job[q].step \notin Making \cup {"giveBack"}
        BY <1>4, <2>1, JobNow DEF InTheMaking, Making
      <4> QED
        BY <4>1 DEF Owned, Due
    <3> QED
      BY <3>1
  <2>3. Alone'
    BY <2>2 DEF Alone, Due
  <2>4. Good(job[p])'
    <3>1. \A a \in Names \ ToSet(Tail(j.left)) : disk'[a] # None
      <4>1. \A a \in Names \ ToSet(j.left) : disk[a] # None
        BY <1>1, <1>3, <2>1 DEF Good
      <4> QED
        BY <1>5, <1>6, <1>8, <4>1
    <3>2. ~ j.keep => \A a \in ToSet(Tail(j.left)) : disk'[a] = None
      <4>1. SUFFICES ASSUME ~ j.keep
                     PROVE  \A a \in ToSet(Tail(j.left)) : disk'[a] = None
        OBVIOUS
      <4>2. j.step = "make"
        BY <1>1, <1>3, <4>1 DEF Ready
      <4>3. \A a \in ToSet(j.left) : disk[a] = None
        BY <1>1, <1>14, <2>1, <4>1, <4>2 DEF Good
      <4>4. ToSet(j.left) \subseteq Names
        BY <1>1, <1>3, HeadAndTail DEF Ready
      <4> QED
        BY <1>5, <1>8, <4>3, <4>4
    <3>3. Mail = {}
      <4>1. Unjudged(j) = {}
        BY <1>3 DEF Unjudged, Making
      <4> QED
        BY <1>1, <1>3, <1>14, <2>1, <4>1 DEF Good
    <3>4. job'[p] = k /\ k.left = Tail(j.left) /\ k.keep = j.keep /\ k.step \in {"make", "header"}
      BY <1>4 DEF k
    <3> QED
      BY <1>7, <1>14, <3>1, <3>2, <3>3, <3>4 DEF Good, Making
  <2>5. ASSUME NEW q \in Processes \ {p}
        PROVE  Good(job[q])'
    <3>1. /\ Good(job[q]) /\ Ready(job[q]) /\ job'[q] = job[q]
          /\ ~ job[q].creating /\ job[q].step \notin Making \cup {"giveBack"}
      BY <1>4, <2>1, JobNow DEF InTheMaking, Making
    <3>2. job[q].step # "reading"
      BY <1>14, <3>1 DEF Good
    <3>3. Unjudged(job[q])' = Unjudged(job[q])
      BY <1>7, <3>1 DEF Unjudged
    <3>4. ASSUME job[q].step = "open", job[q].open[HeadFile] # None,
                 holds'[job[q].open[HeadFile]] # "nothing"
          PROVE  Sound' \/ \E a \in ToSet(job[q].left) : disk'[a] = None
      <4>1. /\ job[q].open[HeadFile] \in File /\ job[q].open[HeadFile] # file
            /\ holds'[job[q].open[HeadFile]] = holds[job[q].open[HeadFile]]
        BY <1>6, <1>7, <1>8, <3>1, <3>4 DEF Ready
      <4>2. CASE \E a \in ToSet(job[q].left) : disk[a] = None /\ a # name
        <5>1. ToSet(job[q].left) \subseteq Names
          BY <3>1, <4>2, HeadAndTail, NothingInEmpty DEF Ready
        <5> QED
          BY <1>8, <4>2, <5>1
      <4>3. CASE \A a \in ToSet(job[q].left) : disk[a] = None => a = name
        <5>1. \A a \in Names : a # name => disk[a] # None
          BY <1>3, <1>14, <2>1, <3>1, <3>4, <4>1, <4>3, LastMissing DEF j, name
        <5>2. \A a \in Names : disk'[a] # None
          BY <1>6, <1>8, <5>1
        <5>3. disk[HeadFile] = job[q].open[HeadFile]
          BY <3>1, <3>4, <4>1 DEF Ready
        <5>4. disk'[HeadFile] = disk[HeadFile]
          BY <1>3, <1>7, <1>8, <3>4, <5>3
        <5> QED
          BY <1>7, <3>4, <5>2, <5>3, <5>4 DEF Sound, Standing
      <4> QED
        BY <4>2, <4>3
    <3> QED
      BY <1>7, <1>14, <3>1, <3>2, <3>3, <3>4 DEF Good, Making
  <2> QED
    BY <2>3, <2>4, <2>5
<1>16. ASSUME ~ met', ~ spoilt'
       PROVE  Startable'
  <2>1. Startable
    BY <1>3, <1>16 DEF Knows
  <2>2. ~ HeadDue(j)
    BY <1>3, <1>1 DEF HeadDue, Ready
  <2>3. ASSUME NEW a \in Standing'
        PROVE  \/ IsEmpty(a)'
               \/ /\ a = HeadFile /\ holds'[disk'[a]] = "nothing"
                  /\ \E q \in Processes : HeadDue(job'[q])
    <3>1. a \in Names /\ disk'[a] # None
      BY <1>7, <2>3 DEF Standing
    <3>2. CASE a = name
      <4>1. CASE a = HeadFile
        BY <1>4, <1>8, <3>2, <4>1 DEF HeadDue, k
      <4>2. CASE a # HeadFile
        BY <1>7, <1>8, <3>1, <3>2, <4>2 DEF IsEmpty, Fresh
      <4> QED
        BY <4>1, <4>2
    <3>3. CASE a # name
      <4>1. a \in Standing /\ disk'[a] = disk[a] /\ disk[a] \in File /\ disk[a] # file
        BY <1>1, <1>6, <1>8, <3>1, <3>3 DEF Standing, Typed
      <4>2. holds'[disk'[a]] = holds[disk[a]]
        BY <1>8, <4>1
      <4>3. CASE IsEmpty(a)
        BY <1>7, <4>1, <4>2, <4>3 DEF IsEmpty, Fresh
      <4>4. CASE ~ IsEmpty(a)
        <5>1. /\ a = HeadFile /\ holds[disk[a]] = "nothing"
              /\ \E q \in Processes : HeadDue(job[q])
          BY <1>14, <2>1, <4>1, <4>4 DEF Startable
        <5>2. PICK q \in Processes \ {p} : HeadDue(job[q])
          BY <2>2, <5>1 DEF j
        <5>3. HeadDue(job'[q])
          BY <1>4, <5>2
        <5> QED
          BY <4>2, <5>1, <5>3
      <4> QED
        BY <4>3, <4>4
    <3> QED
      BY <3>2, <3>3
  <2>4. \A q \in Processes : HeadDue(job[q])' <=> HeadDue(job'[q])
    BY <1>7 DEF HeadDue
  <2> QED
    BY <1>7, <2>3, <2>4 DEF Startable
<1> QED
  BY <1>9, <1>10, <1>13, <1>15, <1>16 DEF Knows

\* What a process that does not move goes on knowing of the head.
LEMMA ReadyStays ==
    ASSUME IInv, Knows, NEW q \in Processes, job'[q] = job[q], UNCHANGED making,
           HeadFile \in ToSet(Due(job[q])) /\ holds[disk[HeadFile]] = "nothing"
              => holds'[disk'[HeadFile]] = "nothing",
           job[q].open[HeadFile] # None =>
              IF holds[job[q].open[HeadFile]] = "nothing"
              THEN \/ holds'[job[q].open[HeadFile]] = "nothing"
                   \/ disk'[HeadFile] = job[q].open[HeadFile]
              ELSE /\ holds'[job[q].open[HeadFile]] # "nothing"
                   /\ disk'[HeadFile] = disk[HeadFile]
    PROVE  Ready(job[q])'
<1>1. Ready(job[q])
  BY DEF Knows
<1>2. /\ Names' = Names /\ File' = File /\ HeadFile' = HeadFile /\ PartsOf' = PartsOf
      /\ \A a, b : From(a, b)' = From(a, b)
  BY DEF Names, File, HeadFile, PartsOf, From
<1>3. Due(job[q])' = Due(job[q])
  BY DEF Due
<1> QED
  BY <1>1, <1>2, <1>3 DEF Ready

\* Nothing more is to be known of a base that is all there.
LEMMA SoundIsGood ==
    ASSUME IInv, Knows, ~ met, NEW q \in Processes, job'[q] = job[q], UNCHANGED making, Sound',
           UNCHANGED disk \/ Due(job[q]) = <<>>,
           job[q].step = "giveBack" => job[q].left = <<>>
    PROVE  Good(job[q])'
<1>1. Good(job[q]) /\ Ready(job[q])
  BY JobNow
<1>2. Names' = Names /\ \A a \in Names : disk'[a] # None
  BY DEF Sound, Standing, Names
<1>3. \/ job[q].step \notin {"make", "create"} \/ job[q].made = <<>>
      \/ job[q].step = "make" /\ (job[q].keep \/ job[q].left = <<>>)
  <2>1. CASE Due(job[q]) = <<>>
    BY <2>1 DEF Due
  <2>2. CASE UNCHANGED disk /\ job[q].left # <<>>
    <3>1. Head(job[q].left) \in Names /\ Head(job[q].left) \in ToSet(job[q].left)
      BY <1>1, <2>2, HeadAndTail DEF Ready
    <3>2. disk[Head(job[q].left)] # None
      BY <1>2, <2>2, <3>1
    <3> QED
      BY <1>1, <3>1, <3>2 DEF Good
  <2>3. CASE job[q].left = <<>>
    BY <1>1, <2>3 DEF Ready
  <2> QED
    BY <2>1, <2>2, <2>3
<1>4. job[q].left = <<>> => ToSet(job[q].left) = {}
  BY NothingInEmpty
<1> QED
  BY <1>2, <1>3, <1>4 DEF Good, Making

\* The header is written into the head of a base that is all there but for that.
LEMMA WriteHeaderKnows ==
    ASSUME IInv, Knows, NEW p \in Processes, WriteHeader(p)
    PROVE  Knows'
<1> DEFINE j == job[p]
           k == job'[p]
           file == disk[HeadFile]
<1>1. /\ Ready(j) /\ Owned(j, disk) /\ (~ met => Good(j)) /\ making \in Formats /\ Typed
      /\ Whole(j) /\ job = [q \in Processes |-> job[q]]
  BY JobNow
<1>2. /\ j.step = "header" /\ holds' = [holds EXCEPT ![file] = "header"]
      /\ k = [j EXCEPT !.step = "make"] /\ job' = [job EXCEPT ![p] = k]
      /\ UNCHANGED <<making, disk, met, spoilt>>
  BY <1>1 DEF WriteHeader, At, Go
<1>3. /\ k.step = "make" /\ k.left = j.left /\ k.made = j.made /\ k.open = j.open
      /\ k.seen = j.seen /\ k.keep = j.keep
      /\ \A q \in Processes \ {p} : job'[q] = job[q]
  BY <1>1, <1>2 DEF Whole
<1> HIDE DEF j, k
<1>4. /\ HeadFile \in Names /\ Names' = Names /\ File' = File /\ HeadFile' = HeadFile
      /\ PartsOf' = PartsOf /\ Standing' = Standing /\ \A a, b : From(a, b)' = From(a, b)
  BY <1>1, <1>2, OrderOfFiles DEF Names, File, HeadFile, PartsOf, From, Standing
<1>5. /\ j.left = <<>> /\ HeadFile \in ToSet(j.made) /\ Due(j) = j.made /\ Due(k) = j.made
      /\ holds[file] = "nothing" /\ k.left = <<>>
  BY <1>1, <1>2, <1>3 DEF Ready, Due
<1>6. file # None /\ file \in File /\ \A q \in Processes \ {p} : file \notin job[q].own
  BY <1>1, <1>4, <1>5, DueStands DEF Typed, j
<1> HIDE DEF file
<1>7. /\ holds'[file] = "header" /\ \A f \in File : f # file => holds'[f] = holds[f]
      /\ disk[HeadFile] = file /\ disk'[HeadFile] = file
  BY <1>1, <1>2, <1>6 DEF Typed, file
<1>8. Typed'
  BY <1>1, <1>2, <1>4 DEF Typed
<1>9. OneSeat'
  <2>1. \A q \in Processes : job'[q].open = job[q].open
    BY <1>3 DEF j, k
  <2>2. OneSeat
    BY DEF Knows
  <2> QED
    BY <1>2, <1>4, <2>1, <2>2 DEF OneSeat, Seat
<1>10. \A q \in Processes : Ready(job[q])'
  <2>1. Ready(job[p])'
    <3>1. job'[p] = k /\ Due(job[p])' = j.made
      BY <1>3, <1>5 DEF k, Due
    <3>2. k.open[HeadFile] = None
      BY <1>1, <1>2, <1>3 DEF Ready
    <3>3. \E i \in 1 .. Len(making) + 1 : k.left = From(i, Len(making))
      BY <1>1, <1>2, <1>3 DEF Ready, Making
    <3>4. k.left \in Seq(Names) /\ k.seen \subseteq Names /\ k.open \in [Names -> File \cup {None}]
      BY <1>1, <1>3 DEF Ready
    <3>5. k.step = "make" /\ k.left = <<>> /\ making' = making
      BY <1>2, <1>3, <1>5
    <3> QED
      BY <1>4, <3>1, <3>2, <3>3, <3>4, <3>5 DEF Ready, Making
  <2>2. ASSUME NEW q \in Processes \ {p}
        PROVE  Ready(job[q])'
    <3>1. job[q].open \in [Names -> File \cup {None}]
      BY JobNow DEF Ready
    <3>2. HeadFile \notin ToSet(Due(job[q]))
      BY <1>6, <1>7, DueStands
    <3>3. job[q].open[HeadFile] = file \/
             (job[q].open[HeadFile] # None =>
                holds'[job[q].open[HeadFile]] = holds[job[q].open[HeadFile]])
      BY <1>4, <1>7, <3>1
    <3> QED
      BY <1>2, <1>3, <1>5, <1>7, <3>2, <3>3, ReadyStays
  <2> QED
    BY <2>1, <2>2
<1>11. ASSUME ~ met'
       PROVE  Sound' /\ Alone' /\ \A q \in Processes : Good(job[q])'
  <2>1. ~ met /\ Alone /\ Good(j)
    BY <1>1, <1>2, <1>11 DEF Knows
  <2>2. \A a \in Names : disk[a] # None
    BY <1>2, <1>5, <2>1, NothingInEmpty DEF Good, Making
  <2>3. Sound'
    BY <1>2, <1>4, <1>7, <2>2 DEF Sound, Standing
  <2>4. ASSUME NEW q \in Processes
        PROVE  Due(job'[q]) = Due(job[q])
    BY <1>3, <1>5 DEF j, k
  <2>5. Alone'
    BY <2>1, <2>4 DEF Alone, Due
  <2>6. ASSUME NEW q \in Processes \ {p}
        PROVE  Good(job[q])'
    <3>1. Due(j) # <<>>
      BY <1>5, NothingInEmpty
    <3>2. Due(job[q]) = <<>>
      BY <2>1, <3>1 DEF Alone, j
    <3> QED
      BY <1>2, <1>3, <2>1, <2>3, <3>2, SoundIsGood DEF Due
  <2>7. Good(job[p])'
    <3>1. job'[p] = k /\ k.step = "make" /\ ToSet(k.left) = {}
      BY <1>3, <1>5, NothingInEmpty DEF k
    <3> QED
      BY <1>2, <1>4, <2>2, <2>3, <3>1 DEF Good, Making
  <2> QED
    BY <2>3, <2>5, <2>6, <2>7
<1> QED
  BY <1>8, <1>9, <1>10, <1>11 DEF Knows, Startable

\* A message is written into a base that is all there, unless two had met.
LEMMA WriteKnows ==
    ASSUME IInv, Knows, NEW p \in Processes, Write(p)
    PROVE  Knows'
<1> DEFINE j == job[p]
<1>1. /\ Ready(j) /\ (~ met => Good(j)) /\ making \in Formats /\ Typed
  BY JobNow
<1>2. /\ j.step = "reading" /\ UNCHANGED <<making, disk, job, met, spoilt>>
      /\ holds' = [f \in File |-> IF f \in Range(j.open) THEN "mail" ELSE holds[f]]
  BY DEF Write, At
<1>3. /\ HeadFile \in Names /\ Names' = Names /\ File' = File /\ HeadFile' = HeadFile
      /\ PartsOf' = PartsOf /\ Standing' = Standing
  BY <1>1, <1>2, OrderOfFiles DEF Names, File, HeadFile, PartsOf, Standing
<1>4. /\ j.open \in [Names -> File \cup {None}] /\ j.open[HeadFile] # None
      /\ holds[j.open[HeadFile]] # "nothing"
  BY <1>1, <1>2 DEF Ready
<1> HIDE DEF j
<1>5. \A f \in File : holds[f] # "nothing" => holds'[f] # "nothing"
  BY <1>2
\* Of heads, only the open one is written to: a file is had under one name.
<1>6. ASSUME NEW f \in File, Seat(f, HeadFile), holds[f] = "nothing"
      PROVE  holds'[f] = "nothing"
  <2>1. ASSUME f \in Range(j.open)
        PROVE  FALSE
    <3>1. PICK a \in Names : j.open[a] = f
      BY <1>4, <2>1 DEF Range
    <3>2. Seat(f, a) /\ OneSeat
      BY <3>1 DEF Seat, j, Knows
    <3>3. a = HeadFile
      BY <1>3, <1>6, <3>2 DEF OneSeat
    <3> QED
      BY <1>4, <1>6, <3>1, <3>3
  <2> QED
    BY <1>2, <1>6, <2>1
<1>7. Typed'
  BY <1>1, <1>2, <1>3 DEF Typed
<1>8. OneSeat'
  BY <1>2, <1>3 DEF Knows, OneSeat, Seat
<1>9. ASSUME NEW q \in Processes
      PROVE  Ready(job[q])'
  <2>1. job[q].open \in [Names -> File \cup {None}]
    BY JobNow DEF Ready
  <2>2. HeadFile \in ToSet(Due(job[q])) /\ holds[disk[HeadFile]] = "nothing"
           => holds'[disk[HeadFile]] = "nothing"
    <3>1. SUFFICES ASSUME HeadFile \in ToSet(Due(job[q])), holds[disk[HeadFile]] = "nothing"
                   PROVE  holds'[disk[HeadFile]] = "nothing"
      OBVIOUS
    <3>2. disk[HeadFile] \in File
      BY <1>1, <1>3, <3>1, DueStands DEF Typed
    <3> QED
      BY <1>6, <3>1, <3>2 DEF Seat
  <2>3. job[q].open[HeadFile] # None =>
           /\ job[q].open[HeadFile] \in File /\ Seat(job[q].open[HeadFile], HeadFile)
    BY <1>3, <2>1 DEF Seat
  <2> QED
    BY <1>2, <1>5, <1>6, <2>2, <2>3, ReadyStays
<1>10. ASSUME ~ met'
       PROVE  Sound' /\ Alone' /\ \A q \in Processes : Good(job[q])'
  <2>1. ~ met /\ Alone /\ Good(j)
    BY <1>1, <1>2, <1>10 DEF Knows
  <2>2. Sound
    BY <1>2, <2>1 DEF Good
  <2>3. disk[HeadFile] \in File
    BY <1>1, <1>3, <2>2 DEF Typed, Sound, Standing
  <2>4. Sound'
    BY <1>2, <1>3, <1>5, <2>2, <2>3 DEF Sound
  <2>5. Alone'
    BY <1>2, <2>1 DEF Alone, Due
  <2>6. ASSUME NEW q \in Processes
        PROVE  Good(job[q])'
    <3>1. Good(job[q])
      BY <2>1, JobNow
    <3>2. job[q].step = "giveBack" => job[q].left = <<>>
      BY <2>2, <3>1 DEF Good
    <3> QED
      BY <1>2, <2>1, <2>4, <3>2, SoundIsGood
  <2> QED
    BY <2>4, <2>5, <2>6
<1> QED
  BY <1>7, <1>8, <1>9, <1>10 DEF Knows, Startable

\* A file that was made is taken back: the base was not all there, and is not now.
LEMMA GiveBackKnows ==
    ASSUME IInv, Knows, NEW p \in Processes, GiveBack(p)
    PROVE  Knows'
<1> DEFINE j == job[p]
           k == job'[p]
           name == Head(j.left)
<1>1. /\ Ready(j) /\ Owned(j, disk) /\ (~ met => Good(j)) /\ making \in Formats /\ Typed
      /\ Whole(j) /\ job = [q \in Processes |-> job[q]]
  BY JobNow
<1>2. /\ j.step = "giveBack" /\ j.left # <<>>
      /\ disk' = [disk EXCEPT ![name] = None]
      /\ k = [j EXCEPT !.left = Tail(j.left)] /\ job' = [job EXCEPT ![p] = k]
      /\ UNCHANGED <<making, holds, spoilt>>
      /\ met' = (met \/ \E q \in Processes \ {p} : InTheMaking(q))
  BY <1>1 DEF GiveBack, Pop, At, More, Name, Meeting
<1>3. /\ k.step = "giveBack" /\ k.left = Tail(j.left) /\ k.own = j.own
      /\ k.seen = j.seen /\ k.made = j.made /\ k.open = j.open
      /\ \A q \in Processes \ {p} : job'[q] = job[q]
  BY <1>1, <1>2 DEF Whole
<1>4. IInv'
  BY GiveBackStep
<1> HIDE DEF j, k
<1>5. j.left \in Seq(Names) /\ Due(j) = j.left /\ Due(k) = Tail(j.left)
  BY <1>1, <1>2, <1>3 DEF Ready, Due
<1>6. /\ name \in Names /\ Tail(j.left) \in Seq(Names)
      /\ ToSet(j.left) = {name} \cup ToSet(Tail(j.left))
  BY <1>2, <1>5, HeadAndTail
<1> HIDE DEF name
<1>7. /\ Names' = Names /\ File' = File /\ HeadFile' = HeadFile /\ PartsOf' = PartsOf
      /\ HeadFile \in Names /\ \A a, b : From(a, b)' = From(a, b)
  BY <1>1, <1>2, OrderOfFiles DEF Names, File, HeadFile, PartsOf, From
<1>8. disk'[name] = None /\ \A a \in Names : a # name => disk'[a] = disk[a]
  BY <1>1, <1>2, <1>6 DEF Typed
<1>9. /\ disk[name] # None /\ \A q \in Processes \ {p} : disk[name] \notin job[q].own
  BY <1>5, <1>6, DueStands DEF j
<1>10. name = HeadFile => holds[disk[HeadFile]] = "nothing"
  BY <1>1, <1>2, <1>5, <1>6 DEF Ready
<1>11. HeadFile \in ToSet(Tail(j.left)) => name # HeadFile
  <2>1. Owned(job[p], disk)'
    BY <1>4 DEF IInv
  <2>2. \A i \in DOMAIN Tail(j.left) : disk'[Tail(j.left)[i]] \in File
    BY <1>3, <1>5, <1>7, <2>1 DEF Owned, Due, k
  <2>3. None \notin File
    BY BoundsAssumption DEF File
  <2> QED
    BY <1>8, <2>2, <2>3 DEF ToSet
<1>12. Typed'
  BY <1>1, <1>2, <1>6, <1>7 DEF Typed
<1>13. OneSeat'
  <2>1. ASSUME NEW f \in File, NEW a \in Names, Seat(f, a)'
        PROVE  Seat(f, a)
    <3>1. None # f
      BY BoundsAssumption DEF File
    <3>2. \A q \in Processes : job'[q].open = job[q].open
      BY <1>3 DEF j, k
    <3> QED
      BY <1>8, <2>1, <3>1, <3>2 DEF Seat
  <2>2. OneSeat
    BY DEF Knows
  <2> QED
    BY <1>7, <2>1, <2>2 DEF OneSeat
<1>14. \A q \in Processes : Ready(job[q])'
  <2>1. Ready(job[p])'
    <3>1. job'[p] = k /\ Due(job[p])' = Tail(j.left)
      BY <1>3 DEF k, Due
    <3>2. HeadFile \in ToSet(Tail(j.left)) => holds'[disk'[HeadFile]] = "nothing"
      BY <1>1, <1>2, <1>5, <1>6, <1>7, <1>8, <1>11 DEF Ready
    <3>3. k.open[HeadFile] = None
      BY <1>1, <1>2, <1>3 DEF Ready
    <3>4. k.left \in Seq(Names) /\ k.seen \subseteq Names /\ k.open \in [Names -> File \cup {None}]
      BY <1>1, <1>3, <1>6 DEF Ready
    <3> QED
      BY <1>3, <1>7, <3>1, <3>2, <3>3, <3>4 DEF Ready, Making
  <2>2. ASSUME NEW q \in Processes \ {p}
        PROVE  Ready(job[q])'
    <3>1. Ready(job[q])
      BY DEF Knows
    <3>2. HeadFile \in ToSet(Due(job[q])) => name # HeadFile
      BY <1>9, DueStands
    <3>3. job[q].open[HeadFile] # None /\ holds[job[q].open[HeadFile]] # "nothing"
             => disk[HeadFile] = job[q].open[HeadFile] /\ name # HeadFile
      BY <1>10, <3>1 DEF Ready
    <3> QED
      BY <1>2, <1>3, <1>7, <1>8, <3>2, <3>3, ReadyStays
  <2> QED
    BY <2>1, <2>2
<1>15. ~ Sound' /\ Mail' \subseteq Mail
  <2>1. ~ Sound'
    BY <1>6, <1>7, <1>8 DEF Sound, Standing
  <2>2. \A a \in Names : disk'[a] = None \/ disk'[a] = disk[a]
    BY <1>8
  <2> QED
    BY <1>2, <1>7, <2>1, <2>2 DEF Mail, Standing
<1>16. ~ met' => ~ met /\ ~ Sound /\ Mail = {}
  <2>1. SUFFICES ASSUME ~ met'
                 PROVE  ~ met /\ ~ Sound /\ Mail = {}
    OBVIOUS
  <2>2. ~ met /\ Good(j)
    BY <1>1, <1>2, <2>1
  <2>3. Unjudged(j) = {}
    BY <1>2 DEF Unjudged
  <2> QED
    BY <1>2, <2>2, <2>3 DEF Good
<1>17. ASSUME ~ met'
       PROVE  Alone' /\ \A q \in Processes : Good(job[q])'
  <2>1. /\ ~ met /\ Alone /\ \A q \in Processes : Good(job[q])
        /\ \A q \in Processes \ {p} : ~ InTheMaking(q)
    BY <1>2, <1>17 DEF Knows
  <2>2. \A q \in Processes \ {p} : Due(job'[q]) = <<>>
    BY <1>2, <1>3, <1>5, <2>1 DEF Alone, j
  <2>3. Alone'
    BY <2>2 DEF Alone, Due
  <2>4. Good(job[p])'
    <3>1. job'[p] = k
      BY DEF k
    <3> QED
      BY <1>3, <1>15, <1>16, <1>17, <3>1 DEF Good, Making
  <2>5. ASSUME NEW q \in Processes \ {p}
        PROVE  Good(job[q])'
    <3>1. /\ Good(job[q]) /\ Ready(job[q]) /\ job'[q] = job[q]
          /\ ~ job[q].creating /\ job[q].step \notin Making \cup {"giveBack"}
      BY <1>3, <2>1, JobNow DEF InTheMaking, Making
    <3>2. job[q].step # "reading"
      BY <1>16, <1>17, <3>1 DEF Good
    <3>3. job[q].step = "open" /\ job[q].open[HeadFile] # None
          /\ holds'[job[q].open[HeadFile]] # "nothing"
             => \E a \in ToSet(job[q].left) : disk'[a] = None
      <4>1. SUFFICES ASSUME job[q].step = "open", job[q].open[HeadFile] # None,
                            holds'[job[q].open[HeadFile]] # "nothing"
                     PROVE  \E a \in ToSet(job[q].left) : disk'[a] = None
        OBVIOUS
      <4>2. PICK a \in ToSet(job[q].left) : disk[a] = None
        BY <1>2, <1>16, <1>17, <3>1, <4>1 DEF Good
      <4>3. a \in Names
        BY <3>1, <4>2, HeadAndTail, NothingInEmpty DEF Ready
      <4> QED
        BY <1>8, <4>2, <4>3
    <3> QED
      BY <1>7, <1>15, <1>16, <1>17, <3>1, <3>2, <3>3 DEF Good, Making
  <2> QED
    BY <2>3, <2>4, <2>5
<1>18. ASSUME ~ met', ~ spoilt'
       PROVE  Startable'
  <2>1. Startable /\ ~ Sound
    BY <1>2, <1>16, <1>18 DEF Knows
  <2>2. ASSUME NEW a \in Standing'
        PROVE  \/ IsEmpty(a)'
               \/ /\ a = HeadFile /\ holds'[disk'[a]] = "nothing"
                  /\ \E q \in Processes : HeadDue(job'[q])
    <3>1. a \in Standing /\ a # name /\ disk'[a] = disk[a]
      BY <1>7, <1>8, <2>2 DEF Standing
    <3>2. CASE IsEmpty(a)
      BY <1>2, <1>7, <3>1, <3>2 DEF IsEmpty, Fresh
    <3>3. CASE ~ IsEmpty(a)
      <4>1. PICK q \in Processes : /\ HeadDue(job[q]) /\ a = HeadFile
                                   /\ holds[disk[a]] = "nothing"
        BY <2>1, <3>1, <3>3 DEF Startable
      <4>2. HeadDue(job'[q])
        <5>1. CASE q = p
          BY <1>2, <1>3, <1>6, <3>1, <4>1, <5>1 DEF HeadDue, j, k
        <5>2. CASE q # p
          BY <1>3, <4>1, <5>2
        <5> QED
          BY <5>1, <5>2
      <4> QED
        BY <1>2, <3>1, <4>1, <4>2
    <3> QED
      BY <3>2, <3>3
  <2>3. \A q \in Processes : HeadDue(job[q])' <=> HeadDue(job'[q])
    BY <1>7 DEF HeadDue
  <2> QED
    BY <1>7, <2>2, <2>3 DEF Startable
<1> QED
  BY <1>12, <1>13, <1>14, <1>17, <1>18 DEF Knows

\* Where there are files enough, a tosser finds one for each name.
LEMMA FilesForAll ==
    ASSUME making \in Formats, Cardinality(FreeFile) >= Len(making)
    PROVE  FreeFiles \in [Names -> FreeFile] /\ IsInjective(FreeFiles)
<1>1. /\ Len(making) \in Nat /\ DOMAIN making = 1 .. Len(making)
      /\ \A name \in Names : \E i \in 1 .. Len(making) : name = making[i]
  BY OrderOfFiles
<1>2. \A name \in Names : Place(name) \in 1 .. Len(making) /\ making[Place(name)] = name
  BY <1>1 DEF Place
<1>3. IsFiniteSet(1 .. MaxFiles) /\ FreeFile \in SUBSET (1 .. MaxFiles)
  BY FS_Interval, BoundsAssumption DEF FreeFile, File
<1>4. IsFiniteSet(FreeFile)
  BY <1>3, FS_Subset
<1> DEFINE c == Cardinality(FreeFile)
<1>5. c \in Nat /\ ExistsBijection(1 .. c, FreeFile)
  BY <1>4, FS_CardinalityType
<1>6. PICK b \in [1 .. c -> FreeFile] : \A i, k \in 1 .. c : b[i] = b[k] => i = k
  BY <1>5 DEF ExistsBijection, Bijection, Injection, IsInjective
<1>7. c >= Len(making)
  OBVIOUS
<1> HIDE DEF c
<1>8. \A name \in Names : Place(name) \in 1 .. c
  BY <1>1, <1>2, <1>5, <1>7
<1> DEFINE g == [name \in Names |-> b[Place(name)]]
<1>9. g \in [Names -> FreeFile]
  BY <1>6, <1>8
<1>10. \A x, y \in Names : g[x] = g[y] => x = y
  BY <1>2, <1>6, <1>8
<1>11. IsInjective(g)
  BY <1>9, <1>10 DEF IsInjective
<1> QED
  BY <1>9, <1>11 DEF FreeFiles

\* A tosser makes the base where nothing is, or fills one that is all there.
LEMMA TossKnows ==
    ASSUME IInv, Knows, Toss
    PROVE  Knows'
<1>1. making \in Formats /\ Typed /\ OneSeat
  BY DEF IInv, Shape, Knows
<1>2. UNCHANGED <<making, job, met, spoilt>>
  BY DEF Toss
<1>3. /\ HeadFile \in Names /\ Names' = Names /\ File' = File /\ HeadFile' = HeadFile
      /\ PartsOf' = PartsOf
  BY <1>1, <1>2, OrderOfFiles DEF Names, File, HeadFile, PartsOf
<1>4. CASE Standing = {}
  <2>1. /\ Cardinality(FreeFile) >= Len(making)
        /\ disk' = [name \in Names |-> FreeFiles[name]]
        /\ holds' = [f \in File |-> IF f \in Range(disk') THEN "mail" ELSE holds[f]]
    BY <1>4 DEF Toss
  <2>2. /\ FreeFiles \in [Names -> FreeFile]
        /\ \A a, b \in Names : FreeFiles[a] = FreeFiles[b] => a = b
    BY <1>1, <2>1, FilesForAll DEF IsInjective
  <2>3. \A a \in Names : /\ disk'[a] = FreeFiles[a] /\ disk'[a] \in FreeFile
                         /\ disk[a] = None
    BY <1>4, <2>1, <2>2 DEF Standing
  <2>4. \A a, b \in Names : /\ disk'[a] \in File /\ disk'[a] # None
                            /\ \A q \in Processes : job[q].open[b] # disk'[a]
    BY <2>3, FreeIsFree
  <2>5. Typed'
    BY <1>1, <1>3, <2>1, <2>4 DEF Typed
  <2>6. \A a \in Names : disk'[a] \in Range(disk')
    BY <2>1 DEF Range
  <2>7. \A f \in Range(disk') : \E a \in Names : f = disk'[a]
    BY <2>1 DEF Range
  <2>8. Sound'
    BY <1>3, <2>1, <2>4, <2>6 DEF Sound, Standing
  <2>9. OneSeat'
    <3>1. ASSUME NEW f \in File, NEW a \in Names, NEW b \in Names, Seat(f, a)', Seat(f, b)'
          PROVE  a = b
      <4>1. CASE disk'[a] = f
        <5>1. disk'[b] = f
          BY <1>2, <2>4, <3>1, <4>1 DEF Seat
        <5> QED
          BY <2>2, <2>3, <4>1, <5>1
      <4>2. CASE disk'[a] # f
        <5>1. Seat(f, a)
          BY <1>2, <3>1, <4>2 DEF Seat
        <5>2. disk'[b] # f
          BY <1>2, <2>4, <3>1, <4>2 DEF Seat
        <5>3. Seat(f, b)
          BY <1>2, <3>1, <5>2 DEF Seat
        <5> QED
          BY <1>1, <5>1, <5>3 DEF OneSeat
      <4> QED
        BY <4>1, <4>2
    <3> QED
      BY <1>3, <3>1 DEF OneSeat
  <2>10. ASSUME NEW q \in Processes
         PROVE  Due(job[q]) = <<>> /\ HeadFile \notin ToSet(Due(job[q]))
    <3>1. Due(job[q]) \in Seq(Names)
      BY JobNow DEF Owned
    <3>2. ASSUME Due(job[q]) # <<>>
          PROVE  FALSE
      <4>1. Head(Due(job[q])) \in ToSet(Due(job[q]))
        BY <3>1, <3>2, HeadAndTail
      <4> QED
        BY <2>3, <4>1, DueStands
    <3> QED
      BY <3>2, NothingInEmpty
  <2>11. ASSUME NEW q \in Processes
         PROVE  Ready(job[q])'
    <3>1. /\ job[q].open \in [Names -> File \cup {None}]
          /\ job[q].open[HeadFile] # None =>
                holds[job[q].open[HeadFile]] = "nothing" \/ disk[HeadFile] = job[q].open[HeadFile]
      BY JobNow DEF Ready
    <3>2. job[q].open[HeadFile] \notin Range(disk')
      BY <1>3, <2>4, <2>7
    <3>3. job[q].open[HeadFile] # None =>
             /\ holds[job[q].open[HeadFile]] = "nothing"
             /\ holds'[job[q].open[HeadFile]] = "nothing"
      BY <1>3, <2>1, <2>3, <3>1, <3>2
    <3> QED
      BY <1>2, <2>10, <3>3, ReadyStays
  <2>12. ASSUME ~ met', NEW q \in Processes
         PROVE  Good(job[q])'
    BY <1>2, <2>8, <2>10, <2>12, SoundIsGood DEF Due
  <2>13. Alone'
    BY <1>2, <2>10 DEF Alone, Due
  <2> QED
    BY <2>5, <2>8, <2>9, <2>11, <2>12, <2>13 DEF Knows, Startable
<1>5. CASE Standing # {}
  <2>1. /\ Sound /\ UNCHANGED disk
        /\ holds' = [f \in File |-> IF f \in Range(disk) THEN "mail" ELSE holds[f]]
    BY <1>5 DEF Toss, Sound
  <2>2. disk[HeadFile] \in File /\ holds[disk[HeadFile]] # "nothing"
    BY <1>1, <1>3, <2>1 DEF Sound, Standing, Typed
  <2>3. \A f \in File : holds[f] # "nothing" => holds'[f] # "nothing"
    BY <2>1
  <2>4. Sound'
    BY <1>3, <2>1, <2>2, <2>3 DEF Sound, Standing
  <2>5. Typed'
    BY <1>1, <1>3, <2>1 DEF Typed
  <2>6. OneSeat'
    BY <1>1, <1>2, <1>3, <2>1 DEF OneSeat, Seat
  <2>7. ASSUME NEW q \in Processes
        PROVE  Ready(job[q])'
    <3>1. job[q].open \in [Names -> File \cup {None}]
      BY JobNow DEF Ready
    <3> DEFINE f == job[q].open[HeadFile]
    <3>2. ASSUME f # None, holds[f] = "nothing"
          PROVE  holds'[f] = "nothing"
      <4>1. f \in File /\ Seat(f, HeadFile)
        BY <1>3, <3>1, <3>2 DEF Seat
      <4>2. ASSUME f \in Range(disk)
            PROVE  FALSE
        <5>1. PICK a \in Names : disk[a] = f
          BY <1>1, <4>2 DEF Range, Typed
        <5>2. a = HeadFile
          BY <1>1, <1>3, <4>1, <5>1 DEF OneSeat, Seat
        <5> QED
          BY <2>2, <3>2, <5>1, <5>2
      <4> QED
        BY <2>1, <3>2, <4>1, <4>2
    <3>3. f # None => f \in File
      BY <1>3, <3>1
    <3> QED
      BY <1>2, <2>1, <2>2, <2>3, <3>2, <3>3, ReadyStays
  <2>8. ASSUME ~ met', NEW q \in Processes
        PROVE  Good(job[q])'
    <3>1. ~ met /\ Good(job[q])
      BY <1>2, <2>8, JobNow
    <3>2. job[q].step = "giveBack" => job[q].left = <<>>
      BY <2>1, <3>1 DEF Good
    <3> QED
      BY <1>2, <2>1, <2>4, <3>1, <3>2, SoundIsGood
  <2>9. ~ met' => Alone'
    BY <1>2 DEF Knows, Alone, Due
  <2> QED
    BY <2>4, <2>5, <2>6, <2>7, <2>8, <2>9 DEF Knows, Startable
<1> QED
  BY <1>4, <1>5

-----------------------------------------------------------------------------

LEMMA InitKnows == Init => Knows
<1> SUFFICES ASSUME Init
             PROVE  Knows
  OBVIOUS
<1>1. making \in Formats /\ \A q \in Processes : job[q] = Idle
  BY DEF Init
<1>2. /\ Len(making) \in Nat /\ DOMAIN making = 1 .. Len(making)
      /\ \A name \in Names : \E i \in 1 .. Len(making) : name = making[i]
      /\ HeadFile \in Names
  BY <1>1, OrderOfFiles
<1>3. \A name \in Names : Place(name) \in 1 .. Len(making) /\ making[Place(name)] = name
  BY <1>2 DEF Place
<1>4. \A name \in Names : Place(name) \in File
  BY <1>1, <1>2, <1>3, BoundsAssumption DEF File
<1>5. PICK there \in SUBSET Names :
         disk = [name \in Names |-> IF name \in there THEN Place(name) ELSE None]
  BY DEF Init
<1>6. disk \in [Names -> File \cup {None}]
  BY <1>4, <1>5
<1>7. Typed
  BY <1>6 DEF Init, Typed
<1>8. None \notin File /\ Idle.open = [name \in Names |-> None]
  BY BoundsAssumption DEF File, Idle
<1>9. OneSeat
  <2>1. ASSUME NEW f \in File, NEW a \in Names, Seat(f, a)
        PROVE  f = Place(a)
    BY <1>1, <1>5, <1>8, <2>1 DEF Seat
  <2> QED
    BY <1>3, <2>1 DEF OneSeat
<1>10. Ready(Idle) /\ Good(Idle) /\ Due(Idle) = <<>>
  BY <1>1, IdleKnows
<1>11. ~ spoilt => Startable
  <2>1. SUFFICES ASSUME Openable
                 PROVE  Startable
    BY DEF Init
  <2> QED
    BY <2>1 DEF Openable, Startable, Sound
<1> QED
  BY <1>1, <1>7, <1>9, <1>10, <1>11 DEF Knows, Alone

LEMMA NextKnows == IInv /\ Knows /\ [Next]_vars => Knows'
<1> SUFFICES ASSUME IInv, Knows, [Next]_vars
             PROVE  Knows'
  OBVIOUS
<1>1. ASSUME NEW p \in Processes, Step(p)
      PROVE  Knows'
  <2>1. CASE MakeFile(p) \/ GiveBack(p) \/ WriteHeader(p) \/ Write(p)
    BY <2>1, MakeFileKnows, GiveBackKnows, WriteHeaderKnows, WriteKnows
  <2>2. CASE ~ (MakeFile(p) \/ GiveBack(p) \/ WriteHeader(p) \/ Write(p))
    <3>1. Moves(p)
      BY <1>1, <2>2, AskingMoves, KeptMoves, RefusedMoves, NotGivenBackMoves, MadeMoves,
         OpenFileMoves, ReadHeaderMoves DEF Step
    <3> QED
      BY <3>1, MovesKeeps
  <2> QED
    BY <2>1, <2>2
<1>2. CASE UNCHANGED vars
  <2>1. UNCHANGED <<making, disk, holds, job, met, spoilt>>
    BY <1>2 DEF vars
  <2>2. /\ Names' = Names /\ File' = File /\ HeadFile' = HeadFile /\ PartsOf' = PartsOf
        /\ Standing' = Standing /\ Sound' = Sound /\ Mail' = Mail
        /\ \A a, b : From(a, b)' = From(a, b)
    BY <2>1 DEF Names, File, HeadFile, PartsOf, Standing, Sound, Mail, From
  <2>3. Typed' /\ OneSeat'
    BY <2>1, <2>2 DEF Knows, Typed, OneSeat, Seat
  <2>4. ASSUME NEW q \in Processes
        PROVE  Ready(job[q])'
    <3>1. Ready(job[q]) /\ job'[q] = job[q]
      BY <2>1 DEF Knows
    <3> QED
      BY <2>1, <2>2, <3>1 DEF Ready, Due
  <2>5. ASSUME NEW q \in Processes, ~ met'
        PROVE  Good(job[q])'
    <3>1. Good(job[q]) /\ job'[q] = job[q]
      BY <2>1, <2>5 DEF Knows
    <3> QED
      BY <2>1, <2>2, <3>1 DEF Good, Unjudged
  <2>6. ~ met' => Alone'
    BY <2>1 DEF Knows, Alone, Due
  <2>7. ~ met' /\ ~ spoilt' => Startable'
    <3>1. \A name \in Standing : IsEmpty(name)' = IsEmpty(name)
      BY <2>1, <2>2 DEF IsEmpty, Fresh
    <3> QED
      BY <2>1, <2>2, <3>1 DEF Knows, Startable, HeadDue
  <2> QED
    BY <2>3, <2>4, <2>5, <2>6, <2>7 DEF Knows
<1> QED
  BY <1>1, <1>2, TossKnows DEF Next

LEMMA AlwaysKnows == Spec => []Knows
<1> QED
  BY InitKnows, NextKnows, InvariantHolds, PTL DEF Spec

\* Whatever was refused, whoever died, and however many asked, made and opened at
\* once: a base that could be opened or made still can be once nobody is in the
\* middle of it, unless a head was left without its header or two had met.
THEOREM NextOpens == Spec => []OpensNextTime
<1>1. Knows => OpensNextTime
  <2> SUFFICES ASSUME Knows, ~ met, ~ spoilt,
                      \A p \in Processes : job[p].step \in {"idle", "reading"}
               PROVE  Openable
    BY DEF OpensNextTime
  <2>1. \A p \in Processes : ~ HeadDue(job[p])
    BY DEF HeadDue
  <2>2. Startable
    BY DEF Knows
  <2> QED
    BY <2>1, <2>2 DEF Startable, Openable, Sound
<1> QED
  BY <1>1, AlwaysKnows, PTL

\* A base with mail in it neither loses a file nor gets one, whoever takes it for
\* an empty one that wants completing, or takes back what it made: where there is
\* mail, either the base is all there, or nobody is at making files of it.
THEOREM MailStaysPut == Spec => HeldIsLeftAlone
<1>1. ASSUME IInv, Knows, [Next]_vars, Mail # {}, ~ met'
      PROVE  disk' = disk
  <2>1. CASE UNCHANGED disk
    BY <2>1
  <2>2. CASE Toss
    BY <1>1, <2>2 DEF Toss, Mail
  <2>3. ASSUME NEW p \in Processes, Step(p), disk' # disk
        PROVE  FALSE
    <3>1. MakeFile(p) \/ GiveBack(p)
      <4>1. CASE WriteHeader(p) \/ Write(p)
        BY <2>3, <4>1 DEF WriteHeader, Write
      <4>2. CASE ~ (MakeFile(p) \/ GiveBack(p) \/ WriteHeader(p) \/ Write(p))
        <5>1. Moves(p)
          BY <1>1, <2>3, <4>2, AskingMoves, KeptMoves, RefusedMoves, NotGivenBackMoves,
             MadeMoves, OpenFileMoves, ReadHeaderMoves DEF Step
        <5> QED
          BY <2>3, <5>1 DEF Moves
      <4> QED
        BY <4>1, <4>2
    <3>2. ~ met
      BY <1>1, <3>1 DEF MakeFile, GiveBack, Meeting
    <3>3. Good(job[p])
      BY <1>1, <3>2 DEF Knows
    <3>4. job[p].step \in Making \cup {"giveBack"} /\ job[p].left # <<>>
      BY <3>1 DEF MakeFile, GiveBack, Creating, At, More, Making
    <3>5. Sound
      <4>1. Unjudged(job[p]) = {}
        BY <3>4 DEF Unjudged, Making
      <4> QED
        BY <1>1, <3>3, <3>4, <4>1 DEF Good
    <3>6. CASE MakeFile(p)
      <4>1. Name(p) \in Names /\ disk[Name(p)] = None
        BY <1>1, <3>4, <3>6, InOrder DEF MakeFile, Creating, At, Making, Name
      <4> QED
        BY <3>5, <4>1 DEF Sound, Standing
    <3>7. CASE GiveBack(p)
      BY <3>3, <3>4, <3>5, <3>7 DEF Good, GiveBack, At
    <3> QED
      BY <3>1, <3>6, <3>7
  <2> QED
    BY <1>1, <2>1, <2>2, <2>3 DEF Next, vars
<1>2. IInv /\ Knows /\ [Next]_vars => [Mail # {} /\ ~ met' => disk' = disk]_vars
  BY <1>1
<1> QED
  BY <1>2, InvariantHolds, AlwaysKnows, PTL DEF Spec, HeldIsLeftAlone
=============================================================================
