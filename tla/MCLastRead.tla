----------------------------- MODULE MCLastRead -----------------------------
(***************************************************************************)
(* Two readers of one area of each format: with records of their own, and   *)
(* before either has a record or there is a file.                          *)
(***************************************************************************)
EXTENDS LastRead, TLC

CONSTANTS one, other, oneName, otherName

MCUser == {one, other}
\* The numbers leave a record nobody has between the two.
Numbers == [u \in MCUser |-> IF u = one THEN 0 ELSE 2]
Names == [u \in MCUser |-> IF u = one THEN oneName ELSE otherName]
Of(format, users, before) ==
    [format |-> format, users |-> users, before |-> before, crc |-> Names,
     number |-> IF format = "Jam" THEN [u \in MCUser |-> 0] ELSE Numbers]

Nobody == [crc |-> NoCrc, last |-> 0, high |-> 0]
\* A record nobody has, then that of each.
Both == << Nobody, [crc |-> otherName, last |-> 1, high |-> 2],
           [crc |-> oneName, last |-> 2, high |-> 3] >>
\* The other's record is a cleared one.
SomeCleared == << [Nobody EXCEPT !.last = 1], Nobody, [Nobody EXCEPT !.last = MaxUid + 1] >>

MCVolumes ==
    {Of("Opus", MCUser, SomeCleared), Of("Squish", MCUser, <<>>),
     Of("Squish", MCUser, NoFile), Of("Jam", MCUser, Both),
     Of("Jam", MCUser, NoFile)}
=============================================================================
