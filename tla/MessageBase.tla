---------------------------- MODULE MessageBase ----------------------------
(***************************************************************************)
(* What a message base promises whoever writes to it, whatever its format  *)
(* (ports/i_msgbase.hpp, msgbase/format_driver.hpp): an area is a sequence *)
(* of messages, numbered by position and identified by UID, and each       *)
(* writing call changes it in one step.  SquishBase implements it with two *)
(* files and one write to the disk at a time.                              *)
(***************************************************************************)
EXTENDS Naturals, Sequences, FiniteSets, FiniteSetsExt

CONSTANT Text       \* what a message can say

VARIABLES
    messages,       \* the area, in message order
    nextUid         \* the UID the next message will have

baseVars == <<messages, nextUid>>

Message == [uid : Nat, text : Text, rcvd : BOOLEAN, seen : BOOLEAN]

BaseInit == messages = <<>> /\ nextUid = 1

\* writeAll(): "the area grows by the whole set at once", each message at the
\* end and under a UID nothing has had before.
AppendSet(new) ==
    /\ new \in Seq(Message)
    /\ new # <<>>
    /\ \A i \in DOMAIN new : new[i].uid = nextUid + i - 1
    /\ messages' = messages \o new
    /\ nextUid' = nextUid + Len(new)

\* replace(): "it stays the same message", and every other keeps its number.
Replace(n, m) ==
    /\ m \in Message
    /\ m.uid = messages[n].uid
    /\ m.seen = messages[n].seen
    /\ messages' = [messages EXCEPT ![n] = m]
    /\ UNCHANGED nextUid

\* removeAll(): what is left keeps its order.  The k-th message left is the
\* one with k - 1 others left before it.
RemoveSet(S) ==
    LET Kept == DOMAIN messages \ S
        Place(k) == CHOOSE n \in Kept :
                        Cardinality({i \in Kept : i < n}) = k - 1
    IN  /\ messages' = [k \in 1 .. Cardinality(Kept) |-> messages[Place(k)]]
        /\ UNCHANGED nextUid

\* markSeen(), markReceived(): "the message itself is untouched".
Mark(n, seen, rcvd) ==
    /\ messages' = [messages EXCEPT ![n].seen = @ \/ seen,
                                    ![n].rcvd = @ \/ rcvd]
    /\ UNCHANGED nextUid

\* The messages a step can put in: as many as it added, as they now stand.
BaseNext ==
    \/ /\ Len(messages') > Len(messages)
       /\ AppendSet(SubSeq(messages', Len(messages) + 1, Len(messages')))
    \/ \E n \in DOMAIN messages :
        \/ /\ n \in DOMAIN messages'
           /\ Replace(n, messages'[n])
        \/ \E seen, rcvd \in BOOLEAN : Mark(n, seen, rcvd)
    \/ \E S \in (SUBSET DOMAIN messages) \ {{}} : RemoveSet(S)

BaseSpec == BaseInit /\ [][BaseNext]_baseVars
-----------------------------------------------------------------------------
\* A UID names one message: UIDs go up with the numbers of the messages, and the
\* next is past them all (indexOfUid() of the drivers cuts the area in two by
\* them).
UidsRise ==
    /\ \A i, j \in DOMAIN messages :
            i < j => messages[i].uid < messages[j].uid
    /\ \A i \in DOMAIN messages : messages[i].uid < nextUid

\* And for good: a UID that has been given out and has left the area never comes
\* back, so that a last-read mark never means another message.
NewMeansNew ==
    /\ nextUid <= nextUid'
    /\ \A i \in DOMAIN messages' :
            messages'[i].uid < nextUid
                => \E j \in DOMAIN messages :
                        messages[j].uid = messages'[i].uid

NeverGivenTwice == [][NewMeansNew]_baseVars
=============================================================================
