-------------------------- MODULE MCComposeMessage --------------------------
(***************************************************************************)
(* An area being read, another echo and a netmail area; commands that      *)
(* every token can come to.  Scopes name what one look at them combines.   *)
(***************************************************************************)
EXTENDS ComposeMessage, TLC

CONSTANTS here, echo, netmail, ann, bob

MCArea == {here, echo, netmail}
MCRecipient == {ann, bob}

Mask(covered) == [who |-> Blank, answer |-> "mask", areas |-> covered]
Name(who, answer) == [who |-> who, answer |-> answer, areas |-> {}]

Cross == [kind |-> "XC", tokens |-> <<Mask({here, echo}), Mask({})>>]
CrossIt == [kind |-> "XC", tokens |-> <<Mask({here, echo})>>]
Carbon == [kind |-> "CC", tokens |-> <<Name(bob, "found")>>]
CarbonAsk == [kind |-> "CC", tokens |-> <<Name(bob, "ask"), Name(ann, "found")>>]
CarbonNobody == [kind |-> "CC", tokens |-> <<Name(ann, "unknown")>>]

\* Where the area being read is an echo: its copies go into the netmail area,
\* or nowhere; where it is netmail: beside the message.
Echo == [a \in MCArea |-> netmail]
NoNetmail == [a \in MCArea |-> IF a = netmail THEN netmail ELSE Nowhere]
Netmail == [a \in MCArea |-> IF a = here THEN here ELSE netmail]

Scope(external, begins, lines, carbon, refusals) ==
    [external |-> external, begins |-> begins, lines |-> lines,
     carbon |-> carbon, refusals |-> refusals, writable |-> TRUE,
     raw |-> FALSE, position |-> "new", messages |-> 1]

AllKinds == {"new", "reply", "forward", "change"}

\* An answer about the commands is asked for again where a refused message is
\* stored from the editor, and not from the box over an external one: there
\* bases refuse only messages without commands.
MCScopes ==
    {Scope(FALSE, {"new"}, {Cross, CarbonAsk}, Netmail, TRUE),
     Scope(FALSE, {"reply"}, {CrossIt, Carbon}, Echo, TRUE),
     [Scope(FALSE, {"reply"}, {CarbonNobody, CrossIt}, Netmail, FALSE)
        EXCEPT !.raw = TRUE],
     [Scope(FALSE, {"forward", "change"}, {Carbon}, NoNetmail, TRUE)
        EXCEPT !.writable = FALSE, !.position = "next"],
     [Scope(FALSE, AllKinds, {}, Netmail, TRUE) EXCEPT !.position = "next"],
     [Scope(TRUE, AllKinds, {}, Netmail, TRUE) EXCEPT !.position = "current"],
     Scope(TRUE, {"reply", "forward"}, {CarbonAsk, CrossIt}, Netmail, FALSE),
     [Scope(TRUE, {"reply"}, {CrossIt}, Netmail, FALSE) EXCEPT !.messages = 2]}

\* The box over an external editor, commands, and a base that may refuse.
RefusedInReview ==
    {Scope(TRUE, {"reply"}, {CrossIt}, Netmail, TRUE)}
=============================================================================
