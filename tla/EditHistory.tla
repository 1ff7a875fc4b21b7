---------------------------- MODULE EditHistory ----------------------------
(***************************************************************************)
(* The undo and redo of the message being written (ui/edit_history.cpp)    *)
(* and the compose screen that feeds it.  The history is handed the        *)
(* message after every key and keeps, for each change, the run of lines    *)
(* that differs; typing in a run is gathered into one step, a word at a    *)
(* time.                                                                   *)
(*                                                                         *)
(* past and future are history variables: what the message really was      *)
(* before each step done and after each step undone.                       *)
(***************************************************************************)
EXTENDS Integers, Sequences

CONSTANTS
    Line,       \* what a line may say
    Texts,      \* the texts a message may have, each a sequence of lines
    Headers,    \* what its typed-in fields may say
    Foci,       \* where the typing may stand
    MaxSteps,   \* kMaxSteps, 1000 in the code
    None        \* nothing seen yet; a step that left the header alone

ASSUME StepsAssumption == MaxSteps \in Nat \ {0}
ASSUME TextsAssumption == Texts \subseteq Seq(Line)
ASSUME NoneAssumption == None \notin Headers

VARIABLES
    seen,        \* seen_: the message as the history knows it, or None
    done,        \* done_
    undone,      \* undone_, the last undone at its end
    typedBlank,  \* typedBlank_
    sealed,      \* sealed_
    past,        \* history: the message before each step done
    future,      \* history: the message after each step undone
    tail,        \* history: what was last typed into the last step done, "blank"
                 \* or "word"; "none" where the next change must start another
    gathered     \* history: the last change went into the step before it

historyVars == <<seen, done, undone, typedBlank, sealed, past, future, tail, gathered>>

Kind == {"Typing", "Deleting", "Other"}
Message == [lines : Seq(Line), header : Headers, focus : Foci]
Content == [lines : Texts, header : Headers, focus : Foci]
Step == [row : Nat, removed : Seq(Line), inserted : Seq(Line),
         headerBefore : Headers \cup {None}, headerAfter : Headers \cup {None},
         before : Foci, after : Foci, kind : Kind]

\* EditHistory::clear()
Forgotten(content) ==
    /\ seen' = content
    /\ done' = <<>> /\ undone' = <<>>
    /\ typedBlank' = FALSE /\ sealed' = FALSE
    /\ past' = <<>> /\ future' = <<>> /\ tail' = "none"
    /\ gathered' = FALSE

HistoryInit ==
    /\ seen = None
    /\ done = <<>> /\ undone = <<>>
    /\ typedBlank = FALSE /\ sealed = FALSE
    /\ past = <<>> /\ future = <<>> /\ tail = "none"
    /\ gathered = FALSE
-----------------------------------------------------------------------------
\* `count` lines after the first `row` replaced with `with`.
Splice(lines, row, count, with) ==
    SubSeq(lines, 1, row) \o with \o SubSeq(lines, row + count + 1, Len(lines))

Shorter(a, b) == IF Len(a) <= Len(b) THEN Len(a) ELSE Len(b)

\* What the two have in common at the front, and at the back of the rest.
CommonFront(a, b) ==
    CHOOSE n \in 0 .. Shorter(a, b) :
        /\ \A i \in 1 .. n : a[i] = b[i]
        /\ n = Shorter(a, b) \/ a[n + 1] # b[n + 1]

\* Mutant: the back may reach into the front.
BackPastFront(a, b) ==
    CHOOSE n \in 0 .. Shorter(a, b) :
        /\ \A i \in 0 .. n - 1 : a[Len(a) - i] = b[Len(b) - i]
        /\ n = Shorter(a, b) \/ a[Len(a) - n] # b[Len(b) - n]

CommonBack(a, b) ==
    CHOOSE n \in 0 .. Shorter(a, b) - CommonFront(a, b) :
        /\ \A i \in 0 .. n - 1 : a[Len(a) - i] = b[Len(b) - i]
        /\ \/ n = Shorter(a, b) - CommonFront(a, b)
           \/ a[Len(a) - n] # b[Len(b) - n]

Changed(old, new) == old.lines # new.lines \/ old.header # new.header

StepOf(old, new, kind) ==
    LET front == CommonFront(old.lines, new.lines)
        back == CommonBack(old.lines, new.lines)
        text == old.lines # new.lines
        head == old.header # new.header
    IN  [row |-> IF text THEN front ELSE 0,
         removed |-> IF text THEN SubSeq(old.lines, front + 1, Len(old.lines) - back)
                     ELSE <<>>,
         inserted |-> IF text THEN SubSeq(new.lines, front + 1, Len(new.lines) - back)
                      ELSE <<>>,
         headerBefore |-> IF head THEN old.header ELSE None,
         headerAfter |-> IF head THEN new.header ELSE None,
         before |-> old.focus, after |-> new.focus, kind |-> kind]

\* Mutant: a blank begins no step of its own.
ContinuesPastBlank(step, blank) ==
    /\ ~sealed /\ done # <<>> /\ step.kind # "Other"
    /\ LET last == done[Len(done)]
       IN  /\ last.kind = step.kind /\ last.after = step.before
           /\ last.row = step.row
           /\ Len(last.removed) = 1 /\ Len(last.inserted) = 1
           /\ Len(step.removed) = 1 /\ Len(step.inserted) = 1

\* Whether the step carries on the run the last one is.
Continues(step, blank) ==
    /\ ~sealed /\ done # <<>> /\ step.kind # "Other"
    /\ LET last == done[Len(done)]
       IN  /\ last.kind = step.kind /\ last.after = step.before
           /\ ~(step.kind = "Typing" /\ blank /\ ~typedBlank)
           /\ \/ /\ last.headerAfter # None /\ step.headerAfter # None
                 /\ last.inserted = <<>> /\ step.inserted = <<>>
                 /\ last.removed = <<>> /\ step.removed = <<>>
              \/ /\ last.headerAfter = None /\ step.headerAfter = None
                 /\ last.row = step.row
                 /\ Len(last.removed) = 1 /\ Len(last.inserted) = 1
                 /\ Len(step.removed) = 1 /\ Len(step.inserted) = 1

Merged(last, step) ==
    [last EXCEPT !.inserted = step.inserted,
                 !.headerAfter = IF step.headerAfter # None
                                 THEN step.headerAfter ELSE @,
                 !.after = step.after]

\* "The oldest going first".
Kept(steps) == IF Len(steps) > MaxSteps THEN Tail(steps) ELSE steps

\* Mutant: what was undone is still there to be redone.
UndoneKept == undone

UndoneAfterChange == <<>>

\* settle() with nothing changed.
Look(content) ==
    /\ seen # None
    /\ ~Changed(seen, content)
    /\ seen' = [seen EXCEPT !.focus = content.focus]
    /\ gathered' = FALSE
    /\ UNCHANGED <<done, undone, typedBlank, sealed, past, future, tail>>

\* settle() with a change.
Settle(content, kind, blank) ==
    LET step == StepOf(seen, content, kind)
    IN  /\ seen # None
        /\ Changed(seen, content)
        /\ IF Continues(step, blank)
           THEN /\ done' = [done EXCEPT ![Len(done)] = Merged(@, step)]
                /\ UNCHANGED past
           ELSE /\ done' = Kept(Append(done, step))
                /\ past' = IF Len(done) < MaxSteps THEN Append(past, seen)
                           ELSE Append(Tail(past), seen)
        /\ seen' = content
        /\ undone' = UndoneAfterChange
        /\ future' = <<>>
        /\ typedBlank' = IF kind = "Typing" THEN blank ELSE typedBlank
        /\ sealed' = FALSE
        /\ tail' = IF kind # "Typing" THEN "none" ELSE IF blank THEN "blank" ELSE "word"
        /\ gathered' = Continues(step, blank)

Apply(step, forward, content) ==
    LET out == IF forward THEN step.removed ELSE step.inserted
        in == IF forward THEN step.inserted ELSE step.removed
        head == IF forward THEN step.headerAfter ELSE step.headerBefore
    IN  [lines |-> Splice(content.lines, step.row, Len(out), in),
         header |-> IF head # None THEN head ELSE content.header,
         focus |-> IF forward THEN step.after ELSE step.before]
-----------------------------------------------------------------------------
\* The first settle() of a message begins the history.
Begin(content) == seen = None /\ Forgotten(content)

\* fillFromTemplate(), openWithText(), leaveEditor()
Clear == Forgotten(None)

\* handleEvent() settles before the key, when a paste, a file or a utility may
\* have changed the message, and after it.
Other(content) == Look(content) \/ Settle(content, "Other", FALSE)
Type(content, blank) == Settle(content, "Typing", blank)
Delete(content) == Settle(content, "Deleting", FALSE)

Undo ==
    /\ seen # None
    /\ done # <<>>
    /\ LET step == done[Len(done)]
       IN  /\ seen' = Apply(step, FALSE, seen)
           /\ undone' = Append(undone, step)
    /\ done' = SubSeq(done, 1, Len(done) - 1)
    /\ past' = SubSeq(past, 1, Len(past) - 1)
    /\ future' = Append(future, seen)
    /\ sealed' = TRUE /\ tail' = "none" /\ gathered' = FALSE
    /\ UNCHANGED typedBlank

Redo ==
    /\ seen # None
    /\ undone # <<>>
    /\ LET step == undone[Len(undone)]
       IN  /\ seen' = Apply(step, TRUE, seen)
           /\ done' = Append(done, step)
    /\ undone' = SubSeq(undone, 1, Len(undone) - 1)
    /\ past' = Append(past, [seen EXCEPT !.focus = undone[Len(undone)].before])
    /\ future' = SubSeq(future, 1, Len(future) - 1)
    /\ sealed' = TRUE /\ tail' = "none" /\ gathered' = FALSE
    /\ UNCHANGED typedBlank

HistoryNext ==
    \/ \E content \in Content :
        \/ Begin(content) \/ Other(content) \/ Delete(content)
        \/ \E blank \in BOOLEAN : Type(content, blank)
    \/ Clear \/ Undo \/ Redo

HistorySpec == HistoryInit /\ [][HistoryNext]_historyVars
-----------------------------------------------------------------------------
TypeOK ==
    /\ seen = None \/ seen \in Message
    /\ done \in Seq(Step) /\ undone \in Seq(Step)
    /\ Len(done) <= MaxSteps
    /\ {typedBlank, sealed, gathered} \subseteq BOOLEAN
    /\ past \in Seq(Message) /\ future \in Seq(Message)
    /\ tail \in {"blank", "word", "none"}

SameText(a, b) == a.lines = b.lines /\ a.header = b.header

\* The message after the i-th step done, and before the i-th step undone.
AfterDone(i) == IF i = Len(done) THEN seen ELSE past[i + 1]
BeforeUndone(i) == IF i = Len(undone) THEN seen ELSE future[i + 1]

\* Each step taken back, the last first, leaves the message as it really was,
\* the typing where it stood then: steps keep only the lines that differ, and
\* a run of keys is gathered into one, yet nothing else of the message is
\* touched (edit_history.cpp, settle() and apply()).
UndoRestores ==
    /\ Len(past) = Len(done)
    /\ \A i \in 1 .. Len(done) : Apply(done[i], FALSE, AfterDone(i)) = past[i]

\* Each step put back, the last undone first, leaves the message as it was
\* before it was undone: a change in between has thrown it away.
RedoRestores ==
    /\ Len(future) = Len(undone)
    /\ \A i \in 1 .. Len(undone) :
        SameText(Apply(undone[i], TRUE, BeforeUndone(i)), future[i])

\* What is done and undone together stays within the limit, although only
\* settle() looks at it ("a bound on what a message pasted into all afternoon
\* holds").
KeepsWithinLimit == Len(done) + Len(undone) <= MaxSteps

\* Undoing takes back a word at a time: no step holds a word and the blank
\* after it, and nothing typed after an undo, a redo or another kind of change
\* goes into the step before (edit_history.hpp, "Typing is one step a word at
\* a time").
OneWordAStep ==
    [][gathered' /\ tail' # "none" => tail = "blank" \/ tail = tail']_historyVars
=============================================================================
