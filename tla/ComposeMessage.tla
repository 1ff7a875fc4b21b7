--------------------------- MODULE ComposeMessage ---------------------------
(***************************************************************************)
(* Writing a message and storing it: ui/screens/compose_screen.cpp with    *)
(* the dialogs of ui/app_shell.cpp that stand over it, the user's own      *)
(* editor of app/external_editor.cpp and the CC: and XC: commands of       *)
(* app/copy_commands.cpp.                                                  *)
(*                                                                         *)
(* The program is one thread: an action is one event answered, or one      *)
(* program run.  What the user has written is counted in versions, which   *)
(* only go up; a template is told apart by the recipient it greets.        *)
(***************************************************************************)
EXTENDS Naturals, Sequences, FiniteSets, SequencesExt, FiniteSetsExt

CONSTANTS
    Area,        \* the areas
    Here,        \* the one being read
    Recipient,   \* those a message can be addressed to
    Blank,       \* a header addressed to nobody, or that does not parse
    Scopes,      \* the configurations and faults looked at, and how many
                 \* messages are begun under each
    MaxWords,    \* bound: versions of one message's words
    MaxLines,    \* bound: command lines in one message
    NoRun,       \* no CopyRun
    Nowhere,     \* no area
    Cleared      \* an empty composeStartText

ASSUME AreaAssumption == Here \in Area /\ Nowhere \notin Area
ASSUME ScopesAssumption ==
    \A s \in Scopes :
        /\ {s.external, s.refusals, s.writable, s.raw} \subseteq BOOLEAN
        /\ s.messages \in Nat
        /\ s.carbon \in [Area -> Area \cup {Nowhere}]
        /\ s.position \in {"new", "current", "next"}

\* A line that is a command, and what the program makes of each of its tokens.
CommandLine == UNION {s.lines : s \in Scopes}
Token == [who : Recipient \cup {Blank}, answer : {"mask", "found", "ask", "unknown"},
          areas : SUBSET Area]

ASSUME LinesAssumption ==
    \A l \in CommandLine :
        /\ l.kind \in {"CC", "XC"}
        /\ l.tokens \in Seq(Token)
        /\ \A i \in DOMAIN l.tokens : l.kind = "CC" => l.tokens[i].answer # "mask"
ASSUME NoRunAssumption ==
    NoRun \notin [process : BOOLEAN, commands : Seq(CommandLine), at : Nat,
                  carbons : Seq(Recipient \cup {Blank}), posts : SUBSET Area,
                  keep : SUBSET CommandLine, unresolved : BOOLEAN,
                  text : [greets : Recipient \cup {Blank}, words : Nat,
                          lines : Seq(CommandLine)]]
ASSUME ClearedAssumption ==
    Cleared \notin [greets : Recipient \cup {Blank}, words : Nat,
                    lines : Seq(CommandLine)]

VARIABLES
    scope,        \* the configuration, the commands the user knows, the faults
    areas,        \* what each area holds
    shown,        \* the number of the message in the reader, 0 for none
    messageCount, \* AppState::messageCount
    screen,       \* the top of the navigator
    box,          \* the dialog over it, or the user's own editor
    begun,        \* how many messages have been begun
    compose,      \* what is written: how it was begun, its area, its recipient
    edit,         \* the text and what the template said
    copyRun,      \* AppState::copyRun
    reviewShown,  \* AppState::externalReviewShown
    told          \* the areas the box on the screen names as not reached

vars == <<scope, areas, shown, messageCount, screen, box, begun, compose, edit,
          copyRun, reviewShown, told>>

(***************************************************************************)
(* Commands, texts and messages.  A token of an XC: line is a mask, told   *)
(* by the echoes it covers; one of a CC: line is somebody the nodelist has *)
(* found, asks about or does not know.  A file that cannot be read is a    *)
(* token nobody knows: its line is kept and named in the same way.         *)
(***************************************************************************)
Kinds == {"new", "reply", "forward", "change"}

\* What the template makes of a message to that recipient.
Template(to) == [greets |-> to, words |-> 0, lines |-> <<>>]

Empty == Template(Blank)

Stored(text, to, copy) == [of |-> begun, to |-> to, words |-> text.words,
                           lines |-> text.lines, copy |-> copy]

Old == [of |-> 0, to |-> Blank, words |-> 0, lines |-> <<>>, copy |-> FALSE]

Into(to) == scope.carbon[to]

\* The elements of a sequence that are in K, in their order.
Selected(s, K) ==
    LET Upto[n \in 0 .. Len(s)] ==
            IF n = 0 THEN <<>>
            ELSE IF s[n] \in K THEN Append(Upto[n - 1], s[n])
            ELSE Upto[n - 1]
    IN  Upto[Len(s)]

\* The lines of the text that are commands in the area it is written for.
CommandsIn(text, a) ==
    Selected(text.lines, {l \in Range(text.lines) :
                              l.kind = "CC" => Into(a) # Nowhere})

Items(commands) ==
    FlattenSeq([i \in DOMAIN commands |->
        [k \in DOMAIN commands[i].tokens |->
            [line |-> commands[i], token |-> commands[i].tokens[k]]]])

NewRun(commands) ==
    [process |-> TRUE, commands |-> commands, at |-> 1, carbons |-> <<>>,
     posts |-> {}, keep |-> {}, unresolved |-> FALSE, text |-> Empty]

Init ==
    /\ scope \in Scopes
    /\ areas \in {f \in [Area -> {<<>>, <<Old>>, <<Old, Old>>}] :
                      \A a \in Area \ {Here} : f[a] = <<>>}
    /\ shown \in IF areas[Here] = <<>> THEN {0} ELSE DOMAIN areas[Here]
    /\ messageCount = Len(areas[Here])
    /\ screen = "reader"
    /\ box = "none"
    /\ begun = 0
    /\ compose = [kind |-> "new", area |-> Here, to |-> Blank]
    /\ edit = [text |-> Empty, startText |-> Cleared, startTo |-> Blank,
               inHeader |-> FALSE]
    /\ copyRun = NoRun
    /\ reviewShown = FALSE
    /\ told = {}

(***************************************************************************)
(* Beginning a message.                                                    *)
(***************************************************************************)
\* The box an unwritable area puts up; the user reads it and it is gone.
RefusedAsReadOnly ==
    /\ screen = "reader" /\ box = "none"
    /\ ~scope.writable
    /\ box' = "error"
    /\ UNCHANGED <<scope, areas, shown, messageCount, screen, begun, compose,
                   edit, copyRun, reviewShown, told>>

Acknowledge ==
    /\ box = "error"
    /\ box' = "none" /\ told' = {}
    /\ UNCHANGED <<scope, areas, shown, messageCount, screen, begun, compose,
                   edit, copyRun, reviewShown>>

Open(kind, a, to, text, inHeader) ==
    /\ screen = "reader" /\ box = "none" /\ begun < scope.messages
    /\ screen' = "compose"
    /\ begun' = begun + 1
    /\ compose' = [kind |-> kind, area |-> a, to |-> to]
    /\ edit' = [text |-> text, startText |-> text, startTo |-> to,
                inHeader |-> inHeader \/ scope.external]
    /\ reviewShown' = FALSE
    /\ box' = IF scope.external /\ ~inHeader THEN "editor" ELSE "none"
    /\ UNCHANGED <<scope, areas, shown, messageCount, copyRun, told>>

StartNew ==
    /\ "new" \in scope.begins /\ scope.writable
    /\ \E to \in Recipient \cup {Blank} : Open("new", Here, to, Template(to), TRUE)

\* Into the area being read, or into another one named by the message or the
\* user, whose base nobody asks yet.
StartReply ==
    /\ "reply" \in scope.begins /\ shown # 0
    /\ \E a \in Area, to \in Recipient, onTo \in BOOLEAN :
        /\ a = Here => scope.writable
        /\ Open("reply", a, to, Template(to), onTo)

StartForwardTo ==
    /\ "forward" \in scope.begins /\ shown # 0
    /\ \E a \in Area, to \in Recipient \cup {Blank} :
        Open("forward", a, to, Template(to), TRUE)

\* openWithText(): the message itself, which no template has a part in.
AsRead(m) == [greets |-> m.to, words |-> 0, lines |-> m.lines]

StartChange ==
    /\ "change" \in scope.begins /\ shown # 0 /\ scope.writable
    /\ LET m == areas[Here][shown] IN
        Open("change", Here, m.to, AsRead(m), FALSE)

(***************************************************************************)
(* Writing it.                                                             *)
(***************************************************************************)
Writing == screen = "compose" /\ box = "none"

\* What a hand, a paste, an import, a utility or an editor may make of a text.
Edits(text) ==
    {[text EXCEPT !.words = @ + 1] : w \in {v \in {text.words} : v < MaxWords}}
    \cup {[text EXCEPT !.lines = Append(@, l)] :
              l \in {k \in scope.lines : k \notin Range(text.lines)
                                         /\ Len(text.lines) < MaxLines}}
    \cup {[text EXCEPT !.lines = RemoveAt(@, i)] : i \in DOMAIN text.lines}

TypeText ==
    /\ Writing /\ ~edit.inHeader /\ ~scope.external
    /\ \E text \in Edits(edit.text) : edit' = [edit EXCEPT !.text = text]
    /\ UNCHANGED <<scope, areas, shown, messageCount, screen, box, begun,
                   compose, copyRun, reviewShown, told>>

\* A utility handed the message, from either half of the screen; or one that
\* could not be run, which leaves the message alone.
ExternUtil ==
    /\ Writing
    /\ \/ /\ \E text \in Edits(edit.text) : edit' = [edit EXCEPT !.text = text]
          /\ UNCHANGED box
       \/ box' = "error" /\ UNCHANGED edit
    /\ UNCHANGED <<scope, areas, shown, messageCount, screen, begun, compose,
                   copyRun, reviewShown, told>>

TypeHeader ==
    /\ Writing /\ edit.inHeader
    /\ \E to \in Recipient \cup {Blank} : compose' = [compose EXCEPT !.to = to]
    /\ UNCHANGED <<scope, areas, shown, messageCount, screen, box, begun, edit,
                   copyRun, reviewShown, told>>

\* Mutant: whatever stands in the editor is taken for the template's.
RefreshedAlways(e) ==
    IF compose.kind = "change" \/ compose.to = e.startTo THEN e
    ELSE [e EXCEPT !.text = Template(compose.to),
                   !.startText = Template(compose.to), !.startTo = compose.to]

\* refreshTemplate()
Refreshed(e) ==
    IF compose.kind = "change" \/ compose.to = e.startTo \/ e.text # e.startText
    THEN e
    ELSE [e EXCEPT !.text = Template(compose.to),
                   !.startText = Template(compose.to), !.startTo = compose.to]

LeaveHeader ==
    /\ Writing /\ edit.inHeader
    /\ edit' = [Refreshed(edit) EXCEPT !.inHeader = scope.external]
    /\ box' = IF scope.external THEN "editor" ELSE "none"
    /\ UNCHANGED <<scope, areas, shown, messageCount, screen, begun, compose,
                   copyRun, reviewShown, told>>

EditHeader ==
    /\ Writing /\ ~edit.inHeader
    /\ edit' = [edit EXCEPT !.inHeader = TRUE]
    /\ UNCHANGED <<scope, areas, shown, messageCount, screen, box, begun,
                   compose, copyRun, reviewShown, told>>

(***************************************************************************)
(* Leaving it: what leaveEditor() puts back, over whatever is underneath.  *)
(***************************************************************************)

LeaveEditor(to) ==
    /\ screen' = to
    /\ compose' = [kind |-> "new", area |-> Here, to |-> Blank]
    /\ edit' = [text |-> Empty, startText |-> Cleared, startTo |-> Blank,
                inHeader |-> FALSE]
    /\ copyRun' = NoRun
    /\ reviewShown' = FALSE

DropMessage ==
    /\ LeaveEditor("reader")
    /\ box' = "none"
    /\ UNCHANGED <<scope, areas, shown, messageCount, begun, told>>

(***************************************************************************)
(* Storing it.  SaveMessage(run) is saveMessage() with copyRun at run: the *)
(* header that cannot be stored, the change, the commands not yet asked    *)
(* about, the message for the area on the screen and the one for another.  *)
(***************************************************************************)
AddressesReady == compose.kind = "change" \/ compose.to # Blank

NotReady(run) ==
    /\ ~AddressesReady
    /\ edit' = [edit EXCEPT !.inHeader = TRUE]
    /\ box' = "none" /\ copyRun' = run
    /\ UNCHANGED <<scope, areas, shown, messageCount, screen, begun, compose,
                   reviewShown, told>>

\* reportNotStored()
NotStored(run) ==
    /\ box' = "error" /\ copyRun' = run
    /\ UNCHANGED <<scope, areas, shown, messageCount, screen, begun, compose,
                   edit, reviewShown, told>>

SaveChange(run) ==
    /\ AddressesReady /\ compose.kind = "change"
    /\ \/ /\ areas' = [areas EXCEPT ![Here][shown] =
                           Stored(edit.text, compose.to, FALSE)]
          /\ LeaveEditor("reader")
          /\ box' = "none"
          /\ UNCHANGED <<scope, shown, messageCount, begun, told>>
       \/ scope.refusals /\ NotStored(run)

AsksAbout(run) == run = NoRun /\ CommandsIn(edit.text, compose.area) # <<>>

AskAboutCopies(run) ==
    /\ AddressesReady /\ compose.kind # "change" /\ AsksAbout(run)
    /\ copyRun' = NewRun(CommandsIn(edit.text, compose.area))
    /\ box' = "process"
    /\ UNCHANGED <<scope, areas, shown, messageCount, screen, begun, compose,
                   edit, reviewShown, told>>

Copying(run) == IF run = NoRun THEN FALSE ELSE run.process

FinalText(run) == IF Copying(run) THEN run.text ELSE edit.text

AnyCopies(run) == Copying(run) /\ (run.carbons # <<>> \/ run.posts # {})

CarbonCopies(run, text, carbons) ==
    FlattenSeq([i \in DOMAIN run.carbons |->
        IF i \in carbons THEN <<Stored(text, run.carbons[i], TRUE)>> ELSE <<>>])

Crosspost(text) == Stored(text, compose.to, TRUE)

\* The areas once the copies some of them took are in them.
WithCopies(held, run, carbons, posts) ==
    IF ~Copying(run) THEN held
    ELSE LET text == FinalText(run)
         IN  [a \in Area |->
                held[a]
                \o (IF a = Into(compose.area) THEN CarbonCopies(run, text, carbons)
                                            ELSE <<>>)
                \o (IF a \in posts THEN <<Crosspost(text)>> ELSE <<>>)]

NotReached(run, carbons, posts) ==
    IF ~Copying(run) THEN {}
    ELSE (run.posts \ posts)
         \cup (IF carbons = DOMAIN run.carbons THEN {} ELSE {Into(compose.area)})

\* writeCopies() and reportCopyTrouble(), the message itself being in held.
CopyOut(held, run) ==
    \E carbons \in IF Copying(run) THEN SUBSET DOMAIN run.carbons ELSE {{}},
       posts \in IF Copying(run) THEN SUBSET run.posts ELSE {{}} :
        /\ scope.refusals \/ NotReached(run, carbons, posts) = {}
        /\ areas' = WithCopies(held, run, carbons, posts)
        /\ told' = NotReached(run, carbons, posts)
        /\ box' = IF told' # {} \/ (Copying(run) /\ run.unresolved)
                  THEN "error" ELSE "none"

\* Mutant: the newest message of the area is taken for the one just written.
ReaderAfterSaveNewest(stored, count) ==
    IF scope.position = "new" \/ shown = 0
    THEN IF stored # 0 THEN count ELSE shown
    ELSE IF scope.position = "next" /\ shown < count THEN shown + 1 ELSE shown

\* readerAfterSave(): the number the reader is on.  stored: the message's
\* number in the area on the screen, 0 where it went into another.
ReaderAfterSave(stored, count) ==
    IF scope.position = "new" \/ shown = 0
    THEN IF stored # 0 THEN stored ELSE shown
    ELSE IF scope.position = "next" /\ shown < count THEN shown + 1 ELSE shown

Append1(a, m) == [areas EXCEPT ![a] = Append(@, m)]

StoreHere(run) ==
    /\ AddressesReady /\ compose.kind # "change" /\ ~AsksAbout(run)
    /\ compose.area = Here
    /\ \/ /\ scope.writable
          /\ \E back \in {TRUE} \cup {~(AnyCopies(run) /\ scope.refusals)} :
              /\ CopyOut(Append1(Here, Stored(FinalText(run), compose.to, FALSE)),
                         run)
              /\ LeaveEditor(IF back THEN "reader" ELSE "list")
              /\ messageCount' = IF back THEN Len(areas'[Here]) ELSE messageCount
              /\ shown' = IF back THEN ReaderAfterSave(Len(areas[Here]) + 1,
                                                       messageCount')
                          ELSE 0
          /\ UNCHANGED <<scope, begun>>
       \/ /\ scope.refusals \/ ~scope.writable
          /\ NotStored(run)

\* storeElsewhere(): one base is open at a time, and the area on the screen may
\* not open again - which ends on the area list, stored or not.
StoreElsewhere(run) ==
    /\ AddressesReady /\ compose.kind # "change" /\ ~AsksAbout(run)
    /\ compose.area # Here
    /\ LET held == Append1(compose.area, Stored(FinalText(run), compose.to, FALSE))
       IN  \/ \E back \in {TRUE} \cup {~(AnyCopies(run) /\ scope.refusals)} :
                /\ CopyOut(held, run)
                /\ LeaveEditor(IF back THEN "reader" ELSE "list")
                /\ shown' = IF back THEN ReaderAfterSave(0, messageCount) ELSE 0
                /\ UNCHANGED <<scope, messageCount, begun>>
           \/ /\ scope.refusals
              /\ NotStored(run)
           \/ /\ scope.refusals
              /\ areas' \in {areas, held}
              /\ LeaveEditor("list")
              /\ shown' = 0
              /\ box' = IF Copying(run) /\ run.unresolved THEN "error" ELSE "none"
              /\ UNCHANGED <<scope, messageCount, begun, told>>

SaveMessage(run) ==
    \/ NotReady(run)
    \/ SaveChange(run)
    \/ AskAboutCopies(run)
    \/ StoreHere(run)
    \/ StoreElsewhere(run)

(***************************************************************************)
(* Carrying the commands out.  The walk stops at a CC: token the nodelist  *)
(* has no one answer to, and goes on from there when the user has given it *)
(* one.                                                                    *)
(***************************************************************************)
IsMask(item) == item.line.kind = "XC"

Asks(item) == ~IsMask(item) /\ item.token.answer = "ask"

Found(item) == ~IsMask(item) /\ item.token.answer = "found"

AddressesTheSame(item) == item.token.who = compose.to

Covered(item) == IF IsMask(item) THEN item.token.areas \ {compose.area} ELSE {}

\* Mutant: only the tokens of CC: lines are looked at for what came to nothing.
CameToNothingCarbon(item) == ~IsMask(item) /\ item.token.answer = "unknown"

CameToNothing(item) == IF IsMask(item) THEN item.token.areas = {}
                                       ELSE item.token.answer = "unknown"

\* resolveCopies(), up to the next token that has to be asked about.
Walked(run) ==
    LET items == Items(run.commands)
        asks == {i \in run.at .. Len(items) : Asks(items[i])}
        stop == IF asks = {} THEN Len(items) + 1 ELSE Min(asks)
        past == SubSeq(items, run.at, stop - 1)
        lost == {i \in DOMAIN past : CameToNothing(past[i])}
        found == Selected(past, {i \in Range(past) :
                                     Found(i) /\ ~AddressesTheSame(i)})
    IN  [run EXCEPT
            !.at = stop,
            !.carbons = @ \o [i \in DOMAIN found |-> found[i].token.who],
            !.posts = @ \cup UNION {Covered(past[i]) : i \in DOMAIN past},
            !.keep = @ \cup {past[i].line : i \in lost},
            !.unresolved = @ \/ lost # {}]

\* rewriteCopyCommands() with what finishCopies() keeps: the lines carried out
\* are taken out of the text, every other stands.
Finished(run) ==
    LET kept == run.keep \cup {l \in Range(run.commands) :
                                  scope.raw \/ l.tokens = <<>>}
    IN  [run EXCEPT
            !.keep = kept,
            !.text = [edit.text EXCEPT
                !.lines = Selected(@, kept \cup (Range(@) \ Range(run.commands)))]]

ResolveCopies(run) ==
    LET walked == Walked(run) IN
    IF walked.at <= Len(Items(run.commands))
    THEN /\ copyRun' = walked
         /\ box' = "node"
         /\ UNCHANGED <<scope, areas, shown, messageCount, screen, begun,
                        compose, edit, reviewShown, told>>
    ELSE SaveMessage(Finished(walked))

(***************************************************************************)
(* The dialogs and their answers.                                          *)
(***************************************************************************)
AskToSave ==
    /\ Writing
    /\ IF AddressesReady
       THEN copyRun' = NoRun /\ box' = "save" /\ UNCHANGED edit
       ELSE edit' = [edit EXCEPT !.inHeader = TRUE] /\ UNCHANGED <<copyRun, box>>
    /\ UNCHANGED <<scope, areas, shown, messageCount, screen, begun, compose,
                   reviewShown, told>>

AskToDrop ==
    /\ Writing
    /\ box' = "drop"
    /\ UNCHANGED <<scope, areas, shown, messageCount, screen, begun, compose,
                   edit, copyRun, reviewShown, told>>

Dismiss ==
    /\ box \in {"save", "drop"}
    /\ box' = "none"
    /\ UNCHANGED <<scope, areas, shown, messageCount, screen, begun, compose,
                   edit, copyRun, reviewShown, told>>

ConfirmSave == box = "save" /\ SaveMessage(copyRun)

ConfirmDrop == box = "drop" /\ DropMessage

ProcessCopies ==
    box = "process" /\ ResolveCopies([copyRun EXCEPT !.process = TRUE])

IgnoreCopies ==
    box = "process" /\ SaveMessage([copyRun EXCEPT !.process = FALSE])

\* A node picked, or the box closed without one.
UseCarbonCopy ==
    /\ box = "node"
    /\ \/ \E who \in Recipient :
            ResolveCopies([copyRun EXCEPT !.carbons = Append(@, who), !.at = @ + 1])
       \/ ResolveCopies([copyRun EXCEPT
                            !.keep = @ \cup {Items(copyRun.commands)[copyRun.at].line},
                            !.unresolved = TRUE, !.at = @ + 1])

(***************************************************************************)
(* The user's own editor, and the box that stands over what it left.       *)
(***************************************************************************)
Reviewed(text) ==
    /\ edit' = [text |-> text, startText |-> Cleared, startTo |-> compose.to,
                inHeader |-> TRUE]
    /\ reviewShown' = TRUE
    /\ box' = "review"
    /\ UNCHANGED <<scope, areas, shown, messageCount, screen, begun, compose,
                   copyRun, told>>

EditedElsewhere ==
    /\ box = "editor"
    /\ \E text \in Edits(edit.text) : Reviewed(text)

LeftUntouched ==
    /\ box = "editor"
    /\ IF reviewShown
       THEN /\ box' = "review"
            /\ UNCHANGED <<scope, areas, shown, messageCount, screen, begun,
                           compose, edit, copyRun, reviewShown, told>>
       ELSE IF compose.kind = "forward" THEN Reviewed(edit.text)
            ELSE DropMessage

\* No file, no program, or nothing that can be read back.
EditorFailed ==
    /\ box = "editor"
    /\ box' = "error"
    /\ edit' = [edit EXCEPT !.inHeader = TRUE]
    /\ UNCHANGED <<scope, areas, shown, messageCount, screen, begun, compose,
                   copyRun, reviewShown, told>>

ReviewSave == box = "review" /\ SaveMessage(copyRun)

ReviewDrop == box = "review" /\ DropMessage

ReviewOther ==
    /\ box = "review"
    /\ box' \in {"editor", "none"}
    /\ edit' = [edit EXCEPT !.inHeader = TRUE]
    /\ UNCHANGED <<scope, areas, shown, messageCount, screen, begun, compose,
                   copyRun, reviewShown, told>>

\* Out of the area list again, to where the mark says (AreaManager).
EnterArea ==
    /\ screen = "list" /\ box = "none"
    /\ screen' = "reader"
    /\ shown' \in IF areas[Here] = <<>> THEN {0} ELSE DOMAIN areas[Here]
    /\ messageCount' = Len(areas[Here])
    /\ UNCHANGED <<scope, areas, box, begun, compose, edit, copyRun,
                   reviewShown, told>>

Next ==
    \/ RefusedAsReadOnly \/ Acknowledge \/ EnterArea
    \/ StartNew \/ StartReply \/ StartForwardTo \/ StartChange
    \/ TypeText \/ ExternUtil \/ TypeHeader \/ LeaveHeader \/ EditHeader
    \/ AskToSave \/ AskToDrop \/ Dismiss \/ ConfirmSave \/ ConfirmDrop
    \/ ProcessCopies \/ IgnoreCopies \/ UseCarbonCopy
    \/ EditedElsewhere \/ LeftUntouched \/ EditorFailed
    \/ ReviewSave \/ ReviewDrop \/ ReviewOther

Spec == Init /\ [][Next]_vars

-----------------------------------------------------------------------------
(***************************************************************************)
(* Properties.                                                             *)
(***************************************************************************)
Composing == screen = "compose"
Leaving == Composing /\ screen' # "compose"

\* What the user has written stays in the editor until it is stored as it
\* stands - in the message and in every copy - or the user has asked for it to
\* be dropped, or left their own editor without writing before anything else
\* was shown (reportNotStored()'s "nothing has been lost", dropMessage()). An
\* area that will not open again ends the editor too.
WordsSurvive ==
    Composing =>
        /\ Composing' => edit'.text.words >= edit.text.words
        /\ \A a \in Area : \A m \in Range(areas'[a]) :
               m.of = begun => m.words = edit.text.words
        /\ Leaving =>
            \/ \E m \in Range(areas'[compose.area]) : m.of = begun /\ ~m.copy
            \/ areas' = areas /\ \/ box \in {"drop", "review"}
                                 \/ box = "editor" /\ ~reviewShown
            \/ screen' = "list"

NothingWrittenIsLost == [][WordsSurvive]_vars

\* The messages of what is being written that a step has put into an area.
Copies(a) == {i \in DOMAIN areas'[a] : areas'[a][i].of = begun /\ areas'[a][i].copy}
Itself(a) == {i \in DOMAIN areas'[a] : areas'[a][i].of = begun /\ ~areas'[a][i].copy}

Lines(kind) == {l \in Range(edit.text.lines) : l.kind = kind}
Tokens(kind) == UNION {Range(l.tokens) : l \in Lines(kind)}

\* Whether a token came to something: a copy, one that was not needed, or one
\* the user is told about.
CameTo(kind, token) ==
    IF kind = "XC"
    THEN /\ token.areas # {}
         /\ \A a \in token.areas \ {compose.area} : Copies(a) # {} \/ a \in told'
    ELSE /\ token.answer # "unknown"
         /\ \/ Into(compose.area) \in told'
            \/ token.answer = "found" /\ token.who = compose.to
            \/ \E i \in Copies(Into(compose.area)) :
                   token.answer = "found" =>
                       areas'[Into(compose.area)][i].to = token.who

\* Copies are only made of a message that is stored, once, in its own area;
\* each because a line of the text as it was stored names its area or its
\* recipient; and a line is only taken out of the message if what it asked for
\* was done or the user is told it was not ("A line is never dropped on behalf
\* of something that did not happen", CopyRun). Only an area that will not
\* open again leaves copies unmade and unmentioned.
AsTheTextAsks ==
    Leaving /\ compose.kind # "change" /\ areas' # areas =>
        /\ Cardinality(Itself(compose.area)) = 1
        /\ \A a \in Area \ {compose.area} : Itself(a) = {}
        /\ \A a \in Area : \A i \in Copies(a) :
               \/ /\ a # compose.area
                  /\ \E t \in Tokens("XC") : a \in t.areas
                  /\ areas'[a][i].to = compose.to
               \/ /\ a = Into(compose.area)
                  /\ \E t \in Tokens("CC") :
                        t.answer = "ask"
                        \/ (t.answer = "found" /\ t.who = areas'[a][i].to)
        /\ screen' = "reader" =>
            \A i \in Itself(compose.area) :
                \A l \in Range(edit.text.lines)
                         \ Range(areas'[compose.area][i].lines) :
                    \A t \in Range(l.tokens) : CameTo(l.kind, t)

CopiesAsAsked == [][AsTheTextAsks]_vars

\* After a message is stored in the area on the screen and the configuration
\* asks for it, or there was none to stay on, the reader is on that message
\* and not on a copy of it (readerAfterSave()).
ReaderIsOnIt ==
    Leaving /\ screen' = "reader" /\ areas' # areas
    /\ compose.area = Here /\ compose.kind # "change"
    /\ (scope.position = "new" \/ shown = 0) =>
        shown' \in Itself(Here)

ReaderLandsOnIt == [][ReaderIsOnIt]_vars
=============================================================================
