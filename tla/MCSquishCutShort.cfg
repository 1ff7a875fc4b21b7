CONSTANTS
    reader = reader
    tosser = tosser
    short = short
    long = long
    Proc <- MCProc
    Text <- MCText
    Room <- MCRoom
    MaxRoom = 2
    Drafts <- MCDrafts
    Scopes <- AppendsCutShort
    Faults <- WriteFaults
    MaxFrame = 4
    MaxUid = 4
    MaxSet = 2
    MaxFaults = 1
    NoProc = NoProc
    NoMsg = NoMsg
SPECIFICATION Spec
INVARIANTS
    IndexNeverIntoFree
PROPERTIES
    OnlyWhatIsNamed
