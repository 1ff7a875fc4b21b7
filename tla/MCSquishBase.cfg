CONSTANTS
    reader = reader
    tosser = tosser
    short = short
    long = long
    Proc <- MCProc
    Text <- MCText
    Room <- MCRoom
    MaxRoom = 2
    Drafts <- MCDrafts
    Scopes <- AloneOrShared
    Faults = {}
    MaxFrame = 4
    MaxUid = 4
    MaxSet = 2
    MaxFaults = 0
    NoProc = NoProc
    NoMsg = NoMsg
SPECIFICATION Spec
INVARIANTS
    FilesAgree
    MessagesFit
PROPERTIES
    
    ImplementsMessageBase
