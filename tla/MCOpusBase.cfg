CONSTANTS
    reader = reader
    tosser = tosser
    a = a
    b = b
    Proc <- MCProc
    Text <- MCText
    Calls <- MCCalls
    Echo = FALSE
    kAttempts = 2
    MaxNumber = 3
    MaxFile = 3
    MaxSet = 2
    MaxFaults = 1
    NoProc = NoProc
    NoText = NoText
SPECIFICATION Spec
INVARIANTS
    TypeOK
    OneDraftOneFile
    SetInOrder
PROPERTIES
    SeenStays
