CONSTANTS
    reader = reader
    tosser = tosser
    a = a
    b = b
    c = c
    Proc <- MCProc
    Text <- MCText
    TextLen <- MCTextLen
    SubsLen <- MCSubsLen
    Scopes <- MCScopes
    MaxHeader = 3
    NoProc = NoProc
    NoText = NoText
SPECIFICATION Spec
INVARIANTS
    TypeOK
    FilesAgree
    ReadsWhatWasListed
PROPERTIES
    ImplementsMessageBase
