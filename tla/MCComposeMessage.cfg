CONSTANTS
    here = here
    echo = echo
    netmail = netmail
    ann = ann
    bob = bob
    Area <- MCArea
    Here = here
    Recipient <- MCRecipient
    Blank = Blank
    Scopes <- MCScopes
    MaxWords = 1
    MaxLines = 2
    NoRun = NoRun
    Nowhere = Nowhere
    Cleared = Cleared
SPECIFICATION Spec
PROPERTIES
    NothingWrittenIsLost
    CopiesAsAsked
    ReaderLandsOnIt
\* The user may begin no more messages.
CHECK_DEADLOCK FALSE
