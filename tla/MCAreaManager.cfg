CONSTANTS
    echo = echo
    netmail = netmail
    Area <- Both
    Absent = Absent
    NoArea = NoArea
    Reused = FALSE
    AutoNext = TRUE
    RescanOnReturn = {TRUE, FALSE}
    MaxMsg = 3
SPECIFICATION Spec
INVARIANTS
    TypeOK
    NewMailIsUnread

    
    
