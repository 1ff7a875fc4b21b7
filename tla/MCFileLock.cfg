CONSTANTS
    reader = reader
    tosser = tosser
    packer = packer
    sqd = sqd
    sqi = sqi
    nobody = nobody
    Proc <- MCProc
    File <- MCFile
    Order <- MCOrder
    kAttempts = 2
    NoProc = nobody
SPECIFICATION FileLockSpec
INVARIANTS
    TypeOK
    EveryFileOrNone
    FirstFileDecides
PROPERTIES
    AcquireReturns
    
    ImplementsMutex
