CONSTANTS
    one = one
    other = other
    oneName = oneName
    otherName = otherName
    User <- MCUser
    Volumes <- MCVolumes
    NoFile = NoFile
    NoCrc = NoCrc
    MaxUid = 4
    WordMax = 3
SPECIFICATION Spec
INVARIANTS
    MarkKept

    
