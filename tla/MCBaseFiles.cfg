CONSTANTS
    Processes = {p, q}
    Formats <- BothFormats
    None = None
    MaxFiles = 9
    MaxTroubles = 2
    MaxTosses = 1
SYMMETRY TheProcesses
SPECIFICATION Spec
INVARIANTS
    OpensNextTime
PROPERTIES
    HeldIsLeftAlone
    TakesBackItsOwn
