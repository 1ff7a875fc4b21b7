CONSTANTS
    x = x
    y = y
    Line <- TwoLines
    Texts <- ThreeTexts
    Headers = {h1, h2}
    Foci = {f1}
    MaxSteps = 2
    None = None
SPECIFICATION HistorySpec
INVARIANTS
    UndoRestores
    RedoRestores
PROPERTIES
    OneWordAStep
