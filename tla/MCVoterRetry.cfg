SPECIFICATION Spec
CHECK_DEADLOCK FALSE
CONSTANTS
    ann = ann
    landtag = landtag
    Citizens = {ann}
    Ids <- MCIds
    MaxDraws <- MCMaxDraws
    MaxMarks <- MCMaxMarks
    MaxFaults = 1
    None = None
INVARIANT
    RefusalMeansUncounted
