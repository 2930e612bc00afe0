SPECIFICATION VSpec
CHECK_DEADLOCK FALSE
CONSTANTS
    a = a
    b = b
    k1 = k1
    k2 = k2
    Citizens = {a, b}
    Rank <- MCRank
    LateReleases = TRUE
    Rewritten = FALSE
    MaxDownloads = 1
    MaxRestarts = 1
    NoFile = NoFile
    NoOpening = NoOpening
    Keys = {k1, k2}
    Selections = {1, 7}
    NumChoices = 1
    MaxBallots = 3
    MaxFaults = 1
    MaxHeads = 1
    Generated = TRUE
    NoToken = NoToken
    Refused = Refused
SYMMETRY MCSymmetry
INVARIANTS
    VTypeOK
    
    VerdictFollowsTheRecord
    CountedIsCast
    TurnoutWithinReleases
    RegisterStandsUp
    OnlyLateReleasesLost
