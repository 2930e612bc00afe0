SPECIFICATION Spec
CONSTANTS
    k1 = k1
    k2 = k2
    k3 = k3
    x = x
    y = y
    z = z
    NoRecord = NoRecord
    Ballots <- MCBallots
    Certified <- MCCertified
    Authentic <- MCAuthentic
    NumChoices = 2
    Intervals = {0, 1}
    TicksPerSecond = 2
    MaxClock = 2
    MaxSubmissions = 3
    MaxActs = 3
INVARIANTS
    TypeOK
    ReceiptsReproduced
PROPERTIES
    SupersededOnlyByReVote
    KeepsBoard
