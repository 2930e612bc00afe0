SPECIFICATION Spec
CONSTANTS
    k1 = k1
    k2 = k2
    k3 = k3
    x = x
    y = y
    z = z
    NoRecord = NoRecord
    Ballots <- FewBallots
    Certified <- FewCertified
    Authentic <- FewAuthentic
    NumChoices = 2
    Intervals = {0}
    TicksPerSecond = 2
    MaxClock = 2
    MaxSubmissions = 2
    MaxActs = 3
PROPERTIES
    ReloadedIsReadOnly
