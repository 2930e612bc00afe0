SPECIFICATION FairSpec
CHECK_DEADLOCK FALSE
CONSTANTS
    a = a
    t1 = t1
    t2 = t2
    crowd = crowd
    None = None
    NoStore = NoStore
    Torn = Torn
    Begun = Begun
    Rotten = Rotten
    Citizens = {}
    Crowd = crowd
    Threads = {t1}
    OneActAtATime = TRUE
    Faults = {"kill", "filling", "disk", "rot", "tear"}
    MaxElections = 2
    MaxFolders = 2
    MaxPolls = 2
    MaxKills = 1
INVARIANTS
    SecondPollOnlyIfLost
PROPERTIES
    FillingEnds
