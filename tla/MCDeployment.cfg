SPECIFICATION Spec
CHECK_DEADLOCK FALSE
CONSTANTS
    a = a
    t1 = t1
    t2 = t2
    crowd = crowd
    None = None
    NoStore = NoStore
    Torn = Torn
    Begun = Begun
    Rotten = Rotten
    Citizens = {a}
    Crowd = crowd
    Threads = {t1}
    OneActAtATime = TRUE
    Faults = {"kill"}
    MaxElections = 2
    MaxFolders = 2
    MaxPolls = 2
    MaxKills = 2
INVARIANTS
    TypeOK
    OneElectionServed
    RestartServesTheSame
    ClosedIsRecorded
    MachineVotesLabelled
    EnrolmentsKept
PROPERTIES
    KeptOnDisk
