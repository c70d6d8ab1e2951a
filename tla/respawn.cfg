\* One child at a time, killed over and over, with pids that come round again; the input may end.
CONSTANTS
    p1 = p1
    p2 = p2
    p3 = p3
    stranger = stranger
    Parent = Parent
    NoPid = NoPid
    Pids <- TwoPids
    Senders <- TwoPids
    ProcessType = "real"
    KillRace = FALSE
    QueueCap = 3
    Leftovers <- CleanQueue
    NumProcesses = 1
    RespawnAtStart = TRUE
    Recycle = TRUE
    Commands = {"kill", "monitor off", "monitor on", "respawn off", "respawn on", "other"}
    StopNapSuffices = TRUE
    Environment = {"eof"}
SPECIFICATION FairSpec
INVARIANT
    PopulationBound
PROPERTIES
    KilledIsReported
    MissingIsReplaced
