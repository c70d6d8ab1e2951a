\* One child, which the user ends with quit, at a terminal.
CONSTANTS
    p1 = p1
    p2 = p2
    p3 = p3
    stranger = stranger
    Parent = Parent
    NoPid = NoPid
    Pids <- OnePid
    Senders <- OnePid
    ProcessType = "real"
    KillRace = FALSE
    QueueCap = 3
    Leftovers <- CleanQueue
    NumProcesses = 1
    RespawnAtStart = FALSE
    Recycle = FALSE
    Commands = {"quit"}
    StopNapSuffices = TRUE
    Environment = {}
SPECIFICATION FairSpec
PROPERTY
    QuitExits
