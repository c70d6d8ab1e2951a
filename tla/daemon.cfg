\* One system process at a time, under a supervisor whose own parent is init.
CONSTANTS
    p1 = p1
    p2 = p2
    Parent = Parent
    NoPid = NoPid
    Pids <- TwoPids
    Senders <- TwoPids
    ProcessType = "real"
    KillRace = FALSE
    QueueCap = 3
    Leftovers <- CleanQueue
    NumProcesses = 1
    RespawnAtStart = TRUE
    Recycle = FALSE
    Commands = {"kill"}
    StopNapSuffices = TRUE
    Environment = {}
    StartedByInit = TRUE
SPECIFICATION FairSystemSpec
PROPERTY
    EndedIsReplaced
