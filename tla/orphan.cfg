\* One child at a time, replaced while the user quits.
CONSTANTS
    p1 = p1
    p2 = p2
    p3 = p3
    stranger = stranger
    Parent = Parent
    NoPid = NoPid
    Pids <- TwoPids
    Senders <- TwoPids
    ProcessType = "real"
    KillRace = FALSE
    QueueCap = 3
    Leftovers <- CleanQueue
    NumProcesses = 1
    RespawnAtStart = TRUE
    Recycle = FALSE
    Commands = {"quit", "kill"}
    StopNapSuffices = TRUE
    Environment = {"eof"}
SPECIFICATION Spec
INVARIANT
    NoOrphanAtExit
