\* One real child at a time, which the user may kill.
CONSTANTS
    p1 = p1
    p2 = p2
    p3 = p3
    stranger = stranger
    Parent = Parent
    NoPid = NoPid
    Pids <- TwoPids
    Senders <- TwoPids
    ProcessType = "real"
    KillRace = FALSE
    QueueCap = 3
    Leftovers <- CleanQueue
    NumProcesses = 1
    RespawnAtStart = TRUE
    Recycle = FALSE
    Commands = {"kill"}
    StopNapSuffices = TRUE
    Environment = {}
SPECIFICATION Spec
INVARIANT
    EveryChildMonitored
CHECK_DEADLOCK FALSE
