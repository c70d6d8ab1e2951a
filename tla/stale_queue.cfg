\* The queue may hold the last message of a child of an earlier run.
CONSTANTS
    p1 = p1
    p2 = p2
    p3 = p3
    stranger = stranger
    Parent = Parent
    NoPid = NoPid
    Pids <- TwoPids
    Senders <- PidsAndStranger
    ProcessType = "real"
    KillRace = FALSE
    QueueCap = 3
    Leftovers <- StaleQueue
    NumProcesses = 1
    RespawnAtStart = TRUE
    Recycle = FALSE
    Commands = {}
    StopNapSuffices = TRUE
    Environment = {}
SPECIFICATION Spec
INVARIANT
    PopulationBound
CHECK_DEADLOCK FALSE
