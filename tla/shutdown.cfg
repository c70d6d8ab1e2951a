\* Two children that are never replaced, told to end in every way a user has.
CONSTANTS
    p1 = p1
    p2 = p2
    p3 = p3
    stranger = stranger
    Parent = Parent
    NoPid = NoPid
    Pids <- TwoPids
    Senders <- TwoPids
    ProcessType = "real"
    KillRace = TRUE
    QueueCap = 4
    Leftovers <- CleanQueue
    NumProcesses = 2
    RespawnAtStart = FALSE
    Recycle = FALSE
    Commands = {"quit", "int all"}
    StopNapSuffices = FALSE
    Environment = {"interrupt"}
SPECIFICATION Spec
SYMMETRY SymmetryOfTwo
INVARIANTS
    EveryChildMonitored
    NoOrphanAtExit
