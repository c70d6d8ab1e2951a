\* Two children at a time out of three pids, ending by themselves or killed from outside; the
\* queue may hold the first message of a child of an earlier run.
CONSTANTS
    p1 = p1
    p2 = p2
    p3 = p3
    stranger = stranger
    Parent = Parent
    NoPid = NoPid
    Pids <- ThreePids
    Senders <- PidsAndStranger
    ProcessType = "simul"
    KillRace = FALSE
    QueueCap = 3
    Leftovers <- StrayQueue
    NumProcesses = 2
    RespawnAtStart = TRUE
    Recycle = FALSE
    Commands = {}
    StopNapSuffices = FALSE
    Environment = {"kill", "crash"}
SPECIFICATION Spec
SYMMETRY Symmetry
INVARIANTS
    TypeOK
    CounterBound
    DeceasedSound
    SlotAccounting
    OneMonitorThread
PROPERTY
    KeepsPromise
\* Nobody types: once all pids are used up and all children are over, everything waits.
CHECK_DEADLOCK FALSE
