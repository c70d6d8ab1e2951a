\* One system process at a time; the user may kill it, pause the threads, quit
\* and close the input.
CONSTANTS
    p1 = p1
    p2 = p2
    Parent = Parent
    NoPid = NoPid
    Pids <- TwoPids
    Senders <- TwoPids
    ProcessType = "real"
    KillRace = FALSE
    QueueCap = 3
    Leftovers <- CleanQueue
    NumProcesses = 1
    RespawnAtStart = TRUE
    Recycle = FALSE
    Commands = {"kill", "monitor off", "monitor on", "quit"}
    StopNapSuffices = TRUE
    Environment = {"crash", "eof"}
    StartedByInit = FALSE
SPECIFICATION FairSystemSpec
INVARIANTS
    SystemTypeOK
    SystemSlotAccounting
PROPERTIES
    EndedIsReplaced
    KeepsPromise
    QuitExitsUnlessReading
