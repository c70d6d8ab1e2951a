\* One child, the command term all, an input that is closed in the end.
CONSTANTS
    p1 = p1
    p2 = p2
    p3 = p3
    stranger = stranger
    Parent = Parent
    NoPid = NoPid
    Pids <- OnePid
    Senders <- OnePid
    ProcessType = "real"
    KillRace = FALSE
    QueueCap = 3
    Leftovers <- CleanQueue
    NumProcesses = 1
    RespawnAtStart = FALSE
    Recycle = FALSE
    Commands = {"term all"}
    StopNapSuffices = TRUE
    Environment = {"eof"}
SPECIFICATION ScriptedSpec
PROPERTY
    TermAllExits
