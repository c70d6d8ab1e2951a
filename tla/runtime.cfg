\* Two children, a queue of two messages and all command lines of up to three options.
SPECIFICATION FairRuntimeSpec
CONSTANTS
    Parent = Parent
    NoThread = NoThread
    NoSemaphore = NoSemaphore
    NoPid = NoPid
    p1 = p1
    p2 = p2
    maker = maker
    creator = creator
    terminator = terminator
    m1 = m1
    m2 = m2
    Pids = {p1, p2}
    Threads = {maker, creator, terminator, m1, m2}
    Maker = maker
    Creator = creator
    Terminator = terminator
    MonitorOf <- MCMonitorOf
    Explored <- MCExplored
    Threaded <- MCThreaded
    Options <- MCOptions
    Number <- MCNumber
    LongNumber <- MCLongNumber
    ConfigFiles <- MCConfigFiles
    Files = {"prog", "notes"}
    Programs = {"prog"}
    MaxOptions = 3
    QueueCap = 2
CONSTRAINT PidsInOrder
INVARIANTS
    RuntimeTypeOK
    SettingsAsTyped
    SystemArguments
    SemaphoreCount
    ParentSemaphoreFree
    FirstGenerationIsClean
    SingleChildLogsAll
    ChildKnowsItsPid
PROPERTIES
    KeepsQueuePromise
    QueueDrains
    OrphansEnd
\* A program that was refused its options, or that is over, takes no more steps.
CHECK_DEADLOCK FALSE
