\* The command lines of up to two options, among them the one README.md gives.
SPECIFICATION RuntimeSpec
CONSTANTS
    Parent = Parent
    NoThread = NoThread
    NoSemaphore = NoSemaphore
    NoPid = NoPid
    p1 = p1
    p2 = p2
    maker = maker
    creator = creator
    terminator = terminator
    m1 = m1
    m2 = m2
    Pids = {p1, p2}
    Threads = {maker, creator, terminator, m1, m2}
    Maker = maker
    Creator = creator
    Terminator = terminator
    MonitorOf <- MCMonitorOf
    Explored <- MCExplored
    Threaded <- MCThreaded
    Options <- MCOptions
    Number <- MCNumber
    LongNumber <- MCLongNumber
    ConfigFiles <- MCConfigFiles
    Files = {"prog", "notes"}
    Programs = {"prog"}
    MaxOptions = 2
    QueueCap = 2
INVARIANT
    DocumentedLinesStart
CHECK_DEADLOCK FALSE
