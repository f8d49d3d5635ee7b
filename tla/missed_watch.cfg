SPECIFICATION Spec
CONSTANTS
    BaseOrder <- MCBaseOrder
    NoSuffix = NoSuffix
    Data <- MCData
    EmptyData = ""
    Clients = {c1, c2}
    Threads = {t1, t2, t3}
    Workers = {}
    c1 = c1
    c2 = c2
    t1 = t1
    t2 = t2
    t3 = t3
    w1 = w1
    l1 = l1
    ClientOf <- TwoOnSecond
    Menu <- WatchMenu
    Listeners = {}
    Started = {c1, c2}
    HandlerGiven = {}
    InitSequences <- NoCounters
    MaxOps = 2
    None = None
INVARIANT AtRestDataWatchersCurrent
