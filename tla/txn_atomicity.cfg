SPECIFICATION TxnSpec
CONSTANTS
    BaseOrder <- MCBaseOrder
    NoSuffix = NoSuffix
    Data <- MCData
    EmptyData = ""
    Clients = {c1}
    Threads = {t1, t2}
    Workers = {}
    c1 = c1
    c2 = c2
    t1 = t1
    t2 = t2
    t3 = t3
    w1 = w1
    l1 = l1
    ClientOf <- BothOnFirst
    Menu <- TxnMenu
    Listeners = {}
    Started = {c1}
    HandlerGiven = {}
    InitSequences <- NoCounters
    MaxOps = 3
    Txns = {x1}
    x1 = x1
    TxnClient <- OfFirst
    None = None
PROPERTY AllOrNothing
