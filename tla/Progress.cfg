SPECIFICATION FairSpec
CONSTANTS
    Main = Main
    None = None
    Threads = {Main, a, b}
    TSan = FALSE
    ExitAfterCreate = FALSE
    TeardownCalls = FALSE
    Mutexes = {m1}
    Conds = {}
    Barriers = {}
    Kind <- AllNormal
    RecursiveNoted = {}
    MaxDepth = 1
    BarrierCounts = {}
    m1 = m1
    m2 = m2
CHECK_DEADLOCK FALSE
PROPERTIES ProgressToUser GmtxReleased
