SPECIFICATION Spec
CONSTANTS
    Main = Main
    None = None
    Threads = {Main, a, b}
    TSan = FALSE
    ExitAfterCreate = FALSE
    TeardownCalls = FALSE
    Mutexes = {m1, m2}
    Conds = {}
    Barriers = {}
    Kind <- OneRecursive
    RecursiveNoted = {m2}
    MaxDepth = 2
    BarrierCounts = {}
    m1 = m1
    m2 = m2
SYMMETRY ThreadSymmetry
CHECK_DEADLOCK FALSE
INVARIANTS TypeOK NoStrandedThread BlockedIffRegisteredOnce RealImpliesVirtual GmtxNeverStuck HandedMutexWaiterRunnable WaitersHaveRealHolder
