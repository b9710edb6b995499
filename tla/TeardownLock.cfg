SPECIFICATION Spec
CONSTANTS
    Main = Main
    None = None
    Threads = {Main, a}
    TSan = FALSE
    ExitAfterCreate = FALSE
    TeardownCalls = TRUE
    Mutexes = {m1}
    Conds = {}
    Barriers = {}
    Kind <- AllNormal
    RecursiveNoted = {}
    MaxDepth = 1
    BarrierCounts = {}
    m1 = m1
    m2 = m2
SYMMETRY ThreadSymmetry
CHECK_DEADLOCK FALSE
INVARIANTS HandedMutexWaiterRunnable
