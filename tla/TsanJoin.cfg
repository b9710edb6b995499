SPECIFICATION Spec
CONSTANTS
    Main = Main
    None = None
    Threads = {Main, a}
    TSan = TRUE
    ExitAfterCreate = FALSE
    TeardownCalls = FALSE
    Mutexes = {}
    Conds = {}
    Barriers = {}
    Kind <- AllNormal
    RecursiveNoted = {}
    MaxDepth = 0
    BarrierCounts = {}
    m1 = m1
    m2 = m2
SYMMETRY ThreadSymmetry
CHECK_DEADLOCK FALSE
INVARIANTS NoStrandedThread
