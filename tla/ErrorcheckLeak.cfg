SPECIFICATION Spec
CONSTANTS
    Main = Main
    None = None
    Threads = {Main, a}
    TSan = FALSE
    ExitAfterCreate = FALSE
    TeardownCalls = FALSE
    Mutexes = {m1}
    Conds = {}
    Barriers = {}
    Kind <- AllErrorcheck
    RecursiveNoted = {}
    MaxDepth = 2
    BarrierCounts = {}
    m1 = m1
    m2 = m2
SYMMETRY ThreadSymmetry
CHECK_DEADLOCK FALSE
INVARIANTS WaitersHaveRealHolder
