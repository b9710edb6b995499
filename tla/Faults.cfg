SPECIFICATION Spec
CONSTANTS
    Main = Main
    None = None
    Threads = {Main, a, b}
    TSan = TRUE
    ExitAfterCreate = TRUE
    TeardownCalls = TRUE
    Mutexes = {m1}
    Conds = {c1}
    Barriers = {}
    Kind <- AllErrorcheck
    RecursiveNoted = {}
    MaxDepth = 2
    BarrierCounts = {}
    m1 = m1
    m2 = m2
SYMMETRY ThreadSymmetry
CHECK_DEADLOCK FALSE
INVARIANTS OneRunner NoLostWakeup RealImpliesVirtual GmtxNeverStuck StartArgAlive
