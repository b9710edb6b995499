SPECIFICATION Spec
CONSTANTS
    Main = Main
    None = None
    Threads = {Main, a, b}
    TSan = FALSE
    ExitAfterCreate = FALSE
    TeardownCalls = FALSE
    Mutexes = {m1}
    Conds = {c1}
    Barriers = {b1}
    Kind <- AllRecursive
    RecursiveNoted = {}
    MaxDepth = 2
    BarrierCounts = {0, 3}
    m1 = m1
    m2 = m2
SYMMETRY ThreadSymmetry
CHECK_DEADLOCK FALSE
INVARIANTS NoStrandedThread ReproducibleDecision BlockedIffRegisteredOnce WaitersHaveRealHolder StartArgAlive
PROPERTIES ImplementsCoop ImplementsPthreads
