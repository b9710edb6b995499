SPECIFICATION InstrumentedSpec
CONSTANTS
    Threads = {Main, a}
    Main = Main
    None = None
    Ready = Ready
    Seccomp = TRUE
    ReinitFirst = FALSE
    MaxDepth = 4
CHECK_DEADLOCK FALSE
INVARIANT NoSelfDeadlock
