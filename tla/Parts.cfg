SPECIFICATION MCSpec
CONSTANTS
    Threads = {Main, a}
    Main = Main
    None = None
    Ready = Ready
    Seccomp = TRUE
    ReinitFirst = FALSE
    MaxDepth = 4
    Width = 64
    Seeds <- SomeSeeds
    Schedules = 5
    MaxThreads = 4
    MaxDraws = 3
    Modules <- SomeModules
    MaxPasses = 2
    SleepCalls <- SomeSleeps
    MaxWord = 2147483647
    Arches = {1, 2}
    AuditArch = 1
    Numbers <- SomeNumbers
    Halves = {7, 8}
    SiteLo = 7
    SiteHi = 8
    Attrs = {a1}
    RegMutexes = {m1, m2}
    NoAttr = NoAttr
    MaxTokens = 3
    MaxCreates = 4
CHECK_DEADLOCK FALSE
INVARIANTS ShimTypeOK NoSelfDeadlock CallersKnown TripwireSound RngNeverStuck ChoiceIsEligible WalkReachesEligible PassFaithful EntryWrappedOnce  FilterVerdict RegistryExact ProgramThreadsScheduled
