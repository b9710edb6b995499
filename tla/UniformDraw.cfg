SPECIFICATION WalkSpec
CONSTANTS
    Width = 64
    Seeds = {{}}
    Schedules = 0
    MaxThreads = 3
    MaxDraws = 1
CHECK_DEADLOCK FALSE
INVARIANT UniformDraw
