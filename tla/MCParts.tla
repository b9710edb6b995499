------------------------------ MODULE MCParts ------------------------------
(***************************************************************************)
(* The parts around the scheduler, for TLC: the shim, the random walk at   *)
(* the real word size, the LLVM pass, the sleeps, the seccomp filter, the  *)
(* mutex type registry and the recognition of TSAN's threads.  They share  *)
(* no state; a behaviour runs one of them and leaves the others alone.     *)
(***************************************************************************)
EXTENDS RschedShim, RschedWalk, RschedPass, RschedSleep, RschedFilter, RschedRegistry,
        RschedTsanCreate

VARIABLE part  \* the part that this behaviour runs

allVars == <<part, shimVars, walkVars, passVars, sleepVars, filterVars, registryVars,
             createVars>>

WalkIdle == rng = {0} /\ draws = 0 /\ blocking = <<>> /\ chosen = Nobody
            /\ schedules = 0 /\ seed = {}
PassIdle == source = <<>> /\ mod = <<>> /\ passes = 0 /\ direct = FALSE
SleepIdle == asked = [fn |-> "null"] /\ yields = 0
FilterIdle == trapClone = FALSE /\ acc = 0 /\ ip = 1 /\ verdict = "none"
              /\ data = [arch |-> AuditArch, nr |-> 0, lo |-> SiteLo, hi |-> SiteHi]
CreateIdle == tokens = <<>> /\ recognised = {} /\ ordinal = 0 /\ creates = <<>>
              /\ panicked = FALSE

\* The shim and the registry start empty.
MCInit ==
    /\ ShimInit /\ RegistryInit
    /\ \/ part \in {"shim", "registry"}
          /\ WalkIdle /\ PassIdle /\ SleepIdle /\ FilterIdle /\ CreateIdle
       \/ part = "walk" /\ Init /\ PassIdle /\ SleepIdle /\ FilterIdle /\ CreateIdle
       \/ part = "pass" /\ WalkIdle /\ PassInit /\ SleepIdle /\ FilterIdle /\ CreateIdle
       \/ part = "sleep" /\ WalkIdle /\ PassIdle /\ SleepInit /\ FilterIdle /\ CreateIdle
       \/ part = "filter" /\ WalkIdle /\ PassIdle /\ SleepIdle /\ FilterInit /\ CreateIdle
       \/ part = "create" /\ WalkIdle /\ PassIdle /\ SleepIdle /\ FilterIdle /\ CreateInit

MCNext ==
    /\ \/ /\ part = "shim" /\ ShimNext
          /\ UNCHANGED <<walkVars, passVars, sleepVars, filterVars, registryVars, createVars>>
       \/ /\ part = "walk" /\ Next
          /\ UNCHANGED <<shimVars, passVars, sleepVars, filterVars, registryVars, createVars>>
       \/ /\ part = "pass" /\ PassNext
          /\ UNCHANGED <<shimVars, walkVars, sleepVars, filterVars, registryVars, createVars>>
       \/ /\ part = "sleep" /\ Sleep
          /\ UNCHANGED <<shimVars, walkVars, passVars, filterVars, registryVars, createVars>>
       \/ /\ part = "filter" /\ FilterStep
          /\ UNCHANGED <<shimVars, walkVars, passVars, sleepVars, registryVars, createVars>>
       \/ /\ part = "registry" /\ RegistryNext
          /\ UNCHANGED <<shimVars, walkVars, passVars, sleepVars, filterVars, createVars>>
       \/ /\ part = "create" /\ CreateNext
          /\ UNCHANGED <<shimVars, walkVars, passVars, sleepVars, filterVars, registryVars>>
    /\ UNCHANGED part

MCSpec == MCInit /\ [][MCNext]_allVars

(***************************************************************************)
(* Walk: the seeds 0, 2^63 and 2^64 - 2, and the default 0x12345678abcd.   *)
(***************************************************************************)
DefaultSeed == {0, 2, 3, 6, 7, 8, 9, 11, 13, 15, 19, 20, 21, 22, 25, 26, 28, 30,
                34, 36, 37, 41, 44}
SomeSeeds == {{}, {63}, 1 .. 63, DefaultSeed}

(***************************************************************************)
(* Pass: a function with up to two instructions, and a fuzzer entry point  *)
(* beside another function, in either order.                               *)
(***************************************************************************)
Access(op, ordered, ty) == [op |-> op, ordered |-> ordered, addr |-> "p", val |-> "v", ty |-> ty]
Call(f) == [op |-> "call", callee |-> f, args |-> <<>>]

Instructions ==
    {Access("load", o, IntType(32)) : o \in BOOLEAN} \cup {Access("store", o, Ptr) : o \in BOOLEAN}
    \cup {Access("rmw", TRUE, IntType(1)), Access("cmpxchg", TRUE, IntType(64)), Access("load", TRUE, Opaque)}
    \cup {Call(f) : f \in {"pthread_create", "sched_yield", Entry, "puts"}}

Codes(n) == UNION {[1 .. k -> Instructions] : k \in 0 .. n}

Function(f, code) == [name |-> f, code |-> code]

SomeModules ==
    {<<Function("main", c)>> : c \in Codes(2)}
    \cup {<<Function(Entry, c), Function("main", d)>> : c, d \in Codes(1)}
    \cup {<<Function("main", c), Function(Entry, d)>> : c, d \in Codes(1)}

(***************************************************************************)
(* Sleep: around the units, the clamps and the saturation.                 *)
(***************************************************************************)
SomeSleeps ==
    {[fn |-> "null"]}
    \cup [fn : {"nsleep"}, sec : {-1, 0, 1, 999, 1000000, MaxWord - 1},
          nsec : {-1, 0, 1, 500000, 999999, 1000000, 1000001, 9999999, 10000000,
                  999999999, 1000000000}]
    \cup [fn : {"usleep"}, usec : {0, 1, 900, 999, 1000, 1001, 9999, 10000, 10001,
                                   999999, 1000000, MaxWord}]
    \cup [fn : {"sleep"}, secs : {0, 1, 2, 999, 1000, MaxWord}]

(***************************************************************************)
(* Filter: futex, clone, clone3, another call, and the two stand-ins.      *)
(***************************************************************************)
SomeNumbers == {SysFutex, SysClone, SysClone3, 0, -1, -2}

=============================================================================
