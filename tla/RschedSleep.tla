---------------------------- MODULE RschedSleep -----------------------------
(***************************************************************************)
(* The sleeps of the preload shim (rsched/preload/src/lib.rs): nanosleep,  *)
(* clock_nanosleep, usleep and sleep do not wait but yield, about a        *)
(* hundred times for every millisecond asked for.                          *)
(***************************************************************************)
LOCAL INSTANCE Integers

CONSTANTS
    SleepCalls,  \* calls [fn, sec, nsec], [fn, usec] or [fn, secs]; req = NULL is [fn |-> "null"]
    MaxWord      \* the largest machine word; 2^64 - 1 in the code

\* The arguments fit in a word; tv_sec and tv_nsec are signed.
ASSUME SleepAssumption ==
    /\ MaxWord \in Nat /\ MaxWord >= 1000000000
    /\ \A c \in SleepCalls :
         \/ c.fn = "null"
         \/ /\ c.fn = "nsleep"
            /\ c.sec \in Int /\ c.sec <= MaxWord
            /\ c.nsec \in Int /\ c.nsec <= MaxWord
         \/ c.fn = "usleep" /\ c.usec \in 0 .. MaxWord
         \/ c.fn = "sleep" /\ c.secs \in 0 .. MaxWord

VARIABLES
    asked,   \* the call
    yields   \* calls of rsched_sched_yield it makes

sleepVars == <<asked, yields>>

Larger(a, b) == IF a > b THEN a ELSE b
Smaller(a, b) == IF a < b THEN a ELSE b

SaturatingMul(a, b) == IF a > MaxWord \div b THEN MaxWord ELSE a * b
SaturatingAdd(a, b) == IF a > MaxWord - b THEN MaxWord ELSE a + b

\* A mutant: the division drops the remainder.
DivDown(a, unit) == a \div unit

DivUp(a, unit) == SaturatingAdd(a, unit - 1) \div unit

TimespecYields(sec, nsec) ==
    Larger(SaturatingAdd(SaturatingMul(Larger(sec, 0), 1000),
                         DivUp(Larger(nsec, 0), 1000000)), 1)

VirtualSleepYields(n) == Smaller(Larger(SaturatingMul(n, 100), 1), 100000)

Yields(c) ==
    VirtualSleepYields(
        CASE c.fn = "null"   -> 1
          [] c.fn = "nsleep" -> TimespecYields(c.sec, c.nsec)
          [] c.fn = "usleep" -> DivUp(c.usec, 1000)
          [] c.fn = "sleep"  -> SaturatingMul(c.secs, 1000))

SleepInit == asked \in SleepCalls /\ yields = 0

Sleep == yields = 0 /\ yields' = Yields(asked) /\ UNCHANGED asked

SleepSpec == SleepInit /\ [][Sleep]_sleepVars

(***************************************************************************)
(* The time asked for, as <<seconds, nanoseconds>>.                        *)
(***************************************************************************)
Duration(c) ==
    CASE c.fn = "null"   -> <<0, 0>>
      [] c.fn = "nsleep" -> <<Larger(c.sec, 0) + Larger(c.nsec, 0) \div 1000000000,
                              Larger(c.nsec, 0) % 1000000000>>
      [] c.fn = "usleep" -> <<c.usec \div 1000000, (c.usec % 1000000) * 1000>>
      [] c.fn = "sleep"  -> <<c.secs, 0>>

LongerThan(d, e) == d[1] > e[1] \/ (d[1] = e[1] /\ d[2] > e[2])

\* Every sleep is a scheduling point, is over after a bounded number of yields,
\* and of two sleeps, through whichever of the functions, the longer one never
\* yields less: the clamps, the rounding and the saturation of timespec_yields,
\* usleep and sleep agree with one another.
LongerSleepsYieldMore ==
    /\ 1 <= Yields(asked) /\ Yields(asked) <= 100000
    /\ yields > 0 =>
         \A c \in SleepCalls :
           LongerThan(Duration(asked), Duration(c)) => yields >= Yields(c)

=============================================================================
