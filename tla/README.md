# A TLA+ model of rsched

`rsched` is a cooperative scheduler for pthreads programs. It takes the place of
`pthread_create`, `pthread_mutex_*`, `pthread_cond_*`, `pthread_barrier_*`,
`sched_yield` and the atomic accesses of the program under test, lets one thread run at
a time, and at every such call draws the next thread from a seeded generator, so that a
seed reproduces an interleaving. This directory models the scheduler, checks small
instances of it with TLC and proves its main invariants with TLAPS.

## The system

| Component | Source | State | Operations |
|---|---|---|---|
| Cooperative core | `rsched/src/lib.rs` | `GMTX`; `State::threads`; per thread `is_blocking`, `startup_done`, `is_in_rsched_wait`, `next_event`, a `suspend_cond` | `choose`, `wake`, `context_switch`, `drain_pending_child`, `rsched_sched_yield`, `schedule_memop` |
| Thread life cycle | `rsched/src/lib.rs` | `pending_child`, the boxed `StartArg`, `joiner` | `rsched_pthread_create`, `trampoline`, `tsan_user_start_gate`, `do_thread_exit`, `rsched_pthread_exit`, `rsched_pthread_join` |
| Virtual mutexes | `rsched/src/lib.rs` | `SMutex` (owner, recursive count, waiters) beside the real mutex | `lock`, `trylock`, `unlock` |
| Virtual condition variables, barriers | `rsched/src/lib.rs` | `SCond`, `SBarrier` | `cond_wait`, `cond_signal`, `cond_broadcast`, `barrier_init`, `barrier_wait` |
| Random walk, fuzzer loop | `rsched/src/scheduler.rs`, `rsched/src/lib.rs` | the xorshift word; the seed of the next schedule | `Rng::next`, `RandomWalk::choose`, `rsched_fuzzer_test_one_input` |
| Initialisation | `rsched/src/lib.rs` | `INITED`, `STATE`, `REAL_PT` | `rsched_init`, `ensure_init`, `rsched_reinit`, `rpt` |
| Mutex type registry | `rsched/src/lib.rs`, `rsched/preload` | `recursive_mutexes`, `recursive_mutex_attrs` | `rsched_note_*` |
| Preload shim | `rsched/preload` | `CALL_DEPTH`, RTLD_NEXT slots | one interposer per pthread function, sleeps as yields |
| Seccomp tripwire | `rsched/src/lib.rs` | a BPF filter, a SIGSYS handler | traps raw futex calls |
| TSAN recognition | `rsched/src/lib.rs`, `rsched/preload` | `TSAN_PTHREAD_CREATE_COUNT` | classifies `pthread_create` calls, compares code bytes, patches the start argument |
| LLVM pass | `rsched/llvm-pass` | the module | wraps the fuzzer entry, inserts hooks, renames pthread calls |
| e9patch driver, headers | `rsched/binary-instrumentation`, `rsched/include` | - | insert calls of the hooks |

How they interact. The shim, the headers and the pass turn calls and atomic accesses of
the program into calls of `rsched_*`. Each of these takes `GMTX`, changes `State`, makes
one or more scheduling decisions through `context_switch`, and releases `GMTX`.
`context_switch` first drains the pending child (waits until a freshly created thread has
registered), then asks the random walk for an eligible thread, signals its `suspend_cond`
and waits on its own. Threads therefore interact through `State` under `GMTX`, through
one condition variable per thread, and through the real mutexes, which stay locked along
with the virtual ones.

What is hard to get right: a thread that is signalled must already be waiting, and only
one may be signalled; a thread that stops must have passed control on, in every path (a
switch, a second wait when nobody was eligible, an exit, the deferred start of a child);
the virtual and the real mutex must agree, or the real `pthread_mutex_lock`, which is
called with `GMTX` held, stops the whole process; ownership is handed to a waiter long
before it runs; `StartArg` is shared between two threads and freed by a third; in the
tsan build a child starts in two stages with an arbitrary delay in between. Around the
scheduler, libc and the dynamic linker call the interposed functions themselves, so that
`CALL_DEPTH` must be right on every path, and `INITED`, `STATE` and `REAL_PT` come into
being lazily under such calls. The algorithms beside it (pass, filter, sleeps, registry)
are sequential, but their mistakes would show only for particular inputs.

## Modules

| Module | Content |
|---|---|
| `RschedThreads` | cooperative core and thread life cycle |
| `RschedSync` | mutexes (virtual and real), condition variables, barriers; extends `RschedThreads` |
| `Rsched` | the composition: `Init`, `Reinit`, `Next`, fairness, the properties, the inductive invariant |
| `RschedProofs` | the basic inductive invariant of `Rsched` and what follows from it |
| `RschedInvariants` | the further parts of the invariant, each for one group of theorems |
| `RschedStartProofs`, `RschedMutexProofs`, `RschedBlockingProofs` | thread start-up; lock counts; blocking and joins |
| `RschedTurnProofs`, `RschedPthreadsProofs` | the two refinements, and that control is never lost |
| `CoopScheduler` | abstract: one token that passes between threads that are not blocked |
| `PthreadObjects` | abstract: mutexes, condition variables and barriers as the program sees them |
| `RschedRefinement` | the refinement mappings from `Rsched` to these two |
| `RschedSpurious` | `Rsched` with spurious wakeups |
| `RschedShim` | interposers, `CALL_DEPTH`, `REAL_PT`, initialisation and reinit, the SIGSYS decision |
| `RschedWalk` | generator, random walk, seeds and fuzzer loop |
| `RschedPass` | the LLVM pass as a transformation of modules |
| `RschedFilter` | the seccomp program and its interpretation |
| `RschedSleep` | sleeps as numbers of yields |
| `RschedRegistry` | the mutex type registry |
| `RschedTsanCreate` | which `pthread_create` calls are scheduled under TSAN |
| `RschedShimProofs` | proofs about the shim: depth, locks, initialisation, the tripwire |
| `RschedAlgorithmProofs` | proofs about the walk, the filter, the sleeps, the registry, the TSAN classification and the LLVM pass |
| `MCRsched`, `MCParts` | TLC instances; `MCParts` puts the shim and the six sequential modules side by side: a behaviour is one of one of them |

### How the code maps to actions

Code in an exported function runs with `GMTX` held from `rsched_glock` to
`rsched_gunlock` and releases it only inside `pthread_cond_wait`. An action is one stretch
of such code. `pc[t]` names the code that `t` executes next and `ret[t]` the place where
its pending `context_switch` or wait returns to, so that `context_switch` is written once
(`CallContextSwitch`, then `DrainPendingChild`, `DrainResume`, `ContextSwitch`, `Resume`)
and used by every operation:

| `pc` | Meaning |
|---|---|
| `user` | user code; any call of `UserCall` may follow, or none |
| `drain`, `drainwait`, `switch`, `wait`, `woken` | inside `context_switch` or a wait on `suspend_cond` |
| `create`; `tramp`, `gate` | `rsched_pthread_create` after the drain; the child before it waits for its first turn |
| `join`, `joined`, `realjoin` | `rsched_pthread_join` after its first switch, after its second, in the real join |
| `lock`, `relock`, `reallock`, `try`, `unlock` | the mutex functions |
| `cwait`, `binit`, `bwait`, `barwait` | condition variables and barriers |
| `clear`, `gunlock` | the tail of every function |
| `teardown`, `dead`, `unborn` | after `do_thread_exit`; ended; joined or never created |

`UserCall(t)` is what the program may do; `Internal(t)` is what the scheduler then does.

Abstractions. A `pthread_t` and its kernel thread id are one value, reused once the
thread was joined (but not while some mutex still names it as its owner: kernel ids are
not reused that fast). `State::threads` and the waiter lists are sets, and a draw is a
nondeterministic choice from the eligible ones; `RschedWalk` shows that the walk returns
exactly those. The data of memory operations is left out. `pthread_cond_wait` returns only
when signalled (`RschedSpurious` drops this). What callers may do is limited to what POSIX allows: no relock of a normal
mutex by its owner, one join per thread, a barrier is initialised once, `rsched_reinit`
with no mutex held and no other thread alive. Everything else is allowed, including
unlocking a foreign or free mutex, exiting with mutexes held, signalling without the
mutex, waiting at an uninitialised barrier, and a failing `pthread_create`.

Three constants switch on behaviour that not every program has: `TSan` (the build
feature), `ExitAfterCreate` (a thread exits with no scheduling point since it called
`pthread_create`), `TeardownCalls` (thread-local destructors call mutex functions or
`sched_yield` after `do_thread_exit`).

The real mutex behaves by its type: `RealFree` (lock granted), `RealRefuses` (EDEADLK of
an error-checking mutex), otherwise the call blocks and the action is disabled. This is
the pthread library, external to the code, as are `Signal` and the real join.

### The abstract specifications

`CoopScheduler` has a set of live threads, the blocked ones, and a turn. Its steps are: act
(block oneself, unblock others), pass the turn to a thread that is not blocked, rest when
there is none, spawn, exit. In the mapping `live` is `State::threads`, `blocked` are the
threads with `is_blocking`, and `turn` is the registered thread that executes. Everything
between two hand-overs (draining a child, the second wait of a blocking call, taking
`GMTX`) is a stutter or an act.

`PthreadObjects` knows only what a program can see: who is in user code, who holds which
mutex how deep, who waits on which object, and which mutex a call owes its caller. A
virtual mutex that was handed to a waiter which has not run yet maps to a free one; the
waiter owes it. What is owed must be paid before the return to user code: this is what a
lost re-acquisition in `cond_wait` would break. `Signal` releases exactly one waiter unless
there is none, `Broadcast` all. The abstract state does not say which function a thread has
called, so `ImplementsPthreads` also asks (`NotifiesAsCalled`) that a call of
`pthread_cond_signal` is a `Signal`, and one of `pthread_cond_broadcast` a `Broadcast`: a
signal that wakes nobody, or everybody, would otherwise pass as another step.

### The shim

`RschedShim` looks at the same functions from the outside. A thread's progress is the list
of labels it has yet to execute (`todo`); a call puts a program in front of it:
`RealCall(l)` is `with_internal_depth(|| (rpt().f)(..))`, `Op` the frame of an exported
function, `CreateOp` and `JoinOp` the two that differ from it, `DoThreadExit` and
`TrampolineStart` what their names say. The work on `State` is one label, `body`, that may
wait on a condition variable or call another real function (`other`: the lock and unlock of
the user's mutex, `pthread_barrier_init`, a signal). `KernelEntries` are the labels at which
the scheduler itself calls into the kernel. The allocator is not one of them: `choose` and
`State::new` allocate at the caller's depth, which is zero for hooks and direct calls, and
should the allocator's lock be contended there, its futex call would be fatal under the
tripwire. `TripwireSound` says nothing about that. Wherever libc or the dynamic
linker runs (`libc`), it may return or call an interposed function first. Threads
interleave without any regard to the cooperative schedule, which only adds behaviours.
The build is the ordinary one: `trampoline` waits for its first turn itself. With
`ReinitFirst` the program may call `rsched_reinit` before anything else; `InstrumentedSpec`
adds hooks in the libraries, the allocator among them.

### The sequential modules

`RschedWalk` represents a 64-bit word by the set of its one bits, so that the shifts of
`Rng::next` act at their real width; `Residue` is `% n` on such a word.

`RschedPass`: a module is a list of functions with their instructions; basic blocks are
walked one after another, so each function has one list. `Visit` is one turn of the loop
that inserts into the list it walks. `RunPass` may be applied up to `MaxPasses` times.
`PassFaithful` says by position where every instruction and its announcements are
(`Place`), so the property neither walks nor inserts.

`RschedFilter`: one step per BPF instruction, for every combination of architecture,
system call number and agreement of the instruction pointer with the whitelisted one in
its two halves. `u32::MAX` and `u32::MAX - 1` are -1 and -2.

`RschedSleep`: the arithmetic of `timespec_yields` and its siblings, with saturation at
`MaxWord` (2^31 - 1 in TLC, whose integers have 32 bits; 2^64 - 1 in the code).

`RschedRegistry`: an interposer's real call and its note are one step, as no other call
touches the same object at the same time. Addresses are used again with or without a
destroy, and a mutex may have a static initialiser, which nobody notes, also assigned over
an old mutex as the C examples do. Only a static initialiser over a recursive mutex that was
not destroyed is excluded: its note would outlive it. The module discharges the assumption
that `RecursiveNoted`, a constant of `RschedSync`, names recursive mutexes only.

`RschedTsanCreate`: the criteria in the environment, the counter, and who really makes the
call; `recognised` says which start routines of the runtime have the expected bytes. That
no thread of the runtime has them is taken for granted.

## Properties

| Property | Says |
|---|---|
| `TypeOK` | types, with counts that never go below zero |
| `OneRunner` | at most one registered thread executes |
| `NoLostWakeup` | whoever can be chosen is waiting for the signal |
| `ReproducibleDecision` | what is drawn from does not depend on how fast threads reach their waits |
| `NoStrandedThread` | while a registered thread is unblocked, somebody has control |
| `ImplementsCoop`, `ImplementsPthreads` | the refinements |
| `BlockedIffRegisteredOnce` | `is_blocking` says exactly that the thread is in one wait list, and it is in no two |
| `RealImpliesVirtual` | the holder of the real mutex owns the virtual one, at least as deep |
| `GmtxNeverStuck` | the real lock called under `GMTX` never has to wait |
| `HandedMutexWaiterRunnable` | a mutex is only handed to a thread that can be chosen later |
| `WaitersHaveRealHolder` | a thread waits only for a mutex that somebody holds or is taking or releasing |
| `StartArgAlive` | no use of a freed `StartArg` |
| `ProgressToUser`, `GmtxReleased` | control comes back to user code, `GMTX` is released (liveness) |
| `ShimTypeOK` | types; `CALL_DEPTH` never goes below zero |
| `NoSelfDeadlock` | no thread asks for `GMTX` or `REAL_PT` while it has it |
| `CallersKnown` | whoever works on `State` finds it, locked, with its own entry |
| `TripwireSound` | user code is at depth zero and its futex calls are fatal, the scheduler's never are |
| `RngNeverStuck`, `ChoiceIsEligible`, `WalkReachesEligible` | the generator avoids 0; a draw is eligible, and every eligible thread can be drawn |
| `UniformDraw` | every eligible thread is drawn from equally many starting points (refuted) |
| `PassFaithful`, `EntryWrappedOnce` | hooks before every atomic access and nowhere else; one wrapper, around the original |
| `FilterVerdict` | killed, trapped or allowed, as intended, for every call |
| `LongerSleepsYieldMore` | at least one yield, at most 100000, and never fewer for a longer sleep |
| `RegistryExact` | noted recursive only if recursive; one made recursive by `pthread_mutex_init` is unnoted only after a reinit |
| `ProgramThreadsScheduled` | under TSAN a recognised thread of the program is scheduled, or the run is stopped; not claimed when the order of creation is the only criterion and the program comes first |

## Runs

`tlc -config X.cfg M`, with `M` = `MCParts` for `Parts.cfg`, `RschedShim` for
`HookReentry.cfg`, `RschedWalk` for `UniformDraw.cfg`, and `MCRsched` for the others.

| Config | Instance | Result |
|---|---|---|
| `Sync` | 3 threads, a recursive mutex to depth 2, a condition variable, a barrier with counts 0 and 3 | holds, with both refinements |
| `Mutex` | 3 threads, a normal and a recursive mutex, depth 2 | holds |
| `Faults` | 3 threads, tsan build, an error-checking mutex, a condition variable, `ExitAfterCreate`, `TeardownCalls` | the safety of control and of the mutexes holds |
| `Progress` | 3 threads, a mutex, fairness | holds |
| `Parts` | the shim with 2 threads, seccomp requested, re-entry to depth 4; the six sequential modules | holds |
| `ExitPending` | 2 threads, `ExitAfterCreate` | `NoStrandedThread` fails |
| `TsanJoin` | 2 threads, tsan build | `NoStrandedThread` fails |
| `TeardownLock` | 2 threads, `TeardownCalls` | `HandedMutexWaiterRunnable` fails |
| `ErrorcheckLeak` | 2 threads, an error-checking mutex | `WaitersHaveRealHolder` fails |
| `Spurious` | 2 threads, spurious wakeups | `OneRunner` fails |
| `HookReentry` | 2 threads, instrumented libraries | `NoSelfDeadlock` fails |
| `UniformDraw` | lists of up to 3 threads, one draw | `UniformDraw` fails |

Bounds. Three threads are the smallest number with a thread that runs, one that is handed
a resource and one that must not be disturbed; a barrier of three then both completes and
stays incomplete, over several rounds, and a reused `pthread_t` occurs because thread
values are created again after a join. Two mutexes of different type let a thread block on
one while it holds the other. `MaxDepth = 2` is the first depth at which a release is not
the last. `Sync` leaves its recursive mutex unnoted (`RecursiveNoted = {}`), as it is for a
program built by the direct-pthread pass, whose table has no `pthread_mutex_init`.
Threads other than the main one are symmetric in the safety runs; `Progress` does without
symmetry. In the shim of `Parts` the second thread is created, exits and is created again; depth 4
admits two re-entries of libc inside a real call that an interposed call makes, and every
deeper one only repeats the forwarding at depth above zero. The walk's seeds include 0,
which `Rng::new` replaces, and 2^64 - 2, from which the fuzzer loop wraps around to 0. The
pass sees every function of up to two instructions over all kinds of access, and an entry
point beside a caller of it in either order; the sleeps lie around every unit, clamp and
the saturation; the filter sees every class of number and address. The registry has two
mutexes and one attribute object, made again and again; TSAN's criteria are all lists of up
to three.

Deadlock is not checked: a program may deadlock on its own mutexes or end, and the
scheduler then rightly stops. What must not stop is stated by `NoStrandedThread` and
`ProgressToUser`.

Fairness. `FairSpec` assumes weak fairness of `Internal(t)` for every thread: the kernel
runs every OS thread that can run, and `pthread_mutex_lock` on `GMTX` is granted. For a
step that needs `GMTX` weak fairness is enough in `Progress`: once no other thread is
inside the scheduler the lock stays free until the step happens. Nothing is assumed
about `UserCall`: the program need not call anything.

### Where the code differs from what it says

1. `ExitPending`: `do_thread_exit` decides without draining the pending child, although
   `drain_pending_child` is documented to run before the next scheduling decision. A
   thread that creates a child and exits at once leaves it ineligible for ever.
2. `TsanJoin`: under TSAN a child is marked started before it waits at its gate. A parent
   that exits or enters the real join in between makes its last decision without it.
3. `TeardownLock`: a destructor that has to wait for a mutex after `do_thread_exit` is
   made its owner but is no longer in `State::threads`, and is never signalled.
4. `ErrorcheckLeak`: the virtual count is incremented before the real lock returns
   EDEADLK and is not taken back, so the mutex stays owned after the last unlock.
5. `Spurious`: no wait on `suspend_cond` is in a loop, so a spurious return of
   `pthread_cond_wait`, which POSIX permits, lets a thread run that was not picked. The
   wait for `ready_cond` is in one.
6. `HookReentry`: `schedule_memop` runs at depth zero, holds `GMTX` and allocates. With all
   libraries instrumented, as the README of the repository describes, the allocator's own
   atomic accesses come back into it.
7. `UniformDraw`: `scheduler.rs:39` calls the selection uniformly random. A thread behind
   ineligible ones is also drawn from their starting points: with flags [down, down, up]
   index 0 is drawn twice as often as index 1. `UniformExactlyWhen` says when the draw is
   uniform.

The first two are real stops of the program; runs with `ExitAfterCreate = FALSE` and
`TSan = FALSE` show that `NoStrandedThread` holds otherwise.

Differences met while modelling that have no run of their own:

- `rsched_pthread_create` sets its event after the operation and never clears it
  (`lib.rs:1293`; `lib.rs:63` says events are cleared). Only the log shows it.
- The default of `RANDOM_SEED` is 0x12345678abcd, not 0 (`README.md:93`).
- With `rsched_reinit` as the first call, the seccomp filter is never installed.
- In the tsan build `ReproducibleDecision` does not hold: a started child that has not
  reached its gate is left out of a draw.
- The comment at the head of the preload shim counts calls of TSAN's background thread
  among the re-entrant ones; that thread's depth is zero like any other's.
- `RSCHED_TSAN_BACKGROUND_THREAD=none,first` is accepted while `first,none` panics.

## Proofs

`tlapm M.tla` checks the proofs of module `M`. The theorems hold for every set of threads,
mutexes, condition variables and barriers and every assignment of mutex types; where a
build, a program or a mutex type has to be excluded, the theorem says so in its
hypothesis. Assumptions on the constants: `ThreadsAssumption` and `SyncAssumption` (the
sets are disjoint, `Main` is a thread, `None` is nothing, only recursive mutexes are noted
as recursive), `ShimAssumption`, `WalkAssumption`, `SleepAssumption` (the arguments fit in a word, and a
word has at least 30 bits), and `PassAssumption` (what LLVM guarantees of a module:
functions have different names and consist of instructions with the operands of their
kind; besides, no program uses the name that the pass reserves for the original entry).

| Theorem | States | Excludes |
|---|---|---|
| `TypeCorrect`, `OneRunnerHolds`, `NoLostWakeupHolds`, `RealImpliesVirtualHolds` | the property of that name | nothing |
| `GmtxNeverStuckHolds` | `GmtxNeverStuck` | the relock of a normal mutex by its owner (`MayLock`) and a mutex held across `rsched_reinit` (`Reinit`): each would block the real lock with `GMTX` held |
| `StartArgAliveHolds`, `NoStartArgLeaks` | no early free; every `StartArg` has somebody who will free it | nothing |
| `ReproducibleDecisionHolds` | `ReproducibleDecision` | the tsan build |
| `CountsAgreeHolds` | virtual and real depth agree | error-checking mutexes |
| `WaitersHaveRealHolderHolds` | `WaitersHaveRealHolder` | error-checking mutexes |
| `BlockedIffRegisteredOnceHolds`, `HandedMutexWaiterRunnableHolds` | the property of that name | calls from destructors |
| `PthreadsRefinement` | `ImplementsPthreads` | calls from destructors |
| `CoopRefinement`, `NoStrandedThreadHolds` | `ImplementsCoop`, `NoStrandedThread` | all three switches |
| `ShimTypeSafety`, `ShimNoSelfDeadlock`, `ShimCallersKnown` | `ShimTypeOK`, `NoSelfDeadlock`, `CallersKnown`, for any threads and any depth of re-entry | instrumented libraries |
| `ShimNeverTripsItself` | no system call of the scheduler is fatal | instrumented libraries |
| `ShimTripwireSound` | `TripwireSound` | instrumented libraries; `rsched_reinit` as the first call |
| `PassFaithfulHolds`, `EntryWrappedOnceHolds` | the property of that name, for modules and functions of any size and any number of runs | nothing |
| `RngNeverStuckHolds`, `WalkReachesEligibleHolds`, `ChoiceIsEligibleHolds` | the walk, for lists of any length and words of any width | nothing |
| `UniformExactlyWhen` | `UniformDraw` holds for a list exactly when equally many ineligible threads stand just before each eligible one | nothing |
| `RegistryExactHolds` | `RegistryExact`, for any mutexes and attributes | a static initialiser over a recursive mutex that was not destroyed |
| `FilterVerdictHolds`, `ProgramThreadsScheduledHolds`, `LongerSleepsYieldMoreHolds` | the property of that name, for all inputs | nothing |

Beside the caller's errors of `GmtxNeverStuckHolds` and `RegistryExactHolds` the exclusions
come from the code. `ExitPending` and `TsanJoin` are counterexamples to
`NoStrandedThreadHolds` without its hypothesis, `TeardownLock` to
`HandedMutexWaiterRunnableHolds`, `ErrorcheckLeak` to `WaitersHaveRealHolderHolds`.
`BlockedIffRegisteredOnceHolds` and `PthreadsRefinement` rest on `LiveInv` below, which a
call from a destructor breaks: it runs library code in a thread that is not registered.
The theorems about the shim are about `ShimSpec`; `HookReentry` is a counterexample for
`InstrumentedSpec`. With `rsched_reinit` as the first call the filter is never installed,
so a futex call of user code is not fatal.

### The scheduler

`IndInvariant` proves that `IndInv` is inductive; the other theorems of `RschedProofs`
follow from it, and all later modules use it.

| Part of `IndInv` | Why it is needed |
|---|---|
| `TypeOK` | itself a theorem (`TypeCorrect`); the counts need the mutex parts below |
| `ControlInv` | return labels match `pc`, arguments are set where the code uses them, unregistered threads run no code for registered ones |
| `OneRunner` | itself (`OneRunnerHolds`): a step either keeps the set of running threads, or signals one thread and stops the caller |
| `WaitFlagInv` | `is_in_rsched_wait` is up only inside a wait; so a choosable thread waits or was woken, and with `OneRunner` the latter is impossible (`NoLostWakeupHolds`), which in turn is what keeps `OneRunner` |
| `VirtualInv` | a virtual mutex is free and empty, held, or handed with count 0 to a thread inside `mutex_lock`; waiters are inside `mutex_lock` and are not the owner |
| `RealInv` | the real mutex is at most as deep as the virtual one, and strictly less where its owner is about to lock it (`RealImpliesVirtualHolds`) |
| `NormalInv` | a normal mutex is never two deep, so the pending real lock finds it free (`GmtxNeverStuckHolds`) |

Each part has a lemma `...Step` with one case per action. `FrameStep` says what an action of
`t` leaves alone in other threads; `QuietStep` and `MutexQuietStep` dispose of the actions
that do not matter to a part; `ReleaseFacts` and `MutexUnlockCases` describe a release
once for `Unlock` and `CondWait`.

The later modules add the parts of `RschedInvariants`, each proved relative to `IndInv`
and the parts before it:

| Part | Says | Needed for |
|---|---|---|
| `StartInv` | a thread that is pending, or that a drain waits for, has not had a turn and its `StartArg` is live; no two drains wait for one child | `StartArgAlive`: a drain would otherwise free the `StartArg` of a reused `pthread_t` |
| `CreateInv` | a child is only created with an empty pending slot | `StartInv`: the slot is overwritten without a test |
| `KeptInv` | a `StartArg` or an unstarted registered thread is pending or waited for | `NoStartArgLeaks`, and that a drain is enough to make every child eligible |
| `FlagInv`, `GateInv` | `is_in_rsched_wait` is up inside every wait; only the tsan build has a gate | `ReproducibleDecision` |
| `CountInv` | the two lock counts agree but for a call between the two locks | `WaitersHaveRealHolder`: an owner that does not hold the real mutex must be about to lock it |
| `LiveInv` | registered are exactly the threads that run program or scheduler code | fails with calls from destructors; everything about blocking |
| `JoinInv` | no two threads join the same one; its `pthread_t` is not reused before the join is over | that `joiner` names the thread that waits |
| `BlockInv` | a thread is blocked exactly when it is in a list, and then inside the operation of that list | `BlockedIffRegisteredOnce`: lists of different objects are told apart by where the thread is. `mutex_lock` and the end of `cond_wait` share their code, so that pair is stated |
| `BarrierInv` | a barrier is initialised once and its list is shorter than its count | `PthreadsRefinement`: the last arrival releases a full round |
| `DrainedInv` | a decision is made with no child pending | `CoopRefinement`: a pending child is unblocked but cannot be drawn |
| `RestInv` | a blocked thread that got back from `context_switch` found everybody blocked | `CoopRefinement`: its second wait gives the turn to nobody |

`CoopRefinement` shows, action by action, that a step of `Rsched` is a step of
`CoopScheduler` under the mapping or changes nothing there. `NoStrandedThread` then follows
from the same facts. `PthreadsRefinement` does the same for `PthreadObjects`; its steps are
classified by whether the thread is in user code before and after, what the call owes, and
whether an object changed (`ViewSame`, `HoldersSame` and their companions).

### The shim

What a thread of `RschedShim` will do is a list of labels of any length: libc may call an
interposed function inside a real call, which makes a real call, and so on. Its invariant
therefore speaks about every suffix of the list, as an annotated program does. A point
records what is the case before a label: `CALL_DEPTH`, whether the thread holds `GMTX` or
is initialising `REAL_PT`, whether it has started a child that is not yet in `State`
(`adding`), and how far initialisation is as seen by this thread (`phase`). `Step(l, x, y)`
says what a label asks for and where it leads. A list is in order when some assignment of
points leads from label to label and ends in user code (`InOrder`). `ShimInv` says that the
types are right and that there is a point for every thread from which its list is in order
and which agrees with the state (`Outline`).

| Part of a point | Why it is needed |
|---|---|
| `depth` | `with_internal_depth` must give back what it took, through all re-entries; kernel entries need it above zero |
| `gmtx`, `rpt` | a lock is asked for only without it (`NoSelfDeadlock`) |
| `adding` | between the real `pthread_create` and the entry in `State` the child runs without one; `GMTX` keeps it out until then |
| `phase` | `rsched_init` sets `INITED` before `State` exists, `rsched_reinit` after it has replaced `State`; meanwhile no other thread exists, and only a thread in `State` may reach `body` (`CallersKnown`) |

The programs a call puts in front of a list are chains from a point to a point
(`ChainOne`, `ChainTwo`, `ChainThree` and their concatenations); each action then either
takes one label off or puts one such program in front. `MayMove` lists what such a step
owes, and `OutlineStep` shows that a step that pays it keeps `ShimInv`; `LockStep` and
`StateStep` specialise it to steps on a lock and to steps on `State`, `INITED` or the filter.

### The algorithms

`RngNeverStuckHolds` rests on the lowest (highest) one bit of a word surviving
`x ^= x << k` (`x ^= x >> k`). `WalkReachesEligibleHolds` rests on the scan from an eligible
start returning it, `UniformExactlyWhen` on a bijection between the starts that lead to a
thread and the thread itself with the run of ineligible ones just before it (`StartsOf`). `ChoiceIsEligibleHolds` needs the
remainder of a word by the length to be in range, for a recursively defined `Residue`.
Induction over data is not available, but its contrapositive is: a set of natural numbers
has a least element (`LeastElement`, from the well-foundedness of `<`), so there is no
least bit at which the definition fails.

`FilterVerdictHolds` follows the program counter: `FilterKnows` says what the comparisons
passed so far have established. `ProgramThreadsScheduledHolds` adds that the counter
is at least the number of calls seen when a criterion is in force. For the sleeps, every
one of the four functions is shown to round up to milliseconds, up to the clamp (`Rounds`),
after which only one conversion to yields has to be monotonic.

For the pass, `Turned` is the invariant of the loop of `instrument_atomics`: after `k` turns
the first `k` instructions have their places, each with its announcement, and the rest
follows unchanged; `at` points to the next one. `Climb` and `RecursionExists` stand in for
induction: a set that contains 0 and all successors contains `0 .. n`, and a function on
`0 .. n` may be defined by recursion. `SpreadAgain` shows that a run on an instrumented list
adds one announcement per access, because announcements are calls and are not counted
(`SpreadCount`). `RewritePthreadCallsIs` gives the result of the twelve walks in closed form;
it needs that no name in the table is replaced twice and no replacement is in the table as
a name to replace. `PassInv` puts this together for a module (`Laid`): the code of every
function, the names, and the wrapper at the end.

### Only model-checked

- `ProgressToUser` and `GmtxReleased`: liveness under fairness is out of the prover's reach.

Every safety property of the passing runs, and both refinements, are also proved.

## Not modelled

- The bytes by which TSAN's start routines are recognised, the patching of its argument
  block and the ELF symbol search behind the return-address criterion: they depend on
  binaries. Their outcome is an input of `RschedTsanCreate`.
- The raw system call assembly and the register-level emulation in the SIGSYS handler.
- Threads created behind rsched's back (other runtimes) calling interposed functions.
- `pthread_mutex_destroy` of a mutex in use: undefined by POSIX. A static initialiser over
  a noted mutex that was not destroyed.
- The allocator's own locks, which matter under the tripwire where the scheduler allocates
  at depth zero, and with instrumented libraries (`HookReentry`).
- Declarations of the fuzzer entry without a definition in the module.
- The e9patch driver and its hook stubs, headers, tests, benchmarks, `LoggingScheduler`
  (prints and delegates), and `libc_start_main.rs`, which no build includes.

## Plan

1. Done: the core with its runs and first theorems; the abstract specifications and
   refinements; the shim, initialisation, and the sequential algorithms; spurious wakeups.
2. Done: proofs of every safety property of `Rsched`, of both refinements, of the shim and
   of the sequential algorithms.
3. Left: `pthread_mutex_destroy` in `RschedSync`, composed with the registry; the start gate
   of the tsan build in `RschedShim`.
