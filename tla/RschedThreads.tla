---------------------------- MODULE RschedThreads ----------------------------
(***************************************************************************)
(* The cooperative core of rsched (rsched/src/lib.rs): the global mutex    *)
(* GMTX, the thread records of `State`, context_switch with its deferred   *)
(* child start-up, and the life of a thread from pthread_create through    *)
(* the trampoline to do_thread_exit and pthread_join.                      *)
(*                                                                         *)
(* Every entry point runs with GMTX held from glock to gunlock, and gives  *)
(* GMTX up only inside pthread_cond_wait.  One action is one stretch of    *)
(* code between two such points or between two calls of a State method;    *)
(* pc[t] names the code t executes next, ret[t] is where the pending       *)
(* context_switch or wait returns to.  Threads that hold GMTX are the only *)
(* ones that can move, so the split adds states and no interleavings.      *)
(*                                                                         *)
(* Abstractions.  A pthread_t and its kernel tid are one model value.  The *)
(* vector State::threads is a set: its order only feeds the index drawn by *)
(* the random walk, and the draw is a nondeterministic choice here.        *)
(***************************************************************************)
CONSTANTS
    Threads,          \* pthread_t values, reused once a thread was joined
    Main,             \* the thread that runs rsched_init
    None,             \* the absent value of an Option
    TSan,             \* build feature "tsan": children pass tsan_user_start_gate
    ExitAfterCreate,  \* may a thread exit with no scheduling point after pthread_create?
    TeardownCalls     \* may thread-local destructors call pthread_mutex_* / sched_yield?

ASSUME ThreadsAssumption ==
    /\ Main \in Threads
    /\ None \notin Threads
    /\ TSan \in BOOLEAN
    /\ ExitAfterCreate \in BOOLEAN
    /\ TeardownCalls \in BOOLEAN

VARIABLES
    gmtx,               \* holder of GMTX, or None
    pc,                 \* the code a thread executes next
    ret,                \* where its context_switch / cond_wait / drain returns to
    threads,            \* State::threads
    is_blocking,        \* Thread::is_blocking
    startup_done,       \* Thread::startup_done
    is_in_rsched_wait,  \* Thread::is_in_rsched_wait
    joiner,             \* Thread::joiner
    next_event,         \* Thread::next_event, "none" for Option::None
    pending_child,      \* State::pending_child (the child's pthread_t)
    start_arg,          \* the child's boxed StartArg: "free", "alloc" or "ready"
    draining,           \* the child whose ready_cond a thread waits on
    mtx,                \* mutex argument of the operation in progress
    obj                 \* condition variable, barrier or join target of it

flags == <<is_blocking, startup_done, is_in_rsched_wait>>
args == <<mtx, obj>>
child == <<pending_child, start_arg, draining>>
threadVars == <<gmtx, pc, ret, threads, flags, joiner, next_event, child, args>>

Events == {"none", "ThreadCreate", "LockAcq", "LockRel", "SchedYield", "MemOp"}

(***************************************************************************)
(* Control.  A call takes GMTX; the states "user" (user code) and          *)
(* "teardown" (thread-local destructors, after do_thread_exit) do not hold *)
(* it.                                                                     *)
(***************************************************************************)
Goto(t, l) == pc' = [pc EXCEPT ![t] = l]

\* glock() succeeded on entry of an exported function.
Glock(t) ==
    /\ gmtx = None
    /\ gmtx' = t

MayCall(t) == pc[t] = "user" \/ (TeardownCalls /\ pc[t] = "teardown")

\* Call drain_pending_child.  pthread_create and barrier_wait, whose code goes
\* on at the labels of DirectDrain, call it themselves; for every other l the
\* drain is the first part of `st().context_switch(caller)` and choose and wake
\* follow before the code at l.
CallDrain(t, l) ==
    /\ Goto(t, "drain")
    /\ ret' = [ret EXCEPT ![t] = l]

DirectDrain == {"create", "bwait"}

CallContextSwitch(t, l) == l \notin DirectDrain /\ CallDrain(t, l)

ReturnTo(t, p) ==
    /\ pc' = [p EXCEPT ![t] = ret[t]]
    /\ ret' = [ret EXCEPT ![t] = "none"]

\* Give GMTX up and return to the caller of the exported function.
Leave(t) ==
    /\ gmtx' = None
    /\ Goto(t, IF t \in threads THEN "user" ELSE "teardown")
    /\ mtx' = [mtx EXCEPT ![t] = None]
    /\ obj' = [obj EXCEPT ![t] = None]

\* The tail of every exported function: clear_event where it has one, gunlock.
Return(t) ==
    /\ pc[t] \in {"clear", "gunlock"}
    /\ next_event' = IF pc[t] = "clear" THEN [next_event EXCEPT ![t] = "none"]
                                        ELSE next_event
    /\ Leave(t)
    /\ UNCHANGED <<ret, threads, flags, joiner, child>>

(***************************************************************************)
(* State::choose and State::wake.                                          *)
(***************************************************************************)
\* Faulty variants of the definitions that follow, as mutants of the model: a
\* choose() without the check of is_in_rsched_wait or of is_blocking.
ChoosableAnywhere(T, blocking, started) == {n \in T : ~blocking[n] /\ started[n]}
ChoosableBlocked(T, blocking, started) == {n \in T : started[n] /\ is_in_rsched_wait[n]}

\* The threads choose() can return: a subset of the registered ones.
Choosable(T, blocking, started) ==
    {n \in T : ~blocking[n] /\ started[n] /\ is_in_rsched_wait[n]}

\* pthread_cond_signal on n's suspend_cond: lost unless n waits on it.
Signal(n) == [pc EXCEPT ![n] = IF @ = "wait" THEN "woken" ELSE @]

\* rsched_cond_wait on the caller's own suspend_cond, GMTX released.
Suspend(t, p) ==
    /\ is_in_rsched_wait' = [is_in_rsched_wait EXCEPT ![t] = TRUE]
    /\ pc' = [p EXCEPT ![t] = "wait"]
    /\ gmtx' = None

\* The wait returned: GMTX is held again and the flag is cleared.
Resume(t) ==
    /\ pc[t] = "woken"
    /\ Glock(t)
    /\ is_in_rsched_wait' = [is_in_rsched_wait EXCEPT ![t] = FALSE]
    /\ ReturnTo(t, pc)
    /\ UNCHANGED <<threads, is_blocking, startup_done, joiner, next_event, child, args>>

\* State::wake(n, true, t).
Wake(t, n) ==
    IF n = t
    THEN ReturnTo(t, pc) /\ UNCHANGED <<gmtx, is_in_rsched_wait>>
    ELSE Suspend(t, Signal(n)) /\ UNCHANGED ret

\* A mutant: the registration of the caller is not looked at.
AloneRegistered(t) == threads = {t}

\* context_switch returns at once: an exited caller, or nobody else to run.
Alone(t) == t \notin threads \/ threads = {t}

\* The part of context_switch after the drain.
ContextSwitch(t) ==
    /\ pc[t] = "switch"
    /\ LET started == [startup_done EXCEPT ![t] = TRUE]
           next    == Choosable(threads, is_blocking, started)
       IN  \/ /\ Alone(t)
              /\ ReturnTo(t, pc)
              /\ UNCHANGED <<gmtx, startup_done, is_in_rsched_wait>>
           \/ /\ ~Alone(t)
              /\ startup_done' = started
              /\ next = {}
              /\ ReturnTo(t, pc)
              /\ UNCHANGED <<gmtx, is_in_rsched_wait>>
           \/ /\ ~Alone(t)
              /\ startup_done' = started
              /\ \E n \in next : Wake(t, n)
    /\ UNCHANGED <<threads, is_blocking, joiner, next_event, child, args>>

(***************************************************************************)
(* State::drain_pending_child.                                             *)
(***************************************************************************)
\* What follows the drain: choose() inside context_switch, else the caller.
AfterDrain(t) ==
    IF ret[t] \in DirectDrain
    THEN ReturnTo(t, pc)
    ELSE Goto(t, "switch") /\ UNCHANGED ret

\* Mutants: a drain that does not wait for the child, one that leaves the child
\* ineligible.
MustNotAwait(c) == FALSE
FreeStartArgOnly(c) ==
    /\ start_arg' = [start_arg EXCEPT ![c] = "free"]
    /\ UNCHANGED startup_done

\* `while !(*sa).ready`: must the drain of child c wait on ready_cond?
MustAwait(c) == start_arg[c] # "ready"

FreeStartArg(c) ==
    /\ start_arg' = [start_arg EXCEPT ![c] = "free"]
    /\ startup_done' = [startup_done EXCEPT ![c] = TRUE]

DrainPendingChild(t) ==
    /\ pc[t] = "drain"
    /\ pending_child' = None
    /\ \/ /\ pending_child = None
          /\ AfterDrain(t)
          /\ UNCHANGED <<gmtx, startup_done, start_arg, draining>>
       \/ /\ pending_child # None
          /\ MustAwait(pending_child)
          /\ draining' = [draining EXCEPT ![t] = pending_child]
          /\ Goto(t, "drainwait")
          /\ gmtx' = None
          /\ UNCHANGED <<ret, startup_done, start_arg>>
       \/ /\ pending_child # None
          /\ ~MustAwait(pending_child)
          /\ FreeStartArg(pending_child)
          /\ AfterDrain(t)
          /\ UNCHANGED <<gmtx, draining>>
    /\ UNCHANGED <<threads, is_blocking, is_in_rsched_wait, joiner, next_event, args>>

\* ready_cond was signalled and GMTX re-acquired.
DrainResume(t) ==
    /\ pc[t] = "drainwait"
    /\ ~MustAwait(draining[t])
    /\ Glock(t)
    /\ FreeStartArg(draining[t])
    /\ draining' = [draining EXCEPT ![t] = None]
    /\ AfterDrain(t)
    /\ UNCHANGED <<threads, is_blocking, is_in_rsched_wait, joiner, next_event,
                   pending_child, args>>

(***************************************************************************)
(* Explicit scheduling points: sched_yield and the hook that precedes      *)
(* every instrumented atomic access.                                       *)
(***************************************************************************)
SchedulingPoint(t, ev) ==
    /\ MayCall(t)
    /\ Glock(t)
    /\ next_event' = [next_event EXCEPT ![t] = ev]
    /\ CallContextSwitch(t, "clear")
    /\ UNCHANGED <<threads, flags, joiner, child, args>>

SchedYield(t) == SchedulingPoint(t, "SchedYield")

ScheduleMemop(t) == SchedulingPoint(t, "MemOp")

(***************************************************************************)
(* Thread creation.                                                        *)
(***************************************************************************)
CallCreate(t) ==
    /\ pc[t] = "user"
    /\ Glock(t)
    /\ CallDrain(t, "create")
    /\ UNCHANGED <<threads, flags, joiner, next_event, child, args>>

\* Thread::new_with_tid and State::add for child c, and the pending slot.
AddChild(c) ==
    /\ threads' = threads \cup {c}
    /\ is_blocking' = [is_blocking EXCEPT ![c] = FALSE]
    /\ startup_done' = [startup_done EXCEPT ![c] = FALSE]
    /\ is_in_rsched_wait' = [is_in_rsched_wait EXCEPT ![c] = FALSE]
    /\ joiner' = [joiner EXCEPT ![c] = None]
    /\ start_arg' = [start_arg EXCEPT ![c] = "alloc"]
    /\ pending_child' = c

\* After the drain: the real pthread_create returns the new thread c ...
Create(t, c) ==
    /\ pc[t] = "create"
    /\ pc[c] = "unborn"
    /\ gmtx' = None
    /\ AddChild(c)
    /\ next_event' = [next_event EXCEPT ![t] = "ThreadCreate", ![c] = "none"]
    /\ pc' = [pc EXCEPT ![t] = "user", ![c] = "tramp"]
    /\ UNCHANGED <<ret, draining, args>>

\* ... or fails: the StartArg is dropped and nothing was registered.
CreateFails(t) ==
    /\ pc[t] = "create"
    /\ gmtx' = None
    /\ Goto(t, "user")
    /\ UNCHANGED <<ret, threads, flags, joiner, next_event, child, args>>

\* The child publishes `ready` under GMTX.  Without TSAN it waits for its first
\* turn before it lets go of GMTX; with TSAN it runs on to the start gate.
Trampoline(t) ==
    /\ pc[t] = "tramp"
    /\ gmtx = None
    /\ start_arg' = [start_arg EXCEPT ![t] = "ready"]
    /\ IF TSan
       THEN Goto(t, "gate") /\ UNCHANGED <<gmtx, ret, is_in_rsched_wait>>
       ELSE Suspend(t, pc) /\ ret' = [ret EXCEPT ![t] = "gunlock"]
    /\ UNCHANGED <<threads, is_blocking, startup_done, joiner, next_event,
                   pending_child, draining, args>>

\* tsan_user_start_gate, reached some time after the sanitizer's handshake.
TsanStartGate(t) ==
    /\ pc[t] = "gate"
    /\ gmtx = None
    /\ Suspend(t, pc)
    /\ ret' = [ret EXCEPT ![t] = "gunlock"]
    /\ UNCHANGED <<threads, is_blocking, startup_done, joiner, next_event, child, args>>

(***************************************************************************)
(* Thread exit.  do_thread_exit makes a scheduling decision of its own: it *)
(* does not drain the pending child and does not wait.                     *)
(***************************************************************************)
\* A mutant: the joiner is forgotten.
ExitFlagsNoJoiner(t) == [is_blocking EXCEPT ![t] = TRUE]

\* The joiner, if any, becomes runnable; the record stays, marked blocking.
ExitFlags(t) ==
    [u \in Threads |-> IF u = t THEN TRUE
                       ELSE IF u = joiner[t] THEN FALSE ELSE is_blocking[u]]

ThreadExit(t) ==
    /\ pc[t] = "user"
    /\ gmtx = None
    /\ ExitAfterCreate \/ pending_child = None
    /\ threads' = threads \ {t}
    /\ is_blocking' = ExitFlags(t)
    /\ LET next == Choosable(threads', is_blocking', startup_done)
       IN  \/ /\ next = {}
              /\ Goto(t, "teardown")
           \/ \E n \in next : pc' = [Signal(n) EXCEPT ![t] = "teardown"]
    /\ UNCHANGED <<gmtx, ret, startup_done, is_in_rsched_wait, joiner, next_event,
                   child, args>>

\* The OS thread ends once its destructors have run.
Die(t) ==
    /\ pc[t] = "teardown"
    /\ Goto(t, "dead")
    /\ UNCHANGED <<gmtx, ret, threads, flags, joiner, next_event, child, args>>

(***************************************************************************)
(* pthread_join.                                                           *)
(***************************************************************************)
\* POSIX lets one thread join another, once.
Joinable(t, x) ==
    /\ x \notin {t, Main}
    /\ pc[x] # "unborn"
    /\ \A u \in Threads : obj[u] # x

CallJoin(t, x) ==
    /\ pc[t] = "user"
    /\ Joinable(t, x)
    /\ Glock(t)
    /\ obj' = [obj EXCEPT ![t] = x]
    /\ CallContextSwitch(t, "join")
    /\ UNCHANGED <<threads, flags, joiner, next_event, child, mtx>>

\* After the first scheduling point: block until the target has exited.
Join(t) ==
    /\ pc[t] = "join"
    /\ \/ /\ obj[t] \in threads
          /\ joiner' = [joiner EXCEPT ![obj[t]] = t]
          /\ is_blocking' = [is_blocking EXCEPT ![t] = TRUE]
          /\ CallContextSwitch(t, "joined")
       \/ /\ obj[t] \notin threads
          /\ Goto(t, "joined")
          /\ UNCHANGED <<ret, joiner, is_blocking>>
    /\ UNCHANGED <<gmtx, threads, startup_done, is_in_rsched_wait, next_event, child, args>>

\* gunlock, then the real pthread_join.
Joined(t) ==
    /\ pc[t] = "joined"
    /\ gmtx' = None
    /\ Goto(t, "realjoin")
    /\ UNCHANGED <<ret, threads, flags, joiner, next_event, child, args>>

\* The real pthread_join returns when the OS thread has ended.
RealJoin(t) ==
    /\ pc[t] = "realjoin"
    /\ pc[obj[t]] = "dead"
    /\ pc' = [pc EXCEPT ![t] = "user", ![obj[t]] = "unborn"]
    /\ obj' = [obj EXCEPT ![t] = None]
    /\ UNCHANGED <<gmtx, ret, threads, flags, joiner, next_event, child, mtx>>

=============================================================================
