----------------------------- MODULE RschedShim -----------------------------
(***************************************************************************)
(* The way into the scheduler and around it: the interposers of            *)
(* rsched/preload/src/lib.rs, CALL_DEPTH, the lazily resolved pointers to  *)
(* the real functions (RTLD_NEXT slots and REAL_PT), ensure_init /         *)
(* rsched_init / rsched_reinit, and the frame that every exported function *)
(* of rsched/src/lib.rs puts around its work on State.                     *)
(*                                                                         *)
(* What the functions do to State is the subject of Rsched.  Here they are *)
(* one label, "body", and a thread's progress is the list of labels it has *)
(* yet to execute.  A thread in user code has an empty list.  Threads      *)
(* interleave freely: nothing below relies on cooperative scheduling.      *)
(*                                                                         *)
(* Libc and the dynamic linker may call interposed functions themselves    *)
(* ("libc-internal PLT re-entry"); when the program's libraries were       *)
(* instrumented, their atomic accesses call the hook (InstrumentedSpec).   *)
(***************************************************************************)
EXTENDS Integers, Sequences

CONSTANTS
    Threads,
    Main,
    None,
    Ready,        \* REAL_PT holds its value
    Seccomp,      \* RSCHED_SECCOMP=1
    ReinitFirst,  \* rsched_reinit may be the first call, as in a fuzzer
    MaxDepth      \* bound on CALL_DEPTH: re-entry stops there

ASSUME ShimAssumption ==
    /\ Main \in Threads
    /\ None \notin Threads /\ Ready \notin Threads /\ None # Ready
    /\ Seccomp \in BOOLEAN /\ ReinitFirst \in BOOLEAN
    /\ MaxDepth \in Nat

VARIABLES
    todo,    \* labels each thread has yet to execute
    depth,   \* CALL_DEPTH
    gmtx,    \* holder of GMTX
    realPt,  \* REAL_PT: None, the thread that initialises it, or Ready
    slot,    \* the RTLD_NEXT slot is resolved
    inited,  \* INITED
    state,   \* STATE is Some(_)
    info,    \* keys of State::info
    armed    \* the seccomp filter is installed

globals == <<realPt, slot, inited, state, armed>>
shimVars == <<todo, depth, gmtx, info, globals>>

Unborn == <<"unborn">>
Dead == <<"dead">>
InUser(t) == todo[t] = <<>> \/ todo[t] = <<"destructors">>

At(t, l) == todo[t] # <<>> /\ Head(todo[t]) = l

\* t executes its first label and goes on with s before the rest.
Continue(t, s) == todo' = [todo EXCEPT ![t] = s \o Tail(@)]

\* t is about to execute s before its first label.
Insert(t, s) == todo' = [todo EXCEPT ![t] = s \o @]

(***************************************************************************)
(* Programs.                                                               *)
(***************************************************************************)
\* A mutant: the real function is called at the caller's depth.
RealCallBare(l) == <<"rpt", "libc", l>>

\* with_internal_depth(|| (rpt().f)(...)).
RealCall(l) == <<"up", "rpt", "libc", l, "down">>

Glock == RealCall("lock")
Gunlock == RealCall("unlock")

\* The frame of an exported function, and of schedule_memop past its test.
Op == <<"ensure">> \o Glock \o <<"body">> \o Gunlock

\* pthread_join ends with the real join.
JoinOp == Op \o RealCall("other")

\* A mutant: the child is entered in State after GMTX was released.
CreateOpLate ==
    <<"ensure">> \o Glock \o <<"body">> \o RealCall("create") \o Gunlock \o <<"addchild">>

CreateOp ==
    <<"ensure">> \o Glock \o <<"body">> \o RealCall("create") \o <<"addchild">> \o Gunlock

\* A mutant: the depth is lowered and was never raised.
DoThreadExitUnbalanced ==
    Glock \o <<"body">> \o RealCall("other") \o Gunlock \o <<"down">>

DoThreadExit == <<"up">> \o Glock \o <<"body">> \o RealCall("other") \o Gunlock \o <<"down">>

TrampolineStart ==
    <<"up">> \o Glock \o <<"body">> \o RealCall("other") \o RealCall("condwait") \o <<"body">>
    \o Gunlock \o <<"down">>

RegisterSelf == Glock \o <<"addself">> \o Gunlock

(***************************************************************************)
(* CALL_DEPTH.                                                             *)
(***************************************************************************)
Up(t) ==
    /\ At(t, "up")
    /\ depth' = [depth EXCEPT ![t] = @ + 1]
    /\ Continue(t, <<>>)
    /\ UNCHANGED <<gmtx, info, globals>>

Down(t) ==
    /\ At(t, "down")
    /\ depth' = [depth EXCEPT ![t] = @ - 1]
    /\ Continue(t, <<>>)
    /\ UNCHANGED <<gmtx, info, globals>>

(***************************************************************************)
(* The interposers: rsched_try_enter, the scheduler's function when this   *)
(* is the outermost call and the next implementation otherwise, and        *)
(* rsched_exit.                                                            *)
(***************************************************************************)
\* A mutant: a call from inside the scheduler is scheduled like any other.
OutermostAlways(d) == TRUE

Outermost(d) == d = 0

Interpose(t) ==
    /\ At(t, "enter")
    /\ depth' = [depth EXCEPT ![t] = @ + 1]
    /\ IF Outermost(depth[t])
       THEN \E op \in {Op, CreateOp, JoinOp} : Continue(t, op \o <<"down">>)
       ELSE Continue(t, <<"next", "libc", "down">>)
    /\ UNCHANGED <<gmtx, info, globals>>

LoadNext(t) ==
    /\ At(t, "next")
    /\ Continue(t, IF slot THEN <<>> ELSE <<"libc", "store">>)
    /\ UNCHANGED <<depth, gmtx, info, globals>>

StoreNext(t) ==
    /\ At(t, "store")
    /\ slot' = TRUE
    /\ Continue(t, <<>>)
    /\ UNCHANGED <<depth, gmtx, info, realPt, inited, state, armed>>

\* schedule_memop: nothing is scheduled inside the scheduler.
ScheduleMemop(t) ==
    /\ At(t, "hook")
    /\ Continue(t, IF depth[t] > 0 THEN <<>> ELSE Op)
    /\ UNCHANGED <<depth, gmtx, info, globals>>

(***************************************************************************)
(* Libc, the dynamic linker and the allocator.                             *)
(***************************************************************************)
LibcReturns(t) ==
    /\ At(t, "libc")
    /\ Continue(t, <<>>)
    /\ UNCHANGED <<depth, gmtx, info, globals>>

LibcReenters(t) ==
    /\ At(t, "libc")
    /\ depth[t] < MaxDepth
    /\ Insert(t, <<"enter">>)
    /\ UNCHANGED <<depth, gmtx, info, globals>>

\* State::new, choose and the maps of State allocate; with instrumented libraries
\* the allocator calls rsched_atomic_instrument_ra.
AllocatorReenters(t) ==
    /\ At(t, "libc") \/ At(t, "newstate") \/ (At(t, "body") /\ state /\ t \in info)
    /\ Insert(t, <<"hook">>)
    /\ UNCHANGED <<depth, gmtx, info, globals>>

(***************************************************************************)
(* rpt: a OnceLock, which its own initialiser must not ask for.            *)
(***************************************************************************)
Rpt(t) ==
    /\ At(t, "rpt")
    /\ \/ realPt = Ready /\ Continue(t, <<>>) /\ UNCHANGED realPt
       \/ realPt = None /\ Continue(t, <<"libc", "rptset">>) /\ realPt' = t
    /\ UNCHANGED <<depth, gmtx, info, slot, inited, state, armed>>

RptSet(t) ==
    /\ At(t, "rptset")
    /\ realPt' = Ready
    /\ Continue(t, <<>>)
    /\ UNCHANGED <<depth, gmtx, info, slot, inited, state, armed>>

(***************************************************************************)
(* The real functions: on GMTX, on the suspend conditions, and others.     *)
(***************************************************************************)
RealLock(t) ==
    /\ At(t, "lock")
    /\ gmtx = None
    /\ gmtx' = t
    /\ Continue(t, <<>>)
    /\ UNCHANGED <<depth, info, globals>>

RealUnlock(t) ==
    /\ At(t, "unlock")
    /\ gmtx' = None
    /\ Continue(t, <<>>)
    /\ UNCHANGED <<depth, info, globals>>

RealCondWait(t) ==
    /\ At(t, "condwait")
    /\ gmtx' = None
    /\ Continue(t, <<"lock">>)
    /\ UNCHANGED <<depth, info, globals>>

\* Signals, the program's mutexes, pthread_barrier_init, the real join: GMTX stays.
RealOther(t) ==
    /\ At(t, "other")
    /\ Continue(t, <<>>)
    /\ UNCHANGED <<depth, gmtx, info, globals>>

(***************************************************************************)
(* Work on State: st() and st().t(my_pt()) panic unless both exist.        *)
(***************************************************************************)
Known(t) == state /\ t \in info

Body(t) ==
    /\ At(t, "body")
    /\ Known(t)
    /\ Continue(t, <<>>)
    /\ UNCHANGED <<depth, gmtx, info, globals>>

\* context_switch and the blocking operations wait and look at State again; the
\* functions on mutexes and barriers call the real ones.
BodyCalls(t) ==
    /\ At(t, "body")
    /\ Known(t)
    /\ \E l \in {"condwait", "other"} : Insert(t, RealCall(l))
    /\ UNCHANGED <<depth, gmtx, info, globals>>

RealCreate(t) ==
    /\ At(t, "create")
    /\ \/ \E c \in Threads :
            /\ todo[c] \in {Unborn, Dead}
            /\ c # Main
            /\ todo' = [todo EXCEPT ![t] = Tail(@), ![c] = TrampolineStart]
            /\ depth' = [depth EXCEPT ![c] = 0]
       \/ \* the real pthread_create fails, and nothing is added
          /\ Continue(t, <<>>)
          /\ UNCHANGED depth
    /\ UNCHANGED <<gmtx, info, globals>>

\* st().add of the child, the only thread that is started and not yet in State.
AddChild(t) ==
    /\ At(t, "addchild")
    /\ info' = info \cup {c \in Threads : todo[c] \notin {Unborn, Dead}}
    /\ Continue(t, <<>>)
    /\ UNCHANGED <<depth, gmtx, globals>>

(***************************************************************************)
(* Initialisation.                                                         *)
(***************************************************************************)
EnsureInit(t) ==
    /\ At(t, "ensure")
    /\ Continue(t, IF inited THEN <<>> ELSE <<"init">>)
    /\ UNCHANGED <<depth, gmtx, info, globals>>

RschedInit(t) ==
    /\ At(t, "init")
    /\ inited' = TRUE
    /\ Continue(t, IF inited THEN <<>> ELSE <<"newstate">> \o RegisterSelf \o <<"arm">>)
    /\ UNCHANGED <<depth, gmtx, info, realPt, slot, state, armed>>

NewState(t) ==
    /\ At(t, "newstate")
    /\ state' = TRUE
    /\ info' = {}
    /\ Continue(t, <<>>)
    /\ UNCHANGED <<depth, gmtx, realPt, slot, inited, armed>>

AddSelf(t) ==
    /\ At(t, "addself")
    /\ state
    /\ info' = info \cup {t}
    /\ Continue(t, <<>>)
    /\ UNCHANGED <<depth, gmtx, globals>>

\* install_seccomp_tripwire_if_requested.
Arm(t) ==
    /\ At(t, "arm")
    /\ armed' = (armed \/ Seccomp)
    /\ Continue(t, <<>>)
    /\ UNCHANGED <<depth, gmtx, info, realPt, slot, inited, state>>

\* What becomes of a futex system call of t: the filter traps it, and the SIGSYS
\* handler emulates it inside the scheduler and ends the process otherwise.
FutexFate(t) ==
    IF ~armed THEN "allowed" ELSE IF depth[t] > 0 THEN "emulated" ELSE "fatal"

DropState(t) ==
    /\ At(t, "dropstate")
    /\ state' = FALSE
    /\ Continue(t, <<>>)
    /\ UNCHANGED <<depth, gmtx, info, realPt, slot, inited, armed>>

SetInited(t) ==
    /\ At(t, "setinited")
    /\ inited' = TRUE
    /\ Continue(t, <<>>)
    /\ UNCHANGED <<depth, gmtx, info, realPt, slot, state, armed>>

(***************************************************************************)
(* User code.  It calls an interposed function, one of rsched's functions  *)
(* itself (static linking, the headers, the direct-pthread pass), an       *)
(* atomic access, or rsched_init.                                          *)
(***************************************************************************)
Calls == {<<"enter">>, Op, CreateOp, JoinOp, <<"hook">>, <<"init">>}

UserCall(t) ==
    /\ InUser(t)
    /\ \E c \in Calls : Insert(t, c)
    /\ UNCHANGED <<depth, gmtx, info, globals>>

\* From the main thread, with no other thread left.
RschedReinit(t) ==
    /\ t = Main
    /\ todo[t] = <<>>
    /\ inited \/ ReinitFirst
    /\ \A c \in Threads \ {Main} : todo[c] \in {Unborn, Dead}
    /\ Insert(t, <<"dropstate", "newstate", "setinited">> \o RegisterSelf)
    /\ UNCHANGED <<depth, gmtx, info, globals>>

\* The thread function returns to trampoline; thread-local destructors follow.
UserReturns(t) ==
    /\ t # Main
    /\ todo[t] = <<>>
    /\ Insert(t, DoThreadExit \o <<"destructors">>)
    /\ UNCHANGED <<depth, gmtx, info, globals>>

\* pthread_exit: rsched_try_enter without rsched_exit, and the exit system call.
PthreadExit(t) ==
    /\ todo[t] = <<>>
    /\ \E s \in {<<"up">>, <<>>} : Insert(t, s \o <<"ensure">> \o DoThreadExit \o <<"dead">>)
    /\ UNCHANGED <<depth, gmtx, info, globals>>

ThreadEnds(t) ==
    /\ todo[t] = <<"destructors">>
    /\ todo' = [todo EXCEPT ![t] = Dead]
    /\ UNCHANGED <<depth, gmtx, info, globals>>

(***************************************************************************)
(* The specification.                                                      *)
(***************************************************************************)
ShimInit ==
    /\ todo = [t \in Threads |-> IF t = Main THEN <<>> ELSE Unborn]
    /\ depth = [t \in Threads |-> 0]
    /\ gmtx = None
    /\ realPt = None
    /\ slot = FALSE /\ inited = FALSE /\ state = FALSE /\ armed = FALSE
    /\ info = {}

ThreadStep(t) ==
    \/ Up(t) \/ Down(t) \/ Interpose(t) \/ LoadNext(t) \/ StoreNext(t) \/ ScheduleMemop(t)
    \/ LibcReturns(t) \/ LibcReenters(t) \/ Rpt(t) \/ RptSet(t)
    \/ RealLock(t) \/ RealUnlock(t) \/ RealCondWait(t) \/ RealOther(t)
    \/ Body(t) \/ BodyCalls(t) \/ RealCreate(t) \/ AddChild(t)
    \/ EnsureInit(t) \/ RschedInit(t) \/ NewState(t) \/ AddSelf(t) \/ Arm(t)
    \/ DropState(t) \/ SetInited(t)
    \/ UserCall(t) \/ RschedReinit(t) \/ UserReturns(t) \/ PthreadExit(t) \/ ThreadEnds(t)

ShimNext == \E t \in Threads : ThreadStep(t)

ShimSpec == ShimInit /\ [][ShimNext]_shimVars

\* The program's libraries, libc among them, were instrumented too.
InstrumentedNext == ShimNext \/ \E t \in Threads : AllocatorReenters(t)

InstrumentedSpec == ShimInit /\ [][InstrumentedNext]_shimVars

(***************************************************************************)
(* Properties.                                                             *)
(***************************************************************************)
Labels == {"up", "down", "enter", "next", "store", "hook", "libc", "rpt", "rptset",
           "lock", "unlock", "condwait", "other", "body", "create", "addchild",
           "ensure", "init", "newstate", "addself", "arm", "dropstate", "setinited",
           "destructors", "dead", "unborn"}

\* Where the scheduler calls functions that may enter the kernel: to wait, to wake, to
\* start or join a thread, to lock.  The allocator, which "body" and "newstate" use at
\* the caller's depth, is not among them: it may do so only when its own lock is
\* contended, by a thread that runs outside the schedule.
KernelEntries == {"rpt", "rptset", "lock", "unlock", "condwait", "other", "create"}

\* Types of the variables; no path lowers CALL_DEPTH, an unsigned word, below zero.
ShimTypeOK ==
    /\ todo \in [Threads -> Seq(Labels)]
    /\ depth \in [Threads -> Nat]
    /\ gmtx \in Threads \cup {None}
    /\ realPt \in Threads \cup {None, Ready}
    /\ {slot, inited, state, armed} \subseteq BOOLEAN
    /\ info \subseteq Threads

\* However libc, the dynamic linker and the scheduler call one another, no thread
\* asks for GMTX while it holds it or for REAL_PT while it initialises it: neither
\* lock is recursive, so the process would stop.  CALL_DEPTH is there to see to it.
NoSelfDeadlock ==
    \A t \in Threads :
        /\ At(t, "lock") => gmtx # t
        /\ At(t, "rpt") => realPt # t

\* Whoever reaches State finds it, with GMTX held and its own entry in it: neither
\* st() nor State::t panics.  rsched_init sets INITED before STATE exists and
\* rsched_reinit takes STATE away; a child registers with trampoline's first step.
CallersKnown ==
    \A t \in Threads : At(t, "body") => gmtx = t /\ Known(t)

\* The seccomp tripwire tells the scheduler's system calls from the program's by
\* CALL_DEPTH: once rsched is initialised a raw futex call in user code is fatal,
\* whichever calls were nested and left before, and a call from where the scheduler
\* may enter the kernel never is.  User code is at depth zero, so that its pthread
\* calls are scheduled.
TripwireSound ==
    \A t \in Threads :
        /\ InUser(t) => depth[t] = 0
        /\ InUser(t) /\ Seccomp /\ inited => FutexFate(t) = "fatal"
        /\ (\E l \in KernelEntries : At(t, l)) => FutexFate(t) # "fatal"

=============================================================================
