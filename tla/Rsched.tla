------------------------------- MODULE Rsched -------------------------------
(***************************************************************************)
(* The whole scheduler: the threads of RschedThreads calling the           *)
(* synchronisation functions of RschedSync in any order, and the           *)
(* properties that make the cooperative schedule correct.                  *)
(***************************************************************************)
EXTENDS RschedSync

vars == <<threadVars, syncVars>>

InitialPc == [t \in Threads |-> IF t = Main THEN "user" ELSE "unborn"]

\* A State in which only the main thread is registered.
FreshState ==
    /\ threads' = {Main}
    /\ is_blocking' = [t \in Threads |-> FALSE]
    /\ startup_done' = [t \in Threads |-> t = Main]
    /\ is_in_rsched_wait' = [t \in Threads |-> FALSE]
    /\ joiner' = [t \in Threads |-> None]
    /\ next_event' = [t \in Threads |-> "none"]
    /\ pending_child' = None
    /\ owner' = [m \in Mutexes |-> None]
    /\ count' = [m \in Mutexes |-> 0]
    /\ mwaiters' = [m \in Mutexes |-> {}]
    /\ cwaiters' = [c \in Conds |-> {}]
    /\ bcount' = [b \in Barriers |-> 0]
    /\ bwaiters' = [b \in Barriers |-> {}]

\* rsched_init by the main thread, before it has created any other.
Init ==
    /\ gmtx = None
    /\ pc = InitialPc
    /\ ret = [t \in Threads |-> "none"]
    /\ threads = {Main}
    /\ is_blocking = [t \in Threads |-> FALSE]
    /\ startup_done = [t \in Threads |-> t = Main]
    /\ is_in_rsched_wait = [t \in Threads |-> FALSE]
    /\ joiner = [t \in Threads |-> None]
    /\ next_event = [t \in Threads |-> "none"]
    /\ pending_child = None
    /\ start_arg = [t \in Threads |-> "free"]
    /\ draining = [t \in Threads |-> None]
    /\ mtx = [t \in Threads |-> None]
    /\ obj = [t \in Threads |-> None]
    /\ owner = [m \in Mutexes |-> None]
    /\ count = [m \in Mutexes |-> 0]
    /\ mwaiters = [m \in Mutexes |-> {}]
    /\ rowner = [m \in Mutexes |-> None]
    /\ rcount = [m \in Mutexes |-> 0]
    /\ cwaiters = [c \in Conds |-> {}]
    /\ bcount = [b \in Barriers |-> 0]
    /\ bwaiters = [b \in Barriers |-> {}]

\* rsched_reinit: "from the main thread only, after all previously-spawned
\* threads have been joined"; the caller holds no mutex.
Reinit ==
    /\ pc = InitialPc
    /\ gmtx = None
    /\ \A m \in Mutexes : rowner[m] = None
    /\ FreshState
    /\ UNCHANGED <<gmtx, pc, ret, start_arg, draining, args, real>>

\* The code a thread executes inside rsched, or is bound to reach.
Internal(t) ==
    \/ /\ \/ Return(t) \/ Resume(t) \/ ContextSwitch(t)
          \/ DrainPendingChild(t) \/ DrainResume(t)
          \/ CreateFails(t) \/ Trampoline(t) \/ TsanStartGate(t)
          \/ Die(t) \/ Join(t) \/ Joined(t) \/ RealJoin(t)
       /\ UNCHANGED syncVars
    \/ \E c \in Threads :
         /\ \A m \in Mutexes : owner[m] # c
         /\ Create(t, c)
         /\ UNCHANGED syncVars
    \/ MutexLock(t) \/ BlockUntilReleased(t) \/ RealLock(t)
    \/ Trylock(t) \/ Unlock(t) \/ CondWait(t)
    \/ BarrierInit(t) \/ BarrierWait(t)

\* What the program under test may do next, or stop doing.
UserCall(t) ==
    \/ /\ \/ SchedYield(t) \/ ScheduleMemop(t) \/ CallCreate(t) \/ ThreadExit(t)
          \/ \E x \in Threads : CallJoin(t, x)
       /\ UNCHANGED syncVars
    \/ \E m \in Mutexes : CallLock(t, m) \/ CallTrylock(t, m) \/ CallUnlock(t, m)
    \/ \E c \in Conds :
         \/ CondSignal(t, c) \/ CondBroadcast(t, c)
         \/ \E m \in Mutexes : CallCondWait(t, c, m)
    \/ \E b \in Barriers : CallBarrierInit(t, b) \/ CallBarrierWait(t, b)

Next == Reinit \/ \E t \in Threads : Internal(t) \/ UserCall(t)

Spec == Init /\ [][Next]_vars

\* The kernel runs every OS thread that can run; the program owes nothing.
FairSpec == Spec /\ \A t \in Threads : WF_vars(Internal(t))

(***************************************************************************)
(* Types.                                                                  *)
(***************************************************************************)
RunPcs == {"user", "drain", "drainwait", "switch", "woken", "create", "join", "joined",
           "realjoin", "clear", "gunlock", "lock", "relock", "reallock", "try",
           "unlock", "cwait", "binit", "bwait", "barwait"}
IdlePcs == {"unborn", "tramp", "gate", "wait", "teardown", "dead"}
RetLabels == {"none", "create", "join", "joined", "clear", "gunlock", "lock", "relock",
              "try", "cwait", "binit", "bwait", "barwait"}

\* Every piece of state has the type its Rust declaration gives it; in
\* particular a recursive_count never goes below zero.
TypeOK ==
    /\ gmtx \in Threads \cup {None}
    /\ pc \in [Threads -> RunPcs \cup IdlePcs]
    /\ ret \in [Threads -> RetLabels]
    /\ threads \subseteq Threads
    /\ is_blocking \in [Threads -> BOOLEAN]
    /\ startup_done \in [Threads -> BOOLEAN]
    /\ is_in_rsched_wait \in [Threads -> BOOLEAN]
    /\ joiner \in [Threads -> Threads \cup {None}]
    /\ next_event \in [Threads -> Events]
    /\ pending_child \in Threads \cup {None}
    /\ start_arg \in [Threads -> {"free", "alloc", "ready"}]
    /\ draining \in [Threads -> Threads \cup {None}]
    /\ mtx \in [Threads -> Mutexes \cup {None}]
    /\ obj \in [Threads -> Threads \cup Conds \cup Barriers \cup {None}]
    /\ owner \in [Mutexes -> Threads \cup {None}]
    /\ count \in [Mutexes -> Nat]
    /\ mwaiters \in [Mutexes -> SUBSET Threads]
    /\ rowner \in [Mutexes -> Threads \cup {None}]
    /\ rcount \in [Mutexes -> Nat]
    /\ cwaiters \in [Conds -> SUBSET Threads]
    /\ bcount \in [Barriers -> Nat]
    /\ bwaiters \in [Barriers -> SUBSET Threads]

(***************************************************************************)
(* The cooperative schedule.                                               *)
(***************************************************************************)
Running(t) == t \in threads /\ pc[t] \in RunPcs

\* Cooperative scheduling: of the registered threads at most one is executing,
\* be it user code or a scheduler function; all the others sit in a wait for
\* their turn (or have not reached it yet).  context_switch and do_thread_exit
\* keep it by waking one thread for the one that stops.
OneRunner == \A t, u \in threads : Running(t) /\ Running(u) => t = u

\* No lost wakeup: a thread that choose() may return to a caller about to make a
\* scheduling decision really waits on its suspend_cond, so the signal sent by
\* wake() or do_thread_exit() reaches it.
NoLostWakeup ==
    \A t \in threads : pc[t] \in {"switch", "user"} =>
        \A n \in Choosable(threads \ {t}, is_blocking, startup_done) : pc[n] = "wait"

\* A seed reproduces an interleaving only if what choose() draws from does not
\* depend on how fast the OS threads run.  At every decision the flag
\* is_in_rsched_wait, which a thread raises when it gets there, excludes nobody:
\* the threads to draw from follow from the calls made so far.  The deferred
\* start of a child (drain_pending_child) is what has to ensure it.
ReproducibleDecision ==
    \A t \in threads : pc[t] \in {"switch", "user"} =>
        Choosable(threads \ {t}, is_blocking, startup_done)
            = {n \in threads \ {t} : ~is_blocking[n] /\ startup_done[n]}

\* A thread inside the real pthread_join of a thread that has not exited.
AwaitsLiveThread(t) == pc[t] = "realjoin" /\ obj[t] \in threads

HasControl(t) == Running(t) /\ ~AwaitsLiveThread(t)

\* Control is never dropped: as long as some registered thread is not blocked on
\* a mutex, condition variable, barrier or join, some thread is executing.  All
\* hand-overs (context_switch, the raw waits after it, do_thread_exit, the
\* deferred start of a child) have to preserve it.
NoStrandedThread ==
    (\E t \in threads : ~is_blocking[t]) => \E t \in threads : HasControl(t)

(***************************************************************************)
(* Wait lists.                                                             *)
(***************************************************************************)
\* The wait lists, and the joiner fields of live threads, that hold t.
Places(t) ==
    {m \in Mutexes : t \in mwaiters[m]} \cup {c \in Conds : t \in cwaiters[c]}
      \cup {b \in Barriers : t \in bwaiters[b]} \cup {x \in threads : joiner[x] = t}

\* is_blocking of a registered thread says exactly that some other thread's
\* unlock, signal, barrier arrival or exit will find it in one wait list; it is
\* in no two of them, and in none while it runs user code.
BlockedIffRegisteredOnce ==
    \A t \in threads :
        /\ is_blocking[t] <=> Places(t) # {}
        /\ Cardinality(Places(t)) <= 1
        /\ pc[t] = "user" => Places(t) = {}

(***************************************************************************)
(* Mutexes: the virtual one against the real one.                          *)
(***************************************************************************)
\* Whoever holds the real mutex owns the virtual one, at least as deeply: the
\* scheduler never gives a mutex away that is still held.
RealImpliesVirtual ==
    \A m \in Mutexes :
        rowner[m] # None => owner[m] = rowner[m] /\ rcount[m] <= count[m]

\* rpt().mutex_lock is called with GMTX held, so it must never have to wait: a
\* block there would stop every thread of the program.
GmtxNeverStuck ==
    \A t \in Threads : pc[t] = "reallock" =>
        RealFree(t, mtx[t]) \/ RealRefuses(t, mtx[t])

\* "mutex_unlock will signal our suspend_cond after transferring ownership, so
\* this wait is always eventually resolved": a thread that waits for a mutex
\* and was made its owner can be chosen by a later scheduling decision.
HandedMutexWaiterRunnable ==
    \A m \in Mutexes : owner[m] # None /\ count[m] = 0 => owner[m] \in threads

\* The same comment, seen from the owner: a thread only waits for a mutex that
\* its owner really holds, or is about to take or release, and so can unlock.
WaitersHaveRealHolder ==
    \A m \in Mutexes : mwaiters[m] # {} =>
        rowner[m] = owner[m] \/ mtx[owner[m]] = m

(***************************************************************************)
(* Thread start-up.                                                        *)
(***************************************************************************)
\* A StartArg is freed by the thread that drains it, and only after the child's
\* trampoline has finished with it; every pending child still has one.
StartArgAlive ==
    /\ \A t \in Threads : pc[t] = "tramp" => start_arg[t] = "alloc"
    /\ pending_child # None => start_arg[pending_child] # "free"
    /\ \A t \in Threads : pc[t] = "drainwait" => start_arg[draining[t]] # "free"

(***************************************************************************)
(* Liveness.                                                               *)
(***************************************************************************)
\* Everybody waits: the program has deadlocked or all its threads have exited.
AtRest == \A t \in threads : is_blocking[t] /\ pc[t] \in {"wait", "realjoin"}

\* As long as a registered thread is not blocked, some thread gets back to user
\* code, unless its own calls block them all: no scheduler function loops, waits
\* for ever or forgets to pass control on.
ProgressToUser ==
    (\E t \in threads : ~is_blocking[t]) ~> (AtRest \/ \E t \in threads : pc[t] = "user")

\* GMTX is always given up again: no function waits for anything but a condition
\* variable while it holds the lock.
GmtxReleased == gmtx # None ~> gmtx = None

(***************************************************************************)
(* The strengthening that makes the properties above inductive (see        *)
(* RschedProofs).                                                          *)
(***************************************************************************)
\* A thread is inside a context_switch or wait, with a place to return to.
AwayPcs == {"drain", "drainwait", "switch", "wait", "woken"}

\* t executes, or will return to, code that belongs to the labels S.
At(t, S) == pc[t] \in S \/ ret[t] \in S

\* Return labels match the control state; arguments are there when the code that
\* uses them runs; registered threads, and only they, run the code that is for them.
ControlOK(t) ==
    /\ ret[t] # "none" <=> pc[t] \in AwayPcs
    /\ At(t, {"user", "create", "join", "joined", "realjoin"}) => t \in threads
    /\ pc[t] \in {"unborn", "teardown", "dead"} => t \notin threads
    /\ At(t, {"lock", "relock", "reallock", "try", "unlock", "cwait"}) => mtx[t] \in Mutexes
    /\ At(t, {"join", "joined", "realjoin"}) => obj[t] \in Threads
    /\ At(t, {"cwait"}) => obj[t] \in Conds
    /\ At(t, {"binit", "bwait"}) => obj[t] \in Barriers
    /\ pc[t] = "drainwait" => draining[t] \in Threads

ControlInv == \A t \in Threads : ControlOK(t)

\* The flag choose() looks at is only up inside a wait.
WaitFlagInv == \A t \in Threads : is_in_rsched_wait[t] => pc[t] \in {"wait", "woken"}

\* t is in, or about to return to, the loop of State::mutex_lock for m.
Locking(t, m) == At(t, {"lock", "relock"}) /\ mtx[t] = m

\* The state of a virtual mutex: none, held, or handed to a waiter that has yet
\* to notice; its waiters are threads inside mutex_lock other than the owner.
VirtualInv ==
    \A m \in Mutexes :
        /\ owner[m] = None => count[m] = 0 /\ mwaiters[m] = {}
        /\ owner[m] # None /\ count[m] = 0 => Locking(owner[m], m)
        /\ \A w \in mwaiters[m] : Locking(w, m) /\ w # owner[m]

\* The real mutex never runs ahead of the virtual one, and is one lock behind it
\* where the owner is about to lock it.
RealInv ==
    /\ \A m \in Mutexes :
        /\ rowner[m] = None <=> rcount[m] = 0
        /\ rowner[m] # None => owner[m] = rowner[m]
        /\ rcount[m] <= count[m]
    /\ \A t \in Threads : pc[t] = "reallock" =>
        owner[mtx[t]] = t /\ rcount[mtx[t]] < count[mtx[t]]

\* A normal mutex is never acquired twice by its owner.
NormalInv ==
    \A m \in Mutexes : Kind[m] = "normal" =>
        /\ count[m] <= 1
        /\ owner[m] # None /\ Locking(owner[m], m) => count[m] = 0

IndInv ==
    /\ TypeOK /\ ControlInv /\ OneRunner /\ WaitFlagInv
    /\ VirtualInv /\ RealInv /\ NormalInv

=============================================================================
