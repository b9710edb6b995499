----------------------------- MODULE RschedSync -----------------------------
(***************************************************************************)
(* The synchronisation objects of rsched (rsched/src/lib.rs): the virtual  *)
(* mutexes, condition variables and barriers of `State`, and the functions *)
(* rsched_pthread_mutex_* / cond_* / barrier_* that operate on them.       *)
(*                                                                         *)
(* A user mutex exists twice: as an SMutex of the scheduler (owner, count, *)
(* mwaiters) and as the real pthread mutex (rowner, rcount), which is      *)
(* locked and unlocked with GMTX held.  A waiter list is a set: the waiter *)
(* is drawn at random by the code, nondeterministically here, and both     *)
(* push sites leave no duplicates.                                         *)
(***************************************************************************)
EXTENDS RschedThreads, Integers, FiniteSets

CONSTANTS
    Mutexes, Conds, Barriers,
    Kind,            \* type attribute of every mutex
    RecursiveNoted,  \* State::recursive_mutexes
    MaxDepth,        \* bound on nested acquisitions of one mutex
    BarrierCounts    \* counts passed to pthread_barrier_init

Kinds == {"normal", "recursive", "errorcheck"}

ASSUME SyncAssumption ==
    /\ Threads \cap (Mutexes \cup Conds \cup Barriers) = {}
    /\ Mutexes \cap Conds = {} /\ Mutexes \cap Barriers = {} /\ Conds \cap Barriers = {}
    /\ None \notin Mutexes \cup Conds \cup Barriers
    /\ Kind \in [Mutexes -> Kinds]
    /\ RecursiveNoted \subseteq {m \in Mutexes : Kind[m] = "recursive"}
    /\ MaxDepth \in Nat
    /\ BarrierCounts \subseteq Nat

VARIABLES
    owner,     \* SMutex::owner_tid, None when there is no entry
    count,     \* SMutex::recursive_count
    mwaiters,  \* SMutex::waiters
    rowner,    \* holder of the real mutex
    rcount,    \* its lock depth
    cwaiters,  \* SCond::waiters
    bcount,    \* SBarrier::count, 0 before pthread_barrier_init
    bwaiters   \* SBarrier::waiters

virtual == <<owner, count, mwaiters>>
real == <<rowner, rcount>>
mutexVars == <<virtual, real>>
barrierVars == <<bcount, bwaiters>>
syncVars == <<mutexVars, cwaiters, barrierVars>>

\* Thread state that no operation of this module writes itself.
lifeVars == <<threads, startup_done, joiner, child>>

(***************************************************************************)
(* rsched_pthread_mutex_lock and State::mutex_lock.                        *)
(***************************************************************************)
\* A mutant: contention goes unnoticed.
WillNeverBlock(t, m) == FALSE

WillBlock(t, m) == owner[m] \notin {None, t}

\* What the caller may ask for: no self-deadlock on a normal mutex, and a
\* bounded nesting depth.
MayLock(t, m) ==
    owner[m] = t => Kind[m] # "normal" /\ count[m] < MaxDepth

\* Entry of a mutex operation: glock, set_event, remember the argument.
EnterMutexOp(t, m, ev) ==
    /\ MayCall(t)
    /\ Glock(t)
    /\ next_event' = [next_event EXCEPT ![t] = ev]
    /\ mtx' = [mtx EXCEPT ![t] = m]
    /\ UNCHANGED <<lifeVars, is_blocking, is_in_rsched_wait, obj, syncVars>>

\* A contended lock skips the scheduling point: mutex_lock has one of its own.
CallLock(t, m) ==
    /\ MayLock(t, m)
    /\ EnterMutexOp(t, m, "LockAcq")
    /\ IF WillBlock(t, m) THEN Goto(t, "lock") /\ UNCHANGED ret
                          ELSE CallContextSwitch(t, "lock")

\* One turn of the loop of State::mutex_lock.
MutexLock(t) ==
    /\ pc[t] = "lock"
    /\ LET m == mtx[t] IN
       \/ /\ ~WillBlock(t, m)
          /\ owner' = [owner EXCEPT ![m] = t]
          /\ count' = [count EXCEPT ![m] = @ + 1]
          /\ Goto(t, "reallock")
          /\ UNCHANGED <<ret, is_blocking, mwaiters>>
       \/ /\ WillBlock(t, m)
          /\ mwaiters' = [mwaiters EXCEPT ![m] = @ \cup {t}]
          /\ is_blocking' = [is_blocking EXCEPT ![t] = TRUE]
          /\ CallContextSwitch(t, "relock")
          /\ UNCHANGED <<owner, count>>
    /\ UNCHANGED <<gmtx, lifeVars, is_in_rsched_wait, next_event, args,
                   real, cwaiters, barrierVars>>

\* The code after the context_switch of a blocking operation.
AfterBlocking(l) == IF l = "relock" THEN "lock" ELSE "gunlock"

\* A thread that context_switch returned to without suspending it, and that is
\* still blocked, waits on its suspend_cond here.
BlockUntilReleased(t) ==
    /\ pc[t] \in {"relock", "barwait"}
    /\ \/ /\ is_blocking[t]
          /\ ret' = [ret EXCEPT ![t] = AfterBlocking(pc[t])]
          /\ Suspend(t, pc)
       \/ /\ ~is_blocking[t]
          /\ Goto(t, AfterBlocking(pc[t]))
          /\ UNCHANGED <<ret, gmtx, is_in_rsched_wait>>
    /\ UNCHANGED <<lifeVars, is_blocking, next_event, args, syncVars>>

(***************************************************************************)
(* The real mutex, by its type attribute.                                  *)
(***************************************************************************)
RealFree(t, m) == rowner[m] = None \/ (rowner[m] = t /\ Kind[m] = "recursive")

\* EDEADLK: an error-checking mutex relocked by its owner is left as it is.
RealRefuses(t, m) == rowner[m] = t /\ Kind[m] = "errorcheck"

\* rpt().mutex_lock, called with GMTX held.  When the mutex is neither free nor
\* refused the call blocks, and GMTX with it: the action is disabled.
RealLock(t) ==
    /\ pc[t] = "reallock"
    /\ LET m == mtx[t] IN
       \/ /\ RealFree(t, m)
          /\ rowner' = [rowner EXCEPT ![m] = t]
          /\ rcount' = [rcount EXCEPT ![m] = @ + 1]
       \/ /\ RealRefuses(t, m)
          /\ UNCHANGED real
    /\ Goto(t, IF obj[t] \in Conds THEN "gunlock" ELSE "clear")
    /\ UNCHANGED <<gmtx, ret, lifeVars, is_blocking, is_in_rsched_wait, next_event,
                   args, virtual, cwaiters, barrierVars>>

RealUnlock(m) ==
    /\ rcount' = [rcount EXCEPT ![m] = @ - 1]
    /\ rowner' = [rowner EXCEPT ![m] = IF rcount[m] = 1 THEN None ELSE @]

(***************************************************************************)
(* rsched_pthread_mutex_trylock.                                           *)
(***************************************************************************)
CallTrylock(t, m) ==
    /\ owner[m] = t => count[m] < MaxDepth
    /\ EnterMutexOp(t, m, "LockAcq")
    /\ CallContextSwitch(t, "try")

\* The owner may re-enter a mutex known to be recursive; EBUSY otherwise.
Trylock(t) ==
    /\ pc[t] = "try"
    /\ LET m    == mtx[t]
           busy == WillBlock(t, m) \/ (owner[m] = t /\ m \notin RecursiveNoted)
       IN  Goto(t, IF busy THEN "clear" ELSE "lock")
    /\ UNCHANGED <<gmtx, ret, lifeVars, is_blocking, is_in_rsched_wait, next_event,
                   args, syncVars>>

(***************************************************************************)
(* rsched_pthread_mutex_unlock and State::mutex_unlock.                    *)
(***************************************************************************)
CallUnlock(t, m) ==
    /\ EnterMutexOp(t, m, "LockRel")
    /\ Goto(t, "unlock")
    /\ UNCHANGED ret

\* Mutants: no ownership check, an entry that outlives its last release, a
\* release that leaves the waiters blocked.
AnyoneMayUnlock(t, m) == TRUE
HeirsOrSelf(m) == IF mwaiters[m] = {} THEN {owner[m]} ELSE mwaiters[m]
ReleasedNone(B, W) == B
LastReleaseLate(m) == count[m] = 0

\* EINVAL without an entry, EPERM for another thread's mutex.
MayUnlock(t, m) == owner[m] = t

LastRelease(m) == count[m] = 1

\* Who owns the mutex next: one of the waiters, or nobody.
Heirs(m) == IF mwaiters[m] = {} THEN {None} ELSE mwaiters[m]

\* `is_blocking = false` for the threads W.
Released(B, W) == [u \in Threads |-> B[u] /\ u \notin W]

\* State::mutex_unlock by the owner: the last release drops the entry or hands
\* it, with a zero count, to a waiter that thereby becomes runnable.  B is
\* is_blocking with the caller's own update applied.
MutexUnlock(m, B) ==
    \/ /\ ~LastRelease(m)
       /\ count' = [count EXCEPT ![m] = @ - 1]
       /\ is_blocking' = B
       /\ UNCHANGED <<owner, mwaiters>>
    \/ /\ LastRelease(m)
       /\ count' = [count EXCEPT ![m] = 0]
       /\ \E w \in Heirs(m) :
            /\ owner' = [owner EXCEPT ![m] = w]
            /\ mwaiters' = [mwaiters EXCEPT ![m] = @ \ {w}]
            /\ is_blocking' = Released(B, {w})

\* An unlock by a thread that is not the owner still reaches the scheduling
\* point; one whose real unlock fails does not.
Unlock(t) ==
    /\ pc[t] = "unlock"
    /\ LET m == mtx[t] IN
       \/ /\ ~MayUnlock(t, m)
          /\ CallContextSwitch(t, "clear")
          /\ UNCHANGED <<is_blocking, mutexVars>>
       \/ /\ MayUnlock(t, m)
          /\ rowner[m] = t
          /\ MutexUnlock(m, is_blocking)
          /\ RealUnlock(m)
          /\ CallContextSwitch(t, "clear")
       \/ /\ MayUnlock(t, m)
          /\ rowner[m] # t
          /\ MutexUnlock(m, is_blocking)
          /\ Goto(t, "clear")
          /\ UNCHANGED <<ret, real>>
    /\ UNCHANGED <<gmtx, lifeVars, is_in_rsched_wait, next_event, args,
                   cwaiters, barrierVars>>

(***************************************************************************)
(* Condition variables.                                                    *)
(***************************************************************************)
CallCondWait(t, c, m) ==
    /\ pc[t] = "user"
    /\ Glock(t)
    /\ obj' = [obj EXCEPT ![t] = c]
    /\ mtx' = [mtx EXCEPT ![t] = m]
    /\ IF WillBlock(t, m) THEN Goto(t, "cwait") /\ UNCHANGED ret
                          ELSE CallContextSwitch(t, "cwait")
    /\ UNCHANGED <<lifeVars, is_blocking, is_in_rsched_wait, next_event, syncVars>>

\* Release the mutex and block on the condition variable in one step under
\* GMTX; the wait ends at "relock", from where the mutex is taken again.
CondWait(t) ==
    /\ pc[t] = "cwait"
    /\ LET m == mtx[t] IN
       \/ /\ ~MayUnlock(t, m)
          /\ Goto(t, "gunlock")
          /\ UNCHANGED <<ret, is_blocking, mutexVars, cwaiters>>
       \/ /\ MayUnlock(t, m)
          /\ rowner[m] # t
          /\ MutexUnlock(m, is_blocking)
          /\ Goto(t, "gunlock")
          /\ UNCHANGED <<ret, real, cwaiters>>
       \/ /\ MayUnlock(t, m)
          /\ rowner[m] = t
          /\ MutexUnlock(m, [is_blocking EXCEPT ![t] = TRUE])
          /\ RealUnlock(m)
          /\ cwaiters' = [cwaiters EXCEPT ![obj[t]] = @ \cup {t}]
          /\ CallContextSwitch(t, "relock")
    /\ UNCHANGED <<gmtx, lifeVars, is_in_rsched_wait, next_event, args, barrierVars>>

\* Release the threads W that wait on c, then a scheduling point.
ReleaseCondWaiters(t, c, W) ==
    /\ pc[t] = "user"
    /\ Glock(t)
    /\ cwaiters' = [cwaiters EXCEPT ![c] = @ \ W]
    /\ is_blocking' = Released(is_blocking, W)
    /\ CallContextSwitch(t, "gunlock")
    /\ UNCHANGED <<lifeVars, is_in_rsched_wait, next_event, args, mutexVars, barrierVars>>

\* A mutant: a signal drains the wait list as a broadcast does.
CondSignalToAll(t, c) == ReleaseCondWaiters(t, c, cwaiters[c])

CondSignal(t, c) ==
    IF cwaiters[c] = {} THEN ReleaseCondWaiters(t, c, {})
    ELSE \E w \in cwaiters[c] : ReleaseCondWaiters(t, c, {w})

CondBroadcast(t, c) == ReleaseCondWaiters(t, c, cwaiters[c])

(***************************************************************************)
(* Barriers.                                                               *)
(***************************************************************************)
EnterBarrierOp(t, b) ==
    /\ pc[t] = "user"
    /\ Glock(t)
    /\ obj' = [obj EXCEPT ![t] = b]
    /\ UNCHANGED <<lifeVars, is_blocking, is_in_rsched_wait, next_event, mtx, syncVars>>

\* A barrier is initialised once, by one thread.
CallBarrierInit(t, b) ==
    /\ bcount[b] = 0
    /\ \A u \in Threads : obj[u] # b
    /\ EnterBarrierOp(t, b)
    /\ CallContextSwitch(t, "binit")

\* The real pthread_barrier_init refuses a count of 0 (EINVAL).
BarrierInit(t) ==
    /\ pc[t] = "binit"
    /\ \E n \in BarrierCounts : bcount' = [bcount EXCEPT ![obj[t]] = n]
    /\ Goto(t, "gunlock")
    /\ UNCHANGED <<gmtx, ret, lifeVars, is_blocking, is_in_rsched_wait, next_event,
                   args, mutexVars, cwaiters, bwaiters>>

CallBarrierWait(t, b) ==
    /\ EnterBarrierOp(t, b)
    /\ CallDrain(t, "bwait")

Full(b, arrived) == Cardinality(arrived) >= bcount[b]

\* The caller registers; the bcount-th arrival releases everybody.
BarrierWait(t) ==
    /\ pc[t] = "bwait"
    /\ LET b       == obj[t]
           arrived == bwaiters[b] \cup {t}
       IN  \/ /\ bcount[b] = 0
              /\ Goto(t, "gunlock")
              /\ UNCHANGED <<ret, is_blocking, bwaiters>>
           \/ /\ bcount[b] # 0
              /\ ~Full(b, arrived)
              /\ bwaiters' = [bwaiters EXCEPT ![b] = arrived]
              /\ is_blocking' = [is_blocking EXCEPT ![t] = TRUE]
              /\ CallContextSwitch(t, "barwait")
           \/ /\ bcount[b] # 0
              /\ Full(b, arrived)
              /\ bwaiters' = [bwaiters EXCEPT ![b] = {}]
              /\ is_blocking' = Released(is_blocking, arrived)
              /\ CallContextSwitch(t, "barwait")
    /\ UNCHANGED <<gmtx, lifeVars, is_in_rsched_wait, next_event, args,
                   mutexVars, cwaiters, bcount>>

=============================================================================
