-------------------------- MODULE RschedInvariants --------------------------
(***************************************************************************)
(* The strengthenings that make the remaining properties of Rsched         *)
(* inductive, on top of IndInv.  Each names the build or program options   *)
(* it holds under; the proofs are in the modules Rsched*Proofs.            *)
(***************************************************************************)
EXTENDS Rsched

(***************************************************************************)
(* Thread start-up (every option).                                         *)
(***************************************************************************)
\* c is between pthread_create and the drain of its StartArg: it cannot have
\* had a turn yet.
Starting(c) ==
    /\ pc[c] \in {"tramp", "gate", "wait"}
    /\ ~startup_done[c]
    /\ start_arg[c] # "free"

\* c's StartArg is in the pending slot, or a drain waits for it.
Drains(u, c) == pc[u] = "drainwait" /\ draining[u] = c

\* A StartArg that is still needed has one keeper, which will free it.
StartInv ==
    /\ \A c \in Threads : pc[c] = "tramp" => start_arg[c] = "alloc" /\ ~startup_done[c]
    /\ pending_child # None => Starting(pending_child)
    /\ \A u, c \in Threads : Drains(u, c) => Starting(c) /\ c # pending_child
    /\ \A u, v, c \in Threads : Drains(u, c) /\ Drains(v, c) => u = v

\* The code after a direct drain; a child is created with an empty pending slot.
CreateInv ==
    \A t \in Threads :
        /\ ret[t] \in DirectDrain => pc[t] \in {"drain", "drainwait"}
        /\ At(t, {"create"}) /\ pc[t] # "drain" => pending_child = None

\* No StartArg leaks, and no registered thread is left ineligible for ever.
KeptInv ==
    \A c \in Threads :
        start_arg[c] # "free" \/ (c \in threads /\ ~startup_done[c]) =>
            pending_child = c \/ \E u \in Threads : Drains(u, c)

\* A thread in a wait is shown to choose() as waiting.
FlagInv == \A t \in Threads : pc[t] \in {"wait", "woken"} => is_in_rsched_wait[t]

\* Only the TSAN build lets a child run on to a second start-up point.
GateInv == \A t \in Threads : pc[t] = "gate" => TSan

(***************************************************************************)
(* Mutexes that are not error-checking: the two counts agree.              *)
(***************************************************************************)
Acquiring(t, m) == pc[t] = "reallock" /\ mtx[t] = m

CountInv ==
    \A m \in Mutexes : Kind[m] # "errorcheck" /\ owner[m] # None =>
        count[m] = IF Acquiring(owner[m], m) THEN rcount[m] + 1 ELSE rcount[m]

(***************************************************************************)
(* Blocking (no calls from thread-local destructors).                      *)
(***************************************************************************)
\* Exactly the registered threads run the program or the scheduler.
LiveInv == \A t \in Threads : t \in threads <=> pc[t] \notin {"unborn", "teardown", "dead"}

\* Where a thread can be while it is blocked, and where the context_switch it
\* is in returns to: the code that waits until somebody has released it.
BlockedPcs == {"drain", "drainwait", "switch", "wait", "relock", "barwait", "joined", "realjoin"}
BlockedRets == {"relock", "barwait", "joined"}

Blocked(t) == t \in threads /\ is_blocking[t]

\* The wait lists t can be in.
InMutex(t, m) == t \in mwaiters[m]
InCond(t, c) == t \in cwaiters[c]
InBarrier(t, b) == t \in bwaiters[b]
Joins(t, x) == x \in threads /\ joiner[x] = t

Registered(t) ==
    \/ \E m \in Mutexes : InMutex(t, m)
    \/ \E c \in Conds : InCond(t, c)
    \/ \E b \in Barriers : InBarrier(t, b)
    \/ \E x \in Threads : Joins(t, x)

\* t is blocked exactly when it is in a list, and then it is inside the operation
\* that the list belongs to.  mutex_lock and the second half of cond_wait are the
\* same code, so that a thread is never in both lists has to be said.
BlockedOK(t) ==
    /\ Blocked(t) <=> Registered(t)
    /\ Blocked(t) => pc[t] \in BlockedPcs
    /\ Blocked(t) /\ pc[t] \in {"drain", "drainwait", "switch"} => ret[t] \in BlockedRets
    /\ \A m \in Mutexes : InMutex(t, m) => Locking(t, m)
    /\ \A c \in Conds : InCond(t, c) => obj[t] = c /\ At(t, {"lock", "relock"})
    /\ \A b \in Barriers : InBarrier(t, b) => obj[t] = b /\ At(t, {"barwait", "gunlock"})
    /\ \A x \in Threads : Joins(t, x) => obj[t] = x /\ At(t, {"joined", "realjoin"})
    /\ \A m \in Mutexes, c \in Conds : ~(InMutex(t, m) /\ InCond(t, c))

BlockInv == \A t \in Threads : BlockedOK(t)

\* One thread joins another; its target is not reused before it is reaped.
JoinInv ==
    /\ \A t, u \in Threads : obj[t] \in Threads /\ obj[t] = obj[u] => t = u
    /\ \A t \in Threads : At(t, {"join", "joined", "realjoin"}) => pc[obj[t]] # "unborn"
    /\ \A t \in Threads : At(t, {"joined", "realjoin"}) /\ obj[t] \in threads =>
         joiner[obj[t]] = t

(***************************************************************************)
(* Barriers (every option).                                                *)
(***************************************************************************)
\* A barrier is initialised once, and fewer threads wait at it than it has room for.
BarrierInv ==
    /\ \A t \in Threads : At(t, {"binit"}) =>
         bcount[obj[t]] = 0 /\ \A u \in Threads : obj[u] = obj[t] /\ At(u, {"binit"}) => u = t
    /\ \A b \in Barriers :
         /\ IsFiniteSet(bwaiters[b])
         /\ bwaiters[b] # {} => Cardinality(bwaiters[b]) < bcount[b]

(***************************************************************************)
(* Control (none of the three options).                                    *)
(***************************************************************************)
DrainedInv ==
    \A t \in Threads : pc[t] \in {"drainwait", "switch"} => pending_child = None

AllBlocked == \A t \in threads : is_blocking[t]

\* A blocked thread that context_switch returned to has nobody to hand over to.
RestInv ==
    \A t \in threads :
        is_blocking[t] /\ pc[t] \in {"relock", "barwait", "joined", "realjoin"} => AllBlocked

=============================================================================
