-------------------------- MODULE RschedRefinement --------------------------
(***************************************************************************)
(* Rsched implements two abstract specifications: CoopScheduler, about who *)
(* executes, and PthreadObjects, about the mutexes, condition variables    *)
(* and barriers the program sees.                                          *)
(***************************************************************************)
EXTENDS Rsched

\* is_blocking is the scheduler's own record of who waits for another thread.
\* The turn is lost inside the real join of a thread that has not exited.
Coop == INSTANCE CoopScheduler WITH
    live    <- threads,
    blocked <- {t \in threads : is_blocking[t]},
    turn    <- {t \in threads : HasControl(t)}

\* The scheduler is a cooperative scheduler: one thread has the turn, every
\* context_switch, second wait and do_thread_exit hands it to one thread that is
\* not blocked, and it lapses only when all registered threads are blocked.
ImplementsCoop == Coop!Spec

\* A mutex whose entry was handed to a waiter that has yet to run is free.
Holder(m) == IF count[m] > 0 THEN owner[m] ELSE None

\* The mutex that t acquires before its call returns.
Owes(t) == IF At(t, {"lock", "relock"}) THEN mtx[t] ELSE None

Pthreads == INSTANCE PthreadObjects WITH
    out    <- {t \in threads : pc[t] = "user"},
    owes   <- [t \in Threads |-> Owes(t)],
    holder <- [m \in Mutexes |-> Holder(m)],
    depth  <- count,
    cwait  <- cwaiters,
    bwait  <- bwaiters,
    bsize  <- bcount

\* The abstract state does not say which function a thread is in, so that a step of
\* Pthreads!Begin could stand for a signal that reaches nobody.  What the program
\* calls pthread_cond_signal is a signal, and likewise for broadcast.
NotifiesAsCalled ==
    \A t \in Threads, c \in Conds :
        /\ CondSignal(t, c) => Pthreads!Signal(t, c)
        /\ CondBroadcast(t, c) => Pthreads!Broadcast(t, c)

\* The virtual objects are pthread objects: pthread_mutex_lock and a successful
\* trylock return with the mutex, pthread_cond_wait releases it and registers
\* in one step, returns only when signalled and with the mutex again,
\* pthread_cond_signal releases exactly one waiter unless there is none,
\* pthread_cond_broadcast all of them, and a barrier a full round at once.
ImplementsPthreads == Pthreads!Spec /\ [][NotifiesAsCalled]_vars

=============================================================================
