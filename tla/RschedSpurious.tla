--------------------------- MODULE RschedSpurious ---------------------------
(***************************************************************************)
(* Rsched on a pthread library that uses its licence to return from        *)
(* pthread_cond_wait without a signal.                                     *)
(***************************************************************************)
EXTENDS RschedRefinement

\* pthread_cond_wait on t's suspend_cond returns of itself.  None of the waits
\* (wake, mutex_lock, cond_wait, barrier_wait, trampoline, the TSAN gate) is in a
\* loop that would notice; the wait for ready_cond is.
SpuriousWakeup(t) ==
    /\ pc[t] = "wait"
    /\ Goto(t, "woken")
    /\ UNCHANGED <<gmtx, ret, threads, flags, joiner, next_event, child, args, syncVars>>

SpuriousNext == Next \/ \E t \in Threads : SpuriousWakeup(t)

SpuriousSpec == Init /\ [][SpuriousNext]_vars

=============================================================================
