--------------------------- MODULE PthreadObjects ---------------------------
(***************************************************************************)
(* What a program may expect of mutexes, condition variables and barriers, *)
(* whoever implements them: a call that acquires a mutex returns with it,  *)
(* a wait on a condition variable releases its mutex and enters the wait   *)
(* set in one step and returns only after a signal and with the mutex      *)
(* again, a signal releases exactly one waiter if there is one and a       *)
(* broadcast all of them, and a barrier releases a full round at once.     *)
(*                                                                         *)
(* This is an abstract specification with no counterpart in the code;      *)
(* RschedRefinement shows that the virtual objects of Rsched implement it. *)
(***************************************************************************)
EXTENDS Integers, FiniteSets

CONSTANTS Threads, Main, None, Mutexes, Conds, Barriers

VARIABLES
    out,     \* threads in user code
    owes,    \* the mutex a thread has to acquire before it returns, or None
    holder, depth,  \* of every mutex
    cwait,   \* threads that wait on a condition variable
    bwait,   \* threads that wait at a barrier
    bsize    \* its size, 0 before it is initialised

mutexes == <<holder, depth>>
barriers == <<bwait, bsize>>
objVars == <<out, owes, mutexes, cwait, barriers>>

Init ==
    /\ out = {Main}
    /\ owes = [t \in Threads |-> None]
    /\ holder = [m \in Mutexes |-> None]
    /\ depth = [m \in Mutexes |-> 0]
    /\ cwait = [c \in Conds |-> {}]
    /\ bwait = [b \in Barriers |-> {}]
    /\ bsize = [b \in Barriers |-> 0]

Waiting(t) == (\E c \in Conds : t \in cwait[c]) \/ (\E b \in Barriers : t \in bwait[b])

\* A thread that executes some function of the library.
Inside(t) == t \notin out /\ ~Waiting(t)

\* A call: of pthread_mutex_lock, which owes its mutex, or of another function
\* other than signal and broadcast.
Begin(t) ==
    /\ t \in out
    /\ out' = out \ {t}
    /\ \E m \in Mutexes \cup {None} : owes' = [owes EXCEPT ![t] = m]
    /\ UNCHANGED <<mutexes, cwait, barriers>>

\* pthread_mutex_trylock found the mutex available and will take it.
Decide(t, m) ==
    /\ Inside(t)
    /\ owes[t] = None
    /\ owes' = [owes EXCEPT ![t] = m]
    /\ UNCHANGED <<out, mutexes, cwait, barriers>>

Lock(t, m) ==
    /\ Inside(t)
    /\ owes[t] = m
    /\ holder[m] \in {None, t}
    /\ holder' = [holder EXCEPT ![m] = t]
    /\ depth' = [depth EXCEPT ![m] = @ + 1]
    /\ owes' = [owes EXCEPT ![t] = None]
    /\ UNCHANGED <<out, cwait, barriers>>

Release(t, m) ==
    /\ holder[m] = t
    /\ depth' = [depth EXCEPT ![m] = @ - 1]
    /\ holder' = [holder EXCEPT ![m] = IF depth[m] = 1 THEN None ELSE t]

Unlock(t, m) ==
    /\ Inside(t)
    /\ owes[t] = None
    /\ Release(t, m)
    /\ UNCHANGED <<out, owes, cwait, barriers>>

CondWait(t, c, m) ==
    /\ Inside(t)
    /\ owes[t] = None
    /\ Release(t, m)
    /\ cwait' = [cwait EXCEPT ![c] = @ \cup {t}]
    /\ owes' = [owes EXCEPT ![t] = m]
    /\ UNCHANGED <<out, barriers>>

\* t calls a function that ends the wait of the threads W on c.
Notify(t, c, W) ==
    /\ t \in out
    /\ out' = out \ {t}
    /\ cwait' = [cwait EXCEPT ![c] = @ \ W]
    /\ UNCHANGED <<owes, mutexes, barriers>>

\* A signal releases one waiter, and nobody only when nobody waits.
Signal(t, c) ==
    \/ \E w \in cwait[c] : Notify(t, c, {w})
    \/ cwait[c] = {} /\ Notify(t, c, {})

\* A broadcast releases all of them.
Broadcast(t, c) == Notify(t, c, cwait[c])

BarrierInit(t, b) ==
    /\ Inside(t)
    /\ bsize[b] = 0
    /\ bsize'[b] \in Nat
    /\ bsize' = [bsize EXCEPT ![b] = bsize'[b]]
    /\ UNCHANGED <<out, owes, mutexes, cwait, bwait>>

Arrive(t, b) ==
    /\ Inside(t)
    /\ owes[t] = None
    /\ bwait' = [bwait EXCEPT ![b] =
                    IF Cardinality(@) + 1 = bsize[b] THEN {} ELSE @ \cup {t}]
    /\ UNCHANGED <<out, owes, mutexes, cwait, bsize>>

\* Back to user code: nothing is owed and no wait is pending.
Return(t) ==
    /\ Inside(t)
    /\ owes[t] = None
    /\ out' = out \cup {t}
    /\ UNCHANGED <<owes, mutexes, cwait, barriers>>

\* All objects are forgotten, between two runs of the program in one process.
Reset ==
    /\ out = {Main}
    /\ holder' = [m \in Mutexes |-> None]
    /\ depth' = [m \in Mutexes |-> 0]
    /\ cwait' = [c \in Conds |-> {}]
    /\ bwait' = [b \in Barriers |-> {}]
    /\ bsize' = [b \in Barriers |-> 0]
    /\ UNCHANGED <<out, owes>>

Next ==
    \/ Reset
    \/ \E t \in Threads :
         \/ Begin(t) \/ Return(t)
         \/ \E m \in Mutexes :
              \/ Decide(t, m) \/ Lock(t, m) \/ Unlock(t, m)
              \/ \E c \in Conds : CondWait(t, c, m)
         \/ \E c \in Conds : Signal(t, c) \/ Broadcast(t, c)
         \/ \E b \in Barriers : BarrierInit(t, b) \/ Arrive(t, b)

Spec == Init /\ [][Next]_objVars

=============================================================================
