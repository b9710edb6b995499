---------------------------- MODULE CoopScheduler ----------------------------
(***************************************************************************)
(* What rsched promises about control: a cooperative scheduler in which    *)
(* one live thread has the turn, gives it up only to a thread that is not  *)
(* blocked, and lets it lapse only when every live thread is blocked.      *)
(*                                                                         *)
(* This is an abstract specification with no counterpart in the code;      *)
(* RschedRefinement shows that Rsched implements it.                       *)
(***************************************************************************)
CONSTANTS Threads, Main

VARIABLES
    live,     \* threads that have been created and have not exited
    blocked,  \* those that wait for an event of another thread
    turn      \* the thread that executes: a set of at most one

coopVars == <<live, blocked, turn>>

Init ==
    /\ live = {Main}
    /\ blocked = {}
    /\ turn = {Main}

Ready == live \ blocked

\* The thread with the turn unblocks other threads, or blocks itself, or both.
Act(t) ==
    /\ turn = {t}
    /\ t \notin blocked
    /\ blocked' \subseteq blocked \cup {t}
    /\ UNCHANGED <<live, turn>>

\* A scheduling decision.
Pass(t, n) ==
    /\ turn = {t}
    /\ n \in Ready
    /\ turn' = {n}
    /\ UNCHANGED <<live, blocked>>

\* Everybody is blocked: the program has deadlocked.
Rest(t) ==
    /\ turn = {t}
    /\ Ready = {}
    /\ turn' = {}
    /\ UNCHANGED <<live, blocked>>

Spawn(t, c) ==
    /\ turn = {t}
    /\ c \notin live
    /\ live' = live \cup {c}
    /\ UNCHANGED <<blocked, turn>>

\* An exit unblocks the joiner, if any, and is a scheduling decision.
Exit(t) ==
    /\ turn = {t}
    /\ t \notin blocked
    /\ live' = live \ {t}
    /\ blocked' \subseteq blocked
    /\ IF live' \subseteq blocked' THEN turn' = {}
                                  ELSE \E n \in live' \ blocked' : turn' = {n}

Next ==
    \E t \in Threads :
        \/ Act(t) \/ Rest(t) \/ Exit(t)
        \/ \E u \in Threads : Pass(t, u) \/ Spawn(t, u)

Spec == Init /\ [][Next]_coopVars

=============================================================================
