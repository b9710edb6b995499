-------------------------- MODULE RschedTurnProofs --------------------------
(***************************************************************************)
(* Control is never dropped: Rsched implements CoopScheduler.  Three       *)
(* options of the model have to be off, because the code strands a thread  *)
(* when one is on: a child that has not reached its start gate, a child    *)
(* that nobody drains, a waiter released by a thread that has exited and   *)
(* so makes no scheduling decision.                                        *)
(***************************************************************************)
EXTENDS RschedBlockingProofs, RschedRefinement

USE DEF vars, threadVars, flags, args, child, lifeVars,
        syncVars, mutexVars, virtual, real, barrierVars

\* The build without the TSAN gate, running a program whose threads reach a
\* scheduling point after pthread_create and whose destructors make no calls.
NoOptions == TSan = FALSE /\ ExitAfterCreate = FALSE /\ TeardownCalls = FALSE

TurnInv == StartupInv /\ BlockingInv /\ DrainedInv /\ RestInv

RestPcs == {"relock", "barwait", "joined", "realjoin"}

(***************************************************************************)
(* Who can act, and what becomes of its turn.                              *)
(***************************************************************************)
\* t executes before and after the step and stays registered; it makes no
\* scheduling decision.
TurnQuiet(t) ==
    /\ UNCHANGED <<threads, pending_child>>
    /\ pc[t] \in RunPcs \ {"drain", "drainwait", "switch"}
    /\ pc'[t] \in RunPcs \ {"realjoin", "drainwait", "switch"}
    /\ pc'[t] \in RestPcs => pc[t] \in {"woken", "join"}

\* Most functions neither decide nor lose control.
LEMMA TurnStep ==
  ASSUME NoOptions, IndInv, TurnInv, NEW t \in Threads, Internal(t) \/ UserCall(t)
  PROVE  \/ TurnQuiet(t) \/ DrainPendingChild(t) \/ DrainResume(t) \/ ContextSwitch(t)
         \/ Joined(t) \/ BlockUntilReleased(t) \/ Die(t) \/ Trampoline(t) \/ ThreadExit(t)
         \/ \E c \in Threads : Create(t, c)
<1>0. TypeOK /\ ControlInv /\ GateInv /\ LiveInv /\ TSan = FALSE /\ TeardownCalls = FALSE
  BY DEF NoOptions, IndInv, TurnInv, StartupInv, BlockingInv
<1> USE DEF TurnQuiet, RunPcs, RestPcs, TypeOK, Goto, CallContextSwitch, CallDrain
<1>1. CASE Return(t)
  BY <1>0, <1>1 DEF Return, Leave, LiveInv
<1>2. CASE Resume(t)
  BY <1>0, <1>2 DEF Resume, ReturnTo, ControlInv, ControlOK, AwayPcs, RetLabels
<1>3. CASE CreateFails(t) \/ Join(t)
  BY <1>0, <1>3 DEF CreateFails, Join
<1>4. ~TsanStartGate(t)
  BY <1>0 DEF TsanStartGate, GateInv
<1>5. CASE RealJoin(t)
  BY <1>0, <1>5 DEF RealJoin, ControlInv, ControlOK, At
<1>6. CASE MutexLock(t) \/ RealLock(t) \/ Trylock(t)
  BY <1>0, <1>6 DEF MutexLock, RealLock, Trylock
<1>7. CASE Unlock(t)
  BY <1>0, <1>7 DEF Unlock
<1>8. CASE CondWait(t)
  BY <1>0, <1>8 DEF CondWait
<1>9. CASE BarrierInit(t) \/ BarrierWait(t)
  BY <1>0, <1>9 DEF BarrierInit, BarrierWait
<1>10. CASE SchedYield(t) \/ ScheduleMemop(t) \/ CallCreate(t) \/ \E x \in Threads : CallJoin(t, x)
  BY <1>0, <1>10 DEF SchedYield, ScheduleMemop, SchedulingPoint, MayCall, CallCreate, CallJoin
<1>11. ASSUME NEW m \in Mutexes, CallLock(t, m) \/ CallTrylock(t, m) \/ CallUnlock(t, m)
       PROVE  TurnQuiet(t)
  BY <1>0, <1>11, SMTT(30) DEF CallLock, CallTrylock, CallUnlock, EnterMutexOp, MayCall
<1>12. ASSUME NEW c \in Conds, NEW W, ReleaseCondWaiters(t, c, W) PROVE TurnQuiet(t)
  BY <1>0, <1>12 DEF ReleaseCondWaiters
<1>13. ASSUME NEW c \in Conds, NEW m \in Mutexes, CallCondWait(t, c, m) PROVE TurnQuiet(t)
  BY <1>0, <1>13 DEF CallCondWait
<1>14. ASSUME NEW b \in Barriers, CallBarrierInit(t, b) \/ CallBarrierWait(t, b)
       PROVE  TurnQuiet(t)
  BY <1>0, <1>14 DEF CallBarrierInit, CallBarrierWait, EnterBarrierOp
<1> HIDE DEF TurnQuiet
<1>15. CASE Internal(t)
  BY <1>15, <1>1, <1>2, <1>3, <1>4, <1>5, <1>6, <1>7, <1>8, <1>9 DEF Internal
<1>16. CASE UserCall(t)
  BY <1>16, <1>10, <1>11, <1>12, <1>13, <1>14 DEF UserCall, CondSignal, CondBroadcast
<1> QED
  BY <1>15, <1>16

\* Whoever acts has the turn, but for a child that gets to its first wait and an
\* exited thread that ends.
LEMMA ActorHasTurn ==
  ASSUME NoOptions, IndInv, TurnInv, NEW t \in Threads, Internal(t) \/ UserCall(t),
         ~Die(t), ~Trampoline(t)
  PROVE  t \in threads /\ pc[t] \in RunPcs /\ HasControl(t)
<1>1. TypeOK /\ ControlInv /\ LiveInv /\ JoinInv /\ BlockInv /\ TeardownCalls = FALSE
  BY DEF NoOptions, IndInv, TurnInv, BlockingInv
<1>2. t \in threads
  BY <1>1, ActorAlive DEF LiveInv, GonePcs
<1>3. pc[t] \in RunPcs
  <2>1. CASE \/ DrainPendingChild(t) \/ DrainResume(t) \/ ContextSwitch(t) \/ Joined(t)
             \/ BlockUntilReleased(t) \/ ThreadExit(t) \/ \E c \in Threads : Create(t, c)
    BY <2>1 DEF DrainPendingChild, DrainResume, ContextSwitch, Joined, BlockUntilReleased,
                ThreadExit, Create, RunPcs
  <2> QED
    BY <2>1, TurnStep DEF TurnQuiet
<1>4. pc[t] = "realjoin" => obj[t] \notin threads
  <2>1. pc[t] = "realjoin" => RealJoin(t)
    <3>1. ASSUME pc[t] = "realjoin" PROVE ~UserCall(t)
      BY <1>1, <3>1 DEF UserCall, SchedYield, ScheduleMemop, SchedulingPoint, MayCall,
         CallCreate, ThreadExit, CallJoin, CallLock, CallTrylock, CallUnlock, EnterMutexOp,
         CondSignal, CondBroadcast, ReleaseCondWaiters, CallCondWait, CallBarrierInit,
         CallBarrierWait, EnterBarrierOp
    <3> QED
      BY <3>1 DEF Internal, Return, Resume, ContextSwitch, DrainPendingChild, DrainResume,
         CreateFails, Trampoline, TsanStartGate, Die, Join, Joined, Create, MutexLock,
         BlockUntilReleased, RealLock, Trylock, Unlock, CondWait, BarrierInit, BarrierWait
  <2>2. RealJoin(t) => pc[obj[t]] = "dead" /\ obj[t] \in Threads
    BY <1>1 DEF RealJoin, ControlInv, ControlOK, At
  <2> QED
    BY <1>1, <2>1, <2>2 DEF ControlInv, ControlOK
<1> QED
  BY <1>2, <1>3, <1>4 DEF HasControl, Running, AwaitsLiveThread

\* While one thread executes, the other registered ones wait or are on their way
\* to their first wait.
LEMMA OthersWait ==
  ASSUME NoOptions, IndInv, TurnInv, NEW t \in threads, pc[t] \in RunPcs,
         NEW u \in threads \ {t}
  PROVE  pc[u] \in {"tramp", "wait"}
<1>1. u \in Threads /\ pc[u] \in RunPcs \cup IdlePcs
  BY DEF IndInv, TypeOK
<1>2. pc[u] \notin RunPcs
  BY DEF IndInv, OneRunner, Running
<1>3. pc[u] \notin {"unborn", "teardown", "dead", "gate"}
  BY <1>1 DEF NoOptions, TurnInv, BlockingInv, LiveInv, StartupInv, GateInv
<1> QED
  BY <1>1, <1>2, <1>3 DEF IdlePcs

\* Once the pending child has been drained, every other registered thread has
\* started and is shown to choose() as waiting.
LEMMA EverybodyShown ==
  ASSUME NoOptions, IndInv, TurnInv, NEW t \in threads, pc[t] \in RunPcs \ {"drainwait"},
         pending_child = None, NEW u \in threads \ {t}
  PROVE  startup_done[u] /\ is_in_rsched_wait[u]
<1>1. u \in Threads /\ threads \subseteq Threads
  BY DEF IndInv, TypeOK
<1>2. \A v \in Threads : pc[v] # "drainwait"
  <2>1. ASSUME NEW v \in Threads, pc[v] = "drainwait" PROVE FALSE
    <3>1. v \in threads \ {t}
      BY <2>1 DEF TurnInv, BlockingInv, LiveInv
    <3> QED
      BY <2>1, <3>1, OthersWait
  <2> QED
    BY <2>1
<1>3. startup_done[u]
  BY <1>1, <1>2, ThreadsAssumption DEF TurnInv, StartupInv, KeptInv, Drains
<1>4. pc[u] = "wait"
  BY <1>1, <1>3, OthersWait DEF TurnInv, StartupInv, StartInv
<1> QED
  BY <1>1, <1>3, <1>4 DEF TurnInv, StartupInv, FlagInv

(***************************************************************************)
(* DrainedInv and RestInv.                                                 *)
(***************************************************************************)
\* Initially nobody is in a context_switch and only Main is registered.
LEMMA InitTurn == Init => DrainedInv /\ RestInv
<1> SUFFICES ASSUME Init PROVE DrainedInv /\ RestInv
  OBVIOUS
<1>1. threads = {Main} /\ Main \in Threads /\ pending_child = None /\ ~is_blocking[Main]
  BY ThreadsAssumption DEF Init
<1> QED
  BY <1>1 DEF DrainedInv, RestInv

\* choose() is only reached with no child pending: a child is created by the
\* thread that has the turn, and drained before the turn is passed.
LEMMA DrainedStep == NoOptions /\ IndInv /\ TurnInv /\ [Next]_vars => DrainedInv'
<1> SUFFICES ASSUME NoOptions, IndInv, TurnInv, [Next]_vars,
                    NEW u \in Threads, pc'[u] \in {"drainwait", "switch"}
             PROVE  pending_child' = None
  BY DEF DrainedInv
<1>1. TypeOK /\ ControlInv /\ OneRunner /\ LiveInv /\ DrainedInv
  BY DEF IndInv, TurnInv, BlockingInv
<1>2. CASE UNCHANGED vars
  BY <1>1, <1>2 DEF DrainedInv
<1>3. CASE Reinit
  BY <1>3 DEF Reinit, FreshState
<1>4. ASSUME NEW t \in Threads, Internal(t) \/ UserCall(t) PROVE pending_child' = None
  <2>1. CASE u # t
    <3>1. pc[u] \in {"drainwait", "switch"}
      BY <1>1, <1>4, <2>1, FrameStep DEF Frame, Moved
    <3>2. pending_child = None
      BY <1>1, <3>1 DEF DrainedInv
    <3>3. ~\E c \in Threads : Create(t, c)
      <4>1. ASSUME NEW c \in Threads, Create(t, c) PROVE FALSE
        <5>1. pc[t] = "create" /\ t \in threads
          BY <1>1, <4>1 DEF Create, ControlInv, ControlOK, At
        <5>2. u \in threads
          BY <1>1, <3>1 DEF LiveInv
        <5> QED
          BY <1>1, <2>1, <3>1, <5>1, <5>2 DEF OneRunner, Running, RunPcs
      <4> QED
        BY <4>1
    <3> QED
      BY <1>4, <3>2, <3>3, TurnStep
         DEF TurnQuiet, DrainPendingChild, DrainResume, ContextSwitch, Joined,
             BlockUntilReleased, Die, Trampoline, ThreadExit
  <2>2. CASE u = t
    <3>1. CASE DrainPendingChild(t)
      BY <3>1 DEF DrainPendingChild
    <3>2. CASE DrainResume(t) \/ ContextSwitch(t)
      BY <1>1, <3>2 DEF DrainResume, ContextSwitch, DrainedInv
    <3>3. ~TurnQuiet(t)
      BY <2>2 DEF TurnQuiet
    <3>4. ~(Joined(t) \/ Die(t))
      BY <1>1, <2>2 DEF Joined, Die, Goto, TypeOK
    <3>5. ~(BlockUntilReleased(t) \/ Trampoline(t))
      BY <1>1, <2>2 DEF BlockUntilReleased, Trampoline, Suspend, AfterBlocking, Goto, TypeOK
    <3>6. ~ThreadExit(t)
      BY <1>1, <2>2 DEF ThreadExit, Signal, Goto, TypeOK
    <3>7. \A c \in Threads : ~Create(t, c)
      BY <1>1, <2>2 DEF Create, TypeOK
    <3> QED
      BY <1>4, <3>1, <3>2, <3>3, <3>4, <3>5, <3>6, <3>7, TurnStep
  <2> QED
    BY <2>1, <2>2
<1> QED
  BY <1>2, <1>3, <1>4 DEF Next

\* context_switch returns to a blocked caller only if everybody is blocked.
LEMMA SwitchRests ==
  ASSUME NoOptions, IndInv, TurnInv, NEW t \in threads, ContextSwitch(t),
         is_blocking[t], pc'[t] # "wait"
  PROVE  AllBlocked
<1>1. /\ t \in Threads /\ pc[t] = "switch" /\ pending_child = None /\ TypeOK
      /\ pc[t] \in RunPcs \ {"drainwait"}
  BY DEF ContextSwitch, IndInv, TypeOK, TurnInv, DrainedInv, RunPcs
<1>2. CASE Alone(t)
  BY <1>2 DEF Alone, AllBlocked
<1>3. CASE Choosable(threads, is_blocking, [startup_done EXCEPT ![t] = TRUE]) = {}
  <2> SUFFICES ASSUME NEW u \in threads \ {t} PROVE is_blocking[u]
    BY DEF AllBlocked
  <2>1. startup_done[u] /\ is_in_rsched_wait[u]
    BY <1>1, EverybodyShown
  <2>2. [startup_done EXCEPT ![t] = TRUE][u]
    BY <1>1, <2>1 DEF TypeOK
  <2> QED
    BY <1>3, <2>1, <2>2 DEF Choosable
<1>4. ASSUME NEW n \in Choosable(threads, is_blocking, [startup_done EXCEPT ![t] = TRUE]),
             Wake(t, n)
      PROVE  FALSE
  <2>1. n # t
    BY <1>4 DEF Choosable
  <2> QED
    BY <1>1, <1>4, <2>1 DEF Wake, Suspend, Signal, TypeOK
<1> QED
  BY <1>2, <1>3, <1>4 DEF ContextSwitch

\* The functions that block or release somebody do not end in a raw wait: a
\* context_switch comes first.
LEMMA BlockStepNotAtRest ==
  ASSUME TypeOK, ControlInv, NEW t \in Threads, BlockStepOf(t)
  PROVE  t \in threads' => pc'[t] \notin RestPcs
<1> USE DEF RestPcs, TypeOK, Goto, CallContextSwitch, CallDrain
<1>1. CASE ThreadExit(t)
  BY <1>1 DEF ThreadExit
<1>2. ASSUME NEW c \in Threads, Create(t, c) PROVE pc'[t] \notin RestPcs
  BY <1>2 DEF Create
<1>3. CASE Join(t) /\ obj[t] \in threads
  BY <1>3 DEF Join
<1>4. CASE MutexLock(t) /\ WillBlock(t, mtx[t])
  BY <1>4 DEF MutexLock
<1>5. CASE Unlock(t)
  BY <1>5 DEF Unlock
<1>6. CASE CondWait(t)
  BY <1>6 DEF CondWait
<1>7. CASE BarrierWait(t)
  BY <1>7 DEF BarrierWait
<1>8. ASSUME NEW c \in Conds, CondSignal(t, c) \/ CondBroadcast(t, c) PROVE pc'[t] \notin RestPcs
  BY <1>8 DEF CondSignal, CondBroadcast, ReleaseCondWaiters
<1> QED
  BY <1>1, <1>2, <1>3, <1>4, <1>5, <1>6, <1>7, <1>8 DEF BlockStepOf

\* A blocked thread that executes the code after its context_switch knows that
\* everybody is blocked.
LEMMA RestStep == NoOptions /\ IndInv /\ TurnInv /\ [Next]_vars => RestInv'
<1> SUFFICES ASSUME NoOptions, IndInv, TurnInv, [Next]_vars,
                    NEW u \in threads', is_blocking'[u], pc'[u] \in RestPcs
             PROVE  AllBlocked'
  BY DEF RestInv, RestPcs
<1>1. TypeOK /\ ControlInv /\ OneRunner /\ CreateInv /\ LiveInv /\ BlockInv /\ RestInv
  BY DEF IndInv, TurnInv, BlockingInv, StartupInv
<1>2. u \in Threads
  BY TypeStep DEF TypeOK
<1>3. CASE UNCHANGED vars
  BY <1>1, <1>3 DEF RestInv, RestPcs, AllBlocked
<1>4. CASE Reinit
  BY <1>2, <1>4 DEF Reinit, FreshState
<1>5. ASSUME NEW t \in Threads, Internal(t) \/ UserCall(t) PROVE AllBlocked'
  <2>1. BlockedOK(t)
    BY <1>1 DEF BlockInv
  <2>2. CASE u # t
    <3>1. u \in threads /\ pc'[u] = pc[u]
      BY <1>1, <1>2, <1>5, <2>2, FrameStep DEF Frame, Moved, RestPcs
    <3>2. CASE Die(t) \/ Trampoline(t)
      BY <1>1, <3>1, <3>2 DEF Die, Trampoline, RestInv, RestPcs, AllBlocked
    <3>3. CASE ~Die(t) /\ ~Trampoline(t)
      BY <1>5, <2>2, <3>1, <3>3, ActorHasTurn, OthersWait DEF RestPcs
    <3> QED
      BY <3>2, <3>3
  <2>3. CASE u = t
    <3>1. BlockQuiet(t)
      BY <1>1, <1>5, <2>1, <2>3, BlockQuietStep, BlockStepNotAtRest
    <3>2. t \in threads /\ is_blocking[t] /\ pc[t] \in BlockedPcs
      BY <2>1, <2>3, <3>1 DEF BlockQuiet, BlockedOK, Blocked
    <3>3. CASE pc[t] \in RestPcs
      BY <1>1, <3>1, <3>2, <3>3 DEF BlockQuiet, RestInv, RestPcs, AllBlocked
    <3>4. CASE ContextSwitch(t)
      <4>1. AllBlocked
        BY <2>3, <3>2, <3>4, SwitchRests DEF RestPcs
      <4> QED
        BY <3>1, <4>1 DEF BlockQuiet, AllBlocked
    <3>5. ~(DrainPendingChild(t) \/ DrainResume(t))
      <4>1. AfterDrain(t) => pc'[t] = "switch" \/ ret[t] \in DirectDrain
        BY <1>1, AfterDrainEffect
      <4>2. Goto(t, "drainwait") => pc'[t] = "drainwait"
        BY <1>1 DEF Goto, TypeOK
      <4>3. pc[t] \in {"drain", "drainwait"} => ret[t] \notin DirectDrain
        BY <2>1, <3>2 DEF BlockedOK, Blocked, BlockedRets, DirectDrain
      <4> QED
        BY <2>3, <4>1, <4>2, <4>3 DEF DrainPendingChild, DrainResume, RestPcs
    <3>6. TurnQuiet(t) => pc[t] \in {"woken", "join"}
      BY <2>3 DEF TurnQuiet
    <3>7. Joined(t) \/ BlockUntilReleased(t) => pc[t] \in RestPcs
      BY DEF Joined, BlockUntilReleased, RestPcs
    <3>8. ~(Die(t) \/ Trampoline(t) \/ ThreadExit(t) \/ \E c \in Threads : Create(t, c))
      BY <3>2 DEF Die, Trampoline, ThreadExit, Create, BlockedPcs
    <3> QED
      BY <1>5, <3>2, <3>3, <3>4, <3>5, <3>6, <3>7, <3>8, TurnStep DEF BlockedPcs
  <2> QED
    BY <2>2, <2>3
<1> QED
  BY <1>3, <1>4, <1>5 DEF Next

\* With the three options off, choose() is only reached with no child pending and
\* a thread only falls asleep blocked when everybody is blocked.
THEOREM TurnInvariant == NoOptions => (Spec => []TurnInv)
<1> SUFFICES ASSUME NoOptions PROVE Spec => []TurnInv
  OBVIOUS
<1>1. Init => DrainedInv /\ RestInv
  BY InitTurn
<1>2. IndInv /\ TurnInv /\ [Next]_vars => (DrainedInv /\ RestInv)'
  BY DrainedStep, RestStep
<1>3. TurnInv <=> StartupInv /\ BlockingInv /\ DrainedInv /\ RestInv
  BY DEF TurnInv
<1>4. Spec => []BlockingInv
  BY BlockingInvariant DEF NoOptions
<1> QED
  BY <1>1, <1>2, <1>3, <1>4, IndInvariant, StartupInvariant, PTL DEF Spec

(***************************************************************************)
(* Every step is a step of the abstract scheduler.                         *)
(***************************************************************************)
Turn == {t \in threads : HasControl(t)}
BlockedSet == {t \in threads : is_blocking[t]}

\* One thread has the turn.
LEMMA TurnIs ==
  ASSUME OneRunner, NEW t \in threads, HasControl(t)
  PROVE  Turn = {t}
BY DEF OneRunner, HasControl, Turn

\* A registered thread that has control is the one whose turn it is.
LEMMA TurnWillBe ==
  ASSUME OneRunner', NEW t \in threads', HasControl(t)'
  PROVE  Turn' = {t}
BY DEF OneRunner, HasControl, Turn

\* A thread that goes on executing keeps the turn.
LEMMA TurnGoesOn ==
  ASSUME OneRunner', NEW t \in threads', pc'[t] \in RunPcs \ {"realjoin"}
  PROVE  Turn' = {t}
<1>1. HasControl(t)'
  BY DEF HasControl, Running, AwaitsLiveThread
<1> QED
  BY <1>1, TurnWillBe

\* The turn lapses when its holder stops and no other thread moves.
LEMMA TurnLapses ==
  ASSUME NoOptions, IndInv, TurnInv, NEW t \in threads, pc[t] \in RunPcs,
         threads' \subseteq threads, \A u \in threads \ {t} : pc'[u] = pc[u],
         t \in threads' => ~HasControl(t)'
  PROVE  Turn' = {}
<1> SUFFICES ASSUME NEW u \in threads', HasControl(u)' PROVE FALSE
  BY DEF Turn
<1>1. u \in threads \ {t}
  OBVIOUS
<1>2. pc'[u] \in {"tramp", "wait"}
  BY <1>1, OthersWait
<1> QED
  BY <1>2 DEF HasControl, Running, RunPcs

\* A function blocks nobody but its caller, and only a caller that is not blocked
\* yet blocks or releases somebody.
LEMMA OnlySelfBlocks ==
  ASSUME TypeOK, ControlInv, NEW t \in Threads, BlockStepOf(t)
  PROVE  /\ pc[t] \notin BlockedPcs
         /\ \A u \in Threads \ {t} : is_blocking'[u] => is_blocking[u]
<1> USE DEF BlockedPcs
<1>1. CASE ThreadExit(t)
  BY <1>1 DEF ThreadExit, ExitFlags
<1>2. ASSUME NEW c \in Threads, Create(t, c)
      PROVE  /\ pc[t] \notin BlockedPcs
             /\ \A u \in Threads \ {t} : is_blocking'[u] => is_blocking[u]
  BY <1>2 DEF Create, AddChild, TypeOK
<1>3. CASE Join(t) /\ obj[t] \in threads
  BY <1>3 DEF Join, TypeOK
<1>4. CASE MutexLock(t) /\ WillBlock(t, mtx[t])
  BY <1>4 DEF MutexLock, TypeOK
<1>5. ASSUME NEW m \in Mutexes, NEW B \in [Threads -> BOOLEAN], MutexUnlock(m, B),
             \A u \in Threads \ {t} : B[u] = is_blocking[u]
      PROVE  \A u \in Threads \ {t} : is_blocking'[u] => is_blocking[u]
  BY <1>5, UnlockReleases DEF Released
<1>6. CASE Unlock(t)
  <2>1. mtx[t] \in Mutexes /\ pc[t] = "unlock"
    BY <1>6 DEF Unlock, ControlInv, ControlOK, At
  <2> QED
    BY <1>5, <1>6, <2>1 DEF Unlock, TypeOK
<1>7. CASE CondWait(t)
  <2>1. mtx[t] \in Mutexes /\ pc[t] = "cwait"
    BY <1>7 DEF CondWait, ControlInv, ControlOK, At
  <2>2. /\ [is_blocking EXCEPT ![t] = TRUE] \in [Threads -> BOOLEAN]
        /\ \A u \in Threads \ {t} : [is_blocking EXCEPT ![t] = TRUE][u] = is_blocking[u]
    BY DEF TypeOK
  <2>3. is_blocking \in [Threads -> BOOLEAN]
    BY DEF TypeOK
  <2> QED
    BY <1>5, <1>7, <2>1, <2>2, <2>3 DEF CondWait
<1>8. CASE BarrierWait(t)
  BY <1>8 DEF BarrierWait, Released, TypeOK
<1>9. ASSUME NEW c \in Conds, CondSignal(t, c) \/ CondBroadcast(t, c)
      PROVE  /\ pc[t] \notin BlockedPcs
             /\ \A u \in Threads \ {t} : is_blocking'[u] => is_blocking[u]
  <2>1. PICK W : ReleaseCondWaiters(t, c, W)
    BY <1>9 DEF CondSignal, CondBroadcast
  <2> QED
    BY <2>1 DEF ReleaseCondWaiters, Released
<1> QED
  BY <1>1, <1>2, <1>3, <1>4, <1>6, <1>7, <1>8, <1>9 DEF BlockStepOf

coopView == <<threads, BlockedSet, Turn>>

\* A step after which its thread still executes unblocks others or blocks itself.
LEMMA CoopAct ==
  ASSUME IndInv, TurnInv, OneRunner', NEW t \in threads, Turn = {t},
         Internal(t) \/ UserCall(t),
         threads' = threads, pc'[t] \in RunPcs \ {"realjoin"}
  PROVE  Coop!Act(t) \/ UNCHANGED coopView
<1>1. TypeOK /\ ControlInv /\ CreateInv /\ BlockInv /\ t \in Threads /\ threads \subseteq Threads
  BY DEF IndInv, TurnInv, StartupInv, BlockingInv, TypeOK
<1>2. BlockedOK(t)
  BY <1>1 DEF BlockInv
<1>3. Turn' = Turn
  BY TurnGoesOn
<1>4. CASE BlockQuiet(t)
  BY <1>3, <1>4 DEF BlockQuiet, coopView, BlockedSet
<1>5. CASE BlockStepOf(t)
  <2>1. t \notin BlockedSet
    BY <1>1, <1>2, <1>5, OnlySelfBlocks DEF BlockedOK, Blocked, BlockedSet
  <2>2. BlockedSet' \subseteq BlockedSet \cup {t}
    BY <1>1, <1>5, OnlySelfBlocks DEF BlockedSet
  <2> QED
    BY <1>3, <2>1, <2>2 DEF Coop!Act, Turn, BlockedSet
<1> QED
  BY <1>1, <1>2, <1>4, <1>5, BlockQuietStep

\* A scheduling decision passes the turn to a thread that is not blocked.
LEMMA CoopSwitch ==
  ASSUME IndInv, TurnInv, OneRunner', NEW t \in threads, Turn = {t},
         Internal(t) \/ UserCall(t), ContextSwitch(t)
  PROVE  \/ Coop!Act(t) \/ \E n \in Threads : Coop!Pass(t, n)
         \/ UNCHANGED coopView
<1>1. TypeOK /\ ControlInv /\ t \in Threads /\ threads \subseteq Threads
  BY DEF IndInv, TypeOK
<1>2. pc[t] = "switch" /\ threads' = threads /\ is_blocking' = is_blocking
  BY <1>1, ContextSwitchEffect DEF ContextSwitch
<1>3. CASE ReturnTo(t, pc)
  <2>1. pc'[t] \in RunPcs \ {"realjoin"}
    BY <1>1, <1>2, <1>3 DEF ReturnTo, ControlInv, ControlOK, AwayPcs, TypeOK, RetLabels, RunPcs
  <2> QED
    BY <1>2, <2>1, CoopAct
<1>4. ASSUME NEW n \in threads \ {t}, ~is_blocking[n], is_in_rsched_wait[n],
             Suspend(t, Signal(n))
      PROVE  Coop!Pass(t, n)
  <2>1. pc[n] = "wait"
    BY <1>1, <1>2, <1>4 DEF IndInv, WaitFlagInv, OneRunner, Running, RunPcs
  <2>2. pc'[n] = "woken"
    BY <1>1, <1>4, <2>1 DEF Suspend, Signal, TypeOK
  <2>3. Turn' = {n}
    BY <1>2, <1>4, <2>2, TurnGoesOn DEF RunPcs
  <2> QED
    BY <1>2, <1>4, <2>3 DEF Coop!Pass, Coop!Ready, Turn, BlockedSet
<1> QED
  BY <1>1, <1>3, <1>4, ContextSwitchEffect

\* The raw wait after a context_switch, and the real pthread_join of a live
\* thread, are entered only when everybody is blocked.
LEMMA CoopRest ==
  ASSUME NoOptions, IndInv, TurnInv, OneRunner', NEW t \in threads, Turn = {t},
         Internal(t) \/ UserCall(t), Joined(t) \/ BlockUntilReleased(t)
  PROVE  Coop!Act(t) \/ Coop!Rest(t) \/ UNCHANGED coopView
<1>1. /\ TypeOK /\ ControlInv /\ BlockInv /\ JoinInv /\ RestInv
      /\ t \in Threads /\ threads \subseteq Threads
  BY DEF IndInv, TurnInv, BlockingInv, TypeOK
<1>2. /\ threads' = threads /\ is_blocking' = is_blocking
      /\ \A u \in Threads \ {t} : pc'[u] = pc[u]
      /\ pc[t] \in RestPcs \cap RunPcs
  BY <1>1 DEF Joined, BlockUntilReleased, Suspend, Goto, TypeOK, RestPcs, RunPcs
<1>3. ASSUME is_blocking[t], ~HasControl(t)' PROVE Coop!Rest(t)
  <2>1. AllBlocked
    BY <1>1, <1>2, <1>3 DEF RestInv, RestPcs
  <2>2. Turn' = {}
    BY <1>1, <1>2, <1>3, TurnLapses
  <2> QED
    BY <1>2, <2>1, <2>2 DEF Coop!Rest, Coop!Ready, Turn, BlockedSet, AllBlocked
<1>4. CASE BlockUntilReleased(t)
  <2>1. CASE is_blocking[t]
    <3>1. pc'[t] = "wait"
      BY <1>1, <1>4, <2>1 DEF BlockUntilReleased, Suspend, TypeOK
    <3> QED
      BY <1>3, <2>1, <3>1 DEF HasControl, Running, RunPcs
  <2>2. CASE ~is_blocking[t]
    <3>1. pc'[t] \in {"lock", "gunlock"}
      BY <1>1, <1>4, <2>2 DEF BlockUntilReleased, AfterBlocking, Goto, TypeOK
    <3> QED
      BY <1>2, <3>1, CoopAct DEF RunPcs
  <2> QED
    BY <2>1, <2>2
<1>5. CASE Joined(t)
  <2>0. pc[t] = "joined" /\ pc'[t] = "realjoin" /\ obj'[t] = obj[t]
    BY <1>1, <1>5 DEF Joined, Goto, TypeOK
  <2>1. obj[t] \in Threads
    BY <1>1, <2>0 DEF ControlInv, ControlOK, At
  <2>2. CASE obj[t] \in threads
    <3>1. Joins(t, obj[t])
      BY <1>1, <2>0, <2>1, <2>2 DEF JoinInv, Joins, At
    <3>2. is_blocking[t]
      BY <1>1, <2>1, <3>1 DEF BlockInv, BlockedOK, Blocked, Registered
    <3> QED
      BY <1>2, <1>3, <2>0, <2>2, <3>2 DEF HasControl, AwaitsLiveThread
  <2>3. CASE obj[t] \notin threads
    <3>1. HasControl(t)'
      BY <1>2, <2>0, <2>3 DEF HasControl, Running, AwaitsLiveThread, RunPcs
    <3>2. Turn' = {t}
      BY <1>2, <3>1, TurnWillBe
    <3> QED
      BY <1>2, <3>2 DEF coopView, BlockedSet
  <2> QED
    BY <2>2, <2>3
<1> QED
  BY <1>4, <1>5

\* do_thread_exit passes the turn on, or lets it lapse if everybody is blocked.
LEMMA CoopExit ==
  ASSUME NoOptions, IndInv, TurnInv, OneRunner', NEW t \in threads, Turn = {t},
         ThreadExit(t)
  PROVE  Coop!Exit(t)
<1>1. /\ TypeOK /\ ControlInv /\ BlockInv /\ t \in Threads /\ threads \subseteq Threads
      /\ pc[t] \in RunPcs \ {"drainwait"}
  BY DEF IndInv, TurnInv, BlockingInv, TypeOK, ThreadExit, RunPcs
<1>2. /\ pc[t] = "user" /\ threads' = threads \ {t} /\ is_blocking' = ExitFlags(t)
      /\ pending_child = None
  BY <1>1, ThreadExitEffect DEF ThreadExit, NoOptions
<1>3. t \notin BlockedSet
  BY <1>1, <1>2 DEF BlockInv, BlockedOK, Blocked, BlockedPcs, BlockedSet
<1>4. BlockedSet' \subseteq BlockedSet
  BY <1>1, <1>2 DEF BlockedSet, ExitFlags
<1>5. CASE /\ pc' = [pc EXCEPT ![t] = "teardown"]
           /\ Choosable(threads', is_blocking', startup_done) = {}
  <2>1. threads' \subseteq BlockedSet'
    <3> SUFFICES ASSUME NEW u \in threads' PROVE is_blocking'[u]
      BY DEF BlockedSet
    <3>1. u \in threads \ {t}
      BY <1>2
    <3>2. startup_done[u] /\ is_in_rsched_wait[u]
      BY <1>1, <1>2, <3>1, EverybodyShown
    <3> QED
      BY <1>5, <3>2 DEF Choosable
  <2>2. \A u \in threads \ {t} : pc'[u] = pc[u]
    BY <1>1, <1>5 DEF TypeOK
  <2>3. Turn' = {}
    BY <1>1, <1>2, <2>2, TurnLapses
  <2> QED
    BY <1>2, <1>3, <1>4, <2>1, <2>3 DEF Coop!Exit, Turn, BlockedSet
<1>6. ASSUME NEW n \in threads \ {t}, ~is_blocking'[n], is_in_rsched_wait[n],
             pc' = [Signal(n) EXCEPT ![t] = "teardown"]
      PROVE  Coop!Exit(t)
  <2>1. pc[n] = "wait"
    BY <1>1, <1>2, <1>6 DEF IndInv, WaitFlagInv, OneRunner, Running, RunPcs
  <2>2. pc'[n] = "woken"
    BY <1>1, <1>6, <2>1 DEF Signal, TypeOK
  <2>3. n \in threads' \ BlockedSet'
    BY <1>2, <1>6 DEF BlockedSet
  <2>4. Turn' = {n}
    BY <2>2, <2>3, TurnGoesOn DEF RunPcs
  <2> QED
    BY <1>2, <1>3, <1>4, <2>3, <2>4 DEF Coop!Exit, Turn, BlockedSet
<1> QED
  BY <1>1, <1>5, <1>6, ThreadExitEffect

\* pthread_create adds a live thread that is not blocked; the creator goes on.
LEMMA CoopSpawn ==
  ASSUME IndInv, TurnInv, OneRunner', NEW t \in threads, Turn = {t},
         NEW c \in Threads, Create(t, c)
  PROVE  Coop!Spawn(t, c)
<1>1. TypeOK /\ ControlInv /\ t \in Threads /\ threads \subseteq Threads
  BY DEF IndInv, TypeOK
<1>2. /\ pc[c] = "unborn" /\ pc[t] = "create" /\ threads' = threads \cup {c}
      /\ is_blocking' = [is_blocking EXCEPT ![c] = FALSE]
      /\ pc' = [pc EXCEPT ![t] = "user", ![c] = "tramp"]
  BY DEF Create, AddChild
<1>3. c \notin threads
  BY <1>1, <1>2 DEF ControlInv, ControlOK
<1>4. pc'[t] = "user"
  BY <1>1, <1>2 DEF TypeOK
<1>5. Turn' = {t}
  BY <1>2, <1>4, TurnGoesOn DEF RunPcs
<1>6. BlockedSet' = BlockedSet
  BY <1>1, <1>2, <1>3 DEF BlockedSet, TypeOK
<1> QED
  BY <1>2, <1>3, <1>5, <1>6 DEF Coop!Spawn, Turn, BlockedSet

\* A child that gets to its first wait and a thread that ends have no turn.
LEMMA CoopIdle ==
  ASSUME TypeOK, ControlInv, NEW t \in Threads, Die(t) \/ Trampoline(t)
  PROVE  UNCHANGED coopView
<1>1. /\ UNCHANGED <<threads, is_blocking, obj>>
      /\ \A u \in Threads \ {t} : pc'[u] = pc[u]
      /\ pc[t] \notin RunPcs /\ pc'[t] \notin RunPcs
  BY DEF Die, Trampoline, Suspend, Goto, TypeOK, RunPcs
<1>2. \A u \in threads : HasControl(u)' <=> HasControl(u)
  BY <1>1 DEF HasControl, Running, AwaitsLiveThread, TypeOK
<1> QED
  BY <1>1, <1>2 DEF coopView, Turn, BlockedSet

\* rsched_reinit finds Main alone and running, and leaves it so.
LEMMA CoopReinit ==
  ASSUME IndInv, TurnInv, OneRunner', Reinit
  PROVE  UNCHANGED coopView
<1>1. /\ LiveInv /\ BlockInv /\ OneRunner /\ Main \in Threads /\ threads \subseteq Threads
  BY ThreadsAssumption DEF IndInv, TurnInv, BlockingInv, TypeOK
<1>2. /\ pc = InitialPc /\ pc' = pc /\ threads' = {Main} /\ pc[Main] = "user"
      /\ is_blocking' = [t \in Threads |-> FALSE]
  BY <1>1 DEF Reinit, FreshState, InitialPc
<1>3. threads = {Main}
  BY <1>1, <1>2 DEF LiveInv, InitialPc
<1>4. Turn = {Main} /\ Turn' = {Main}
  <2>1. HasControl(Main)
    BY <1>2, <1>3 DEF HasControl, Running, AwaitsLiveThread, RunPcs
  <2> QED
    BY <1>1, <1>2, <1>3, <2>1, TurnIs, TurnGoesOn DEF RunPcs
<1>5. BlockedSet = {} /\ BlockedSet' = {}
  BY <1>1, <1>2, <1>3 DEF BlockInv, BlockedOK, Blocked, BlockedPcs, BlockedSet
<1> QED
  BY <1>2, <1>3, <1>4, <1>5 DEF coopView

\* Every step of the scheduler is a step of CoopScheduler or leaves control alone.
LEMMA CoopStep ==
  NoOptions /\ IndInv /\ TurnInv /\ [Next]_vars => Coop!Next \/ UNCHANGED coopView
<1> SUFFICES ASSUME NoOptions, IndInv, TurnInv, [Next]_vars
             PROVE  Coop!Next \/ UNCHANGED coopView
  OBVIOUS
<1>1. OneRunner' /\ TypeOK /\ ControlInv /\ OneRunner
  BY OneRunnerStep DEF IndInv
<1>2. CASE UNCHANGED vars
  BY <1>2 DEF coopView, Turn, BlockedSet, HasControl, Running, AwaitsLiveThread
<1>3. CASE Reinit
  BY <1>1, <1>3, CoopReinit
<1>4. ASSUME NEW t \in Threads, Internal(t) \/ UserCall(t)
      PROVE  Coop!Next \/ UNCHANGED coopView
  <2>1. CASE Die(t) \/ Trampoline(t)
    BY <1>1, <2>1, CoopIdle
  <2>2. CASE ~Die(t) /\ ~Trampoline(t)
    <3>1. t \in threads /\ HasControl(t) /\ pc[t] \in RunPcs
      BY <1>4, <2>2, ActorHasTurn
    <3>2. Turn = {t}
      BY <1>1, <3>1, TurnIs
    <3>3. ASSUME \/ Coop!Act(t) \/ Coop!Rest(t) \/ Coop!Exit(t)
                 \/ \E u \in Threads : Coop!Pass(t, u) \/ Coop!Spawn(t, u)
          PROVE  Coop!Next
      BY <3>3 DEF Coop!Next
    <3>4. CASE TurnQuiet(t)
      BY <1>1, <1>4, <3>1, <3>2, <3>3, <3>4, CoopAct DEF TurnQuiet
    <3>5. CASE DrainPendingChild(t) \/ DrainResume(t)
      <4>1. threads' = threads
        BY <3>5 DEF DrainPendingChild, DrainResume
      <4>2. pc'[t] \in {"switch", "drainwait", "create", "bwait"}
        <5>1. AfterDrain(t) => pc'[t] \in {"switch", "create", "bwait"}
          BY <1>1, AfterDrainEffect DEF DirectDrain
        <5>2. Goto(t, "drainwait") => pc'[t] = "drainwait"
          BY <1>1 DEF Goto, TypeOK
        <5> QED
          BY <3>5, <5>1, <5>2 DEF DrainPendingChild, DrainResume
      <4> QED
        BY <1>1, <1>4, <3>1, <3>2, <3>3, <4>1, <4>2, CoopAct DEF RunPcs
    <3>6. CASE ContextSwitch(t)
      BY <1>1, <1>4, <3>1, <3>2, <3>3, <3>6, CoopSwitch
    <3>7. CASE Joined(t) \/ BlockUntilReleased(t)
      BY <1>1, <1>4, <3>1, <3>2, <3>3, <3>7, CoopRest
    <3>8. CASE ThreadExit(t)
      BY <1>1, <3>1, <3>2, <3>3, <3>8, CoopExit
    <3>9. ASSUME NEW c \in Threads, Create(t, c) PROVE Coop!Next
      BY <1>1, <3>1, <3>2, <3>3, <3>9, CoopSpawn
    <3> QED
      BY <1>4, <2>2, <3>4, <3>5, <3>6, <3>7, <3>8, <3>9, TurnStep
  <2> QED
    BY <2>1, <2>2
<1> QED
  BY <1>2, <1>3, <1>4 DEF Next

(***************************************************************************)
(* The theorems.                                                           *)
(***************************************************************************)
\* Rsched refines the abstract cooperative scheduler: one thread has the turn,
\* context_switch and do_thread_exit hand it to a thread that is not blocked, and
\* it lapses only when every registered thread is blocked.
THEOREM CoopRefinement == NoOptions => (Spec => ImplementsCoop)
<1> SUFFICES ASSUME NoOptions PROVE Spec => ImplementsCoop
  OBVIOUS
<1>1. Init => Coop!Init
  <2> SUFFICES ASSUME Init PROVE Coop!Init
    OBVIOUS
  <2>1. threads = {Main} /\ Main \in Threads /\ pc[Main] = "user" /\ ~is_blocking[Main]
    BY ThreadsAssumption DEF Init, InitialPc
  <2>2. HasControl(Main)
    BY <2>1 DEF HasControl, Running, AwaitsLiveThread, RunPcs
  <2> QED
    BY <2>1, <2>2 DEF Coop!Init
<1>2. IndInv /\ TurnInv /\ [Next]_vars => [Coop!Next]_(Coop!coopVars)
  BY CoopStep DEF coopView, Coop!coopVars, Turn, BlockedSet
<1>3. Spec => []TurnInv
  BY TurnInvariant
<1> QED
  BY <1>1, <1>2, <1>3, IndInvariant, PTL DEF Spec, ImplementsCoop, Coop!Spec

\* As long as a registered thread is not blocked, some registered thread executes:
\* no hand-over of control, deferred start or exit loses it.
THEOREM NoStrandedThreadHolds == NoOptions => (Spec => []NoStrandedThread)
<1> SUFFICES ASSUME NoOptions PROVE Spec => []NoStrandedThread
  OBVIOUS
<1> DEFINE Kept == Turn = {} => threads \subseteq BlockedSet
<1>1. Kept <=> NoStrandedThread
  BY DEF NoStrandedThread, Turn, BlockedSet
<1>2. Init => NoStrandedThread
  <2> SUFFICES ASSUME Init PROVE NoStrandedThread
    OBVIOUS
  <2>1. Main \in threads /\ pc[Main] = "user"
    BY ThreadsAssumption DEF Init, InitialPc
  <2> QED
    BY <2>1 DEF NoStrandedThread, HasControl, Running, AwaitsLiveThread, RunPcs
<1>3. NoStrandedThread /\ (Coop!Next \/ UNCHANGED coopView) => NoStrandedThread'
  <2> SUFFICES ASSUME Kept, Coop!Next \/ UNCHANGED coopView PROVE Kept'
    BY DEF NoStrandedThread, Turn, BlockedSet
  <2>1. CASE UNCHANGED coopView
    BY <2>1 DEF coopView
  <2>2. ASSUME NEW t \in Threads, Coop!Act(t) PROVE Kept'
    BY <2>2 DEF Coop!Act, Turn
  <2>3. ASSUME NEW t \in Threads, Coop!Rest(t) PROVE Kept'
    BY <2>3 DEF Coop!Rest, Coop!Ready, Turn, BlockedSet
  <2>4. ASSUME NEW t \in Threads, Coop!Exit(t) PROVE Kept'
    BY <2>4 DEF Coop!Exit, Turn, BlockedSet
  <2>5. ASSUME NEW t \in Threads, NEW u \in Threads, Coop!Pass(t, u) \/ Coop!Spawn(t, u)
        PROVE  Kept'
    BY <2>5 DEF Coop!Pass, Coop!Spawn, Turn
  <2> QED
    BY <2>1, <2>2, <2>3, <2>4, <2>5 DEF Coop!Next
<1>4. IndInv /\ TurnInv /\ NoStrandedThread /\ [Next]_vars => NoStrandedThread'
  BY <1>3, CoopStep
<1>5. Spec => []TurnInv
  BY TurnInvariant
<1> QED
  BY <1>2, <1>4, <1>5, IndInvariant, PTL DEF Spec

=============================================================================
