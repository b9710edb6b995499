-------------------------- MODULE RschedStartProofs --------------------------
(***************************************************************************)
(* Proofs about the start of threads: the life of a StartArg between       *)
(* pthread_create, the child's trampoline and drain_pending_child, and     *)
(* what choose() is shown of a child.                                      *)
(***************************************************************************)
EXTENDS RschedProofs, RschedInvariants

USE DEF vars, threadVars, flags, args, child, lifeVars,
        syncVars, mutexVars, virtual, real, barrierVars

\* The part of the inductive invariant that is about start-up.
StartupInv == StartInv /\ CreateInv /\ KeptInv /\ FlagInv /\ GateInv

\* At first no thread is being created.
LEMMA InitStartup == Init => StartupInv
<1> SUFFICES ASSUME Init PROVE StartupInv
  OBVIOUS
<1> USE ThreadsAssumption DEF Init, InitialPc
<1>1. StartInv
  BY DEF StartInv, Drains
<1>2. CreateInv
  BY DEF CreateInv, DirectDrain, At
<1>3. KeptInv
  BY DEF KeptInv
<1>4. FlagInv /\ GateInv
  BY DEF FlagInv, GateInv
<1> QED
  BY <1>1, <1>2, <1>3, <1>4 DEF StartupInv

(***************************************************************************)
(* Most functions have nothing to do with the start of threads.            *)
(***************************************************************************)
StartQuiet(t) ==
    /\ UNCHANGED <<threads, startup_done, pending_child, start_arg, draining>>
    /\ \A u \in Threads \ {t} : pc'[u] = pc[u]
    /\ pc[t] \notin {"tramp", "gate", "wait", "drainwait"}
    /\ pc'[t] \notin {"unborn", "tramp", "gate", "drainwait", "create"}
    /\ ret'[t] \in DirectDrain => pc'[t] = "drain"
    /\ \A u \in Threads \ {t} : is_in_rsched_wait'[u] = is_in_rsched_wait[u]
    /\ pc'[t] \in {"wait", "woken"} => is_in_rsched_wait'[t]

\* The functions that create, drain, start, end or reap a thread or signal one.
StartStep(t) ==
    \/ ContextSwitch(t) \/ DrainPendingChild(t) \/ DrainResume(t)
    \/ Trampoline(t) \/ TsanStartGate(t) \/ RealJoin(t) \/ ThreadExit(t)
    \/ \E c \in Threads : Create(t, c)

\* All the others leave the StartArgs and the start-up flags alone.
LEMMA StartQuietStep ==
  ASSUME TypeOK, ControlInv, CreateInv, NEW t \in Threads, Internal(t) \/ UserCall(t)
  PROVE  StartQuiet(t) \/ StartStep(t)
<1> USE DEF TypeOK, StartQuiet, Goto, CallContextSwitch, CallDrain, DirectDrain
<1>0. pc[t] \notin {"drain", "drainwait"} => ret[t] \notin DirectDrain
  BY DEF CreateInv
<1>1. CASE Return(t)
  BY <1>0, <1>1 DEF Return, Leave
<1>2. CASE Resume(t)
  BY <1>0, <1>2 DEF Resume, ReturnTo, ControlInv, ControlOK, AwayPcs, RetLabels
<1>3. CASE CreateFails(t) \/ Die(t) \/ Joined(t)
  BY <1>0, <1>3 DEF CreateFails, Die, Joined
<1>4. CASE Join(t)
  BY <1>0, <1>4 DEF Join
<1>5. CASE MutexLock(t)
  BY <1>0, <1>5 DEF MutexLock
<1>6. CASE BlockUntilReleased(t)
  BY <1>0, <1>6 DEF BlockUntilReleased, Suspend, AfterBlocking
<1>7. CASE RealLock(t) \/ Trylock(t)
  BY <1>0, <1>7 DEF RealLock, Trylock
<1>8. CASE Unlock(t)
  BY <1>0, <1>8 DEF Unlock
<1>9. CASE CondWait(t)
  BY <1>0, <1>9 DEF CondWait
<1>10. CASE BarrierInit(t) \/ BarrierWait(t)
  BY <1>0, <1>10 DEF BarrierInit, BarrierWait
<1>11. CASE SchedYield(t) \/ ScheduleMemop(t) \/ CallCreate(t)
  BY <1>11 DEF SchedYield, ScheduleMemop, SchedulingPoint, MayCall, CallCreate
<1>12. ASSUME NEW x \in Threads, CallJoin(t, x) PROVE StartQuiet(t)
  BY <1>12 DEF CallJoin
<1>13. ASSUME NEW m \in Mutexes, CallLock(t, m) \/ CallTrylock(t, m) \/ CallUnlock(t, m)
       PROVE  StartQuiet(t)
  BY <1>0, <1>13, SMTT(30) DEF CallLock, CallTrylock, CallUnlock, EnterMutexOp, MayCall
<1>14. ASSUME NEW c \in Conds, NEW W, ReleaseCondWaiters(t, c, W) PROVE StartQuiet(t)
  BY <1>14 DEF ReleaseCondWaiters
<1>15. ASSUME NEW c \in Conds, NEW m \in Mutexes, CallCondWait(t, c, m) PROVE StartQuiet(t)
  BY <1>0, <1>15, SMTT(30) DEF CallCondWait
<1>16. ASSUME NEW b \in Barriers, CallBarrierInit(t, b) \/ CallBarrierWait(t, b)
       PROVE  StartQuiet(t)
  BY <1>16, SMTT(30) DEF CallBarrierInit, CallBarrierWait, EnterBarrierOp
<1> HIDE DEF StartQuiet
<1>17. CASE Internal(t)
  BY <1>17, <1>1, <1>2, <1>3, <1>4, <1>5, <1>6, <1>7, <1>8, <1>9, <1>10
     DEF Internal, StartStep
<1>18. CASE UserCall(t)
  BY <1>18, <1>11, <1>12, <1>13, <1>14, <1>15, <1>16
     DEF UserCall, CondSignal, CondBroadcast, StartStep
<1> QED
  BY <1>17, <1>18

\* A signal goes to a thread whose start-up is done: the other effects of a
\* scheduling decision (context_switch) are on the caller alone.
LEMMA ContextSwitchEffect ==
  ASSUME TypeOK, NEW t \in Threads, ContextSwitch(t)
  PROVE  /\ UNCHANGED <<threads, is_blocking, pending_child, start_arg, draining>>
         /\ startup_done' \in {startup_done, [startup_done EXCEPT ![t] = TRUE]}
         /\ \/ ReturnTo(t, pc) /\ UNCHANGED <<gmtx, is_in_rsched_wait>>
            \/ /\ t \in threads
               /\ \E n \in threads \ {t} :
                    /\ ~is_blocking[n] /\ startup_done[n] /\ is_in_rsched_wait[n]
                    /\ Suspend(t, Signal(n))
               /\ ret' = ret
<1>1. CASE ReturnTo(t, pc) /\ UNCHANGED <<gmtx, is_in_rsched_wait>>
  BY <1>1 DEF ContextSwitch
<1>2. ASSUME ~Alone(t), startup_done' = [startup_done EXCEPT ![t] = TRUE],
             NEW n \in Choosable(threads, is_blocking, [startup_done EXCEPT ![t] = TRUE]),
             n # t, Suspend(t, Signal(n)), UNCHANGED ret
      PROVE  /\ t \in threads
             /\ n \in threads \ {t}
             /\ ~is_blocking[n] /\ startup_done[n] /\ is_in_rsched_wait[n]
  BY <1>2 DEF Alone, Choosable, TypeOK
<1> QED
  BY <1>1, <1>2 DEF ContextSwitch, Wake

\* do_thread_exit signals a thread whose start-up is done, if any.
LEMMA ThreadExitEffect ==
  ASSUME TypeOK, ControlInv, NEW t \in Threads, ThreadExit(t)
  PROVE  /\ pc[t] = "user" /\ t \in threads
         /\ threads' = threads \ {t}
         /\ is_blocking' = ExitFlags(t)
         /\ UNCHANGED <<startup_done, is_in_rsched_wait, pending_child, start_arg, draining,
                        ret, joiner, args>>
         /\ \/ /\ pc' = [pc EXCEPT ![t] = "teardown"]
               /\ Choosable(threads', is_blocking', startup_done) = {}
            \/ \E n \in threads \ {t} :
                 /\ ~is_blocking'[n] /\ startup_done[n] /\ is_in_rsched_wait[n]
                 /\ pc' = [Signal(n) EXCEPT ![t] = "teardown"]
BY DEF ThreadExit, Choosable, Goto, ControlInv, ControlOK, At

(***************************************************************************)
(* StartInv.                                                               *)
(***************************************************************************)
\* A step of t that touches no StartArg, and moves another thread only to wake
\* one whose start-up is done or to reap a dead one.
StartMoves(t) ==
    /\ UNCHANGED <<pending_child, start_arg, draining>>
    /\ pc[t] \notin {"tramp", "gate", "wait", "drainwait"}
    /\ pc'[t] \notin {"tramp", "drainwait"}
    /\ \A u \in Threads \ {t} :
         /\ startup_done'[u] = startup_done[u]
         /\ \/ pc'[u] = pc[u]
            \/ pc[u] = "wait" /\ pc'[u] = "woken" /\ startup_done[u]
            \/ pc[u] = "dead" /\ pc'[u] = "unborn"

\* Such a step preserves StartInv.
LEMMA StartMovesKeep ==
  ASSUME TypeOK, ControlInv, StartInv, NEW t \in Threads, StartMoves(t)
  PROVE  StartInv'
<1>1. pending_child # None => pending_child \in Threads
  BY DEF TypeOK
<1>2. ASSUME NEW c \in Threads, Starting(c) PROVE Starting(c)'
  BY <1>2 DEF Starting, StartMoves
<1>3. ASSUME NEW u \in Threads, NEW c \in Threads PROVE Drains(u, c)' => Drains(u, c)
  BY DEF Drains, StartMoves
<1>4. ASSUME NEW c \in Threads, pc'[c] = "tramp"
      PROVE  start_arg'[c] = "alloc" /\ ~startup_done'[c]
  BY <1>4 DEF StartInv, StartMoves
<1>5. pending_child' = pending_child
  BY DEF StartMoves
<1> QED
  BY <1>1, <1>2, <1>3, <1>4, <1>5 DEF StartInv

\* context_switch, do_thread_exit and the end of a join only move threads.
LEMMA StartMovesStep ==
  ASSUME TypeOK, ControlInv, NEW t \in Threads,
         ContextSwitch(t) \/ ThreadExit(t) \/ RealJoin(t)
  PROVE  StartMoves(t)
<1>1. CASE ContextSwitch(t)
  <2>1. pc[t] = "switch" /\ ret[t] \in RetLabels
    BY <1>1 DEF ContextSwitch, TypeOK
  <2>2. /\ UNCHANGED <<pending_child, start_arg, draining>>
        /\ \A u \in Threads \ {t} : startup_done'[u] = startup_done[u]
    BY <1>1, ContextSwitchEffect DEF TypeOK
  <2>3. CASE ReturnTo(t, pc)
    BY <2>1, <2>2, <2>3 DEF ReturnTo, StartMoves, TypeOK, RetLabels
  <2>4. ASSUME NEW n \in threads \ {t}, startup_done[n], Suspend(t, Signal(n))
        PROVE  StartMoves(t)
    BY <2>1, <2>2, <2>4 DEF Suspend, Signal, StartMoves, TypeOK
  <2> QED
    BY <1>1, <2>3, <2>4, ContextSwitchEffect
<1>2. CASE ThreadExit(t)
  <2>1. /\ pc[t] = "user"
        /\ UNCHANGED <<startup_done, pending_child, start_arg, draining>>
    BY <1>2, ThreadExitEffect
  <2>2. CASE pc' = [pc EXCEPT ![t] = "teardown"]
    BY <2>1, <2>2 DEF StartMoves, TypeOK
  <2>3. ASSUME NEW n \in threads \ {t}, startup_done[n],
               pc' = [Signal(n) EXCEPT ![t] = "teardown"]
        PROVE  StartMoves(t)
    BY <2>1, <2>3 DEF StartMoves, TypeOK, Signal
  <2> QED
    BY <1>2, <2>2, <2>3, ThreadExitEffect
<1>3. CASE RealJoin(t)
  <2>1. obj[t] \in Threads
    BY <1>3 DEF RealJoin, ControlInv, ControlOK, At
  <2> QED
    BY <1>3, <2>1 DEF RealJoin, StartMoves, TypeOK
<1> QED
  BY <1>1, <1>2, <1>3

\* drain_pending_child ends: either in choose() or in the caller's own code.
LEMMA AfterDrainEffect ==
  ASSUME TypeOK, NEW t \in Threads, AfterDrain(t)
  PROVE  /\ \A u \in Threads \ {t} : pc'[u] = pc[u]
         /\ \/ ret[t] \in DirectDrain /\ pc'[t] = ret[t] /\ ret'[t] = "none"
            \/ ret[t] \notin DirectDrain /\ pc'[t] = "switch" /\ ret'[t] = ret[t]
BY DEF AfterDrain, ReturnTo, Goto, TypeOK

\* The StartArg of a child that has published `ready` is freed by its keeper.
LEMMA FreeKeeps ==
  ASSUME TypeOK, StartInv, NEW t \in Threads, NEW d \in Threads,
         pc[t] \in {"drain", "drainwait"}, start_arg[d] = "ready", FreeStartArg(d),
         \A u \in Threads \ {t} : pc'[u] = pc[u] /\ draining'[u] = draining[u],
         pc'[t] \notin {"tramp", "drainwait"},
         pending_child' \in {None, pending_child}, pending_child' # d,
         \A u \in Threads \ {t} : ~Drains(u, d)
  PROVE  StartInv'
<1>1. \A c \in Threads \ {d} : start_arg'[c] = start_arg[c] /\ startup_done'[c] = startup_done[c]
  BY DEF FreeStartArg, TypeOK
<1>2. ASSUME NEW c \in Threads \ {d}, Starting(c) PROVE Starting(c)'
  BY <1>1, <1>2 DEF Starting
<1>3. ASSUME NEW u \in Threads, NEW c \in Threads, Drains(u, c)'
      PROVE  Drains(u, c) /\ c # d
  BY <1>3 DEF Drains
<1>4. ASSUME NEW c \in Threads, pc'[c] = "tramp"
      PROVE  start_arg'[c] = "alloc" /\ ~startup_done'[c]
  BY <1>1, <1>4 DEF StartInv
<1>5. pending_child' # None => pending_child \in Threads \ {d} /\ pending_child' = pending_child
  BY DEF TypeOK
<1> QED
  BY <1>2, <1>3, <1>4, <1>5, ThreadsAssumption DEF StartInv

\* Every StartArg that is still needed has one keeper: pthread_create, the
\* trampoline and drain_pending_child preserve it.
LEMMA StartInvStep == IndInv /\ StartupInv /\ [Next]_vars => StartInv'
<1> SUFFICES ASSUME IndInv, StartupInv, [Next]_vars PROVE StartInv'
  OBVIOUS
<1>1. TypeOK /\ ControlInv /\ StartInv /\ CreateInv
  BY DEF IndInv, StartupInv
<1>2. CASE UNCHANGED vars
  BY <1>1, <1>2 DEF StartInv, Starting, Drains
<1>3. CASE Reinit
  BY <1>1, <1>3 DEF Reinit, FreshState, InitialPc, StartInv, Starting, Drains
<1>4. ASSUME NEW t \in Threads, Internal(t) \/ UserCall(t) PROVE StartInv'
  <2>1. CASE StartQuiet(t)
    <3>1. StartMoves(t)
      BY <2>1 DEF StartQuiet, StartMoves
    <3> QED
      BY <1>1, <3>1, StartMovesKeep
  <2>2. CASE ContextSwitch(t) \/ ThreadExit(t) \/ RealJoin(t)
    BY <1>1, <2>2, StartMovesStep, StartMovesKeep
  <2>3. CASE DrainPendingChild(t)
    <3>1. pc[t] = "drain" /\ pending_child' = None
      BY <2>3 DEF DrainPendingChild
    <3>2. CASE pending_child = None
      <4>1. StartMoves(t)
        <5>1. AfterDrain(t) /\ UNCHANGED <<startup_done, start_arg, draining>>
          BY <2>3, <3>2 DEF DrainPendingChild
        <5> QED
          BY <1>1, <3>1, <3>2, <5>1, AfterDrainEffect DEF StartMoves, DirectDrain
      <4> QED
        BY <1>1, <4>1, StartMovesKeep
    <3>3. CASE pending_child # None /\ MustAwait(pending_child)
      <4>1. /\ draining' = [draining EXCEPT ![t] = pending_child]
            /\ pc' = [pc EXCEPT ![t] = "drainwait"]
            /\ UNCHANGED <<startup_done, start_arg>>
        BY <2>3, <3>3 DEF DrainPendingChild, Goto
      <4>2. pending_child \in Threads
        BY <1>1, <3>3 DEF TypeOK
      <4>3. \A u \in Threads \ {t} : pc'[u] = pc[u] /\ draining'[u] = draining[u]
        BY <1>1, <4>1 DEF TypeOK
      <4>4. pc'[t] = "drainwait" /\ draining'[t] = pending_child
        BY <1>1, <4>1 DEF TypeOK
      <4>5. \A u, c \in Threads : Drains(u, c)' <=>
               IF u = t THEN c = pending_child ELSE Drains(u, c)
        BY <4>3, <4>4 DEF Drains
      <4>6. ASSUME NEW c \in Threads, Starting(c) PROVE Starting(c)'
        BY <3>1, <4>1, <4>3, <4>6 DEF Starting
      <4>7. \A c \in Threads : pc'[c] = "tramp" => start_arg'[c] = "alloc" /\ ~startup_done'[c]
        BY <1>1, <4>1, <4>3, <4>4 DEF StartInv
      <4> QED
        BY <1>1, <3>1, <3>3, <4>2, <4>5, <4>6, <4>7, ThreadsAssumption DEF StartInv
    <3>4. CASE pending_child # None /\ ~MustAwait(pending_child)
      <4>1. FreeStartArg(pending_child) /\ AfterDrain(t) /\ draining' = draining
        BY <2>3, <3>4 DEF DrainPendingChild
      <4>2. pending_child \in Threads /\ start_arg[pending_child] = "ready"
        BY <1>1, <3>4 DEF TypeOK, MustAwait
      <4>3. /\ \A u \in Threads \ {t} : pc'[u] = pc[u]
            /\ pc'[t] \notin {"tramp", "drainwait"}
        BY <1>1, <4>1, AfterDrainEffect DEF DirectDrain
      <4>4. \A u \in Threads : ~Drains(u, pending_child)
        BY <1>1, <4>2 DEF StartInv
      <4> QED
        BY <1>1, <3>1, <4>1, <4>2, <4>3, <4>4, FreeKeeps, ThreadsAssumption
    <3> QED
      BY <3>2, <3>3, <3>4
  <2>4. CASE DrainResume(t)
    <3>1. pc[t] = "drainwait" /\ pending_child' = pending_child
      BY <2>4 DEF DrainResume
    <3>2. draining[t] \in Threads /\ start_arg[draining[t]] = "ready"
      BY <1>1, <2>4, <3>1 DEF DrainResume, MustAwait, ControlInv, ControlOK
    <3>3. FreeStartArg(draining[t]) /\ AfterDrain(t) /\ draining' = [draining EXCEPT ![t] = None]
      BY <2>4 DEF DrainResume
    <3>4. /\ \A u \in Threads \ {t} : pc'[u] = pc[u] /\ draining'[u] = draining[u]
          /\ pc'[t] \notin {"tramp", "drainwait"}
      BY <1>1, <3>3, AfterDrainEffect DEF DirectDrain, TypeOK
    <3>5. Drains(t, draining[t])
      BY <3>1 DEF Drains
    <3>6. pending_child # draining[t] /\ \A u \in Threads \ {t} : ~Drains(u, draining[t])
      BY <1>1, <3>2, <3>5 DEF StartInv
    <3> QED
      BY <1>1, <3>1, <3>2, <3>3, <3>4, <3>6, FreeKeeps
  <2>5. CASE Trampoline(t) \/ TsanStartGate(t)
    BY <1>1, <2>5, SMTT(30) DEF Trampoline, TsanStartGate, Suspend, Goto,
       TypeOK, StartInv, Starting, Drains
  <2>6. ASSUME NEW c \in Threads, Create(t, c) PROVE StartInv'
    BY <1>1, <2>6, ThreadsAssumption, SMTT(30) DEF Create, AddChild,
       TypeOK, StartInv, Starting, Drains
  <2> QED
    BY <1>1, <1>4, <2>1, <2>2, <2>3, <2>4, <2>5, <2>6, StartQuietStep DEF StartStep
<1> QED
  BY <1>2, <1>3, <1>4 DEF Next

(***************************************************************************)
(* CreateInv and KeptInv.                                                  *)
(***************************************************************************)
\* Nobody else fills the pending slot while a thread is about to create one:
\* both would be running.
LEMMA CreateInvStep == IndInv /\ StartupInv /\ [Next]_vars => CreateInv'
<1> SUFFICES ASSUME IndInv, StartupInv, [Next]_vars PROVE CreateInv'
  OBVIOUS
<1>1. TypeOK /\ ControlInv /\ OneRunner /\ StartInv /\ CreateInv
  BY DEF IndInv, StartupInv
<1>2. CASE UNCHANGED vars
  BY <1>1, <1>2 DEF CreateInv, At
<1>3. CASE Reinit
  <2>1. \A t \in Threads : pc'[t] \in {"user", "unborn"} /\ ret' = ret /\ pc' = pc
    BY <1>3 DEF Reinit, InitialPc
  <2>2. pending_child' = None
    BY <1>3 DEF Reinit, FreshState
  <2> QED
    BY <1>1, <2>1, <2>2 DEF CreateInv
<1>4. ASSUME NEW t \in Threads, Internal(t) \/ UserCall(t) PROVE CreateInv'
  <2>1. Frame(t)
    BY <1>1, <1>4, FrameStep
  <2>2. ASSUME NEW u \in Threads \ {t}, ret'[u] \in DirectDrain
        PROVE  pc'[u] \in {"drain", "drainwait"}
    BY <1>1, <2>1, <2>2 DEF Frame, Moved, CreateInv
  <2>3. ASSUME pending_child' = pending_child \/ pending_child' = None, NEW u \in Threads \ {t},
               At(u, {"create"})', pc'[u] # "drain"
        PROVE  pending_child' = None
    BY <1>1, <2>1, <2>3 DEF Frame, Moved, CreateInv, At
  <2>4. ASSUME ret'[t] \in DirectDrain => pc'[t] \in {"drain", "drainwait"},
               pending_child' = pending_child \/ pending_child' = None,
               At(t, {"create"})' /\ pc'[t] # "drain" => pending_child' = None
        PROVE  CreateInv'
    BY <2>2, <2>3, <2>4 DEF CreateInv
  <2>5. pc[t] \notin {"drain", "drainwait"} => ret[t] \notin DirectDrain
    BY <1>1 DEF CreateInv
  <2>6. CASE StartQuiet(t)
    BY <2>4, <2>6 DEF StartQuiet, At, DirectDrain
  <2>7. CASE ContextSwitch(t)
    <3>1. pc[t] = "switch" /\ pending_child' = pending_child
      BY <2>7 DEF ContextSwitch
    <3>2. CASE ReturnTo(t, pc)
      BY <1>1, <2>4, <2>5, <3>1, <3>2 DEF ReturnTo, At, DirectDrain, TypeOK
    <3>3. ASSUME NEW n, Suspend(t, Signal(n)), UNCHANGED ret PROVE CreateInv'
      BY <1>1, <2>4, <2>5, <3>1, <3>3 DEF Suspend, Signal, At, DirectDrain, TypeOK
    <3> QED
      BY <1>1, <2>7, <3>2, <3>3, ContextSwitchEffect
  <2>8. CASE DrainPendingChild(t)
    <3>1. pc[t] = "drain" /\ pending_child' = None
      BY <2>8 DEF DrainPendingChild
    <3>2. CASE AfterDrain(t)
      BY <1>1, <2>4, <3>1, <3>2, AfterDrainEffect DEF DirectDrain
    <3>3. CASE Goto(t, "drainwait")
      BY <1>1, <2>4, <3>1, <3>3 DEF Goto, TypeOK
    <3> QED
      BY <2>8, <3>2, <3>3 DEF DrainPendingChild
  <2>9. CASE DrainResume(t)
    <3>1. pc[t] = "drainwait" /\ pending_child' = pending_child /\ AfterDrain(t)
      BY <2>9 DEF DrainResume
    <3>2. ret[t] = "create" => pending_child = None
      BY <1>1, <3>1 DEF CreateInv, At
    <3> QED
      BY <1>1, <2>4, <3>1, <3>2, AfterDrainEffect DEF DirectDrain, At
  <2>10. CASE Trampoline(t) \/ TsanStartGate(t) \/ RealJoin(t) \/ ThreadExit(t)
    <3>1. /\ pc[t] \in {"tramp", "gate", "realjoin", "user"}
          /\ pending_child' = pending_child
          /\ pc'[t] \in {"gate", "wait", "user", "teardown"}
          /\ ret'[t] \in {ret[t], "gunlock"}
      BY <1>1, <2>10, SMTT(30) DEF Trampoline, TsanStartGate, RealJoin, ThreadExit, Suspend, Goto, Signal, TypeOK
    <3> QED
      BY <2>4, <2>5, <3>1 DEF At, DirectDrain
  <2>11. ASSUME NEW c \in Threads, Create(t, c) PROVE CreateInv'
    <3>1. /\ pc[t] = "create" /\ pc[c] = "unborn"
          /\ pc'[t] = "user" /\ ret' = ret
          /\ \A u \in Threads \ {t} : pc'[u] = IF u = c THEN "tramp" ELSE pc[u]
      BY <1>1, <2>11 DEF Create, TypeOK
    <3>2. t \in threads /\ Running(t)
      BY <1>1, <3>1 DEF ControlInv, ControlOK, At, Running, RunPcs
    <3>3. ASSUME NEW u \in Threads \ {t} PROVE ~(At(u, {"create"})' /\ pc'[u] # "drain")
      <4>1. SUFFICES ASSUME At(u, {"create"})' PROVE FALSE
        OBVIOUS
      <4>2. At(u, {"create"})
        BY <3>1, <4>1 DEF At
      <4>3. u \in threads
        BY <1>1, <4>2 DEF ControlInv, ControlOK, At
      <4>4. pc[u] \in {"create", "drain", "drainwait"}
        BY <1>1, <4>2 DEF At, CreateInv, DirectDrain
      <4> QED
        BY <1>1, <3>2, <4>3, <4>4 DEF OneRunner, Running, RunPcs
    <3> QED
      BY <2>2, <2>5, <3>1, <3>3 DEF CreateInv, At, DirectDrain
  <2> QED
    BY <1>1, <1>4, <2>6, <2>7, <2>8, <2>9, <2>10, <2>11, StartQuietStep DEF StartStep
<1> QED
  BY <1>2, <1>3, <1>4 DEF Next

\* No StartArg leaks: a drain hands it on or frees it, and a new one goes to an
\* empty slot.
LEMMA KeptInvStep == IndInv /\ StartupInv /\ [Next]_vars => KeptInv'
<1> SUFFICES ASSUME IndInv, StartupInv, [Next]_vars PROVE KeptInv'
  OBVIOUS
<1>1. TypeOK /\ ControlInv /\ StartInv /\ CreateInv /\ KeptInv
  BY DEF IndInv, StartupInv
<1> DEFINE Needed(c) == start_arg[c] # "free" \/ (c \in threads /\ ~startup_done[c])
           NeededNext(c) == start_arg'[c] # "free" \/ (c \in threads' /\ ~startup_done'[c])
           Kept(c) == pending_child = c \/ \E u \in Threads : Drains(u, c)
           KeptNext(c) == pending_child' = c \/ \E u \in Threads : Drains(u, c)'
<1>2. \A c \in Threads : Needed(c) => Kept(c)
  BY <1>1 DEF KeptInv
<1>3. SUFFICES \A c \in Threads : NeededNext(c) => KeptNext(c)
  BY DEF KeptInv
<1>4. CASE UNCHANGED vars
  BY <1>2, <1>4 DEF Drains
<1>5. CASE Reinit
  <2>1. \A c \in Threads : pc[c] \in {"user", "unborn"}
    BY <1>5 DEF Reinit, InitialPc
  <2>2. \A c \in Threads : ~Kept(c)
    BY <1>1, <2>1, ThreadsAssumption DEF StartInv, Starting, Drains
  <2>3. /\ start_arg' = start_arg /\ threads' = {Main}
        /\ startup_done' = [t \in Threads |-> t = Main]
    BY <1>5 DEF Reinit, FreshState
  <2> QED
    BY <1>2, <2>2, <2>3
<1>6. ASSUME NEW t \in Threads, Internal(t) \/ UserCall(t),
             NEW c \in Threads, NeededNext(c)
      PROVE  KeptNext(c)
  <2>1. ASSUME StartMoves(t), threads' \subseteq threads, startup_done[t] => startup_done'[t]
        PROVE  KeptNext(c)
    <3>1. Needed(c) /\ pending_child' = pending_child
      BY <1>6, <2>1 DEF StartMoves
    <3>2. \A u \in Threads : Drains(u, c) => Drains(u, c)'
      BY <2>1 DEF StartMoves, Drains
    <3> QED
      BY <1>2, <3>1, <3>2
  <2>2. CASE StartQuiet(t)
    BY <2>1, <2>2 DEF StartQuiet, StartMoves
  <2>3. CASE ContextSwitch(t) \/ ThreadExit(t) \/ RealJoin(t)
    <3>1. threads' \subseteq threads /\ (startup_done[t] => startup_done'[t])
      BY <1>1, <2>3, ContextSwitchEffect, ThreadExitEffect DEF RealJoin, TypeOK
    <3> QED
      BY <1>1, <2>1, <2>3, <3>1, StartMovesStep
  <2>4. ASSUME NEW d \in Threads, FreeStartArg(d), threads' = threads,
               \A u \in Threads \ {t} : pc'[u] = pc[u] /\ draining'[u] = draining[u],
               Drains(t, d), pending_child' = pending_child
        PROVE  KeptNext(c)
    <3>1. start_arg'[d] = "free" /\ startup_done'[d]
      BY <1>1, <2>4 DEF FreeStartArg, TypeOK
    <3>2. c # d
      BY <1>6, <3>1
    <3>3. Needed(c)
      BY <1>1, <1>6, <2>4, <3>2 DEF FreeStartArg, TypeOK
    <3>4. ASSUME NEW u \in Threads, Drains(u, c) PROVE Drains(u, c)'
      BY <2>4, <3>2, <3>4 DEF Drains
    <3> QED
      BY <1>2, <2>4, <3>3, <3>4
  <2>5. CASE DrainPendingChild(t)
    <3>1. pc[t] = "drain" /\ pending_child' = None /\ threads' = threads
      BY <2>5 DEF DrainPendingChild
    <3>2. CASE pending_child = None
      <4>1. AfterDrain(t) /\ UNCHANGED <<startup_done, start_arg, draining>>
        BY <2>5, <3>2 DEF DrainPendingChild
      <4>2. StartMoves(t)
        BY <1>1, <3>1, <3>2, <4>1, AfterDrainEffect DEF StartMoves, DirectDrain
      <4> QED
        BY <2>1, <3>1, <4>1, <4>2
    <3>3. CASE pending_child # None /\ MustAwait(pending_child)
      <4>1. /\ draining' = [draining EXCEPT ![t] = pending_child]
            /\ pc' = [pc EXCEPT ![t] = "drainwait"]
            /\ UNCHANGED <<startup_done, start_arg>>
        BY <2>5, <3>3 DEF DrainPendingChild, Goto
      <4>2. Needed(c)
        BY <1>6, <3>1, <4>1
      <4>3. c = pending_child => Drains(t, c)'
        BY <1>1, <4>1 DEF TypeOK, Drains
      <4>4. ASSUME NEW u \in Threads, Drains(u, c) PROVE Drains(u, c)'
        BY <1>1, <3>1, <4>1, <4>4 DEF TypeOK, Drains
      <4> QED
        BY <1>2, <4>2, <4>3, <4>4
    <3>4. CASE pending_child # None /\ ~MustAwait(pending_child)
      <4>1. FreeStartArg(pending_child) /\ AfterDrain(t) /\ draining' = draining
        BY <2>5, <3>4 DEF DrainPendingChild
      <4>2. pending_child \in Threads
        BY <1>1, <3>4 DEF TypeOK
      <4>3. start_arg'[pending_child] = "free" /\ startup_done'[pending_child]
        BY <1>1, <4>1, <4>2 DEF FreeStartArg, TypeOK
      <4>4. c # pending_child /\ Needed(c)
        BY <1>1, <1>6, <3>1, <4>1, <4>3 DEF FreeStartArg, TypeOK
      <4>5. PICK u \in Threads : Drains(u, c)
        BY <1>2, <4>4
      <4>6. Drains(u, c)'
        BY <1>1, <3>1, <4>1, <4>5, AfterDrainEffect DEF Drains
      <4> QED
        BY <4>6
    <3> QED
      BY <3>2, <3>3, <3>4
  <2>6. CASE DrainResume(t)
    <3>1. /\ pc[t] = "drainwait" /\ pending_child' = pending_child /\ threads' = threads
          /\ FreeStartArg(draining[t]) /\ AfterDrain(t)
          /\ draining' = [draining EXCEPT ![t] = None]
      BY <2>6 DEF DrainResume
    <3>2. draining[t] \in Threads /\ Drains(t, draining[t])
      BY <1>1, <3>1 DEF ControlInv, ControlOK, Drains
    <3>3. \A u \in Threads \ {t} : pc'[u] = pc[u] /\ draining'[u] = draining[u]
      BY <1>1, <3>1, AfterDrainEffect DEF TypeOK
    <3> QED
      BY <2>4, <3>1, <3>2, <3>3
  <2>7. CASE Trampoline(t) \/ TsanStartGate(t)
    <3>1. /\ UNCHANGED <<threads, startup_done, pending_child, draining>>
          /\ \A u \in Threads \ {t} : pc'[u] = pc[u] /\ start_arg'[u] = start_arg[u]
          /\ pc[t] # "drainwait"
          /\ start_arg'[t] = start_arg[t] \/ pc[t] = "tramp"
      BY <1>1, <2>7, SMTT(30) DEF Trampoline, TsanStartGate, Suspend, Goto, TypeOK
    <3>2. Needed(c)
      BY <1>1, <1>6, <3>1 DEF StartInv
    <3>3. ASSUME NEW u \in Threads, Drains(u, c) PROVE Drains(u, c)'
      BY <3>1, <3>3 DEF Drains
    <3> QED
      BY <1>2, <3>1, <3>2, <3>3
  <2>8. ASSUME NEW d \in Threads, Create(t, d) PROVE KeptNext(c)
    <3>1. CASE c = d
      BY <2>8, <3>1 DEF Create, AddChild
    <3>2. CASE c # d
      <4>1. pc[t] = "create" /\ pc[d] = "unborn" /\ pending_child = None
        BY <1>1, <2>8 DEF Create, CreateInv, At
      <4>2. Needed(c)
        BY <1>1, <1>6, <2>8, <3>2 DEF Create, AddChild, TypeOK
      <4>3. PICK u \in Threads : Drains(u, c)
        BY <1>2, <4>1, <4>2, ThreadsAssumption
      <4>4. Drains(u, c)'
        BY <1>1, <2>8, <4>1, <4>3 DEF Create, Drains, TypeOK
      <4> QED
        BY <4>4
    <3> QED
      BY <3>1, <3>2
  <2> QED
    BY <1>1, <1>6, <2>2, <2>3, <2>5, <2>6, <2>7, <2>8, StartQuietStep DEF StartStep
<1> QED
  BY <1>4, <1>5, <1>6 DEF Next

\* choose() sees every thread that waits for its turn.
LEMMA FlagInvStep == IndInv /\ StartupInv /\ [Next]_vars => FlagInv'
<1> SUFFICES ASSUME IndInv, StartupInv, [Next]_vars PROVE FlagInv'
  OBVIOUS
<1>1. TypeOK /\ ControlInv /\ FlagInv
  BY DEF IndInv, StartupInv
<1> USE <1>1 DEF FlagInv
<1>2. CASE UNCHANGED vars
  BY <1>2
<1>3. CASE Reinit
  BY <1>3 DEF Reinit, FreshState, InitialPc
<1>4. ASSUME NEW t \in Threads, Internal(t) \/ UserCall(t) PROVE FlagInv'
  <2>1. ASSUME \A u \in Threads \ {t} :
                  /\ pc'[u] \in {"wait", "woken"} => pc[u] \in {"wait", "woken"}
                  /\ is_in_rsched_wait'[u] = is_in_rsched_wait[u],
               pc'[t] \in {"wait", "woken"} => is_in_rsched_wait'[t]
        PROVE  FlagInv'
    BY <2>1
  <2>2. \A u \in Threads \ {t} : pc'[u] \in {"wait", "woken"} => pc[u] \in {"wait", "woken"}
    BY <1>4, FrameStep DEF Frame, Moved
  <2>3. CASE StartQuiet(t)
    BY <2>1, <2>2, <2>3 DEF StartQuiet
  <2>4. ASSUME NEW p, Suspend(t, p) PROVE FlagInv'
    BY <2>1, <2>2, <2>4 DEF Suspend, TypeOK
  <2>5. CASE ContextSwitch(t)
    <3>1. CASE ReturnTo(t, pc) /\ is_in_rsched_wait' = is_in_rsched_wait
      BY <2>1, <2>2, <3>1 DEF ReturnTo, TypeOK, RetLabels
    <3> QED
      BY <2>4, <2>5, <3>1, ContextSwitchEffect
  <2>6. CASE DrainPendingChild(t) \/ DrainResume(t)
    <3>1. is_in_rsched_wait' = is_in_rsched_wait
      BY <2>6 DEF DrainPendingChild, DrainResume
    <3>2. CASE AfterDrain(t)
      BY <2>1, <2>2, <3>1, <3>2, AfterDrainEffect DEF DirectDrain
    <3>3. CASE Goto(t, "drainwait")
      BY <2>1, <2>2, <3>1, <3>3 DEF Goto, TypeOK
    <3> QED
      BY <2>6, <3>2, <3>3 DEF DrainPendingChild, DrainResume
  <2>7. CASE Trampoline(t) \/ TsanStartGate(t)
    <3>1. CASE Goto(t, "gate") /\ is_in_rsched_wait' = is_in_rsched_wait
      BY <2>1, <2>2, <3>1 DEF Goto, TypeOK
    <3> QED
      BY <2>4, <2>7, <3>1 DEF Trampoline, TsanStartGate
  <2>8. CASE RealJoin(t) \/ ThreadExit(t)
    <3>1. pc'[t] \in {"user", "teardown"} /\ is_in_rsched_wait' = is_in_rsched_wait
      BY <2>8, SMTT(30) DEF RealJoin, ThreadExit, Goto, Signal, TypeOK
    <3> QED
      BY <2>1, <2>2, <3>1
  <2>9. ASSUME NEW c \in Threads, Create(t, c) PROVE FlagInv'
    BY <2>9 DEF Create, AddChild, TypeOK
  <2> QED
    BY <1>4, <2>3, <2>5, <2>6, <2>7, <2>8, <2>9, StartQuietStep DEF StartStep, StartupInv
<1> QED
  BY <1>2, <1>3, <1>4 DEF Next

\* The gate of the TSAN build is reached from its trampoline only.
LEMMA GateInvStep == IndInv /\ StartupInv /\ [Next]_vars => GateInv'
<1> SUFFICES ASSUME IndInv, StartupInv, [Next]_vars PROVE GateInv'
  OBVIOUS
<1>1. TypeOK /\ ControlInv /\ CreateInv /\ GateInv
  BY DEF IndInv, StartupInv
<1>2. CASE UNCHANGED vars
  BY <1>1, <1>2 DEF GateInv
<1>3. CASE Reinit
  BY <1>3 DEF Reinit, InitialPc, GateInv
<1>4. ASSUME NEW t \in Threads, Internal(t) \/ UserCall(t) PROVE GateInv'
  <2>1. SUFFICES ASSUME pc'[t] = "gate" PROVE TSan
    BY <1>1, <1>4, FrameStep DEF Frame, Moved, GateInv
  <2>2. ~StartQuiet(t)
    BY <2>1 DEF StartQuiet
  <2>3. ~ContextSwitch(t)
    <3>1. ReturnTo(t, pc) => pc'[t] # "gate"
      BY <1>1 DEF ReturnTo, TypeOK, RetLabels
    <3>2. \A n : Suspend(t, Signal(n)) => pc'[t] # "gate"
      BY <1>1 DEF Suspend, Signal, TypeOK
    <3> QED
      BY <1>1, <2>1, <3>1, <3>2, ContextSwitchEffect
  <2>4. ~(DrainPendingChild(t) \/ DrainResume(t))
    <3>1. AfterDrain(t) => pc'[t] # "gate"
      BY <1>1, AfterDrainEffect DEF DirectDrain
    <3>2. Goto(t, "drainwait") => pc'[t] # "gate"
      BY <1>1 DEF Goto, TypeOK
    <3> QED
      BY <2>1, <3>1, <3>2 DEF DrainPendingChild, DrainResume
  <2>5. ~(TsanStartGate(t) \/ RealJoin(t) \/ ThreadExit(t))
    BY <1>1, <2>1, SMTT(30) DEF TsanStartGate, RealJoin, ThreadExit, Suspend, Goto, Signal, TypeOK
  <2>6. \A c \in Threads : ~Create(t, c)
    BY <1>1, <2>1 DEF Create, TypeOK
  <2>7. Trampoline(t) => TSan
    BY <1>1, <2>1 DEF Trampoline, Suspend, TypeOK
  <2> QED
    BY <1>1, <1>4, <2>2, <2>3, <2>4, <2>5, <2>6, <2>7, StartQuietStep DEF StartStep
<1> QED
  BY <1>2, <1>3, <1>4 DEF Next

(***************************************************************************)
(* The theorems.                                                           *)
(***************************************************************************)
\* The start-up part of the invariant holds in every reachable state, whatever
\* the build and however threads exit.
THEOREM StartupInvariant == Spec => []StartupInv
<1>1. IndInv /\ StartupInv /\ [Next]_vars => StartupInv'
  BY StartInvStep, CreateInvStep, KeptInvStep, FlagInvStep, GateInvStep DEF StartupInv
<1> QED
  BY <1>1, InitStartup, IndInvariant, PTL DEF Spec

\* No StartArg is freed while its child's trampoline, the pending slot or a drain
\* still refers to it (drain_pending_child, trampoline).
THEOREM StartArgAliveHolds == Spec => []StartArgAlive
<1>1. IndInv /\ StartupInv => StartArgAlive
  <2> SUFFICES ASSUME IndInv, StartupInv PROVE StartArgAlive
    OBVIOUS
  <2>1. ASSUME NEW t \in Threads, pc[t] = "drainwait" PROVE start_arg[draining[t]] # "free"
    BY <2>1 DEF IndInv, ControlInv, ControlOK, StartupInv, StartInv, Drains, Starting
  <2> QED
    BY <2>1 DEF StartupInv, StartInv, Starting, StartArgAlive
<1> QED
  BY <1>1, IndInvariant, StartupInvariant, PTL

\* Every StartArg is freed by somebody, and every registered child is made
\* eligible by somebody: it is pending, or a drain waits for it.
THEOREM NoStartArgLeaks == Spec => []KeptInv
<1>1. StartupInv => KeptInv
  BY DEF StartupInv
<1> QED
  BY <1>1, StartupInvariant, PTL

\* Without the TSAN start gate, what choose() draws from does not depend on how
\* fast OS threads get to their wait: is_in_rsched_wait excludes nobody that is
\* unblocked and started.
THEOREM ReproducibleDecisionHolds == TSan = FALSE => (Spec => []ReproducibleDecision)
<1> SUFFICES ASSUME TSan = FALSE PROVE Spec => []ReproducibleDecision
  OBVIOUS
<1>1. IndInv /\ StartupInv => ReproducibleDecision
  <2> SUFFICES ASSUME IndInv, StartupInv,
                      NEW t \in threads, pc[t] \in {"switch", "user"},
                      NEW n \in threads \ {t}, ~is_blocking[n], startup_done[n]
               PROVE  is_in_rsched_wait[n]
    BY DEF ReproducibleDecision, Choosable
  <2>1. t \in Threads /\ n \in Threads
    BY DEF IndInv, TypeOK
  <2>2. ~Running(n)
    BY DEF IndInv, OneRunner, Running, RunPcs
  <2>3. pc[n] \in IdlePcs
    BY <2>1, <2>2 DEF IndInv, TypeOK, Running
  <2>4. pc[n] \notin {"unborn", "teardown", "dead"}
    BY <2>1 DEF IndInv, ControlInv, ControlOK
  <2>5. pc[n] \notin {"tramp", "gate"}
    BY <2>1 DEF StartupInv, StartInv, GateInv
  <2> QED
    BY <2>1, <2>3, <2>4, <2>5 DEF IdlePcs, StartupInv, FlagInv
<1> QED
  BY <1>1, IndInvariant, StartupInvariant, PTL

=============================================================================
