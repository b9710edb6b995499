------------------------ MODULE RschedBlockingProofs ------------------------
(***************************************************************************)
(* Proofs about blocked threads and wait lists, for programs whose         *)
(* thread-local destructors call no pthread function: is_blocking and the  *)
(* wait lists of mutexes, condition variables, barriers and joins agree.   *)
(***************************************************************************)
EXTENDS RschedStartProofs, FiniteSetTheorems

USE DEF vars, threadVars, flags, args, child, lifeVars,
        syncVars, mutexVars, virtual, real, barrierVars

(***************************************************************************)
(* LiveInv: an exited thread runs no code of the scheduler.                *)
(***************************************************************************)
GonePcs == {"unborn", "teardown", "dead"}

\* An exited thread can only end, if its destructors make no calls.
LEMMA ActorAlive ==
  ASSUME TeardownCalls = FALSE, NEW t \in Threads, Internal(t) \/ UserCall(t)
  PROVE  Die(t) \/ pc[t] \notin GonePcs
<1> USE DEF GonePcs
<1>1. CASE Internal(t)
  <2>1. CASE \/ Return(t) \/ Resume(t) \/ ContextSwitch(t) \/ DrainPendingChild(t) \/ DrainResume(t)
             \/ CreateFails(t) \/ Trampoline(t) \/ TsanStartGate(t) \/ Die(t)
             \/ Join(t) \/ Joined(t) \/ RealJoin(t) \/ \E c \in Threads : Create(t, c)
    BY <2>1 DEF Return, Resume, ContextSwitch, DrainPendingChild, DrainResume, CreateFails,
                Trampoline, TsanStartGate, Join, Joined, RealJoin, Create
  <2>2. CASE \/ MutexLock(t) \/ BlockUntilReleased(t) \/ RealLock(t) \/ Trylock(t)
             \/ Unlock(t) \/ CondWait(t) \/ BarrierInit(t) \/ BarrierWait(t)
    BY <2>2 DEF MutexLock, BlockUntilReleased, RealLock, Trylock, Unlock, CondWait,
                BarrierInit, BarrierWait
  <2> QED
    BY <1>1, <2>1, <2>2 DEF Internal
<1>2. CASE UserCall(t)
  <2>1. CASE \/ SchedYield(t) \/ ScheduleMemop(t) \/ CallCreate(t) \/ ThreadExit(t)
             \/ \E x \in Threads : CallJoin(t, x)
    BY <2>1 DEF SchedYield, ScheduleMemop, SchedulingPoint, MayCall, CallCreate, ThreadExit, CallJoin
  <2>2. ASSUME NEW m \in Mutexes, CallLock(t, m) \/ CallTrylock(t, m) \/ CallUnlock(t, m)
        PROVE  pc[t] = "user"
    BY <2>2 DEF CallLock, CallTrylock, CallUnlock, EnterMutexOp, MayCall
  <2>3. ASSUME NEW c \in Conds, \/ CondSignal(t, c) \/ CondBroadcast(t, c)
                                \/ \E m \in Mutexes : CallCondWait(t, c, m)
        PROVE  pc[t] = "user"
    BY <2>3 DEF CondSignal, CondBroadcast, ReleaseCondWaiters, CallCondWait
  <2>4. ASSUME NEW b \in Barriers, CallBarrierInit(t, b) \/ CallBarrierWait(t, b)
        PROVE  pc[t] = "user"
    BY <2>4 DEF CallBarrierInit, CallBarrierWait, EnterBarrierOp
  <2> QED
    BY <1>2, <2>1, <2>2, <2>3, <2>4 DEF UserCall
<1> QED
  BY <1>1, <1>2

\* At first, and after rsched_init, only the main thread is registered.
LEMMA InitLive == Init => LiveInv
<1> SUFFICES ASSUME Init, NEW t \in Threads
             PROVE  t \in threads <=> pc[t] \notin {"unborn", "teardown", "dead"}
  BY DEF LiveInv
<1>1. pc[t] = IF t = Main THEN "user" ELSE "unborn"
  BY DEF Init, InitialPc
<1>2. threads = {Main}
  BY DEF Init
<1> QED
  BY <1>1, <1>2

\* Registration ends with do_thread_exit and begins with pthread_create.
LEMMA LiveStep ==
  TeardownCalls = FALSE /\ IndInv /\ StartupInv /\ LiveInv /\ [Next]_vars => LiveInv'
<1> SUFFICES ASSUME TeardownCalls = FALSE, IndInv, StartupInv, LiveInv, [Next]_vars
             PROVE  LiveInv'
  OBVIOUS
<1>1. TypeOK /\ ControlInv /\ CreateInv
  BY DEF IndInv, StartupInv
<1>2. ControlInv'
  BY ControlStep
<1>3. SUFFICES ASSUME NEW u \in Threads, pc'[u] \notin GonePcs PROVE u \in threads'
  BY <1>2 DEF ControlInv, ControlOK, LiveInv, GonePcs
<1>4. CASE UNCHANGED vars
  BY <1>3, <1>4 DEF LiveInv, GonePcs
<1>5. CASE Reinit
  BY <1>3, <1>5 DEF Reinit, FreshState, InitialPc, GonePcs
<1>6. ASSUME NEW t \in Threads, Internal(t) \/ UserCall(t) PROVE u \in threads'
  <2>1. ASSUME NEW c \in Threads, Create(t, c) PROVE u \in threads'
    BY <1>1, <1>3, <2>1 DEF Create, AddChild, LiveInv, GonePcs, TypeOK
  <2>2. CASE Die(t)
    BY <1>1, <1>3, <2>2 DEF Die, Goto, TypeOK, LiveInv, GonePcs
  <2>3. CASE ~Die(t) /\ \A c \in Threads : ~Create(t, c)
    <3>1. t \in threads
      BY <1>6, <2>3, ActorAlive DEF LiveInv, GonePcs
    <3>2. CASE u = t
      <4>1. ThreadExit(t) => pc'[t] \in GonePcs
        BY <1>1 DEF ThreadExit, Goto, Signal, TypeOK, GonePcs
      <4>2. ~ThreadExit(t) => threads' = threads
        <5>1. CASE StartQuiet(t)
          BY <5>1 DEF StartQuiet
        <5> QED
          BY <1>1, <1>6, <2>3, <5>1, StartQuietStep
             DEF StartStep, ContextSwitch, DrainPendingChild, DrainResume, Trampoline,
                 TsanStartGate, RealJoin
      <4> QED
        BY <1>3, <3>1, <3>2, <4>1, <4>2
    <3>3. CASE u # t
      <4>1. pc[u] \notin GonePcs
        <5>1. CASE StartQuiet(t)
          BY <1>3, <3>3, <5>1 DEF StartQuiet
        <5>2. CASE ContextSwitch(t) \/ ThreadExit(t) \/ RealJoin(t)
          BY <1>1, <1>3, <3>3, <5>2, StartMovesStep DEF StartMoves, GonePcs
        <5>3. CASE DrainPendingChild(t) \/ DrainResume(t)
          BY <1>1, <1>3, <3>3, <5>3, AfterDrainEffect
             DEF DrainPendingChild, DrainResume, Goto, TypeOK
        <5>4. CASE Trampoline(t) \/ TsanStartGate(t)
          BY <1>1, <1>3, <3>3, <5>4 DEF Trampoline, TsanStartGate, Suspend, Goto, TypeOK
        <5> QED
          BY <1>1, <1>6, <2>3, <5>1, <5>2, <5>3, <5>4, StartQuietStep DEF StartStep
      <4>2. u \in threads
        BY <4>1 DEF LiveInv, GonePcs
      <4> QED
        BY <1>1, <1>6, <3>3, <4>2, FrameStep DEF Frame
    <3> QED
      BY <3>2, <3>3
  <2> QED
    BY <2>1, <2>2, <2>3
<1> QED
  BY <1>4, <1>5, <1>6 DEF Next

(***************************************************************************)
(* JoinInv: a thread has one joiner, and is not reused before it is reaped *)
(***************************************************************************)
JoinLabels == {"join", "joined", "realjoin"}
JoinedLabels == {"joined", "realjoin"}

\* A step of t that is no call of pthread_join: t gets no new join target, and
\* if it is inside pthread_join afterwards, it was before.
JoinQuiet(t) ==
    /\ obj'[t] \in Threads => obj'[t] = obj[t]
    /\ At(t, JoinLabels)' => At(t, JoinLabels) /\ obj'[t] = obj[t]
    /\ At(t, JoinedLabels)' => At(t, JoinedLabels) \/ Join(t)

\* Every step but the call of rsched_pthread_join itself is quiet about joins.
LEMMA JoinQuietStep ==
  ASSUME TypeOK, ControlInv, CreateInv, NEW t \in Threads, Internal(t) \/ UserCall(t)
  PROVE  JoinQuiet(t) \/ \E x \in Threads : CallJoin(t, x)
<1> USE DEF TypeOK, JoinQuiet, JoinLabels, JoinedLabels, At, Goto, CallContextSwitch, CallDrain
<1>0. pc[t] \notin AwayPcs => ret[t] = "none"
  BY DEF ControlInv, ControlOK
<1>1. ASSUME ReturnTo(t, pc), obj' = obj, pc[t] \in AwayPcs PROVE JoinQuiet(t)
  BY <1>1 DEF ReturnTo
<1>2. CASE Return(t)
  BY <1>0, <1>2, ThreadsAssumption DEF Return, Leave, AwayPcs
<1>3. CASE Resume(t)
  BY <1>1, <1>3 DEF Resume, AwayPcs
<1>4. CASE ContextSwitch(t)
  <2>1. obj' = obj /\ pc[t] = "switch"
    BY <1>4 DEF ContextSwitch
  <2>2. ASSUME NEW n, Suspend(t, Signal(n)), ret' = ret PROVE JoinQuiet(t)
    BY <2>1, <2>2 DEF Suspend, Signal
  <2> QED
    BY <1>1, <1>4, <2>1, <2>2, ContextSwitchEffect DEF AwayPcs
<1>5. CASE DrainPendingChild(t) \/ DrainResume(t)
  <2>1. obj' = obj /\ pc[t] \in {"drain", "drainwait"}
    BY <1>5 DEF DrainPendingChild, DrainResume
  <2>2. CASE AfterDrain(t)
    BY <2>1, <2>2, AfterDrainEffect DEF DirectDrain
  <2>3. CASE Goto(t, "drainwait") /\ ret' = ret
    BY <2>1, <2>3
  <2> QED
    BY <1>5, <2>2, <2>3 DEF DrainPendingChild, DrainResume
<1>6. CASE CreateFails(t) \/ Die(t) \/ Joined(t)
  BY <1>0, <1>6 DEF CreateFails, Die, Joined, AwayPcs
<1>7. CASE Trampoline(t) \/ TsanStartGate(t)
  BY <1>0, <1>7, SMTT(30) DEF Trampoline, TsanStartGate, Suspend, AwayPcs
<1>8. CASE Join(t)
  BY <1>0, <1>8 DEF Join, AwayPcs
<1>9. CASE RealJoin(t)
  BY <1>0, <1>9, ThreadsAssumption DEF RealJoin, AwayPcs
<1>10. ASSUME NEW c \in Threads, Create(t, c) PROVE JoinQuiet(t)
  BY <1>0, <1>10 DEF Create, AwayPcs
<1>11. CASE ThreadExit(t)
  BY <1>0, <1>11 DEF ThreadExit, Signal, AwayPcs
<1>12. CASE MutexLock(t)
  BY <1>0, <1>12 DEF MutexLock, AwayPcs
<1>13. CASE BlockUntilReleased(t)
  BY <1>0, <1>13 DEF BlockUntilReleased, Suspend, AfterBlocking, AwayPcs
<1>14. CASE RealLock(t) \/ Trylock(t)
  BY <1>0, <1>14, SMTT(30) DEF RealLock, Trylock, AwayPcs
<1>15. CASE Unlock(t)
  BY <1>0, <1>15 DEF Unlock, AwayPcs
<1>16. CASE CondWait(t)
  BY <1>0, <1>16 DEF CondWait, AwayPcs
<1>17. CASE BarrierInit(t) \/ BarrierWait(t)
  BY <1>0, <1>17, SMTT(30) DEF BarrierInit, BarrierWait, AwayPcs
<1>18. CASE SchedYield(t) \/ ScheduleMemop(t) \/ CallCreate(t)
  BY <1>0, <1>18, SMTT(30) DEF SchedYield, ScheduleMemop, SchedulingPoint, MayCall, CallCreate
<1>19. ASSUME NEW m \in Mutexes, CallLock(t, m) \/ CallTrylock(t, m) \/ CallUnlock(t, m)
       PROVE  JoinQuiet(t)
  <2>1. obj' = obj /\ pc[t] \in {"user", "teardown"}
    BY <1>19 DEF CallLock, CallTrylock, CallUnlock, EnterMutexOp, MayCall
  <2>2. \/ /\ pc' = [pc EXCEPT ![t] = "drain"]
           /\ \E l \in {"lock", "try"} : ret' = [ret EXCEPT ![t] = l]
        \/ /\ \E l \in {"lock", "unlock"} : pc' = [pc EXCEPT ![t] = l]
           /\ ret' = ret
    BY <1>19 DEF CallLock, CallTrylock, CallUnlock
  <2> QED
    BY <1>0, <2>1, <2>2 DEF AwayPcs
<1>20. ASSUME NEW c \in Conds, NEW W, ReleaseCondWaiters(t, c, W) PROVE JoinQuiet(t)
  BY <1>20 DEF ReleaseCondWaiters
<1>21. ASSUME NEW c \in Conds, NEW m \in Mutexes, CallCondWait(t, c, m) PROVE JoinQuiet(t)
  BY <1>0, <1>21, SyncAssumption, SMTT(30) DEF CallCondWait, AwayPcs
<1>22. ASSUME NEW b \in Barriers, CallBarrierInit(t, b) \/ CallBarrierWait(t, b)
       PROVE  JoinQuiet(t)
  BY <1>22, SyncAssumption, SMTT(30) DEF CallBarrierInit, CallBarrierWait, EnterBarrierOp
<1> HIDE DEF JoinQuiet
<1>23. CASE Internal(t)
  BY <1>23, <1>2, <1>3, <1>4, <1>5, <1>6, <1>7, <1>8, <1>9, <1>10, <1>12, <1>13, <1>14,
     <1>15, <1>16, <1>17 DEF Internal
<1>24. CASE UserCall(t)
  BY <1>24, <1>11, <1>18, <1>19, <1>20, <1>21, <1>22
     DEF UserCall, CondSignal, CondBroadcast
<1> QED
  BY <1>23, <1>24

\* A pthread_t becomes free for reuse by the join of its thread only.
LEMMA ReapStep ==
  ASSUME TypeOK, ControlInv, CreateInv, NEW t \in Threads, Internal(t) \/ UserCall(t),
         NEW v \in Threads, pc[v] # "unborn", pc'[v] = "unborn"
  PROVE  RealJoin(t) /\ v = obj[t]
<1>1. ~StartQuiet(t)
  BY DEF StartQuiet
<1>2. ~ContextSwitch(t)
  <2>1. ~ReturnTo(t, pc)
    BY DEF ReturnTo, TypeOK, RetLabels
  <2>2. \A n : ~Suspend(t, Signal(n))
    BY DEF Suspend, Signal, TypeOK
  <2> QED
    BY <2>1, <2>2, ContextSwitchEffect
<1>3. ~(DrainPendingChild(t) \/ DrainResume(t))
  <2>1. ~AfterDrain(t)
    BY AfterDrainEffect DEF DirectDrain
  <2>2. ~Goto(t, "drainwait")
    BY DEF Goto, TypeOK
  <2> QED
    BY <2>1, <2>2 DEF DrainPendingChild, DrainResume
<1>4. ~(Trampoline(t) \/ TsanStartGate(t))
  BY DEF Trampoline, TsanStartGate, Suspend, Goto, TypeOK
<1>5. ~ThreadExit(t)
  BY DEF ThreadExit, Goto, Signal, TypeOK
<1>6. \A c \in Threads : ~Create(t, c)
  BY DEF Create, TypeOK
<1>7. RealJoin(t)
  BY <1>1, <1>2, <1>3, <1>4, <1>5, <1>6, StartQuietStep DEF StartStep
<1> QED
  BY <1>7 DEF RealJoin, TypeOK

\* At first nobody joins and nobody is joined.
LEMMA InitJoin == Init => JoinInv
BY ThreadsAssumption DEF Init, InitialPc, JoinInv, At

\* What a step does to the joiner fields and the registered threads.
LEMMA JoinerStep ==
  ASSUME TypeOK, ControlInv, CreateInv, NEW t \in Threads, Internal(t) \/ UserCall(t)
  PROVE  \/ joiner' = joiner /\ threads' \subseteq threads
         \/ /\ Join(t) /\ joiner' = [joiner EXCEPT ![obj[t]] = t]
            /\ obj[t] \in threads /\ threads' = threads
         \/ \E c \in Threads :
              /\ Create(t, c) /\ pc[c] = "unborn"
              /\ joiner' = [joiner EXCEPT ![c] = None] /\ threads' = threads \cup {c}
<1>1. CASE Return(t) \/ Resume(t) \/ ContextSwitch(t) \/ DrainPendingChild(t) \/ DrainResume(t)
  BY <1>1 DEF Return, Resume, ContextSwitch, DrainPendingChild, DrainResume
<1>2. CASE CreateFails(t) \/ Trampoline(t) \/ TsanStartGate(t) \/ Die(t) \/ Joined(t) \/ RealJoin(t)
  BY <1>2 DEF CreateFails, Trampoline, TsanStartGate, Die, Joined, RealJoin
<1>3. CASE Join(t)
  BY <1>3 DEF Join
<1>4. ASSUME NEW c \in Threads, Create(t, c)
      PROVE  /\ pc[c] = "unborn"
             /\ joiner' = [joiner EXCEPT ![c] = None] /\ threads' = threads \cup {c}
  BY <1>4 DEF Create, AddChild
<1>5. CASE \/ MutexLock(t) \/ BlockUntilReleased(t) \/ RealLock(t) \/ Trylock(t)
           \/ Unlock(t) \/ CondWait(t) \/ BarrierInit(t) \/ BarrierWait(t)
  BY <1>5 DEF MutexLock, BlockUntilReleased, RealLock, Trylock, Unlock, CondWait,
              BarrierInit, BarrierWait
<1>6. CASE \/ SchedYield(t) \/ ScheduleMemop(t) \/ CallCreate(t) \/ ThreadExit(t)
           \/ \E x \in Threads : CallJoin(t, x)
  BY <1>6 DEF SchedYield, ScheduleMemop, SchedulingPoint, CallCreate, ThreadExit, CallJoin
<1>7. CASE \E m \in Mutexes : CallLock(t, m) \/ CallTrylock(t, m) \/ CallUnlock(t, m)
  BY <1>7 DEF CallLock, CallTrylock, CallUnlock, EnterMutexOp
<1>8. CASE \E c \in Conds : \/ CondSignal(t, c) \/ CondBroadcast(t, c)
                            \/ \E m \in Mutexes : CallCondWait(t, c, m)
  BY <1>8 DEF CondSignal, CondBroadcast, ReleaseCondWaiters, CallCondWait
<1>9. CASE \E b \in Barriers : CallBarrierInit(t, b) \/ CallBarrierWait(t, b)
  BY <1>9 DEF CallBarrierInit, CallBarrierWait, EnterBarrierOp
<1>10. CASE Internal(t)
  BY <1>10, <1>1, <1>2, <1>3, <1>4, <1>5 DEF Internal
<1>11. CASE UserCall(t)
  BY <1>11, <1>6, <1>7, <1>8, <1>9 DEF UserCall
<1> QED
  BY <1>10, <1>11

\* pthread_join keeps its target: the joiner field of a live one points back, and
\* a dead one is not reused before it is reaped.
LEMMA JoinStep == IndInv /\ StartupInv /\ JoinInv /\ [Next]_vars => JoinInv'
<1> SUFFICES ASSUME IndInv, StartupInv, JoinInv, [Next]_vars PROVE JoinInv'
  OBVIOUS
<1>1. TypeOK /\ ControlInv /\ CreateInv
  BY DEF IndInv, StartupInv
<1>2. CASE UNCHANGED vars
  BY <1>2 DEF JoinInv, At
<1>3. CASE Reinit
  <2>1. pc' = pc /\ ret' = ret /\ obj' = obj /\ pc = InitialPc
    BY <1>3 DEF Reinit
  <2>2. \A t \in Threads : pc[t] \in {"user", "unborn"} /\ ret[t] = "none"
    BY <1>1, <2>1 DEF InitialPc, ControlInv, ControlOK, AwayPcs
  <2>3. \A t \in Threads : ~At(t, {"join", "joined", "realjoin"})' /\ ~At(t, {"joined", "realjoin"})'
    BY <2>1, <2>2 DEF At
  <2>4. \A t, u \in Threads : obj'[t] \in Threads /\ obj'[t] = obj'[u] => t = u
    BY <2>1 DEF JoinInv
  <2> QED
    BY <2>3, <2>4 DEF JoinInv
<1>4. ASSUME NEW t \in Threads, Internal(t) \/ UserCall(t) PROVE JoinInv'
  <2>1. Frame(t)
    BY <1>1, <1>4, FrameStep
  <2>2. \A u \in Threads \ {t} : /\ obj'[u] = obj[u]
                                 /\ At(u, JoinLabels)' <=> At(u, JoinLabels)
                                 /\ At(u, JoinedLabels)' <=> At(u, JoinedLabels)
    BY <2>1 DEF Frame, Moved, At, JoinLabels, JoinedLabels
  <2>3. obj'[t] \in Threads => obj'[t] = obj[t] \/ \A u \in Threads : obj[u] # obj'[t]
    <3>1. ASSUME NEW x \in Threads, CallJoin(t, x)
          PROVE  obj'[t] = x /\ \A u \in Threads : obj[u] # x
      BY <1>1, <3>1 DEF CallJoin, Joinable, TypeOK
    <3> QED
      BY <1>1, <1>4, <3>1, JoinQuietStep DEF JoinQuiet
  <2>4. \A u, v \in Threads : obj'[u] \in Threads /\ obj'[u] = obj'[v] => u = v
    BY <2>2, <2>3 DEF JoinInv
  <2>5. ASSUME NEW u \in Threads, At(u, JoinLabels)' PROVE pc'[obj'[u]] # "unborn"
    <3>1. CASE At(u, JoinLabels) /\ obj'[u] = obj[u]
      <4>1. obj[u] \in Threads /\ pc[obj[u]] # "unborn"
        BY <1>1, <3>1 DEF JoinInv, ControlInv, ControlOK, JoinLabels
      <4>2. CASE pc'[obj[u]] = "unborn"
        <5>1. RealJoin(t) /\ obj[u] = obj[t]
          BY <1>1, <1>4, <4>1, <4>2, ReapStep
        <5>2. u = t
          BY <4>1, <5>1 DEF JoinInv
        <5>3. ~At(t, JoinLabels)'
          BY <1>1, <5>1 DEF RealJoin, At, JoinLabels, TypeOK, ControlInv, ControlOK, AwayPcs
        <5> QED
          BY <2>5, <5>2, <5>3
      <4> QED
        BY <3>1, <4>2
    <3>2. ASSUME NEW x \in Threads, CallJoin(t, x), u = t PROVE pc'[obj'[u]] # "unborn"
      BY <1>1, <3>2 DEF CallJoin, Joinable, CallContextSwitch, CallDrain, Goto, TypeOK
    <3> QED
      BY <1>1, <1>4, <2>2, <2>5, <3>1, <3>2, JoinQuietStep DEF JoinQuiet
  <2>6. ASSUME NEW u \in Threads, At(u, JoinedLabels)', obj'[u] \in threads'
        PROVE  joiner'[obj'[u]] = u
    <3> DEFINE x == obj[u]
    <3>1. At(u, JoinLabels)'
      BY <2>6 DEF At, JoinLabels, JoinedLabels
    <3>2. ~\E y \in Threads : CallJoin(t, y) /\ u = t
      BY <1>1, <2>6 DEF CallJoin, CallContextSwitch, CallDrain, Goto, At, JoinedLabels, TypeOK
    <3>3. /\ obj'[u] = x /\ At(u, JoinLabels)
          /\ At(u, JoinedLabels) \/ (u = t /\ Join(t))
      BY <1>1, <1>4, <2>2, <2>6, <3>1, <3>2, JoinQuietStep DEF JoinQuiet
    <3>4. x \in Threads /\ pc[x] # "unborn"
      BY <1>1, <3>3 DEF JoinInv, ControlInv, ControlOK, JoinLabels
    <3>5. At(u, JoinedLabels) /\ x \in threads => joiner[x] = u
      BY DEF JoinInv, JoinedLabels
    <3> HIDE DEF x
    <3>6. CASE joiner' = joiner /\ threads' \subseteq threads
      <4>1. x \in threads
        BY <2>6, <3>3, <3>6
      <4>2. CASE At(u, JoinedLabels)
        BY <3>3, <3>5, <3>6, <4>1, <4>2
      <4>3. CASE u = t /\ Join(t)
        BY <1>1, <3>3, <3>4, <3>6, <4>1, <4>3 DEF Join, TypeOK, x
      <4> QED
        BY <3>3, <4>2, <4>3
    <3>7. CASE Join(t) /\ joiner' = [joiner EXCEPT ![obj[t]] = t] /\ threads' = threads
               /\ obj[t] \in threads
      <4>1. CASE x = obj[t]
        <5>1. u = t
          BY <3>4, <4>1 DEF JoinInv, x
        <5> QED
          BY <1>1, <3>3, <3>4, <3>7, <4>1, <5>1 DEF TypeOK
      <4>2. CASE x # obj[t]
        BY <1>1, <2>6, <3>3, <3>4, <3>5, <3>7, <4>2 DEF TypeOK, x
      <4> QED
        BY <4>1, <4>2
    <3>8. ASSUME NEW c \in Threads, Create(t, c), pc[c] = "unborn",
                 joiner' = [joiner EXCEPT ![c] = None], threads' = threads \cup {c}
          PROVE  joiner'[obj'[u]] = u
      BY <1>1, <2>6, <3>3, <3>4, <3>5, <3>8 DEF TypeOK, Create, Join
    <3> QED
      BY <1>1, <1>4, <3>6, <3>7, <3>8, JoinerStep
  <2> QED
    BY <2>4, <2>5, <2>6 DEF JoinInv, JoinLabels, JoinedLabels
<1> QED
  BY <1>2, <1>3, <1>4 DEF Next

(***************************************************************************)
(* BlockInv: is_blocking and the wait lists.                               *)
(***************************************************************************)
\* Initially nobody is blocked and every wait list is empty.
LEMMA InitBlock == Init => BlockInv
<1> SUFFICES ASSUME Init, NEW t \in Threads PROVE BlockedOK(t)
  BY DEF BlockInv
<1>1. ~Blocked(t)
  BY DEF Init, Blocked
<1>2. /\ \A m \in Mutexes : ~InMutex(t, m)
      /\ \A c \in Conds : ~InCond(t, c)
      /\ \A b \in Barriers : ~InBarrier(t, b)
  BY DEF Init, InMutex, InCond, InBarrier
<1>3. \A x \in Threads : ~Joins(t, x)
  BY ThreadsAssumption DEF Init, Joins
<1> QED
  BY <1>1, <1>2, <1>3 DEF BlockedOK, Registered

LockLabels == {"lock", "relock"}
BarrierLabels == {"barwait", "gunlock"}

\* u stays blocked in the same list, inside the same operation.
StillBlocked(u) ==
    /\ pc'[u] \in BlockedPcs
    /\ pc'[u] \in {"drain", "drainwait", "switch"} => ret'[u] \in BlockedRets
    /\ obj'[u] = obj[u] /\ mtx'[u] = mtx[u]
    /\ At(u, LockLabels) => At(u, LockLabels)'
    /\ At(u, BarrierLabels) => At(u, BarrierLabels)'
    /\ At(u, JoinedLabels) => At(u, JoinedLabels)'

\* The lists that hold u stay as they are.
SameLists(u) ==
    /\ \A m \in Mutexes : InMutex(u, m)' <=> InMutex(u, m)
    /\ \A c \in Conds : InCond(u, c)' <=> InCond(u, c)
    /\ \A b \in Barriers : InBarrier(u, b)' <=> InBarrier(u, b)
    /\ \A x \in Threads : Joins(u, x)' <=> Joins(u, x)

\* A thread whose wait lists, is_blocking flag and place in its operation are left
\* as they were stays blocked, or not blocked, for the same reason.
LEMMA BlockedKept ==
  ASSUME NEW u \in Threads, BlockedOK(u), SameLists(u), Blocked(u)' <=> Blocked(u),
         Blocked(u) => StillBlocked(u)
  PROVE  BlockedOK(u)'
<1>1. Registered(u)' <=> Registered(u)
  BY DEF SameLists, Registered
<1>2. \A m \in Mutexes : InMutex(u, m)' => Blocked(u) /\ InMutex(u, m)
  BY DEF SameLists, BlockedOK, Registered
<1>3. \A c \in Conds : InCond(u, c)' => Blocked(u) /\ InCond(u, c)
  BY DEF SameLists, BlockedOK, Registered
<1>4. \A b \in Barriers : InBarrier(u, b)' => Blocked(u) /\ InBarrier(u, b)
  BY DEF SameLists, BlockedOK, Registered
<1>5. \A x \in Threads : Joins(u, x)' => Blocked(u) /\ Joins(u, x)
  BY DEF SameLists, BlockedOK, Registered
<1>6. ASSUME NEW m \in Mutexes, InMutex(u, m)' PROVE Locking(u, m)'
  BY <1>2, <1>6 DEF BlockedOK, StillBlocked, Locking, LockLabels
<1> QED
  BY <1>1, <1>2, <1>3, <1>4, <1>5, <1>6 DEF BlockedOK, StillBlocked, LockLabels, BarrierLabels, JoinedLabels

\* A thread that is in no list and not blocked.
LEMMA BlockedFree ==
  ASSUME NEW u \in Threads, ~Blocked(u)', ~Registered(u)'
  PROVE  BlockedOK(u)'
BY DEF BlockedOK, Registered

\* A thread is in one list at most, and the lists of different kinds belong to
\* different code.
LEMMA OneList ==
  ASSUME ControlInv, NEW u \in Threads, BlockedOK(u)
  PROVE  /\ \A m, k \in Mutexes : InMutex(u, m) /\ InMutex(u, k) => m = k
         /\ \A c, d \in Conds : InCond(u, c) /\ InCond(u, d) => c = d
         /\ \A b, d \in Barriers : InBarrier(u, b) /\ InBarrier(u, d) => b = d
         /\ \A x, y \in Threads : Joins(u, x) /\ Joins(u, y) => x = y
         /\ \A m \in Mutexes, c \in Conds : ~(InMutex(u, m) /\ InCond(u, c))
         /\ \A m \in Mutexes, b \in Barriers : ~(InMutex(u, m) /\ InBarrier(u, b))
         /\ \A m \in Mutexes, x \in Threads : ~(InMutex(u, m) /\ Joins(u, x))
         /\ \A c \in Conds, b \in Barriers : ~(InCond(u, c) /\ InBarrier(u, b))
         /\ \A c \in Conds, x \in Threads : ~(InCond(u, c) /\ Joins(u, x))
         /\ \A b \in Barriers, x \in Threads : ~(InBarrier(u, b) /\ Joins(u, x))
<1>1. /\ ~(At(u, LockLabels) /\ At(u, BarrierLabels))
      /\ ~(At(u, LockLabels) /\ At(u, JoinedLabels))
      /\ ~(At(u, BarrierLabels) /\ At(u, JoinedLabels))
  BY DEF ControlInv, ControlOK, At, AwayPcs, LockLabels, BarrierLabels, JoinedLabels
<1>2. \A m \in Mutexes : InMutex(u, m) => mtx[u] = m /\ At(u, LockLabels)
  BY DEF BlockedOK, Locking, LockLabels
<1>3. \A c \in Conds : InCond(u, c) => obj[u] = c /\ At(u, LockLabels)
  BY DEF BlockedOK, LockLabels
<1>4. \A b \in Barriers : InBarrier(u, b) => obj[u] = b /\ At(u, BarrierLabels)
  BY DEF BlockedOK, BarrierLabels
<1>5. \A x \in Threads : Joins(u, x) => obj[u] = x /\ At(u, JoinedLabels)
  BY DEF BlockedOK, JoinedLabels
<1>6. \A m \in Mutexes, c \in Conds : ~(InMutex(u, m) /\ InCond(u, c))
  BY DEF BlockedOK
<1> QED
  BY <1>1, <1>2, <1>3, <1>4, <1>5, <1>6

\* wake() and do_thread_exit() signal a thread that is not blocked.
LEMMA WokenUnblocked ==
  ASSUME TypeOK, ControlInv, CreateInv, NEW t \in Threads, Internal(t) \/ UserCall(t),
         NEW u \in Threads \ {t}, pc[u] = "wait", pc'[u] # "wait"
  PROVE  ~is_blocking'[u]
<1>1. ~StartQuiet(t)
  BY DEF StartQuiet
<1>2. CASE ContextSwitch(t)
  <2>1. ~ReturnTo(t, pc)
    BY DEF ReturnTo, TypeOK
  <2>2. PICK n \in threads \ {t} : ~is_blocking[n] /\ Suspend(t, Signal(n))
    BY <1>2, <2>1, ContextSwitchEffect
  <2>3. u = n
    BY <2>2 DEF Suspend, Signal, TypeOK
  <2> QED
    BY <1>2, <2>2, <2>3 DEF ContextSwitch
<1>3. CASE ThreadExit(t)
  <2>1. pc' # [pc EXCEPT ![t] = "teardown"]
    BY DEF TypeOK
  <2>2. PICK n \in threads \ {t} : ~is_blocking'[n] /\ pc' = [Signal(n) EXCEPT ![t] = "teardown"]
    BY <1>3, <2>1, ThreadExitEffect
  <2>3. u = n
    BY <2>2 DEF Signal, TypeOK
  <2> QED
    BY <2>2, <2>3
<1>4. ~(DrainPendingChild(t) \/ DrainResume(t))
  <2>1. ~AfterDrain(t)
    BY AfterDrainEffect DEF DirectDrain
  <2>2. ~Goto(t, "drainwait")
    BY DEF Goto, TypeOK
  <2> QED
    BY <2>1, <2>2 DEF DrainPendingChild, DrainResume
<1>5. ~(Trampoline(t) \/ TsanStartGate(t))
  BY DEF Trampoline, TsanStartGate, Suspend, Goto, TypeOK
<1>6. ~RealJoin(t)
  BY DEF RealJoin, TypeOK
<1>7. \A c \in Threads : ~Create(t, c)
  BY DEF Create, TypeOK
<1> QED
  BY <1>1, <1>2, <1>3, <1>4, <1>5, <1>6, <1>7, StartQuietStep DEF StartStep

\* A step of t leaves the other blocked threads inside their operations.
LEMMA OthersStillBlocked ==
  ASSUME TypeOK, ControlInv, CreateInv, NEW t \in Threads, Internal(t) \/ UserCall(t),
         NEW u \in Threads \ {t}, BlockedOK(u), Blocked(u), is_blocking'[u]
  PROVE  StillBlocked(u)
<1>1. Frame(t)
  BY FrameStep
<1>2. pc[u] \in BlockedPcs
  BY DEF BlockedOK
<1>3. pc'[u] = pc[u]
  BY <1>1, <1>2, WokenUnblocked DEF Frame, Moved, BlockedPcs
<1>4. ret'[u] = ret[u] /\ obj'[u] = obj[u] /\ mtx'[u] = mtx[u]
  BY <1>1 DEF Frame
<1> QED
  BY <1>2, <1>3, <1>4 DEF StillBlocked, BlockedOK, At

\* A thread outside the code of a blocking operation is in no list.
LEMMA Unlisted ==
  ASSUME NEW t \in Threads, BlockedOK(t), pc[t] \notin BlockedPcs
  PROVE  /\ ~Blocked(t) /\ ~Registered(t)
         /\ \A m \in Mutexes : ~InMutex(t, m)
         /\ \A c \in Conds : ~InCond(t, c)
         /\ \A b \in Barriers : ~InBarrier(t, b)
         /\ \A x \in Threads : ~Joins(t, x)
BY DEF BlockedOK, Registered

\* A step that leaves u's flag and lists alone leaves it as blocked as it was.
LEMMA OtherKept ==
  ASSUME TypeOK, ControlInv, CreateInv, NEW t \in Threads, Internal(t) \/ UserCall(t),
         NEW u \in Threads \ {t}, BlockedOK(u), SameLists(u),
         is_blocking'[u] = is_blocking[u], u \in threads' <=> u \in threads
  PROVE  BlockedOK(u)'
<1>1. Blocked(u)' <=> Blocked(u)
  BY DEF Blocked
<1>2. Blocked(u) => is_blocking'[u]
  BY DEF Blocked
<1> QED
  BY <1>1, <1>2, OthersStillBlocked, BlockedKept

\* The functions that neither block a thread nor release one.
BlockQuiet(t) ==
    /\ UNCHANGED <<threads, is_blocking, joiner, mwaiters, cwaiters, bwaiters>>
    /\ Blocked(t) => StillBlocked(t)

BlockStepOf(t) ==
    \/ ThreadExit(t) /\ UNCHANGED syncVars
    \/ \E c \in Threads : Create(t, c) /\ UNCHANGED syncVars
    \/ Join(t) /\ obj[t] \in threads /\ UNCHANGED syncVars
    \/ MutexLock(t) /\ WillBlock(t, mtx[t])
    \/ Unlock(t) \/ CondWait(t) \/ BarrierWait(t)
    \/ \E c \in Conds : CondSignal(t, c) \/ CondBroadcast(t, c)

\* context_switch, drains and waits keep a blocked thread inside its operation.
LEMMA SwitchStillBlocked ==
  ASSUME TypeOK, ControlInv, CreateInv, NEW t \in Threads, BlockedOK(t), Blocked(t),
         \/ ContextSwitch(t) \/ DrainPendingChild(t) \/ DrainResume(t)
         \/ BlockUntilReleased(t) \/ Joined(t)
  PROVE  StillBlocked(t)
<1>0. pc[t] \in {"drain", "drainwait", "switch"} => ret[t] \in BlockedRets
  BY DEF BlockedOK
<1> USE DEF StillBlocked, BlockedPcs, BlockedRets, At, LockLabels, BarrierLabels, JoinedLabels
<1>1. CASE ContextSwitch(t)
  <2>1. pc[t] = "switch" /\ obj' = obj /\ mtx' = mtx
    BY <1>1 DEF ContextSwitch
  <2>2. CASE ReturnTo(t, pc)
    BY <1>0, <2>1, <2>2 DEF ReturnTo, TypeOK
  <2>3. ASSUME NEW n, Suspend(t, Signal(n)), ret' = ret PROVE StillBlocked(t)
    BY <1>0, <2>1, <2>3 DEF Suspend, Signal, TypeOK
  <2> QED
    BY <1>1, <2>2, <2>3, ContextSwitchEffect
<1>2. CASE DrainPendingChild(t) \/ DrainResume(t)
  <2>1. pc[t] \in {"drain", "drainwait"} /\ obj' = obj /\ mtx' = mtx
    BY <1>2 DEF DrainPendingChild, DrainResume
  <2>2. CASE AfterDrain(t)
    BY <1>0, <2>1, <2>2, AfterDrainEffect DEF DirectDrain
  <2>3. CASE Goto(t, "drainwait") /\ ret' = ret
    BY <1>0, <2>1, <2>3 DEF Goto, TypeOK
  <2> QED
    BY <1>2, <2>2, <2>3 DEF DrainPendingChild, DrainResume
<1>3. CASE BlockUntilReleased(t)
  <2>1. is_blocking[t] /\ pc[t] \in {"relock", "barwait"}
    BY <1>3 DEF Blocked, BlockUntilReleased
  <2>2. ret[t] = "none"
    BY <2>1 DEF ControlInv, ControlOK, AwayPcs
  <2>3. /\ ret' = [ret EXCEPT ![t] = AfterBlocking(pc[t])] /\ Suspend(t, pc)
        /\ obj' = obj /\ mtx' = mtx
    BY <1>3, <2>1 DEF BlockUntilReleased
  <2> QED
    BY <2>1, <2>2, <2>3 DEF Suspend, AfterBlocking, TypeOK
<1>4. CASE Joined(t)
  <2>1. pc[t] = "joined" /\ ret[t] = "none"
    BY <1>4 DEF Joined, ControlInv, ControlOK, AwayPcs
  <2> QED
    BY <1>4, <2>1 DEF Joined, Goto, TypeOK
<1> QED
  BY <1>1, <1>2, <1>3, <1>4

\* The real pthread_join has returned: its target had exited, so the joiner was
\* not blocked.
LEMMA ReaperUnblocked ==
  ASSUME ControlInv, NEW t \in Threads, BlockedOK(t), RealJoin(t)
  PROVE  ~Blocked(t)
<1>1. pc[t] = "realjoin" /\ pc[obj[t]] = "dead" /\ obj[t] \in Threads /\ ret[t] = "none"
  BY DEF RealJoin, ControlInv, ControlOK, At, AwayPcs
<1>2. obj[t] \notin threads
  BY <1>1 DEF ControlInv, ControlOK
<1>3. ~At(t, {"lock", "relock"}) /\ ~At(t, {"barwait", "gunlock"})
  BY <1>1 DEF At
<1>4. \A x \in Threads : ~Joins(t, x)
  BY <1>2 DEF BlockedOK, Joins
<1> QED
  BY <1>3, <1>4 DEF BlockedOK, Registered, Locking

\* Every function that blocks or releases nobody keeps a blocked caller where it
\* belongs.
LEMMA BlockQuietStep ==
  ASSUME TypeOK, ControlInv, CreateInv, NEW t \in Threads, BlockedOK(t),
         Internal(t) \/ UserCall(t)
  PROVE  BlockQuiet(t) \/ BlockStepOf(t)
<1>0. pc[t] \notin BlockedPcs => ~Blocked(t)
  BY DEF BlockedOK
<1> USE DEF BlockQuiet, BlockedPcs
<1>1. CASE /\ \/ Return(t) \/ Resume(t) \/ CreateFails(t) \/ Trampoline(t)
              \/ TsanStartGate(t) \/ Die(t)
           /\ UNCHANGED syncVars
  BY <1>0, <1>1 DEF Return, Resume, CreateFails, Trampoline, TsanStartGate, Die
<1>2. CASE /\ ContextSwitch(t) \/ DrainPendingChild(t) \/ DrainResume(t) \/ Joined(t)
           /\ UNCHANGED syncVars
  <2>1. UNCHANGED <<threads, is_blocking, joiner>>
    BY <1>2 DEF ContextSwitch, DrainPendingChild, DrainResume, Joined
  <2> QED
    BY <1>2, <2>1, SwitchStillBlocked
<1>3. CASE BlockUntilReleased(t)
  BY <1>3, SwitchStillBlocked DEF BlockUntilReleased
<1>4. CASE RealJoin(t) /\ UNCHANGED syncVars
  BY <1>4, ReaperUnblocked DEF RealJoin
<1>5. CASE Join(t) /\ obj[t] \notin threads /\ UNCHANGED syncVars
  BY <1>0, <1>5 DEF Join
<1>6. CASE MutexLock(t) /\ ~WillBlock(t, mtx[t])
  BY <1>0, <1>6 DEF MutexLock
<1>7. CASE RealLock(t) \/ Trylock(t) \/ BarrierInit(t)
  BY <1>0, <1>7 DEF RealLock, Trylock, BarrierInit
<1>8. CASE /\ \/ SchedYield(t) \/ ScheduleMemop(t) \/ CallCreate(t)
              \/ \E x \in Threads : CallJoin(t, x)
           /\ UNCHANGED syncVars
  BY <1>0, <1>8 DEF SchedYield, ScheduleMemop, SchedulingPoint, MayCall, CallCreate, CallJoin
<1>9. CASE \E m \in Mutexes : CallLock(t, m) \/ CallTrylock(t, m) \/ CallUnlock(t, m)
  BY <1>0, <1>9 DEF CallLock, CallTrylock, CallUnlock, EnterMutexOp, MayCall
<1>10. CASE \E c \in Conds : \E m \in Mutexes : CallCondWait(t, c, m)
  BY <1>0, <1>10 DEF CallCondWait
<1>11. CASE \E b \in Barriers : CallBarrierInit(t, b) \/ CallBarrierWait(t, b)
  BY <1>0, <1>11 DEF CallBarrierInit, CallBarrierWait, EnterBarrierOp
<1>12. CASE Internal(t)
  <2>1. CASE /\ \/ Return(t) \/ Resume(t) \/ ContextSwitch(t)
                \/ DrainPendingChild(t) \/ DrainResume(t)
                \/ CreateFails(t) \/ Trampoline(t) \/ TsanStartGate(t)
                \/ Die(t) \/ Join(t) \/ Joined(t) \/ RealJoin(t)
             /\ UNCHANGED syncVars
    BY <2>1, <1>1, <1>2, <1>4, <1>5 DEF BlockStepOf
  <2> QED
    BY <1>12, <2>1, <1>3, <1>6, <1>7 DEF Internal, BlockStepOf
<1>13. CASE UserCall(t)
  BY <1>13, <1>8, <1>9, <1>10, <1>11 DEF UserCall, BlockStepOf
<1> QED
  BY <1>12, <1>13

\* Steps that touch neither is_blocking nor a wait list preserve BlockInv.
LEMMA BlockQuietKeeps ==
  ASSUME TypeOK, ControlInv, CreateInv, BlockInv, NEW t \in Threads,
         Internal(t) \/ UserCall(t), BlockQuiet(t)
  PROVE  BlockInv'
<1> SUFFICES ASSUME NEW u \in Threads PROVE BlockedOK(u)'
  BY DEF BlockInv
<1>1. BlockedOK(u)
  BY DEF BlockInv
<1>2. SameLists(u)
  BY DEF BlockQuiet, SameLists, InMutex, InCond, InBarrier, Joins
<1>3. Blocked(u)' <=> Blocked(u)
  BY DEF BlockQuiet, Blocked
<1>4. CASE u = t
  BY <1>1, <1>2, <1>3, <1>4, BlockedKept DEF BlockQuiet
<1>5. CASE u # t
  BY <1>1, <1>2, <1>5, OtherKept DEF BlockQuiet
<1> QED
  BY <1>4, <1>5

\* do_thread_exit releases the joiner, which was in no other list.
LEMMA BlockExit ==
  ASSUME TypeOK, ControlInv, CreateInv, BlockInv, NEW t \in Threads,
         Internal(t) \/ UserCall(t), ThreadExit(t), UNCHANGED syncVars
  PROVE  BlockInv'
<1> SUFFICES ASSUME NEW u \in Threads PROVE BlockedOK(u)'
  BY DEF BlockInv
<1>1. BlockedOK(u) /\ BlockedOK(t)
  BY DEF BlockInv
<1>2. /\ pc[t] = "user" /\ t \in threads
      /\ threads' = threads \ {t} /\ is_blocking' = ExitFlags(t) /\ joiner' = joiner
  BY ThreadExitEffect
<1>3. /\ \A m \in Mutexes : InMutex(u, m)' <=> InMutex(u, m)
      /\ \A c \in Conds : InCond(u, c)' <=> InCond(u, c)
      /\ \A b \in Barriers : InBarrier(u, b)' <=> InBarrier(u, b)
      /\ \A x \in Threads : Joins(u, x)' <=> Joins(u, x) /\ x # t
  BY <1>2 DEF InMutex, InCond, InBarrier, Joins
<1>4. CASE u = t
  <2>1. ~Blocked(u)'
    BY <1>2, <1>4 DEF Blocked
  <2>2. ~Registered(u)
    BY <1>1, <1>2, <1>4, Unlisted DEF BlockedPcs
  <2> QED
    BY <1>3, <2>1, <2>2, BlockedFree DEF Registered
<1>5. CASE u # t /\ u = joiner[t]
  <2>1. ~Blocked(u)'
    BY <1>2, <1>5 DEF Blocked, ExitFlags
  <2>2. Joins(u, t)
    BY <1>2, <1>5 DEF Joins
  <2>3. ~Registered(u)'
    BY <1>1, <1>3, <2>2, OneList DEF Registered
  <2> QED
    BY <2>1, <2>3, BlockedFree
<1>6. CASE u # t /\ u # joiner[t]
  <2>1. SameLists(u)
    BY <1>3, <1>6 DEF SameLists, Joins
  <2>2. is_blocking'[u] = is_blocking[u]
    BY <1>2, <1>6 DEF ExitFlags
  <2> QED
    BY <1>1, <1>2, <1>6, <2>1, <2>2, OtherKept
<1> QED
  BY <1>4, <1>5, <1>6

\* A new thread is in no list and nobody joins it yet.
LEMMA BlockCreate ==
  ASSUME TypeOK, ControlInv, CreateInv, BlockInv, NEW t \in Threads, NEW c \in Threads,
         Internal(t) \/ UserCall(t), Create(t, c), UNCHANGED syncVars
  PROVE  BlockInv'
<1> SUFFICES ASSUME NEW u \in Threads PROVE BlockedOK(u)'
  BY DEF BlockInv
<1>1. BlockedOK(u)
  BY DEF BlockInv
<1>2. /\ pc[t] = "create" /\ pc[c] = "unborn"
      /\ threads' = threads \cup {c} /\ is_blocking' = [is_blocking EXCEPT ![c] = FALSE]
      /\ joiner' = [joiner EXCEPT ![c] = None]
  BY DEF Create, AddChild
<1>3. c \notin threads
  BY <1>2 DEF ControlInv, ControlOK
<1>4. SameLists(u)
  BY <1>2, <1>3, ThreadsAssumption DEF SameLists, InMutex, InCond, InBarrier, Joins, TypeOK
<1>5. Blocked(u)' <=> Blocked(u)
  BY <1>2, <1>3 DEF Blocked, TypeOK
<1>6. CASE u \in {t, c}
  <2>1. ~Blocked(u)
    BY <1>1, <1>2, <1>6, Unlisted DEF BlockedPcs
  <2> QED
    BY <1>1, <1>4, <1>5, <2>1, BlockedKept
<1>7. CASE u \notin {t, c}
  BY <1>1, <1>2, <1>4, <1>7, OtherKept DEF TypeOK
<1> QED
  BY <1>6, <1>7

\* pthread_join of a live thread: nobody else joins it.
LEMMA BlockJoin ==
  ASSUME TypeOK, ControlInv, CreateInv, BlockInv, JoinInv, NEW t \in Threads,
         Internal(t) \/ UserCall(t), Join(t), obj[t] \in threads, UNCHANGED syncVars
  PROVE  BlockInv'
<1> SUFFICES ASSUME NEW u \in Threads PROVE BlockedOK(u)'
  BY DEF BlockInv
<1>1. BlockedOK(u) /\ BlockedOK(t)
  BY DEF BlockInv
<1>2. /\ pc[t] = "join" /\ threads' = threads /\ obj' = obj
      /\ is_blocking' = [is_blocking EXCEPT ![t] = TRUE]
      /\ joiner' = [joiner EXCEPT ![obj[t]] = t]
      /\ pc' = [pc EXCEPT ![t] = "drain"] /\ ret' = [ret EXCEPT ![t] = "joined"]
  BY DEF Join, CallContextSwitch, CallDrain, Goto
<1>3. obj[t] \in Threads /\ t \in threads
  BY <1>2 DEF ControlInv, ControlOK, At
<1>4. /\ \A m \in Mutexes : InMutex(u, m)' <=> InMutex(u, m)
      /\ \A c \in Conds : InCond(u, c)' <=> InCond(u, c)
      /\ \A b \in Barriers : InBarrier(u, b)' <=> InBarrier(u, b)
  BY DEF InMutex, InCond, InBarrier
<1>5. \A x \in Threads : Joins(u, x)' <=> IF x = obj[t] THEN u = t ELSE Joins(u, x)
  BY <1>2, <1>3 DEF Joins, TypeOK
<1>6. CASE u # t
  <2>1. ~Joins(u, obj[t])
    BY <1>1, <1>3, <1>6 DEF BlockedOK, JoinInv
  <2>2. SameLists(u)
    BY <1>4, <1>5, <1>6, <2>1 DEF SameLists
  <2> QED
    BY <1>1, <1>2, <1>6, <2>2, OtherKept DEF TypeOK
<1>7. CASE u = t
  <2>1. /\ \A m \in Mutexes : ~InMutex(t, m)
        /\ \A c \in Conds : ~InCond(t, c)
        /\ \A b \in Barriers : ~InBarrier(t, b)
        /\ \A x \in Threads : ~Joins(t, x)
    BY <1>1, <1>2, Unlisted DEF BlockedPcs
  <2>2. Blocked(t)'
    BY <1>2, <1>3 DEF Blocked, TypeOK
  <2>3. pc'[t] = "drain" /\ ret'[t] = "joined" /\ obj'[t] = obj[t]
    BY <1>2 DEF TypeOK
  <2> QED
    BY <1>3, <1>4, <1>5, <1>7, <2>1, <2>2, <2>3
       DEF BlockedOK, Registered, BlockedPcs, BlockedRets, At
<1> QED
  BY <1>6, <1>7

\* A contended mutex_lock registers the caller.
LEMMA BlockLock ==
  ASSUME TypeOK, ControlInv, CreateInv, BlockInv, LiveInv, NEW t \in Threads,
         Internal(t) \/ UserCall(t), MutexLock(t), WillBlock(t, mtx[t])
  PROVE  BlockInv'
<1> SUFFICES ASSUME NEW u \in Threads PROVE BlockedOK(u)'
  BY DEF BlockInv
<1>1. BlockedOK(u) /\ BlockedOK(t)
  BY DEF BlockInv
<1>2. /\ pc[t] = "lock" /\ threads' = threads /\ mtx' = mtx
      /\ UNCHANGED <<joiner, cwaiters, bwaiters>>
      /\ is_blocking' = [is_blocking EXCEPT ![t] = TRUE]
      /\ mwaiters' = [mwaiters EXCEPT ![mtx[t]] = @ \cup {t}]
      /\ pc' = [pc EXCEPT ![t] = "drain"] /\ ret' = [ret EXCEPT ![t] = "relock"]
  BY DEF MutexLock, CallContextSwitch, CallDrain, Goto
<1>3. mtx[t] \in Mutexes /\ t \in threads
  BY <1>2 DEF ControlInv, ControlOK, At, LiveInv
<1>4. /\ \A c \in Conds : InCond(u, c)' <=> InCond(u, c)
      /\ \A b \in Barriers : InBarrier(u, b)' <=> InBarrier(u, b)
      /\ \A x \in Threads : Joins(u, x)' <=> Joins(u, x)
  BY <1>2 DEF InCond, InBarrier, Joins
<1>5. \A m \in Mutexes : InMutex(u, m)' <=> InMutex(u, m) \/ (m = mtx[t] /\ u = t)
  BY <1>2, <1>3 DEF InMutex, TypeOK
<1>6. CASE u # t
  <2>1. SameLists(u)
    BY <1>4, <1>5, <1>6 DEF SameLists
  <2> QED
    BY <1>1, <1>2, <1>6, <2>1, OtherKept DEF TypeOK
<1>7. CASE u = t
  <2>1. /\ \A m \in Mutexes : ~InMutex(t, m)
        /\ \A c \in Conds : ~InCond(t, c)
        /\ \A b \in Barriers : ~InBarrier(t, b)
        /\ \A x \in Threads : ~Joins(t, x)
    BY <1>1, <1>2, Unlisted DEF BlockedPcs
  <2>2. Blocked(t)'
    BY <1>2, <1>3 DEF Blocked, TypeOK
  <2>3. pc'[t] = "drain" /\ ret'[t] = "relock" /\ mtx'[t] = mtx[t]
    BY <1>2 DEF TypeOK
  <2> QED
    BY <1>3, <1>4, <1>5, <1>7, <2>1, <2>2, <2>3
       DEF BlockedOK, Registered, BlockedPcs, BlockedRets, At, Locking
<1> QED
  BY <1>6, <1>7

\* State::mutex_unlock takes at most one thread out of the mutex's list and out
\* of the blocked ones.
LEMMA UnlockReleases ==
  ASSUME TypeOK, NEW m \in Mutexes, NEW B \in [Threads -> BOOLEAN], MutexUnlock(m, B)
  PROVE  \E W \in SUBSET mwaiters[m] :
            /\ mwaiters' = [mwaiters EXCEPT ![m] = @ \ W]
            /\ is_blocking' = Released(B, W)
<1>1. CASE ~LastRelease(m)
  <2>1. is_blocking' = B /\ mwaiters' = mwaiters
    BY <1>1 DEF MutexUnlock
  <2>2. Released(B, {}) = B
    BY DEF Released
  <2>3. mwaiters = [mwaiters EXCEPT ![m] = @ \ {}]
    BY DEF TypeOK
  <2> QED
    BY <2>1, <2>2, <2>3
<1>2. CASE LastRelease(m) /\ mwaiters[m] = {}
  <2>1. mwaiters' = [mwaiters EXCEPT ![m] = @ \ {None}] /\ is_blocking' = Released(B, {None})
    BY <1>2 DEF MutexUnlock, Heirs
  <2>2. Released(B, {None}) = Released(B, {})
    BY ThreadsAssumption DEF Released
  <2>3. mwaiters[m] \ {None} = mwaiters[m] \ {}
    BY <1>2
  <2> QED
    BY <2>1, <2>2, <2>3
<1>3. CASE LastRelease(m) /\ mwaiters[m] # {}
  <2>1. PICK w \in mwaiters[m] : /\ mwaiters' = [mwaiters EXCEPT ![m] = @ \ {w}]
                                 /\ is_blocking' = Released(B, {w})
    BY <1>3 DEF MutexUnlock, Heirs
  <2> QED
    BY <2>1
<1> QED
  BY <1>1, <1>2, <1>3

\* A waiter that mutex_unlock released was in no other list.
LEMMA ReleasedHeir ==
  ASSUME TypeOK, ControlInv, NEW m \in Mutexes, NEW W \in SUBSET mwaiters[m],
         mwaiters' = [mwaiters EXCEPT ![m] = @ \ W],
         NEW u \in W, BlockedOK(u), ~is_blocking'[u], threads' = threads, joiner' = joiner,
         bwaiters' = bwaiters, \A c \in Conds : InCond(u, c)' <=> InCond(u, c)
  PROVE  BlockedOK(u)'
<1>0. u \in Threads
  BY DEF TypeOK
<1>1. InMutex(u, m) /\ ~InMutex(u, m)'
  BY DEF InMutex, TypeOK
<1>2. \A k \in Mutexes : InMutex(u, k)' => InMutex(u, k)
  BY DEF InMutex, TypeOK
<1>3. ~Registered(u)'
  BY <1>0, <1>1, <1>2, OneList DEF Registered, InBarrier, Joins
<1>4. ~Blocked(u)'
  BY DEF Blocked
<1> QED
  BY <1>0, <1>3, <1>4, BlockedFree

\* pthread_mutex_unlock.
LEMMA BlockUnlock ==
  ASSUME IndInv, CreateInv, BlockInv, NEW t \in Threads,
         Internal(t) \/ UserCall(t), Unlock(t)
  PROVE  BlockInv'
<1> SUFFICES ASSUME NEW u \in Threads PROVE BlockedOK(u)'
  BY DEF BlockInv
<1>0. TypeOK /\ ControlInv
  BY DEF IndInv
<1>1. BlockedOK(u) /\ BlockedOK(t)
  BY DEF BlockInv
<1>2. /\ pc[t] = "unlock" /\ mtx[t] \in Mutexes
      /\ UNCHANGED <<threads, joiner, cwaiters, bwaiters>>
  BY ReleaseFacts DEF Unlock
<1>3. PICK W \in SUBSET mwaiters[mtx[t]] :
         /\ mwaiters' = [mwaiters EXCEPT ![mtx[t]] = @ \ W]
         /\ is_blocking' = Released(is_blocking, W)
  <2>1. CASE MutexUnlock(mtx[t], is_blocking)
    BY <1>0, <1>2, <2>1, UnlockReleases DEF TypeOK
  <2>2. CASE UNCHANGED <<is_blocking, mutexVars>>
    <3>1. Released(is_blocking, {}) = is_blocking
      BY <1>0 DEF Released, TypeOK
    <3>2. mwaiters = [mwaiters EXCEPT ![mtx[t]] = @ \ {}]
      BY <1>0 DEF TypeOK
    <3> QED
      BY <2>2, <3>1, <3>2
  <2> QED
    BY <2>1, <2>2 DEF Unlock
<1>4. CASE u \in W
  <2>1. ~is_blocking'[u]
    BY <1>3, <1>4 DEF Released
  <2> QED
    BY <1>0, <1>1, <1>2, <1>3, <1>4, <2>1, ReleasedHeir DEF InCond
<1>5. CASE u \notin W
  <2>1. SameLists(u)
    BY <1>0, <1>2, <1>3, <1>5 DEF SameLists, InMutex, InCond, InBarrier, Joins, TypeOK
  <2>2. is_blocking'[u] = is_blocking[u]
    BY <1>0, <1>3, <1>5 DEF Released, TypeOK
  <2>3. CASE u = t
    <3>1. ~Blocked(t)
      BY <1>1, <1>2, Unlisted DEF BlockedPcs
    <3>2. Blocked(u)' <=> Blocked(u)
      BY <1>2, <2>2 DEF Blocked
    <3> QED
      BY <1>1, <2>1, <2>3, <3>1, <3>2, BlockedKept
  <2> QED
    BY <1>0, <1>1, <1>2, <2>1, <2>2, <2>3, OtherKept
<1> QED
  BY <1>4, <1>5

\* pthread_cond_wait: the mutex is released and the caller registered at once.
LEMMA BlockCondWait ==
  ASSUME IndInv, CreateInv, BlockInv, LiveInv, NEW t \in Threads,
         Internal(t) \/ UserCall(t), CondWait(t)
  PROVE  BlockInv'
<1> SUFFICES ASSUME NEW u \in Threads PROVE BlockedOK(u)'
  BY DEF BlockInv
<1>0. TypeOK /\ ControlInv
  BY DEF IndInv
<1>1. BlockedOK(u) /\ BlockedOK(t)
  BY DEF BlockInv
<1>2. /\ pc[t] = "cwait" /\ mtx[t] \in Mutexes /\ obj[t] \in Conds /\ t \in threads
      /\ UNCHANGED <<threads, joiner, bwaiters, mtx, obj>>
  BY <1>0, ReleaseFacts DEF CondWait, ControlInv, ControlOK, At, LiveInv
<1>3. /\ ~Blocked(t)
      /\ \A m \in Mutexes : ~InMutex(t, m)
      /\ \A c \in Conds : ~InCond(t, c)
      /\ \A b \in Barriers : ~InBarrier(t, b)
      /\ \A x \in Threads : ~Joins(t, x)
  BY <1>1, <1>2, Unlisted DEF BlockedPcs
<1>4. \E B \in [Threads -> BOOLEAN], W \in SUBSET mwaiters[mtx[t]] :
         /\ mwaiters' = [mwaiters EXCEPT ![mtx[t]] = @ \ W]
         /\ is_blocking' = Released(B, W)
         /\ \/ B = is_blocking /\ cwaiters' = cwaiters
            \/ /\ B = [is_blocking EXCEPT ![t] = TRUE]
               /\ cwaiters' = [cwaiters EXCEPT ![obj[t]] = @ \cup {t}]
               /\ pc' = [pc EXCEPT ![t] = "drain"] /\ ret' = [ret EXCEPT ![t] = "relock"]
  <2>1. CASE MutexUnlock(mtx[t], is_blocking) /\ cwaiters' = cwaiters
    BY <1>0, <1>2, <2>1, UnlockReleases DEF TypeOK
  <2>2. CASE /\ MutexUnlock(mtx[t], [is_blocking EXCEPT ![t] = TRUE])
             /\ cwaiters' = [cwaiters EXCEPT ![obj[t]] = @ \cup {t}]
             /\ CallContextSwitch(t, "relock")
    <3>1. [is_blocking EXCEPT ![t] = TRUE] \in [Threads -> BOOLEAN]
      BY <1>0 DEF TypeOK
    <3> QED
      BY <1>0, <1>2, <2>2, <3>1, UnlockReleases DEF CallContextSwitch, CallDrain, Goto
  <2>3. CASE UNCHANGED <<is_blocking, mutexVars, cwaiters>>
    <3>1. Released(is_blocking, {}) = is_blocking /\ is_blocking \in [Threads -> BOOLEAN]
      BY <1>0 DEF Released, TypeOK
    <3>2. mwaiters = [mwaiters EXCEPT ![mtx[t]] = @ \ {}]
      BY <1>0 DEF TypeOK
    <3> QED
      BY <2>3, <3>1, <3>2
  <2> QED
    BY <2>1, <2>2, <2>3 DEF CondWait
<1>5. PICK B \in [Threads -> BOOLEAN], W \in SUBSET mwaiters[mtx[t]] :
         /\ mwaiters' = [mwaiters EXCEPT ![mtx[t]] = @ \ W]
         /\ is_blocking' = Released(B, W)
         /\ \/ B = is_blocking /\ cwaiters' = cwaiters
            \/ /\ B = [is_blocking EXCEPT ![t] = TRUE]
               /\ cwaiters' = [cwaiters EXCEPT ![obj[t]] = @ \cup {t}]
               /\ pc' = [pc EXCEPT ![t] = "drain"] /\ ret' = [ret EXCEPT ![t] = "relock"]
  BY <1>4
<1>6. t \notin W
  BY <1>2, <1>3 DEF InMutex
<1>7. \A v \in Threads \ {t}, c \in Conds : InCond(v, c)' <=> InCond(v, c)
  BY <1>0, <1>2, <1>5 DEF InCond, TypeOK
<1>8. CASE u \in W
  <2>1. ~is_blocking'[u]
    BY <1>5, <1>8 DEF Released
  <2> QED
    BY <1>0, <1>1, <1>2, <1>5, <1>6, <1>7, <1>8, <2>1, ReleasedHeir
<1>9. CASE u \notin W /\ u # t
  <2>1. SameLists(u)
    BY <1>0, <1>2, <1>5, <1>7, <1>9 DEF SameLists, InMutex, InBarrier, Joins, TypeOK
  <2>2. is_blocking'[u] = is_blocking[u]
    BY <1>0, <1>5, <1>9 DEF Released, TypeOK
  <2> QED
    BY <1>0, <1>1, <1>2, <1>9, <2>1, <2>2, OtherKept
<1>10. CASE u = t
  <2>0. /\ \A m \in Mutexes : ~InMutex(t, m)'
        /\ \A b \in Barriers : ~InBarrier(t, b)'
        /\ \A x \in Threads : ~Joins(t, x)'
    BY <1>0, <1>2, <1>3, <1>5 DEF InMutex, InBarrier, Joins, TypeOK
  <2>1. CASE B = is_blocking /\ cwaiters' = cwaiters
    <3>1. \A c \in Conds : ~InCond(t, c)'
      BY <1>3, <2>1 DEF InCond
    <3>2. ~Blocked(t)'
      BY <1>2, <1>3, <1>5, <2>1 DEF Blocked, Released
    <3> QED
      BY <1>10, <2>0, <3>1, <3>2, BlockedFree DEF Registered
  <2>2. CASE /\ B = [is_blocking EXCEPT ![t] = TRUE]
             /\ cwaiters' = [cwaiters EXCEPT ![obj[t]] = @ \cup {t}]
             /\ pc' = [pc EXCEPT ![t] = "drain"] /\ ret' = [ret EXCEPT ![t] = "relock"]
    <3>1. \A c \in Conds : InCond(t, c)' <=> c = obj[t]
      BY <1>0, <1>2, <1>3, <2>2 DEF InCond, TypeOK
    <3>2. Blocked(t)'
      BY <1>0, <1>2, <1>5, <1>6, <2>2 DEF Blocked, Released, TypeOK
    <3>3. pc'[t] = "drain" /\ ret'[t] = "relock" /\ obj'[t] = obj[t]
      BY <1>0, <1>2, <2>2 DEF TypeOK
    <3> QED
      BY <1>2, <1>10, <2>0, <3>1, <3>2, <3>3
         DEF BlockedOK, Registered, BlockedPcs, BlockedRets, At
  <2> QED
    BY <1>5, <2>1, <2>2
<1> QED
  BY <1>8, <1>9, <1>10

\* pthread_cond_signal and pthread_cond_broadcast.
LEMMA BlockSignal ==
  ASSUME TypeOK, ControlInv, CreateInv, BlockInv, NEW t \in Threads,
         Internal(t) \/ UserCall(t), NEW c \in Conds, CondSignal(t, c) \/ CondBroadcast(t, c)
  PROVE  BlockInv'
<1> SUFFICES ASSUME NEW u \in Threads PROVE BlockedOK(u)'
  BY DEF BlockInv
<1>1. BlockedOK(u) /\ BlockedOK(t)
  BY DEF BlockInv
<1>2. PICK W \in SUBSET cwaiters[c] : ReleaseCondWaiters(t, c, W)
  BY DEF CondSignal, CondBroadcast
<1>3. /\ pc[t] = "user" /\ UNCHANGED <<threads, joiner, mwaiters, bwaiters>>
      /\ cwaiters' = [cwaiters EXCEPT ![c] = @ \ W] /\ is_blocking' = Released(is_blocking, W)
  BY <1>2 DEF ReleaseCondWaiters
<1>4. CASE u \in W
  <2>1. ~Blocked(u)'
    BY <1>3, <1>4 DEF Blocked, Released
  <2>2. InCond(u, c) /\ ~InCond(u, c)'
    BY <1>3, <1>4 DEF InCond, TypeOK
  <2>3. \A d \in Conds : InCond(u, d)' => InCond(u, d)
    BY <1>3 DEF InCond, TypeOK
  <2>4. ~Registered(u)'
    BY <1>1, <1>3, <2>2, <2>3, OneList DEF Registered, InMutex, InBarrier, Joins
  <2> QED
    BY <2>1, <2>4, BlockedFree
<1>5. CASE u \notin W
  <2>1. SameLists(u)
    BY <1>3, <1>5 DEF SameLists, InMutex, InCond, InBarrier, Joins, TypeOK
  <2>2. is_blocking'[u] = is_blocking[u]
    BY <1>3, <1>5 DEF Released, TypeOK
  <2>3. CASE u = t
    <3>1. ~Blocked(t)
      BY <1>1, <1>3, Unlisted DEF BlockedPcs
    <3>2. Blocked(u)' <=> Blocked(u)
      BY <1>3, <2>2 DEF Blocked
    <3> QED
      BY <1>1, <2>1, <2>3, <3>1, <3>2, BlockedKept
  <2> QED
    BY <1>1, <1>3, <2>1, <2>2, <2>3, OtherKept
<1> QED
  BY <1>4, <1>5

\* pthread_barrier_wait: the caller joins the round or completes it.
LEMMA BlockBarrier ==
  ASSUME TypeOK, ControlInv, CreateInv, BlockInv, LiveInv, NEW t \in Threads,
         Internal(t) \/ UserCall(t), BarrierWait(t)
  PROVE  BlockInv'
<1> SUFFICES ASSUME NEW u \in Threads PROVE BlockedOK(u)'
  BY DEF BlockInv
<1>1. BlockedOK(u) /\ BlockedOK(t)
  BY DEF BlockInv
<1> DEFINE b == obj[t]
           arrived == bwaiters[b] \cup {t}
<1>2. /\ pc[t] = "bwait" /\ b \in Barriers /\ t \in threads
      /\ UNCHANGED <<threads, joiner, mwaiters, cwaiters, obj>>
  BY DEF BarrierWait, ControlInv, ControlOK, At, LiveInv
<1>3. /\ ~Blocked(t)
      /\ \A m \in Mutexes : ~InMutex(t, m)
      /\ \A c \in Conds : ~InCond(t, c)
      /\ \A d \in Barriers : ~InBarrier(t, d)
      /\ \A x \in Threads : ~Joins(t, x)
  BY <1>1, <1>2, Unlisted DEF BlockedPcs
<1>4. /\ \A m \in Mutexes : InMutex(u, m)' <=> InMutex(u, m)
      /\ \A c \in Conds : InCond(u, c)' <=> InCond(u, c)
      /\ \A x \in Threads : Joins(u, x)' <=> Joins(u, x)
  BY <1>2 DEF InMutex, InCond, Joins
<1>5. CASE is_blocking' = is_blocking /\ bwaiters' = bwaiters
  <2>1. SameLists(u)
    BY <1>4, <1>5 DEF SameLists, InBarrier
  <2>2. Blocked(u)' <=> Blocked(u)
    BY <1>2, <1>5 DEF Blocked
  <2> QED
    BY <1>1, <1>2, <1>3, <1>5, <2>1, <2>2, OtherKept, BlockedKept
<1>6. CASE /\ bwaiters' = [bwaiters EXCEPT ![b] = arrived]
           /\ is_blocking' = [is_blocking EXCEPT ![t] = TRUE]
           /\ CallContextSwitch(t, "barwait")
  <2>1. \A d \in Barriers : InBarrier(u, d)' <=> InBarrier(u, d) \/ (d = b /\ u = t)
    BY <1>2, <1>6 DEF InBarrier, TypeOK
  <2>2. CASE u # t
    <3>1. SameLists(u)
      BY <1>4, <2>1, <2>2 DEF SameLists
    <3> QED
      BY <1>1, <1>2, <1>6, <2>2, <3>1, OtherKept DEF TypeOK
  <2>3. CASE u = t
    <3>1. Blocked(t)'
      BY <1>2, <1>6 DEF Blocked, TypeOK
    <3>2. pc'[t] = "drain" /\ ret'[t] = "barwait" /\ obj'[t] = b
      BY <1>2, <1>6 DEF CallContextSwitch, CallDrain, Goto, TypeOK
    <3> HIDE DEF b
    <3> QED
      BY <1>2, <1>3, <1>4, <2>1, <2>3, <3>1, <3>2
         DEF BlockedOK, Registered, BlockedPcs, BlockedRets, At
  <2> QED
    BY <2>2, <2>3
<1>7. CASE bwaiters' = [bwaiters EXCEPT ![b] = {}] /\ is_blocking' = Released(is_blocking, arrived)
  <2>1. \A d \in Barriers : InBarrier(u, d)' <=> InBarrier(u, d) /\ d # b
    BY <1>2, <1>7 DEF InBarrier, TypeOK
  <2>2. CASE u \in arrived
    <3>1. ~Blocked(u)'
      BY <1>7, <2>2 DEF Blocked, Released
    <3>2. u # t => InBarrier(u, b)
      BY <2>2 DEF InBarrier
    <3>3. ~Registered(u)'
      <4>1. CASE u = t
        BY <1>3, <1>4, <2>1, <4>1 DEF Registered
      <4>2. CASE u # t
        <5> HIDE DEF b
        <5> QED
          BY <1>1, <1>2, <1>4, <2>1, <3>2, <4>2, OneList DEF Registered
      <4> QED
        BY <4>1, <4>2
    <3> QED
      BY <3>1, <3>3, BlockedFree
  <2>3. CASE u \notin arrived
    <3>1. SameLists(u)
      BY <1>4, <2>1, <2>3 DEF SameLists, InBarrier
    <3>2. is_blocking'[u] = is_blocking[u]
      BY <1>7, <2>3 DEF Released, TypeOK
    <3> QED
      BY <1>1, <1>2, <2>3, <3>1, <3>2, OtherKept
  <2> QED
    BY <2>2, <2>3
<1> QED
  BY <1>5, <1>6, <1>7 DEF BarrierWait

\* rsched_reinit starts from empty lists.
LEMMA BlockReinit ==
  ASSUME Reinit
  PROVE  BlockInv'
<1> SUFFICES ASSUME NEW u \in Threads PROVE BlockedOK(u)'
  BY DEF BlockInv
<1>1. ~Blocked(u)'
  BY DEF Reinit, FreshState, Blocked
<1>2. ~Registered(u)'
  BY ThreadsAssumption DEF Reinit, FreshState, Registered, InMutex, InCond, InBarrier, Joins
<1> QED
  BY <1>1, <1>2, BlockedFree

\* A thread is blocked exactly while it is in one list: every function keeps it.
LEMMA BlockStep ==
  IndInv /\ StartupInv /\ LiveInv /\ JoinInv /\ BlockInv /\ [Next]_vars => BlockInv'
<1> SUFFICES ASSUME IndInv, StartupInv, LiveInv, JoinInv, BlockInv, [Next]_vars
             PROVE  BlockInv'
  OBVIOUS
<1>1. TypeOK /\ ControlInv /\ CreateInv
  BY DEF IndInv, StartupInv
<1>2. CASE UNCHANGED vars
  BY <1>2 DEF BlockInv, BlockedOK, Blocked, Registered, InMutex, InCond, InBarrier, Joins,
              Locking, At
<1>3. ASSUME NEW t \in Threads, Internal(t) \/ UserCall(t) PROVE BlockInv'
  <2>1. BlockedOK(t)
    BY DEF BlockInv
  <2>2. BlockQuiet(t) \/ BlockStepOf(t)
    BY <1>1, <1>3, <2>1, BlockQuietStep
  <2>3. CASE BlockQuiet(t)
    BY <1>1, <1>3, <2>3, BlockQuietKeeps
  <2>4. CASE BlockStepOf(t)
    BY <1>1, <1>3, <2>4, BlockExit, BlockCreate, BlockJoin, BlockLock, BlockUnlock,
       BlockCondWait, BlockBarrier, BlockSignal DEF BlockStepOf
  <2> QED
    BY <2>2, <2>3, <2>4
<1> QED
  BY <1>2, <1>3, BlockReinit DEF Next

(***************************************************************************)
(* The theorems.                                                           *)
(***************************************************************************)
BlockingInv == LiveInv /\ JoinInv /\ BlockInv

\* If no thread-local destructor calls into rsched, the registered threads are
\* those that can still run, joins are one to one, and a thread is blocked
\* exactly while it is in a wait list, inside the operation the list belongs to.
THEOREM BlockingInvariant == TeardownCalls = FALSE => (Spec => []BlockingInv)
<1> SUFFICES ASSUME TeardownCalls = FALSE PROVE Spec => []BlockingInv
  OBVIOUS
<1>1. Init => BlockingInv
  BY InitLive, InitJoin, InitBlock DEF BlockingInv
<1>2. IndInv /\ StartupInv /\ BlockingInv /\ [Next]_vars => BlockingInv'
  BY LiveStep, JoinStep, BlockStep DEF BlockingInv
<1> QED
  BY <1>1, <1>2, IndInvariant, StartupInvariant, PTL DEF Spec

\* A registered thread is marked is_blocking exactly while one wait list, or the
\* joiner field of one live thread, holds it, and never while it runs user code.
THEOREM BlockedIffRegisteredOnceHolds ==
  TeardownCalls = FALSE => (Spec => []BlockedIffRegisteredOnce)
<1> SUFFICES ASSUME TeardownCalls = FALSE PROVE Spec => []BlockedIffRegisteredOnce
  OBVIOUS
<1>1. IndInv /\ BlockingInv => BlockedIffRegisteredOnce
  <2> SUFFICES ASSUME IndInv, BlockingInv, NEW t \in threads
               PROVE  /\ is_blocking[t] <=> Places(t) # {}
                      /\ Cardinality(Places(t)) <= 1
                      /\ pc[t] = "user" => Places(t) = {}
    BY DEF BlockedIffRegisteredOnce
  <2>1. ControlInv /\ t \in Threads /\ threads \subseteq Threads
    BY DEF IndInv, TypeOK
  <2>2. BlockedOK(t)
    BY <2>1 DEF BlockingInv, BlockInv
  <2>3. Places(t) # {} <=> Registered(t)
    BY <2>1 DEF Places, Registered, InMutex, InCond, InBarrier, Joins
  <2>4. is_blocking[t] <=> Places(t) # {}
    BY <2>2, <2>3 DEF BlockedOK, Blocked
  <2>5. ASSUME NEW p \in Places(t), NEW q \in Places(t) PROVE p = q
    <3>1. ASSUME NEW r \in Places(t)
          PROVE  \/ r \in Mutexes /\ InMutex(t, r)
                 \/ r \in Conds /\ InCond(t, r)
                 \/ r \in Barriers /\ InBarrier(t, r)
                 \/ r \in Threads /\ Joins(t, r)
      BY <2>1, <3>1 DEF Places, InMutex, InCond, InBarrier, Joins
    <3> QED
      BY <2>1, <2>2, <2>5, <3>1, OneList
  <2>6. Cardinality(Places(t)) <= 1
    <3>1. CASE Places(t) = {}
      BY <3>1, FS_EmptySet
    <3>2. ASSUME NEW p \in Places(t) PROVE Cardinality(Places(t)) = 1
      <4>1. Places(t) = {p}
        BY <2>5, <3>2
      <4> QED
        BY <4>1, FS_Singleton
    <3> QED
      BY <3>1, <3>2
  <2>7. pc[t] = "user" => Places(t) = {}
    BY <2>2, <2>3 DEF BlockedOK, BlockedPcs
  <2> QED
    BY <2>4, <2>6, <2>7
<1> QED
  BY <1>1, IndInvariant, BlockingInvariant, PTL

\* A mutex is only handed to a waiter that a later choose() can return: a thread
\* that has exited is in no mutex's list.
THEOREM HandedMutexWaiterRunnableHolds ==
  TeardownCalls = FALSE => (Spec => []HandedMutexWaiterRunnable)
<1> SUFFICES ASSUME TeardownCalls = FALSE PROVE Spec => []HandedMutexWaiterRunnable
  OBVIOUS
<1>1. IndInv /\ BlockingInv => HandedMutexWaiterRunnable
  <2> SUFFICES ASSUME IndInv, BlockingInv, NEW m \in Mutexes, owner[m] # None, count[m] = 0
               PROVE  owner[m] \in threads
    BY DEF HandedMutexWaiterRunnable
  <2>1. owner[m] \in Threads
    BY DEF IndInv, TypeOK
  <2>2. At(owner[m], {"lock", "relock"})
    BY DEF IndInv, VirtualInv, Locking
  <2>3. pc[owner[m]] \notin GonePcs
    BY <2>1, <2>2 DEF IndInv, ControlInv, ControlOK, At, AwayPcs, GonePcs
  <2> QED
    BY <2>1, <2>3 DEF BlockingInv, LiveInv, GonePcs
<1> QED
  BY <1>1, IndInvariant, BlockingInvariant, PTL

=============================================================================
