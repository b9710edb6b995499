------------------------ MODULE RschedPthreadsProofs ------------------------
(***************************************************************************)
(* The virtual mutexes, condition variables and barriers of Rsched are     *)
(* pthread objects: Rsched implements PthreadObjects, for programs whose   *)
(* thread-local destructors call no pthread function.                      *)
(***************************************************************************)
EXTENDS RschedBlockingProofs, RschedRefinement

USE DEF vars, threadVars, flags, args, child, lifeVars,
        syncVars, mutexVars, virtual, real, barrierVars

(***************************************************************************)
(* BarrierInv: one initialisation, and never more arrivals than places.    *)
(***************************************************************************)
\* No barrier is initialised yet.
LEMMA InitBarrier == Init => BarrierInv
<1> SUFFICES ASSUME Init PROVE BarrierInv
  OBVIOUS
<1>1. \A t \in Threads : ~At(t, {"binit"})
  BY DEF Init, InitialPc, At
<1>2. \A b \in Barriers : bwaiters[b] = {}
  BY DEF Init
<1> QED
  BY <1>1, <1>2, FS_EmptySet DEF BarrierInv

\* A step of t that is no call of pthread_barrier_init.
InitQuiet(t) == At(t, {"binit"})' => At(t, {"binit"}) /\ obj'[t] = obj[t]

\* A thread gets into pthread_barrier_init by calling it, and keeps its argument.
LEMMA InitQuietStep ==
  ASSUME TypeOK, ControlInv, CreateInv, NEW t \in Threads, Internal(t) \/ UserCall(t)
  PROVE  InitQuiet(t) \/ \E b \in Barriers : CallBarrierInit(t, b)
<1> USE DEF TypeOK, InitQuiet, At, Goto, CallContextSwitch, CallDrain
<1>0. pc[t] \notin AwayPcs => ret[t] = "none"
  BY DEF ControlInv, ControlOK
<1>1. ASSUME ReturnTo(t, pc), obj' = obj, pc[t] \in AwayPcs PROVE InitQuiet(t)
  BY <1>1 DEF ReturnTo
<1>2. CASE Return(t)
  BY <1>0, <1>2, ThreadsAssumption DEF Return, Leave, AwayPcs
<1>3. CASE Resume(t)
  BY <1>1, <1>3 DEF Resume, AwayPcs
<1>4. CASE ContextSwitch(t)
  <2>1. obj' = obj /\ pc[t] = "switch"
    BY <1>4 DEF ContextSwitch
  <2>2. ASSUME NEW n, Suspend(t, Signal(n)), ret' = ret PROVE InitQuiet(t)
    BY <2>1, <2>2 DEF Suspend, Signal
  <2> QED
    BY <1>1, <1>4, <2>1, <2>2, ContextSwitchEffect DEF AwayPcs
<1>5. CASE DrainPendingChild(t) \/ DrainResume(t)
  <2>1. obj' = obj /\ pc[t] \in {"drain", "drainwait"}
    BY <1>5 DEF DrainPendingChild, DrainResume
  <2>2. CASE AfterDrain(t)
    BY <2>1, <2>2, AfterDrainEffect DEF DirectDrain
  <2>3. CASE Goto(t, "drainwait") /\ ret' = ret
    BY <2>1, <2>3
  <2> QED
    BY <1>5, <2>2, <2>3 DEF DrainPendingChild, DrainResume
<1>6. CASE CreateFails(t) \/ Die(t) \/ Joined(t)
  BY <1>0, <1>6 DEF CreateFails, Die, Joined, AwayPcs
<1>7. CASE Trampoline(t) \/ TsanStartGate(t)
  BY <1>0, <1>7, SMTT(30) DEF Trampoline, TsanStartGate, Suspend, AwayPcs
<1>8. CASE Join(t)
  BY <1>0, <1>8 DEF Join, AwayPcs
<1>9. CASE RealJoin(t)
  BY <1>0, <1>9, ThreadsAssumption DEF RealJoin, AwayPcs
<1>10. ASSUME NEW c \in Threads, Create(t, c) PROVE InitQuiet(t)
  BY <1>0, <1>10 DEF Create, AwayPcs
<1>11. CASE ThreadExit(t)
  BY <1>0, <1>11 DEF ThreadExit, Signal, AwayPcs
<1>12. CASE MutexLock(t)
  BY <1>0, <1>12 DEF MutexLock, AwayPcs
<1>13. CASE BlockUntilReleased(t)
  BY <1>0, <1>13 DEF BlockUntilReleased, Suspend, AfterBlocking, AwayPcs
<1>14. CASE RealLock(t) \/ Trylock(t)
  BY <1>0, <1>14, SMTT(30) DEF RealLock, Trylock, AwayPcs
<1>15. CASE Unlock(t)
  BY <1>0, <1>15 DEF Unlock, AwayPcs
<1>16. CASE CondWait(t)
  BY <1>0, <1>16 DEF CondWait, AwayPcs
<1>17. CASE BarrierInit(t) \/ BarrierWait(t)
  BY <1>0, <1>17, SMTT(30) DEF BarrierInit, BarrierWait, AwayPcs
<1>18. CASE SchedYield(t) \/ ScheduleMemop(t) \/ CallCreate(t)
  BY <1>0, <1>18, SMTT(30) DEF SchedYield, ScheduleMemop, SchedulingPoint, MayCall, CallCreate
<1>19. ASSUME NEW m \in Mutexes, CallLock(t, m) \/ CallTrylock(t, m) \/ CallUnlock(t, m)
       PROVE  InitQuiet(t)
  <2>1. obj' = obj /\ pc[t] \in {"user", "teardown"}
    BY <1>19 DEF CallLock, CallTrylock, CallUnlock, EnterMutexOp, MayCall
  <2>2. \/ /\ pc' = [pc EXCEPT ![t] = "drain"]
           /\ \E l \in {"lock", "try"} : ret' = [ret EXCEPT ![t] = l]
        \/ /\ \E l \in {"lock", "unlock"} : pc' = [pc EXCEPT ![t] = l]
           /\ ret' = ret
    BY <1>19 DEF CallLock, CallTrylock, CallUnlock
  <2> QED
    BY <1>0, <2>1, <2>2 DEF AwayPcs
<1>20. ASSUME NEW c \in Conds, NEW W, ReleaseCondWaiters(t, c, W) PROVE InitQuiet(t)
  BY <1>20 DEF ReleaseCondWaiters
<1>21. ASSUME NEW c \in Conds, NEW m \in Mutexes, CallCondWait(t, c, m) PROVE InitQuiet(t)
  BY <1>0, <1>21, SyncAssumption, SMTT(30) DEF CallCondWait, AwayPcs
<1>22. ASSUME NEW b \in Barriers, CallBarrierWait(t, b) PROVE InitQuiet(t)
  BY <1>22 DEF CallBarrierWait, EnterBarrierOp
<1>23. ASSUME NEW x \in Threads, CallJoin(t, x) PROVE InitQuiet(t)
  BY <1>23 DEF CallJoin
<1> HIDE DEF InitQuiet
<1>24. CASE Internal(t)
  BY <1>24, <1>2, <1>3, <1>4, <1>5, <1>6, <1>7, <1>8, <1>9, <1>10, <1>12, <1>13, <1>14,
     <1>15, <1>16, <1>17 DEF Internal
<1>25. CASE UserCall(t)
  BY <1>25, <1>11, <1>18, <1>19, <1>20, <1>21, <1>22, <1>23
     DEF UserCall, CondSignal, CondBroadcast
<1> QED
  BY <1>24, <1>25

\* Only pthread_barrier_init sets a count and only pthread_barrier_wait a list.
LEMMA BarrierVarsStep ==
  ASSUME NEW t \in Threads, Internal(t) \/ UserCall(t)
  PROVE  /\ UNCHANGED bcount \/ BarrierInit(t)
         /\ UNCHANGED bwaiters \/ BarrierWait(t)
<1>1. CASE Internal(t)
  BY <1>1 DEF Internal, MutexLock, BlockUntilReleased, RealLock, Trylock, Unlock, CondWait,
     BarrierInit, BarrierWait
<1>2. CASE UserCall(t)
  BY <1>2 DEF UserCall, CallLock, CallTrylock, CallUnlock, EnterMutexOp, CondSignal,
     CondBroadcast, ReleaseCondWaiters, CallCondWait, CallBarrierInit, CallBarrierWait,
     EnterBarrierOp
<1> QED
  BY <1>1, <1>2

\* An arrival makes the round one longer.
LEMMA ArrivalCounts ==
  ASSUME TypeOK, ControlInv, BarrierInv, BlockInv, NEW t \in Threads, pc[t] = "bwait"
  PROVE  /\ obj[t] \in Barriers
         /\ IsFiniteSet(bwaiters[obj[t]] \cup {t})
         /\ Cardinality(bwaiters[obj[t]] \cup {t}) = Cardinality(bwaiters[obj[t]]) + 1
         /\ Cardinality(bwaiters[obj[t]]) \in Nat
         /\ bcount[obj[t]] # 0 => Cardinality(bwaiters[obj[t]]) < bcount[obj[t]]
<1>1. obj[t] \in Barriers
  BY DEF ControlInv, ControlOK, At
<1>2. t \notin bwaiters[obj[t]]
  BY <1>1, Unlisted DEF BlockInv, BlockedPcs, InBarrier
<1>3. IsFiniteSet(bwaiters[obj[t]])
  BY <1>1 DEF BarrierInv
<1>4. /\ IsFiniteSet(bwaiters[obj[t]] \cup {t})
      /\ Cardinality(bwaiters[obj[t]] \cup {t}) = Cardinality(bwaiters[obj[t]]) + 1
  BY <1>2, <1>3, FS_AddElement
<1>5. Cardinality(bwaiters[obj[t]]) \in Nat
  BY <1>3, FS_CardinalityType
<1>6. bcount[obj[t]] # 0 => Cardinality(bwaiters[obj[t]]) < bcount[obj[t]]
  <2>1. bcount[obj[t]] \in Nat
    BY <1>1 DEF TypeOK
  <2>2. CASE bwaiters[obj[t]] = {}
    BY <2>1, <2>2, FS_EmptySet
  <2>3. CASE bwaiters[obj[t]] # {}
    BY <1>1, <2>3 DEF BarrierInv
  <2> QED
    BY <2>2, <2>3
<1> QED
  BY <1>1, <1>4, <1>5, <1>6

\* pthread_barrier_init runs once per barrier, and a full round leaves no waiter.
LEMMA BarrierStep ==
  IndInv /\ StartupInv /\ BlockInv /\ BarrierInv /\ [Next]_vars => BarrierInv'
<1> SUFFICES ASSUME IndInv, StartupInv, BlockInv, BarrierInv, [Next]_vars PROVE BarrierInv'
  OBVIOUS
<1>1. TypeOK /\ ControlInv /\ CreateInv
  BY DEF IndInv, StartupInv
<1>2. CASE UNCHANGED vars
  BY <1>2 DEF BarrierInv, At
<1>3. CASE Reinit
  <2>1. \A t \in Threads : pc'[t] \in {"user", "unborn"} /\ ret'[t] = "none"
    BY <1>1, <1>3 DEF Reinit, InitialPc, ControlInv, ControlOK, AwayPcs
  <2>2. \A t \in Threads : ~At(t, {"binit"})'
    BY <2>1 DEF At
  <2>3. \A b \in Barriers : bwaiters'[b] = {}
    BY <1>3 DEF Reinit, FreshState
  <2> QED
    BY <2>2, <2>3, FS_EmptySet DEF BarrierInv
<1>4. ASSUME NEW t \in Threads, Internal(t) \/ UserCall(t) PROVE BarrierInv'
  <2>1. \A u \in Threads \ {t} : obj'[u] = obj[u] /\ (At(u, {"binit"})' <=> At(u, {"binit"}))
    BY <1>1, <1>4, FrameStep DEF Frame, Moved, At
  <2>2. \A u \in Threads : At(u, {"binit"}) => obj[u] \in Barriers /\ bcount[obj[u]] = 0
    <3>1. \A u \in Threads : At(u, {"binit"}) => obj[u] \in Barriers
      BY <1>1 DEF ControlInv, ControlOK, At
    <3>2. \A u \in Threads : At(u, {"binit"}) => bcount[obj[u]] = 0
      BY DEF BarrierInv
    <3> QED
      BY <3>1, <3>2
  <2>3. CASE \E b \in Barriers : CallBarrierInit(t, b)
    <3>1. PICK b \in Barriers : CallBarrierInit(t, b)
      BY <2>3
    <3>2. /\ bcount[b] = 0 /\ \A u \in Threads : obj[u] # b
          /\ UNCHANGED <<bcount, bwaiters>> /\ obj'[t] = b
      BY <1>1, <3>1 DEF CallBarrierInit, EnterBarrierOp, TypeOK
    <3> QED
      BY <2>1, <3>2 DEF BarrierInv
  <2>4. CASE InitQuiet(t)
    <3>1. \A u \in Threads : At(u, {"binit"})' => At(u, {"binit"}) /\ obj'[u] = obj[u]
      BY <2>1, <2>4 DEF InitQuiet
    <3>2. CASE UNCHANGED <<bcount, bwaiters>>
      BY <3>1, <3>2 DEF BarrierInv
    <3>3. CASE BarrierInit(t)
      <4>1. /\ pc[t] = "binit" /\ bwaiters' = bwaiters
            /\ \A b \in Barriers \ {obj[t]} : bcount'[b] = bcount[b]
        BY <1>1, <3>3 DEF BarrierInit, TypeOK
      <4>2. ~At(t, {"binit"})'
        BY <1>1, <3>3, <4>1 DEF BarrierInit, Goto, At, ControlInv, ControlOK, AwayPcs, TypeOK
      <4>3. \A u \in Threads \ {t} : At(u, {"binit"}) => obj[u] # obj[t]
        BY <4>1 DEF BarrierInv, At
      <4>4. obj[t] \in Barriers /\ bcount[obj[t]] = 0
        BY <2>2, <4>1 DEF At
      <4>5. bwaiters[obj[t]] = {}
        <5>1. Cardinality(bwaiters[obj[t]]) \in Nat
          BY <4>4, FS_CardinalityType DEF BarrierInv
        <5> QED
          BY <4>4, <5>1 DEF BarrierInv
      <4>6. \A b \in Barriers : /\ IsFiniteSet(bwaiters'[b])
                                /\ bwaiters'[b] # {} => Cardinality(bwaiters'[b]) < bcount'[b]
        BY <4>1, <4>5 DEF BarrierInv
      <4>7. \A u \in Threads : At(u, {"binit"})' => bcount'[obj'[u]] = 0
        BY <2>2, <3>1, <4>1, <4>2, <4>3
      <4> QED
        BY <3>1, <4>6, <4>7 DEF BarrierInv
    <3>4. CASE BarrierWait(t) /\ UNCHANGED bcount
      <4>0. pc[t] = "bwait"
        BY <3>4 DEF BarrierWait
      <4> DEFINE b == obj[t]
                 arrived == bwaiters[b] \cup {t}
      <4>1. /\ b \in Barriers /\ IsFiniteSet(arrived)
            /\ Cardinality(arrived) \in Nat /\ bcount[b] \in Nat
        BY <1>1, <4>0, ArrivalCounts, FS_CardinalityType DEF TypeOK
      <4>2. \/ bwaiters' = bwaiters
            \/ bwaiters' = [bwaiters EXCEPT ![b] = arrived] /\ ~(Cardinality(arrived) >= bcount[b])
            \/ bwaiters' = [bwaiters EXCEPT ![b] = {}]
        BY <3>4 DEF BarrierWait, Full
      <4> HIDE DEF arrived, b
      <4>3. \A d \in Barriers : /\ IsFiniteSet(bwaiters'[d])
                                /\ bwaiters'[d] # {} => Cardinality(bwaiters'[d]) < bcount'[d]
        <5> SUFFICES ASSUME NEW d \in Barriers
                     PROVE  /\ IsFiniteSet(bwaiters'[d])
                            /\ bwaiters'[d] # {} => Cardinality(bwaiters'[d]) < bcount[d]
          BY <3>4
        <5>1. /\ IsFiniteSet(bwaiters[d])
              /\ bwaiters[d] # {} => Cardinality(bwaiters[d]) < bcount[d]
          BY DEF BarrierInv
        <5>2. \/ bwaiters'[d] = bwaiters[d]
              \/ d = b /\ bwaiters'[d] = arrived /\ ~(Cardinality(arrived) >= bcount[b])
              \/ bwaiters'[d] = {}
          BY <1>1, <4>2 DEF TypeOK
        <5>3. CASE d = b /\ bwaiters'[d] = arrived /\ ~(Cardinality(arrived) >= bcount[b])
          BY <4>1, <5>3
        <5> QED
          BY <5>1, <5>2, <5>3, FS_EmptySet
      <4> QED
        BY <3>1, <3>4, <4>3 DEF BarrierInv
    <3> QED
      BY <1>4, <3>2, <3>3, <3>4, BarrierVarsStep DEF BarrierInit, BarrierWait
  <2> QED
    BY <1>1, <1>4, <2>3, <2>4, InitQuietStep
<1> QED
  BY <1>2, <1>3, <1>4 DEF Next

(***************************************************************************)
(* The abstract state, and what a step of t leaves of it.                  *)
(***************************************************************************)
Out == {t \in threads : pc[t] = "user"}
OwesAll == [t \in Threads |-> Owes(t)]
HolderAll == [m \in Mutexes |-> Holder(m)]
objView == <<Out, OwesAll, HolderAll, count, cwaiters, bwaiters, bcount>>

ObjInv == StartupInv /\ BlockingInv /\ BarrierInv

\* No mutex, condition variable or barrier changes.
SameObjects == UNCHANGED <<owner, count, cwaiters, bwaiters, bcount>>

\* Where t is, and what it owes, is t's own business.
LEMMA ViewFrame ==
  ASSUME TypeOK, TypeOK', NEW t \in Threads, Internal(t) \/ UserCall(t)
  PROVE  /\ Out' = IF t \in threads' /\ pc'[t] = "user" THEN Out \cup {t} ELSE Out \ {t}
         /\ OwesAll' = [OwesAll EXCEPT ![t] = Owes(t)']
<1>1. Frame(t)
  BY FrameStep
<1>2. threads \subseteq Threads /\ threads' \subseteq Threads
  BY DEF TypeOK
<1>3. \A u \in Threads \ {t} : u \in threads' /\ pc'[u] = "user" <=> u \in threads /\ pc[u] = "user"
  BY <1>1 DEF Frame, Moved
<1>4. \A u \in Threads \ {t} : Owes(u)' = Owes(u)
  BY <1>1 DEF Frame, Moved, Owes, At
<1>5. Out' = IF t \in threads' /\ pc'[t] = "user" THEN Out \cup {t} ELSE Out \ {t}
  BY <1>2, <1>3 DEF Out
<1>6. OwesAll' = [OwesAll EXCEPT ![t] = Owes(t)']
  BY <1>4 DEF OwesAll
<1> QED
  BY <1>5, <1>6

\* A step inside the library that leaves what the call owes its caller alone is not
\* visible in user code.
LEMMA ViewSame ==
  ASSUME TypeOK, TypeOK', NEW t \in Threads, Internal(t) \/ UserCall(t),
         pc[t] # "user", pc'[t] # "user", Owes(t)' = Owes(t)
  PROVE  Out' = Out /\ OwesAll' = OwesAll
<1>1. Out' = Out
  BY ViewFrame DEF Out
<1>2. OwesAll' = OwesAll
  BY ViewFrame DEF OwesAll
<1> QED
  BY <1>1, <1>2

\* Who holds which mutex, how deep, depends on the mutexes' fields alone.
LEMMA HoldersSame ==
  ASSUME SameObjects
  PROVE  HolderAll' = HolderAll
BY DEF SameObjects, HolderAll, Holder

\* A thread that executes library code and is in no list is inside a call.
LEMMA IsInside ==
  ASSUME NEW t \in Threads, BlockedOK(t), ~Blocked(t), pc[t] # "user"
  PROVE  Pthreads!Inside(t)
<1>1. ~Registered(t)
  BY DEF BlockedOK
<1> QED
  BY <1>1 DEF Pthreads!Inside, Pthreads!Waiting, Registered, InCond, InBarrier

\* A call from user code.
LEMMA ObjBegin ==
  ASSUME TypeOK, TypeOK', ControlInv, ControlInv', NEW t \in Threads,
         Internal(t) \/ UserCall(t),
         pc[t] = "user", t \in threads' => pc'[t] # "user", SameObjects
  PROVE  Pthreads!Begin(t)
<1>1. t \in Out
  BY DEF Out, ControlInv, ControlOK, At
<1>2. Out' = Out \ {t}
  BY ViewFrame
<1>3. Owes(t)' \in Mutexes \cup {None}
  BY DEF Owes, ControlInv, ControlOK, At
<1>4. OwesAll' = [OwesAll EXCEPT ![t] = Owes(t)']
  BY ViewFrame
<1> QED
  BY <1>1, <1>2, <1>3, <1>4, HoldersSame
     DEF Pthreads!Begin, Pthreads!mutexes, Pthreads!barriers, Out, OwesAll, HolderAll, SameObjects

\* The return of a call to user code.
LEMMA ObjReturn ==
  ASSUME TypeOK, TypeOK', ControlInv, ControlInv', NEW t \in Threads,
         Internal(t) \/ UserCall(t), BlockedOK(t), ~Blocked(t),
         pc[t] \notin AwayPcs \cup {"user", "lock", "relock"}, pc'[t] = "user", SameObjects
  PROVE  Pthreads!Return(t)
<1>1. Owes(t) = None /\ Owes(t)' = None
  BY DEF Owes, ControlInv, ControlOK, At, AwayPcs
<1>2. t \in threads'
  BY DEF ControlInv, ControlOK, At
<1>3. Out' = Out \cup {t}
  BY <1>2, ViewFrame
<1>4. OwesAll' = OwesAll /\ OwesAll[t] = None
  BY <1>1, ViewFrame DEF OwesAll
<1> QED
  BY <1>3, <1>4, IsInside, HoldersSame
     DEF Pthreads!Return, Pthreads!mutexes, Pthreads!barriers, Out, OwesAll, HolderAll, SameObjects

\* A step inside a call that touches no object.
LEMMA ObjStutter ==
  ASSUME TypeOK, TypeOK', NEW t \in Threads, Internal(t) \/ UserCall(t), SameObjects,
         pc[t] # "user", pc'[t] # "user", Owes(t)' = Owes(t)
  PROVE  UNCHANGED objView
BY ViewSame, HoldersSame DEF objView, SameObjects

(***************************************************************************)
(* Every step is a step of the abstract objects.                           *)
(***************************************************************************)
\* Every call but the release of condition waiters touches no object.
LEMMA ObjCalls ==
  ASSUME TeardownCalls = FALSE, TypeOK, TypeOK', ControlInv, ControlInv', NEW t \in Threads,
         UserCall(t), \A c \in Conds : ~CondSignal(t, c) /\ ~CondBroadcast(t, c)
  PROVE  Pthreads!Begin(t)
<1> SUFFICES pc[t] = "user" /\ (t \in threads' => pc'[t] # "user") /\ SameObjects
  BY ObjBegin
<1> USE DEF SameObjects, TypeOK, Goto, CallContextSwitch, CallDrain
<1>1. CASE /\ \/ SchedYield(t) \/ ScheduleMemop(t) \/ CallCreate(t) \/ ThreadExit(t)
              \/ \E x \in Threads : CallJoin(t, x)
           /\ UNCHANGED syncVars
  BY <1>1 DEF SchedYield, ScheduleMemop, SchedulingPoint, MayCall, CallCreate, ThreadExit, CallJoin
<1>2. CASE \E m \in Mutexes : CallLock(t, m) \/ CallTrylock(t, m) \/ CallUnlock(t, m)
  BY <1>2, SMTT(30) DEF CallLock, CallTrylock, CallUnlock, EnterMutexOp, MayCall
<1>3. CASE \E c \in Conds : \E m \in Mutexes : CallCondWait(t, c, m)
  BY <1>3 DEF CallCondWait
<1>4. CASE \E b \in Barriers : CallBarrierInit(t, b) \/ CallBarrierWait(t, b)
  BY <1>4 DEF CallBarrierInit, CallBarrierWait, EnterBarrierOp
<1> QED
  BY <1>1, <1>2, <1>3, <1>4 DEF UserCall

\* The ends of calls.
LEMMA ObjReturns ==
  ASSUME TypeOK, TypeOK', ControlInv, ControlInv', LiveInv, NEW t \in Threads,
         Internal(t) \/ UserCall(t), BlockedOK(t), UNCHANGED syncVars,
         Return(t) \/ CreateFails(t) \/ RealJoin(t) \/ \E c \in Threads : Create(t, c)
  PROVE  Pthreads!Return(t)
<1>1. SameObjects
  BY DEF SameObjects
<1>2. CASE Return(t)
  <2>1. pc[t] \in {"clear", "gunlock"}
    BY <1>2 DEF Return
  <2>2. pc'[t] = "user"
    BY <1>2, <2>1 DEF Return, Leave, Goto, TypeOK, LiveInv
  <2> QED
    BY <1>1, <2>1, <2>2, ObjReturn, Unlisted DEF AwayPcs, BlockedPcs
<1>3. CASE CreateFails(t) \/ \E c \in Threads : Create(t, c)
  <2>1. pc[t] = "create" /\ pc'[t] = "user"
    BY <1>3 DEF CreateFails, Create, Goto, TypeOK
  <2> QED
    BY <1>1, <2>1, ObjReturn, Unlisted DEF AwayPcs, BlockedPcs
<1>4. CASE RealJoin(t)
  <2>1. pc[t] = "realjoin" /\ pc'[t] = "user"
    BY <1>4 DEF RealJoin, ControlInv, ControlOK, At, TypeOK
  <2> QED
    BY <1>1, <1>4, <2>1, ObjReturn, ReaperUnblocked DEF AwayPcs
<1> QED
  BY <1>2, <1>3, <1>4

\* Waits, decisions, drains and the start and end of threads are invisible.
LEMMA ObjInvisible ==
  ASSUME TypeOK, TypeOK', ControlInv, NEW t \in Threads,
         Internal(t) \/ UserCall(t), UNCHANGED syncVars,
         \/ Resume(t) \/ ContextSwitch(t) \/ DrainPendingChild(t) \/ DrainResume(t)
         \/ Trampoline(t) \/ TsanStartGate(t) \/ Die(t) \/ Join(t) \/ Joined(t)
         \/ BlockUntilReleased(t)
  PROVE  UNCHANGED objView
<1> SUFFICES pc[t] # "user" /\ pc'[t] # "user" /\ Owes(t)' = Owes(t)
  BY ObjStutter DEF SameObjects
<1>0. pc[t] \notin AwayPcs => ret[t] = "none"
  BY DEF ControlInv, ControlOK
<1> USE DEF Owes, At, TypeOK, Goto, CallContextSwitch, CallDrain
<1>1. ASSUME pc[t] \in AwayPcs, ReturnTo(t, pc), mtx' = mtx
      PROVE  pc[t] # "user" /\ pc'[t] # "user" /\ Owes(t)' = Owes(t)
  BY <1>1 DEF ReturnTo, RetLabels, AwayPcs
<1>2. CASE Resume(t)
  BY <1>1, <1>2 DEF Resume, AwayPcs
<1>3. CASE ContextSwitch(t)
  <2>1. pc[t] = "switch" /\ mtx' = mtx
    BY <1>3 DEF ContextSwitch
  <2>2. ASSUME NEW n, Suspend(t, Signal(n)), ret' = ret
        PROVE  pc[t] # "user" /\ pc'[t] # "user" /\ Owes(t)' = Owes(t)
    BY <2>1, <2>2 DEF Suspend, Signal
  <2> QED
    BY <1>1, <1>3, <2>1, <2>2, ContextSwitchEffect DEF AwayPcs
<1>4. CASE DrainPendingChild(t) \/ DrainResume(t)
  <2>1. pc[t] \in {"drain", "drainwait"} /\ mtx' = mtx
    BY <1>4 DEF DrainPendingChild, DrainResume
  <2>2. CASE AfterDrain(t)
    BY <2>1, <2>2, AfterDrainEffect DEF DirectDrain
  <2>3. CASE Goto(t, "drainwait") /\ ret' = ret
    BY <2>1, <2>3
  <2> QED
    BY <1>4, <2>2, <2>3 DEF DrainPendingChild, DrainResume
<1>5. CASE Trampoline(t) \/ TsanStartGate(t)
  BY <1>0, <1>5 DEF Trampoline, TsanStartGate, Suspend, AwayPcs
<1>6. CASE Die(t) \/ Join(t) \/ Joined(t)
  BY <1>0, <1>6 DEF Die, Join, Joined, AwayPcs
<1>7. CASE BlockUntilReleased(t)
  BY <1>0, <1>7 DEF BlockUntilReleased, Suspend, AfterBlocking, AwayPcs
<1> QED
  BY <1>2, <1>3, <1>4, <1>5, <1>6, <1>7

\* The functions of a mutex that leave its owner and its count alone.
LEMMA ObjMutexQuiet ==
  ASSUME TypeOK, TypeOK', ControlInv, NEW t \in Threads,
         Internal(t) \/ UserCall(t), BlockedOK(t),
         (MutexLock(t) /\ WillBlock(t, mtx[t])) \/ RealLock(t) \/ Trylock(t)
  PROVE  UNCHANGED objView \/ \E m \in Mutexes : Pthreads!Decide(t, m)
<1>0. /\ pc[t] \in {"lock", "reallock", "try"} /\ ret[t] = "none"
      /\ mtx[t] \in Mutexes /\ mtx' = mtx /\ SameObjects
  BY DEF MutexLock, RealLock, Trylock, ControlInv, ControlOK, AwayPcs, At, SameObjects
<1> USE DEF Owes, At, TypeOK, Goto, CallContextSwitch, CallDrain
<1>1. CASE MutexLock(t) /\ WillBlock(t, mtx[t])
  <2>1. Owes(t)' = Owes(t) /\ pc'[t] # "user"
    BY <1>0, <1>1 DEF MutexLock
  <2> QED
    BY <1>0, <2>1, ObjStutter
<1>2. CASE RealLock(t)
  <2>1. Owes(t)' = Owes(t) /\ pc'[t] # "user"
    BY <1>0, <1>2 DEF RealLock
  <2> QED
    BY <1>0, <2>1, ObjStutter
<1>3. CASE Trylock(t)
  <2>1. pc[t] = "try" /\ ret' = ret /\ pc'[t] \in {"clear", "lock"}
    BY <1>3 DEF Trylock
  <2>2. CASE pc'[t] = "clear"
    <3>1. Owes(t)' = Owes(t)
      BY <1>0, <2>1, <2>2
    <3> QED
      BY <1>0, <2>1, <2>2, <3>1, ObjStutter
  <2>3. CASE pc'[t] = "lock"
    <3>1. Owes(t) = None /\ Owes(t)' = mtx[t]
      BY <1>0, <2>1, <2>3
    <3>2. Out' = Out /\ OwesAll' = [OwesAll EXCEPT ![t] = mtx[t]] /\ OwesAll[t] = None
      BY <2>1, <2>3, <3>1, ViewFrame DEF Out, OwesAll
    <3>3. Pthreads!Inside(t)
      BY <2>1, IsInside, Unlisted DEF BlockedPcs
    <3> HIDE DEF Owes
    <3>4. Pthreads!Decide(t, mtx[t])
      BY <1>0, <3>2, <3>3, HoldersSame
         DEF Pthreads!Decide, Pthreads!mutexes, Pthreads!barriers, Out, OwesAll, HolderAll, SameObjects
    <3> QED
      BY <1>0, <3>4
  <2> QED
    BY <2>1, <2>2, <2>3
<1> QED
  BY <1>1, <1>2, <1>3

\* State::mutex_lock acquires the mutex its caller owes.
LEMMA ObjLock ==
  ASSUME TypeOK, TypeOK', ControlInv, VirtualInv, NEW t \in Threads,
         Internal(t) \/ UserCall(t), BlockedOK(t), MutexLock(t), ~WillBlock(t, mtx[t])
  PROVE  \E m \in Mutexes : Pthreads!Lock(t, m)
<1>0. PICK m \in Mutexes : m = mtx[t]
  BY DEF MutexLock, ControlInv, ControlOK, At
<1>1. /\ pc[t] = "lock" /\ ret[t] = "none" /\ mtx' = mtx /\ ret' = ret
      /\ pc'[t] = "reallock" /\ owner[m] \in {None, t}
      /\ owner' = [owner EXCEPT ![m] = t] /\ count' = [count EXCEPT ![m] = count[m] + 1]
      /\ UNCHANGED <<cwaiters, barrierVars>>
  BY <1>0 DEF MutexLock, WillBlock, Goto, TypeOK, ControlInv, ControlOK, AwayPcs, At
<1>2. Owes(t) = m /\ Owes(t)' = None
  BY <1>0, <1>1, SyncAssumption DEF Owes, At
<1>3. OwesAll[t] = m /\ OwesAll' = [OwesAll EXCEPT ![t] = None]
  BY <1>2, ViewFrame DEF OwesAll
<1>4. Out' = Out
  BY <1>1, ViewFrame DEF Out
<1>5. Holder(m) \in {None, t}
  BY <1>1 DEF Holder
<1>6. Holder(m)' = t /\ \A k \in Mutexes \ {m} : Holder(k)' = Holder(k)
  <2>1. owner'[m] = t /\ count'[m] > 0
    BY <1>1 DEF TypeOK
  <2>2. \A k \in Mutexes \ {m} : owner'[k] = owner[k] /\ count'[k] = count[k]
    BY <1>1 DEF TypeOK
  <2> QED
    BY <1>1, <2>1, <2>2 DEF Holder
<1>7. HolderAll[m] \in {None, t} /\ HolderAll' = [HolderAll EXCEPT ![m] = t]
  BY <1>1, <1>5, <1>6 DEF HolderAll
<1>8. Pthreads!Inside(t)
  BY <1>1, IsInside, Unlisted DEF BlockedPcs
<1>9. Pthreads!Lock(t, m)
  BY <1>1, <1>3, <1>4, <1>7, <1>8
     DEF Pthreads!Lock, Pthreads!barriers, Out, OwesAll, HolderAll
<1> QED
  BY <1>1, <1>9

\* The release of a mutex by its owner; its heir, if any, has yet to take it.
LEMMA ObjRelease ==
  ASSUME IndInv, NEW t \in Threads, pc[t] \in {"unlock", "cwait"},
         NEW m \in Mutexes, owner[m] = t, NEW B, MutexUnlock(m, B)
  PROVE  /\ HolderAll[m] = t
         /\ count' = [count EXCEPT ![m] = count[m] - 1]
         /\ HolderAll' = [HolderAll EXCEPT ![m] = IF count[m] = 1 THEN None ELSE t]
<1>1. TypeOK /\ count[m] # 0
  BY UnlockCounts DEF IndInv
<1>2. count[m] \in Nat
  BY <1>1 DEF TypeOK
<1>3. Holder(m) = t
  BY <1>1, <1>2 DEF Holder
<1>4. count' = [count EXCEPT ![m] = count[m] - 1]
  BY <1>1, MutexUnlockCases
<1>5. count'[m] = count[m] - 1
  BY <1>1, <1>4 DEF TypeOK
<1>6. Holder(m)' = IF count[m] = 1 THEN None ELSE t
  <2>1. CASE count[m] = 1
    BY <1>5, <2>1 DEF Holder
  <2>2. CASE count[m] # 1
    <3>1. owner' = owner
      BY <1>1, <2>2, MutexUnlockCases
    <3> QED
      BY <1>1, <1>2, <1>5, <2>2, <3>1 DEF Holder
  <2> QED
    BY <2>1, <2>2
<1>7. \A k \in Mutexes \ {m} : Holder(k)' = Holder(k)
  <2>1. \A k \in Mutexes \ {m} : owner'[k] = owner[k] /\ count'[k] = count[k]
    BY <1>1, MutexUnlockCases DEF TypeOK
  <2> QED
    BY <2>1 DEF Holder
<1> QED
  BY <1>3, <1>4, <1>6, <1>7 DEF HolderAll

\* pthread_mutex_unlock releases the caller's mutex, or finds it is not the caller's.
LEMMA ObjUnlock ==
  ASSUME IndInv, TypeOK', NEW t \in Threads, Internal(t) \/ UserCall(t), BlockedOK(t),
         \/ Unlock(t)
         \/ CondWait(t) /\ ~(MayUnlock(t, mtx[t]) /\ rowner[mtx[t]] = t)
  PROVE  UNCHANGED objView \/ \E m \in Mutexes : Pthreads!Unlock(t, m)
<1> DEFINE m == mtx[t]
<1>1. /\ TypeOK /\ pc[t] \in {"unlock", "cwait"} /\ ret[t] = "none" /\ m \in Mutexes
  BY DEF IndInv, Unlock, CondWait, ControlInv, ControlOK, AwayPcs, At
<1>2. /\ UNCHANGED <<mtx, cwaiters, bcount, bwaiters>>
      /\ pc'[t] \in {"drain", "clear", "gunlock"} /\ ret'[t] \in {"none", "clear"}
  BY <1>1, SMTT(30) DEF Unlock, CondWait, Goto, CallContextSwitch, CallDrain, TypeOK
<1>3. Owes(t) = None /\ Owes(t)' = None
  BY <1>1, <1>2 DEF Owes, At
<1>4. Out' = Out /\ OwesAll' = OwesAll /\ OwesAll[t] = None
  BY <1>1, <1>2, <1>3, ViewSame DEF OwesAll
<1>5. CASE ~MayUnlock(t, m)
  <2>1. SameObjects
    BY <1>1, <1>2, <1>5 DEF Unlock, CondWait, SameObjects
  <2> QED
    BY <1>4, <2>1, HoldersSame DEF objView, SameObjects
<1>6. CASE MayUnlock(t, m)
  <2>1. owner[m] = t /\ \E B : MutexUnlock(m, B)
    BY <1>6 DEF Unlock, CondWait, MayUnlock
  <2>2. Pthreads!Inside(t)
    BY <1>1, IsInside, Unlisted DEF BlockedPcs
  <2> HIDE DEF m
  <2>3. Pthreads!Unlock(t, m)
    BY <1>1, <1>2, <1>4, <2>1, <2>2, ObjRelease
       DEF Pthreads!Unlock, Pthreads!Release, Pthreads!barriers, Out, OwesAll, HolderAll
  <2> QED
    BY <1>1, <2>3
<1> QED
  BY <1>5, <1>6

\* pthread_cond_wait releases the mutex and registers in one step, and owes it.
LEMMA ObjCondWait ==
  ASSUME IndInv, TypeOK', NEW t \in Threads, Internal(t) \/ UserCall(t), BlockedOK(t),
         CondWait(t), MayUnlock(t, mtx[t]), rowner[mtx[t]] = t
  PROVE  \E m \in Mutexes, c \in Conds : Pthreads!CondWait(t, c, m)
<1> DEFINE m == mtx[t]
           c == obj[t]
<1>1. /\ TypeOK /\ pc[t] = "cwait" /\ ret[t] = "none" /\ m \in Mutexes /\ c \in Conds
  BY DEF IndInv, CondWait, ControlInv, ControlOK, AwayPcs, At
<1>2. /\ UNCHANGED <<mtx, bcount, bwaiters>> /\ pc'[t] = "drain" /\ ret'[t] = "relock"
      /\ cwaiters' = [cwaiters EXCEPT ![c] = @ \cup {t}]
      /\ owner[m] = t /\ \E B : MutexUnlock(m, B)
  BY <1>1 DEF CondWait, MayUnlock, Goto, CallContextSwitch, CallDrain, TypeOK
<1>3. Owes(t) = None /\ Owes(t)' = m
  BY <1>1, <1>2 DEF Owes, At
<1>4. Out' = Out /\ OwesAll' = [OwesAll EXCEPT ![t] = m] /\ OwesAll[t] = None
  BY <1>1, <1>2, <1>3, ViewFrame DEF OwesAll, Out
<1>5. Pthreads!Inside(t)
  BY <1>1, IsInside, Unlisted DEF BlockedPcs
<1> HIDE DEF m, c
<1>6. Pthreads!CondWait(t, c, m)
  BY <1>1, <1>2, <1>4, <1>5, ObjRelease
     DEF Pthreads!CondWait, Pthreads!Release, Pthreads!barriers, Out, OwesAll, HolderAll
<1> QED
  BY <1>1, <1>6

\* The release of waiters from user code.
LEMMA ObjNotify ==
  ASSUME TypeOK, TypeOK', ControlInv, NEW t \in Threads, UserCall(t),
         NEW c \in Conds, NEW W, ReleaseCondWaiters(t, c, W)
  PROVE  Pthreads!Notify(t, c, W)
<1>1. /\ pc[t] = "user" /\ pc'[t] = "drain" /\ ret'[t] = "gunlock" /\ ret[t] = "none"
      /\ cwaiters' = [cwaiters EXCEPT ![c] = @ \ W]
      /\ UNCHANGED <<mtx, owner, count, bcount, bwaiters>>
  BY DEF ReleaseCondWaiters, Goto, CallContextSwitch, CallDrain, TypeOK, ControlInv,
     ControlOK, AwayPcs
<1>2. Owes(t) = None /\ Owes(t)' = None
  BY <1>1 DEF Owes, At
<1>3. OwesAll' = OwesAll
  BY <1>2, ViewFrame DEF OwesAll
<1>4. t \in Out /\ Out' = Out \ {t}
  BY <1>1, ViewFrame DEF Out, ControlInv, ControlOK, At
<1>5. HolderAll' = HolderAll
  BY <1>1 DEF HolderAll, Holder
<1> QED
  BY <1>1, <1>3, <1>4, <1>5
     DEF Pthreads!Notify, Pthreads!mutexes, Pthreads!barriers, Out, OwesAll, HolderAll

\* pthread_cond_signal releases one waiter, or finds none.
LEMMA ObjSignal ==
  ASSUME TypeOK, TypeOK', ControlInv, NEW t \in Threads, NEW c \in Conds, CondSignal(t, c)
  PROVE  Pthreads!Signal(t, c)
<1>0. UserCall(t)
  BY DEF UserCall
<1>1. CASE cwaiters[c] = {}
  <2>1. ReleaseCondWaiters(t, c, {})
    BY <1>1 DEF CondSignal
  <2>2. Pthreads!Notify(t, c, {})
    BY <1>0, <2>1, ObjNotify
  <2> QED
    BY <1>1, <2>2 DEF Pthreads!Signal
<1>2. CASE cwaiters[c] # {}
  <2>1. PICK w \in cwaiters[c] : ReleaseCondWaiters(t, c, {w})
    BY <1>2 DEF CondSignal
  <2>2. Pthreads!Notify(t, c, {w})
    BY <1>0, <2>1, ObjNotify
  <2> QED
    BY <2>2 DEF Pthreads!Signal
<1> QED
  BY <1>1, <1>2

\* pthread_cond_broadcast releases all of them.
LEMMA ObjBroadcast ==
  ASSUME TypeOK, TypeOK', ControlInv, NEW t \in Threads, NEW c \in Conds, CondBroadcast(t, c)
  PROVE  Pthreads!Broadcast(t, c)
<1>1. UserCall(t)
  BY DEF UserCall
<1>2. PICK W : W = cwaiters[c]
  OBVIOUS
<1>3. ReleaseCondWaiters(t, c, W)
  BY <1>2 DEF CondBroadcast
<1>4. Pthreads!Notify(t, c, W)
  BY <1>1, <1>3, ObjNotify
<1> QED
  BY <1>2, <1>4 DEF Pthreads!Broadcast, Pthreads!Notify

\* pthread_barrier_init sets the count of a barrier that has none.
LEMMA ObjBarrierInit ==
  ASSUME TypeOK, TypeOK', ControlInv, BarrierInv, NEW t \in Threads,
         Internal(t) \/ UserCall(t), BlockedOK(t), BarrierInit(t)
  PROVE  \E b \in Barriers : Pthreads!BarrierInit(t, b)
<1>0. PICK b \in Barriers : b = obj[t]
  BY DEF BarrierInit, ControlInv, ControlOK, At
<1>1. /\ pc[t] = "binit" /\ ret[t] = "none" /\ ret' = ret /\ pc'[t] = "gunlock" /\ mtx' = mtx
      /\ UNCHANGED <<owner, count, cwaiters, bwaiters>>
      /\ \E n \in BarrierCounts : bcount' = [bcount EXCEPT ![b] = n]
  BY <1>0 DEF BarrierInit, Goto, TypeOK, ControlInv, ControlOK, AwayPcs, At
<1>2. bcount[b] = 0
  BY <1>0, <1>1 DEF BarrierInv, At
<1>3. bcount'[b] \in Nat /\ bcount' = [bcount EXCEPT ![b] = bcount'[b]]
  BY <1>1 DEF TypeOK
<1>4. Owes(t)' = Owes(t)
  BY <1>1 DEF Owes, At
<1>5. Out' = Out /\ OwesAll' = OwesAll
  BY <1>1, <1>4, ViewSame
<1>6. HolderAll' = HolderAll
  BY <1>1 DEF HolderAll, Holder
<1>7. Pthreads!Inside(t)
  BY <1>1, IsInside, Unlisted DEF BlockedPcs
<1>8. Pthreads!BarrierInit(t, b)
  BY <1>1, <1>2, <1>3, <1>5, <1>6, <1>7
     DEF Pthreads!BarrierInit, Pthreads!mutexes, Out, OwesAll, HolderAll
<1> QED
  BY <1>8

\* Cardinality means the same in the abstract specification.
LEMMA SameCardinality ==
  ASSUME NEW S
  PROVE  Pthreads!Cardinality(S) = Cardinality(S)
BY Zenon DEF Cardinality, Pthreads!Cardinality

\* pthread_barrier_wait adds its caller to the round, or ends the round.
LEMMA ObjArrive ==
  ASSUME TypeOK, TypeOK', ControlInv, BlockInv, BarrierInv, NEW t \in Threads,
         Internal(t) \/ UserCall(t), BarrierWait(t)
  PROVE  UNCHANGED objView \/ \E b \in Barriers : Pthreads!Arrive(t, b)
<1>0. PICK b \in Barriers : b = obj[t]
  BY DEF BarrierWait, ControlInv, ControlOK, At
<1>1. /\ pc[t] = "bwait" /\ ret[t] = "none" /\ mtx' = mtx
      /\ pc'[t] \in {"gunlock", "drain"} /\ ret'[t] \in {"none", "barwait"}
      /\ UNCHANGED <<owner, count, cwaiters, bcount>>
  BY <1>0, SMTT(30) DEF BarrierWait, Goto, CallContextSwitch, CallDrain, TypeOK, ControlInv,
     ControlOK, AwayPcs, At
<1>2. Owes(t) = None /\ Owes(t)' = None
  BY <1>1 DEF Owes, At
<1>3. Out' = Out /\ OwesAll' = OwesAll /\ OwesAll[t] = None
  BY <1>1, <1>2, ViewSame DEF OwesAll
<1>4. HolderAll' = HolderAll
  BY <1>1 DEF HolderAll, Holder
<1>5. CASE bcount[b] = 0
  <2>1. bwaiters' = bwaiters
    BY <1>0, <1>5 DEF BarrierWait
  <2> QED
    BY <1>1, <1>3, <1>4, <2>1 DEF objView
<1>6. CASE bcount[b] # 0
  <2> DEFINE n == Cardinality(bwaiters[b])
  <2>1. /\ n \in Nat /\ Cardinality(bwaiters[b] \cup {t}) = n + 1
        /\ n < bcount[b] /\ bcount[b] \in Nat
    BY <1>0, <1>1, <1>6, ArrivalCounts DEF TypeOK
  <2>2. \/ ~Full(b, bwaiters[b] \cup {t}) /\ bwaiters' = [bwaiters EXCEPT ![b] = bwaiters[b] \cup {t}]
        \/ Full(b, bwaiters[b] \cup {t}) /\ bwaiters' = [bwaiters EXCEPT ![b] = {}]
    BY <1>0, <1>6 DEF BarrierWait
  <2> HIDE DEF n
  <2>3. Full(b, bwaiters[b] \cup {t}) <=> n + 1 = bcount[b]
    BY <2>1 DEF Full
  <2>4. bwaiters' = [bwaiters EXCEPT ![b] = IF n + 1 = bcount[b] THEN {} ELSE bwaiters[b] \cup {t}]
    BY <2>2, <2>3
  <2>5. Pthreads!Inside(t)
    BY <1>1, IsInside, Unlisted DEF BlockInv, BlockedPcs
  <2>6. Pthreads!Arrive(t, b)
    BY <1>1, <1>3, <1>4, <2>4, <2>5, SameCardinality
       DEF n, Pthreads!Arrive, Pthreads!mutexes, Out, OwesAll, HolderAll
  <2> QED
    BY <2>6
<1> QED
  BY <1>5, <1>6

\* rsched_reinit finds Main in user code and nobody else, and drops every object.
LEMMA ObjReinit ==
  ASSUME TypeOK, LiveInv, Reinit
  PROVE  Pthreads!Reset
<1>1. Main \in Threads /\ threads \subseteq Threads
  BY ThreadsAssumption DEF TypeOK
<1>2. /\ pc = InitialPc /\ pc' = pc /\ threads' = {Main} /\ pc[Main] = "user"
      /\ ret' = ret /\ mtx' = mtx
      /\ count' = [m \in Mutexes |-> 0]
  BY <1>1 DEF Reinit, FreshState, InitialPc
<1>3. threads = {Main}
  BY <1>1, <1>2 DEF LiveInv, InitialPc
<1>4. Out = {Main} /\ Out' = {Main}
  BY <1>2, <1>3 DEF Out
<1>5. \A t \in Threads : Owes(t)' = Owes(t)
  BY <1>2 DEF Owes, At
<1>6. OwesAll' = OwesAll
  BY <1>5 DEF OwesAll
<1>7. \A m \in Mutexes : Holder(m)' = None
  BY <1>2 DEF Holder
<1>8. HolderAll' = [m \in Mutexes |-> None]
  BY <1>7 DEF HolderAll
<1> QED
  BY <1>4, <1>6, <1>8 DEF Reinit, FreshState, Pthreads!Reset, Out, OwesAll, HolderAll

\* Every step of the scheduler is a step of the pthread objects or invisible.
LEMMA ObjStep ==
  TeardownCalls = FALSE /\ IndInv /\ ObjInv /\ [Next]_vars => Pthreads!Next \/ UNCHANGED objView
<1> SUFFICES ASSUME TeardownCalls = FALSE, IndInv, ObjInv, [Next]_vars
             PROVE  Pthreads!Next \/ UNCHANGED objView
  OBVIOUS
<1>1. /\ TypeOK /\ ControlInv /\ VirtualInv /\ LiveInv /\ BlockInv /\ BarrierInv
      /\ TypeOK' /\ ControlInv'
  BY TypeStep, ControlStep DEF IndInv, ObjInv, BlockingInv
<1>2. CASE UNCHANGED vars
  BY <1>2 DEF objView, Out, OwesAll, HolderAll, Owes, Holder, At
<1>3. CASE Reinit
  BY <1>1, <1>3, ObjReinit DEF Pthreads!Next
<1>4. ASSUME NEW t \in Threads, Internal(t) \/ UserCall(t)
      PROVE  Pthreads!Next \/ UNCHANGED objView
  <2>0. BlockedOK(t)
    BY <1>1 DEF BlockInv
  <2>1. CASE UserCall(t) /\ \A c \in Conds : ~CondSignal(t, c) /\ ~CondBroadcast(t, c)
    BY <1>1, <2>1, ObjCalls DEF Pthreads!Next
  <2>2. ASSUME UserCall(t), NEW c \in Conds, CondSignal(t, c) \/ CondBroadcast(t, c)
        PROVE  Pthreads!Next
    BY <1>1, <2>2, ObjSignal, ObjBroadcast DEF Pthreads!Next
  <2>3. CASE /\ Return(t) \/ CreateFails(t) \/ RealJoin(t) \/ \E c \in Threads : Create(t, c)
             /\ UNCHANGED syncVars
    BY <1>1, <1>4, <2>0, <2>3, ObjReturns DEF Pthreads!Next
  <2>4. CASE /\ \/ Resume(t) \/ ContextSwitch(t) \/ DrainPendingChild(t) \/ DrainResume(t)
                \/ Trampoline(t) \/ TsanStartGate(t) \/ Die(t) \/ Join(t) \/ Joined(t)
                \/ BlockUntilReleased(t)
             /\ UNCHANGED syncVars
    BY <1>1, <1>4, <2>4, ObjInvisible
  <2>5. CASE \/ MutexLock(t) /\ WillBlock(t, mtx[t])
             \/ RealLock(t) \/ Trylock(t)
    BY <1>1, <1>4, <2>0, <2>5, ObjMutexQuiet DEF Pthreads!Next
  <2>6. CASE MutexLock(t) /\ ~WillBlock(t, mtx[t])
    BY <1>1, <1>4, <2>0, <2>6, ObjLock DEF Pthreads!Next
  <2>7. CASE \/ Unlock(t)
             \/ CondWait(t) /\ ~(MayUnlock(t, mtx[t]) /\ rowner[mtx[t]] = t)
    BY <1>1, <1>4, <2>0, <2>7, ObjUnlock DEF Pthreads!Next
  <2>8. CASE CondWait(t) /\ MayUnlock(t, mtx[t]) /\ rowner[mtx[t]] = t
    BY <1>1, <1>4, <2>0, <2>8, ObjCondWait DEF Pthreads!Next
  <2>9. CASE BarrierInit(t)
    BY <1>1, <1>4, <2>0, <2>9, ObjBarrierInit DEF Pthreads!Next
  <2>10. CASE BarrierWait(t)
    BY <1>1, <1>4, <2>10, ObjArrive DEF Pthreads!Next
  <2>11. CASE Internal(t)
    <3>1. BlockUntilReleased(t) => UNCHANGED syncVars
      BY DEF BlockUntilReleased
    <3> QED
      BY <2>11, <2>3, <2>4, <2>5, <2>6, <2>7, <2>8, <2>9, <2>10, <3>1 DEF Internal
  <2>12. CASE UserCall(t)
    BY <2>1, <2>2, <2>12
  <2> QED
    BY <1>4, <2>11, <2>12
<1> QED
  BY <1>2, <1>3, <1>4 DEF Next

\* The invariants the refinement rests on.
LEMMA ObjInvariant == TeardownCalls = FALSE => (Spec => []ObjInv)
<1> SUFFICES ASSUME TeardownCalls = FALSE PROVE Spec => []ObjInv
  OBVIOUS
<1>1. Spec => [](StartupInv /\ BlockingInv)
  BY StartupInvariant, BlockingInvariant, PTL
<1>2. IndInv /\ StartupInv /\ BlockingInv /\ BarrierInv /\ [Next]_vars => BarrierInv'
  BY BarrierStep DEF BlockingInv
<1>3. Spec => []BarrierInv
  BY <1>1, <1>2, InitBarrier, IndInvariant, PTL DEF Spec
<1> QED
  BY <1>1, <1>3, PTL DEF ObjInv

\* The virtual mutexes, condition variables and barriers behave as pthread objects:
\* a lock or wait returns with its mutex, cond_wait releases and registers in one
\* step, a signal releases exactly one waiter unless there is none and a broadcast
\* all of them, and a barrier releases a full round at once.
THEOREM PthreadsRefinement == TeardownCalls = FALSE => (Spec => ImplementsPthreads)
<1> SUFFICES ASSUME TeardownCalls = FALSE PROVE Spec => ImplementsPthreads
  OBVIOUS
<1>1. Init => Pthreads!Init
  <2> SUFFICES ASSUME Init PROVE Pthreads!Init
    OBVIOUS
  <2>1. threads = {Main} /\ Main \in Threads /\ pc[Main] = "user"
    BY ThreadsAssumption DEF Init, InitialPc
  <2>2. \A t \in Threads : Owes(t) = None
    BY DEF Init, InitialPc, Owes, At
  <2>3. \A m \in Mutexes : Holder(m) = None
    BY DEF Init, Holder
  <2> QED
    BY <2>1, <2>2, <2>3 DEF Init, Pthreads!Init
<1>2. IndInv /\ ObjInv /\ [Next]_vars => [Pthreads!Next]_(Pthreads!objVars)
  BY ObjStep DEF objView, Pthreads!objVars, Pthreads!mutexes, Pthreads!barriers,
     Out, OwesAll, HolderAll
<1>3. IndInv /\ ObjInv /\ [Next]_vars => [NotifiesAsCalled]_vars
  <2> SUFFICES ASSUME IndInv, [Next]_vars PROVE NotifiesAsCalled
    OBVIOUS
  <2>1. TypeOK /\ ControlInv /\ TypeOK'
    BY TypeStep DEF IndInv
  <2> QED
    BY <2>1, ObjSignal, ObjBroadcast DEF NotifiesAsCalled
<1>4. Spec => []ObjInv
  BY ObjInvariant
<1> QED
  BY <1>1, <1>2, <1>3, <1>4, IndInvariant, PTL
     DEF Spec, ImplementsPthreads, Pthreads!Spec

=============================================================================
