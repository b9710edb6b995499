---------------------------- MODULE RschedProofs ----------------------------
(***************************************************************************)
(* Proofs about Rsched, for every set of threads, mutexes, condition       *)
(* variables and barriers, every mutex type and every build option.        *)
(*                                                                         *)
(* IndInv is inductive: there is one lemma per conjunct, each with one     *)
(* step per action that can disturb it.  TypeOK, OneRunner, NoLostWakeup,  *)
(* RealImpliesVirtual and GmtxNeverStuck follow.                           *)
(***************************************************************************)
EXTENDS Rsched, TLAPS

USE DEF vars, threadVars, flags, args, child, lifeVars,
        syncVars, mutexVars, virtual, real, barrierVars

PcType == [Threads -> RunPcs \cup IdlePcs]
RetType == [Threads -> RetLabels]

\* The initial state (rsched_init) satisfies the inductive invariant.
LEMMA InitInd == Init => IndInv
<1> SUFFICES ASSUME Init PROVE IndInv
  OBVIOUS
<1> USE ThreadsAssumption, SyncAssumption
<1>1. TypeOK
  BY DEF Init, TypeOK, InitialPc, RunPcs, IdlePcs, RetLabels, Events
<1>2. ControlInv
  BY DEF Init, ControlInv, ControlOK, InitialPc, At, AwayPcs
<1>3. OneRunner /\ WaitFlagInv
  BY DEF Init, OneRunner, WaitFlagInv
<1>4. VirtualInv /\ RealInv /\ NormalInv
  BY DEF Init, VirtualInv, RealInv, NormalInv, InitialPc
<1> QED
  BY <1>1, <1>2, <1>3, <1>4 DEF IndInv

(***************************************************************************)
(* TypeOK.                                                                 *)
(***************************************************************************)
\* A signal leaves every thread at a label (pthread_cond_signal in wake).
LEMMA SignalType ==
  ASSUME TypeOK, NEW n PROVE Signal(n) \in PcType
BY DEF TypeOK, Signal, PcType, RunPcs, IdlePcs

\* What a wait on suspend_cond (rsched_cond_wait) writes.
LEMMA SuspendType ==
  ASSUME TypeOK, NEW t \in Threads, NEW p \in PcType, Suspend(t, p)
  PROVE  /\ pc' \in PcType
         /\ gmtx' \in Threads \cup {None}
         /\ is_in_rsched_wait' \in [Threads -> BOOLEAN]
BY DEF TypeOK, Suspend, PcType, RunPcs, IdlePcs

\* Returning from context_switch or a wait: there is a label to return to.
LEMMA ReturnToType ==
  ASSUME TypeOK, ControlInv, NEW t \in Threads, pc[t] \in AwayPcs, ReturnTo(t, pc)
  PROVE  pc' \in PcType /\ ret' \in RetType
BY DEF TypeOK, ControlInv, ControlOK, ReturnTo, PcType, RetType, RunPcs, IdlePcs, RetLabels

\* Leaving drain_pending_child.
LEMMA AfterDrainType ==
  ASSUME TypeOK, ControlInv, NEW t \in Threads, pc[t] \in AwayPcs, AfterDrain(t)
  PROVE  pc' \in PcType /\ ret' \in RetType
<1>1. CASE ReturnTo(t, pc)
  BY <1>1, ReturnToType
<1>2. CASE Goto(t, "switch") /\ UNCHANGED ret
  BY <1>2 DEF TypeOK, Goto, PcType, RetType, RunPcs, IdlePcs
<1> QED
  BY <1>1, <1>2 DEF AfterDrain

\* Control and GMTX stay typed across a scheduling decision (context_switch).
LEMMA ContextSwitchType ==
  ASSUME IndInv, NEW t \in Threads, UNCHANGED syncVars, ContextSwitch(t)
  PROVE  TypeOK'
<1> DEFINE Types == /\ pc' \in PcType
                    /\ ret' \in RetType
                    /\ gmtx' \in Threads \cup {None}
                    /\ is_in_rsched_wait' \in [Threads -> BOOLEAN]
<1>1. TypeOK /\ ControlInv /\ pc \in PcType /\ pc[t] \in AwayPcs
  BY DEF IndInv, TypeOK, PcType, ContextSwitch, AwayPcs
<1>2. CASE ReturnTo(t, pc) /\ UNCHANGED <<gmtx, is_in_rsched_wait>>
  <2> Types
    BY <1>1, <1>2, ReturnToType DEF TypeOK
  <2>1. startup_done' \in [Threads -> BOOLEAN]
    BY DEF IndInv, TypeOK, ContextSwitch
  <2> QED
    BY <1>1, <2>1 DEF ContextSwitch, TypeOK, PcType, RetType
<1>3. ASSUME NEW n, Suspend(t, Signal(n)), UNCHANGED ret
      PROVE  TypeOK'
  <2> Types
    BY <1>1, <1>3, SignalType, SuspendType DEF TypeOK, RetType
  <2>1. startup_done' \in [Threads -> BOOLEAN]
    BY DEF IndInv, TypeOK, ContextSwitch
  <2> QED
    BY <1>1, <2>1 DEF ContextSwitch, TypeOK, PcType, RetType
<1> QED
  BY <1>2, <1>3 DEF ContextSwitch, Wake

\* drain_pending_child, before and after its wait on ready_cond.
LEMMA DrainType ==
  ASSUME IndInv, NEW t \in Threads, UNCHANGED syncVars,
         DrainPendingChild(t) \/ DrainResume(t)
  PROVE  TypeOK'
<1>1. TypeOK /\ ControlInv
  BY DEF IndInv
<1>2. pc[t] \in AwayPcs
  BY DEF DrainPendingChild, DrainResume, AwayPcs
<1>3. pc' \in PcType /\ ret' \in RetType
  <2>1. CASE AfterDrain(t)
    BY <1>1, <1>2, <2>1, AfterDrainType
  <2>2. CASE Goto(t, "drainwait") /\ UNCHANGED ret
    BY <1>1, <2>2 DEF TypeOK, Goto, PcType, RetType, RunPcs, IdlePcs
  <2> QED
    BY <2>1, <2>2 DEF DrainPendingChild, DrainResume
<1>4. ASSUME NEW c \in Threads, FreeStartArg(c)
      PROVE  /\ start_arg' \in [Threads -> {"free", "alloc", "ready"}]
             /\ startup_done' \in [Threads -> BOOLEAN]
  BY <1>1, <1>4 DEF TypeOK, FreeStartArg
<1>5. CASE DrainPendingChild(t)
  <2>1. pending_child # None => pending_child \in Threads
    BY <1>1 DEF TypeOK
  <2>2. /\ start_arg' \in [Threads -> {"free", "alloc", "ready"}]
        /\ startup_done' \in [Threads -> BOOLEAN]
    BY <1>1, <1>4, <1>5, <2>1 DEF DrainPendingChild, TypeOK
  <2>3. /\ draining' \in [Threads -> Threads \cup {None}]
        /\ pending_child' \in Threads \cup {None}
        /\ gmtx' \in Threads \cup {None}
    BY <1>1, <1>5, <2>1 DEF DrainPendingChild, TypeOK
  <2> QED
    BY <1>1, <1>3, <1>5, <2>2, <2>3 DEF DrainPendingChild, TypeOK, PcType, RetType
<1>6. CASE DrainResume(t)
  <2>1. draining[t] \in Threads
    BY <1>1, <1>6 DEF ControlInv, ControlOK, DrainResume
  <2>2. draining' \in [Threads -> Threads \cup {None}] /\ gmtx' \in Threads \cup {None}
    BY <1>1, <1>6 DEF DrainResume, TypeOK, Glock
  <2> QED
    BY <1>1, <1>3, <1>4, <1>6, <2>1, <2>2 DEF DrainResume, TypeOK, PcType, RetType
<1> QED
  BY <1>5, <1>6

\* The steps of the thread life cycle and the plain scheduling points.
LEMMA TypeThreadStep ==
  ASSUME IndInv, NEW t \in Threads, UNCHANGED syncVars,
         \/ Return(t) \/ Resume(t) \/ CreateFails(t) \/ Trampoline(t) \/ TsanStartGate(t)
         \/ Die(t) \/ Join(t) \/ Joined(t) \/ RealJoin(t)
         \/ SchedYield(t) \/ ScheduleMemop(t) \/ CallCreate(t) \/ ThreadExit(t)
  PROVE  TypeOK'
<1>1. TypeOK /\ ControlInv /\ pc \in PcType
  BY DEF IndInv, TypeOK, PcType
<1> USE DEF TypeOK
<1>2. CASE Return(t)
  BY <1>1, <1>2 DEF Return, Leave, Goto, RunPcs, IdlePcs, Events
<1>3. CASE Resume(t)
  <2>1. pc' \in PcType /\ ret' \in RetType
    BY <1>1, <1>3, ReturnToType DEF Resume, AwayPcs
  <2>2. gmtx' \in Threads \cup {None} /\ is_in_rsched_wait' \in [Threads -> BOOLEAN]
    BY <1>1, <1>3 DEF Resume, Glock
  <2> QED
    BY <1>1, <1>3, <2>1, <2>2 DEF Resume, PcType, RetType
<1>4. CASE CreateFails(t)
  BY <1>1, <1>4 DEF CreateFails, Goto, RunPcs, IdlePcs
<1>5. CASE Trampoline(t)
  <2>1. start_arg' \in [Threads -> {"free", "alloc", "ready"}]
    BY <1>1, <1>5 DEF Trampoline
  <2>2. CASE TSan
    BY <1>1, <1>5, <2>1, <2>2 DEF Trampoline, Goto, RunPcs, IdlePcs
  <2>3. CASE ~TSan
    <3>1. ret' \in RetType
      BY <1>1, <1>5, <2>3 DEF Trampoline, RetType, RetLabels
    <3> QED
      BY <1>1, <1>5, <2>1, <2>3, <3>1, SuspendType DEF Trampoline, PcType, RetType
  <2> QED
    BY <2>2, <2>3
<1>6. CASE TsanStartGate(t)
  <2>1. ret' \in RetType
    BY <1>1, <1>6 DEF TsanStartGate, RetType, RetLabels
  <2> QED
    BY <1>1, <1>6, <2>1, SuspendType DEF TsanStartGate, PcType, RetType
<1>7. CASE Die(t)
  BY <1>1, <1>7 DEF Die, Goto, RunPcs, IdlePcs
<1>8. CASE Join(t)
  <2>1. CASE /\ joiner' = [joiner EXCEPT ![obj[t]] = t]
             /\ is_blocking' = [is_blocking EXCEPT ![t] = TRUE]
             /\ CallContextSwitch(t, "joined")
    BY <1>1, <1>8, <2>1 DEF Join, CallContextSwitch, CallDrain, Goto, RunPcs, IdlePcs, RetLabels
  <2>2. CASE Goto(t, "joined") /\ UNCHANGED <<ret, joiner, is_blocking>>
    BY <1>1, <1>8, <2>2 DEF Join, Goto, RunPcs, IdlePcs
  <2> QED
    BY <1>8, <2>1, <2>2 DEF Join
<1>9. CASE Joined(t)
  BY <1>1, <1>9 DEF Joined, Goto, RunPcs, IdlePcs
<1>10. CASE RealJoin(t)
  BY <1>1, <1>10 DEF RealJoin, RunPcs, IdlePcs
<1>11. CASE SchedYield(t) \/ ScheduleMemop(t)
  BY <1>1, <1>11, SMTT(30) DEF SchedYield, ScheduleMemop, SchedulingPoint, Glock, CallContextSwitch,
                     CallDrain, Goto, RunPcs, IdlePcs, RetLabels, Events
<1>12. CASE CallCreate(t)
  BY <1>1, <1>12 DEF CallCreate, Glock, CallDrain, Goto, RunPcs, IdlePcs, RetLabels
<1>13. CASE ThreadExit(t)
  <2>1. pc' \in PcType
    <3>1. ASSUME NEW p \in PcType, pc' = [p EXCEPT ![t] = "teardown"]
          PROVE  pc' \in PcType
      BY <3>1 DEF PcType, IdlePcs
    <3> QED
      BY <1>1, <1>13, <3>1, SignalType DEF ThreadExit, Goto
  <2>2. is_blocking' \in [Threads -> BOOLEAN]
    BY <1>1, <1>13 DEF ThreadExit, ExitFlags
  <2> QED
    BY <1>1, <1>13, <2>1, <2>2 DEF ThreadExit, PcType
<1> QED
  BY <1>2, <1>3, <1>4, <1>5, <1>6, <1>7, <1>8, <1>9, <1>10, <1>11, <1>12, <1>13

\* pthread_create, pthread_join and rsched_reinit.
LEMMA TypeCreateJoinReinit ==
  ASSUME IndInv
  PROVE  /\ \A t, c \in Threads : Create(t, c) /\ UNCHANGED syncVars => TypeOK'
         /\ \A t, x \in Threads : CallJoin(t, x) /\ UNCHANGED syncVars => TypeOK'
         /\ Reinit => TypeOK'
<1>1. TypeOK
  BY DEF IndInv
<1> USE <1>1 DEF TypeOK
<1>2. ASSUME NEW t \in Threads, NEW c \in Threads, Create(t, c), UNCHANGED syncVars
      PROVE  TypeOK'
  <2>1. pc' \in PcType /\ next_event' \in [Threads -> Events]
    BY <1>2 DEF Create, PcType, RunPcs, IdlePcs, Events
  <2>2. /\ threads' \subseteq Threads
        /\ is_blocking' \in [Threads -> BOOLEAN]
        /\ startup_done' \in [Threads -> BOOLEAN]
        /\ is_in_rsched_wait' \in [Threads -> BOOLEAN]
        /\ joiner' \in [Threads -> Threads \cup {None}]
        /\ start_arg' \in [Threads -> {"free", "alloc", "ready"}]
        /\ pending_child' \in Threads \cup {None}
    BY <1>2 DEF Create, AddChild
  <2> QED
    BY <1>2, <2>1, <2>2 DEF Create, PcType
<1>3. ASSUME NEW t \in Threads, NEW x \in Threads, CallJoin(t, x), UNCHANGED syncVars
      PROVE  TypeOK'
  BY <1>3 DEF CallJoin, Glock, CallContextSwitch, CallDrain, Goto, RunPcs, IdlePcs, RetLabels
<1>4. CASE Reinit
  BY <1>4, ThreadsAssumption DEF Reinit, FreshState, Events
<1> QED
  BY <1>2, <1>3, <1>4

\* State::mutex_unlock by the owner, together with the real unlock or without it.
LEMMA MutexUnlockType ==
  ASSUME TypeOK, NEW m \in Mutexes, count[m] # 0,
         NEW B \in [Threads -> BOOLEAN], MutexUnlock(m, B)
  PROVE  /\ owner' \in [Mutexes -> Threads \cup {None}]
         /\ count' \in [Mutexes -> Nat]
         /\ mwaiters' \in [Mutexes -> SUBSET Threads]
         /\ is_blocking' \in [Threads -> BOOLEAN]
<1>1. CASE ~LastRelease(m)
  <2>1. count[m] - 1 \in Nat
    BY DEF TypeOK
  <2>2. count' = [count EXCEPT ![m] = count[m] - 1] /\ is_blocking' = B
    BY <1>1 DEF MutexUnlock
  <2>3. UNCHANGED <<owner, mwaiters>>
    BY <1>1 DEF MutexUnlock
  <2> QED
    BY <2>1, <2>2, <2>3 DEF TypeOK
<1>2. CASE LastRelease(m)
  <2>1. PICK w \in Heirs(m) :
          /\ owner' = [owner EXCEPT ![m] = w]
          /\ mwaiters' = [mwaiters EXCEPT ![m] = @ \ {w}]
          /\ is_blocking' = Released(B, {w})
    BY <1>2 DEF MutexUnlock
  <2>2. w \in Threads \cup {None}
    BY <2>1 DEF TypeOK, Heirs
  <2> QED
    BY <1>2, <2>1, <2>2 DEF TypeOK, MutexUnlock, Released
<1> QED
  BY <1>1, <1>2

\* An owner that unlocks has really acquired the mutex: counts do not wrap.
LEMMA UnlockCounts ==
  ASSUME IndInv, NEW t \in Threads, NEW m \in Mutexes, owner[m] = t,
         pc[t] \in {"unlock", "cwait"}
  PROVE  count[m] # 0 /\ (rowner[m] = t => rcount[m] # 0)
<1>1. ret[t] = "none"
  BY DEF IndInv, ControlInv, ControlOK, AwayPcs
<1>2. ~Locking(t, m)
  BY <1>1 DEF Locking, At
<1>3. t # None
  BY ThreadsAssumption
<1> QED
  BY <1>2, <1>3 DEF IndInv, VirtualInv, RealInv

\* The real pthread_mutex_unlock of a mutex that is held.
LEMMA RealUnlockType ==
  ASSUME TypeOK, NEW m \in Mutexes, rcount[m] # 0, RealUnlock(m)
  PROVE  rowner' \in [Mutexes -> Threads \cup {None}] /\ rcount' \in [Mutexes -> Nat]
<1>1. rcount[m] - 1 \in Nat
  BY DEF TypeOK
<1>2. rcount' = [rcount EXCEPT ![m] = rcount[m] - 1]
  BY DEF RealUnlock
<1>3. rowner' \in [Mutexes -> Threads \cup {None}]
  BY DEF TypeOK, RealUnlock
<1> QED
  BY <1>1, <1>2, <1>3 DEF TypeOK

\* The mutex functions.
LEMMA TypeMutexStep ==
  ASSUME IndInv, NEW t \in Threads
  PROVE  /\ \A m \in Mutexes : CallLock(t, m) \/ CallTrylock(t, m) \/ CallUnlock(t, m) => TypeOK'
         /\ MutexLock(t) \/ BlockUntilReleased(t) \/ RealLock(t) \/ Trylock(t) => TypeOK'
         /\ Unlock(t) => TypeOK'
<1>1. TypeOK /\ ControlInv /\ pc \in PcType
  BY DEF IndInv, TypeOK, PcType
<1> USE <1>1 DEF TypeOK
<1>2. ASSUME NEW m \in Mutexes, CallLock(t, m) \/ CallTrylock(t, m) \/ CallUnlock(t, m)
      PROVE  TypeOK'
  <2>1. pc' \in PcType /\ ret' \in RetType
    <3>1. ASSUME NEW l \in {"lock", "try"}, CallContextSwitch(t, l)
          PROVE  pc' \in PcType /\ ret' \in RetType
      BY <3>1 DEF CallContextSwitch, CallDrain, Goto, PcType, RetType, RunPcs, RetLabels
    <3>2. ASSUME NEW l \in {"lock", "unlock"}, Goto(t, l), UNCHANGED ret
          PROVE  pc' \in PcType /\ ret' \in RetType
      BY <3>2 DEF Goto, PcType, RetType, RunPcs
    <3> QED
      BY <1>2, <3>1, <3>2 DEF CallLock, CallTrylock, CallUnlock
  <2>2. PICK ev \in Events : EnterMutexOp(t, m, ev)
    BY <1>2 DEF CallLock, CallTrylock, CallUnlock, Events
  <2> QED
    BY <2>1, <2>2 DEF EnterMutexOp, Glock, PcType, RetType
<1>3. CASE MutexLock(t)
  <2>1. mtx[t] \in Mutexes
    BY <1>3 DEF MutexLock, ControlInv, ControlOK, At
  <2>2. CASE ~WillBlock(t, mtx[t])
    <3>1. /\ owner' = [owner EXCEPT ![mtx[t]] = t]
          /\ count' = [count EXCEPT ![mtx[t]] = count[mtx[t]] + 1]
          /\ Goto(t, "reallock")
          /\ UNCHANGED <<ret, is_blocking, mwaiters>>
      BY <1>3, <2>2 DEF MutexLock
    <3>2. count[mtx[t]] + 1 \in Nat
      BY <2>1
    <3>3. owner' \in [Mutexes -> Threads \cup {None}] /\ count' \in [Mutexes -> Nat]
      BY <3>1, <3>2
    <3> QED
      BY <1>3, <3>1, <3>3 DEF MutexLock, Goto, RunPcs, IdlePcs
  <2>3. CASE WillBlock(t, mtx[t])
    <3>1. /\ mwaiters' = [mwaiters EXCEPT ![mtx[t]] = mwaiters[mtx[t]] \cup {t}]
          /\ is_blocking' = [is_blocking EXCEPT ![t] = TRUE]
          /\ CallContextSwitch(t, "relock")
          /\ UNCHANGED <<owner, count>>
      BY <1>3, <2>3 DEF MutexLock
    <3>2. mwaiters' \in [Mutexes -> SUBSET Threads]
      BY <2>1, <3>1
    <3> QED
      BY <1>3, <3>1, <3>2 DEF MutexLock, CallContextSwitch, CallDrain, Goto, RunPcs, IdlePcs,
                              RetLabels
  <2> QED
    BY <2>2, <2>3
<1>4. CASE BlockUntilReleased(t)
  <2>1. AfterBlocking(pc[t]) \in RetLabels \cap RunPcs
    BY DEF AfterBlocking, RetLabels, RunPcs
  <2>2. CASE ret' = [ret EXCEPT ![t] = AfterBlocking(pc[t])] /\ Suspend(t, pc)
    BY <1>4, <2>1, <2>2, SuspendType DEF BlockUntilReleased, PcType
  <2>3. CASE Goto(t, AfterBlocking(pc[t])) /\ UNCHANGED <<ret, gmtx, is_in_rsched_wait>>
    BY <1>4, <2>1, <2>3 DEF BlockUntilReleased, Goto
  <2> QED
    BY <1>4, <2>2, <2>3 DEF BlockUntilReleased
<1>5. CASE RealLock(t)
  <2>1. mtx[t] \in Mutexes
    BY <1>5 DEF RealLock, ControlInv, ControlOK, At
  <2>2. rcount[mtx[t]] + 1 \in Nat
    BY <2>1
  <2>3. rowner' \in [Mutexes -> Threads \cup {None}] /\ rcount' \in [Mutexes -> Nat]
    BY <1>5, <2>1, <2>2, SMTT(30) DEF RealLock
  <2>4. pc' \in PcType
    BY <1>5 DEF RealLock, Goto, PcType, RunPcs
  <2> QED
    BY <1>5, <2>3, <2>4 DEF RealLock, PcType
<1>6. CASE Trylock(t)
  BY <1>6 DEF Trylock, Goto, RunPcs, IdlePcs
<1>7. CASE Unlock(t)
  <2>1. mtx[t] \in Mutexes /\ pc[t] = "unlock"
    BY <1>7 DEF Unlock, ControlInv, ControlOK, At
  <2>2. pc' \in PcType /\ ret' \in RetType
    BY <1>7, SMTT(30) DEF Unlock, Goto, CallContextSwitch, CallDrain, PcType, RetType, RunPcs, RetLabels
  <2>3. CASE ~MayUnlock(t, mtx[t])
    BY <1>7, <2>2, <2>3 DEF Unlock, PcType, RetType
  <2>4. CASE MayUnlock(t, mtx[t])
    <3>1. count[mtx[t]] # 0 /\ (rowner[mtx[t]] = t => rcount[mtx[t]] # 0)
      BY <2>1, <2>4, UnlockCounts DEF MayUnlock
    <3>2. MutexUnlock(mtx[t], is_blocking)
      BY <1>7, <2>4 DEF Unlock
    <3>3. rowner' \in [Mutexes -> Threads \cup {None}] /\ rcount' \in [Mutexes -> Nat]
      BY <1>7, <2>1, <2>4, <3>1, RealUnlockType DEF Unlock
    <3> QED
      BY <1>7, <2>1, <2>2, <3>1, <3>2, <3>3, MutexUnlockType DEF Unlock, PcType, RetType
  <2> QED
    BY <2>3, <2>4
<1> QED
  BY <1>2, <1>3, <1>4, <1>5, <1>6, <1>7

\* The condition-variable functions.
LEMMA TypeCondStep ==
  ASSUME IndInv, NEW t \in Threads
  PROVE  /\ \A c \in Conds : CondSignal(t, c) \/ CondBroadcast(t, c) => TypeOK'
         /\ \A c \in Conds, m \in Mutexes : CallCondWait(t, c, m) => TypeOK'
         /\ CondWait(t) => TypeOK'
<1>1. TypeOK /\ ControlInv
  BY DEF IndInv
<1> USE <1>1 DEF TypeOK
<1>2. ASSUME NEW c \in Conds, NEW W, ReleaseCondWaiters(t, c, W)
      PROVE  TypeOK'
  BY <1>2 DEF ReleaseCondWaiters, Released, Glock, CallContextSwitch, CallDrain, Goto,
              RunPcs, IdlePcs, RetLabels
<1>3. ASSUME NEW c \in Conds, NEW m \in Mutexes, CallCondWait(t, c, m)
      PROVE  TypeOK'
  <2>1. pc' \in PcType /\ ret' \in RetType
    BY <1>3, ZenonT(30) DEF CallCondWait, CallContextSwitch, CallDrain, Goto, PcType, RetType,
                RunPcs, RetLabels
  <2> QED
    BY <1>3, <2>1 DEF CallCondWait, Glock, PcType, RetType
<1>4. CASE CondWait(t)
  <2>1. mtx[t] \in Mutexes /\ pc[t] = "cwait" /\ obj[t] \in Conds
    BY <1>4 DEF CondWait, ControlInv, ControlOK, At
  <2>2. pc' \in PcType /\ ret' \in RetType
    BY <1>4, SMTT(30) DEF CondWait, Goto, CallContextSwitch, CallDrain, PcType, RetType, RunPcs, RetLabels
  <2>3. CASE ~MayUnlock(t, mtx[t])
    BY <1>4, <2>2, <2>3 DEF CondWait, PcType, RetType
  <2>4. CASE MayUnlock(t, mtx[t])
    <3>1. count[mtx[t]] # 0 /\ (rowner[mtx[t]] = t => rcount[mtx[t]] # 0)
      BY <2>1, <2>4, UnlockCounts DEF MayUnlock
    <3>2. PICK B \in [Threads -> BOOLEAN] : MutexUnlock(mtx[t], B)
      BY <1>4, <2>4 DEF CondWait
    <3>3. rowner' \in [Mutexes -> Threads \cup {None}] /\ rcount' \in [Mutexes -> Nat]
      BY <1>4, <2>1, <2>4, <3>1, RealUnlockType DEF CondWait
    <3>4. cwaiters' \in [Conds -> SUBSET Threads]
      BY <1>4, <2>1, <2>4 DEF CondWait
    <3> QED
      BY <1>4, <2>1, <2>2, <3>1, <3>2, <3>3, <3>4, MutexUnlockType DEF CondWait, PcType, RetType
  <2> QED
    BY <2>3, <2>4
<1> QED
  BY <1>2, <1>3, <1>4 DEF CondSignal, CondBroadcast

\* The barrier functions.
LEMMA TypeBarrierStep ==
  ASSUME IndInv, NEW t \in Threads
  PROVE  /\ \A b \in Barriers : CallBarrierInit(t, b) \/ CallBarrierWait(t, b) => TypeOK'
         /\ BarrierInit(t) \/ BarrierWait(t) => TypeOK'
<1>1. TypeOK /\ ControlInv
  BY DEF IndInv
<1> USE <1>1 DEF TypeOK
<1>2. ASSUME NEW b \in Barriers, CallBarrierInit(t, b) \/ CallBarrierWait(t, b)
      PROVE  TypeOK'
  BY <1>2, SMTT(30) DEF CallBarrierInit, CallBarrierWait, EnterBarrierOp, Glock, CallContextSwitch,
              CallDrain, Goto, RunPcs, IdlePcs, RetLabels
<1>3. CASE BarrierInit(t)
  <2>1. PICK n \in BarrierCounts : bcount' = [bcount EXCEPT ![obj[t]] = n]
    BY <1>3 DEF BarrierInit
  <2>2. n \in Nat
    BY SyncAssumption
  <2>3. bcount' \in [Barriers -> Nat]
    BY <2>1, <2>2
  <2> QED
    BY <1>3, <2>3 DEF BarrierInit, Goto, RunPcs, IdlePcs
<1>4. CASE BarrierWait(t)
  <2>1. obj[t] \in Barriers
    BY <1>4 DEF BarrierWait, ControlInv, ControlOK, At
  <2>2. pc' \in PcType /\ ret' \in RetType
    BY <1>4, SMTT(30) DEF BarrierWait, Goto, CallContextSwitch, CallDrain, PcType, RetType,
                RunPcs, RetLabels
  <2>3. bwaiters' \in [Barriers -> SUBSET Threads]
    BY <1>4, <2>1 DEF BarrierWait
  <2>4. is_blocking' \in [Threads -> BOOLEAN]
    BY <1>4 DEF BarrierWait, Released
  <2> QED
    BY <1>4, <2>2, <2>3, <2>4 DEF BarrierWait, PcType, RetType
<1> QED
  BY <1>2, <1>3, <1>4

\* Every step of the scheduler preserves the types.
LEMMA TypeStep == IndInv /\ [Next]_vars => TypeOK'
<1> SUFFICES ASSUME IndInv, [Next]_vars PROVE TypeOK'
  OBVIOUS
<1>1. CASE UNCHANGED vars
  BY <1>1 DEF IndInv, TypeOK
<1>2. CASE Reinit
  BY <1>2, TypeCreateJoinReinit
<1>3. ASSUME NEW t \in Threads, Internal(t) PROVE TypeOK'
  BY <1>3, ContextSwitchType, DrainType, TypeThreadStep, TypeCreateJoinReinit,
     TypeMutexStep, TypeCondStep, TypeBarrierStep DEF Internal
<1>4. ASSUME NEW t \in Threads, UserCall(t) PROVE TypeOK'
  BY <1>4, TypeThreadStep, TypeCreateJoinReinit, TypeMutexStep, TypeCondStep,
     TypeBarrierStep DEF UserCall
<1> QED
  BY <1>1, <1>2, <1>3, <1>4 DEF Next

(***************************************************************************)
(* What a step of one thread does to the others.                           *)
(***************************************************************************)
\* A thread moved by another one: signalled, created, or reaped by a join.
Moved(u) ==
    \/ pc'[u] = pc[u]
    \/ pc[u] = "wait" /\ pc'[u] = "woken"
    \/ pc[u] = "unborn" /\ pc'[u] = "tramp"
    \/ pc[u] = "dead" /\ pc'[u] = "unborn"

Frame(t) ==
    \A u \in Threads \ {t} :
        /\ Moved(u)
        /\ ret'[u] = ret[u] /\ mtx'[u] = mtx[u] /\ obj'[u] = obj[u]
        /\ draining'[u] = draining[u]
        /\ u \in threads => u \in threads'
        /\ u \in threads' => u \in threads \/ pc'[u] = "tramp"

\* Every function of the scheduler, run by t, leaves the others where they are
\* but for a signal to one of them (wake, do_thread_exit), the start of a new
\* thread and the end of a joined one.
LEMMA FrameStep ==
  ASSUME TypeOK, NEW t \in Threads, Internal(t) \/ UserCall(t)
  PROVE  Frame(t)
<1> USE DEF TypeOK, Frame, Moved, Goto
<1>1. CASE Return(t)
  BY <1>1 DEF Return, Leave
<1>2. CASE Resume(t)
  BY <1>2 DEF Resume, ReturnTo
<1>3. CASE ContextSwitch(t)
  <2>1. CASE ReturnTo(t, pc)
    BY <1>3, <2>1 DEF ContextSwitch, ReturnTo
  <2>2. ASSUME NEW n, Suspend(t, Signal(n)), UNCHANGED ret
        PROVE  Frame(t)
    BY <1>3, <2>2 DEF ContextSwitch, Suspend, Signal
  <2> QED
    BY <1>3, <2>1, <2>2 DEF ContextSwitch, Wake
<1>4. CASE DrainPendingChild(t)
  BY <1>4 DEF DrainPendingChild, AfterDrain, ReturnTo
<1>5. CASE DrainResume(t)
  BY <1>5 DEF DrainResume, AfterDrain, ReturnTo
<1>6. CASE CreateFails(t)
  BY <1>6 DEF CreateFails
<1>7. CASE Trampoline(t) \/ TsanStartGate(t)
  BY <1>7 DEF Trampoline, TsanStartGate, Suspend
<1>8. CASE Die(t)
  BY <1>8 DEF Die
<1>9. CASE Join(t) \/ Joined(t)
  BY <1>9 DEF Join, Joined, CallContextSwitch, CallDrain
<1>10. CASE RealJoin(t)
  BY <1>10 DEF RealJoin
<1>11. ASSUME NEW c \in Threads, Create(t, c) PROVE Frame(t)
  BY <1>11 DEF Create, AddChild
<1>12. CASE SchedYield(t) \/ ScheduleMemop(t)
  BY <1>12 DEF SchedYield, ScheduleMemop, SchedulingPoint, CallContextSwitch, CallDrain
<1>13. CASE CallCreate(t)
  BY <1>13 DEF CallCreate, CallDrain
<1>14. CASE ThreadExit(t)
  BY <1>14 DEF ThreadExit, Signal
<1>15. ASSUME NEW x \in Threads, CallJoin(t, x) PROVE Frame(t)
  BY <1>15 DEF CallJoin, CallContextSwitch, CallDrain
<1>16. CASE MutexLock(t)
  BY <1>16 DEF MutexLock, CallContextSwitch, CallDrain
<1>17. CASE BlockUntilReleased(t)
  BY <1>17 DEF BlockUntilReleased, Suspend
<1>18. CASE RealLock(t) \/ Trylock(t)
  BY <1>18 DEF RealLock, Trylock
<1>19. CASE Unlock(t)
  BY <1>19 DEF Unlock, CallContextSwitch, CallDrain
<1>20. CASE CondWait(t)
  BY <1>20 DEF CondWait, CallContextSwitch, CallDrain
<1>21. CASE BarrierInit(t)
  BY <1>21 DEF BarrierInit
<1>22. CASE BarrierWait(t)
  BY <1>22 DEF BarrierWait, CallContextSwitch, CallDrain
<1>23. ASSUME NEW m \in Mutexes, CallLock(t, m) \/ CallTrylock(t, m) \/ CallUnlock(t, m)
       PROVE  Frame(t)
  BY <1>23 DEF CallLock, CallTrylock, CallUnlock, EnterMutexOp, CallContextSwitch, CallDrain
<1>24. ASSUME NEW c \in Conds, NEW W, ReleaseCondWaiters(t, c, W) PROVE Frame(t)
  BY <1>24 DEF ReleaseCondWaiters, CallContextSwitch, CallDrain
<1>25. ASSUME NEW c \in Conds, NEW m \in Mutexes, CallCondWait(t, c, m) PROVE Frame(t)
  BY <1>25 DEF CallCondWait, CallContextSwitch, CallDrain
<1>26. ASSUME NEW b \in Barriers, CallBarrierInit(t, b) \/ CallBarrierWait(t, b)
       PROVE  Frame(t)
  BY <1>26 DEF CallBarrierInit, CallBarrierWait, EnterBarrierOp, CallContextSwitch, CallDrain
<1>27. CASE Internal(t)
  BY <1>27, <1>1, <1>2, <1>3, <1>4, <1>5, <1>6, <1>7, <1>8, <1>9, <1>10, <1>11, <1>16,
     <1>17, <1>18, <1>19, <1>20, <1>21, <1>22 DEF Internal
<1>28. CASE UserCall(t)
  BY <1>28, <1>12, <1>13, <1>14, <1>15, <1>23, <1>24, <1>25, <1>26
     DEF UserCall, CondSignal, CondBroadcast
<1> QED
  BY <1>27, <1>28

(***************************************************************************)
(* ControlInv.                                                             *)
(***************************************************************************)
\* The other threads keep their return labels and arguments.
LEMMA ControlOthers ==
  ASSUME ControlInv, NEW t \in Threads, Frame(t), NEW u \in Threads \ {t}
  PROVE  ControlOK(u)'
BY DEF ControlInv, ControlOK, Frame, Moved, At, AwayPcs

\* The thread that moves, in the thread life cycle and at scheduling points.
LEMMA ControlThreadStep ==
  ASSUME TypeOK, ControlInv, NEW t \in Threads,
         \/ Return(t) \/ Resume(t) \/ ContextSwitch(t) \/ DrainPendingChild(t)
         \/ DrainResume(t) \/ CreateFails(t) \/ Trampoline(t) \/ TsanStartGate(t)
         \/ Die(t) \/ Join(t) \/ Joined(t) \/ RealJoin(t)
         \/ SchedYield(t) \/ ScheduleMemop(t) \/ CallCreate(t) \/ ThreadExit(t)
         \/ \E c \in Threads : Create(t, c)
         \/ \E x \in Threads : CallJoin(t, x)
  PROVE  ControlOK(t)'
<1> USE DEF TypeOK, ControlInv, ControlOK, At, AwayPcs, Goto
<1> DEFINE Returns == ReturnTo(t, pc) /\ pc[t] \in AwayPcs
                        /\ UNCHANGED <<threads, mtx, obj>>
<1>0. Returns => ControlOK(t)'
  BY DEF ReturnTo, RetLabels
<1>1. CASE Return(t)
  BY <1>1 DEF Return, Leave
<1>2. CASE Resume(t)
  BY <1>2, <1>0 DEF Resume
<1>3. CASE ContextSwitch(t)
  <2>1. ASSUME NEW n, Suspend(t, Signal(n)), UNCHANGED ret
        PROVE  ControlOK(t)'
    BY <1>3, <2>1 DEF ContextSwitch, Suspend, Signal
  <2> QED
    BY <1>3, <1>0, <2>1 DEF ContextSwitch, Wake
<1>4. CASE DrainPendingChild(t)
  <2>1. CASE AfterDrain(t)
    BY <1>4, <1>0, <2>1 DEF DrainPendingChild, AfterDrain
  <2>2. CASE ~AfterDrain(t)
    BY <1>4, <2>2 DEF DrainPendingChild
  <2> QED
    BY <2>1, <2>2
<1>5. CASE DrainResume(t)
  BY <1>5, <1>0 DEF DrainResume, AfterDrain
<1>6. CASE CreateFails(t)
  BY <1>6 DEF CreateFails
<1>7. CASE Trampoline(t) \/ TsanStartGate(t)
  BY <1>7, SMTT(30) DEF Trampoline, TsanStartGate, Suspend
<1>8. CASE Die(t)
  BY <1>8 DEF Die
<1>9. CASE Join(t) \/ Joined(t)
  BY <1>9, SMTT(30) DEF Join, Joined, CallContextSwitch, CallDrain
<1>10. CASE RealJoin(t)
  BY <1>10 DEF RealJoin
<1>11. CASE SchedYield(t) \/ ScheduleMemop(t)
  BY <1>11 DEF SchedYield, ScheduleMemop, SchedulingPoint, CallContextSwitch, CallDrain
<1>12. CASE CallCreate(t)
  BY <1>12 DEF CallCreate, CallDrain
<1>13. CASE ThreadExit(t)
  BY <1>13 DEF ThreadExit, Signal
<1>14. ASSUME NEW c \in Threads, Create(t, c) PROVE ControlOK(t)'
  BY <1>14, SMTT(30) DEF Create, AddChild
<1>15. ASSUME NEW x \in Threads, CallJoin(t, x) PROVE ControlOK(t)'
  BY <1>15 DEF CallJoin, CallContextSwitch, CallDrain
<1> QED
  BY <1>1, <1>2, <1>3, <1>4, <1>5, <1>6, <1>7, <1>8, <1>9, <1>10, <1>11, <1>12, <1>13,
     <1>14, <1>15

\* The thread that moves, in the synchronisation functions.
LEMMA ControlSyncStep ==
  ASSUME TypeOK, ControlInv, NEW t \in Threads,
         \/ MutexLock(t) \/ BlockUntilReleased(t) \/ RealLock(t) \/ Trylock(t)
         \/ Unlock(t) \/ CondWait(t) \/ BarrierInit(t) \/ BarrierWait(t)
         \/ \E m \in Mutexes : CallLock(t, m) \/ CallTrylock(t, m) \/ CallUnlock(t, m)
         \/ \E c \in Conds : CondSignal(t, c) \/ CondBroadcast(t, c)
         \/ \E c \in Conds, m \in Mutexes : CallCondWait(t, c, m)
         \/ \E b \in Barriers : CallBarrierInit(t, b) \/ CallBarrierWait(t, b)
  PROVE  ControlOK(t)'
<1> USE DEF TypeOK, ControlInv, ControlOK, At, AwayPcs, Goto, CallContextSwitch, CallDrain
<1>1. CASE MutexLock(t)
  BY <1>1, SMTT(30) DEF MutexLock
<1>2. CASE BlockUntilReleased(t)
  BY <1>2 DEF BlockUntilReleased, Suspend, AfterBlocking
<1>3. CASE RealLock(t) \/ Trylock(t)
  BY <1>3, SMTT(30) DEF RealLock, Trylock
<1>4. CASE Unlock(t)
  BY <1>4 DEF Unlock
<1>5. CASE CondWait(t)
  BY <1>5 DEF CondWait
<1>6. CASE BarrierInit(t) \/ BarrierWait(t)
  BY <1>6 DEF BarrierInit, BarrierWait
<1>7. ASSUME NEW m \in Mutexes, CallLock(t, m) \/ CallTrylock(t, m) \/ CallUnlock(t, m)
      PROVE  ControlOK(t)'
  <2>1. /\ mtx' = [mtx EXCEPT ![t] = m] /\ pc[t] \in {"user", "teardown"}
        /\ UNCHANGED <<threads, obj, draining>>
    BY <1>7 DEF CallLock, CallTrylock, CallUnlock, EnterMutexOp, MayCall, lifeVars, child
  <2>2. \/ /\ pc' = [pc EXCEPT ![t] = "drain"]
           /\ \E l \in {"lock", "try"} : ret' = [ret EXCEPT ![t] = l]
        \/ /\ \E l \in {"lock", "unlock"} : pc' = [pc EXCEPT ![t] = l]
           /\ ret' = ret
    BY <1>7 DEF CallLock, CallTrylock, CallUnlock
  <2> QED
    BY <2>1, <2>2, SMTT(30)
<1>8. ASSUME NEW c \in Conds, NEW W, ReleaseCondWaiters(t, c, W) PROVE ControlOK(t)'
  BY <1>8 DEF ReleaseCondWaiters
<1>9. ASSUME NEW c \in Conds, NEW m \in Mutexes, CallCondWait(t, c, m) PROVE ControlOK(t)'
  BY <1>9, SMTT(30) DEF CallCondWait
<1>10. ASSUME NEW b \in Barriers, CallBarrierInit(t, b) \/ CallBarrierWait(t, b)
       PROVE  ControlOK(t)'
  BY <1>10 DEF CallBarrierInit, CallBarrierWait, EnterBarrierOp
<1> QED
  BY <1>1, <1>2, <1>3, <1>4, <1>5, <1>6, <1>7, <1>8, <1>9, <1>10
     DEF CondSignal, CondBroadcast

\* Return labels, arguments and liveness of the running code are preserved.
LEMMA ControlStep == IndInv /\ [Next]_vars => ControlInv'
<1> SUFFICES ASSUME IndInv, [Next]_vars PROVE ControlInv'
  OBVIOUS
<1>1. TypeOK /\ ControlInv
  BY DEF IndInv
<1>2. CASE UNCHANGED vars
  BY <1>1, <1>2 DEF ControlInv, ControlOK, At
<1>3. CASE Reinit
  BY <1>1, <1>3 DEF Reinit, FreshState, InitialPc, ControlInv, ControlOK, At, AwayPcs
<1>4. ASSUME NEW t \in Threads, Internal(t) \/ UserCall(t) PROVE ControlInv'
  <2>1. Frame(t)
    BY <1>1, <1>4, FrameStep
  <2>2. ControlOK(t)'
    BY <1>1, <1>4, ControlThreadStep, ControlSyncStep DEF Internal, UserCall
  <2> QED
    BY <1>1, <2>1, <2>2, ControlOthers DEF ControlInv
<1> QED
  BY <1>2, <1>3, <1>4 DEF Next

(***************************************************************************)
(* OneRunner and WaitFlagInv.                                              *)
(***************************************************************************)
\* A step that neither suspends, resumes, wakes, creates nor ends a thread.
Quiet(t) ==
    /\ UNCHANGED <<threads, is_in_rsched_wait>>
    /\ pc[t] \in (RunPcs \cup {"teardown"}) \ {"woken"}
    /\ \A u \in Threads \ {t} : pc'[u] = pc[u]

\* Most functions make no scheduling decision themselves: they only set up the
\* arguments of a context_switch or finish an operation.
LEMMA QuietStep ==
  ASSUME TypeOK, NEW t \in Threads,
         \/ Return(t) \/ DrainPendingChild(t) \/ DrainResume(t) \/ CreateFails(t)
         \/ Join(t) \/ Joined(t)
         \/ SchedYield(t) \/ ScheduleMemop(t) \/ CallCreate(t)
         \/ \E x \in Threads : CallJoin(t, x)
         \/ MutexLock(t) \/ RealLock(t) \/ Trylock(t)
         \/ Unlock(t) \/ CondWait(t) \/ BarrierInit(t) \/ BarrierWait(t)
         \/ \E m \in Mutexes : CallLock(t, m) \/ CallTrylock(t, m) \/ CallUnlock(t, m)
         \/ \E c \in Conds : CondSignal(t, c) \/ CondBroadcast(t, c)
         \/ \E c \in Conds, m \in Mutexes : CallCondWait(t, c, m)
         \/ \E b \in Barriers : CallBarrierInit(t, b) \/ CallBarrierWait(t, b)
  PROVE  Quiet(t)
<1> USE DEF TypeOK, Quiet, RunPcs, Goto, CallContextSwitch, CallDrain
<1>1. CASE Return(t)
  BY <1>1 DEF Return, Leave
<1>2. CASE DrainPendingChild(t) \/ DrainResume(t)
  BY <1>2 DEF DrainPendingChild, DrainResume, AfterDrain, ReturnTo
<1>3. CASE CreateFails(t) \/ Join(t) \/ Joined(t)
  BY <1>3 DEF CreateFails, Join, Joined
<1>4. CASE SchedYield(t) \/ ScheduleMemop(t) \/ CallCreate(t)
  BY <1>4 DEF SchedYield, ScheduleMemop, SchedulingPoint, MayCall, CallCreate
<1>5. ASSUME NEW x \in Threads, CallJoin(t, x) PROVE Quiet(t)
  BY <1>5 DEF CallJoin
<1>6. CASE MutexLock(t) \/ RealLock(t) \/ Trylock(t)
  BY <1>6 DEF MutexLock, RealLock, Trylock
<1>7. CASE Unlock(t) \/ CondWait(t)
  BY <1>7 DEF Unlock, CondWait
<1>8. CASE BarrierInit(t) \/ BarrierWait(t)
  BY <1>8 DEF BarrierInit, BarrierWait
<1>9. ASSUME NEW m \in Mutexes, CallLock(t, m) \/ CallTrylock(t, m) \/ CallUnlock(t, m)
      PROVE  Quiet(t)
  BY <1>9 DEF CallLock, CallTrylock, CallUnlock, EnterMutexOp, MayCall
<1>10. ASSUME NEW c \in Conds, NEW W, ReleaseCondWaiters(t, c, W) PROVE Quiet(t)
  BY <1>10 DEF ReleaseCondWaiters
<1>11. ASSUME NEW c \in Conds, NEW m \in Mutexes, CallCondWait(t, c, m) PROVE Quiet(t)
  BY <1>11 DEF CallCondWait
<1>12. ASSUME NEW b \in Barriers, CallBarrierInit(t, b) \/ CallBarrierWait(t, b)
       PROVE  Quiet(t)
  BY <1>12 DEF CallBarrierInit, CallBarrierWait, EnterBarrierOp
<1> QED
  BY <1>1, <1>2, <1>3, <1>4, <1>5, <1>6, <1>7, <1>8, <1>9, <1>10, <1>11, <1>12
     DEF CondSignal, CondBroadcast

\* The steps left over are the ones that hand control on.
LEMMA QuietOrHandOver ==
  ASSUME TypeOK, NEW t \in Threads, Internal(t) \/ UserCall(t)
  PROVE  \/ Quiet(t)
         \/ Resume(t) \/ ContextSwitch(t) \/ Trampoline(t) \/ TsanStartGate(t)
         \/ Die(t) \/ RealJoin(t) \/ BlockUntilReleased(t) \/ ThreadExit(t)
         \/ \E c \in Threads : Create(t, c)
BY QuietStep DEF Internal, UserCall

\* choose() is never shown a thread as waiting that is not.
LEMMA WaitFlagStep == IndInv /\ [Next]_vars => WaitFlagInv'
<1> SUFFICES ASSUME IndInv, [Next]_vars PROVE WaitFlagInv'
  OBVIOUS
<1>1. TypeOK /\ WaitFlagInv
  BY DEF IndInv
<1> USE <1>1 DEF TypeOK, WaitFlagInv
<1>2. CASE UNCHANGED vars
  BY <1>2
<1>3. CASE Reinit
  BY <1>3 DEF Reinit, FreshState
<1>4. ASSUME NEW t \in Threads, Internal(t) \/ UserCall(t) PROVE WaitFlagInv'
  <2>1. CASE Quiet(t)
    BY <2>1 DEF Quiet, RunPcs
  <2>2. CASE Resume(t)
    BY <2>2 DEF Resume, ReturnTo
  <2>3. ASSUME NEW n, Suspend(t, Signal(n)) PROVE WaitFlagInv'
    BY <2>3 DEF Suspend, Signal
  <2>4. CASE ContextSwitch(t)
    <3>1. CASE ReturnTo(t, pc) /\ UNCHANGED is_in_rsched_wait
      BY <2>4, <3>1 DEF ContextSwitch, ReturnTo
    <3> QED
      BY <2>3, <2>4, <3>1 DEF ContextSwitch, Wake
  <2>5. CASE Trampoline(t) \/ TsanStartGate(t)
    BY <2>5, SMTT(30) DEF Trampoline, TsanStartGate, Suspend, Goto
  <2>6. CASE BlockUntilReleased(t)
    BY <2>6, SMTT(30) DEF BlockUntilReleased, Suspend, Goto
  <2>7. CASE Die(t) \/ RealJoin(t)
    BY <2>7 DEF Die, RealJoin, Goto
  <2>8. CASE ThreadExit(t)
    BY <2>8 DEF ThreadExit, Signal, Goto
  <2>9. ASSUME NEW c \in Threads, Create(t, c) PROVE WaitFlagInv'
    BY <2>9 DEF Create, AddChild
  <2> QED
    BY <1>4, <2>1, <2>2, <2>4, <2>5, <2>6, <2>7, <2>8, <2>9, QuietOrHandOver
<1> QED
  BY <1>2, <1>3, <1>4 DEF Next

\* One registered thread executes: a step that stops its thread wakes at most
\* one other, a step that does not stop its thread wakes none.
LEMMA OneRunnerStep == IndInv /\ [Next]_vars => OneRunner'
<1> SUFFICES ASSUME IndInv, [Next]_vars PROVE OneRunner'
  OBVIOUS
<1>1. TypeOK /\ ControlInv /\ OneRunner
  BY DEF IndInv
<1> USE <1>1 DEF TypeOK, OneRunner, Running, RunPcs
<1>2. CASE UNCHANGED vars
  BY <1>2
<1>3. CASE Reinit
  BY <1>3 DEF Reinit, FreshState
<1>4. ASSUME NEW t \in Threads, Internal(t) \/ UserCall(t) PROVE OneRunner'
  <2>1. pc[t] = "teardown" => t \notin threads
    BY DEF ControlInv, ControlOK
  <2>2. CASE Quiet(t)
    BY <2>1, <2>2 DEF Quiet
  <2>3. CASE Resume(t)
    BY <2>3 DEF Resume, ReturnTo
  <2>4. CASE ContextSwitch(t)
    <3>1. CASE ReturnTo(t, pc)
      BY <2>4, <3>1 DEF ContextSwitch, ReturnTo
    <3>2. ASSUME NEW n, Suspend(t, Signal(n)), t \in threads PROVE OneRunner'
      BY <2>4, <3>2 DEF ContextSwitch, Suspend, Signal
    <3> QED
      BY <2>4, <3>1, <3>2 DEF ContextSwitch, Wake, Alone
  <2>5. CASE Trampoline(t) \/ TsanStartGate(t)
    BY <2>5 DEF Trampoline, TsanStartGate, Suspend, Goto
  <2>6. CASE BlockUntilReleased(t)
    BY <2>6 DEF BlockUntilReleased, Suspend, Goto
  <2>7. CASE Die(t) \/ RealJoin(t)
    BY <2>7 DEF Die, RealJoin, Goto
  <2>8. CASE ThreadExit(t)
    <3>1. t \in threads
      BY <2>8 DEF ThreadExit, ControlInv, ControlOK, At
    <3> QED
      BY <2>8, <3>1 DEF ThreadExit, Signal, Goto
  <2>9. ASSUME NEW c \in Threads, Create(t, c) PROVE OneRunner'
    BY <2>9, SMTT(30) DEF Create, AddChild
  <2> QED
    BY <1>4, <2>2, <2>3, <2>4, <2>5, <2>6, <2>7, <2>8, <2>9, QuietOrHandOver
<1> QED
  BY <1>2, <1>3, <1>4 DEF Next

(***************************************************************************)
(* The mutex invariants.                                                   *)
(***************************************************************************)
\* A step that leaves all mutexes alone and does not enter or leave mutex_lock.
MutexQuiet(t) ==
    /\ UNCHANGED mutexVars
    /\ \A m \in Mutexes : Locking(t, m)' <=> Locking(t, m)
    /\ pc'[t] = "reallock" <=> pc[t] = "reallock"
    /\ pc[t] = "reallock" => mtx'[t] = mtx[t]

\* No step of t moves another thread into or out of mutex_lock.
LEMMA LockingOthers ==
  ASSUME NEW t \in Threads, Frame(t), NEW u \in Threads \ {t}
  PROVE  /\ \A m \in Mutexes : Locking(u, m)' <=> Locking(u, m)
         /\ pc'[u] = "reallock" <=> pc[u] = "reallock"
         /\ mtx'[u] = mtx[u]
BY DEF Frame, Moved, Locking, At

\* Everything except the mutex functions and cond_wait is quiet in this sense.
LEMMA MutexQuietStep ==
  ASSUME TypeOK, ControlInv, NEW t \in Threads, Internal(t) \/ UserCall(t)
  PROVE  \/ MutexQuiet(t)
         \/ MutexLock(t) \/ RealLock(t) \/ Trylock(t) \/ Unlock(t) \/ CondWait(t)
         \/ \E m \in Mutexes : CallLock(t, m)
<1> USE DEF TypeOK, ControlInv, ControlOK, MutexQuiet, Locking, At, AwayPcs,
            Goto, CallContextSwitch, CallDrain
<1>0. ASSUME ReturnTo(t, pc), pc[t] \in AwayPcs, UNCHANGED <<syncVars, mtx>>
      PROVE  MutexQuiet(t)
  BY <1>0 DEF ReturnTo, RetLabels
<1>1. ASSUME UNCHANGED syncVars, Return(t) \/ CreateFails(t) \/ Die(t) \/ Joined(t) \/ RealJoin(t)
      PROVE  MutexQuiet(t)
  BY <1>1, SMTT(30) DEF Return, Leave, CreateFails, Die, Joined, RealJoin
<1>2. ASSUME UNCHANGED syncVars, Resume(t)
      PROVE  MutexQuiet(t)
  BY <1>0, <1>2 DEF Resume
<1>3. ASSUME UNCHANGED syncVars, ContextSwitch(t)
      PROVE  MutexQuiet(t)
  <2>1. ASSUME NEW n, Suspend(t, Signal(n)), UNCHANGED ret PROVE MutexQuiet(t)
    BY <1>3, <2>1 DEF ContextSwitch, Suspend, Signal
  <2> QED
    BY <1>0, <1>3, <2>1 DEF ContextSwitch, Wake
<1>4. ASSUME UNCHANGED syncVars, DrainPendingChild(t) \/ DrainResume(t)
      PROVE  MutexQuiet(t)
  <2>1. pc[t] \in AwayPcs /\ UNCHANGED mtx
    BY <1>4 DEF DrainPendingChild, DrainResume
  <2>2. CASE AfterDrain(t)
    BY <1>0, <1>4, <2>1, <2>2 DEF AfterDrain
  <2>3. CASE Goto(t, "drainwait") /\ UNCHANGED ret
    BY <1>4, <2>1, <2>3
  <2> QED
    BY <1>4, <2>2, <2>3 DEF DrainPendingChild, DrainResume
<1>5. ASSUME UNCHANGED syncVars, Trampoline(t) \/ TsanStartGate(t)
      PROVE  MutexQuiet(t)
  BY <1>5, SMTT(30) DEF Trampoline, TsanStartGate, Suspend
<1>6. ASSUME UNCHANGED syncVars, Join(t)
      PROVE  MutexQuiet(t)
  BY <1>6, SMTT(30) DEF Join
<1>7. ASSUME NEW c \in Threads, Create(t, c), UNCHANGED syncVars PROVE MutexQuiet(t)
  BY <1>7 DEF Create
<1>8. ASSUME UNCHANGED syncVars, SchedYield(t) \/ ScheduleMemop(t) \/ CallCreate(t)
      PROVE  MutexQuiet(t)
  BY <1>8, SMTT(30) DEF SchedYield, ScheduleMemop, SchedulingPoint, MayCall, CallCreate
<1>9. ASSUME UNCHANGED syncVars, ThreadExit(t)
      PROVE  MutexQuiet(t)
  BY <1>9 DEF ThreadExit, Signal
<1>10. ASSUME NEW x \in Threads, CallJoin(t, x), UNCHANGED syncVars PROVE MutexQuiet(t)
  BY <1>10 DEF CallJoin
<1>11. CASE BlockUntilReleased(t)
  BY <1>11 DEF BlockUntilReleased, Suspend, AfterBlocking
<1>12. CASE BarrierInit(t) \/ BarrierWait(t)
  BY <1>12, SMTT(30) DEF BarrierInit, BarrierWait
<1>13. ASSUME NEW m \in Mutexes, CallTrylock(t, m) \/ CallUnlock(t, m) PROVE MutexQuiet(t)
  BY <1>13 DEF CallTrylock, CallUnlock, EnterMutexOp, MayCall
<1>14. ASSUME NEW c \in Conds, NEW W, ReleaseCondWaiters(t, c, W) PROVE MutexQuiet(t)
  BY <1>14 DEF ReleaseCondWaiters
<1>15. ASSUME NEW c \in Conds, NEW m \in Mutexes, CallCondWait(t, c, m) PROVE MutexQuiet(t)
  BY <1>15, SMTT(30) DEF CallCondWait
<1>16. ASSUME NEW b \in Barriers, CallBarrierInit(t, b) \/ CallBarrierWait(t, b)
       PROVE  MutexQuiet(t)
  BY <1>16, SMTT(30) DEF CallBarrierInit, CallBarrierWait, EnterBarrierOp
<1> HIDE DEF MutexQuiet
<1>17. CASE Internal(t)
  BY <1>17, <1>1, <1>2, <1>3, <1>4, <1>5, <1>6, <1>7, <1>11, <1>12 DEF Internal
<1>18. CASE UserCall(t)
  BY <1>18, <1>8, <1>9, <1>10, <1>13, <1>14, <1>15, <1>16
     DEF UserCall, CondSignal, CondBroadcast
<1> QED
  BY <1>17, <1>18

\* The owner's State::mutex_unlock, as the invariants see it: one level less, the
\* entry dropped, or the entry handed to a waiter.
LEMMA MutexUnlockCases ==
  ASSUME TypeOK, NEW m \in Mutexes, NEW B, MutexUnlock(m, B)
  PROVE  \/ /\ count[m] # 1
            /\ count' = [count EXCEPT ![m] = count[m] - 1]
            /\ UNCHANGED <<owner, mwaiters>>
         \/ /\ count[m] = 1
            /\ mwaiters[m] = {}
            /\ count' = [count EXCEPT ![m] = 0]
            /\ owner' = [owner EXCEPT ![m] = None]
            /\ mwaiters' = mwaiters
         \/ /\ count[m] = 1
            /\ count' = [count EXCEPT ![m] = 0]
            /\ \E w \in mwaiters[m] :
                 /\ owner' = [owner EXCEPT ![m] = w]
                 /\ mwaiters' = [mwaiters EXCEPT ![m] = mwaiters[m] \ {w}]
<1>1. CASE ~LastRelease(m)
  BY <1>1 DEF MutexUnlock, LastRelease
<1>2. CASE LastRelease(m) /\ mwaiters[m] = {}
  <2>1. mwaiters[m] \ {None} = mwaiters[m]
    BY <1>2
  <2>2. mwaiters' = [mwaiters EXCEPT ![m] = mwaiters[m]]
    BY <1>2, <2>1 DEF MutexUnlock, Heirs
  <2>3. mwaiters' = mwaiters
    BY <2>2 DEF TypeOK
  <2> QED
    BY <1>2, <2>3 DEF MutexUnlock, LastRelease, Heirs
<1>3. CASE LastRelease(m) /\ mwaiters[m] # {}
  BY <1>3 DEF MutexUnlock, LastRelease, Heirs
<1> QED
  BY <1>1, <1>2, <1>3

\* unlock and cond_wait by the owner: what both do to the mutex.
LEMMA ReleaseFacts ==
  ASSUME IndInv, NEW t \in Threads, Unlock(t) \/ CondWait(t)
  PROVE  /\ mtx[t] \in Mutexes
         /\ pc[t] \in {"unlock", "cwait"}
         /\ \A m \in Mutexes : ~Locking(t, m)
         /\ \/ UNCHANGED mutexVars /\ owner[mtx[t]] # t
            \/ /\ owner[mtx[t]] = t
               /\ count[mtx[t]] # 0
               /\ \E B : MutexUnlock(mtx[t], B)
               /\ IF rowner[mtx[t]] = t THEN RealUnlock(mtx[t]) ELSE UNCHANGED real
<1>1. pc[t] \in {"unlock", "cwait"}
  BY DEF Unlock, CondWait
<1>2. ControlOK(t)
  BY DEF IndInv, ControlInv
<1>3. mtx[t] \in Mutexes /\ ret[t] = "none"
  BY <1>1, <1>2 DEF ControlOK, At, AwayPcs
<1>4. \A m \in Mutexes : ~Locking(t, m)
  BY <1>1, <1>3 DEF Locking, At
<1>5. owner[mtx[t]] = t => count[mtx[t]] # 0
  BY <1>1, <1>3, UnlockCounts
<1>6. CASE Unlock(t)
  BY <1>1, <1>3, <1>4, <1>5, <1>6 DEF Unlock, MayUnlock
<1>7. CASE CondWait(t)
  BY <1>1, <1>3, <1>4, <1>5, <1>7 DEF CondWait, MayUnlock
<1> QED
  BY <1>6, <1>7

\* A virtual mutex is unowned and empty, held, or handed to a thread that is in
\* mutex_lock for it; so are its waiters.
LEMMA VirtualStep == IndInv /\ [Next]_vars => VirtualInv'
<1> SUFFICES ASSUME IndInv, [Next]_vars PROVE VirtualInv'
  OBVIOUS
<1>1. TypeOK /\ ControlInv /\ VirtualInv
  BY DEF IndInv
<1>2. CASE UNCHANGED vars
  BY <1>1, <1>2 DEF VirtualInv, Locking, At
<1>3. CASE Reinit
  BY <1>1, <1>3 DEF Reinit, FreshState, VirtualInv
<1>4. ASSUME NEW t \in Threads, Internal(t) \/ UserCall(t) PROVE VirtualInv'
  <2>1. \A u \in Threads \ {t}, m \in Mutexes : Locking(u, m) => Locking(u, m)'
    BY <1>1, <1>4, FrameStep, LockingOthers
  <2>2. CASE /\ UNCHANGED virtual
             /\ \A m \in Mutexes : Locking(t, m) => Locking(t, m)'
    <3>1. \A u \in Threads, m \in Mutexes : Locking(u, m) => Locking(u, m)'
      BY <2>1, <2>2
    <3> QED
      BY <1>1, <2>2, <3>1 DEF TypeOK, VirtualInv
  <2>3. CASE MutexQuiet(t)
    BY <2>2, <2>3 DEF MutexQuiet
  <2>4. CASE RealLock(t) \/ Trylock(t)
    <3>1. \A m \in Mutexes : ~Locking(t, m)
      BY <1>1, <2>4 DEF RealLock, Trylock, Locking, At, ControlInv, ControlOK, AwayPcs
    <3> QED
      BY <2>2, <2>4, <3>1 DEF RealLock, Trylock
  <2>5. ASSUME NEW m \in Mutexes, CallLock(t, m) PROVE VirtualInv'
    <3>1. \A k \in Mutexes : ~Locking(t, k)
      BY <1>1, <2>5 DEF CallLock, EnterMutexOp, MayCall, Locking, At, ControlInv, ControlOK,
                        AwayPcs
    <3> QED
      BY <2>2, <2>5, <3>1 DEF CallLock, EnterMutexOp
  <2>6. CASE MutexLock(t)
    <3>1. mtx[t] \in Mutexes /\ pc[t] = "lock" /\ mtx' = mtx
      BY <1>1, <2>6 DEF MutexLock, ControlInv, ControlOK, At
    <3>2. \A m \in Mutexes : m # mtx[t] => ~Locking(t, m)
      BY DEF Locking
    <3>3. CASE ~WillBlock(t, mtx[t])
      <4>1. /\ owner' = [owner EXCEPT ![mtx[t]] = t]
            /\ count' = [count EXCEPT ![mtx[t]] = count[mtx[t]] + 1]
            /\ mwaiters' = mwaiters
        BY <2>6, <3>3 DEF MutexLock
      <4>2. count'[mtx[t]] # 0 /\ owner'[mtx[t]] = t /\ t # None
        BY <1>1, <3>1, <4>1, ThreadsAssumption DEF TypeOK
      <4>3. t \notin mwaiters[mtx[t]]
        BY <1>1, <3>1, <3>3 DEF VirtualInv, WillBlock
      <4> QED
        BY <1>1, <2>1, <3>1, <3>2, <4>1, <4>2, <4>3 DEF TypeOK, VirtualInv
    <3>4. CASE WillBlock(t, mtx[t])
      <4>1. /\ mwaiters' = [mwaiters EXCEPT ![mtx[t]] = mwaiters[mtx[t]] \cup {t}]
            /\ UNCHANGED <<owner, count>>
            /\ CallContextSwitch(t, "relock")
        BY <2>6, <3>4 DEF MutexLock
      <4>2. Locking(t, mtx[t])'
        BY <1>1, <3>1, <4>1 DEF TypeOK, CallContextSwitch, CallDrain, Locking, At
      <4>3. owner[mtx[t]] \notin {None, t}
        BY <3>4 DEF WillBlock
      <4> QED
        BY <1>1, <2>1, <3>1, <3>2, <4>1, <4>2, <4>3 DEF TypeOK, VirtualInv
    <3> QED
      BY <3>3, <3>4
  <2>7. CASE Unlock(t) \/ CondWait(t)
    <3>1. \A m \in Mutexes : ~Locking(t, m)
      BY <2>7, ReleaseFacts
    <3>2. CASE UNCHANGED mutexVars
      BY <2>2, <3>1, <3>2
    <3>3. CASE ~UNCHANGED mutexVars
      <4> DEFINE m == mtx[t]
                 InLock(u, k) == /\ pc'[u] \in {"lock", "relock"} \/ ret'[u] \in {"lock", "relock"}
                                 /\ mtx'[u] = k
                 Good(k) == /\ owner'[k] = None => count'[k] = 0 /\ mwaiters'[k] = {}
                            /\ owner'[k] # None /\ count'[k] = 0 => InLock(owner'[k], k)
                            /\ \A w \in mwaiters'[k] : InLock(w, k) /\ w # owner'[k]
      <4>1. m \in Mutexes /\ owner[m] = t /\ count[m] # 0 /\ t # None
        BY <2>7, <3>3, ReleaseFacts, ThreadsAssumption
      <4>2. PICK B : MutexUnlock(m, B)
        BY <2>7, <3>3, ReleaseFacts
      <4>3. SUFFICES ASSUME NEW k \in Mutexes PROVE Good(k)
        BY DEF VirtualInv, Locking, At
      <4>4. \A u \in Threads : Locking(u, k) => u # t /\ InLock(u, k)
        BY <2>1, <3>1 DEF Locking, At
      <4>5. /\ owner[k] \in Threads \cup {None} /\ count[k] \in Nat
            /\ mwaiters[k] \subseteq Threads
            /\ owner[k] = None => count[k] = 0 /\ mwaiters[k] = {}
            /\ owner[k] # None /\ count[k] = 0 => Locking(owner[k], k)
            /\ \A w \in mwaiters[k] : Locking(w, k) /\ w # owner[k]
        BY <1>1 DEF TypeOK, VirtualInv
      <4> HIDE DEF m, InLock
      <4>6. CASE k # m
        <5>1. owner'[k] = owner[k] /\ count'[k] = count[k] /\ mwaiters'[k] = mwaiters[k]
          BY <1>1, <4>1, <4>2, <4>6, MutexUnlockCases DEF TypeOK
        <5> QED
          BY <4>4, <4>5, <5>1
      <4>7. CASE k = m /\ count[m] # 1
        <5>1. owner'[k] = owner[k] /\ count'[k] = count[k] - 1 /\ mwaiters'[k] = mwaiters[k]
          BY <1>1, <4>1, <4>2, <4>7, MutexUnlockCases DEF TypeOK
        <5>2. count'[k] # 0
          BY <4>1, <4>5, <4>7, <5>1
        <5> QED
          BY <4>1, <4>4, <4>5, <4>7, <5>1, <5>2
      <4>8. CASE k = m /\ count[m] = 1 /\ mwaiters[m] = {}
        BY <1>1, <4>1, <4>2, <4>8, MutexUnlockCases DEF TypeOK
      <4>9. CASE k = m /\ count[m] = 1 /\ mwaiters[m] # {}
        <5>1. PICK w \in mwaiters[m] :
                /\ count'[m] = 0 /\ owner'[m] = w
                /\ mwaiters'[m] = mwaiters[m] \ {w}
          BY <1>1, <4>1, <4>2, <4>9, MutexUnlockCases DEF TypeOK
        <5>2. w \in Threads /\ w # None /\ InLock(w, k)
          BY <4>4, <4>5, <4>9, <5>1, ThreadsAssumption
        <5> QED
          BY <4>4, <4>5, <4>9, <5>1, <5>2
      <4> QED
        BY <4>6, <4>7, <4>8, <4>9
    <3> QED
      BY <3>2, <3>3
  <2> QED
    BY <1>1, <1>4, <2>3, <2>4, <2>5, <2>6, <2>7, MutexQuietStep
<1> QED
  BY <1>2, <1>3, <1>4 DEF Next

\* The real mutex follows the virtual one: locked after it, released with it.
LEMMA RealStep == IndInv /\ [Next]_vars => RealInv'
<1> SUFFICES ASSUME IndInv, [Next]_vars PROVE RealInv'
  OBVIOUS
<1>1. TypeOK /\ ControlInv /\ VirtualInv /\ RealInv
  BY DEF IndInv
<1>2. CASE UNCHANGED vars
  BY <1>1, <1>2 DEF RealInv
<1>3. CASE Reinit
  <2>1. \A u \in Threads : pc'[u] # "reallock"
    BY <1>3 DEF Reinit, InitialPc
  <2> QED
    BY <1>1, <1>3, <2>1 DEF Reinit, FreshState, RealInv
<1>4. ASSUME NEW t \in Threads, Internal(t) \/ UserCall(t) PROVE RealInv'
  <2> DEFINE Good(k) == /\ rowner'[k] = None <=> rcount'[k] = 0
                        /\ rowner'[k] # None => owner'[k] = rowner'[k]
                        /\ rcount'[k] <= count'[k]
             Ready(u) == owner'[mtx'[u]] = u /\ rcount'[mtx'[u]] < count'[mtx'[u]]
  <2>0. ASSUME \A k \in Mutexes : Good(k), \A u \in Threads : pc'[u] = "reallock" => Ready(u)
        PROVE  RealInv'
    BY <2>0 DEF RealInv
  <2>1. ASSUME NEW u \in Threads \ {t}, pc'[u] = "reallock"
        PROVE  /\ mtx'[u] = mtx[u] /\ mtx[u] \in Mutexes
               /\ owner[mtx[u]] = u /\ rcount[mtx[u]] < count[mtx[u]]
    <3>1. pc[u] = "reallock" /\ mtx'[u] = mtx[u]
      BY <1>1, <1>4, <2>1, FrameStep, LockingOthers
    <3> QED
      BY <1>1, <3>1 DEF RealInv, ControlInv, ControlOK, At
  <2>2. \A k \in Mutexes : /\ owner[k] \in Threads \cup {None} /\ rowner[k] \in Threads \cup {None}
                           /\ count[k] \in Nat /\ rcount[k] \in Nat
                           /\ rowner[k] = None <=> rcount[k] = 0
                           /\ rowner[k] # None => owner[k] = rowner[k]
                           /\ rcount[k] <= count[k]
                           /\ owner[k] = None => count[k] = 0
    BY <1>1 DEF TypeOK, RealInv, VirtualInv
  <2>3. CASE UNCHANGED mutexVars /\ pc'[t] # "reallock"
    BY <2>0, <2>1, <2>2, <2>3 DEF mutexVars, virtual, real
  <2>4. CASE MutexQuiet(t)
    BY <1>1, <2>0, <2>1, <2>2, <2>4 DEF MutexQuiet, RealInv, mutexVars, virtual, real
  <2>5. ASSUME Trylock(t) \/ \E m \in Mutexes : CallLock(t, m) PROVE RealInv'
    <3>1. pc'[t] # "reallock"
      BY <1>1, <2>5 DEF TypeOK, Trylock, CallLock, Goto, CallContextSwitch, CallDrain
    <3> QED
      BY <2>3, <2>5, <3>1 DEF Trylock, CallLock, EnterMutexOp, syncVars
  <2>6. CASE MutexLock(t)
    <3>1. mtx[t] \in Mutexes /\ pc[t] = "lock" /\ mtx' = mtx
      BY <1>1, <2>6 DEF MutexLock, ControlInv, ControlOK, At, args
    <3>2. CASE WillBlock(t, mtx[t])
      <4>1. /\ UNCHANGED <<owner, count, rowner, rcount>>
            /\ pc'[t] # "reallock"
        BY <1>1, <2>6, <3>2 DEF TypeOK, MutexLock, real, CallContextSwitch, CallDrain, Goto
      <4> QED
        BY <2>0, <2>1, <2>2, <4>1
    <3>3. CASE ~WillBlock(t, mtx[t])
      <4> DEFINE m == mtx[t]
      <4>1. /\ owner' = [owner EXCEPT ![m] = t]
            /\ count' = [count EXCEPT ![m] = count[m] + 1]
            /\ UNCHANGED <<rowner, rcount>>
            /\ owner[m] \in {None, t}
        BY <2>6, <3>3 DEF MutexLock, real, WillBlock
      <4>2. m \in Mutexes /\ t # None
        BY <3>1, ThreadsAssumption
      <4>3. owner'[m] = t /\ count'[m] = count[m] + 1
        BY <1>1, <4>1, <4>2 DEF TypeOK
      <4>4. \A k \in Mutexes : k # m => owner'[k] = owner[k] /\ count'[k] = count[k]
        BY <1>1, <4>1 DEF TypeOK
      <4> HIDE DEF m
      <4>5. ASSUME NEW k \in Mutexes PROVE Good(k)
        <5>1. CASE k = m
          BY <2>2, <4>1, <4>2, <4>3, <5>1
        <5>2. CASE k # m
          BY <2>2, <4>1, <4>4, <5>2
        <5> QED
          BY <5>1, <5>2
      <4>6. ASSUME NEW u \in Threads, pc'[u] = "reallock" PROVE Ready(u)
        <5>1. CASE u = t
          BY <2>2, <3>1, <4>1, <4>2, <4>3, <5>1 DEF m
        <5>2. CASE u # t
          <6>1. mtx[u] # m
            BY <2>1, <4>1, <4>6, <5>2, ThreadsAssumption
          <6> QED
            BY <2>1, <4>1, <4>4, <4>6, <5>2, <6>1
        <5> QED
          BY <5>1, <5>2
      <4> QED
        BY <2>0, <4>5, <4>6
    <3> QED
      BY <3>2, <3>3
  <2>7. CASE RealLock(t)
    <3> DEFINE m == mtx[t]
    <3>1. /\ m \in Mutexes /\ pc'[t] # "reallock" /\ t # None
          /\ UNCHANGED <<owner, count>>
          /\ owner[m] = t /\ rcount[m] < count[m]
      BY <1>1, <2>7, ThreadsAssumption
         DEF TypeOK, RealLock, virtual, Goto, ControlInv, ControlOK, At, RealInv
    <3>2. \/ /\ rowner' = [rowner EXCEPT ![m] = t]
             /\ rcount' = [rcount EXCEPT ![m] = rcount[m] + 1]
          \/ UNCHANGED mutexVars
      BY <2>7 DEF RealLock, virtual, real, mutexVars
    <3> HIDE DEF m
    <3>3. CASE UNCHANGED mutexVars
      BY <2>3, <3>1, <3>3
    <3>4. CASE /\ rowner' = [rowner EXCEPT ![m] = t]
               /\ rcount' = [rcount EXCEPT ![m] = rcount[m] + 1]
      <4>1. rowner'[m] = t /\ rcount'[m] = rcount[m] + 1
        BY <1>1, <3>1, <3>4 DEF TypeOK
      <4>2. \A k \in Mutexes : k # m => rowner'[k] = rowner[k] /\ rcount'[k] = rcount[k]
        BY <1>1, <3>4 DEF TypeOK
      <4>3. ASSUME NEW k \in Mutexes PROVE Good(k)
        <5>1. CASE k = m
          BY <2>2, <3>1, <4>1, <5>1
        <5>2. CASE k # m
          BY <2>2, <3>1, <4>2, <5>2
        <5> QED
          BY <5>1, <5>2
      <4>4. ASSUME NEW u \in Threads, pc'[u] = "reallock" PROVE Ready(u)
        <5>1. u # t
          BY <3>1, <4>4
        <5>2. mtx[u] # m
          BY <2>1, <3>1, <4>4, <5>1
        <5> QED
          BY <2>1, <3>1, <4>2, <4>4, <5>1, <5>2
      <4> QED
        BY <2>0, <4>3, <4>4
    <3> QED
      BY <3>2, <3>3, <3>4
  <2>8. CASE Unlock(t) \/ CondWait(t)
    <3> DEFINE m == mtx[t]
    <3>1. m \in Mutexes /\ t # None /\ pc'[t] # "reallock"
      <4>1. m \in Mutexes /\ t # None
        BY <2>8, ReleaseFacts, ThreadsAssumption
      <4>2. \/ Goto(t, "clear") \/ Goto(t, "gunlock")
            \/ CallContextSwitch(t, "clear") \/ CallContextSwitch(t, "relock")
        BY <2>8 DEF Unlock, CondWait
      <4>3. pc'[t] # "reallock"
        BY <1>1, <4>2 DEF TypeOK, Goto, CallContextSwitch, CallDrain
      <4> QED
        BY <4>1, <4>3
    <3>2. CASE UNCHANGED mutexVars
      BY <2>3, <3>1, <3>2
    <3>3. CASE ~UNCHANGED mutexVars
      <4>1. /\ owner[m] = t /\ count[m] # 0
            /\ IF rowner[m] = t THEN RealUnlock(m) ELSE UNCHANGED real
        BY <2>8, <3>3, ReleaseFacts
      <4>2. PICK B : MutexUnlock(m, B)
        BY <2>8, <3>3, ReleaseFacts
      <4> HIDE DEF m
      <4>3. ASSUME NEW k \in Mutexes, k # m
            PROVE  /\ owner'[k] = owner[k] /\ count'[k] = count[k]
                   /\ rowner'[k] = rowner[k] /\ rcount'[k] = rcount[k]
        <5>1. owner'[k] = owner[k] /\ count'[k] = count[k]
          BY <1>1, <3>1, <4>2, <4>3, MutexUnlockCases DEF TypeOK
        <5>2. rowner'[k] = rowner[k] /\ rcount'[k] = rcount[k]
          BY <1>1, <4>1, <4>3 DEF TypeOK, RealUnlock, real
        <5> QED
          BY <5>1, <5>2
      <4>4. \/ count[m] # 1 /\ count'[m] = count[m] - 1 /\ owner'[m] = t
            \/ count[m] = 1 /\ count'[m] = 0
        BY <1>1, <3>1, <4>1, <4>2, MutexUnlockCases DEF TypeOK
      <4>5. ASSUME rowner[m] = t PROVE Good(m)
        <5>1. /\ rcount'[m] = rcount[m] - 1
              /\ rowner'[m] = IF rcount[m] = 1 THEN None ELSE rowner[m]
          BY <1>1, <3>1, <4>1, <4>5 DEF TypeOK, RealUnlock
        <5> QED
          BY <2>2, <3>1, <4>1, <4>4, <4>5, <5>1
      <4>6. ASSUME rowner[m] # t PROVE Good(m)
        <5>1. rowner[m] = None /\ rcount[m] = 0
          BY <2>2, <3>1, <4>1, <4>6
        <5>2. rowner'[m] = None /\ rcount'[m] = 0
          BY <4>1, <4>6, <5>1 DEF real
        <5> QED
          BY <2>2, <3>1, <4>1, <4>4, <5>2
      <4>7. Good(m)
        BY <4>5, <4>6
      <4>8. ASSUME NEW k \in Mutexes PROVE Good(k)
        <5>1. CASE k = m
          BY <4>7, <5>1
        <5>2. CASE k # m
          BY <2>2, <4>3, <5>2
        <5> QED
          BY <5>1, <5>2
      <4>9. ASSUME NEW u \in Threads, pc'[u] = "reallock" PROVE Ready(u)
        <5>1. u # t
          BY <3>1, <4>9
        <5>2. mtx[u] # m
          BY <2>1, <4>1, <4>9, <5>1
        <5> QED
          BY <2>1, <4>3, <4>9, <5>1, <5>2
      <4> QED
        BY <2>0, <4>8, <4>9
    <3> QED
      BY <3>2, <3>3
  <2> QED
    BY <1>1, <1>4, <2>4, <2>5, <2>6, <2>7, <2>8, MutexQuietStep
<1> QED
  BY <1>2, <1>3, <1>4 DEF Next

\* A normal mutex is locked once: the program does not relock it, and trylock
\* refuses to.
LEMMA NormalStep == IndInv /\ [Next]_vars => NormalInv'
<1> SUFFICES ASSUME IndInv, [Next]_vars PROVE NormalInv'
  OBVIOUS
<1>1. TypeOK /\ ControlInv /\ VirtualInv /\ NormalInv
  BY DEF IndInv
<1>2. CASE UNCHANGED vars
  BY <1>1, <1>2 DEF NormalInv, Locking, At
<1>3. CASE Reinit
  BY <1>3 DEF Reinit, FreshState, NormalInv
<1>4. ASSUME NEW t \in Threads, Internal(t) \/ UserCall(t) PROVE NormalInv'
  <2> DEFINE InLock(u, k) == /\ pc'[u] \in {"lock", "relock"} \/ ret'[u] \in {"lock", "relock"}
                             /\ mtx'[u] = k
             Good(k) == /\ count'[k] <= 1
                        /\ owner'[k] # None /\ InLock(owner'[k], k) => count'[k] = 0
  <2>0. ASSUME \A k \in Mutexes : Kind[k] = "normal" => Good(k) PROVE NormalInv'
    BY <2>0 DEF NormalInv, Locking, At
  <2>1. \A u \in Threads \ {t}, k \in Mutexes : InLock(u, k) => Locking(u, k)
    BY <1>1, <1>4, FrameStep, LockingOthers DEF Locking, At
  <2>2. \A k \in Mutexes : /\ owner[k] \in Threads \cup {None} /\ count[k] \in Nat
                           /\ owner[k] = None => count[k] = 0
    BY <1>1 DEF TypeOK, VirtualInv
  <2>3. \A k \in Mutexes : Kind[k] = "normal" =>
          count[k] <= 1 /\ (owner[k] # None /\ Locking(owner[k], k) => count[k] = 0)
    BY <1>1 DEF NormalInv
  <2> HIDE DEF InLock
  <2>4. ASSUME UNCHANGED <<owner, count>>,
               \A k \in Mutexes : Kind[k] = "normal" /\ owner[k] = t /\ InLock(t, k)
                                    => Locking(t, k)
        PROVE  NormalInv'
    BY <2>0, <2>1, <2>2, <2>3, <2>4
  <2>5. CASE MutexQuiet(t)
    BY <2>4, <2>5 DEF MutexQuiet, mutexVars, virtual, InLock, Locking, At
  <2>6. CASE RealLock(t)
    <3>1. \A k \in Mutexes : ~InLock(t, k)
      BY <1>1, <2>6 DEF InLock, TypeOK, RealLock, Goto, ControlInv, ControlOK, AwayPcs
    <3> QED
      BY <2>4, <2>6, <3>1 DEF RealLock, virtual
  <2>7. CASE Trylock(t)
    <3>1. /\ UNCHANGED <<owner, count, mtx, ret>>
          /\ pc' = [pc EXCEPT ![t] = IF WillBlock(t, mtx[t])
                                          \/ (owner[mtx[t]] = t /\ mtx[t] \notin RecursiveNoted)
                                     THEN "clear" ELSE "lock"]
          /\ ret[t] = "none"
      BY <1>1, <2>7 DEF Trylock, Goto, syncVars, mutexVars, virtual, args,
                        ControlInv, ControlOK, AwayPcs
    <3>2. ASSUME NEW k \in Mutexes, Kind[k] = "normal", owner[k] = t, InLock(t, k) PROVE FALSE
      <4>1. k = mtx[t] /\ pc'[t] \in {"lock", "relock"}
        BY <3>1, <3>2 DEF InLock
      <4>2. k \notin RecursiveNoted
        BY <3>2, SyncAssumption
      <4>3. pc'[t] = "clear"
        BY <1>1, <3>1, <3>2, <4>1, <4>2 DEF TypeOK
      <4> QED
        BY <4>1, <4>3
    <3> QED
      BY <2>4, <3>1, <3>2
  <2>8. ASSUME NEW m \in Mutexes, CallLock(t, m) PROVE NormalInv'
    <3>1. /\ UNCHANGED <<owner, count>> /\ mtx'[t] = m
          /\ owner[m] = t => Kind[m] # "normal"
      BY <1>1, <2>8 DEF TypeOK, CallLock, EnterMutexOp, MayLock, syncVars, mutexVars, virtual
    <3> QED
      BY <2>4, <3>1 DEF InLock
  <2>9. CASE MutexLock(t)
    <3> DEFINE m == mtx[t]
    <3>1. m \in Mutexes /\ pc[t] = "lock" /\ mtx' = mtx /\ ret[t] = "none"
      BY <1>1, <2>9 DEF MutexLock, ControlInv, ControlOK, At, args, AwayPcs
    <3>2. CASE WillBlock(t, m)
      <4>1. UNCHANGED <<owner, count>> /\ owner[m] # t
        BY <2>9, <3>2 DEF MutexLock, WillBlock
      <4> QED
        BY <2>4, <3>1, <4>1 DEF InLock
    <3>3. CASE ~WillBlock(t, m)
      <4>1. /\ owner' = [owner EXCEPT ![m] = t]
            /\ count' = [count EXCEPT ![m] = count[m] + 1]
            /\ owner[m] \in {None, t}
            /\ Goto(t, "reallock") /\ ret' = ret
        BY <2>9, <3>3 DEF MutexLock, WillBlock
      <4>2. \A k \in Mutexes : ~InLock(t, k)
        BY <1>1, <3>1, <4>1 DEF InLock, TypeOK, Goto
      <4>3. Locking(t, m) /\ t # None
        BY <3>1, ThreadsAssumption DEF Locking, At
      <4> HIDE DEF m
      <4>4. ASSUME NEW k \in Mutexes, Kind[k] = "normal" PROVE Good(k)
        <5>1. CASE k = m
          <6>1. owner'[k] = t /\ count'[k] = count[k] + 1
            BY <1>1, <4>1, <5>1 DEF TypeOK
          <6>2. count[k] = 0
            BY <2>2, <2>3, <4>1, <4>3, <4>4, <5>1
          <6> QED
            BY <4>2, <6>1, <6>2
        <5>2. CASE k # m
          <6>1. owner'[k] = owner[k] /\ count'[k] = count[k]
            BY <1>1, <4>1, <5>2 DEF TypeOK
          <6> QED
            BY <2>1, <2>2, <2>3, <4>2, <4>4, <6>1
        <5> QED
          BY <5>1, <5>2
      <4> QED
        BY <2>0, <4>4
    <3> QED
      BY <3>2, <3>3
  <2>10. CASE Unlock(t) \/ CondWait(t)
    <3> DEFINE m == mtx[t]
    <3>1. m \in Mutexes /\ mtx' = mtx
      BY <2>10, ReleaseFacts DEF Unlock, CondWait, args
    <3>2. CASE UNCHANGED mutexVars
      <4>1. CASE owner[m] # t
        BY <2>4, <3>1, <3>2, <4>1 DEF InLock, mutexVars, virtual
      <4>2. CASE owner[m] = t
        <5>1. count[m] # 0 /\ \E B : MutexUnlock(m, B)
          BY <2>10, <4>2, ReleaseFacts
        <5>2. count'[m] # count[m]
          BY <1>1, <3>1, <5>1, MutexUnlockCases DEF TypeOK
        <5> QED
          BY <3>2, <5>2 DEF mutexVars, virtual
      <4> QED
        BY <4>1, <4>2
    <3>3. CASE ~UNCHANGED mutexVars
      <4>1. owner[m] = t /\ count[m] # 0
        BY <2>10, <3>3, ReleaseFacts
      <4>2. PICK B : MutexUnlock(m, B)
        BY <2>10, <3>3, ReleaseFacts
      <4>3. \A k \in Mutexes : InLock(t, k) => k = m
        BY <3>1 DEF InLock
      <4> HIDE DEF m
      <4>4. ASSUME NEW k \in Mutexes, Kind[k] = "normal" PROVE Good(k)
        <5>1. CASE k = m
          <6>1. count[m] = 1
            BY <2>2, <2>3, <3>1, <4>1, <4>4, <5>1
          <6>2. count'[m] = 0
            BY <1>1, <3>1, <4>2, <6>1, MutexUnlockCases DEF TypeOK
          <6> QED
            BY <5>1, <6>2
        <5>2. CASE k # m
          <6>1. owner'[k] = owner[k] /\ count'[k] = count[k]
            BY <1>1, <3>1, <4>2, <5>2, MutexUnlockCases DEF TypeOK
          <6> QED
            BY <2>1, <2>2, <2>3, <4>3, <4>4, <5>2, <6>1
        <5> QED
          BY <5>1, <5>2
      <4> QED
        BY <2>0, <4>4
    <3> QED
      BY <3>2, <3>3
  <2> QED
    BY <1>1, <1>4, <2>5, <2>6, <2>7, <2>8, <2>9, <2>10, MutexQuietStep
<1> QED
  BY <1>2, <1>3, <1>4 DEF Next

(***************************************************************************)
(* The theorems.                                                           *)
(***************************************************************************)
\* The inductive invariant holds in every reachable state of the scheduler.
THEOREM IndInvariant == Spec => []IndInv
<1>1. IndInv /\ [Next]_vars => IndInv'
  BY TypeStep, ControlStep, OneRunnerStep, WaitFlagStep, VirtualStep, RealStep, NormalStep
     DEF IndInv
<1> QED
  BY <1>1, InitInd, PTL DEF Spec

\* Every field keeps the type its Rust declaration gives it; no recursive_count
\* and no real lock depth is ever decremented below zero.
THEOREM TypeCorrect == Spec => []TypeOK
<1>1. IndInv => TypeOK
  BY DEF IndInv
<1> QED
  BY <1>1, IndInvariant, PTL

\* context_switch, drain_pending_child and do_thread_exit never let two registered
\* threads run at the same time.
THEOREM OneRunnerHolds == Spec => []OneRunner
<1>1. IndInv => OneRunner
  BY DEF IndInv
<1> QED
  BY <1>1, IndInvariant, PTL

\* The signal of wake() and of do_thread_exit() goes to a thread that waits for it.
THEOREM NoLostWakeupHolds == Spec => []NoLostWakeup
<1>1. IndInv => NoLostWakeup
  <2> SUFFICES ASSUME IndInv, NEW t \in threads, pc[t] \in {"switch", "user"},
                      NEW n \in Choosable(threads \ {t}, is_blocking, startup_done)
               PROVE  pc[n] = "wait"
    BY DEF NoLostWakeup
  <2>1. n \in threads /\ n # t /\ is_in_rsched_wait[n]
    BY DEF Choosable
  <2>2. t \in Threads /\ n \in Threads
    BY <2>1 DEF IndInv, TypeOK
  <2>3. pc[n] \in {"wait", "woken"}
    BY <2>1, <2>2 DEF IndInv, WaitFlagInv
  <2>4. pc[n] # "woken"
    BY <2>1 DEF IndInv, OneRunner, Running, RunPcs
  <2> QED
    BY <2>3, <2>4
<1> QED
  BY <1>1, IndInvariant, PTL

\* The scheduler never gives away a mutex that is really held: the real holder is
\* the virtual owner, at no greater depth.
THEOREM RealImpliesVirtualHolds == Spec => []RealImpliesVirtual
<1>1. IndInv => RealImpliesVirtual
  BY DEF IndInv, RealInv, RealImpliesVirtual
<1> QED
  BY <1>1, IndInvariant, PTL

\* The real pthread_mutex_lock that is called with GMTX held never has to wait.
THEOREM GmtxNeverStuckHolds == Spec => []GmtxNeverStuck
<1>1. IndInv => GmtxNeverStuck
  <2> SUFFICES ASSUME IndInv, NEW t \in Threads, pc[t] = "reallock"
               PROVE  RealFree(t, mtx[t]) \/ RealRefuses(t, mtx[t])
    BY DEF GmtxNeverStuck
  <2>1. mtx[t] \in Mutexes
    BY DEF IndInv, ControlInv, ControlOK, At
  <2>2. owner[mtx[t]] = t /\ rcount[mtx[t]] < count[mtx[t]]
    BY DEF IndInv, RealInv
  <2>3. rowner[mtx[t]] \in {None, t}
    BY <2>1, <2>2 DEF IndInv, RealInv
  <2>4. CASE Kind[mtx[t]] = "normal"
    <3>1. count[mtx[t]] <= 1 /\ count[mtx[t]] \in Nat /\ rcount[mtx[t]] \in Nat
      BY <2>1, <2>4 DEF IndInv, NormalInv, TypeOK
    <3>2. rcount[mtx[t]] = 0
      BY <2>2, <3>1
    <3> QED
      BY <2>1, <3>2 DEF IndInv, RealInv, RealFree
  <2>5. CASE Kind[mtx[t]] # "normal"
    BY <2>1, <2>3, <2>5, SyncAssumption DEF RealFree, RealRefuses, Kinds
  <2> QED
    BY <2>4, <2>5
<1> QED
  BY <1>1, IndInvariant, PTL

=============================================================================
