-------------------------- MODULE RschedMutexProofs --------------------------
(***************************************************************************)
(* Proofs about the two halves of a mutex: for a mutex that is not         *)
(* error-checking the virtual lock count and the real one agree, so that a *)
(* thread waits only for a mutex somebody really holds.                    *)
(***************************************************************************)
EXTENDS RschedProofs, RschedInvariants

USE DEF vars, threadVars, flags, args, child, lifeVars,
        syncVars, mutexVars, virtual, real, barrierVars

\* At first no mutex has an owner.
LEMMA InitCount == Init => CountInv
BY DEF Init, CountInv

\* The condition of CountInv for one mutex.
CountsAgree(m) ==
    owner[m] # None => count[m] = IF Acquiring(owner[m], m) THEN rcount[m] + 1 ELSE rcount[m]

\* A thread in mutex_lock's loop has not called the real lock yet.
LEMMA LockingNotAcquiring ==
  ASSUME ControlInv, NEW t \in Threads, NEW m \in Mutexes, Locking(t, m), NEW k
  PROVE  ~Acquiring(t, k)
BY DEF ControlInv, ControlOK, Locking, At, AwayPcs, Acquiring

\* State::mutex_lock, the real lock, State::mutex_unlock and the real unlock move
\* the two counts of a mutex together.
LEMMA CountStep == IndInv /\ CountInv /\ [Next]_vars => CountInv'
<1> SUFFICES ASSUME IndInv, CountInv, [Next]_vars,
                    NEW m \in Mutexes, Kind[m] # "errorcheck"
             PROVE  CountsAgree(m)'
  BY DEF CountInv, CountsAgree
<1>1. TypeOK /\ ControlInv /\ VirtualInv /\ RealInv
  BY DEF IndInv
<1>2. CountsAgree(m)
  BY DEF CountInv, CountsAgree
<1>3. CASE UNCHANGED vars
  BY <1>2, <1>3 DEF CountsAgree, Acquiring
<1>4. CASE Reinit
  BY <1>4 DEF Reinit, FreshState, CountsAgree
<1>5. ASSUME NEW t \in Threads, Internal(t) \/ UserCall(t) PROVE CountsAgree(m)'
  <2>1. Frame(t)
    BY <1>1, <1>5, FrameStep
  <2>2. owner[m] # None => owner[m] \in Threads
    BY <1>1 DEF TypeOK
  <2>3. \A u \in Threads \ {t} : Acquiring(u, m)' <=> Acquiring(u, m)
    BY <2>1, LockingOthers DEF Acquiring
  <2>4. ASSUME owner'[m] = owner[m], count'[m] = count[m], rcount'[m] = rcount[m],
               Acquiring(t, m)' <=> Acquiring(t, m)
        PROVE  CountsAgree(m)'
    <3>1. owner[m] # None => (pc'[owner[m]] = "reallock" /\ mtx'[owner[m]] = m
                                <=> Acquiring(owner[m], m))
      BY <2>2, <2>3, <2>4 DEF Acquiring
    <3> QED
      BY <1>2, <2>4, <3>1 DEF CountsAgree, Acquiring
  <2>5. CASE MutexQuiet(t)
    <3>1. Acquiring(t, m)' <=> Acquiring(t, m)
      BY <2>5 DEF MutexQuiet, Acquiring
    <3> QED
      BY <2>4, <2>5, <3>1 DEF MutexQuiet
  <2>6. ASSUME NEW k \in Mutexes, CallLock(t, k) PROVE CountsAgree(m)'
    <3>1. UNCHANGED mutexVars /\ pc[t] # "reallock" /\ pc'[t] # "reallock"
      BY <1>1, <2>6 DEF CallLock, EnterMutexOp, MayCall, Goto, CallContextSwitch, CallDrain, TypeOK
    <3> QED
      BY <2>4, <3>1 DEF Acquiring
  <2>7. CASE Trylock(t)
    <3>1. UNCHANGED mutexVars /\ pc[t] # "reallock" /\ pc'[t] # "reallock"
      BY <1>1, <2>7 DEF Trylock, Goto, TypeOK
    <3> QED
      BY <2>4, <3>1 DEF Acquiring
  <2>8. CASE MutexLock(t)
    <3>1. pc[t] = "lock" /\ mtx[t] \in Mutexes /\ mtx' = mtx /\ rcount' = rcount
      BY <1>1, <2>8 DEF MutexLock, ControlInv, ControlOK, At
    <3>2. CASE WillBlock(t, mtx[t])
      <4>1. owner' = owner /\ count' = count /\ pc'[t] = "drain"
        BY <1>1, <2>8, <3>2 DEF MutexLock, CallContextSwitch, CallDrain, Goto, TypeOK
      <4> QED
        BY <2>4, <3>1, <4>1 DEF Acquiring
    <3>3. CASE ~WillBlock(t, mtx[t])
      <4>1. /\ owner' = [owner EXCEPT ![mtx[t]] = t]
            /\ count' = [count EXCEPT ![mtx[t]] = count[mtx[t]] + 1]
            /\ pc'[t] = "reallock"
            /\ owner[mtx[t]] \in {None, t}
        BY <1>1, <2>8, <3>3 DEF MutexLock, Goto, TypeOK, WillBlock
      <4>2. CASE m # mtx[t]
        BY <1>1, <2>4, <3>1, <4>1, <4>2 DEF Acquiring, TypeOK
      <4>3. CASE m = mtx[t]
        <5>1. owner'[m] = t /\ count'[m] = count[m] + 1 /\ Acquiring(t, m)'
          BY <1>1, <3>1, <4>1, <4>3 DEF Acquiring, TypeOK
        <5>2. count[m] = rcount[m]
          <6>1. CASE owner[m] = None
            <7>1. count[m] = 0 /\ rcount[m] <= count[m] /\ rcount[m] \in Nat
              BY <1>1, <6>1 DEF VirtualInv, RealInv, TypeOK
            <7> QED
              BY <7>1
          <6>2. CASE owner[m] = t
            BY <1>2, <3>1, <6>2, ThreadsAssumption DEF CountsAgree, Acquiring
          <6> QED
            BY <4>1, <4>3, <6>1, <6>2
        <5> QED
          BY <3>1, <5>1, <5>2 DEF CountsAgree, Acquiring
      <4> QED
        BY <4>2, <4>3
    <3> QED
      BY <3>2, <3>3
  <2>9. CASE RealLock(t)
    <3>1. /\ pc[t] = "reallock" /\ pc'[t] # "reallock" /\ mtx[t] \in Mutexes
          /\ owner' = owner /\ count' = count /\ mtx' = mtx
      BY <1>1, <2>9 DEF RealLock, Goto, TypeOK, ControlInv, ControlOK, At
    <3>2. CASE m # mtx[t]
      <4>1. rcount'[m] = rcount[m]
        BY <1>1, <2>9, <3>2 DEF RealLock, TypeOK
      <4> QED
        BY <2>4, <3>1, <3>2, <4>1 DEF Acquiring
    <3>3. CASE m = mtx[t]
      <4>1. rcount'[m] = rcount[m] + 1
        BY <1>1, <2>9, <3>1, <3>3 DEF RealLock, RealRefuses, TypeOK
      <4>2. owner[m] = t /\ Acquiring(t, m)
        BY <1>1, <3>1, <3>3 DEF RealInv, Acquiring
      <4>3. count[m] = rcount[m] + 1
        BY <1>2, <4>2, ThreadsAssumption DEF CountsAgree
      <4> QED
        BY <3>1, <4>1, <4>2, <4>3 DEF CountsAgree, Acquiring
    <3> QED
      BY <3>2, <3>3
  <2>10. CASE Unlock(t) \/ CondWait(t)
    <3>1. mtx[t] \in Mutexes /\ pc[t] \in {"unlock", "cwait"} /\ mtx' = mtx
      BY <2>10, ReleaseFacts DEF Unlock, CondWait
    <3>2. pc'[t] # "reallock"
      BY <1>1, <2>10 DEF Unlock, CondWait, Goto, CallContextSwitch, CallDrain, TypeOK
    <3>3. ~Acquiring(t, m) /\ ~Acquiring(t, m)'
      BY <3>1, <3>2 DEF Acquiring
    <3>4. CASE UNCHANGED mutexVars
      BY <2>4, <3>3, <3>4
    <3>5. CASE ~UNCHANGED mutexVars
      <4>1. /\ owner[mtx[t]] = t /\ count[mtx[t]] # 0
            /\ IF rowner[mtx[t]] = t THEN RealUnlock(mtx[t]) ELSE UNCHANGED real
        BY <2>10, <3>5, ReleaseFacts
      <4>2. PICK B : MutexUnlock(mtx[t], B)
        BY <2>10, <3>5, ReleaseFacts
      <4>3. CASE m # mtx[t]
        <5>1. owner'[m] = owner[m] /\ count'[m] = count[m]
          BY <1>1, <3>1, <4>2, <4>3, MutexUnlockCases DEF TypeOK
        <5>2. rcount'[m] = rcount[m]
          BY <1>1, <4>1, <4>3 DEF RealUnlock, TypeOK
        <5> QED
          BY <2>4, <3>3, <5>1, <5>2
      <4>4. CASE m = mtx[t]
        <5>1. count[m] = rcount[m]
          BY <1>2, <3>3, <4>1, <4>4, ThreadsAssumption DEF CountsAgree
        <5>2. rowner[m] = t
          BY <1>1, <4>1, <4>4, <5>1 DEF RealInv
        <5>3. rcount'[m] = rcount[m] - 1
          BY <1>1, <4>1, <4>4, <5>2 DEF RealUnlock, TypeOK
        <5>4. count'[m] = count[m] - 1
          BY <1>1, <3>1, <4>2, <4>4, MutexUnlockCases DEF TypeOK
        <5>5. owner'[m] = t \/ owner'[m] = None \/ owner'[m] \in mwaiters[m]
          BY <1>1, <3>1, <4>1, <4>2, <4>4, MutexUnlockCases DEF TypeOK
        <5>6. ASSUME NEW w \in mwaiters[m] PROVE w \in Threads \ {t} /\ ~Acquiring(w, m)
          BY <1>1, <4>1, <4>4, LockingNotAcquiring DEF VirtualInv, TypeOK
        <5>7. owner'[m] # None => pc'[owner'[m]] # "reallock" \/ mtx'[owner'[m]] # m
          <6>1. CASE owner'[m] = t
            BY <3>2, <6>1
          <6>2. CASE owner'[m] \in mwaiters[m]
            <7> DEFINE w == owner'[m]
            <7>1. w \in Threads \ {t} /\ ~Acquiring(w, m)
              BY <5>6, <6>2
            <7> HIDE DEF w
            <7>2. ~(pc'[w] = "reallock" /\ mtx'[w] = m)
              BY <2>3, <7>1 DEF Acquiring
            <7> QED
              BY <7>2 DEF w
          <6> QED
            BY <5>5, <6>1, <6>2
        <5> QED
          BY <5>1, <5>3, <5>4, <5>7 DEF CountsAgree, Acquiring
      <4> QED
        BY <4>3, <4>4
    <3> QED
      BY <3>4, <3>5
  <2> QED
    BY <1>1, <1>5, <2>5, <2>6, <2>7, <2>8, <2>9, <2>10, MutexQuietStep
<1> QED
  BY <1>3, <1>4, <1>5 DEF Next

\* The virtual and the real lock count of every mutex that is not error-checking
\* agree, but for the moment between State::mutex_lock and the real lock.
THEOREM CountsAgreeHolds == Spec => []CountInv
BY InitCount, CountStep, IndInvariant, PTL DEF Spec

\* Without error-checking mutexes a thread only waits for a mutex that its owner
\* really holds, or is about to take or release (the comment in mutex_lock that
\* "this wait is always eventually resolved").
THEOREM WaitersHaveRealHolderHolds ==
  (\A m \in Mutexes : Kind[m] # "errorcheck") => (Spec => []WaitersHaveRealHolder)
<1> SUFFICES ASSUME \A m \in Mutexes : Kind[m] # "errorcheck"
             PROVE  Spec => []WaitersHaveRealHolder
  OBVIOUS
<1>1. IndInv /\ CountInv => WaitersHaveRealHolder
  <2> SUFFICES ASSUME IndInv, CountInv, NEW m \in Mutexes, mwaiters[m] # {}
               PROVE  rowner[m] = owner[m] \/ mtx[owner[m]] = m
    BY DEF WaitersHaveRealHolder
  <2>1. owner[m] # None
    BY DEF IndInv, VirtualInv
  <2>2. CASE Acquiring(owner[m], m)
    BY <2>2 DEF Acquiring
  <2>3. CASE ~Acquiring(owner[m], m) /\ count[m] = 0
    BY <2>1, <2>3 DEF IndInv, VirtualInv, Locking
  <2>4. CASE ~Acquiring(owner[m], m) /\ count[m] # 0
    BY <2>1, <2>4 DEF IndInv, RealInv, CountInv
  <2> QED
    BY <2>2, <2>3, <2>4
<1> QED
  BY <1>1, IndInvariant, CountsAgreeHolds, PTL

=============================================================================
