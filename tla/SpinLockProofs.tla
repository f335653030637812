--------------------------- MODULE SpinLockProofs ---------------------------
(***************************************************************************)
(* SpinLock proved for any set of threads and any number of spins: the     *)
(* inductive invariant, its parts, and the refinement of Mutex.            *)
(***************************************************************************)
EXTENDS SpinLock, FiniteSetTheorems, TLAPS

-----------------------------------------------------------------------------
(* The kernel                                                              *)

\* A wake picks sleepers only, and at least one if there is any: a thread in
\* the queue is never passed over by a wake that finds the queue non-empty.
LEMMA WakeableFacts ==
  ASSUME NEW Q, NEW n \in Nat, NEW W \in Wakeable(Q, n)
  PROVE  /\ W \subseteq Q
         /\ Q # {} => W # {}
<1>1. W \subseteq Q
  BY DEF Wakeable
<1>2. ASSUME Q # {}, W = {} PROVE FALSE
  <2>1. Cardinality(W) = WakeLimit(n)
    BY <1>2 DEF Wakeable
  <2>2. Cardinality({}) = 0
    BY FS_EmptySet
  <2>3. WakeLimit(n) # 0
    BY DEF WakeLimit
  <2> QED
    BY <1>2, <2>1, <2>2, <2>3
<1> QED
  BY <1>1, <1>2

-----------------------------------------------------------------------------
(* The invariant                                                           *)

\* The invariant holds before the first lock.
LEMMA InitIInv == Init => IInv
<1> SUFFICES ASSUME Init PROVE IInv
  OBVIOUS
<1> USE DEF Init, LockState, Locations, InLock
<1>1. TypeOK
  <2>1. 0 \in 0..SpinLimit
    BY SpinLimitAssumption
  <2> QED
    BY <2>1 DEF TypeOK
<1>2. MutualExclusion /\ LockedIffHeld
  BY DEF MutualExclusion, LockedIffHeld, Holds
<1>3. NoLostWakeup /\ InsideThisLife
  BY DEF NoLostWakeup, InsideThisLife
<1> QED
  BY <1>1, <1>2, <1>3 DEF IInv

\* Every step of pthread_spinlock.c preserves the invariant.
LEMMA StepIInv == IInv /\ [Next]_vars => IInv'
<1> SUFFICES ASSUME IInv, [Next]_vars PROVE IInv'
  OBVIOUS
<1> USE DEF IInv, LockState, Locations, InLock, Goto, Return, Holds,
            SpinsLeft, Acquired, AfterWait, WaitFlavour, AfterUnlock, MustWake
<1>1. ASSUME NEW t \in Threads, SpinInit(t) PROVE IInv'
  <2> USE <1>1 DEF SpinInit, LockInit
  <2>1. TypeOK'
    BY DEF TypeOK
  <2>2. MutualExclusion' /\ LockedIffHeld'
    BY DEF TypeOK, MutualExclusion, LockedIffHeld, InsideThisLife
  <2>3. NoLostWakeup'
    BY DEF TypeOK, NoLostWakeup, WakePending, InsideThisLife
  <2>4. InsideThisLife'
    BY DEF TypeOK, InsideThisLife
  <2> QED
    BY <2>1, <2>2, <2>3, <2>4
<1>2. ASSUME NEW t \in Threads, SpinDestroy(t) PROVE IInv'
  <2> USE <1>2 DEF SpinDestroy, TryLockSucceeds, TryLockFails
  <2>1. TypeOK'
    BY DEF TypeOK
  <2>2. MutualExclusion' /\ LockedIffHeld'
    BY DEF TypeOK, MutualExclusion, LockedIffHeld, InsideThisLife
  <2>3. NoLostWakeup'
    BY DEF TypeOK, NoLostWakeup, WakePending, InsideThisLife
  <2>4. InsideThisLife'
    BY DEF TypeOK, InsideThisLife, LockedIffHeld
  <2> QED
    BY <2>1, <2>2, <2>3, <2>4
<1>3. ASSUME NEW t \in Threads, SpinTryLock(t) PROVE IInv'
  <2> USE <1>3 DEF SpinTryLock, TryLockSucceeds, TryLockFails
  <2>1. TypeOK'
    BY DEF TypeOK
  <2>2. MutualExclusion' /\ LockedIffHeld'
    BY DEF TypeOK, MutualExclusion, LockedIffHeld, InsideThisLife
  <2>3. NoLostWakeup'
    BY DEF TypeOK, NoLostWakeup, WakePending, InsideThisLife
  <2>4. InsideThisLife'
    BY DEF TypeOK, InsideThisLife
  <2> QED
    BY <2>1, <2>2, <2>3, <2>4
<1>4. ASSUME NEW t \in Threads, SpinLockCall(t) PROVE IInv'
  <2> USE <1>4 DEF SpinLockCall
  <2>1. TypeOK'
    BY SpinLimitAssumption DEF TypeOK
  <2>2. MutualExclusion' /\ LockedIffHeld'
    BY DEF TypeOK, MutualExclusion, LockedIffHeld, InsideThisLife
  <2>3. NoLostWakeup'
    BY DEF TypeOK, NoLostWakeup, WakePending, InsideThisLife
  <2>4. InsideThisLife'
    BY DEF TypeOK, InsideThisLife
  <2> QED
    BY <2>1, <2>2, <2>3, <2>4
<1>5. ASSUME NEW t \in Threads, Spin(t) PROVE IInv'
  <2> USE <1>5 DEF Spin, TryLockSucceeds, TryLockFails
  <2>1. TypeOK'
    BY SpinLimitAssumption DEF TypeOK
  <2>2. MutualExclusion' /\ LockedIffHeld'
    BY DEF TypeOK, MutualExclusion, LockedIffHeld, InsideThisLife
  <2>3. NoLostWakeup'
    BY DEF TypeOK, NoLostWakeup, WakePending, InsideThisLife
  <2>4. InsideThisLife'
    BY DEF TypeOK, InsideThisLife
  <2> QED
    BY <2>1, <2>2, <2>3, <2>4
<1>6. ASSUME NEW t \in Threads, LockFast(t) PROVE IInv'
  <2> USE <1>6 DEF LockFast, TryLockSucceeds, TryLockFails
  <2>1. TypeOK'
    BY DEF TypeOK
  <2>2. MutualExclusion' /\ LockedIffHeld'
    BY DEF TypeOK, MutualExclusion, LockedIffHeld, InsideThisLife
  <2>3. NoLostWakeup'
    BY DEF TypeOK, NoLostWakeup, WakePending, InsideThisLife
  <2>4. InsideThisLife'
    BY DEF TypeOK, InsideThisLife
  <2> QED
    BY <2>1, <2>2, <2>3, <2>4
<1>7. ASSUME NEW t \in Threads, LockExchange(t) PROVE IInv'
  <2> USE <1>7 DEF LockExchange
  <2>1. TypeOK'
    BY DEF TypeOK
  <2>2. MutualExclusion' /\ LockedIffHeld'
    BY DEF TypeOK, MutualExclusion, LockedIffHeld, InsideThisLife
  <2>3. NoLostWakeup'
    BY DEF TypeOK, NoLostWakeup, WakePending, InsideThisLife
  <2>4. InsideThisLife'
    BY DEF TypeOK, InsideThisLife
  <2> QED
    BY <2>1, <2>2, <2>3, <2>4
<1>8. ASSUME NEW t \in Threads, FutexWait(t) PROVE IInv'
  <2> USE <1>8 DEF FutexWait
  <2>1. TypeOK'
    BY DEF TypeOK
  <2>2. MutualExclusion' /\ LockedIffHeld'
    BY DEF TypeOK, MutualExclusion, LockedIffHeld, InsideThisLife
  <2>3. NoLostWakeup'
    BY DEF TypeOK, NoLostWakeup, WakePending, InsideThisLife
  <2>4. InsideThisLife'
    BY DEF TypeOK, InsideThisLife
  <2> QED
    BY <2>1, <2>2, <2>3, <2>4
<1>9. ASSUME NEW t \in Threads, Interrupt(t) PROVE IInv'
  <2> USE <1>9 DEF Interrupt
  <2>1. TypeOK'
    BY DEF TypeOK
  <2>2. MutualExclusion' /\ LockedIffHeld'
    BY DEF TypeOK, MutualExclusion, LockedIffHeld, InsideThisLife
  <2>3. NoLostWakeup'
    BY DEF TypeOK, NoLostWakeup, WakePending, InsideThisLife
  <2>4. InsideThisLife'
    BY DEF TypeOK, InsideThisLife
  <2> QED
    BY <2>1, <2>2, <2>3, <2>4
<1>10. ASSUME NEW t \in Threads, Unlock(t) PROVE IInv'
  <2> USE <1>10 DEF Unlock
  <2>1. TypeOK'
    BY DEF TypeOK
  <2>2. MutualExclusion' /\ LockedIffHeld'
    BY DEF TypeOK, MutualExclusion, LockedIffHeld, InsideThisLife
  <2>3. NoLostWakeup'
    BY DEF TypeOK, NoLostWakeup, WakePending, InsideThisLife
  <2>4. InsideThisLife'
    BY DEF TypeOK, InsideThisLife
  <2> QED
    BY <2>1, <2>2, <2>3, <2>4
<1>11. ASSUME NEW t \in Threads, UnlockWake(t) PROVE IInv'
  <2> USE <1>11 DEF UnlockWake, Sleepers
  <2>1. TypeOK'
    BY WakeableFacts DEF TypeOK
  <2>2. MutualExclusion' /\ LockedIffHeld'
    BY WakeableFacts DEF TypeOK, MutualExclusion, LockedIffHeld, InsideThisLife
  <2>3. NoLostWakeup'
    BY WakeableFacts DEF TypeOK, NoLostWakeup, WakePending, InsideThisLife
  <2>4. InsideThisLife'
    BY WakeableFacts DEF TypeOK, InsideThisLife
  <2> QED
    BY <2>1, <2>2, <2>3, <2>4
<1>12. CASE UNCHANGED vars
  BY <1>12 DEF vars, TypeOK, MutualExclusion, LockedIffHeld, NoLostWakeup,
               WakePending, InsideThisLife
<1> QED
  BY <1>1, <1>2, <1>3, <1>4, <1>5, <1>6, <1>7, <1>8, <1>9, <1>10, <1>11,
     <1>12 DEF Next, Progress, Environment

\* The invariant holds of every behaviour of the lock.
THEOREM SpinLockInvariant == Spec => []IInv
BY InitIInv, StepIInv, PTL DEF Spec

\* Every variable keeps its type.
THEOREM SpinLockTypes == Spec => []TypeOK
BY SpinLockInvariant, PTL DEF IInv

\* No two threads are ever between a successful lock or trylock and the unlock.
THEOREM SpinLockExcludes == Spec => []MutualExclusion
BY SpinLockInvariant, PTL DEF IInv

\* A sleeping thread always has a wake coming.
THEOREM SpinLockWakes == Spec => []NoLostWakeup
BY SpinLockInvariant, PTL DEF IInv

\* The word says Unlocked exactly when nobody holds the lock.
THEOREM SpinLockTellsTheTruth == Spec => []LockedIffHeld
BY SpinLockInvariant, PTL DEF IInv

\* No thread waits at, or sleeps in the queue of, a lock that has been destroyed.
THEOREM SpinLockStaysInItsLife == Spec => []InsideThisLife
BY SpinLockInvariant, PTL DEF IInv

-----------------------------------------------------------------------------
(* The lock implements Mutex                                               *)

Holders == {t \in Threads : Holds(t)}
Contenders == {t \in Threads : pc[t] \in InLock}

\* The refinement begins without a lock.
LEMMA InitRefines == Init => Abstract!Init
BY DEF Init, Abstract!Init, Holds, InLock

\* Each step of the lock is a step of the mutex or changes nothing it shows:
\* a spin, a lost exchange, a sleep, a wake.
LEMMA StepRefines ==
  IInv /\ [Next]_vars => [Abstract!Next]_(Abstract!absVars)
<1> SUFFICES ASSUME IInv, [Next]_vars
             PROVE  [Abstract!Next]_(Abstract!absVars)
  OBVIOUS
<1> USE DEF IInv, LockState, Locations, InLock, Goto, Return, Holds,
            SpinsLeft, Acquired, AfterWait, WaitFlavour, AfterUnlock, MustWake
<1> DEFINE Stutters == UNCHANGED <<alive, Holders, Contenders, ret>>
<1>st. Stutters => UNCHANGED Abstract!absVars
  BY DEF Abstract!absVars, Holders, Contenders
<1>1. ASSUME NEW t \in Threads, SpinInit(t) PROVE Abstract!Create(t)
  BY <1>1 DEF SpinInit, LockInit, Abstract!Create, InsideThisLife
<1>2. ASSUME NEW t \in Threads, SpinDestroy(t)
      PROVE  Abstract!Destroy(t) \/ Abstract!Refuse(t)
  BY <1>2 DEF SpinDestroy, TryLockSucceeds, TryLockFails, LockedIffHeld,
              Abstract!Destroy, Abstract!Refuse
<1>3. ASSUME NEW t \in Threads, SpinTryLock(t)
      PROVE  Abstract!TryAcquire(t) \/ Abstract!Refuse(t)
  BY <1>3 DEF SpinTryLock, TryLockSucceeds, TryLockFails, LockedIffHeld,
              TypeOK, Abstract!TryAcquire, Abstract!Refuse
<1>4. ASSUME NEW t \in Threads, SpinLockCall(t) PROVE Abstract!Request(t)
  BY <1>4 DEF SpinLockCall, TypeOK, Abstract!Request
<1>5. ASSUME NEW t \in Threads, Spin(t)
      PROVE  Abstract!Acquire(t) \/ Stutters
  BY <1>5 DEF Spin, TryLockSucceeds, TryLockFails, LockedIffHeld, TypeOK,
              InsideThisLife, Abstract!Acquire, Holders, Contenders
<1>6. ASSUME NEW t \in Threads, LockFast(t)
      PROVE  Abstract!Acquire(t) \/ Stutters
  BY <1>6 DEF LockFast, TryLockSucceeds, TryLockFails, LockedIffHeld, TypeOK,
              InsideThisLife, Abstract!Acquire, Holders, Contenders
<1>7. ASSUME NEW t \in Threads, LockExchange(t)
      PROVE  Abstract!Acquire(t) \/ Stutters
  BY <1>7 DEF LockExchange, LockedIffHeld, TypeOK, InsideThisLife,
              Abstract!Acquire, Holders, Contenders
<1>8. ASSUME NEW t \in Threads, FutexWait(t) PROVE Stutters
  BY <1>8 DEF FutexWait, TypeOK, Holders, Contenders
<1>9. ASSUME NEW t \in Threads, Interrupt(t) PROVE Stutters
  BY <1>9 DEF Interrupt, TypeOK, Holders, Contenders
<1>10. ASSUME NEW t \in Threads, Unlock(t) PROVE Abstract!Release(t)
  BY <1>10 DEF Unlock, MutualExclusion, InsideThisLife, TypeOK,
               Abstract!Release
<1>11. ASSUME NEW t \in Threads, UnlockWake(t) PROVE Stutters
  BY <1>11, WakeableFacts DEF UnlockWake, Sleepers, TypeOK, Holders, Contenders
<1>12. CASE UNCHANGED vars
  BY <1>12, <1>st DEF vars, Holders, Contenders
<1> QED
  BY <1>1, <1>2, <1>3, <1>4, <1>5, <1>6, <1>7, <1>8, <1>9, <1>10, <1>11,
     <1>12, <1>st DEF Next, Progress, Environment, Abstract!Next

\* The futex lock implements the abstract mutex, for every set of threads: a
\* call answers EBUSY only while the lock is held, a thread gets the lock only
\* when it is free, and a lock is destroyed only when nobody is inside.
THEOREM SpinLockImplementsMutex == Spec => ImplementsMutex
BY InitRefines, StepRefines, SpinLockInvariant, PTL
   DEF Spec, ImplementsMutex, Abstract!Spec

=============================================================================
