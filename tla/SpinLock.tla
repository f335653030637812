------------------------------ MODULE SpinLock ------------------------------
(***************************************************************************)
(* libc-extra/src/pthread_spinlock.c: a three-state futex lock behind the  *)
(* pthread_spin_* functions.                                               *)
(*                                                                         *)
(* Every access to Lock.state is one atomic operation and one step here.   *)
(* Lock.process_shared is written by pthread_spin_init only, so reading it *)
(* is folded into the step that uses it.  The memory model is sequentially *)
(* consistent: one atomic word carries the whole protocol.                 *)
(*                                                                         *)
(* The lock is initialised, used, destroyed and may be initialised again   *)
(* with the other flavour, while an unlocker of the previous life still    *)
(* has its wake call ahead of it (the case of the comment at line 90).     *)
(***************************************************************************)
EXTENDS Futex

CONSTANTS Threads,
          SpinLimit    \* trylocks before pthread_spin_lock sleeps (10000)

ASSUME SpinLimitAssumption == SpinLimit \in Nat \ {0}

VARIABLES alive,           \* initialised and not destroyed (a fact of the caller)
          state,           \* Lock.state
          process_shared,  \* Lock.process_shared
          pc,              \* where each thread is
          spins,           \* pthread_spin_lock's loop counter i
          shared,          \* the flavour each thread passed, or will pass, to futex
          ret              \* the last return value each thread got

vars == <<alive, state, process_shared, pc, spins, shared, ret>>

LockState == {"Unlocked", "LockedWithoutWaiter", "LockedWithWaiter"}

(***************************************************************************)
(* "idle" outside; "spin" in the trylock loop; "fast" at the first compare *)
(* and exchange of Lock_lock; "xchg" at its exchange; "wait" calling       *)
(* futex wait; "asleep" in the kernel; "cs" holding the lock; "wake" in    *)
(* Lock_unlock with the wake call still to do.                             *)
(***************************************************************************)
InLock == {"spin", "fast", "xchg", "wait", "asleep"}
Locations == InLock \cup {"idle", "cs", "wake"}

Sleepers(flavour) ==
  {t \in Threads : pc[t] = "asleep" /\ shared[t] = flavour}

Init ==
  /\ alive = FALSE
  /\ state \in LockState
  /\ process_shared \in BOOLEAN
  /\ pc = [t \in Threads |-> "idle"]
  /\ spins = [t \in Threads |-> 0]
  /\ shared = [t \in Threads |-> FALSE]
  /\ ret = [t \in Threads |-> "0"]

Goto(t, l) == pc' = [pc EXCEPT ![t] = l]
Return(t, r) == ret' = [ret EXCEPT ![t] = r]

-----------------------------------------------------------------------------
(* pthread_spin_init                                                       *)

\* Lock_init
LockInit ==
  /\ state' = "Unlocked"
  /\ process_shared' \in BOOLEAN

SpinInit(t) ==
  /\ pc[t] = "idle"
  /\ ~alive
  /\ alive' = TRUE
  /\ LockInit
  /\ Return(t, "0")
  /\ UNCHANGED <<pc, spins, shared>>

(***************************************************************************)
(* Lock_trylock, shared by three of the functions below.                   *)
(***************************************************************************)
TryLockSucceeds ==
  /\ state = "Unlocked"
  /\ state' = "LockedWithoutWaiter"

\* With the weak compare and exchange a trylock could fail on a free lock.
TryLockFailsWeakly == UNCHANGED state

TryLockFails ==
  /\ state # "Unlocked"
  /\ UNCHANGED state

(***************************************************************************)
(* pthread_spin_destroy is a trylock that keeps the lock.  The caller must *)
(* know that no other thread is inside pthread_spin_lock or will be; an    *)
(* unlocker that has already let the lock go may still owe its wake.       *)
(***************************************************************************)
SpinDestroy(t) ==
  /\ pc[t] \in {"idle", "cs"}
  /\ alive
  /\ \A u \in Threads : pc[u] \notin InLock
  /\ \/ TryLockSucceeds /\ alive' = FALSE /\ Return(t, "0")
     \/ TryLockFails /\ UNCHANGED alive /\ Return(t, "EBUSY")
  /\ UNCHANGED <<process_shared, pc, spins, shared>>

(* pthread_spin_trylock; a holder may call it too                          *)
SpinTryLock(t) ==
  /\ pc[t] \in {"idle", "cs"}
  /\ alive
  /\ \/ TryLockSucceeds /\ Goto(t, "cs") /\ Return(t, "0")
     \/ TryLockFails /\ UNCHANGED pc /\ Return(t, "EBUSY")
  /\ UNCHANGED <<alive, process_shared, spins, shared>>

-----------------------------------------------------------------------------
(* pthread_spin_lock                                                       *)

SpinsLeftInclusive(i) == i <= SpinLimit

SpinsLeft(i) == i < SpinLimit

SpinLockCall(t) ==
  /\ pc[t] = "idle"
  /\ alive
  /\ Goto(t, "spin")
  /\ spins' = [spins EXCEPT ![t] = 0]
  /\ UNCHANGED <<alive, state, process_shared, shared, ret>>

Spin(t) ==
  /\ pc[t] = "spin"
  /\ \/ /\ TryLockSucceeds
        /\ Goto(t, "cs")
        /\ Return(t, "0")
        /\ UNCHANGED spins
     \/ /\ TryLockFails
        /\ spins' = [spins EXCEPT ![t] = @ + 1]
        /\ Goto(t, IF SpinsLeft(spins[t] + 1) THEN "spin" ELSE "fast")
        /\ UNCHANGED ret
  /\ UNCHANGED <<alive, process_shared, shared>>

(* Lock_lock                                                               *)
LockFast(t) ==
  /\ pc[t] = "fast"
  /\ \/ TryLockSucceeds /\ Goto(t, "cs") /\ Return(t, "0")
     \/ TryLockFails /\ Goto(t, "xchg") /\ UNCHANGED ret
  /\ UNCHANGED <<alive, process_shared, spins, shared>>

AcquiredUnlessWaiters(old) == old # "LockedWithWaiter"

Acquired(old) == old = "Unlocked"

LockExchange(t) ==
  /\ pc[t] = "xchg"
  /\ state' = "LockedWithWaiter"
  /\ IF Acquired(state)
       THEN Goto(t, "cs") /\ Return(t, "0")
       ELSE Goto(t, "wait") /\ UNCHANGED ret
  /\ UNCHANGED <<alive, process_shared, spins, shared>>

\* A woken thread exchanges again: had it gone back to the fast path it would
\* take the lock as if nobody else were waiting.
AfterWaitFast == "fast"

AfterWait == "xchg"

WaitFlavourPrivate == FALSE

WaitFlavour == process_shared

FutexWait(t) ==
  /\ pc[t] = "wait"
  /\ Goto(t, IF state = "LockedWithWaiter" THEN "asleep" ELSE AfterWait)
  /\ shared' = [shared EXCEPT ![t] = WaitFlavour]
  /\ UNCHANGED <<alive, state, process_shared, spins, ret>>

\* The wait returns although nobody woke it (a signal).
Interrupt(t) ==
  /\ pc[t] = "asleep"
  /\ Goto(t, AfterWait)
  /\ UNCHANGED <<alive, state, process_shared, spins, shared, ret>>

-----------------------------------------------------------------------------
(* pthread_spin_unlock, by the holder; the flavour is cached first         *)

\* Counting the state down instead of storing Unlocked.
AfterUnlockDecremented(old) ==
  IF old = "LockedWithWaiter" THEN "LockedWithoutWaiter" ELSE "Unlocked"

AfterUnlock(old) == "Unlocked"

MustWakeIfAlone(old) == old = "LockedWithoutWaiter"

MustWake(old) == old = "LockedWithWaiter"

Unlock(t) ==
  /\ pc[t] = "cs"
  /\ shared' = [shared EXCEPT ![t] = process_shared]
  /\ state' = AfterUnlock(state)
  /\ Goto(t, IF MustWake(state) THEN "wake" ELSE "idle")
  /\ Return(t, "0")
  /\ UNCHANGED <<alive, process_shared, spins>>

UnlockWake(t) ==
  /\ pc[t] = "wake"
  /\ \E W \in Wakeable(Sleepers(shared[t]), 1) :
       pc' = [u \in Threads |-> CASE u = t -> "idle"
                                  [] u \in W -> AfterWait
                                  [] OTHER -> pc[u]]
  /\ UNCHANGED <<alive, state, process_shared, spins, shared, ret>>

-----------------------------------------------------------------------------

\* The steps a thread takes once it is inside one of the functions, and the
\* unlock a holder owes.
Progress(t) ==
  \/ Spin(t) \/ LockFast(t) \/ LockExchange(t) \/ FutexWait(t)
  \/ Unlock(t) \/ UnlockWake(t)

\* The calls a client may make but need not, and the signals.
Environment(t) ==
  \/ SpinInit(t) \/ SpinDestroy(t) \/ SpinTryLock(t) \/ SpinLockCall(t)
  \/ Interrupt(t)

Next == \E t \in Threads : Progress(t) \/ Environment(t)

Spec == Init /\ [][Next]_vars

\* A runnable thread runs, and a holder eventually unlocks.  Nobody has to
\* call, and no signal has to come.
FairSpec == Spec /\ \A t \in Threads : WF_vars(Progress(t))

-----------------------------------------------------------------------------

TypeOK ==
  /\ alive \in BOOLEAN
  /\ state \in LockState
  /\ process_shared \in BOOLEAN
  /\ pc \in [Threads -> Locations]
  /\ spins \in [Threads -> 0..SpinLimit]
  /\ \A t \in Threads : pc[t] = "spin" => spins[t] < SpinLimit
  /\ shared \in [Threads -> BOOLEAN]
  /\ ret \in [Threads -> {"0", "EBUSY"}]

Holds(t) == pc[t] = "cs"

\* At most one thread is between a successful lock or trylock and its unlock,
\* whatever the mix of fast path, slow path, signals and late wakes.
MutualExclusion ==
  \A t, u \in Threads : Holds(t) /\ Holds(u) => t = u

\* The word says locked exactly when somebody holds the lock: LockExchange
\* overwrites the state before it knows whether it got the lock, and must never
\* leave a lock that nobody can release.
LockedIffHeld ==
  alive => (state # "Unlocked" <=> \E t \in Threads : Holds(t))

\* While a thread sleeps, somebody is bound to wake it: the holder will see
\* LockedWithWaiter, an unlocker of this life has its wake ahead, or a thread is
\* about to write LockedWithWaiter again.
WakePending(flavour) ==
  \/ state = "LockedWithWaiter"
  \/ \E u \in Threads : pc[u] = "wake" /\ shared[u] = flavour
  \/ \E u \in Threads : pc[u] = "xchg"

NoLostWakeup ==
  \A t \in Threads : pc[t] = "asleep" => WakePending(shared[t])

\* Nobody is caught inside a lock that was destroyed, and every sleeper is in the
\* queue that the unlockers of its own life wake, whatever the flavour of the
\* lives before.
InsideThisLife ==
  \A t \in Threads :
    /\ pc[t] \in InLock \cup {"cs"} => alive
    /\ pc[t] = "asleep" => shared[t] = process_shared

\* The lock implements the abstract mutex: EBUSY only while held, acquire only
\* when free, nobody left inside when it is destroyed.
Abstract == INSTANCE Mutex
  WITH holders    <- {t \in Threads : Holds(t)},
       contenders <- {t \in Threads : pc[t] \in InLock}

ImplementsMutex == Abstract!Spec

\* No deadlock, no lost wakeup: if some thread wants the lock, then some
\* thread gets it, even if nobody else ever calls again.
SomebodyGetsIn ==
  (\E t \in Threads : pc[t] \in InLock) ~> (\E t \in Threads : Holds(t))

-----------------------------------------------------------------------------

\* The inductive invariant: each part above needs the others.
IInv ==
  /\ TypeOK
  /\ MutualExclusion
  /\ LockedIffHeld
  /\ NoLostWakeup
  /\ InsideThisLife

=============================================================================
