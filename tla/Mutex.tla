------------------------------- MODULE Mutex -------------------------------
(***************************************************************************)
(* What pthread_spinlock.c promises its callers: one lock that is created, *)
(* contended for, held by one thread at a time, and destroyed.  A thread   *)
(* asks for the lock in one step and gets it in a later one; the two       *)
(* non-blocking calls answer EBUSY only while somebody holds the lock.     *)
(***************************************************************************)
CONSTANT Threads

VARIABLES alive,       \* between pthread_spin_init and pthread_spin_destroy
          holders,     \* the threads that hold the lock
          contenders,  \* the threads inside pthread_spin_lock
          ret          \* the last return value each thread got

absVars == <<alive, holders, contenders, ret>>

Init ==
  /\ alive = FALSE
  /\ holders = {}
  /\ contenders = {}
  /\ ret = [t \in Threads |-> "0"]

Create(t) ==
  /\ ~alive
  /\ alive' = TRUE
  /\ holders' = {}
  /\ ret' = [ret EXCEPT ![t] = "0"]
  /\ UNCHANGED contenders

Request(t) ==
  /\ alive
  /\ t \notin contenders \cup holders
  /\ contenders' = contenders \cup {t}
  /\ UNCHANGED <<alive, holders, ret>>

Acquire(t) ==
  /\ t \in contenders
  /\ holders = {}
  /\ contenders' = contenders \ {t}
  /\ holders' = {t}
  /\ ret' = [ret EXCEPT ![t] = "0"]
  /\ UNCHANGED alive

TryAcquire(t) ==
  /\ alive
  /\ t \notin contenders
  /\ holders = {}
  /\ holders' = {t}
  /\ ret' = [ret EXCEPT ![t] = "0"]
  /\ UNCHANGED <<alive, contenders>>

\* pthread_spin_trylock or pthread_spin_destroy of a lock that is held.
Refuse(t) ==
  /\ alive
  /\ holders # {}
  /\ ret' = [ret EXCEPT ![t] = "EBUSY"]
  /\ UNCHANGED <<alive, holders, contenders>>

Release(t) ==
  /\ alive
  /\ holders = {t}
  /\ holders' = {}
  /\ ret' = [ret EXCEPT ![t] = "0"]
  /\ UNCHANGED <<alive, contenders>>

Destroy(t) ==
  /\ alive
  /\ holders = {}
  /\ contenders = {}
  /\ alive' = FALSE
  /\ ret' = [ret EXCEPT ![t] = "0"]
  /\ UNCHANGED <<holders, contenders>>

Next == \E t \in Threads : \/ Create(t) \/ Request(t) \/ Acquire(t)
                           \/ TryAcquire(t) \/ Refuse(t) \/ Release(t)
                           \/ Destroy(t)

Spec == Init /\ [][Next]_absVars

=============================================================================
