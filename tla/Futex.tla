------------------------------- MODULE Futex -------------------------------
(***************************************************************************)
(* What the kernel promises to the callers of bionic_futex.h.              *)
(*                                                                         *)
(* __futex_wait_ex(word, shared, v) puts the caller to sleep only if *word *)
(* still is v, atomically with respect to every store and wake; otherwise  *)
(* it returns at once.  A sleeper returns when a wake picks it, or on its  *)
(* own (a signal: EINTR).  __futex_wake_ex(word, shared, n) wakes sleepers *)
(* of the same flavour, private or shared: two flavours are two queues.    *)
(* The callers here ignore every return code, so none is modelled.         *)
(***************************************************************************)
EXTENDS Integers, FiniteSets

(***************************************************************************)
(* The sets of threads that a wake with the argument `count' may pick from *)
(* the queue: all of a short queue, any `count' threads of a long one.     *)
(* The kernel tests the count after it has woken a thread, so a count of 0 *)
(* wakes one thread as well.                                               *)
(***************************************************************************)
WakeLimit(count) == IF count = 0 THEN 1 ELSE count

Wakeable(queue, count) ==
  {W \in SUBSET queue : \/ W = queue /\ Cardinality(W) <= WakeLimit(count)
                        \/ Cardinality(W) = WakeLimit(count)}

=============================================================================
