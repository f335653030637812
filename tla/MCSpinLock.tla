----------------------------- MODULE MCSpinLock -----------------------------
(* SpinLock on a small instance: three threads that are interchangeable.    *)
EXTENDS SpinLock, TLC

CONSTANTS t1, t2, t3

ThreeThreads == {t1, t2, t3}
TwoThreads == {t1, t2}

Interchangeable == Permutations(ThreeThreads)

=============================================================================
