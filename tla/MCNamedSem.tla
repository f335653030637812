---------------------------- MODULE MCNamedSem ----------------------------
(* NamedSem on small instances: two threads of one process and one of        *)
(* another, one or two names.                                                *)
EXTENDS NamedSem, TLC

CONSTANTS p1, p2, t1, t2, u1, n1, n2, i1, i2, i3, a1, a2, a3

Two == {p1, p2}
Pair == {t1, t2}
Apart == {t1, u1}
Home == [t \in Threads |-> IF t = u1 THEN p2 ELSE p1]

\* Inodes and addresses are interchangeable.
Interchangeable == Permutations(Inodes) \cup Permutations(Addrs)

=============================================================================
