----------------------------- MODULE MCIfAddrs -----------------------------
(* IfAddrs with two threads of one process, two interfaces, and replies that *)
(* may be larger than the first buffer.                                      *)
EXTENDS IfAddrs

CONSTANTS t1, t2

Pair == {t1, t2}

=============================================================================
