----------------------------- MODULE MCBarrier -----------------------------
(* Barrier on small instances.                                             *)
EXTENDS Barrier

CONSTANTS t1, t2, t3, t4

TwoThreads == {t1, t2}
FourThreads == {t1, t2, t3, t4}

\* Barriers for three of the four threads, which take part in turns; and barriers
\* for two, into which three may go at once.
ThreeOfFour == [counts |-> {3}, flavours |-> BOOLEAN, crowd |-> 0]
ThreeIntoTwo == [counts |-> {2}, flavours |-> {FALSE}, crowd |-> 3]

InTurnsOrTooMany == {ThreeOfFour, ThreeIntoTwo}

\* One kind of barrier is enough where the order of waking matters.
PrivateInTurns == {[ThreeOfFour EXCEPT !.flavours = {FALSE}]}

\* Barriers for two, which two threads use again and again.
PrivatePairs == {[counts |-> {2}, flavours |-> {FALSE}, crowd |-> 0]}

=============================================================================
