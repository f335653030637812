----------------------------- MODULE MCHSearch -----------------------------
(* HSearch with every hash function from four keys to a small range, and two *)
(* entries to begin with, so that the table grows twice.                     *)
EXTENDS HSearch, TLC

CONSTANTS k1, k2, k3, k4, d1, d2

AllHashes == [Keys -> 0..3]

Interchangeable == Permutations(Keys) \cup Permutations(Data)

=============================================================================
