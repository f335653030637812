---------------------------- MODULE MCMemStream ----------------------------
(* MemStream with one letter and NUL, chunks of one to three bytes, a first  *)
(* array of two bytes, and positions up to seven: the array is reallocated   *)
(* up to three times, by the golden ratio and by the length needed.          *)
EXTENDS MemStream

CONSTANT a

ShortChunks == UNION {[1..n -> Bytes] : n \in 1..3}

=============================================================================
