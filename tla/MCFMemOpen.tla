---------------------------- MODULE MCFMemOpen ----------------------------
(* FMemOpen with two letters, chunks of up to three bytes and buffers of up  *)
(* to three, so that a chunk can be longer than the buffer.                  *)
EXTENDS FMemOpen, TLC

CONSTANTS a, b

\* Text and strings, also with a NUL among the letters.
Anything == UNION {[1..n -> Bytes] : n \in 1..3}

Letters == Permutations(Bytes \ {NUL})

=============================================================================
