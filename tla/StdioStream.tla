---------------------------- MODULE StdioStream ----------------------------
(***************************************************************************)
(* What the two streams over memory, FMemOpen and MemStream, have in       *)
(* common: the bytes that stdio passes to the callbacks given to funopen,  *)
(* and what a callback says it took or read.                               *)
(***************************************************************************)
EXTENDS Integers, Sequences

CONSTANTS Bytes, NUL,
          Chunks,    \* what stdio may pass to the write callback
          Closed     \* stands for a stream that is not open

ASSUME StdioStreamAssumption ==
  /\ NUL \in Bytes
  /\ Chunks \subseteq Seq(Bytes) \ {<<>>}
  /\ Closed \notin Seq(Bytes)

VARIABLE moved   \* the bytes the last call read or took

=============================================================================
