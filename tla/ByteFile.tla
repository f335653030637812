------------------------------ MODULE ByteFile ------------------------------
(***************************************************************************)
(* What a stream over memory promises: a file of bytes and a position.  A  *)
(* write stores its bytes at the position, or at the end for a stream that *)
(* appends, and changes nothing else; a read returns the bytes at the      *)
(* position.  What fills a gap, when a write starts past the end, is left  *)
(* open.                                                                   *)
(***************************************************************************)
EXTENDS Integers, Sequences

CONSTANTS Bytes, MaxLen, Closed

VARIABLES data,   \* the contents, or Closed
          pos,
          moved   \* the bytes that the last call read or took

vars == <<data, pos, moved>>

Contents == UNION {[1..n -> Bytes] : n \in 0..MaxLen}

Init == data = Closed /\ pos = 0 /\ moved = <<>>

Open ==
  /\ data = Closed
  /\ data' \in Contents
  /\ pos' \in {0, Len(data')}
  /\ moved' = <<>>

\* data' holds the bytes taken at `at', and what data held around them.
Write ==
  /\ data # Closed
  /\ \E at \in {pos, Len(data)} :
       LET n == Len(moved') IN
       /\ pos' = at + n
       /\ IF n = 0 THEN data' = data
          ELSE /\ data' \in Contents
               /\ Len(data') = IF pos' > Len(data) THEN pos' ELSE Len(data)
               /\ \A j \in 1..n : data'[at + j] = moved'[j]
               /\ \A j \in 1..Len(data) : j \notin at + 1..pos' => data'[j] = data[j]

Read ==
  /\ data # Closed
  /\ pos' \in pos..Len(data)
  /\ moved' = SubSeq(data, pos + 1, pos')
  /\ UNCHANGED data

Seek ==
  /\ data # Closed
  /\ pos' \in 0..MaxLen
  /\ UNCHANGED <<data, moved>>

Close ==
  /\ data # Closed
  /\ data' = Closed
  /\ pos' = 0
  /\ moved' = <<>>

Next == Open \/ Write \/ Read \/ Seek \/ Close

Spec == Init /\ [][Next]_vars

=============================================================================
