---------------------------- MODULE MCPosixSpawn ----------------------------
(* PosixSpawn with two threads, two signals, three descriptors of which one  *)
(* or two are free, and lists of up to two actions.                           *)
EXTENDS PosixSpawn, TLC

CONSTANTS t1, t2, in, out, file

Inherited == {[d \in 0..2 |-> CASE d = 0 -> in [] d = 1 -> out [] OTHER -> Null],
              [d \in 0..2 |-> IF d = 1 THEN out ELSE Null]}

Open(d, p) == [what |-> "kOpen", fd |-> -1, new_fd |-> d, path |-> p]
Close(d) == [what |-> "kClose", fd |-> d, new_fd |-> -1, path |-> Null]
Dup2(d, e) == [what |-> "kDup2", fd |-> d, new_fd |-> e, path |-> Null]

\* An open that has to be moved or lands where it should, or finds the table full.
SomeActions == {Open(0, file), Close(0), Dup2(0, 2)}

SomeFlags == {{"USEVFORK"}, {"SETSIGDEF", "SETSIGMASK", "SETPGROUP"}}

\* 1 is ignored and blocked, 2 is caught and not blocked.
JustOne == {{1}}
NoSignal == {{}}
OneCaught == {<<"SIG_IGN", "caught">>}

=============================================================================
