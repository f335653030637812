--------------------------- MODULE CyclicBarrier ---------------------------
(***************************************************************************)
(* What pthread_barrier.c promises (the comment at lines 49-52): in each   *)
(* cycle `need' threads must call wait before any of them returns, one of  *)
(* them is told that it is the serial thread, and the barrier may be used  *)
(* for any number of cycles.  A cycle trips as a whole, in one step.       *)
(***************************************************************************)
EXTENDS Integers, FiniteSets

CONSTANT Threads

VARIABLES alive,    \* between init and destroy
          need,     \* the count the barrier was created for
          arrived,  \* the threads of the cycle that has not tripped yet
          owed,     \* what a released thread is about to return, or "none"
          answer    \* what the last step returned: <<thread, value>>, or <<>>

absVars == <<alive, need, arrived, owed, answer>>

Init ==
  /\ alive = FALSE
  /\ need = 0
  /\ arrived = {}
  /\ owed = [t \in Threads |-> "none"]
  /\ answer = <<>>

Create(t) ==
  /\ ~alive
  /\ alive' = TRUE
  /\ need' \in Nat \ {0}
  /\ answer' = <<t, "0">>
  /\ UNCHANGED <<arrived, owed>>

Arrive(t) ==
  /\ alive
  /\ t \notin arrived /\ owed[t] = "none"
  /\ Cardinality(arrived) + 1 < need
  /\ arrived' = arrived \cup {t}
  /\ answer' = <<>>
  /\ UNCHANGED <<alive, need, owed>>

\* The last thread of the cycle releases them all.
Trip(t) ==
  /\ alive
  /\ t \notin arrived /\ owed[t] = "none"
  /\ Cardinality(arrived) + 1 = need
  /\ arrived' = {}
  /\ owed' = [u \in Threads |-> CASE u = t -> "SERIAL"
                                  [] u \in arrived -> "0"
                                  [] OTHER -> owed[u]]
  /\ answer' = <<>>
  /\ UNCHANGED <<alive, need>>

Leave(t) ==
  /\ owed[t] # "none"
  /\ answer' = <<t, owed[t]>>
  /\ owed' = [owed EXCEPT ![t] = "none"]
  /\ UNCHANGED <<alive, need, arrived>>

Destroy(t) ==
  /\ alive
  /\ arrived = {}
  /\ alive' = FALSE
  /\ need' = 0
  /\ answer' = <<t, "0">>
  /\ UNCHANGED <<arrived, owed>>

\* Destroying a barrier in use.
Refuse(t) ==
  /\ alive
  /\ arrived # {} \/ \E u \in Threads : owed[u] # "none"
  /\ answer' = <<t, "EBUSY">>
  /\ UNCHANGED <<alive, need, arrived, owed>>

\* Creating a barrier for nobody, destroying one that was destroyed already.
Reject(t) ==
  /\ ~alive
  /\ answer' = <<t, "EINVAL">>
  /\ UNCHANGED <<alive, need, arrived, owed>>

\* A step inside a call.
Silent ==
  /\ answer' = <<>>
  /\ UNCHANGED <<alive, need, arrived, owed>>

Next ==
  \/ Silent
  \/ \E t \in Threads : \/ Create(t) \/ Arrive(t) \/ Trip(t) \/ Leave(t)
                        \/ Destroy(t) \/ Refuse(t) \/ Reject(t)

Spec == Init /\ [][Next]_absVars

=============================================================================
