------------------------------ MODULE Barrier ------------------------------
(***************************************************************************)
(* libc-extra/src/pthread_barrier.c: init, wait and destroy of a barrier   *)
(* built on one futex word (`state') and one counter (`wait_count').       *)
(*                                                                         *)
(* Each atomic operation and each futex call is a step of its own.  The    *)
(* three wait loops of the code (at the gate of wait, for the release of   *)
(* the cycle, and in destroy) have the same shape and share three actions: *)
(* test the state, call futex wait, be interrupted.  init_count and        *)
(* pshared are written by init and destroy only and are read in the step   *)
(* that uses them.  The memory model is sequentially consistent.           *)
(***************************************************************************)
EXTENDS Futex

CONSTANTS Threads,
          InOrder,   \* whether the kernel wakes sleepers in the order they fell asleep
          Clients    \* the kinds of callers: [counts, flavours, crowd] says what they
                     \* give to pthread_barrier_init as count and as pshared; and
                     \* how many may be inside at a time, 0 if they keep to the count

ASSUME BarrierAssumption ==
  /\ IsFiniteSet(Threads)
  /\ InOrder \in BOOLEAN
  /\ Clients \subseteq [counts: SUBSET (Nat \ {0}), flavours: SUBSET BOOLEAN, crowd: Nat]

VARIABLES clients,     \* the callers of this behaviour; never changes
          alive,       \* initialised and not destroyed (a fact of the callers)
          init_count,
          state,       \* enum BarrierState
          wait_count,
          pshared,
          pc,          \* where each thread is
          mode,        \* how far it is in the body of a wait loop
          prev,        \* wait's local prev_wait_count
          result,      \* wait's local result
          shared,      \* the flavour of each sleeper's futex wait
          ahead,       \* the threads the kernel wakes before each sleeper
          answer,      \* what the last step returned: <<thread, value>>, or <<>>
          party        \* the threads of the cycle the callers are in, as far as they
                       \* can know; no step of the code reads it

vars == <<clients, alive, init_count, state, wait_count, pshared, pc, mode, prev,
          result, shared, ahead, answer, party>>

barrier == <<clients, alive, init_count, state, wait_count, pshared>>
kernel == <<mode, shared, ahead>>
locals == <<prev, result>>

(***************************************************************************)
(* The wait loops: the state they wait to see the end of, and the code     *)
(* after them.  "gate" and "check" are wait's, "drain" is destroy's.       *)
(***************************************************************************)
Loops == {"gate", "check", "drain"}
WhileGateOpen ==
  [l \in Loops |-> CASE l = "gate" -> "none" [] l = "check" -> "WAIT" [] OTHER -> "RELEASE"]

While == [l \in Loops |-> IF l = "check" THEN "WAIT" ELSE "RELEASE"]
After == [gate |-> "read", check |-> "leave", drain |-> "count"]

Entering == {"gate", "read", "cas"}
Counted == {"release", "wakeall", "check", "leave"}
Leaving == {"reset", "wakelast"}
InWait == Entering \cup Counted \cup Leaving
Destroying == {"drain", "count"}

\* The callers keep to the count.
Orderly == clients.crowd = 0

At(L) == {t \in Threads : pc[t] \in L}

Sleepers(flavour) == {t \in Threads : mode[t] = "asleep" /\ shared[t] = flavour}

Init ==
  /\ clients \in Clients
  /\ alive = FALSE
  /\ init_count = 0
  /\ state = "WAIT"
  /\ wait_count = 0
  /\ pshared = FALSE
  /\ pc = [t \in Threads |-> "idle"]
  /\ mode = [t \in Threads |-> "run"]
  /\ prev = [t \in Threads |-> 0]
  /\ result = [t \in Threads |-> "0"]
  /\ shared = [t \in Threads |-> FALSE]
  /\ ahead = [t \in Threads |-> {}]
  /\ answer = <<>>
  /\ party = {}

Goto(t, l) == pc' = [pc EXCEPT ![t] = l]

\* The call goes on.
NoReturn == answer' = <<>> /\ UNCHANGED party

\* The call returns and its locals are gone.  The first thread of a party that
\* returns tells the callers that their cycle is over and the next one has begun.
Return(t, r) ==
  /\ Goto(t, "idle")
  /\ prev' = [prev EXCEPT ![t] = 0]
  /\ result' = [result EXCEPT ![t] = "0"]
  /\ answer' = <<t, r>>
  /\ party' = IF t \in party THEN {} ELSE party

WakeUp(W) ==
  /\ mode' = [u \in Threads |-> IF u \in W THEN "run" ELSE mode[u]]
  /\ shared' = [u \in Threads |-> shared[u] /\ u \notin W]
  /\ ahead' = [u \in Threads |-> IF u \in W THEN {} ELSE ahead[u] \ W]

\* A wake call picks as many sleepers of its flavour as it may, none before those
\* that are ahead of it.
Wake(flavour, count) ==
  \E W \in Wakeable(Sleepers(flavour), count) :
    /\ \A u \in W : ahead[u] \cap Sleepers(flavour) \subseteq W
    /\ WakeUp(W)

-----------------------------------------------------------------------------
(* pthread_barrier_init                                                    *)

BarrierInit(t) ==
  /\ pc[t] = "idle"
  /\ ~alive
  /\ alive' = TRUE
  /\ init_count' \in clients.counts
  /\ state' = "WAIT"
  /\ wait_count' = 0
  /\ pshared' \in clients.flavours     \* what the attribute says; private if NULL
  /\ Return(t, "0")
  /\ UNCHANGED <<clients, kernel>>

BarrierInitForNobody(t) ==
  /\ pc[t] = "idle"
  /\ ~alive
  /\ Return(t, "EINVAL")
  /\ UNCHANGED <<barrier, kernel>>

-----------------------------------------------------------------------------
(* The body of a wait loop                                                 *)

LoopTest(t) ==
  /\ pc[t] \in Loops /\ mode[t] = "run"
  /\ IF state = While[pc[t]]
       THEN /\ mode' = [mode EXCEPT ![t] = "call"]
            /\ UNCHANGED pc
       ELSE /\ Goto(t, After[pc[t]])
            /\ UNCHANGED mode
  /\ NoReturn
  /\ UNCHANGED <<barrier, shared, ahead, locals>>

\* Who is woken before a thread that falls asleep now.  Linux keeps the order for
\* threads of one priority, and wakes a thread of a higher one before those.
InFrontOf(flavour) == IF InOrder THEN Sleepers(flavour) ELSE {}

LoopSleep(t) ==
  /\ mode[t] = "call"
  /\ IF state = While[pc[t]]
       THEN /\ mode' = [mode EXCEPT ![t] = "asleep"]
            /\ shared' = [shared EXCEPT ![t] = pshared]
            /\ ahead' = [ahead EXCEPT ![t] = InFrontOf(pshared)]
       ELSE /\ mode' = [mode EXCEPT ![t] = "run"]
            /\ UNCHANGED <<shared, ahead>>
  /\ NoReturn
  /\ UNCHANGED <<barrier, pc, locals>>

\* The futex wait returns although nobody woke it (a signal).
Interrupt(t) ==
  /\ mode[t] = "asleep"
  /\ WakeUp({t})
  /\ NoReturn
  /\ UNCHANGED <<barrier, pc, locals>>

-----------------------------------------------------------------------------
(* pthread_barrier_wait                                                    *)

\* No more threads call wait in one cycle than the count says (the comment at lines
\* 49-52), unless the clients let in a crowd.  As soon as one thread of a cycle has
\* returned those of the next may come, while all others of the last are inside.
ThereIsRoom ==
  IF Orderly THEN Cardinality(party) < init_count
  ELSE Cardinality(At(InWait)) < clients.crowd

\* The clients call wait on a live barrier that nobody is destroying.
WaitCall(t) ==
  /\ pc[t] = "idle"
  /\ alive
  /\ At(Destroying) = {}
  /\ ThereIsRoom
  /\ Goto(t, "gate")
  /\ answer' = <<>>
  /\ party' = IF Orderly THEN party \cup {t} ELSE {}
  /\ UNCHANGED <<barrier, kernel, locals>>

ReadCount(t) ==
  /\ pc[t] = "read"
  /\ prev' = [prev EXCEPT ![t] = wait_count]
  /\ Goto(t, "cas")
  /\ NoReturn
  /\ UNCHANGED <<barrier, kernel, result>>

Full(n) == n >= init_count

TooMany(t) ==
  /\ pc[t] = "cas"
  /\ Full(prev[t])
  /\ Return(t, "EINVAL")
  /\ UNCHANGED <<barrier, kernel>>

\* The compare and exchange fails because the count moved, and leaves the current
\* count in prev.  The weak one may fail without a reason too: that changes
\* nothing, so it is a stuttering step.
EnterFails(t) ==
  /\ pc[t] = "cas"
  /\ ~Full(prev[t])
  /\ wait_count # prev[t]
  /\ prev' = [prev EXCEPT ![t] = wait_count]
  /\ NoReturn
  /\ UNCHANGED <<barrier, pc, kernel, result>>

\* A plain store of prev + 1 in place of the exchange.
UncomparedStore(t) == TRUE

Unraced(t) == wait_count = prev[t]

LastIsOneLate(n) == n = init_count

LastIsOneEarly(n) == n + 2 = init_count

CompletesCycle(n) == n + 1 = init_count

Enter(t) ==
  /\ pc[t] = "cas"
  /\ ~Full(prev[t])
  /\ Unraced(t)
  /\ wait_count' = prev[t] + 1
  /\ LET last == CompletesCycle(prev[t]) IN
       /\ result' = [result EXCEPT ![t] = IF last THEN "SERIAL" ELSE "0"]
       /\ prev' = [prev EXCEPT ![t] = IF last THEN @ ELSE 0]     \* not used any more
       /\ Goto(t, CASE ~last -> "check"
                    [] last /\ prev[t] # 0 -> "release"
                    [] OTHER -> "leave")
  /\ NoReturn
  /\ UNCHANGED <<clients, alive, init_count, state, pshared, kernel>>

ReleaseCycle(t) ==
  /\ pc[t] = "release"
  /\ state' = "RELEASE"
  /\ Goto(t, "wakeall")
  /\ NoReturn
  /\ UNCHANGED <<clients, alive, init_count, wait_count, pshared, kernel, locals>>

WakeFlavourPrivate == FALSE

WakeFlavour == pshared

WakeWaiters(t) ==
  /\ pc[t] = "wakeall"
  /\ Wake(WakeFlavour, prev[t])
  /\ Goto(t, "leave")
  /\ NoReturn
  /\ UNCHANGED <<barrier, locals>>

LastTwoToLeave(n) == n <= 2

LastToLeave(n) == n = 1

\* The last one resets the barrier and forgets to count itself out.
LeftButLast(n) == IF LastToLeave(n) THEN n ELSE n - 1

Left(n) == n - 1

Leave(t) ==
  /\ pc[t] = "leave"
  /\ wait_count' = Left(wait_count)
  /\ IF LastToLeave(wait_count)
       THEN Goto(t, "reset") /\ NoReturn /\ UNCHANGED locals
       ELSE Return(t, result[t])
  /\ UNCHANGED <<clients, alive, init_count, state, pshared, kernel>>

NextState == "WAIT"

ResetCycle(t) ==
  /\ pc[t] = "reset"
  /\ state' = NextState
  /\ Goto(t, "wakelast")
  /\ NoReturn
  /\ UNCHANGED <<clients, alive, init_count, wait_count, pshared, kernel, locals>>

WakeOne == 1

WakeNext == init_count

\* pshared and init_count are read here, after the barrier was published as free.
WakeNextCycle(t) ==
  /\ pc[t] = "wakelast"
  /\ Wake(WakeFlavour, WakeNext)
  /\ Return(t, result[t])
  /\ UNCHANGED barrier

-----------------------------------------------------------------------------
(* pthread_barrier_destroy                                                 *)

\* The caller must know that no thread is on its way into the barrier and that
\* none will be until destroy returns; threads may still be waiting or leaving.
DestroyCall(t) ==
  /\ pc[t] = "idle"
  /\ alive
  /\ At(Entering \cup Destroying) = {}
  /\ ThereIsRoom
  /\ Goto(t, "drain")
  /\ NoReturn
  /\ UNCHANGED <<barrier, kernel, locals>>

DestroyAgain(t) ==
  /\ pc[t] = "idle"
  /\ ~alive /\ init_count = 0
  /\ Return(t, "EINVAL")
  /\ UNCHANGED <<barrier, kernel>>

DestroyFinish(t) ==
  /\ pc[t] = "count"
  /\ IF wait_count # 0
       THEN /\ Return(t, "EBUSY")
            /\ UNCHANGED <<alive, init_count>>
       ELSE /\ Return(t, "0")
            /\ init_count' = 0
            /\ alive' = FALSE
  /\ UNCHANGED <<clients, state, wait_count, pshared, kernel>>

-----------------------------------------------------------------------------

\* The steps of a thread inside wait or destroy.
Progress(t) ==
  \/ LoopTest(t) \/ LoopSleep(t) \/ ReadCount(t) \/ TooMany(t)
  \/ EnterFails(t) \/ Enter(t)
  \/ ReleaseCycle(t) \/ WakeWaiters(t) \/ Leave(t) \/ ResetCycle(t)
  \/ WakeNextCycle(t) \/ DestroyFinish(t)

\* Calls that need not be made, and signals.
Environment(t) ==
  \/ BarrierInit(t) \/ BarrierInitForNobody(t) \/ WaitCall(t)
  \/ DestroyCall(t) \/ DestroyAgain(t) \/ Interrupt(t)

Next == \E t \in Threads : Progress(t) \/ Environment(t)

Spec == Init /\ [][Next]_vars

FairSpec == Spec /\ \A t \in Threads : WF_vars(Progress(t))

-----------------------------------------------------------------------------

\* wait_count counts the threads that entered and have not left (the comment at
\* line 57), however late each of them is and whatever the others already do in
\* the next cycle; it never exceeds the count, also if more threads try.
CountIsExact ==
  alive => wait_count = Cardinality(At(Counted)) /\ wait_count <= init_count

\* A thread that passed the gate never meets the previous cycle: nobody is
\* releasing or leaving, or has reset of the state ahead, while it enters.  This
\* is what makes the separate reads of state and wait_count safe.
GateHolds ==
  At({"read", "cas"}) # {} /\ Orderly =>
    /\ state = "WAIT"
    /\ At({"release", "wakeall", "leave", "reset"}) = {}

\* As long as no more threads call wait in a cycle than the count says none of them
\* is turned away with EINVAL, however stale its copy of wait_count.
NobodyTurnedAway ==
  \A t \in Threads : pc[t] = "cas" /\ Orderly => prev[t] < init_count

\* A sleeper whose loop is over has a wake coming: the serial thread's if it waits
\* for the release of its cycle, the last leaver's if it waits for the next.  The
\* serial thread wakes only as many as entered before it (line 140), out of a queue
\* in which threads of the next cycle may be too: that this suffices rests on the
\* order in which the kernel wakes (InOrder).
NoLostWakeup ==
  \A t \in Threads : mode[t] = "asleep" /\ state # While[pc[t]] /\ Orderly =>
    IF pc[t] = "check" THEN At({"wakeall"}) # {} ELSE At({"wakelast"}) # {}

\* Only one thread resets the barrier, after everybody has left.
OneReset ==
  At({"reset"}) # {} /\ Orderly => Cardinality(At({"reset"})) = 1 /\ At(Counted) = {}

-----------------------------------------------------------------------------

\* A thread is released from the moment the last one of its cycle is counted.
Released(t) ==
  \/ pc[t] \in {"release", "wakeall", "leave"} \cup Leaving
  \/ pc[t] = "check" /\ (state = "RELEASE" \/ At({"release"}) # {})

\* What the threads are to the abstract barrier, which promises nothing to a crowd.
Waiting == {t \in Threads : pc[t] = "check" /\ ~Released(t) /\ Orderly}
Owed == [t \in Threads |-> IF Released(t) /\ Orderly THEN result[t] ELSE "none"]
Answer == IF Orderly THEN answer ELSE <<>>

Abstract == INSTANCE CyclicBarrier
  WITH alive   <- alive /\ Orderly,
       need    <- IF Orderly THEN init_count ELSE 0,
       arrived <- Waiting,
       owed    <- Owed,
       answer  <- Answer

\* The barrier implements the abstract one: nobody returns before its cycle is
\* complete, each cycle has one serial thread, and a barrier is destroyed only
\* between two cycles.
ImplementsBarrier == Abstract!Spec

\* When as many threads have called wait as the barrier is for, however many of the
\* last cycle still were inside, their cycle completes and one of them returns.
FullCycleEnds ==
  alive /\ Cardinality(party) = init_count ~> Cardinality(party) < init_count

\* Every released thread returns, and so does every call of destroy, although the
\* others may start the next cycle at once; if the kernel wakes in order (InOrder).
ReleasedReturn ==
  \A t \in Threads :
    (Released(t) \/ pc[t] \in Destroying) /\ Orderly ~> pc[t] = "idle"

\* Once destroy has returned 0 no thread touches the barrier any more, so that
\* its memory can be freed or reused.
DestroyedIsUntouched == ~alive => At(InWait) = {}

=============================================================================
