--------------------------- MODULE BarrierProofs ---------------------------
(***************************************************************************)
(* Barrier proved for any finite set of threads.  The first part is true   *)
(* of all clients, also of those that let in more threads than the count:  *)
(* wait_count is exact.  The others are about callers that let in no more  *)
(* of them in one cycle than the count: first the gate, the reset and the  *)
(* wakes, then that Barrier implements CyclicBarrier.                      *)
(***************************************************************************)
EXTENDS Barrier, FiniteSetTheorems, TLAPS

-----------------------------------------------------------------------------

Locations == {"idle"} \cup InWait \cup Destroying

Shape ==
  /\ clients \in Clients
  /\ alive \in BOOLEAN
  /\ init_count \in Nat /\ wait_count \in Nat
  /\ pc \in [Threads -> Locations]
  /\ prev \in [Threads -> Nat]
  /\ party \in SUBSET Threads

\* Nobody enters, is counted or destroys before init and after destroy; at most the
\* last leavers of the last cycle are still on their way out.
DeadIsEmpty == ~alive => At(Entering \cup Counted \cup Destroying) = {}

\* A destroyer is alone, and nobody enters while it is there.
DestroyerAlone ==
  \A t \in At(Destroying) : At(Entering) = {} /\ At(Destroying) = {t}

IInv == Shape /\ CountIsExact /\ DeadIsEmpty /\ DestroyerAlone

-----------------------------------------------------------------------------
(* Where the threads are after one of them has moved                       *)

\* Who is at the places L after t has gone to l.
LEMMA AtAfterMove ==
  ASSUME NEW t \in Threads, NEW l, NEW L, pc \in [Threads -> Locations], Goto(t, l)
  PROVE  {u \in Threads : pc'[u] \in L} = IF l \in L THEN At(L) \cup {t} ELSE At(L) \ {t}
BY DEF At, Goto

\* There are finitely many threads at any places.
LEMMA AtIsFinite == ASSUME NEW L PROVE IsFiniteSet(At(L)) /\ Cardinality(At(L)) \in Nat
<1>1. IsFiniteSet(Threads) /\ At(L) \in SUBSET Threads
  BY BarrierAssumption DEF At
<1>2. IsFiniteSet(At(L))
  BY <1>1, FS_Subset
<1> QED
  BY <1>2, FS_CardinalityType

\* A thread that goes to l is one more or one less of those in L.
LEMMA CountAfterMove ==
  ASSUME NEW t \in Threads, NEW l, NEW L, pc \in [Threads -> Locations], Goto(t, l)
  PROVE  LET n == Cardinality({u \in Threads : pc'[u] \in L}) IN
         /\ l \in L /\ pc[t] \notin L => n = Cardinality(At(L)) + 1
         /\ l \notin L /\ pc[t] \in L => n = Cardinality(At(L)) - 1
         /\ (l \in L <=> pc[t] \in L) => n = Cardinality(At(L))
<1>1. IsFiniteSet(At(L)) /\ Cardinality(At(L)) \in Nat
  BY AtIsFinite
<1>2. t \in At(L) <=> pc[t] \in L
  BY DEF At
<1>3. Cardinality(At(L) \cup {t}) = IF t \in At(L) THEN Cardinality(At(L)) ELSE Cardinality(At(L)) + 1
  BY <1>1, FS_AddElement
<1>4. Cardinality(At(L) \ {t}) = IF t \in At(L) THEN Cardinality(At(L)) - 1 ELSE Cardinality(At(L))
  BY <1>1, FS_RemoveElement
<1>5. {u \in Threads : pc'[u] \in L} = IF l \in L THEN At(L) \cup {t} ELSE At(L) \ {t}
  BY AtAfterMove
<1> QED
  BY <1>2, <1>3, <1>4, <1>5

-----------------------------------------------------------------------------
(* The steps                                                               *)

\* A thread moves and changes neither the barrier's life nor its counter.
LEMMA MoveKeepsIInv ==
  ASSUME IInv, NEW t \in Threads, NEW l \in Locations, Goto(t, l),
         UNCHANGED <<clients, alive, init_count, wait_count>>, prev' \in [Threads -> Nat],
         party' \in SUBSET Threads,
         l \in Counted <=> pc[t] \in Counted,
         ~alive => l \notin Entering \cup Counted \cup Destroying,
         l \in Entering => pc[t] \in Entering \/ At(Destroying) = {},
         l \in Destroying => pc[t] \in Destroying \/ At(Entering \cup Destroying) = {}
  PROVE  IInv'
<1> USE DEF IInv
<1>1. Shape'
  BY DEF Shape, Goto
<1>2. CountIsExact'
  <2>1. Cardinality(At(Counted)') = Cardinality(At(Counted))
    BY CountAfterMove DEF Shape, At
  <2> QED
    BY <2>1 DEF CountIsExact
<1>3. DeadIsEmpty'
  BY DEF DeadIsEmpty, At, Goto, Shape
<1>4. DestroyerAlone'
  BY DEF DestroyerAlone, At, Goto, Shape, Entering, Destroying
<1> QED
  BY <1>1, <1>2, <1>3, <1>4

\* The invariant holds before any barrier exists.
LEMMA InitIInv == Init => IInv
<1> SUFFICES ASSUME Init PROVE IInv
  OBVIOUS
<1>1. Shape
  BY DEF Init, Shape, Locations
<1>2. \A L : "idle" \notin L => At(L) = {}
  BY DEF Init, At
<1> QED
  BY <1>1, <1>2 DEF Init, IInv, CountIsExact, DeadIsEmpty, DestroyerAlone, Entering, Counted,
                    Destroying

\* A barrier is initialised when nobody is counted any more.
LEMMA InitKeepsIInv == ASSUME IInv, NEW t \in Threads, BarrierInit(t) PROVE IInv'
<1> USE DEF IInv
<1>1. Goto(t, "idle") /\ pc[t] = "idle" /\ ~alive /\ alive' /\ wait_count' = 0 /\ init_count' \in Nat
      /\ prev' \in [Threads -> Nat] /\ party' \in SUBSET Threads
      /\ clients' = clients /\ alive' \in BOOLEAN
  BY BarrierAssumption DEF BarrierInit, Return, Shape
<1>2. pc' = pc
  BY <1>1 DEF Goto, Shape
<1>3. Shape'
  BY <1>1, <1>2 DEF Shape
<1>4. At(Counted)' = {}
  BY <1>1, <1>2 DEF DeadIsEmpty, At
<1>5. CountIsExact'
  BY <1>1, <1>4, FS_EmptySet DEF CountIsExact
<1>6. DeadIsEmpty' /\ DestroyerAlone'
  BY <1>1, <1>2 DEF DeadIsEmpty, DestroyerAlone, At
<1> QED
  BY <1>3, <1>5, <1>6

\* The exchange counts the thread in.
LEMMA EnterKeepsIInv == ASSUME IInv, NEW t \in Threads, Enter(t) PROVE IInv'
<1> USE DEF IInv
<1>1. PICK l \in {"check", "release", "leave"} : Goto(t, l)
  BY DEF Enter
<1>2. /\ pc[t] = "cas" /\ prev[t] < init_count
      /\ wait_count' = wait_count + 1 /\ wait_count + 1 <= init_count
      /\ UNCHANGED <<clients, alive, init_count, party>> /\ prev' \in [Threads -> Nat]
  BY DEF Enter, Full, Unraced, NoReturn, Shape
<1>3. alive
  BY <1>2 DEF DeadIsEmpty, At, Entering
<1>4. Shape'
  <2>1. pc' \in [Threads -> Locations]
    BY <1>1 DEF Shape, Goto, Locations, InWait, Counted
  <2>2. wait_count' \in Nat
    BY <1>2 DEF Shape
  <2> QED
    BY <1>2, <2>1, <2>2 DEF Shape
<1>5. Cardinality(At(Counted)') = Cardinality(At(Counted)) + 1
  <2>1. l \in Counted /\ pc[t] \notin Counted /\ pc \in [Threads -> Locations]
    BY <1>1, <1>2 DEF Counted, Shape
  <2>2. Cardinality({u \in Threads : pc'[u] \in Counted}) = Cardinality(At(Counted)) + 1
    BY <1>1, <2>1, CountAfterMove
  <2> QED
    BY <2>2 DEF At
<1>6. CountIsExact'
  BY <1>2, <1>3, <1>5 DEF CountIsExact
<1>7. DeadIsEmpty' /\ DestroyerAlone'
  BY <1>1, <1>2, <1>3 DEF DeadIsEmpty, DestroyerAlone, At, Goto, Shape, Entering, Destroying
<1> QED
  BY <1>4, <1>6, <1>7

\* The decrement counts it out.
LEMMA LeaveKeepsIInv == ASSUME IInv, NEW t \in Threads, Leave(t) PROVE IInv'
<1> USE DEF IInv
<1>1. PICK l \in {"reset", "idle"} : Goto(t, l)
  BY DEF Leave, Return
<1>2. /\ pc[t] = "leave" /\ wait_count' = wait_count - 1
      /\ UNCHANGED <<clients, alive, init_count>>
      /\ prev' \in [Threads -> Nat] /\ party' \in SUBSET Threads
  BY DEF Leave, Left, Return, NoReturn, locals, Shape
<1>3. alive
  BY <1>2 DEF DeadIsEmpty, At, Counted
<1>4. Cardinality(At(Counted)') = Cardinality(At(Counted)) - 1
  <2>1. l \notin Counted /\ pc[t] \in Counted /\ pc \in [Threads -> Locations]
    BY <1>1, <1>2 DEF Counted, Shape
  <2>2. Cardinality({u \in Threads : pc'[u] \in Counted}) = Cardinality(At(Counted)) - 1
    BY <1>1, <2>1, CountAfterMove
  <2> QED
    BY <2>2 DEF At
<1>5. wait_count' \in Nat
  <2>1. t \in At(Counted)
    BY <1>2 DEF At, Counted
  <2>2. Cardinality(At(Counted)) # 0
    BY <2>1, AtIsFinite, FS_EmptySet
  <2> QED
    BY <1>2, <1>3, <2>2 DEF CountIsExact, Shape
<1>6. Shape'
  BY <1>1, <1>2, <1>5 DEF Shape, Goto, Locations, InWait, Leaving
<1>7. CountIsExact'
  BY <1>2, <1>3, <1>4 DEF CountIsExact, Shape
<1>8. DeadIsEmpty' /\ DestroyerAlone'
  BY <1>1, <1>2, <1>3 DEF DeadIsEmpty, DestroyerAlone, At, Goto, Shape, Entering, Destroying
<1> QED
  BY <1>6, <1>7, <1>8

\* Destroy succeeds only when nobody is counted.
LEMMA DestroyKeepsIInv == ASSUME IInv, NEW t \in Threads, DestroyFinish(t) PROVE IInv'
<1> USE DEF IInv
<1>1. Goto(t, "idle") /\ pc[t] = "count" /\ UNCHANGED <<clients, wait_count>>
      /\ prev' \in [Threads -> Nat] /\ party' \in SUBSET Threads
  BY DEF DestroyFinish, Return, Shape
<1>2. CASE wait_count # 0
  <2>1. UNCHANGED <<alive, init_count>>
    BY <1>2 DEF DestroyFinish
  <2> QED
    BY <1>1, <2>1, MoveKeepsIInv DEF Shape, Locations, Counted, Entering, Destroying
<1>3. CASE wait_count = 0
  <2>1. init_count' = 0 /\ alive' = FALSE
    BY <1>3 DEF DestroyFinish
  <2>2. Shape'
    BY <1>1, <2>1 DEF Shape, Goto, Locations
  <2>3. alive
    BY <1>1 DEF DeadIsEmpty, At, Destroying
  <2>4. At(Counted) = {}
    BY <1>3, <2>3, AtIsFinite, FS_EmptySet DEF CountIsExact
  <2>5. At(Entering) = {} /\ At(Destroying) = {t}
    BY <1>1 DEF DestroyerAlone, At, Destroying
  <2>6. At(Entering)' = {} /\ At(Counted)' = {} /\ At(Destroying)' = {}
    BY <1>1, <2>4, <2>5 DEF At, Goto, Shape, Entering, Counted, Destroying
  <2> QED
    BY <2>1, <2>2, <2>6 DEF CountIsExact, DeadIsEmpty, DestroyerAlone, At
<1> QED
  BY <1>2, <1>3

\* Every other step moves one thread and leaves the counter alone.
LEMMA OthersKeepIInv ==
  ASSUME IInv, NEW t \in Threads,
         \/ LoopTest(t) \/ LoopSleep(t) \/ ReadCount(t) \/ TooMany(t) \/ EnterFails(t)
         \/ ReleaseCycle(t) \/ WakeWaiters(t) \/ ResetCycle(t) \/ WakeNextCycle(t)
         \/ BarrierInitForNobody(t) \/ WaitCall(t) \/ DestroyCall(t) \/ DestroyAgain(t)
         \/ Interrupt(t)
  PROVE  IInv'
<1> USE DEF IInv, Locations, InWait, Entering, Counted, Leaving, Destroying
<1>1. UNCHANGED <<clients, alive, init_count, wait_count>>
  BY DEF LoopTest, LoopSleep, ReadCount, TooMany, EnterFails, ReleaseCycle, WakeWaiters, ResetCycle,
         WakeNextCycle, BarrierInitForNobody, WaitCall, DestroyCall, DestroyAgain, Interrupt, barrier
<1>2. prev' \in [Threads -> Nat] /\ party' \in SUBSET Threads
  BY DEF LoopTest, LoopSleep, ReadCount, TooMany, EnterFails, ReleaseCycle, WakeWaiters, ResetCycle,
         WakeNextCycle, BarrierInitForNobody, WaitCall, DestroyCall, DestroyAgain, Interrupt, locals,
         Return, NoReturn, Shape
<1>3. ~alive => pc[t] \notin {"gate", "read", "cas", "release", "wakeall", "check", "leave", "drain", "count"}
  BY DEF DeadIsEmpty, At
<1>4. CASE UNCHANGED pc
  BY <1>1, <1>2, <1>4 DEF Shape, CountIsExact, DeadIsEmpty, DestroyerAlone, At
<1>5. CASE ~UNCHANGED pc
  <2>1. CASE LoopTest(t)
    <3>1. Goto(t, After[pc[t]]) /\ pc[t] \in {"gate", "check", "drain"}
      BY <1>5, <2>1 DEF LoopTest, Loops
    <3> QED
      BY <1>1, <1>2, <1>3, <3>1, MoveKeepsIInv DEF After
  <2>2. CASE ReadCount(t)
    BY <1>1, <1>2, <1>3, <2>2, MoveKeepsIInv DEF ReadCount
  <2>3. CASE TooMany(t) \/ WakeNextCycle(t) \/ BarrierInitForNobody(t) \/ DestroyAgain(t)
    BY <1>1, <1>2, <1>3, <2>3, MoveKeepsIInv
       DEF TooMany, WakeNextCycle, BarrierInitForNobody, DestroyAgain, Return
  <2>4. CASE ReleaseCycle(t)
    BY <1>1, <1>2, <1>3, <2>4, MoveKeepsIInv DEF ReleaseCycle
  <2>5. CASE WakeWaiters(t)
    BY <1>1, <1>2, <1>3, <2>5, MoveKeepsIInv DEF WakeWaiters
  <2>6. CASE ResetCycle(t)
    BY <1>1, <1>2, <1>3, <2>6, MoveKeepsIInv DEF ResetCycle
  <2>7. CASE WaitCall(t)
    BY <1>1, <1>2, <1>3, <2>7, MoveKeepsIInv DEF WaitCall
  <2>8. CASE DestroyCall(t)
    BY <1>1, <1>2, <1>3, <2>8, MoveKeepsIInv DEF DestroyCall
  <2>9. CASE LoopSleep(t) \/ EnterFails(t) \/ Interrupt(t)
    BY <1>5, <2>9 DEF LoopSleep, EnterFails, Interrupt
  <2> QED
    BY <2>1, <2>2, <2>3, <2>4, <2>5, <2>6, <2>7, <2>8, <2>9
<1> QED
  BY <1>4, <1>5

\* Every step of pthread_barrier.c preserves the invariant of the counter.
LEMMA StepKeepsIInv == IInv /\ [Next]_vars => IInv'
<1> SUFFICES ASSUME IInv, [Next]_vars PROVE IInv'
  OBVIOUS
<1>1. ASSUME NEW t \in Threads, Progress(t) \/ Environment(t) PROVE IInv'
  BY <1>1, InitKeepsIInv, EnterKeepsIInv, LeaveKeepsIInv, DestroyKeepsIInv, OthersKeepIInv
     DEF Progress, Environment
<1>2. CASE UNCHANGED vars
  BY <1>2 DEF vars, IInv, Shape, CountIsExact, DeadIsEmpty, DestroyerAlone, At
<1> QED
  BY <1>1, <1>2 DEF Next

-----------------------------------------------------------------------------

\* The inductive invariant of the barrier.
THEOREM BarrierInvariant == Spec => []IInv
BY InitIInv, StepKeepsIInv, PTL DEF Spec

\* wait_count is the number of threads that entered and have not left, and never
\* more than the count the barrier was initialised with, however many threads come.
THEOREM BarrierCountsExactly == Spec => []CountIsExact
BY BarrierInvariant, PTL DEF IInv

-----------------------------------------------------------------------------
(* The cycles                                                              *)

Busy == InWait \cup Destroying

NobodyIn(L) == \A t \in Threads : pc[t] \notin L

AtMostOneIn(L) == \A t, u \in Threads : pc[t] \in L /\ pc[u] \in L => t = u

Room == alive => init_count > 0 /\ Cardinality(party) <= init_count

(***************************************************************************)
(* What the barrier is doing.  It fills; the last one has come and has not *)
(* released the others yet; they leave, while the party of the next cycle  *)
(* gathers at the gate; the last of them resets it; or it is a barrier for *)
(* one, which its only user just walks through.  Last leavers of earlier   *)
(* cycles, who only have their wake call still to do, may be about at any  *)
(* time.                                                                   *)
(***************************************************************************)
\* The only user of a barrier for one is on its way out.
PartyOfOneLeaves ==
  /\ alive /\ init_count = 1
  /\ NobodyIn(Entering \cup Counted \cup Destroying)
  /\ \E t \in Threads : party = {t} /\ pc[t] = "wakelast"

Filling ==
  /\ state = "WAIT"
  /\ NobodyIn({"release", "wakeall", "leave", "reset"})
  /\ alive => wait_count < init_count
  /\ party = At(Entering \cup Counted) \/ PartyOfOneLeaves

Complete ==
  /\ alive /\ state = "WAIT" /\ wait_count = init_count
  /\ NobodyIn(Busy \ {"release", "check", "wakelast"})
  /\ AtMostOneIn({"release"})
  /\ ~NobodyIn({"release"})
  /\ party = At(Counted)

\* No one of the cycle has returned yet.
NoneHasReturned ==
  /\ party = At(Counted) /\ wait_count = init_count
  /\ NobodyIn(Entering \cup Destroying)

Draining ==
  /\ alive /\ state = "RELEASE" /\ init_count > 1
  /\ NobodyIn({"read", "cas", "count", "release", "reset"})
  /\ ~NobodyIn(Counted)
  /\ NoneHasReturned \/ party = At(Entering)

Resetting ==
  /\ alive /\ state = "RELEASE"
  /\ NobodyIn({"read", "cas", "count"} \cup Counted)
  /\ AtMostOneIn({"reset"})
  /\ ~NobodyIn({"reset"})
  /\ party = At(Entering)

Alone ==
  /\ alive /\ state = "WAIT" /\ init_count = 1
  /\ NobodyIn(Busy \ {"leave", "reset", "wakelast"})
  /\ AtMostOneIn({"leave", "reset"})
  /\ ~NobodyIn({"leave", "reset"})
  /\ party = At({"leave", "reset"})

Phase == Filling \/ Complete \/ Draining \/ Resetting \/ Alone

\* The serial thread knows how many others there are to be woken.
SerialKnowsTheOthers ==
  \A t \in Threads :
    pc[t] \in {"release", "wakeall"} => prev[t] > 0 /\ prev[t] + 1 = init_count

\* Who sleeps is in a loop, and in the queue of the barrier's own flavour.
SleepersInQueue ==
  /\ mode \in [Threads -> {"run", "call", "asleep"}]
  /\ shared \in [Threads -> BOOLEAN] /\ pshared \in BOOLEAN
  /\ ahead \in [Threads -> SUBSET Threads]
  /\ \A t \in Threads : /\ mode[t] # "run" => pc[t] \in Loops
                        /\ mode[t] = "asleep" => shared[t] = pshared

\* Who sleeps through the release of its cycle sleeps longer than those that came
\* after it.
ReleasedAreFirst ==
  state = "RELEASE" =>
    \A t, u \in Threads :
      /\ mode[t] = "asleep" /\ pc[t] = "check"
      /\ mode[u] = "asleep" /\ pc[u] # "check"
      => t \in ahead[u]

Turns ==
  /\ Room /\ Phase /\ SerialKnowsTheOthers /\ SleepersInQueue
  /\ NobodyTurnedAway
  /\ InOrder => ReleasedAreFirst /\ NoLostWakeup

-----------------------------------------------------------------------------
(* Room                                                                    *)

\* A party is that of the cycle, or nobody, or a thread more where there is room.
LEMMA PartyKeepsRoom ==
  ASSUME IInv, Room, UNCHANGED init_count, alive' => alive,
         \/ party' \in {party, {}}
         \/ Cardinality(party) < init_count /\ \E t \in Threads : party' = party \cup {t}
  PROVE  Room'
<1>1. IsFiniteSet(party) /\ Cardinality(party) \in Nat /\ init_count \in Nat
  BY BarrierAssumption, FS_Subset, FS_CardinalityType DEF IInv, Shape
<1>2. CASE party' = party
  BY <1>2 DEF Room
<1>3. CASE party' = {}
  BY <1>1, <1>3, FS_EmptySet DEF Room
<1>4. ASSUME NEW t \in Threads, Cardinality(party) < init_count, party' = party \cup {t}
      PROVE  Room'
  BY <1>1, <1>4, FS_AddElement DEF Room
<1> QED
  BY <1>2, <1>3, <1>4

\* The party of a new barrier is nobody.
LEMMA InitKeepsRoom ==
  ASSUME IInv, Phase, NEW t \in Threads, BarrierInit(t)
  PROVE  Room'
<1>1. ~alive /\ init_count' \in Nat \ {0} /\ party' \in {party, {}}
  BY BarrierAssumption DEF BarrierInit, Return, IInv, Shape
<1>2. party = {}
  BY <1>1 DEF Phase, Filling, PartyOfOneLeaves, Complete, Draining, Resetting, Alone, IInv, DeadIsEmpty,
              At
<1> QED
  BY <1>1, <1>2, FS_EmptySet DEF Room

\* Every step leaves the party no larger than the count.
LEMMA StepKeepsRoom ==
  ASSUME IInv, Room, Phase, Orderly, NEW t \in Threads, Progress(t) \/ Environment(t)
  PROVE  Room'
<1>1. CASE BarrierInit(t)
  BY <1>1, InitKeepsRoom
<1>2. CASE WaitCall(t)
  <2>1. party' = party \cup {t} /\ UNCHANGED <<alive, init_count>> /\ Cardinality(party) < init_count
    BY <1>2 DEF WaitCall, ThereIsRoom, barrier
  <2> QED
    BY <2>1, PartyKeepsRoom
<1>3. CASE DestroyFinish(t)
  <2>1. CASE wait_count = 0
    BY <1>3, <2>1 DEF DestroyFinish, Room
  <2>2. CASE wait_count # 0
    <3>1. UNCHANGED <<alive, init_count>> /\ party' \in {party, {}}
      BY <1>3, <2>2 DEF DestroyFinish, Return
    <3> QED
      BY <3>1, PartyKeepsRoom
  <2> QED
    BY <2>1, <2>2
<1>4. CASE LoopTest(t) \/ LoopSleep(t) \/ EnterFails(t) \/ Interrupt(t) \/ DestroyCall(t) \/ ReadCount(t)
           \/ Enter(t) \/ ReleaseCycle(t) \/ WakeWaiters(t) \/ ResetCycle(t)
  <2>1. UNCHANGED <<alive, init_count, party>>
    BY <1>4 DEF LoopTest, LoopSleep, EnterFails, Interrupt, DestroyCall, ReadCount, Enter, ReleaseCycle,
                WakeWaiters, ResetCycle, barrier, NoReturn
  <2> QED
    BY <2>1, PartyKeepsRoom
<1>5. CASE Leave(t) \/ TooMany(t) \/ WakeNextCycle(t) \/ BarrierInitForNobody(t) \/ DestroyAgain(t)
  <2>1. UNCHANGED <<alive, init_count>> /\ party' \in {party, {}}
    BY <1>5 DEF Leave, TooMany, WakeNextCycle, BarrierInitForNobody, DestroyAgain, barrier, NoReturn, Return
  <2> QED
    BY <2>1, PartyKeepsRoom
<1> QED
  BY <1>1, <1>2, <1>3, <1>4, <1>5 DEF Progress, Environment

-----------------------------------------------------------------------------
(* Phase                                                                   *)

\* What the clients do with their barriers is the same all the time.
LEMMA ClientsStay ==
  ASSUME NEW t \in Threads, Progress(t) \/ Environment(t) PROVE UNCHANGED clients
BY DEF Progress, Environment, LoopTest, LoopSleep, ReadCount, TooMany, EnterFails, Enter, ReleaseCycle,
       WakeWaiters, Leave, ResetCycle, WakeNextCycle, DestroyFinish, BarrierInit, BarrierInitForNobody,
       WaitCall, DestroyCall, DestroyAgain, Interrupt, barrier

\* Sets of threads are finite.
LEMMA SubsetOfThreads ==
  ASSUME NEW S \in SUBSET Threads
  PROVE  IsFiniteSet(S) /\ Cardinality(S) \in Nat
BY BarrierAssumption, FS_Subset, FS_CardinalityType

\* A set of threads that is not larger than its subset is that subset.
LEMMA NoSmallerThanItsSubset ==
  ASSUME NEW S \in SUBSET Threads, NEW T \in SUBSET S, Cardinality(S) <= Cardinality(T)
  PROVE  S = T
<1>1. IsFiniteSet(S) /\ Cardinality(S) \in Nat /\ Cardinality(T) \in Nat
  BY SubsetOfThreads
<1> QED
  BY <1>1, FS_Subset

\* When as many are counted as the barrier is for, they are all of the party.
LEMMA FullMeansEverybody ==
  ASSUME IInv, Room, alive, wait_count = init_count, At(Counted) \subseteq party
  PROVE  party = At(Counted)
<1>1. Cardinality(party) <= Cardinality(At(Counted)) /\ party \in SUBSET Threads
  BY DEF IInv, Shape, CountIsExact, Room
<1> QED
  BY <1>1, NoSmallerThanItsSubset

\* The last but one to leave leaves somebody behind, the last one nobody.
LEMMA LastIsCounted ==
  ASSUME IInv, alive, NEW t \in Threads, pc[t] \in Counted
  PROVE  /\ wait_count = 1 => \A u \in Threads : pc[u] \in Counted => u = t
         /\ wait_count # 1 => \E u \in Threads : pc[u] \in Counted /\ u # t
<1>1. IsFiniteSet(At(Counted)) /\ t \in At(Counted) /\ wait_count = Cardinality(At(Counted))
  BY AtIsFinite DEF At, IInv, CountIsExact
<1>2. wait_count = 1 => \E x : At(Counted) = {x}
  BY <1>1, FS_Singleton
<1>3. wait_count # 1 => At(Counted) # {t}
  BY <1>1, FS_Singleton
<1> QED
  BY <1>1, <1>2, <1>3 DEF At

\* There is no room in a barrier that is complete or whose only user is in it.
LEMMA RoomToCall ==
  ASSUME IInv, alive, Cardinality(party) < init_count
  PROVE  ~Complete /\ ~Alone /\ ~PartyOfOneLeaves /\ ~NoneHasReturned
<1>1. wait_count = Cardinality(At(Counted)) /\ wait_count \in Nat /\ init_count \in Nat
  BY DEF IInv, CountIsExact, Shape
<1>2. ~Complete /\ ~NoneHasReturned
  BY <1>1 DEF Complete, NoneHasReturned
<1>3. ASSUME NEW x, x \in party, init_count = 1 PROVE FALSE
  <2>1. IsFiniteSet(party) /\ Cardinality(party) = 0
    BY <1>3, BarrierAssumption, FS_Subset, FS_CardinalityType DEF IInv, Shape
  <2> QED
    BY <1>3, <2>1, FS_EmptySet
<1>4. ~Alone
  BY <1>3 DEF Alone, NobodyIn, At
<1>5. ~PartyOfOneLeaves
  BY <1>3 DEF PartyOfOneLeaves
<1> QED
  BY <1>2, <1>4, <1>5

\* A thread that calls wait or destroy does not change the phase.
LEMMA CallKeepsPhase ==
  ASSUME IInv, Phase, Orderly, NEW t \in Threads, WaitCall(t) \/ DestroyCall(t)
  PROVE  Phase'
<1> USE DEF Busy, InWait, Entering, Counted, Leaving, Destroying
<1>1. PICK l \in {"gate", "drain"} :
        Goto(t, l) /\ party' = IF l = "gate" THEN party \cup {t} ELSE party
  BY DEF WaitCall, DestroyCall, NoReturn
<1>2. /\ alive /\ Cardinality(party) < init_count
      /\ pc[t] = "idle" /\ UNCHANGED <<alive, init_count, state, wait_count>>
  BY DEF WaitCall, DestroyCall, ThereIsRoom, barrier
<1>3. Filling \/ Draining \/ Resetting
  BY <1>2, RoomToCall DEF Phase
<1>4. \A u \in Threads : pc'[u] = IF u = t THEN l ELSE pc[u]
  BY <1>1 DEF Goto, IInv, Shape
<1>5. /\ At(Entering)' = IF l = "gate" THEN At(Entering) \cup {t} ELSE At(Entering)
      /\ At(Entering \cup Counted)' = IF l = "gate" THEN At(Entering \cup Counted) \cup {t}
                                      ELSE At(Entering \cup Counted)
  BY <1>2, <1>4 DEF At
<1>6. Filling => Filling'
  <2>1. ASSUME Filling PROVE party' = At(Entering \cup Counted)'
    BY <1>1, <1>2, <1>5, <2>1, RoomToCall DEF Filling
  <2> QED
    BY <1>2, <1>4, <2>1 DEF Filling, NobodyIn
<1>7. Draining => Draining'
  <2>1. ASSUME Draining PROVE party' = At(Entering)'
    BY <1>1, <1>2, <1>5, <2>1, RoomToCall DEF Draining
  <2> QED
    BY <1>2, <1>4, <2>1 DEF Draining, NobodyIn
<1>8. Resetting => Resetting'
  BY <1>1, <1>2, <1>4, <1>5 DEF Resetting, NobodyIn, AtMostOneIn
<1> QED
  BY <1>3, <1>6, <1>7, <1>8 DEF Phase

\* A thread passes a loop when the state lets it.
LEMMA LoopKeepsPhase ==
  ASSUME IInv, Phase, NEW t \in Threads, LoopTest(t)
  PROVE  Phase'
<1> USE DEF Busy, InWait, Entering, Counted, Leaving, Destroying
<1>1. UNCHANGED <<alive, init_count, state, wait_count, party>>
  BY DEF LoopTest, barrier, NoReturn
<1>2. CASE UNCHANGED pc
  BY <1>1, <1>2 DEF Phase, Filling, PartyOfOneLeaves, Complete, NoneHasReturned, Draining, Resetting, Alone,
                    NobodyIn, AtMostOneIn, At
<1>3. CASE ~UNCHANGED pc
  <2>1. pc[t] \in Loops /\ state # While[pc[t]] /\ Goto(t, After[pc[t]])
    BY <1>3 DEF LoopTest
  <2>2. /\ pc[t] \in {"gate", "drain"} => Filling /\ After[pc[t]] \in {"read", "count"}
        /\ pc[t] = "gate" => After[pc[t]] = "read"
        /\ pc[t] = "drain" => After[pc[t]] = "count"
        /\ pc[t] = "check" => Draining /\ After[pc[t]] = "leave"
    BY <2>1 DEF Loops, While, After, Phase, Filling, Complete, Draining, Resetting, Alone, NobodyIn
  <2>3. \A u \in Threads : pc'[u] = IF u = t THEN After[pc[t]] ELSE pc[u]
    BY <2>1 DEF Goto, IInv, Shape
  <2>4. CASE pc[t] \in {"gate", "drain"}
    <3>1. ~PartyOfOneLeaves
      BY <2>4 DEF PartyOfOneLeaves, NobodyIn
    <3>2. party' = At(Entering \cup Counted)'
      BY <1>1, <2>2, <2>3, <2>4, <3>1 DEF Filling, At
    <3> QED
      BY <1>1, <2>2, <2>3, <2>4, <3>2 DEF Phase, Filling, NobodyIn
  <2>5. CASE pc[t] = "check"
    <3>1. At(Counted)' = At(Counted) /\ At(Entering)' = At(Entering)
      BY <2>2, <2>3, <2>5 DEF At
    <3> QED
      BY <1>1, <2>2, <2>3, <2>5, <3>1 DEF Phase, Draining, NoneHasReturned, NobodyIn
  <2> QED
    BY <2>1, <2>4, <2>5 DEF Loops
<1> QED
  BY <1>2, <1>3

\* The last one completes the barrier, all others let it fill.
LEMMA EnterKeepsPhase ==
  ASSUME IInv, IInv', Room', Phase, NEW t \in Threads, Enter(t)
  PROVE  Phase'
<1> USE DEF Busy, InWait, Entering, Counted, Leaving, Destroying
<1>1. /\ pc[t] = "cas" /\ wait_count' = wait_count + 1 /\ wait_count \in Nat
      /\ init_count \in Nat /\ prev[t] = wait_count
      /\ UNCHANGED <<alive, state, init_count, party>>
  BY DEF Enter, Full, Unraced, NoReturn, IInv, Shape
<1>2. Filling /\ alive
  BY <1>1 DEF Phase, Filling, Complete, Draining, Resetting, Alone, NobodyIn, IInv, DeadIsEmpty, At
<1>3. party = At(Entering \cup Counted) /\ NobodyIn(Destroying)
  <2>1. ~PartyOfOneLeaves
    BY <1>1 DEF PartyOfOneLeaves, NobodyIn
  <2>2. At(Destroying) = {}
    BY <1>1 DEF IInv, DestroyerAlone, At
  <2> QED
    BY <1>2, <2>1, <2>2 DEF Filling, NobodyIn, At
<1>4. CASE ~CompletesCycle(prev[t])
  <2>1. Goto(t, "check")
    BY <1>4 DEF Enter
  <2>2. \A u \in Threads : pc'[u] = IF u = t THEN "check" ELSE pc[u]
    BY <2>1 DEF Goto, IInv, Shape
  <2>3. wait_count' < init_count'
    BY <1>1, <1>2, <1>4 DEF Filling, CompletesCycle
  <2>4. party' = At(Entering \cup Counted)'
    BY <1>1, <1>3, <2>2 DEF At
  <2> QED
    BY <1>1, <1>2, <2>2, <2>3, <2>4 DEF Phase, Filling, NobodyIn
<1>5. CASE CompletesCycle(prev[t])
  <2>1. PICK l \in {"release", "leave"} : Goto(t, l) /\ (l = "leave" <=> prev[t] = 0)
    BY <1>5 DEF Enter
  <2>2. \A u \in Threads : pc'[u] = IF u = t THEN l ELSE pc[u]
    BY <2>1 DEF Goto, IInv, Shape
  <2>3. wait_count' = init_count' /\ alive'
    BY <1>1, <1>2, <1>5 DEF CompletesCycle
  <2>4. party' = At(Counted)'
    <3>1. At(Counted)' \in SUBSET party'
      BY <1>1, <1>3, <2>2 DEF At
    <3> QED
      <4>1. Cardinality(party') <= Cardinality(At(Counted)') /\ party' \in SUBSET Threads
        BY <2>3 DEF IInv, Shape, CountIsExact, Room
      <4> QED
        BY <3>1, <4>1, NoSmallerThanItsSubset
  <2>5. \A u \in Threads : pc'[u] \in Busy => pc'[u] \in Counted \cup {"wakelast"}
    <3>1. \A u \in Threads : pc'[u] \in Entering => u \in party'
      BY <1>1, <1>3, <2>2 DEF At
    <3> QED
      BY <1>2, <1>3, <2>2, <2>4, <3>1 DEF Filling, NobodyIn, At
  <2>6. CASE l = "release"
    <3>1. Complete'
      BY <1>1, <1>2, <2>2, <2>3, <2>4, <2>5, <2>6 DEF Filling, Complete, NobodyIn, AtMostOneIn
    <3> QED
      BY <3>1 DEF Phase
  <2>7. CASE l = "leave"
    <3>1. init_count' = 1 /\ wait_count' = 1 /\ pc'[t] = "leave"
      BY <1>1, <2>1, <2>2, <2>3, <2>7
    <3>2. \A u \in Threads : pc'[u] \in Counted => u = t
      <4>1. IsFiniteSet(At(Counted)') /\ Cardinality(At(Counted)') = 1 /\ t \in At(Counted)'
        <5>1. At(Counted)' \in SUBSET Threads
          BY DEF At
        <5> QED
          BY <2>3, <3>1, <5>1, SubsetOfThreads DEF At, IInv, CountIsExact
      <4>2. \E x : At(Counted)' = {x}
        BY <4>1, FS_Singleton
      <4> QED
        BY <4>1, <4>2 DEF At
    <3>3. At({"leave", "reset"})' = At(Counted)'
      BY <1>2, <2>2, <2>7, <3>2 DEF Filling, NobodyIn, At
    <3>4. Alone'
      BY <1>1, <1>2, <2>2, <2>3, <2>4, <2>5, <2>7, <3>1, <3>2, <3>3
         DEF Filling, Alone, NobodyIn, AtMostOneIn
    <3> QED
      BY <3>4 DEF Phase
  <2> QED
    BY <2>6, <2>7
<1> QED
  BY <1>4, <1>5

\* The last but one of a complete cycle leaves while others are counted.
LEMMA LeavingKeepsDraining ==
  ASSUME IInv, Phase, NEW t \in Threads, Leave(t), wait_count # 1
  PROVE  Draining'
<1> USE DEF Busy, InWait, Entering, Counted, Leaving, Destroying
<1>1. /\ pc[t] = "leave" /\ UNCHANGED <<state, alive, init_count>> /\ Goto(t, "idle")
      /\ party' = IF t \in party THEN {} ELSE party
  BY DEF Leave, LastToLeave, Return
<1>2. alive /\ (Draining \/ Alone)
  BY <1>1 DEF Phase, Filling, Complete, Draining, Resetting, Alone, NobodyIn
<1>3. \E u \in Threads : pc[u] \in Counted /\ u # t
  BY <1>1, <1>2, LastIsCounted
<1>4. Draining
  BY <1>1, <1>2, <1>3 DEF Alone, NobodyIn, AtMostOneIn
<1>5. \A u \in Threads : pc'[u] = IF u = t THEN "idle" ELSE pc[u]
  BY <1>1 DEF Goto, IInv, Shape
<1>6. party' = At(Entering)'
  <2>1. At(Entering)' = At(Entering) /\ t \notin At(Entering)
    BY <1>1, <1>5 DEF At
  <2>2. CASE NoneHasReturned
    <3>1. t \in party /\ At(Entering) = {}
      BY <1>1, <2>2 DEF NoneHasReturned, NobodyIn, At
    <3> QED
      BY <1>1, <2>1, <3>1
  <2>3. CASE party = At(Entering)
    BY <1>1, <2>1, <2>3
  <2> QED
    BY <1>4, <2>2, <2>3 DEF Draining
<1> QED
  BY <1>1, <1>3, <1>4, <1>5, <1>6 DEF Draining, NobodyIn

\* The serial thread lets the others go, and the last of them resets the barrier.
LEMMA LeavingKeepsPhase ==
  ASSUME IInv, Room, Phase, SerialKnowsTheOthers, NEW t \in Threads,
         ReleaseCycle(t) \/ WakeWaiters(t) \/ Leave(t) \/ ResetCycle(t)
  PROVE  Phase'
<1> USE DEF Busy, InWait, Entering, Counted, Leaving, Destroying
<1>1. UNCHANGED <<alive, init_count>>
  BY DEF ReleaseCycle, WakeWaiters, Leave, ResetCycle, barrier
<1>2. \A l : Goto(t, l) => \A u \in Threads : pc'[u] = IF u = t THEN l ELSE pc[u]
  BY DEF Goto, IInv, Shape
<1>3. CASE ReleaseCycle(t)
  <2>1. pc[t] = "release" /\ state' = "RELEASE" /\ Goto(t, "wakeall") /\ UNCHANGED <<wait_count, party>>
    BY <1>3 DEF ReleaseCycle, NoReturn
  <2>2. Complete
    BY <2>1 DEF Phase, Filling, Complete, Draining, Resetting, Alone, NobodyIn
  <2>3. At(Counted)' = At(Counted)
    BY <1>2, <2>1 DEF At
  <2>4. init_count > 1
    BY <2>1 DEF SerialKnowsTheOthers, IInv, Shape
  <2>5. Draining'
    BY <1>1, <1>2, <2>1, <2>2, <2>3, <2>4 DEF Complete, Draining, NoneHasReturned, NobodyIn, AtMostOneIn
  <2> QED
    BY <2>5 DEF Phase
<1>4. CASE WakeWaiters(t)
  <2>1. pc[t] = "wakeall" /\ Goto(t, "leave") /\ UNCHANGED <<state, wait_count, party>>
    BY <1>4 DEF WakeWaiters, barrier, NoReturn
  <2>2. Draining
    BY <2>1 DEF Phase, Filling, Complete, Draining, Resetting, Alone, NobodyIn
  <2>3. At(Counted)' = At(Counted) /\ At(Entering)' = At(Entering)
    BY <1>2, <2>1 DEF At
  <2>4. Draining'
    BY <1>1, <1>2, <2>1, <2>2, <2>3 DEF Draining, NoneHasReturned, NobodyIn
  <2> QED
    BY <2>4 DEF Phase
<1>5. CASE Leave(t)
  <2>1. pc[t] = "leave" /\ UNCHANGED state
    BY <1>5 DEF Leave
  <2>2. alive /\ (Draining \/ Alone)
    BY <2>1 DEF Phase, Filling, Complete, Draining, Resetting, Alone, NobodyIn
  <2>3. CASE wait_count = 1
    <3>1. Goto(t, "reset") /\ UNCHANGED party
      BY <1>5, <2>3 DEF Leave, LastToLeave, NoReturn
    <3>2. \A u \in Threads : pc[u] \in Counted => u = t
      BY <2>1, <2>2, <2>3, LastIsCounted
    <3>3. At(Entering)' = At(Entering) /\ At({"leave", "reset"})' = At({"leave", "reset"})
      BY <1>2, <2>1, <3>1 DEF At
    <3>4. Draining => Resetting'
      BY <1>1, <1>2, <2>1, <2>3, <3>1, <3>2, <3>3
         DEF Draining, NoneHasReturned, Resetting, NobodyIn, AtMostOneIn
    <3>5. Alone => Alone'
      BY <1>1, <1>2, <2>1, <3>1, <3>3 DEF Alone, NobodyIn, AtMostOneIn
    <3> QED
      BY <2>2, <3>4, <3>5 DEF Phase
  <2>4. CASE wait_count # 1
    BY <1>5, <2>4, LeavingKeepsDraining DEF Phase
  <2> QED
    BY <2>3, <2>4
<1>6. CASE ResetCycle(t)
  <2>1. pc[t] = "reset" /\ state' = "WAIT" /\ Goto(t, "wakelast") /\ UNCHANGED <<wait_count, party>>
    BY <1>6 DEF ResetCycle, NextState, NoReturn
  <2>2. Resetting \/ Alone
    BY <2>1 DEF Phase, Filling, Complete, Draining, Resetting, Alone, NobodyIn
  <2>3. alive /\ NobodyIn(Counted)
    BY <2>1, <2>2 DEF Resetting, Alone, NobodyIn, AtMostOneIn
  <2>4. wait_count = 0
    BY <2>3, FS_EmptySet DEF IInv, CountIsExact, At, NobodyIn
  <2>5. Resetting => party' = At(Entering \cup Counted)'
    BY <1>2, <2>1, <2>3 DEF Resetting, NobodyIn, At
  <2>6. Alone => PartyOfOneLeaves'
    <3>1. Alone => party = {t}
      BY <2>1 DEF Alone, AtMostOneIn, At
    <3>2. ASSUME Alone PROVE alive' /\ init_count' = 1 /\ party' = {t} /\ pc'[t] = "wakelast"
      BY <1>1, <1>2, <2>1, <3>1, <3>2 DEF Alone
    <3>3. Alone => NobodyIn(Entering \cup Counted \cup Destroying)'
      BY <1>2, <2>1 DEF Alone, AtMostOneIn, NobodyIn
    <3> QED
      BY <3>2, <3>3 DEF PartyOfOneLeaves
  <2>7. Filling'
    BY <1>1, <1>2, <2>1, <2>2, <2>3, <2>4, <2>5, <2>6
       DEF Resetting, Alone, Filling, NobodyIn, AtMostOneIn, Room
  <2> QED
    BY <2>7 DEF Phase
<1> QED
  BY <1>3, <1>4, <1>5, <1>6

\* A call that returns without having been counted, or after the reset, lets the
\* barrier fill.
LEMMA ReturnKeepsFilling ==
  ASSUME IInv, Phase, NobodyTurnedAway, Orderly, NEW t \in Threads,
         ReadCount(t) \/ TooMany(t) \/ WakeNextCycle(t) \/ DestroyFinish(t)
  PROVE  Filling' \/ (WakeNextCycle(t) /\ ~Filling)
<1> USE DEF Busy, InWait, Entering, Counted, Leaving, Destroying
<1>1. ~TooMany(t)
  BY DEF TooMany, Full, NobodyTurnedAway, IInv, Shape
<1>2. SUFFICES ASSUME WakeNextCycle(t) => Filling PROVE Filling'
  OBVIOUS
<1>3. PICK l \in {"cas", "idle"} : Goto(t, l)
  BY <1>1 DEF ReadCount, WakeNextCycle, DestroyFinish, Return
<1>4. /\ pc[t] \in {"read", "wakelast", "count"} /\ (l = "cas" <=> pc[t] = "read")
      /\ UNCHANGED <<state, wait_count>>
      /\ alive' => alive /\ UNCHANGED init_count
      /\ party' = IF pc[t] # "read" /\ t \in party THEN {} ELSE party
      /\ alive' # alive => pc[t] = "count"
  BY <1>1, <1>3 DEF ReadCount, WakeNextCycle, DestroyFinish, barrier, Return, NoReturn, Goto, IInv, Shape
<1>5. Filling
  BY <1>1, <1>2 DEF Phase, Filling, Complete, Draining, Resetting, Alone, NobodyIn, ReadCount,
                    DestroyFinish
<1>6. \A u \in Threads : pc'[u] = IF u = t THEN l ELSE pc[u]
  BY <1>3 DEF Goto, IInv, Shape
<1>7. At(Entering \cup Counted)' = At(Entering \cup Counted)
  BY <1>4, <1>6 DEF At
<1>8. party' = At(Entering \cup Counted)' \/ PartyOfOneLeaves'
  <2>1. CASE party = At(Entering \cup Counted)
    BY <1>4, <1>7, <2>1 DEF At
  <2>2. CASE PartyOfOneLeaves
    <3>1. PICK u \in Threads : party = {u} /\ pc[u] = "wakelast"
      BY <2>2 DEF PartyOfOneLeaves
    <3>2. pc[t] = "wakelast" /\ At(Entering \cup Counted) = {}
      BY <1>4, <2>2 DEF PartyOfOneLeaves, NobodyIn, At
    <3>3. CASE u = t
      BY <1>4, <1>7, <3>1, <3>2, <3>3
    <3>4. CASE u # t
      <4>1. party' = {u} /\ pc'[u] = "wakelast" /\ alive' /\ init_count' = 1
        BY <1>4, <1>6, <2>2, <3>1, <3>2, <3>4 DEF PartyOfOneLeaves, IInv, Shape
      <4> QED
        BY <1>4, <1>6, <2>2, <3>2, <4>1 DEF PartyOfOneLeaves, NobodyIn
    <3> QED
      BY <3>3, <3>4
  <2> QED
    BY <1>5, <2>1, <2>2 DEF Filling
<1> QED
  BY <1>4, <1>5, <1>6, <1>8 DEF Filling, NobodyIn

\* The wake call of an earlier cycle's last leaver may come in any other phase too.
LEMMA LateWakeKeepsPhase ==
  ASSUME IInv, Phase, ~Filling, NEW t \in Threads, WakeNextCycle(t)
  PROVE  Phase'
<1> USE DEF Busy, InWait, Entering, Counted, Leaving, Destroying
<1>1. /\ pc[t] = "wakelast" /\ UNCHANGED <<alive, init_count, state, wait_count>> /\ Goto(t, "idle")
      /\ party' = IF t \in party THEN {} ELSE party
  BY DEF WakeNextCycle, barrier, Return
<1>2. \A u \in Threads : pc'[u] = IF u = t THEN "idle" ELSE pc[u]
  BY <1>1 DEF Goto, IInv, Shape
<1>3. /\ At(Counted)' = At(Counted) /\ At(Entering)' = At(Entering)
      /\ At({"leave", "reset"})' = At({"leave", "reset"})
  BY <1>1, <1>2 DEF At
<1>4. t \notin party
  BY <1>1 DEF Phase, Complete, Draining, NoneHasReturned, Resetting, Alone, At
<1>5. Complete => Complete'
  BY <1>1, <1>2, <1>3, <1>4 DEF Complete, NobodyIn, AtMostOneIn
<1>6. Draining => Draining'
  BY <1>1, <1>2, <1>3, <1>4 DEF Draining, NoneHasReturned, NobodyIn
<1>7. Resetting => Resetting'
  BY <1>1, <1>2, <1>3, <1>4 DEF Resetting, NobodyIn, AtMostOneIn
<1>8. Alone => Alone'
  BY <1>1, <1>2, <1>3, <1>4 DEF Alone, NobodyIn, AtMostOneIn
<1> QED
  BY <1>5, <1>6, <1>7, <1>8 DEF Phase

\* A call of an idle thread that returns at once, and a sleeper that goes on, leave
\* everybody in place.
LEMMA NobodyMovesKeepsPhase ==
  ASSUME IInv, Phase, UNCHANGED <<pc, alive, init_count, state, wait_count, party>>
  PROVE  Phase'
BY DEF Phase, Filling, PartyOfOneLeaves, Complete, NoneHasReturned, Draining, Resetting, Alone, NobodyIn,
       AtMostOneIn, At

\* An idle thread is of no party.
LEMMA IdleIsOfNoParty ==
  ASSUME Phase, NEW t \in Threads, pc[t] = "idle"
  PROVE  t \notin party
BY DEF Phase, Filling, PartyOfOneLeaves, Complete, NoneHasReturned, Draining, Resetting, Alone, At,
       Entering, Counted

\* Every step keeps the phase or goes on to the next one.
LEMMA StepKeepsPhase ==
  ASSUME IInv, IInv', Room, Room', Phase, SerialKnowsTheOthers, NobodyTurnedAway, Orderly,
         NEW t \in Threads, Progress(t) \/ Environment(t)
  PROVE  Phase'
<1>1. CASE WaitCall(t) \/ DestroyCall(t)
  BY <1>1, CallKeepsPhase
<1>2. CASE LoopTest(t)
  BY <1>2, LoopKeepsPhase
<1>3. CASE Enter(t)
  BY <1>3, EnterKeepsPhase
<1>4. CASE ReleaseCycle(t) \/ WakeWaiters(t) \/ Leave(t) \/ ResetCycle(t)
  BY <1>4, LeavingKeepsPhase
<1>5. CASE LoopSleep(t) \/ EnterFails(t) \/ Interrupt(t) \/ BarrierInitForNobody(t) \/ DestroyAgain(t)
  <2>1. UNCHANGED <<alive, init_count, state, wait_count>> /\ pc' = pc
    BY <1>5 DEF LoopSleep, EnterFails, Interrupt, BarrierInitForNobody, DestroyAgain, barrier, Return,
                Goto, IInv, Shape
  <2>2. party' = party
    BY <1>5, IdleIsOfNoParty DEF LoopSleep, EnterFails, Interrupt, BarrierInitForNobody, DestroyAgain,
                                 Return, NoReturn
  <2> QED
    BY <2>1, <2>2, NobodyMovesKeepsPhase
<1>6. CASE BarrierInit(t)
  <2>1. /\ ~alive /\ pc' = pc /\ state' = "WAIT" /\ wait_count' = 0 /\ init_count' \in Nat
        /\ init_count' > 0 /\ party' = party
    BY <1>6, BarrierAssumption, IdleIsOfNoParty DEF BarrierInit, Return, Goto, IInv, Shape
  <2> QED
    BY <2>1 DEF Phase, Filling, PartyOfOneLeaves, Complete, Draining, Resetting, Alone, NobodyIn, At
<1>7. CASE ReadCount(t) \/ TooMany(t) \/ WakeNextCycle(t) \/ DestroyFinish(t)
  BY <1>7, ReturnKeepsFilling, LateWakeKeepsPhase DEF Phase
<1> QED
  BY <1>1, <1>2, <1>3, <1>4, <1>5, <1>6, <1>7 DEF Progress, Environment

-----------------------------------------------------------------------------
(* The threads' copies of the count                                        *)

\* Who is about to enter finds the counter below the count.
LEMMA OnlyFillingCounts ==
  ASSUME IInv, Phase, NEW t \in Threads, pc[t] \in {"read", "cas"}
  PROVE  wait_count < init_count
<1>1. alive
  BY DEF IInv, DeadIsEmpty, At, Entering
<1> QED
  BY <1>1 DEF Phase, Filling, Complete, Draining, Resetting, Alone, NobodyIn, Busy, InWait, Entering

\* Every step preserves what the copies of wait_count say of the others.
LEMMA StepKeepsCopies ==
  ASSUME IInv, Phase, SerialKnowsTheOthers, NobodyTurnedAway, Orderly,
         NEW t \in Threads, Progress(t) \/ Environment(t)
  PROVE  SerialKnowsTheOthers' /\ NobodyTurnedAway'
<1> USE DEF SerialKnowsTheOthers, NobodyTurnedAway, Goto, Return, IInv, Shape, barrier, locals, Orderly
<1>1. CASE ReadCount(t) \/ EnterFails(t)
  <2>1. pc[t] \in {"read", "cas"} /\ UNCHANGED <<clients, init_count>>
    BY <1>1 DEF ReadCount, EnterFails
  <2>2. wait_count < init_count
    BY <2>1, OnlyFillingCounts
  <2>3. /\ \A u \in Threads : u # t => pc'[u] = pc[u] /\ prev'[u] = prev[u]
        /\ pc'[t] = "cas" /\ prev'[t] = wait_count
    BY <1>1 DEF ReadCount, EnterFails
  <2> QED
    BY <2>1, <2>2, <2>3
<1>2. CASE Enter(t)
  BY <1>2 DEF Enter, CompletesCycle
<1>3. CASE BarrierInit(t) \/ DestroyFinish(t)
  <2>1. /\ UNCHANGED clients
        /\ \A u \in Threads : u # t => pc'[u] = pc[u] /\ prev'[u] = prev[u]
        /\ pc'[t] = "idle"
    BY <1>3 DEF BarrierInit, DestroyFinish
  <2>2. CASE UNCHANGED init_count
    BY <2>1, <2>2
  <2>3. CASE ~UNCHANGED init_count
    <3>1. \A u \in Threads : pc[u] \notin {"cas", "release", "wakeall"}
      <4>1. CASE BarrierInit(t)
        BY <4>1 DEF BarrierInit, DeadIsEmpty, At, Entering, Counted
      <4>2. CASE DestroyFinish(t)
        <5>1. pc[t] = "count" /\ wait_count = 0
          BY <2>3, <4>2 DEF DestroyFinish
        <5>2. alive
          BY <5>1 DEF DeadIsEmpty, At, Destroying
        <5>3. At(Counted) = {}
          BY <5>1, <5>2, AtIsFinite, FS_EmptySet DEF CountIsExact
        <5>4. At(Entering) = {}
          BY <5>1 DEF DestroyerAlone, At, Destroying
        <5> QED
          BY <5>3, <5>4 DEF At, Entering, Counted
      <4> QED
        BY <1>3, <4>1, <4>2
    <3> QED
      BY <2>1, <3>1
  <2> QED
    BY <2>2, <2>3
<1>4. CASE LoopTest(t)
  BY <1>4 DEF LoopTest, Loops, After
<1>5. CASE LoopSleep(t) \/ Interrupt(t) \/ TooMany(t) \/ WakeNextCycle(t) \/ BarrierInitForNobody(t)
           \/ DestroyAgain(t) \/ WaitCall(t) \/ DestroyCall(t)
  BY <1>5 DEF LoopSleep, Interrupt, TooMany, WakeNextCycle, BarrierInitForNobody, DestroyAgain, WaitCall,
              DestroyCall
<1>6. CASE ReleaseCycle(t) \/ WakeWaiters(t) \/ Leave(t) \/ ResetCycle(t)
  BY <1>6 DEF ReleaseCycle, WakeWaiters, Leave, ResetCycle
<1> QED
  BY <1>1, <1>2, <1>3, <1>4, <1>5, <1>6 DEF Progress, Environment

-----------------------------------------------------------------------------
(* The sleepers                                                            *)

\* Every step leaves the sleepers in the queue of their loop.
LEMMA StepKeepsSleepers ==
  ASSUME IInv, Phase, SleepersInQueue, NEW t \in Threads, Progress(t) \/ Environment(t)
  PROVE  SleepersInQueue'
<1> USE DEF SleepersInQueue, Goto, Return, IInv, Shape, barrier, kernel, WakeUp
<1>1. CASE LoopTest(t)
  BY <1>1 DEF LoopTest, Loops, After
<1>2. CASE LoopSleep(t)
  BY <1>2 DEF LoopSleep, InFrontOf, Sleepers
<1>3. CASE WakeWaiters(t) \/ WakeNextCycle(t) \/ Interrupt(t)
  <2>1. PICK W \in SUBSET Threads : WakeUp(W)
    <3>1. CASE Interrupt(t)
      BY <3>1 DEF Interrupt
    <3>2. CASE WakeWaiters(t) \/ WakeNextCycle(t)
      <4>1. PICK flavour, count : Wake(flavour, count)
        BY <3>2 DEF WakeWaiters, WakeNextCycle
      <4>2. PICK W \in Wakeable(Sleepers(flavour), count) : WakeUp(W)
        BY <4>1 DEF Wake
      <4>3. W \in SUBSET Threads
        BY <4>2 DEF Wakeable, Sleepers
      <4> QED
        BY <4>2, <4>3
    <3> QED
      BY <1>3, <3>1, <3>2
  <2>2. UNCHANGED pshared /\ mode[t] \in {"run", "asleep"}
        /\ (mode[t] = "asleep" => UNCHANGED pc)
        /\ \A u \in Threads : u # t => pc'[u] = pc[u]
    BY <1>3 DEF WakeWaiters, WakeNextCycle, Interrupt, Loops
  <2> QED
    BY <2>1, <2>2
<1>4. CASE BarrierInit(t)
  <2>1. UNCHANGED <<pc, mode, shared, ahead>> /\ ~alive /\ pshared' \in BOOLEAN
    BY <1>4, BarrierAssumption DEF BarrierInit
  <2>2. \A u \in Threads : mode[u] # "asleep"
    BY <2>1 DEF DeadIsEmpty, At, Entering, Counted, Destroying, Loops
  <2> QED
    BY <2>1, <2>2
<1>5. CASE ReadCount(t) \/ EnterFails(t) \/ Enter(t) \/ TooMany(t) \/ ReleaseCycle(t) \/ Leave(t)
           \/ ResetCycle(t) \/ DestroyFinish(t) \/ BarrierInitForNobody(t) \/ DestroyAgain(t)
           \/ WaitCall(t) \/ DestroyCall(t)
  <2>1. UNCHANGED <<mode, shared, ahead, pshared>> /\ pc[t] \notin Loops
    BY <1>5 DEF ReadCount, EnterFails, Enter, TooMany, ReleaseCycle, Leave, ResetCycle, DestroyFinish,
                BarrierInitForNobody, DestroyAgain, WaitCall, DestroyCall, Loops
  <2>2. \A u \in Threads : u # t => pc'[u] = pc[u]
    BY <1>5 DEF ReadCount, EnterFails, Enter, TooMany, ReleaseCycle, Leave, ResetCycle, DestroyFinish,
                BarrierInitForNobody, DestroyAgain, WaitCall, DestroyCall
  <2> QED
    BY <2>1, <2>2
<1> QED
  BY <1>1, <1>2, <1>3, <1>4, <1>5 DEF Progress, Environment

\* A wake call for no fewer threads than there are sleepers wakes all of them.
LEMMA AllAreWoken ==
  ASSUME SleepersInQueue, NEW n \in Nat, Cardinality(Sleepers(pshared)) <= n, Wake(pshared, n)
  PROVE  \A u \in Threads : mode'[u] # "asleep"
<1> DEFINE S == Sleepers(pshared)
<1>1. S \in SUBSET Threads /\ Cardinality(S) \in Nat
  BY SubsetOfThreads DEF Sleepers
<1>2. PICK W \in Wakeable(S, n) : WakeUp(W)
  BY DEF Wake
<1>3. W = S
  <2>1. W \in SUBSET S /\ (W = S \/ Cardinality(W) = WakeLimit(n))
    BY <1>2 DEF Wakeable
  <2>2. CASE Cardinality(W) = WakeLimit(n)
    <3>1. Cardinality(S) <= Cardinality(W)
      BY <1>1, <2>2 DEF WakeLimit
    <3> QED
      BY <1>1, <2>1, <3>1, NoSmallerThanItsSubset
  <2> QED
    BY <2>1, <2>2
<1> QED
  BY <1>2, <1>3 DEF Sleepers, SleepersInQueue, WakeUp

\* A wake call for no fewer threads than sleep through the release of their cycle
\* wakes them, whoever else is in the queue behind them.
LEMMA FirstAreWoken ==
  ASSUME SleepersInQueue, ReleasedAreFirst, state = "RELEASE", NEW n \in Nat, Wake(pshared, n),
         Cardinality({u \in Sleepers(pshared) : pc[u] = "check"}) <= n
  PROVE  \A u \in Threads : mode'[u] = "asleep" => pc[u] # "check"
<1> DEFINE S == Sleepers(pshared)
           C == {u \in S : pc[u] = "check"}
<1>1. S \in SUBSET Threads /\ C \in SUBSET Threads /\ Cardinality(C) \in Nat
  <2>1. S \in SUBSET Threads /\ C \in SUBSET Threads
    BY DEF Sleepers
  <2> QED
    BY <2>1, SubsetOfThreads
<1>2. PICK W \in Wakeable(S, n) : (\A u \in W : ahead[u] \cap S \subseteq W) /\ WakeUp(W)
  BY DEF Wake
<1>3. W \in SUBSET S /\ (W = S \/ Cardinality(W) = WakeLimit(n))
  BY <1>2 DEF Wakeable
<1>4. C \subseteq W
  <2>1. CASE W = S
    BY <2>1
  <2>2. CASE W \subseteq C /\ Cardinality(W) = WakeLimit(n)
    <3>1. Cardinality(C) <= Cardinality(W)
      BY <1>1, <2>2 DEF WakeLimit
    <3> QED
      BY <1>1, <2>2, <3>1, NoSmallerThanItsSubset
  <2>3. CASE ~(W \subseteq C)
    <3>1. PICK w \in W : w \in S /\ pc[w] # "check"
      BY <1>3, <2>3
    <3>2. C \subseteq ahead[w]
      BY <3>1 DEF ReleasedAreFirst, Sleepers
    <3> QED
      BY <1>2, <3>1, <3>2
  <2> QED
    BY <1>3, <2>1, <2>2, <2>3
<1> QED
  BY <1>2, <1>4 DEF Sleepers, SleepersInQueue, WakeUp

\* Every step keeps the released threads in front.
LEMMA StepKeepsOrder ==
  ASSUME IInv, Phase, SleepersInQueue, InOrder, ReleasedAreFirst,
         NEW t \in Threads, Progress(t) \/ Environment(t)
  PROVE  ReleasedAreFirst'
<1> USE DEF ReleasedAreFirst, SleepersInQueue, IInv, Shape
<1>1. CASE LoopTest(t)
  <2>1. /\ UNCHANGED <<state, ahead>>
        /\ \A u \in Threads : mode'[u] = "asleep" => mode[u] = "asleep" /\ pc'[u] = pc[u]
    BY <1>1 DEF LoopTest, Goto, barrier
  <2> QED
    BY <2>1
<1>2. CASE LoopSleep(t)
  <2>1. UNCHANGED <<state, pc>>
    BY <1>2 DEF LoopSleep, barrier
  <2>2. CASE state = While[pc[t]]
    <3>1. mode' = [mode EXCEPT ![t] = "asleep"] /\ ahead' = [ahead EXCEPT ![t] = Sleepers(pshared)]
      BY <1>2, <2>2 DEF LoopSleep, InFrontOf
    <3>2. mode[t] # "run" /\ mode[t] # "asleep"
      BY <1>2 DEF LoopSleep
    <3>3. state = "RELEASE" => pc[t] # "check"
      BY <2>2, <3>2 DEF While, Loops
    <3> QED
      BY <2>1, <3>1, <3>2, <3>3 DEF Sleepers
  <2>3. CASE state # While[pc[t]]
    BY <1>2, <2>1, <2>3 DEF LoopSleep
  <2> QED
    BY <2>2, <2>3
<1>3. CASE WakeWaiters(t) \/ WakeNextCycle(t) \/ Interrupt(t)
  <2>1. PICK W \in SUBSET Threads : WakeUp(W)
    BY <1>3 DEF WakeWaiters, WakeNextCycle, Interrupt, Wake, Wakeable, Sleepers
  <2>2. UNCHANGED state /\ \A u \in Threads : mode'[u] = "asleep" => pc'[u] = pc[u]
    BY <1>3 DEF WakeWaiters, WakeNextCycle, Interrupt, Goto, Return, barrier, Wake, WakeUp, Loops
  <2> QED
    BY <2>1, <2>2 DEF WakeUp
<1>4. CASE ReleaseCycle(t)
  <2>1. pc[t] = "release" /\ UNCHANGED mode
    BY <1>4 DEF ReleaseCycle, kernel
  <2>2. Complete
    BY <2>1 DEF Phase, Filling, Complete, Draining, Resetting, Alone, NobodyIn, Busy, InWait, Counted
  <2>3. \A u \in Threads : mode'[u] = "asleep" => pc'[u] = "check"
    BY <1>4, <2>1, <2>2 DEF Complete, NobodyIn, Busy, InWait, Entering, Destroying, Loops, ReleaseCycle, Goto
  <2> QED
    BY <2>3
<1>5. CASE ResetCycle(t) \/ BarrierInit(t)
  BY <1>5 DEF ResetCycle, NextState, BarrierInit
<1>6. CASE ReadCount(t) \/ EnterFails(t) \/ Enter(t) \/ TooMany(t) \/ Leave(t) \/ DestroyFinish(t)
           \/ BarrierInitForNobody(t) \/ DestroyAgain(t) \/ WaitCall(t) \/ DestroyCall(t)
  <2>1. UNCHANGED <<state, mode, ahead>> /\ \A u \in Threads : u # t => pc'[u] = pc[u]
    BY <1>6 DEF ReadCount, EnterFails, Enter, TooMany, Leave, DestroyFinish, BarrierInitForNobody,
                DestroyAgain, WaitCall, DestroyCall, Goto, Return, barrier, kernel
  <2>2. mode[t] # "asleep"
    BY <1>6 DEF ReadCount, EnterFails, Enter, TooMany, Leave, DestroyFinish, BarrierInitForNobody,
                DestroyAgain, WaitCall, DestroyCall, Loops
  <2> QED
    BY <2>1, <2>2
<1> QED
  BY <1>1, <1>2, <1>3, <1>4, <1>5, <1>6 DEF Progress, Environment

\* The serial thread wakes all others of its cycle that sleep.
LEMMA WaitersAreWoken ==
  ASSUME IInv, Turns, InOrder, NEW t \in Threads, WakeWaiters(t)
  PROVE  state = "RELEASE" /\ \A u \in Threads : mode'[u] = "asleep" => pc[u] # "check"
<1> USE DEF Turns
<1> DEFINE C == {u \in Sleepers(pshared) : pc[u] = "check"}
<1>1. pc[t] = "wakeall" /\ Wake(pshared, prev[t]) /\ prev[t] \in Nat /\ prev[t] + 1 = init_count
  BY DEF WakeWaiters, WakeFlavour, SerialKnowsTheOthers, IInv, Shape
<1>2. alive /\ state = "RELEASE"
  BY <1>1 DEF Phase, Filling, Complete, Draining, Resetting, Alone, NobodyIn, Busy, InWait, Counted
<1>3. Cardinality(C) <= prev[t]
  <2>1. C \in SUBSET (At(Counted) \ {t}) /\ t \in At(Counted)
    BY <1>1 DEF At, Counted, Sleepers
  <2>2. /\ IsFiniteSet(At(Counted)) /\ Cardinality(At(Counted)) \in Nat
        /\ IsFiniteSet(At(Counted) \ {t})
        /\ Cardinality(At(Counted) \ {t}) = Cardinality(At(Counted)) - 1
    BY <2>1, AtIsFinite, FS_RemoveElement
  <2>3. Cardinality(C) <= Cardinality(At(Counted) \ {t}) /\ Cardinality(C) \in Nat
    BY <2>1, <2>2, FS_Subset, FS_CardinalityType
  <2>4. Cardinality(At(Counted)) <= init_count /\ init_count \in Nat
    BY <1>2 DEF IInv, CountIsExact, Shape
  <2> QED
    BY <1>1, <2>2, <2>3, <2>4
<1> QED
  BY <1>1, <1>2, <1>3, FirstAreWoken

\* The last leaver wakes all sleepers while the next cycle fills.
LEMMA NextAreWoken ==
  ASSUME IInv, Turns, Filling, NEW t \in Threads, WakeNextCycle(t)
  PROVE  \A u \in Threads : mode'[u] # "asleep"
<1> USE DEF Turns, Entering, Counted, Destroying
<1> DEFINE S == Sleepers(pshared)
<1>1. pc[t] = "wakelast" /\ Wake(pshared, init_count) /\ init_count \in Nat
  BY DEF WakeNextCycle, WakeNext, WakeFlavour, IInv, Shape
<1>2. S \in SUBSET At({"gate", "check", "drain"})
  BY DEF Sleepers, SleepersInQueue, Loops, At
<1>3. CASE S = {}
  BY <1>1, <1>3, AllAreWoken, FS_EmptySet
<1>4. CASE S # {}
  <2>1. alive /\ party = At(Entering \cup Counted)
    <3>1. PICK u \in S : u \in Threads /\ pc[u] \in {"gate", "check", "drain"}
      BY <1>2, <1>4 DEF At
    <3>2. alive
      BY <3>1 DEF IInv, DeadIsEmpty, At
    <3> QED
      BY <3>1, <3>2 DEF Filling, PartyOfOneLeaves, NobodyIn
  <2>2. /\ IsFiniteSet(party) /\ Cardinality(party) <= init_count /\ Cardinality(party) \in Nat
        /\ IsFiniteSet(At(Counted)) /\ Cardinality(At(Counted)) \in Nat
        /\ Cardinality(At(Counted)) < init_count
    BY <2>1, BarrierAssumption, FS_Subset, FS_CardinalityType, AtIsFinite
       DEF IInv, Shape, Room, CountIsExact, Filling
  <2>3. CASE At(Destroying) = {}
    <3>1. S \in SUBSET party
      BY <1>2, <2>1, <2>3 DEF At
    <3>2. Cardinality(S) <= Cardinality(party) /\ Cardinality(S) \in Nat
      BY <2>2, <3>1, FS_Subset, FS_CardinalityType
    <3> QED
      BY <1>1, <2>2, <3>2, AllAreWoken
  <2>4. ASSUME NEW d \in At(Destroying) PROVE \A u \in Threads : mode'[u] # "asleep"
    <3>1. S \in SUBSET (At(Counted) \cup {d})
      BY <1>2, <2>4 DEF IInv, DestroyerAlone, At
    <3>2. /\ IsFiniteSet(At(Counted) \cup {d})
          /\ Cardinality(At(Counted) \cup {d}) <= Cardinality(At(Counted)) + 1
          /\ Cardinality(At(Counted) \cup {d}) \in Nat
      <4>1. IsFiniteSet(At(Counted)) /\ Cardinality(At(Counted)) \in Nat
        BY AtIsFinite
      <4>2. IsFiniteSet(At(Counted) \cup {d})
        BY <4>1, FS_AddElement
      <4>3. Cardinality(At(Counted) \cup {d}) \in {Cardinality(At(Counted)), Cardinality(At(Counted)) + 1}
        BY <4>1, FS_AddElement
      <4> QED
        BY <4>1, <4>2, <4>3
    <3>3. Cardinality(S) <= Cardinality(At(Counted) \cup {d}) /\ Cardinality(S) \in Nat
      BY <3>1, <3>2, FS_Subset, FS_CardinalityType
    <3> QED
      BY <1>1, <2>2, <3>2, <3>3, AllAreWoken
  <2> QED
    BY <2>3, <2>4
<1> QED
  BY <1>3, <1>4

\* Every step that changes the word a thread sleeps on has a wake to come.
LEMMA StepKeepsWakes ==
  ASSUME IInv, Turns, InOrder, Orderly, NEW t \in Threads, Progress(t) \/ Environment(t)
  PROVE  NoLostWakeup'
<1> USE DEF NoLostWakeup, SleepersInQueue, Turns, IInv, Shape, Loops, Busy, InWait, Entering, Counted,
            Leaving, Destroying
<1>0. UNCHANGED clients
  BY ClientsStay
<1>1. CASE WakeWaiters(t)
  <2>1. state = "RELEASE" /\ \A u \in Threads : mode'[u] = "asleep" => pc[u] # "check"
    BY <1>1, WaitersAreWoken
  <2>2. UNCHANGED state /\ Goto(t, "leave") /\ pc[t] = "wakeall"
        /\ \A u \in Threads : mode'[u] = "asleep" => mode[u] = "asleep"
    BY <1>1 DEF WakeWaiters, barrier, Wake, WakeUp
  <2>3. \A u \in Threads : mode'[u] = "asleep" => pc'[u] \in {"gate", "drain"}
    BY <2>1, <2>2 DEF Goto
  <2> QED
    BY <2>1, <2>2, <2>3 DEF While
<1>2. CASE WakeNextCycle(t)
  <2>1. pc[t] = "wakelast" /\ UNCHANGED state /\ Goto(t, "idle")
        /\ \A u \in Threads : mode'[u] = "asleep" => mode[u] = "asleep"
    BY <1>2 DEF WakeNextCycle, barrier, Return, Wake, WakeUp
  <2>2. CASE Filling
    <3>1. \A u \in Threads : mode'[u] # "asleep"
      BY <1>2, <2>2, NextAreWoken
    <3> QED
      BY <3>1
  <2>3. CASE ~Filling
    <3>1. \A u \in Threads : pc'[u] = IF u = t THEN "idle" ELSE pc[u]
      BY <2>1 DEF Goto
    <3>2. \A u \in Threads : mode[u] = "asleep" /\ state # While[pc[u]] => pc[u] = "check"
      BY <2>3 DEF Phase, Complete, Draining, Resetting, Alone, NobodyIn, While
    <3>3. \A u \in Threads : mode'[u] = "asleep" => u # t
      BY <2>1
    <3> QED
      BY <1>0, <2>1, <3>1, <3>2, <3>3 DEF At, Orderly
  <2> QED
    BY <2>2, <2>3
<1>3. CASE ReleaseCycle(t)
  BY <1>0, <1>3 DEF ReleaseCycle, Goto, At, While, kernel, Orderly
<1>4. CASE ResetCycle(t)
  <2>1. \A u \in Threads : pc[u] # "check"
    BY <1>4 DEF ResetCycle, Phase, Filling, Complete, Draining, Resetting, Alone, NobodyIn
  <2> QED
    BY <1>0, <1>4, <2>1 DEF ResetCycle, Goto, At, While, NextState, kernel
<1>5. CASE LoopTest(t)
  BY <1>0, <1>5 DEF LoopTest, Goto, At, While, After, barrier, Orderly
<1>6. CASE LoopSleep(t)
  BY <1>0, <1>6 DEF LoopSleep, At, While, barrier, Orderly
<1>7. CASE BarrierInit(t)
  <2>1. \A u \in Threads : mode'[u] # "asleep"
    BY <1>7 DEF BarrierInit, DeadIsEmpty, At, kernel
  <2> QED
    BY <2>1
<1>8. CASE ReadCount(t) \/ EnterFails(t) \/ Enter(t) \/ TooMany(t) \/ Leave(t) \/ DestroyFinish(t)
           \/ BarrierInitForNobody(t) \/ DestroyAgain(t) \/ WaitCall(t) \/ DestroyCall(t) \/ Interrupt(t)
  <2>1. /\ UNCHANGED state
        /\ \A u \in Threads : u # t => pc'[u] = pc[u] /\ mode'[u] = mode[u]
        /\ pc[t] \notin {"wakeall", "wakelast"}
        /\ mode'[t] # "asleep"
    BY <1>8 DEF ReadCount, EnterFails, Enter, TooMany, Leave, DestroyFinish, BarrierInitForNobody,
                DestroyAgain, WaitCall, DestroyCall, Interrupt, Goto, Return, barrier, kernel, WakeUp
  <2> QED
    BY <1>0, <2>1 DEF At, While, Orderly
<1> QED
  BY <1>1, <1>2, <1>3, <1>4, <1>5, <1>6, <1>7, <1>8 DEF Progress, Environment

-----------------------------------------------------------------------------

\* The turns begin without a barrier.
LEMMA InitTurns == Init => Turns
<1> SUFFICES ASSUME Init PROVE Turns
  OBVIOUS
<1>1. Filling
  BY DEF Init, Filling, NobodyIn, At, Entering, Counted
<1> QED
  BY <1>1 DEF Init, Turns, Room, Phase, SerialKnowsTheOthers, SleepersInQueue, NobodyTurnedAway,
              NoLostWakeup, ReleasedAreFirst

\* What the proofs below keep: clients that are no crowd take their turns.
IInvOfTurns == IInv /\ (Orderly => Turns)

\* Every step of pthread_barrier.c preserves the turns.
LEMMA StepKeepsTurns == IInvOfTurns /\ IInv' /\ [Next]_vars => IInvOfTurns'
<1> SUFFICES ASSUME IInv, IInv', Orderly', Orderly => Turns, [Next]_vars PROVE Turns'
  BY DEF IInvOfTurns
<1>1. CASE UNCHANGED vars
  <2>1. Turns
    BY <1>1 DEF vars, Orderly
  <2>2. Room' /\ SerialKnowsTheOthers' /\ SleepersInQueue' /\ NobodyTurnedAway'
    BY <1>1, <2>1 DEF vars, Turns, Room, SerialKnowsTheOthers, SleepersInQueue, NobodyTurnedAway, Orderly
  <2>3. Phase'
    BY <1>1, <2>1, NobodyMovesKeepsPhase DEF vars, Turns
  <2>4. InOrder => ReleasedAreFirst' /\ NoLostWakeup'
    BY <1>1, <2>1 DEF vars, Turns, ReleasedAreFirst, NoLostWakeup, Orderly, At
  <2> QED
    BY <2>2, <2>3, <2>4 DEF Turns
<1>2. CASE Next
  <2>1. PICK t \in Threads : Progress(t) \/ Environment(t)
    BY <1>2 DEF Next
  <2>2. UNCHANGED clients
    BY <2>1, ClientsStay
  <2>3. Orderly /\ Turns
    BY <2>2 DEF Orderly
  <2>4. Room'
    BY <2>1, <2>3, StepKeepsRoom DEF Turns
  <2>5. Phase'
    BY <2>1, <2>3, <2>4, StepKeepsPhase DEF Turns
  <2>6. SerialKnowsTheOthers' /\ NobodyTurnedAway'
    BY <2>1, <2>3, StepKeepsCopies DEF Turns
  <2>7. SleepersInQueue'
    BY <2>1, <2>3, StepKeepsSleepers DEF Turns
  <2>8. InOrder => ReleasedAreFirst' /\ NoLostWakeup'
    BY <2>1, <2>3, StepKeepsOrder, StepKeepsWakes DEF Turns
  <2> QED
    BY <2>4, <2>5, <2>6, <2>7, <2>8 DEF Turns
<1> QED
  BY <1>1, <1>2

\* The barrier takes its turns: it fills, is complete, drains and is reset.
THEOREM BarrierTakesTurns == Spec => []IInvOfTurns
<1>1. Init => IInvOfTurns
  BY InitIInv, InitTurns DEF IInvOfTurns
<1> QED
  BY <1>1, StepKeepsTurns, BarrierInvariant, PTL DEF Spec

\* A thread that passed the gate never meets the previous cycle, however many
\* threads there are and wherever each of them is.
THEOREM BarrierGateHolds == Spec => []GateHolds
<1>1. IInvOfTurns => GateHolds
  <2> SUFFICES ASSUME Turns, NEW t \in Threads, pc[t] \in {"read", "cas"}
               PROVE  state = "WAIT" /\ At({"release", "wakeall", "leave", "reset"}) = {}
    BY DEF IInvOfTurns, GateHolds, At
  <2>1. Filling
    BY DEF Turns, Phase, Filling, Complete, Draining, Resetting, Alone, NobodyIn, Busy, InWait, Entering
  <2> QED
    BY <2>1 DEF Filling, NobodyIn, At
<1> QED
  BY <1>1, BarrierTakesTurns, PTL

\* One thread resets the barrier, when nobody is counted any more.
THEOREM BarrierResetsOnce == Spec => []OneReset
<1>1. IInvOfTurns => OneReset
  <2> SUFFICES ASSUME Turns, NEW t \in Threads, pc[t] = "reset"
               PROVE  Cardinality(At({"reset"})) = 1 /\ At(Counted) = {}
    BY DEF IInvOfTurns, OneReset, At
  <2>1. Resetting \/ Alone
    BY DEF Turns, Phase, Filling, Complete, Draining, Resetting, Alone, NobodyIn, Busy, InWait, Leaving
  <2>2. At({"reset"}) = {t} /\ At(Counted) = {}
    BY <2>1 DEF Resetting, Alone, NobodyIn, AtMostOneIn, At, Busy, InWait, Counted
  <2> QED
    BY <2>2, FS_Singleton
<1> QED
  BY <1>1, BarrierTakesTurns, PTL

\* None of the threads there is room for is turned away with EINVAL.
THEOREM BarrierTurnsNobodyAway == Spec => []NobodyTurnedAway
<1>1. IInvOfTurns => NobodyTurnedAway
  BY DEF IInvOfTurns, Turns, NobodyTurnedAway
<1> QED
  BY <1>1, BarrierTakesTurns, PTL

\* If the kernel wakes sleepers in the order they came, no sleeper is left behind by
\* the wakes of the serial thread and the last leaver, although the first wakes no
\* more threads than have waited for it (line 140) and threads of the next cycle
\* may be asleep beside them.
THEOREM BarrierWakes ==
  ASSUME InOrder
  PROVE  Spec => []NoLostWakeup
<1>1. IInvOfTurns => NoLostWakeup
  BY DEF IInvOfTurns, Turns, NoLostWakeup
<1> QED
  BY <1>1, BarrierTakesTurns, PTL

-----------------------------------------------------------------------------
(* What the threads will return                                            *)

Results ==
  /\ result \in [Threads -> {"0", "SERIAL"}]
  /\ \A t \in Threads : pc[t] = "check" => result[t] = "0"

IInvOfResults == IInvOfTurns /\ Results

\* Every step keeps the results in line with the places of the threads.
LEMMA StepKeepsResults ==
  ASSUME IInv, Results, NEW t \in Threads, Progress(t) \/ Environment(t)
  PROVE  Results'
<1> USE DEF Results, Goto, Return, IInv, Shape, locals
<1>1. CASE Enter(t)
  BY <1>1 DEF Enter
<1>2. CASE LoopTest(t)
  BY <1>2 DEF LoopTest, Loops, After
<1>3. CASE Leave(t) \/ WakeNextCycle(t)
  BY <1>3 DEF Leave, WakeNextCycle
<1>4. CASE LoopSleep(t) \/ Interrupt(t) \/ ReadCount(t) \/ EnterFails(t) \/ TooMany(t)
           \/ ReleaseCycle(t) \/ WakeWaiters(t) \/ ResetCycle(t)
  BY <1>4 DEF LoopSleep, Interrupt, ReadCount, EnterFails, TooMany, ReleaseCycle, WakeWaiters, ResetCycle
<1>5. CASE BarrierInit(t) \/ BarrierInitForNobody(t) \/ WaitCall(t) \/ DestroyCall(t)
           \/ DestroyAgain(t) \/ DestroyFinish(t)
  BY <1>5 DEF BarrierInit, BarrierInitForNobody, WaitCall, DestroyCall, DestroyAgain, DestroyFinish
<1> QED
  BY <1>1, <1>2, <1>3, <1>4, <1>5 DEF Progress, Environment

\* A thread that is leaving has its result, one of them the serial one
\* (pthread_barrier.c:132-149).
THEOREM BarrierResults == Spec => []IInvOfResults
<1>1. Init => Results
  BY DEF Init, Results
<1>2. Results /\ IInv /\ [Next]_vars => Results'
  <2>1. ASSUME Results, UNCHANGED vars PROVE Results'
    BY <2>1 DEF Results, vars
  <2> QED
    BY <2>1, StepKeepsResults DEF Next
<1> QED
  BY <1>1, <1>2, BarrierInvariant, BarrierTakesTurns, PTL DEF Spec, IInvOfResults

-----------------------------------------------------------------------------
(* Who waits and who is released                                           *)

\* While the barrier fills the counted threads wait, and only the last leaver of the
\* previous cycle is still to return.  Afterwards nobody waits, and all who are
\* counted or leave are to return.
View ==
  Orderly =>
    /\ Filling =>
         /\ Waiting = At(Counted)
         /\ \A t \in Threads : Owed[t] = IF pc[t] = "wakelast" THEN result[t] ELSE "none"
    /\ Complete \/ Draining \/ Resetting \/ Alone =>
         /\ Waiting = {}
         /\ \A t \in Threads : Owed[t] = IF pc[t] \in Counted \cup Leaving THEN result[t] ELSE "none"

\* What the abstract barrier sees, in terms of the places of the threads.
LEMMA ViewHolds == View
<1> USE DEF Waiting, Owed, Released, At, Counted, Leaving
<1>1. ASSUME Orderly, Filling
      PROVE  /\ Waiting = At(Counted)
             /\ \A t \in Threads : Owed[t] = IF pc[t] = "wakelast" THEN result[t] ELSE "none"
  BY <1>1 DEF Filling, NobodyIn
<1>2. ASSUME Orderly, Complete \/ Draining \/ Resetting \/ Alone
      PROVE  /\ Waiting = {}
             /\ \A t \in Threads :
                  Owed[t] = IF pc[t] \in Counted \cup Leaving THEN result[t] ELSE "none"
  BY <1>2 DEF Complete, Draining, Resetting, Alone, NobodyIn, Busy, InWait
<1> QED
  BY <1>1, <1>2 DEF View

\* The same after a step.
LEMMA ViewHoldsNext == View'
BY ViewHolds, PTL

-----------------------------------------------------------------------------
(* The steps of clients that are no crowd                                  *)

Mapped == <<alive /\ Orderly, IF Orderly THEN init_count ELSE 0, Waiting, Owed, Answer>>

Stutters == UNCHANGED Mapped

\* What all lemmas below assume.
Here == IInvOfResults /\ Orderly /\ Orderly' /\ IInvOfResults'

\* The function of the owed results is what it is at each thread.
LEMMA PointwiseOwed ==
  ASSUME NEW f \in [Threads -> {"0", "SERIAL", "none"}], \A t \in Threads : Owed'[t] = f[t]
  PROVE  Owed' = f
BY DEF Owed

\* What threads are owed is a result of pthread_barrier_wait or nothing.
LEMMA OwedType == Results => Owed \in [Threads -> {"0", "SERIAL", "none"}]
BY DEF Results, Owed

\* A thread moves outside of the cycle.
LEMMA OutsideKeepsView ==
  ASSUME Here, UNCHANGED state, NEW t \in Threads, NEW l, Goto(t, l),
         \A u \in Threads \ {t} : result'[u] = result[u],
         pc[t] \notin Counted \cup Leaving, l \notin Counted \cup Leaving
  PROVE  UNCHANGED <<Waiting, Owed>>
<1>1. \A u \in Threads : pc'[u] = IF u = t THEN l ELSE pc[u]
  BY DEF Goto, Here, IInvOfResults, IInvOfTurns, IInv, Shape
<1>2. \A u \in Threads : Released(u)' <=> Released(u)
  BY <1>1 DEF Released, At, Counted, Leaving
<1>3. Waiting' = Waiting
  BY <1>1, <1>2 DEF Waiting, Here, Counted
<1>4. ~Released(t)
  BY DEF Released, Counted
<1>5. Owed' = Owed
  BY <1>2, <1>4 DEF Owed, Here
<1> QED
  BY <1>3, <1>5

\* A thread moves on in a cycle that is complete.
LEMMA InsideKeepsView ==
  ASSUME Here, ~Filling, ~Filling', UNCHANGED result, NEW t \in Threads, NEW l, Goto(t, l),
         pc[t] \in Counted \cup Leaving, l \in Counted \cup Leaving
  PROVE  UNCHANGED <<Waiting, Owed>>
<1>1. \A u \in Threads : pc'[u] = IF u = t THEN l ELSE pc[u]
  BY DEF Goto, Here, IInvOfResults, IInvOfTurns, IInv, Shape
<1>2. /\ Complete \/ Draining \/ Resetting \/ Alone
      /\ (Complete \/ Draining \/ Resetting \/ Alone)'
  BY DEF Here, IInvOfResults, IInvOfTurns, Turns, Phase
<1>3. Waiting = {} /\ Waiting' = {}
  BY <1>2, ViewHolds, ViewHoldsNext DEF View, Here
<1>4. \A u \in Threads : Owed'[u] = Owed[u]
  BY <1>1, <1>2, ViewHolds, ViewHoldsNext DEF View, Here
<1> QED
  BY <1>3, <1>4, PointwiseOwed, OwedType DEF Here, IInvOfResults

\* The steps that the abstract barrier does not see.
LEMMA QuietSteps ==
  ASSUME Here, NEW t \in Threads,
         \/ LoopTest(t) \/ LoopSleep(t) \/ Interrupt(t) \/ ReadCount(t) \/ EnterFails(t) \/ WaitCall(t)
         \/ DestroyCall(t) \/ ReleaseCycle(t) \/ WakeWaiters(t)
  PROVE  Abstract!Silent
<1> USE DEF Counted, Leaving
<1>1. UNCHANGED <<clients, alive, init_count, result>> /\ answer' = <<>>
  BY DEF LoopTest, LoopSleep, Interrupt, ReadCount, EnterFails, WaitCall, DestroyCall, ReleaseCycle,
         WakeWaiters, NoReturn, barrier, locals
<1>2. UNCHANGED <<Waiting, Owed>>
  <2>1. CASE UNCHANGED <<pc, state>>
    BY <1>1, <2>1 DEF Waiting, Owed, Orderly, Released, At
  <2>2. CASE ~UNCHANGED <<pc, state>>
    <3>1. CASE ReadCount(t) \/ WaitCall(t) \/ DestroyCall(t)
      BY <1>1, <3>1, OutsideKeepsView DEF ReadCount, WaitCall, DestroyCall, barrier
    <3>2. CASE LoopTest(t)
      <4>1. pc[t] \in Loops /\ state # While[pc[t]] /\ Goto(t, After[pc[t]]) /\ UNCHANGED state
        BY <2>2, <3>2 DEF LoopTest, barrier
      <4>2. CASE pc[t] = "check"
        <5>1. state # "WAIT" /\ state' # "WAIT" /\ After[pc[t]] = "leave"
          BY <4>1, <4>2 DEF While, After, Loops
        <5> QED
          BY <1>1, <4>1, <4>2, <5>1, InsideKeepsView DEF Filling
      <4>3. CASE pc[t] \in {"gate", "drain"}
        <5>1. After[pc[t]] \in {"read", "count"}
          BY <4>3 DEF After
        <5> QED
          BY <1>1, <4>1, <4>3, <5>1, OutsideKeepsView
      <4> QED
        BY <4>1, <4>2, <4>3 DEF Loops
    <3>3. CASE ReleaseCycle(t)
      <4>1. pc[t] = "release" /\ Goto(t, "wakeall") /\ state' = "RELEASE"
        BY <3>3 DEF ReleaseCycle
      <4> QED
        BY <1>1, <4>1, InsideKeepsView DEF Filling, NobodyIn
    <3>4. CASE WakeWaiters(t)
      <4>1. pc[t] = "wakeall" /\ Goto(t, "leave") /\ UNCHANGED state
        BY <3>4 DEF WakeWaiters, barrier
      <4>2. ~Filling /\ state # "WAIT"
        BY <4>1 DEF Filling, Complete, Draining, Resetting, Alone, NobodyIn, Phase, Busy, InWait,
                    Here, IInvOfResults, IInvOfTurns, Turns
      <4> QED
        BY <1>1, <4>1, <4>2, InsideKeepsView DEF Filling
    <3>5. CASE LoopSleep(t) \/ Interrupt(t) \/ EnterFails(t)
      BY <2>2, <3>5 DEF LoopSleep, Interrupt, EnterFails, barrier
    <3> QED
      BY <3>1, <3>2, <3>3, <3>4, <3>5
  <2> QED
    BY <2>1, <2>2
<1> QED
  BY <1>1, <1>2 DEF Abstract!Silent, Answer, Here

\* pthread_barrier_init creates an abstract barrier.
LEMMA BarrierInitCreates ==
  ASSUME Here, NEW t \in Threads, BarrierInit(t)
  PROVE  Abstract!Create(t)
<1>1. /\ ~alive /\ alive' /\ init_count' \in Nat \ {0} /\ answer' = <<t, "0">>
      /\ Goto(t, "idle") /\ pc[t] = "idle" /\ state' = "WAIT"
      /\ \A u \in Threads \ {t} : result'[u] = result[u]
  BY BarrierAssumption DEF BarrierInit, Return, Here, IInvOfResults, Results, IInvOfTurns, IInv, Shape
<1>2. state = "WAIT"
  BY <1>1 DEF Here, IInvOfResults, IInvOfTurns, Turns, Phase, Filling, Complete, Draining, Resetting, Alone
<1>3. UNCHANGED <<Waiting, Owed>>
  BY <1>1, <1>2, OutsideKeepsView DEF Counted, Leaving
<1> QED
  BY <1>1, <1>3 DEF Abstract!Create, Answer, Here

\* A call with EINVAL is a rejected one.
LEMMA CallsRejected ==
  ASSUME Here, NEW t \in Threads, BarrierInitForNobody(t) \/ DestroyAgain(t)
  PROVE  Abstract!Reject(t)
<1>1. /\ ~alive /\ answer' = <<t, "EINVAL">> /\ Goto(t, "idle") /\ pc[t] = "idle"
      /\ UNCHANGED <<alive, init_count, state>>
      /\ \A u \in Threads \ {t} : result'[u] = result[u]
  BY DEF BarrierInitForNobody, DestroyAgain, Return, barrier, Here, IInvOfResults, Results
<1>2. UNCHANGED <<Waiting, Owed>>
  BY <1>1, OutsideKeepsView DEF Counted, Leaving
<1> QED
  BY <1>1, <1>2 DEF Abstract!Reject, Answer, Here

\* Destroy finds nobody waiting; or somebody who waits or is still to return.
LEMMA DestroyAnswers ==
  ASSUME Here, NEW t \in Threads, DestroyFinish(t)
  PROVE  Abstract!Destroy(t) \/ Abstract!Refuse(t)
<1>1. /\ pc[t] = "count" /\ UNCHANGED state /\ Goto(t, "idle")
      /\ \A u \in Threads \ {t} : result'[u] = result[u]
  BY DEF DestroyFinish, Return, Here, IInvOfResults, Results
<1>2. alive /\ Filling
  <2>1. alive
    BY <1>1 DEF DeadIsEmpty, At, Destroying, Here, IInvOfResults, IInvOfTurns, IInv
  <2> QED
    BY <1>1, <2>1 DEF Here, IInvOfResults, IInvOfTurns, Turns, Phase, Filling, Complete, Draining,
                      Resetting, Alone, NobodyIn, Busy, InWait, Destroying
<1>3. UNCHANGED <<Waiting, Owed>>
  BY <1>1, OutsideKeepsView DEF Counted, Leaving
<1>4. Waiting = At(Counted)
  BY <1>2, ViewHolds DEF View, Here
<1>5. wait_count = Cardinality(At(Counted)) /\ IsFiniteSet(At(Counted))
  BY <1>2, AtIsFinite DEF Here, IInvOfResults, IInvOfTurns, IInv, CountIsExact
<1>6. CASE wait_count = 0
  <2>1. alive' = FALSE /\ init_count' = 0 /\ answer' = <<t, "0">>
    BY <1>6 DEF DestroyFinish, Return
  <2>2. Waiting = {}
    BY <1>4, <1>5, <1>6, FS_EmptySet
  <2> QED
    BY <1>2, <1>3, <2>1, <2>2 DEF Abstract!Destroy, Answer, Here
<1>7. CASE wait_count # 0
  <2>1. UNCHANGED <<alive, init_count>> /\ answer' = <<t, "EBUSY">>
    BY <1>7 DEF DestroyFinish, Return
  <2>2. Waiting # {}
    BY <1>4, <1>5, <1>7, FS_EmptySet
  <2> QED
    BY <1>2, <1>3, <2>1, <2>2 DEF Abstract!Refuse, Answer, Here
<1> QED
  BY <1>6, <1>7

\* The instance counts with an operator of its own.
LEMMA SameCardinality == \A S : Abstract!Cardinality(S) = Cardinality(S)
BY DEF Abstract!Cardinality, Cardinality

\* Being counted is arriving, and for the last one of a cycle tripping it.
LEMMA EnterArrives ==
  ASSUME Here, NEW t \in Threads, Enter(t)
  PROVE  Abstract!Arrive(t) \/ Abstract!Trip(t)
<1>0. /\ Turns /\ Results /\ Shape /\ CountIsExact /\ DeadIsEmpty
      /\ Turns' /\ Results' /\ Shape'
      /\ Orderly /\ Orderly'
  BY DEF Here, IInvOfResults, IInvOfTurns, IInv
<1>c. Orderly /\ Orderly'
  BY <1>0
<1>1. /\ pc[t] = "cas" /\ prev[t] = wait_count /\ wait_count' = wait_count + 1
      /\ UNCHANGED <<alive, init_count, state>> /\ answer' = <<>>
      /\ result' = [result EXCEPT ![t] = IF CompletesCycle(wait_count) THEN "SERIAL" ELSE "0"]
      /\ wait_count \in Nat /\ init_count \in Nat /\ wait_count < init_count
  BY <1>0 DEF Enter, Full, Unraced, NoReturn, Shape
<1>2. alive /\ Filling
  BY <1>0, <1>1 DEF DeadIsEmpty, At, Entering, Turns, Phase, Filling, Complete, Draining, Resetting, Alone,
              NobodyIn, Busy, InWait
<1>3. /\ Waiting = At(Counted) /\ wait_count = Cardinality(Waiting)
      /\ \A u \in Threads : Owed[u] = IF pc[u] = "wakelast" THEN result[u] ELSE "none"
      /\ \A u \in At(Counted) : pc[u] = "check"
  BY <1>0, <1>2, ViewHolds DEF View, CountIsExact, Filling, NobodyIn, At, Counted
<1>4. t \notin Waiting /\ Owed[t] = "none"
  BY <1>0, <1>1, <1>3 DEF At, Counted
<1>5. Answer' = <<>>
  BY <1>0, <1>1 DEF Answer
<1>6. CASE ~CompletesCycle(wait_count)
  <2>1. \A u \in Threads : pc'[u] = IF u = t THEN "check" ELSE pc[u]
    BY <1>0, <1>1, <1>6 DEF Enter, Goto, Shape
  <2>2. Filling'
    <3>1. /\ state' = "WAIT" /\ wait_count' # init_count' /\ pc'[t] = "check"
      BY <1>0, <1>1, <1>2, <1>6, <2>1 DEF Filling, CompletesCycle
    <3>2. ~Complete' /\ ~Draining' /\ ~Resetting'
      BY <3>1 DEF Complete, Draining, Resetting
    <3>3. ~Alone'
      BY <3>1 DEF Alone, NobodyIn, Busy, InWait, Counted
    <3> QED
      BY <1>0, <3>2, <3>3 DEF Turns, Phase
  <2>3. Waiting' = Waiting \cup {t}
    BY <1>0, <1>3, <2>1, <2>2, ViewHoldsNext DEF View, At, Counted
  <2>4. Owed' = Owed
    <3>1. \A u \in Threads : Owed'[u] = Owed[u]
      BY <1>0, <1>1, <1>3, <2>1, <2>2, ViewHoldsNext DEF View, Results
    <3> QED
      BY <1>0, <3>1, PointwiseOwed, OwedType
  <2>5. Cardinality(Waiting) + 1 < init_count
    BY <1>0, <1>1, <1>3, <1>6 DEF CompletesCycle
  <2> QED
    BY <1>1, <1>2, <1>4, <1>5, <1>c, <2>3, <2>4, <2>5, SameCardinality DEF Abstract!Arrive
<1>7. CASE CompletesCycle(wait_count)
  <2>1. PICK l \in {"release", "leave"} : Goto(t, l)
    BY <1>0, <1>1, <1>7 DEF Enter
  <2>2. \A u \in Threads : pc'[u] = IF u = t THEN l ELSE pc[u]
    BY <1>0, <2>1 DEF Goto, Shape
  <2>3. ~Filling'
    BY <1>0, <2>2 DEF Filling, NobodyIn
  <2>4. /\ Waiting' = {}
        /\ \A u \in Threads :
             Owed'[u] = IF pc'[u] \in Counted \cup Leaving THEN result'[u] ELSE "none"
    BY <1>0, <2>3, ViewHoldsNext DEF View, Turns, Phase
  <2>5. \A u \in Threads : pc[u] \in Leaving => pc[u] = "wakelast"
    BY <1>2 DEF Filling, NobodyIn, Leaving
  <2>6. Owed' = [u \in Threads |-> CASE u = t -> "SERIAL"
                                     [] u \in Waiting -> "0"
                                     [] OTHER -> Owed[u]]
    <3> DEFINE f == [u \in Threads |-> CASE u = t -> "SERIAL"
                                         [] u \in Waiting -> "0"
                                         [] OTHER -> Owed[u]]
    <3>1. f \in [Threads -> {"0", "SERIAL", "none"}]
      BY <1>0, OwedType
    <3>2. \A u \in Threads : Owed'[u] = f[u]
      <4>1. Owed'[t] = "SERIAL"
        BY <1>0, <1>1, <1>7, <2>2, <2>4 DEF Counted, Results
      <4>2. ASSUME NEW u \in Threads, u # t, pc[u] \in Counted PROVE Owed'[u] = "0" /\ u \in Waiting
        BY <1>0, <1>1, <1>3, <2>2, <2>4, <4>2 DEF Results, At
      <4>3. ASSUME NEW u \in Threads, u # t, pc[u] \notin Counted
            PROVE  Owed'[u] = Owed[u] /\ u \notin Waiting
        <5>1. u \notin Waiting /\ pc'[u] = pc[u] /\ result'[u] = result[u]
          BY <1>0, <1>1, <1>3, <2>2, <4>3 DEF At, Results
        <5>2. pc[u] \in Leaving <=> pc[u] = "wakelast"
          BY <2>5 DEF Leaving
        <5> QED
          BY <1>3, <2>4, <4>3, <5>1, <5>2
      <4> QED
        BY <1>4, <4>1, <4>2, <4>3
    <3> QED
      BY <1>0, <3>1, <3>2, PointwiseOwed
  <2>7. Cardinality(Waiting) + 1 = init_count
    BY <1>0, <1>3, <1>7 DEF CompletesCycle
  <2> QED
    BY <1>1, <1>2, <1>4, <1>5, <1>c, <2>4, <2>6, <2>7, SameCardinality DEF Abstract!Trip
<1> QED
  BY <1>0, <1>6, <1>7

\* Leaving the barrier is returning, except for the last one, who returns after the
\* reset.
LEMMA LeavingReturns ==
  ASSUME Here, NEW t \in Threads, Leave(t) \/ ResetCycle(t) \/ WakeNextCycle(t)
  PROVE  Abstract!Leave(t) \/ Abstract!Silent
<1>0. /\ Turns /\ Results /\ Shape /\ Turns' /\ Results' /\ IInv
      /\ Orderly /\ Orderly'
  BY DEF Here, IInvOfResults, IInvOfTurns, IInv
<1>1. UNCHANGED <<alive, init_count>> /\ \A u \in Threads \ {t} : result'[u] = result[u]
  BY <1>0 DEF Leave, ResetCycle, WakeNextCycle, Return, barrier, locals, Results
<1>2. ASSUME Goto(t, "idle"), answer' = <<t, result[t]>>, Waiting' = Waiting,
             pc[t] \in Leaving \cup {"leave"}, Owed[t] = result[t], Owed'[t] = "none",
             \A u \in Threads : u # t => Owed'[u] = Owed[u]
      PROVE  Abstract!Leave(t)
  <2>1. Owed[t] # "none"
    BY <1>0, <1>2 DEF Results
  <2>2. Owed' = [Owed EXCEPT ![t] = "none"]
    <3>1. [Owed EXCEPT ![t] = "none"] \in [Threads -> {"0", "SERIAL", "none"}]
      BY <1>0, OwedType
    <3>2. \A u \in Threads : Owed'[u] = [Owed EXCEPT ![t] = "none"][u]
      BY <1>0, <1>2, OwedType
    <3> QED
      BY <3>1, <3>2, PointwiseOwed
  <2> QED
    BY <1>0, <1>1, <1>2, <2>1, <2>2 DEF Abstract!Leave, Answer
<1>3. CASE Leave(t)
  <2>1. pc[t] = "leave" /\ UNCHANGED state
    BY <1>3 DEF Leave
  <2>2. ~Filling /\ (Draining \/ Alone) /\ alive
    BY <1>0, <2>1 DEF Turns, Phase, Filling, Complete, Draining, Resetting, Alone, NobodyIn, Busy,
                      InWait, Counted
  <2>3. CASE wait_count = 1
    <3>1. Goto(t, "reset") /\ answer' = <<>> /\ UNCHANGED result
      BY <1>3, <2>3 DEF Leave, LastToLeave, NoReturn, locals
    <3>2. ~Filling'
      BY <1>0, <2>1, <3>1 DEF Filling, NobodyIn, Goto, Shape
    <3>3. UNCHANGED <<Waiting, Owed>>
      BY <2>1, <2>2, <3>1, <3>2, InsideKeepsView DEF Counted, Leaving
    <3> QED
      BY <1>0, <1>1, <3>1, <3>3 DEF Abstract!Silent, Answer
  <2>4. CASE wait_count # 1
    <3>1. Goto(t, "idle") /\ answer' = <<t, result[t]>>
      BY <1>3, <2>4 DEF Leave, LastToLeave, Return
    <3>2. \E u \in Threads : pc[u] \in Counted /\ u # t
      BY <1>0, <2>1, <2>2, <2>4, LastIsCounted DEF Counted
    <3>3. state = "RELEASE" /\ Draining
      BY <1>0, <2>1, <2>2, <3>2 DEF Alone, Draining, NobodyIn, AtMostOneIn, Busy, InWait, Counted
    <3>4. (Draining \/ Resetting)'
      BY <1>0, <2>1, <3>3 DEF Turns, Phase, Filling, Complete, Alone
    <3>5. Waiting = {} /\ Waiting' = {}
      BY <1>0, <3>3, <3>4, ViewHolds, ViewHoldsNext DEF View
    <3>6. \A u \in Threads : /\ Owed[u] = IF pc[u] \in Counted \cup Leaving THEN result[u] ELSE "none"
                             /\ Owed'[u] = IF pc'[u] \in Counted \cup Leaving THEN result'[u] ELSE "none"
      BY <1>0, <3>3, <3>4, ViewHolds, ViewHoldsNext DEF View
    <3>7. /\ Owed[t] = result[t] /\ Owed'[t] = "none"
          /\ \A u \in Threads : u # t => Owed'[u] = Owed[u]
      BY <1>0, <1>1, <2>1, <3>1, <3>6 DEF Goto, Shape, Counted, Leaving
    <3> QED
      BY <1>2, <2>1, <3>1, <3>5, <3>7
  <2> QED
    BY <2>3, <2>4
<1>4. CASE ResetCycle(t)
  <2>1. /\ pc[t] = "reset" /\ Goto(t, "wakelast") /\ state' = "WAIT"
        /\ answer' = <<>> /\ UNCHANGED result
    BY <1>4 DEF ResetCycle, NextState, NoReturn, locals
  <2>2. Resetting \/ Alone
    BY <1>0, <2>1 DEF Turns, Phase, Filling, Complete, Draining, Resetting, Alone, NobodyIn, Busy, InWait,
                      Leaving
  <2>3. \A u \in Threads : u # t => pc[u] \notin Counted \cup {"reset"}
    BY <2>1, <2>2 DEF Resetting, Alone, NobodyIn, AtMostOneIn, Busy, InWait, Counted, Leaving
  <2>4. \A u \in Threads : pc'[u] = IF u = t THEN "wakelast" ELSE pc[u]
    BY <1>0, <2>1 DEF Goto, Shape
  <2>5. Filling'
    <3>1. \A u \in Threads : pc'[u] \notin Counted \cup {"reset"}
      BY <2>3, <2>4 DEF Counted
    <3> QED
      BY <1>0, <2>1, <3>1 DEF Turns, Phase, Complete, Draining, Resetting, Alone, NobodyIn, Counted
  <2>6. At(Counted)' = {}
    BY <2>3, <2>4 DEF At, Counted
  <2>7. Waiting = {} /\ Waiting' = {}
    BY <1>0, <2>2, <2>5, <2>6, ViewHolds, ViewHoldsNext DEF View
  <2>8. \A u \in Threads : Owed'[u] = Owed[u]
    <3>1. \A u \in Threads : /\ Owed[u] = IF pc[u] \in Counted \cup Leaving THEN result[u] ELSE "none"
                             /\ Owed'[u] = IF pc'[u] = "wakelast" THEN result'[u] ELSE "none"
      BY <1>0, <2>2, <2>5, ViewHolds, ViewHoldsNext DEF View
    <3> QED
      BY <1>1, <2>1, <2>3, <2>4, <3>1 DEF Leaving
  <2>9. Owed' = Owed
    BY <1>0, <2>8, PointwiseOwed, OwedType
  <2> QED
    BY <1>0, <1>1, <2>1, <2>7, <2>9 DEF Abstract!Silent, Answer
<1>5. CASE WakeNextCycle(t)
  <2>1. /\ pc[t] = "wakelast" /\ Goto(t, "idle") /\ answer' = <<t, result[t]>>
        /\ UNCHANGED <<state, wait_count>>
    BY <1>5 DEF WakeNextCycle, Return, barrier
  <2>2. \A u \in Threads : pc'[u] = IF u = t THEN "idle" ELSE pc[u]
    BY <1>0, <2>1 DEF Goto, Shape
  <2>3. At(Counted)' = At(Counted)
    BY <2>1, <2>2 DEF At, Counted
  <2>4. CASE Filling
    <3>1. Filling'
      <4>1. state' = "WAIT" /\ \A u \in Threads : pc'[u] \notin {"release", "leave", "reset"}
        BY <2>1, <2>2, <2>4 DEF Filling, NobodyIn
      <4> QED
        BY <1>0, <4>1 DEF Turns, Phase, Complete, Draining, Resetting, Alone, NobodyIn
    <3>2. Waiting' = Waiting
      BY <1>0, <2>3, <2>4, <3>1, ViewHolds, ViewHoldsNext DEF View
    <3>3. \A u \in Threads : /\ Owed[u] = IF pc[u] = "wakelast" THEN result[u] ELSE "none"
                             /\ Owed'[u] = IF pc'[u] = "wakelast" THEN result'[u] ELSE "none"
      BY <1>0, <2>4, <3>1, ViewHolds, ViewHoldsNext DEF View
    <3>4. /\ Owed[t] = result[t] /\ Owed'[t] = "none"
          /\ \A u \in Threads : u # t => Owed'[u] = Owed[u]
      BY <1>1, <2>1, <2>2, <3>3
    <3> QED
      BY <1>2, <2>1, <3>2, <3>4 DEF Leaving
  <2>5. CASE ~Filling
    <3>1. (Complete \/ Draining \/ Resetting \/ Alone) /\ (Complete \/ Draining \/ Resetting \/ Alone)'
      <4>1. Complete \/ Draining \/ Resetting \/ Alone
        BY <1>0, <2>5 DEF Turns, Phase
      <4>2. state' # "WAIT" \/ \E u \in Threads : pc'[u] \in {"release", "leave", "reset"}
        BY <2>1, <2>2, <4>1 DEF Complete, Draining, Resetting, Alone, NobodyIn
      <4>3. ~Filling'
        BY <4>2 DEF Filling, NobodyIn
      <4> QED
        BY <1>0, <4>1, <4>3 DEF Turns, Phase
    <3>2. Waiting' = Waiting
      BY <1>0, <3>1, ViewHolds, ViewHoldsNext DEF View
    <3>3. \A u \in Threads :
            /\ Owed[u] = IF pc[u] \in Counted \cup Leaving THEN result[u] ELSE "none"
            /\ Owed'[u] = IF pc'[u] \in Counted \cup Leaving THEN result'[u] ELSE "none"
      BY <1>0, <3>1, ViewHolds, ViewHoldsNext DEF View
    <3>4. /\ Owed[t] = result[t] /\ Owed'[t] = "none"
          /\ \A u \in Threads : u # t => Owed'[u] = Owed[u]
      BY <1>1, <2>1, <2>2, <3>3 DEF Counted, Leaving
    <3> QED
      BY <1>2, <2>1, <3>2, <3>4 DEF Leaving
  <2> QED
    BY <2>4, <2>5
<1> QED
  BY <1>3, <1>4, <1>5

-----------------------------------------------------------------------------

\* The refinement begins without a barrier.
LEMMA InitImplements == Init => Abstract!Init
<1> SUFFICES ASSUME Init PROVE Abstract!Init
  OBVIOUS
<1>1. Waiting = {}
  BY DEF Init, Waiting
<1>2. Owed = [t \in Threads |-> "none"]
  BY DEF Init, Owed, Released, Leaving
<1>3. Answer = <<>>
  BY DEF Init, Answer
<1> QED
  BY <1>1, <1>2, <1>3 DEF Init, Abstract!Init

\* Every step of pthread_barrier.c is one of the abstract barrier or none.
LEMMA StepImplements ==
  IInvOfResults /\ IInvOfResults' /\ [Next]_vars => [Abstract!Next]_(Abstract!absVars)
<1> SUFFICES ASSUME IInvOfResults, IInvOfResults', [Next]_vars PROVE Abstract!Next \/ Stutters
  BY DEF Stutters, Mapped, Abstract!absVars
<1>1. CASE UNCHANGED vars
  BY <1>1 DEF vars, Stutters, Mapped, Waiting, Owed, Answer, Orderly, Released, At
<1>2. CASE Next
  <2>1. PICK t \in Threads : Progress(t) \/ Environment(t)
    BY <1>2 DEF Next
  <2>2. UNCHANGED clients
    BY <2>1, ClientsStay
  <2>3. CASE ~Orderly
    BY <2>2, <2>3 DEF Stutters, Mapped, Waiting, Owed, Answer, Orderly
  <2>4. CASE Orderly
    <3>1. Here
      BY <2>2, <2>4 DEF Here, Orderly
    <3>2. ~TooMany(t)
      BY <2>4 DEF TooMany, Full, IInvOfResults, IInvOfTurns, Turns, NobodyTurnedAway, IInv, Shape
    <3>3. \/ Abstract!Create(t) \/ Abstract!Arrive(t) \/ Abstract!Trip(t) \/ Abstract!Leave(t)
          \/ Abstract!Destroy(t) \/ Abstract!Refuse(t) \/ Abstract!Reject(t) \/ Abstract!Silent
      BY <2>1, <3>1, <3>2, QuietSteps, BarrierInitCreates, CallsRejected, DestroyAnswers, EnterArrives,
         LeavingReturns DEF Progress, Environment
    <3> QED
      BY <3>3 DEF Abstract!Next
  <2> QED
    BY <2>3, <2>4
<1> QED
  BY <1>1, <1>2

\* The barrier implements the abstract one for every set of threads: nobody returns
\* before its cycle is complete, each cycle has one serial thread, and a barrier is
\* destroyed only between two cycles.
THEOREM BarrierImplements == Spec => ImplementsBarrier
BY InitImplements, StepImplements, BarrierResults, PTL DEF Spec, ImplementsBarrier, Abstract!Spec

=============================================================================
