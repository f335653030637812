-------------------------- MODULE PosixSpawnProofs --------------------------
(***************************************************************************)
(* PosixSpawn proved for any set of threads and signals, any list of file  *)
(* actions and any attributes: no handler of the caller runs in a child,   *)
(* and each program is executed with what was asked for.                   *)
(***************************************************************************)
EXTENDS PosixSpawn, FiniteSetTheorems, WellFoundedInduction, TLAPS

-----------------------------------------------------------------------------

\* What the steps need to know of the shape of the state.  Nothing is said of the
\* list and the descriptors: the argument does not depend on them.
Shape ==
  /\ handlers \in [Signals -> Handlers]
  /\ DOMAIN mask = Threads /\ DOMAIN pc = Threads /\ DOMAIN child = Threads
  /\ \A t \in Threads :
       /\ {"at", "s", "mask", "handlers"} \subseteq DOMAIN child[t]
       /\ child[t].at \in {"none"} \cup Running \cup Ended
       /\ child[t].handlers \in [Signals -> Handlers]

IInv == Shape /\ BlockedUntilReset

\* The invariant holds before the first call.
LEMMA InitIInv == Init => IInv
<1> SUFFICES ASSUME Init PROVE IInv
  OBVIOUS
<1> USE DEF Init, NoChild, Running, Ended, Handlers
<1>1. Shape
  BY PosixSpawnAssumption DEF Shape
<1>2. BlockedUntilReset
  BY DEF BlockedUntilReset, Guarded
<1> QED
  BY <1>1, <1>2 DEF IInv

-----------------------------------------------------------------------------
(* The steps                                                               *)

\* The clients' objects are of no concern.
LEMMA ClientsKeepIInv == IInv /\ Clients => IInv'
BY DEF IInv, Shape, BlockedUntilReset, Guarded, HandlersGone, Clients, SetAttr, ActionsInit,
       AddFileAction, ActionsDestroy, caller

\* A child may end, or leave its list behind, without touching its signals.
LEMMA EndKeepsIInv ==
  ASSUME IInv, NEW t \in Threads, NEW c,
         child' = [child EXCEPT ![t] = c], UNCHANGED <<handlers, mask, pc>>,
         {"at", "s", "mask", "handlers"} \subseteq DOMAIN c,
         c.at \in Ended \cup {"none"} \cup (Running \ {"attrs"}),
         c.handlers \in [Signals -> Handlers],
         c.at \in Running => \A s \in Signals : s < NSIG => c.handlers[s] # "caught"
  PROVE  IInv'
BY DEF IInv, Shape, BlockedUntilReset, Guarded, HandlersGone, Running, Ended

\* The caller: everything is blocked before the fork, and the child inherits it.
LEMMA CallerKeepsIInv == ASSUME IInv, NEW t \in Threads, Caller(t) PROVE IInv'
<1> USE DEF IInv, Shape, BlockedUntilReset, Guarded, HandlersGone, Goto, objects
<1>1. CASE SpawnCall(t)
  BY <1>1 DEF SpawnCall, BlockAll
<1>2. CASE Fork(t)
  <2>1. PICK table \in Tables : child' = [u \in Threads |->
          IF u = t THEN NewChild(t, table)
          ELSE [child[u] EXCEPT !.overlapped = @ \/ (UseVfork /\ u \in Beside(t))]]
    BY <1>2 DEF Fork
  <2>2. /\ child'[t].at = "attrs" /\ child'[t].s = 1
        /\ child'[t].mask = Signals /\ child'[t].handlers = handlers
        /\ {"at", "s", "mask", "handlers"} \subseteq DOMAIN child'[t]
    BY <2>1, <1>2 DEF NoChild, NewChild, Fork
  <2>3. ASSUME NEW u \in Threads, u # t
        PROVE  /\ DOMAIN child'[u] = DOMAIN child[u]
               /\ child'[u].at = child[u].at /\ child'[u].s = child[u].s
               /\ child'[u].mask = child[u].mask /\ child'[u].handlers = child[u].handlers
    <3> DEFINE b == child[u].overlapped \/ (UseVfork /\ u \in Beside(t))
    <3>1. child'[u] = [child[u] EXCEPT !.overlapped = b]
      BY <2>1, <2>3
    <3> HIDE DEF b
    <3> QED
      BY <3>1
  <2>4. \A u \in Threads : pc'[u] = "fork" => pc[u] = "fork" /\ u # t
    BY <1>2 DEF Fork
  <2>5. UNCHANGED <<handlers, mask>> /\ DOMAIN pc' = Threads /\ DOMAIN child' = Threads
    BY <1>2, <2>1 DEF Fork
  <2>6. Shape'
    BY <2>2, <2>3, <2>5 DEF Running
  <2>7. ASSUME NEW u \in Threads, u # t PROVE Guarded(u)'
    BY <2>3, <2>4, <2>5, <2>7 DEF Running
  <2>8. Guarded(t)'
    <3>1. HandlersGone(t, child[t].s)' /\ 1 \in 1..NSIG
      BY <2>2, PosixSpawnAssumption DEF Signals
    <3> QED
      BY <2>2, <2>4, <3>1 DEF Running
  <2> QED
    BY <2>6, <2>7, <2>8
<1>3. CASE ForkFails(t) \/ Resume(t) \/ Return(t)
  BY <1>3 DEF ForkFails, Resume, Return
<1>4. CASE Reap(t)
  <2>1. child' = [child EXCEPT ![t] = NoChild] /\ UNCHANGED <<handlers, mask, pc>>
    BY <1>4 DEF Reap, caller
  <2>2. /\ {"at", "s", "mask", "handlers"} \subseteq DOMAIN NoChild
        /\ NoChild.at = "none" /\ NoChild.handlers \in [Signals -> Handlers]
    BY DEF NoChild, Handlers
  <2>3. NoChild.at \notin Running
    BY <2>2 DEF Running
  <2> QED
    BY <2>1, <2>2, <2>3, EndKeepsIInv
<1> QED
  BY <1>1, <1>2, <1>3, <1>4 DEF Caller

\* ApplyAttrs: each signal below the counter is reset or was never caught, and the
\* mask changes only after the last one.
LEMMA ApplyAttrsKeepsIInv ==
  ASSUME IInv, NEW t \in Threads, ResetHandler(t) \/ ApplyRest(t) PROVE IInv'
<1> USE DEF IInv, Shape, BlockedUntilReset, Guarded, HandlersGone, objects, caller
<1>1. CASE ResetHandler(t) /\ ~Exit(t)
  <2> DEFINE s == child[t].s
             h == IF MustReset(t, s) THEN "SIG_DFL" ELSE child[t].handlers[s]
  <2>1. /\ child[t].at = "attrs" /\ s \in Signals
        /\ child' = [child EXCEPT ![t].handlers[s] = h, ![t].s = s + 1]
        /\ UNCHANGED <<handlers, mask, pc>>
    BY <1>1 DEF ResetHandler
  <2>2. h # "caught" /\ h \in Handlers
    BY <2>1 DEF MustReset, Handlers
  <2>3. /\ child'[t].at = "attrs" /\ child'[t].mask = child[t].mask
        /\ child'[t].handlers = [child[t].handlers EXCEPT ![s] = h]
        /\ child'[t].s = s + 1
        /\ DOMAIN child'[t] = DOMAIN child[t]
    BY <2>1
  <2>4. \A u \in Threads : u # t => child'[u] = child[u]
    BY <2>1
  <2>5. Shape'
    BY <2>1, <2>2, <2>3, <2>4
  <2>6. s + 1 \in 1..NSIG /\ \A x \in Signals : x < s + 1 => x < s \/ x = s
    BY <2>1, PosixSpawnAssumption DEF Signals
  <2>7. HandlersGone(t, child[t].s)'
    BY <2>1, <2>2, <2>3, <2>6
  <2>8. ASSUME NEW u \in Threads, u # t PROVE Guarded(u)'
    BY <2>1, <2>4, <2>8
  <2>9. Guarded(t)'
    BY <2>1, <2>3, <2>6, <2>7 DEF Running
  <2> QED
    BY <2>5, <2>8, <2>9
<1>2. CASE ApplyRest(t) /\ ~Exit(t)
  <2>1. /\ child[t].at = "attrs" /\ child[t].s \notin Signals
        /\ UNCHANGED <<handlers, mask, pc>>
    BY <1>2 DEF ApplyRest
  <2>2. \A x \in Signals : child[t].handlers[x] # "caught"
    BY <2>1, PosixSpawnAssumption DEF Signals
  <2>3. PICK c : /\ child' = [child EXCEPT ![t] = c]
                 /\ DOMAIN c = DOMAIN child[t]
                 /\ c.at = "file" /\ c.handlers = child[t].handlers
    <3> DEFINE m == IF "SETSIGMASK" \in attr.flags THEN attr.sigmask ELSE child[t].mask
    <3> WITNESS [child[t] EXCEPT !.mask = m, !.at = "file"]
    <3> QED
      BY <1>2 DEF ApplyRest
  <2> QED
    BY <2>1, <2>2, <2>3, EndKeepsIInv DEF Running, Ended
<1>3. CASE Exit(t)
  <2>1. UNCHANGED <<handlers, mask, pc>>
    BY DEF ResetHandler, ApplyRest
  <2> DEFINE c == [child[t] EXCEPT !.at = "exit"]
  <2>2. /\ child' = [child EXCEPT ![t] = c] /\ c.at = "exit"
        /\ DOMAIN c = DOMAIN child[t] /\ c.handlers = child[t].handlers
    BY <1>3 DEF Exit
  <2> HIDE DEF c
  <2> QED
    BY <2>1, <2>2, EndKeepsIInv DEF Running, Ended
<1> QED
  BY <1>1, <1>2, <1>3

\* The file actions, the end of the list and exec come after ApplyAttrs.
LEMMA FilesKeepIInv ==
  ASSUME IInv, NEW t \in Threads,
         DoClose(t) \/ DoDup2(t) \/ DoOpen(t) \/ DoMove(t) \/ RestoreMask(t) \/ Exec(t)
  PROVE  IInv'
<1> USE DEF IInv, Shape, BlockedUntilReset, Guarded, HandlersGone
<1>1. child[t].at \in Running \ {"attrs"} /\ UNCHANGED <<handlers, mask, pc>>
  BY DEF DoClose, DoDup2, DoOpen, DoMove, RestoreMask, Exec, Running, caller, objects
<1>2. \A x \in Signals : child[t].handlers[x] # "caught"
  BY <1>1, PosixSpawnAssumption DEF Signals
<1>3. PICK c : /\ child' = [child EXCEPT ![t] = c]
               /\ DOMAIN c = DOMAIN child[t] /\ c.handlers = child[t].handlers
               /\ c.at \in Ended \cup (Running \ {"attrs"})
  <2>1. CASE Exit(t)
    <3> WITNESS [child[t] EXCEPT !.at = "exit"]
    <3> QED
      BY <2>1 DEF Exit, Ended
  <2>2. CASE \E fds : Done(t, fds)
    <3>1. PICK fds : Done(t, fds)
      BY <2>2
    <3> WITNESS [child[t] EXCEPT !.fds = fds, !.n = NextIndex(@), !.at = "file"]
    <3> QED
      BY <3>1 DEF Done, Running
  <2>3. CASE \E fd : StoreFd(t, fd)
    <3>1. PICK fd : StoreFd(t, fd)
      BY <2>3
    <3>2. CASE child[t].vforked
      <4> WITNESS [child[t] EXCEPT !.fds[fd] = Action(t).path, !.at = "move"]
      <4> QED
        BY <3>1, <3>2 DEF StoreFd, Running
    <3>3. CASE ~child[t].vforked
      <4> DEFINE l == [child[t].list EXCEPT ![child[t].n].fd = fd]
      <4> WITNESS [child[t] EXCEPT !.fds[fd] = Action(t).path, !.at = "move", !.list = l]
      <4> QED
        BY <3>1, <3>3 DEF StoreFd, Running
    <3> QED
      BY <3>2, <3>3
  <2>4. CASE RestoreMask(t)
    <3> DEFINE m == IF "SETSIGMASK" \in attr.flags THEN child[t].mask ELSE old_set[t]
    <3> WITNESS [child[t] EXCEPT !.at = "last", !.mask = m]
    <3> QED
      BY <2>4 DEF RestoreMask, Running
  <2>5. CASE Exec(t)
    <3>1. CASE Exit(t)
      BY <2>1, <3>1
    <3>2. CASE ~Exit(t)
      <4> WITNESS [child[t] EXCEPT !.at = "exec"]
      <4> QED
        BY <2>5, <3>2 DEF Exec, Ended
    <3> QED
      BY <3>1, <3>2
  <2>6. DoClose(t) \/ DoDup2(t) \/ DoOpen(t) \/ DoMove(t) =>
          Exit(t) \/ (\E fds : Done(t, fds)) \/ (\E fd : StoreFd(t, fd))
    BY DEF DoClose, DoDup2, DoOpen, DoMove
  <2> QED
    BY <2>1, <2>2, <2>3, <2>4, <2>5, <2>6
<1> QED
  BY <1>1, <1>2, <1>3, EndKeepsIInv

\* Every step of posix_spawn.cpp preserves the invariant.
LEMMA StepIInv == IInv /\ [Next]_vars => IInv'
<1> SUFFICES ASSUME IInv, [Next]_vars PROVE IInv'
  OBVIOUS
<1>1. CASE Clients
  BY <1>1, ClientsKeepIInv
<1>2. ASSUME NEW t \in Threads, Caller(t) PROVE IInv'
  BY <1>2, CallerKeepsIInv
<1>3. ASSUME NEW t \in Threads, Child(t) PROVE IInv'
  BY <1>3, ApplyAttrsKeepsIInv, FilesKeepIInv DEF Child
<1>4. CASE UNCHANGED vars
  BY <1>4 DEF vars, IInv, Shape, BlockedUntilReset, Guarded, HandlersGone
<1> QED
  BY <1>1, <1>2, <1>3, <1>4 DEF Next

-----------------------------------------------------------------------------

\* All signals are blocked in a child until no handler of the caller is left.
THEOREM SpawnBlocksUntilReset == Spec => []IInv
<1>1. Init => IInv
  BY InitIInv
<1>2. IInv /\ [Next]_vars => IInv'
  BY StepIInv
<1> QED
  BY <1>1, <1>2, PTL DEF Spec

\* No handler of the caller runs in a child of fork or vfork, for any number of
\* signals and whatever set of them the caller asks to unblock.
THEOREM SpawnRunsNoHandler == Spec => []NoHandlerInChild
<1>1. IInv => NoHandlerInChild
  BY PosixSpawnAssumption
     DEF IInv, Shape, BlockedUntilReset, Guarded, HandlersGone, NoHandlerInChild, Running, Signals
<1> QED
  BY <1>1, SpawnBlocksUntilReset, PTL

-----------------------------------------------------------------------------
(* The inductive invariant of ImageAsAsked                                 *)

Children ==
  [at : {"none"} \cup Running \cup Ended, vforked : BOOLEAN, s : Nat, n : Nat,
   list : Seq(FileActions) \cup {Null}, mask : SUBSET Signals,
   handlers : [Signals -> Handlers], inherited : FdTables, fds : FdTables,
   overlapped : BOOLEAN]

SpawnTypes ==
  /\ attr \in [flags : SUBSET Flags, sigmask : SUBSET Signals, sigdefault : SUBSET Signals]
  /\ actions \in Seq(FileActions) \cup {Null}
  /\ handlers \in [Signals -> Handlers]
  /\ mask \in [Threads -> SUBSET Signals] /\ old_set \in [Threads -> SUBSET Signals]
  /\ pc \in [Threads -> {"idle", "fork", "suspended", "return"}]
  /\ child \in [Threads -> Children]

\* What an action asks for: the descriptor that an open left in it is no part of it.
Asks(a) == IF a.what = "kOpen" THEN [a EXCEPT !.fd = -1] ELSE a

SameAsked(l, m) ==
  \/ l = Null /\ m = Null
  \/ /\ l # Null /\ m # Null
     /\ Len(l) = Len(m) /\ \A i \in 1..Len(m) : Asks(l[i]) = Asks(m[i])

\* Two children of vfork that run at the same time are marked as such.
Marked ==
  \A t \in Threads, u \in Threads :
    t # u /\ child[t].vforked /\ child[t].at \in Running
          /\ child[u].vforked /\ child[u].at \in Running => child[t].overlapped

\* A child is of the call that the attributes and the list are used for.
OfThisCall(t) ==
  child[t].at # "none" =>
    /\ child[t].vforked = UseVfork
    /\ child[t].vforked /\ child[t].at \in Running => pc[t] = "suspended"
    /\ ~child[t].vforked => SameAsked(child[t].list, actions)

WantedMask(t) == IF "SETSIGMASK" \in attr.flags THEN attr.sigmask ELSE old_set[t]

WantedHandler(s) ==
  IF s \in SigDefault \/ handlers[s] = "caught" THEN "SIG_DFL" ELSE handlers[s]

SignalsAsAsked(t) ==
  LET c == child[t] IN
  /\ c.at = "attrs" =>
       /\ c.s \in 1..NSIG
       /\ \A x \in Signals : c.handlers[x] = IF x < c.s THEN WantedHandler(x) ELSE handlers[x]
  /\ c.at \in {"file", "move", "last", "exec"} =>
       \A x \in Signals : c.handlers[x] = WantedHandler(x)
  /\ c.at \in {"file", "move"} /\ "SETSIGMASK" \in attr.flags => c.mask = attr.sigmask
  /\ c.at \in {"last", "exec"} => c.mask = WantedMask(t)

\* The table that the actions before the n-th of a list leave.
Reached(table, list, n) == IF list = Null THEN table ELSE TablesOf(table, list)[n - 1]

\* An open has the lowest free descriptor, and is not yet moved.
Opened(fds, pre, a) ==
  /\ a.what = "kOpen" /\ a.fd \in Fds
  /\ pre \in FdTables /\ pre[a.fd] = Null
  /\ fds = [pre EXCEPT ![a.fd] = a.path]

\* Where a child is in its list, and, unless it shares an open with another one, that
\* its table is the one the actions so far ask for.
FilesAsAsked(t) ==
  LET c == child[t] IN
  /\ c.at = "attrs" => c.n = 1 /\ c.fds = c.inherited
  /\ c.at = "file" =>
       /\ c.n \in 1..(IF List(t) = Null THEN 1 ELSE Len(List(t)) + 1)
       /\ SharedOpen(t) \/ c.fds = Reached(c.inherited, List(t), c.n)
  /\ c.at = "move" =>
       /\ HasAction(t) /\ Action(t).what = "kOpen" /\ Action(t).fd \in Fds
       /\ SharedOpen(t) \/ Opened(c.fds, Reached(c.inherited, List(t), c.n), Action(t))
  /\ c.at \in {"last", "exec"} => SharedOpen(t) \/ c.fds = Wanted(c.inherited)

ImageInv ==
  /\ SpawnTypes /\ Marked
  /\ \A t \in Threads : OfThisCall(t) /\ SignalsAsAsked(t) /\ FilesAsAsked(t)

-----------------------------------------------------------------------------
(* The tables that a list leaves                                           *)

\* A set of numbers has a least one.
LEMMA LeastNumber ==
  ASSUME NEW S \in SUBSET Nat, S # {}
  PROVE  \E m \in S : \A j \in S : m <= j
<1> DEFINE Below(m) == S \cap (0..m)
           T == {Below(m) : m \in S}
<1>1. T \subseteq FiniteSubsetsOf(S) /\ T # {}
  <2>1. \A m \in S : IsFiniteSet(0..m)
    BY FS_Interval
  <2>2. \A m \in S : IsFiniteSet(Below(m))
    BY <2>1, FS_Subset
  <2> QED
    BY <2>2 DEF FiniteSubsetsOf
<1>2. PICK m \in S : \A j \in S : ~ (<<Below(j), Below(m)>> \in StrictSubsetOrdering(S))
  <2> HIDE DEF T
  <2>1. \E x \in T : \A y \in T : ~ (<<y, x>> \in StrictSubsetOrdering(S))
    BY <1>1, FS_StrictSubsetOrderingWellFounded, WFMin
  <2> QED
    BY <2>1 DEF T
<1>3. ASSUME NEW j \in S, j < m PROVE FALSE
  <2>1. Below(j) \subseteq Below(m) /\ m \in Below(m) /\ m \notin Below(j)
    BY <1>3
  <2>2. Below(j) \in SUBSET S /\ Below(m) \in SUBSET S
    OBVIOUS
  <2> HIDE DEF Below
  <2> QED
    BY <1>2, <2>1, <2>2 DEF StrictSubsetOrdering
<1> QED
  BY <1>3

\* TablesOf is defined: there is a table after no action, and one more after each.
LEMMA TablesExist ==
  ASSUME NEW table, NEW list \in Seq(FileActions)
  PROVE  \E f : f = [n \in 0..Len(list) |-> IF n = 0 THEN table ELSE Perform(f[n - 1], list[n])]
<1> DEFINE Is(f, k) == f = [n \in 0..k |-> IF n = 0 THEN table ELSE Perform(f[n - 1], list[n])]
           N == {k \in Nat : ~ \E f : Is(f, k)}
<1>0. Len(list) \in Nat
  OBVIOUS
<1>1. SUFFICES ASSUME N # {} PROVE FALSE
  BY <1>0, <1>1
<1>2. PICK k \in N : \A j \in N : k <= j
  <2> HIDE DEF N
  <2>1. N \in SUBSET Nat
    BY DEF N
  <2> QED
    BY <1>1, <2>1, LeastNumber
<1>3. k # 0
  <2>1. Is([n \in 0..0 |-> table], 0)
    <3> DEFINE f == [n \in 0..0 |-> table]
    <3>1. \A n \in 0..0 : n = 0
      OBVIOUS
    <3>2. [n \in 0..0 |-> IF n = 0 THEN table ELSE Perform(f[n - 1], list[n])] = f
      BY <3>1
    <3> QED
      BY <3>2
  <2> QED
    BY <2>1
<1>4. k \in Nat /\ k - 1 \in Nat /\ k - 1 \notin N
  <2>1. k \in Nat
    OBVIOUS
  <2> HIDE DEF N
  <2> QED
    BY <1>2, <1>3, <2>1
<1>5. PICK f : Is(f, k - 1)
  BY <1>4
<1> DEFINE g == [n \in 0..k |-> IF n = k THEN Perform(f[k - 1], list[k]) ELSE f[n]]
<1>6. ASSUME NEW n \in 0..k
      PROVE  g[n] = IF n = 0 THEN table ELSE Perform(g[n - 1], list[n])
  <2>1. CASE n = k
    BY <1>3, <1>4, <2>1
  <2>2. CASE n # k
    <3>1. n \in 0..k - 1 /\ (n # 0 => n - 1 \in 0..k /\ n - 1 # k)
      BY <1>4, <2>2
    <3>2. f[n] = IF n = 0 THEN table ELSE Perform(f[n - 1], list[n])
      BY <1>5, <3>1
    <3>3. g[n] = f[n] /\ (n # 0 => g[n - 1] = f[n - 1])
      BY <2>2, <3>1
    <3> QED
      BY <3>2, <3>3
  <2> QED
    BY <2>1, <2>2
<1>7. Is(g, k)
  <2>1. g = [n \in 0..k |-> g[n]]
    OBVIOUS
  <2> HIDE DEF g
  <2>2. [n \in 0..k |-> g[n]] = [n \in 0..k |-> IF n = 0 THEN table ELSE Perform(g[n - 1], list[n])]
    BY <1>6
  <2> QED
    BY <2>1, <2>2
<1> QED
  BY <1>2, <1>7

\* The first table is the one given, and each action leaves the next.
LEMMA TablesStep ==
  ASSUME NEW table, NEW list \in Seq(FileActions)
  PROVE  LET left == TablesOf(table, list) IN
         /\ left[0] = table
         /\ \A n \in 1..Len(list) : left[n] = Perform(left[n - 1], list[n])
<1> DEFINE Is(f) == f = [n \in 0..Len(list) |-> IF n = 0 THEN table ELSE Perform(f[n - 1], list[n])]
           left == TablesOf(table, list)
<1>1. left = CHOOSE f : Is(f)
  BY DEF TablesOf
<1>2. Is(left)
  <2> HIDE DEF left
  <2> QED
    BY <1>1, TablesExist
<1>3. Len(list) \in Nat
  OBVIOUS
<1> HIDE DEF left
<1>4. left[0] = table /\ \A n \in 1..Len(list) : left[n] = Perform(left[n - 1], list[n])
  BY <1>2, <1>3
<1> QED
  BY <1>4 DEF left

\* The descriptor that an open left in an action changes nothing of what it does.
LEMMA PerformAsked ==
  ASSUME NEW fds, NEW a \in FileActions, NEW b \in FileActions, Asks(a) = Asks(b)
  PROVE  Perform(fds, a) = Perform(fds, b)
<1>1. CASE a.what = "kOpen"
  <2>1. Asks(a) = [a EXCEPT !.fd = -1] /\ Asks(a).what = "kOpen"
    BY <1>1 DEF Asks, FileActions
  <2>2. b.what = "kOpen"
    BY <2>1 DEF Asks, FileActions
  <2>3. Asks(b) = [b EXCEPT !.fd = -1]
    BY <2>2 DEF Asks
  <2>4. a.new_fd = b.new_fd /\ a.path = b.path
    BY <2>1, <2>3 DEF FileActions
  <2> QED
    BY <1>1, <2>2, <2>4 DEF Perform
<1>2. CASE a.what # "kOpen"
  <2>1. Asks(a) = a
    BY <1>2 DEF Asks
  <2>2. b.what # "kOpen"
    BY <2>1, <1>2 DEF Asks, FileActions
  <2> QED
    BY <2>1, <2>2 DEF Asks
<1> QED
  BY <1>1, <1>2

\* Two lists that ask for the same leave the same tables.
LEMMA TablesAgree ==
  ASSUME NEW table, NEW l \in Seq(FileActions), NEW m \in Seq(FileActions), SameAsked(l, m)
  PROVE  \A n \in 0..Len(m) : TablesOf(table, l)[n] = TablesOf(table, m)[n]
<1> DEFINE A == TablesOf(table, l)
           B == TablesOf(table, m)
           S == {n \in 0..Len(m) : A[n] # B[n]}
<1>1. Len(l) = Len(m) /\ Len(m) \in Nat /\ \A i \in 1..Len(m) : Asks(l[i]) = Asks(m[i])
  BY PosixSpawnAssumption DEF SameAsked
<1>2. A[0] = B[0] /\ \A n \in 1..Len(m) : A[n] = Perform(A[n - 1], l[n]) /\ B[n] = Perform(B[n - 1], m[n])
  BY <1>1, TablesStep
<1> HIDE DEF A, B
<1>3. SUFFICES ASSUME S # {} PROVE FALSE
  BY <1>3 DEF A, B
<1>4. PICK k \in S : \A j \in S : k <= j
  <2> HIDE DEF S
  <2>1. S \in SUBSET Nat
    BY <1>1 DEF S
  <2> QED
    BY <1>3, <2>1, LeastNumber
<1>5. k \in 1..Len(m) /\ k - 1 \in 0..Len(m) /\ k - 1 \notin S
  BY <1>1, <1>2, <1>4
<1>6. A[k - 1] = B[k - 1]
  BY <1>5
<1>7. l[k] \in FileActions /\ m[k] \in FileActions
  BY <1>1, <1>5
<1> DEFINE fds == B[k - 1]
<1> HIDE DEF fds
<1>8. Perform(fds, l[k]) = Perform(fds, m[k])
  BY <1>1, <1>5, <1>7, PerformAsked
<1> QED
  BY <1>2, <1>4, <1>5, <1>6, <1>8 DEF fds

-----------------------------------------------------------------------------
(* The steps                                                               *)

\* Before the first call there is no child.
LEMMA InitImageInv == Init => ImageInv
<1> SUFFICES ASSUME Init PROVE ImageInv
  OBVIOUS
<1>1. NoChild \in Children /\ NoChild.at = "none"
  BY PosixSpawnAssumption DEF NoChild, Children, FdTables, NoFile, Handlers, Running, Ended
<1>2. SpawnTypes
  BY <1>1, PosixSpawnAssumption DEF Init, SpawnTypes
<1>3. Marked
  BY <1>1 DEF Init, Marked, Running
<1>4. \A t \in Threads : OfThisCall(t) /\ SignalsAsAsked(t) /\ FilesAsAsked(t)
  BY <1>1 DEF Init, OfThisCall, SignalsAsAsked, FilesAsAsked
<1> QED
  BY <1>2, <1>3, <1>4 DEF ImageInv

\* The clients change their objects when there is no child.
LEMMA ClientsKeepImageInv == ASSUME ImageInv, Clients PROVE ImageInv'
<1>1. Quiet /\ UNCHANGED <<handlers, mask, old_set, pc, child>>
  BY DEF Clients, SetAttr, ActionsInit, AddFileAction, ActionsDestroy, caller
<1>2. SpawnTypes
  BY DEF ImageInv
<1>3. /\ attr' \in [flags : SUBSET Flags, sigmask : SUBSET Signals, sigdefault : SUBSET Signals]
      /\ actions' \in Seq(FileActions) \cup {Null}
  <2>1. CASE SetAttr
    BY <1>2, <2>1, PosixSpawnAssumption DEF SetAttr, SpawnTypes
  <2>2. CASE ActionsInit \/ ActionsDestroy
    <3>1. attr' = attr /\ actions' \in {Null, <<>>}
      BY <2>2 DEF ActionsInit, ActionsDestroy
    <3>2. <<>> \in Seq(FileActions)
      OBVIOUS
    <3> QED
      BY <1>2, <3>1, <3>2 DEF SpawnTypes
  <2>3. CASE AddFileAction
    BY <1>2, <2>3, PosixSpawnAssumption DEF AddFileAction, SpawnTypes
  <2> QED
    BY <2>1, <2>2, <2>3 DEF Clients
<1>4. SpawnTypes'
  BY <1>1, <1>2, <1>3 DEF SpawnTypes
<1>5. Marked'
  BY <1>1 DEF Quiet, Marked, Running
<1>6. \A t \in Threads : (OfThisCall(t) /\ SignalsAsAsked(t) /\ FilesAsAsked(t))'
  BY <1>1 DEF Quiet, OfThisCall, SignalsAsAsked, FilesAsAsked
<1> QED
  BY <1>4, <1>5, <1>6 DEF ImageInv

\* A child is not concerned with the steps of another thread that leave the
\* objects alone.
LEMMA OthersAsAsked ==
  ASSUME ImageInv, NEW u \in Threads, UNCHANGED objects,
         child'[u] = child[u], pc'[u] = pc[u], old_set'[u] = old_set[u]
  PROVE  (OfThisCall(u) /\ SignalsAsAsked(u) /\ FilesAsAsked(u))'
<1>0. OfThisCall(u) /\ SignalsAsAsked(u) /\ FilesAsAsked(u)
  BY DEF ImageInv
<1>1. OfThisCall(u)'
  BY <1>0 DEF OfThisCall, UseVfork, SameAsked, objects
<1>2. SignalsAsAsked(u)'
  BY <1>0 DEF SignalsAsAsked, WantedHandler, WantedMask, SigDefault, objects
<1>3. FilesAsAsked(u)'
  <2>1. List(u)' = List(u) /\ HasAction(u)' = HasAction(u) /\ Action(u)' = Action(u)
    BY DEF List, HasAction, Action, objects
  <2>2. Wanted(child[u].inherited)' = Wanted(child[u].inherited)
    BY DEF Wanted, objects
  <2>3. SharedOpen(u)' = SharedOpen(u)
    BY DEF SharedOpen, objects
  <2> QED
    BY <1>0, <2>1, <2>2, <2>3 DEF FilesAsAsked
<1> QED
  BY <1>1, <1>2, <1>3

\* A thread that enters has no child yet.
LEMMA SpawnCallKeepsImageInv ==
  ASSUME ImageInv, NEW t \in Threads, SpawnCall(t) PROVE ImageInv'
<1>1. /\ pc[t] = "idle" /\ child[t].at = "none"
      /\ old_set' = [old_set EXCEPT ![t] = mask[t]]
      /\ mask' = [mask EXCEPT ![t] = Signals]
      /\ pc' = [pc EXCEPT ![t] = "fork"]
      /\ UNCHANGED <<attr, actions, handlers, child>>
  BY DEF SpawnCall, BlockAll, Goto, objects
<1>2. SpawnTypes
  BY DEF ImageInv
<1>3. SpawnTypes'
  BY <1>1, <1>2 DEF SpawnTypes
<1>4. Marked'
  BY <1>1 DEF ImageInv, Marked
<1>5. (OfThisCall(t) /\ SignalsAsAsked(t) /\ FilesAsAsked(t))'
  BY <1>1 DEF OfThisCall, SignalsAsAsked, FilesAsAsked
<1>6. ASSUME NEW u \in Threads, u # t
      PROVE  (OfThisCall(u) /\ SignalsAsAsked(u) /\ FilesAsAsked(u))'
  BY <1>1, <1>2, <1>6, OthersAsAsked DEF SpawnTypes, objects
<1> QED
  BY <1>3, <1>4, <1>5, <1>6 DEF ImageInv

\* A child is not concerned with the fork of another thread, but for the mark.
LEMMA MarkedAsAsked ==
  ASSUME ImageInv, NEW u \in Threads, UNCHANGED objects, NEW b \in BOOLEAN,
         child'[u] = [child[u] EXCEPT !.overlapped = b], child[u].overlapped => b,
         pc'[u] = pc[u], old_set'[u] = old_set[u]
  PROVE  (OfThisCall(u) /\ SignalsAsAsked(u) /\ FilesAsAsked(u))'
<1>0. OfThisCall(u) /\ SignalsAsAsked(u) /\ FilesAsAsked(u) /\ child[u] \in Children
  BY DEF ImageInv, SpawnTypes
<1> DEFINE c == child'[u]
<1>1. /\ c.at = child[u].at /\ c.vforked = child[u].vforked /\ c.s = child[u].s
      /\ c.n = child[u].n /\ c.list = child[u].list /\ c.mask = child[u].mask
      /\ c.handlers = child[u].handlers /\ c.inherited = child[u].inherited
      /\ c.fds = child[u].fds /\ c.overlapped = b
  BY <1>0 DEF Children
<1>2. OfThisCall(u)'
  BY <1>0, <1>1 DEF OfThisCall, UseVfork, SameAsked, objects
<1>3. SignalsAsAsked(u)'
  BY <1>0, <1>1 DEF SignalsAsAsked, WantedHandler, WantedMask, SigDefault, objects
<1>4. FilesAsAsked(u)'
  <2>1. List(u)' = List(u)
    BY <1>1 DEF List, objects
  <2>2. HasAction(u)' = HasAction(u) /\ Action(u)' = Action(u)
    BY <1>1, <2>1 DEF HasAction, Action
  <2>3. Wanted(child[u].inherited)' = Wanted(child[u].inherited)
    BY <1>1 DEF Wanted, objects
  <2>4. SharedOpen(u) => SharedOpen(u)'
    BY <1>1 DEF SharedOpen, objects
  <2> HIDE DEF c
  <2> QED
    BY <1>0, <1>1, <2>1, <2>2, <2>3, <2>4 DEF FilesAsAsked, c
<1> QED
  BY <1>2, <1>3, <1>4

\* The new child starts with the dispositions and descriptors of the caller, and its
\* list asks for what the caller's does.  It and the children beside it are marked.
LEMMA ForkKeepsImageInv ==
  ASSUME ImageInv, NEW t \in Threads, Fork(t) PROVE ImageInv'
<1>1. PICK table \in Tables : child' = [u \in Threads |->
        IF u = t THEN NewChild(t, table)
        ELSE [child[u] EXCEPT !.overlapped = @ \/ (UseVfork /\ u \in Beside(t))]]
  BY DEF Fork
<1> DEFINE c == child'[t]
           b(u) == child[u].overlapped \/ (UseVfork /\ u \in Beside(t))
<1>2. SpawnTypes
  BY DEF ImageInv
<1>3. /\ pc[t] = "fork" /\ pc' = [pc EXCEPT ![t] = IF UseVfork THEN "suspended" ELSE "return"]
      /\ UNCHANGED <<attr, actions, handlers, mask, old_set>>
  BY DEF Fork, Goto, objects
<1>4. c = [at |-> "attrs", vforked |-> UseVfork, s |-> 1, n |-> 1,
           list |-> IF UseVfork THEN Null ELSE actions, mask |-> mask[t],
           handlers |-> handlers, inherited |-> table, fds |-> table,
           overlapped |-> UseVfork /\ Beside(t) # {}]
  BY <1>1 DEF NoChild, NewChild
<1>5. c \in Children
  <2>1. UseVfork \in BOOLEAN /\ (UseVfork /\ Beside(t) # {}) \in BOOLEAN
    BY DEF UseVfork
  <2>2. table \in FdTables
    BY PosixSpawnAssumption
  <2> HIDE DEF c
  <2> QED
    BY <1>2, <1>4, <2>1, <2>2 DEF Children, SpawnTypes, Running
<1>6. ASSUME NEW u \in Threads, u # t
      PROVE  /\ child'[u] = [child[u] EXCEPT !.overlapped = b(u)]
             /\ b(u) \in BOOLEAN /\ child'[u] \in Children
             /\ child'[u].at = child[u].at /\ child'[u].vforked = child[u].vforked
             /\ child'[u].overlapped = b(u)
  <2>1. child[u] \in Children
    BY <1>2 DEF SpawnTypes
  <2>2. b(u) \in BOOLEAN
    BY <2>1 DEF Children, UseVfork
  <2>3. child'[u] = [child[u] EXCEPT !.overlapped = b(u)]
    BY <1>1, <1>6
  <2> HIDE DEF b
  <2> QED
    BY <2>1, <2>2, <2>3 DEF Children
<1>7. SpawnTypes'
  <2>1. child' = [u \in Threads |-> child'[u]]
    BY <1>1
  <2>2. \A u \in Threads : child'[u] \in Children
    BY <1>5, <1>6
  <2>3. child' \in [Threads -> Children]
    BY <2>1, <2>2
  <2> QED
    BY <1>2, <1>3, <2>3 DEF SpawnTypes
<1>8. Marked'
  <2>0. /\ c.vforked => UseVfork
        /\ UseVfork /\ Beside(t) # {} => c.overlapped
    <3>1. c.vforked = UseVfork /\ c.overlapped = (UseVfork /\ Beside(t) # {})
      BY <1>4
    <3> HIDE DEF c
    <3> QED
      BY <3>1
  <2> SUFFICES ASSUME NEW x \in Threads, NEW y \in Threads, x # y,
                      child'[x].vforked, child'[x].at \in Running,
                      child'[y].vforked, child'[y].at \in Running
               PROVE  child'[x].overlapped
    BY DEF Marked
  <2>1. CASE x # t /\ y # t
    BY <1>6, <2>1 DEF ImageInv, Marked
  <2>2. CASE x = t
    <3>1. UseVfork
      BY <2>0, <2>2
    <3>2. y \in Beside(t)
      BY <1>6, <2>2 DEF Beside
    <3> QED
      BY <2>0, <2>2, <3>1, <3>2
  <2>3. CASE y = t
    <3>1. x \in Beside(t) /\ UseVfork
      BY <1>6, <2>0, <2>3 DEF Beside
    <3> QED
      BY <1>6, <2>3, <3>1
  <2> QED
    BY <2>1, <2>2, <2>3
<1>9. OfThisCall(t)'
  <2>1. UseVfork' = UseVfork
    BY <1>3 DEF UseVfork
  <2>2. c.vforked = UseVfork /\ (UseVfork => pc'[t] = "suspended")
    BY <1>2, <1>3, <1>4 DEF SpawnTypes
  <2>3. ~UseVfork => SameAsked(c.list, actions)
    BY <1>4 DEF SameAsked
  <2>4. SameAsked(c.list, actions) => SameAsked(child[t].list, actions)'
    BY <1>3 DEF SameAsked
  <2> HIDE DEF c
  <2> QED
    BY <2>1, <2>2, <2>3, <2>4 DEF OfThisCall, c
<1>10. SignalsAsAsked(t)'
  <2>1. 1 \in 1..NSIG /\ \A x \in Signals : ~ x < 1
    BY PosixSpawnAssumption DEF Signals
  <2> QED
    BY <1>3, <1>4, <2>1 DEF SignalsAsAsked
<1>11. FilesAsAsked(t)'
  BY <1>4 DEF FilesAsAsked
<1>12. ASSUME NEW u \in Threads, u # t
       PROVE  (OfThisCall(u) /\ SignalsAsAsked(u) /\ FilesAsAsked(u))'
  <2>1. pc'[u] = pc[u] /\ old_set'[u] = old_set[u] /\ UNCHANGED objects
    BY <1>2, <1>3, <1>12 DEF SpawnTypes, objects
  <2>2. child[u].overlapped => b(u)
    OBVIOUS
  <2>3. child'[u] = [child[u] EXCEPT !.overlapped = b(u)] /\ b(u) \in BOOLEAN
    BY <1>6, <1>12
  <2> HIDE DEF b
  <2> QED
    BY <2>1, <2>2, <2>3, MarkedAsAsked
<1> QED
  BY <1>7, <1>8, <1>9, <1>10, <1>11, <1>12 DEF ImageInv

\* The rest of the call, and the client that waits.
LEMMA ReturnKeepsImageInv ==
  ASSUME ImageInv, NEW t \in Threads, ForkFails(t) \/ Resume(t) \/ Return(t) \/ Reap(t)
  PROVE  ImageInv'
<1>2. SpawnTypes
  BY DEF ImageInv
<1>3. /\ UNCHANGED <<attr, actions, handlers, old_set>>
      /\ mask' \in [Threads -> SUBSET Signals]
      /\ child' \in [Threads -> Children] /\ pc' \in [Threads -> {"idle", "return"} \cup {pc[u] : u \in Threads}]
      /\ \A u \in Threads : u # t => child'[u] = child[u] /\ pc'[u] = pc[u]
      /\ \/ child'[t] = child[t] /\ (child[t].at \in Running /\ child[t].vforked => pc[t] # "suspended" \/ pc'[t] = "suspended")
         \/ child'[t].at = "none"
  <2>1. CASE Reap(t)
    <3>1. NoChild \in Children /\ NoChild.at = "none"
      BY PosixSpawnAssumption DEF NoChild, Children, FdTables, NoFile, Handlers, Running, Ended
    <3>2. child' = [child EXCEPT ![t] = NoChild] /\ UNCHANGED <<attr, actions, handlers, mask, old_set, pc>>
      BY <2>1 DEF Reap, objects, caller
    <3>3. child' \in [Threads -> Children] /\ child'[t] = NoChild
      BY <1>2, <3>1, <3>2 DEF SpawnTypes
    <3> QED
      BY <1>2, <3>1, <3>2, <3>3 DEF SpawnTypes
  <2>2. CASE ForkFails(t)
    BY <1>2, <2>2 DEF ForkFails, Goto, objects, SpawnTypes
  <2>3. CASE Resume(t)
    <3>1. child[t].at \notin Running
      BY <2>3 DEF Resume, Ended, Running
    <3> QED
      BY <1>2, <2>3, <3>1 DEF Resume, Goto, objects, SpawnTypes
  <2>4. CASE Return(t)
    BY <1>2, <2>4 DEF Return, Goto, objects, SpawnTypes
  <2> QED
    BY <2>1, <2>2, <2>3, <2>4
<1>4. SpawnTypes'
  BY <1>2, <1>3 DEF SpawnTypes
<1>5. Marked'
  BY <1>3 DEF ImageInv, Marked, Running
<1>6. ASSUME NEW u \in Threads, u # t
      PROVE  (OfThisCall(u) /\ SignalsAsAsked(u) /\ FilesAsAsked(u))'
  BY <1>3, <1>6, OthersAsAsked DEF objects
<1>7. CASE child'[t].at = "none"
  <2>1. (OfThisCall(t) /\ SignalsAsAsked(t) /\ FilesAsAsked(t))'
    BY <1>7 DEF OfThisCall, SignalsAsAsked, FilesAsAsked
  <2> QED
    BY <1>4, <1>5, <1>6, <2>1 DEF ImageInv
<1>8. CASE child'[t] = child[t] /\ (child[t].at \in Running /\ child[t].vforked =>
                                      pc[t] # "suspended" \/ pc'[t] = "suspended")
  <2>0. OfThisCall(t) /\ SignalsAsAsked(t) /\ FilesAsAsked(t)
    BY DEF ImageInv
  <2>1. OfThisCall(t)'
    BY <1>3, <1>8, <2>0 DEF OfThisCall, UseVfork, SameAsked
  <2>2. SignalsAsAsked(t)'
    BY <1>3, <1>8, <2>0 DEF SignalsAsAsked, WantedHandler, WantedMask, SigDefault
  <2>3. FilesAsAsked(t)'
    <3>1. List(t)' = List(t) /\ HasAction(t)' = HasAction(t) /\ Action(t)' = Action(t)
      BY <1>3, <1>8 DEF List, HasAction, Action
    <3>2. Wanted(child[t].inherited)' = Wanted(child[t].inherited)
      BY <1>3, <1>8 DEF Wanted
    <3>3. SharedOpen(t)' = SharedOpen(t)
      BY <1>3, <1>8 DEF SharedOpen
    <3> QED
      BY <1>8, <2>0, <3>1, <3>2, <3>3 DEF FilesAsAsked
  <2> QED
    BY <1>4, <1>5, <1>6, <2>1, <2>2, <2>3 DEF ImageInv
<1> QED
  BY <1>3, <1>7, <1>8

\* A step of a child that leaves the caller and its objects alone.
LEMMA ChildKeepsImageInv ==
  ASSUME ImageInv, NEW t \in Threads, NEW c \in Children,
         child' = [child EXCEPT ![t] = c], UNCHANGED <<objects, caller>>,
         c.vforked = child[t].vforked, c.overlapped = child[t].overlapped,
         c.at \in Running => child[t].at \in Running,
         (OfThisCall(t) /\ SignalsAsAsked(t) /\ FilesAsAsked(t))'
  PROVE  ImageInv'
<1>1. SpawnTypes
  BY DEF ImageInv
<1>2. SpawnTypes'
  BY <1>1 DEF SpawnTypes, objects, caller
<1>3. Marked'
  BY <1>1 DEF ImageInv, Marked, SpawnTypes
<1>4. ASSUME NEW u \in Threads, u # t
      PROVE  (OfThisCall(u) /\ SignalsAsAsked(u) /\ FilesAsAsked(u))'
  BY <1>1, <1>4, OthersAsAsked DEF SpawnTypes, objects, caller
<1> QED
  BY <1>2, <1>3, <1>4 DEF ImageInv

\* A child of the call stays one: its list asks for the same.
LEMMA StaysOfThisCall ==
  ASSUME ImageInv, NEW t \in Threads, child[t].at # "none", UNCHANGED <<objects, caller>>,
         child'[t].vforked = child[t].vforked, child'[t].list = child[t].list,
         child'[t].at \in Running => child[t].at \in Running
  PROVE  OfThisCall(t)'
<1>1. OfThisCall(t)
  BY DEF ImageInv
<1> QED
  BY <1>1 DEF OfThisCall, UseVfork, SameAsked, objects, caller

\* The mark of a child is left alone by its own steps.
LEMMA StaysMarked ==
  ASSUME NEW t \in Threads, UNCHANGED objects, child'[t].overlapped = child[t].overlapped
  PROVE  SharedOpen(t)' = SharedOpen(t)
BY DEF SharedOpen, objects

\* A child may end.
LEMMA ExitKeepsImageInv ==
  ASSUME ImageInv, NEW t \in Threads, child[t].at # "none", Exit(t), UNCHANGED <<objects, caller>>
  PROVE  ImageInv'
<1> DEFINE c == [child[t] EXCEPT !.at = "exit"]
<1>1. child' = [child EXCEPT ![t] = c] /\ child \in [Threads -> Children]
  BY DEF Exit, ImageInv, SpawnTypes
<1>2. c \in Children
  BY <1>1 DEF Children, Ended
<1>3. child'[t] = c
  BY <1>1
<1>4. /\ c.at = "exit" /\ c.vforked = child[t].vforked /\ c.list = child[t].list
      /\ c.overlapped = child[t].overlapped /\ c.at \notin Running
  BY <1>1 DEF Children, Running
<1>5. OfThisCall(t)'
  BY <1>3, <1>4, StaysOfThisCall DEF Running
<1>6. SignalsAsAsked(t)' /\ FilesAsAsked(t)'
  BY <1>3, <1>4 DEF SignalsAsAsked, FilesAsAsked
<1> HIDE DEF c
<1> QED
  BY <1>1, <1>2, <1>4, <1>5, <1>6, ChildKeepsImageInv

\* ApplyAttrs: what is below the counter is as asked, the rest as it was inherited.
LEMMA ResetKeepsImageInv ==
  ASSUME ImageInv, NEW t \in Threads, ResetHandler(t), ~Exit(t) PROVE ImageInv'
<1> DEFINE s == child[t].s
           h == IF MustReset(t, s) THEN "SIG_DFL" ELSE child[t].handlers[s]
           c == [child[t] EXCEPT !.handlers[s] = h, !.s = s + 1]
<1>1. /\ child[t].at = "attrs" /\ s \in Signals /\ UNCHANGED <<objects, caller>>
      /\ child' = [child EXCEPT ![t] = c] /\ child \in [Threads -> Children]
  BY DEF ResetHandler, ImageInv, SpawnTypes
<1>2. child[t] \in Children /\ child'[t] = c
  BY <1>1
<1>3. /\ c.at = "attrs" /\ c.vforked = child[t].vforked /\ c.list = child[t].list
      /\ c.s = s + 1 /\ c.handlers = [child[t].handlers EXCEPT ![s] = h]
      /\ c.n = child[t].n /\ c.fds = child[t].fds /\ c.inherited = child[t].inherited
      /\ c.overlapped = child[t].overlapped
  BY <1>1, <1>2 DEF Children
<1>4. h \in Handlers
  BY <1>1, <1>2 DEF Children, Handlers
<1>5. c \in Children
  <2>1. [child[t].handlers EXCEPT ![s] = h] \in [Signals -> Handlers]
    BY <1>2, <1>4 DEF Children
  <2>2. s + 1 \in Nat
    BY <1>2 DEF Children
  <2> DEFINE hs == [child[t].handlers EXCEPT ![s] = h]
             k == s + 1
  <2>3. c = [child[t] EXCEPT !.handlers = hs, !.s = k]
    OBVIOUS
  <2> HIDE DEF c, hs, k
  <2> QED
    BY <1>2, <2>1, <2>2, <2>3 DEF Children, hs, k
<1>6. SignalsAsAsked(t) /\ FilesAsAsked(t)
  BY DEF ImageInv
<1>7. OfThisCall(t)'
  BY <1>1, <1>2, <1>3, StaysOfThisCall
<1>8. SignalsAsAsked(t)'
  <2>1. /\ s \in 1..NSIG /\ s + 1 \in 1..NSIG
        /\ \A x \in Signals : child[t].handlers[x] = IF x < s THEN WantedHandler(x) ELSE handlers[x]
    BY <1>1, <1>6, PosixSpawnAssumption DEF SignalsAsAsked, Signals
  <2>2. h = WantedHandler(s)
    BY <1>1, <2>1 DEF MustReset, WantedHandler, Signals
  <2>3. ASSUME NEW x \in Signals
        PROVE  c.handlers[x] = IF x < s + 1 THEN WantedHandler(x) ELSE handlers[x]
    <3>1. CASE x = s
      <4>1. c.handlers[s] = h
        BY <1>1, <1>2, <1>3 DEF Children
      <4>2. s < s + 1
        BY <2>1
      <4> HIDE DEF c, h, s
      <4> QED
        BY <2>2, <3>1, <4>1, <4>2
    <3>2. CASE x # s
      <4>1. c.handlers[x] = child[t].handlers[x] /\ (x < s + 1 <=> x < s)
        BY <1>1, <1>2, <1>3, <3>2 DEF Children, Signals
      <4> QED
        BY <2>1, <4>1
    <3> QED
      BY <3>1, <3>2
  <2>4. \A x \in Signals : WantedHandler(x)' = WantedHandler(x) /\ handlers'[x] = handlers[x]
    BY <1>1 DEF WantedHandler, SigDefault, objects
  <2> HIDE DEF c
  <2> QED
    BY <1>2, <1>3, <2>1, <2>3, <2>4 DEF SignalsAsAsked
<1>9. FilesAsAsked(t)'
  <2> HIDE DEF c
  <2> QED
    BY <1>1, <1>2, <1>3, <1>6 DEF FilesAsAsked
<1> HIDE DEF c
<1> QED
  BY <1>1, <1>3, <1>5, <1>7, <1>8, <1>9, ChildKeepsImageInv

\* The list of a child is a list or Null.
LEMMA ListTyped ==
  ASSUME ImageInv, NEW t \in Threads
  PROVE  /\ List(t) \in Seq(FileActions) \cup {Null}
         /\ child[t].at # "none" => SameAsked(List(t), actions)
<1>1. SpawnTypes /\ OfThisCall(t)
  BY DEF ImageInv
<1>2. child[t] \in Children
  BY <1>1 DEF SpawnTypes
<1>3. List(t) \in Seq(FileActions) \cup {Null}
  BY <1>1, <1>2 DEF List, SpawnTypes, Children
<1>4. SameAsked(actions, actions)
  BY DEF SameAsked
<1> QED
  BY <1>1, <1>3, <1>4 DEF List, OfThisCall

\* After the last signal the actions begin, on the table that was inherited.
LEMMA ApplyRestKeepsImageInv ==
  ASSUME ImageInv, NEW t \in Threads, ApplyRest(t), ~Exit(t) PROVE ImageInv'
<1> DEFINE m == IF "SETSIGMASK" \in attr.flags THEN attr.sigmask ELSE child[t].mask
           c == [child[t] EXCEPT !.mask = m, !.at = "file"]
<1>1. /\ child[t].at = "attrs" /\ child[t].s \notin Signals /\ UNCHANGED <<objects, caller>>
      /\ child' = [child EXCEPT ![t] = c]
  BY DEF ApplyRest
<1>2. SpawnTypes /\ SignalsAsAsked(t) /\ FilesAsAsked(t)
  BY DEF ImageInv
<1>3. child[t] \in Children /\ child'[t] = c
  BY <1>1, <1>2 DEF SpawnTypes
<1>4. /\ c.at = "file" /\ c.vforked = child[t].vforked /\ c.list = child[t].list
      /\ c.handlers = child[t].handlers /\ c.mask = m
      /\ c.n = child[t].n /\ c.fds = child[t].fds /\ c.inherited = child[t].inherited
      /\ c.overlapped = child[t].overlapped
  BY <1>3 DEF Children
<1>5. c \in Children
  <2>1. m \in SUBSET Signals
    BY <1>2, <1>3 DEF SpawnTypes, Children
  <2> HIDE DEF m
  <2> QED
    BY <1>3, <2>1 DEF Children, Running
<1>6. OfThisCall(t)'
  BY <1>1, <1>3, <1>4, StaysOfThisCall DEF Running
<1>7. SignalsAsAsked(t)'
  <2>1. \A x \in Signals : child[t].handlers[x] = WantedHandler(x)
    BY <1>1, <1>2, PosixSpawnAssumption DEF SignalsAsAsked, Signals
  <2>2. \A x \in Signals : WantedHandler(x)' = WantedHandler(x)
    BY <1>1 DEF WantedHandler, SigDefault, objects
  <2>3. attr' = attr
    BY <1>1 DEF objects
  <2>4. "SETSIGMASK" \in attr.flags => c.mask = attr.sigmask
    BY <1>4
  <2> HIDE DEF c, m
  <2> QED
    BY <1>3, <1>4, <2>1, <2>2, <2>3, <2>4 DEF SignalsAsAsked
<1>8. FilesAsAsked(t)'
  <2>1. List(t)' = List(t)
    BY <1>1, <1>3, <1>4 DEF List, objects
  <2>2. List(t) \in Seq(FileActions) \cup {Null}
    BY ListTyped
  <2>3. c.n = 1 /\ c.fds = c.inherited
    BY <1>1, <1>2, <1>4 DEF FilesAsAsked
  <2>4. 1 \in 1..(IF List(t) = Null THEN 1 ELSE Len(List(t)) + 1)
    BY <2>2
  <2>5. List(t) # Null => TablesOf(c.inherited, List(t))[0] = c.inherited
    BY <2>2, TablesStep
  <2>6. Reached(c.inherited, List(t), 1) = c.inherited
    BY <2>5 DEF Reached
  <2> HIDE DEF c
  <2> QED
    BY <1>3, <1>4, <2>1, <2>3, <2>4, <2>6 DEF FilesAsAsked
<1> HIDE DEF c
<1> QED
  BY <1>1, <1>4, <1>5, <1>6, <1>7, <1>8, ChildKeepsImageInv DEF Running

\* A child that has an action to do: its list, and the tables before and after it.
LEMMA ActionTyped ==
  ASSUME ImageInv, NEW t \in Threads, HasAction(t)
  PROVE  /\ List(t) \in Seq(FileActions) /\ List(t) # Null /\ Len(List(t)) \in Nat
         /\ child[t].n \in 1..Len(List(t)) /\ child[t].n - 1 \in 0..Len(List(t))
         /\ Action(t) \in FileActions
         /\ TablesOf(child[t].inherited, List(t))[child[t].n] =
              Perform(Reached(child[t].inherited, List(t), child[t].n), Action(t))
<1>1. List(t) \in Seq(FileActions) /\ List(t) # Null
  BY ListTyped, PosixSpawnAssumption DEF HasAction
<1>2. Len(List(t)) \in Nat /\ DOMAIN List(t) = 1..Len(List(t))
  BY <1>1
<1>3. child[t].n \in 1..Len(List(t))
  BY <1>2 DEF HasAction
<1>4. child[t].n - 1 \in 0..Len(List(t)) /\ Action(t) \in FileActions
  BY <1>1, <1>2, <1>3 DEF Action
<1>5. TablesOf(child[t].inherited, List(t))[child[t].n] =
        Perform(TablesOf(child[t].inherited, List(t))[child[t].n - 1], Action(t))
  BY <1>1, <1>3, TablesStep DEF Action
<1> QED
  BY <1>1, <1>2, <1>3, <1>4, <1>5 DEF Reached

\* An action that is done leaves the table that Perform says.
LEMMA DoneKeepsImageInv ==
  ASSUME ImageInv, NEW t \in Threads, child[t].at \in {"file", "move"}, HasAction(t),
         NEW fds \in FdTables,
         SharedOpen(t) \/
           fds = Perform(Reached(child[t].inherited, List(t), child[t].n), Action(t)),
         Done(t, fds), UNCHANGED <<objects, caller>>
  PROVE  ImageInv'
<1> DEFINE k == child[t].n + 1
           c == [child[t] EXCEPT !.fds = fds, !.n = k, !.at = "file"]
<1>1. child' = [child EXCEPT ![t] = c]
  BY DEF Done, NextIndex
<1>2. SpawnTypes /\ SignalsAsAsked(t)
  BY DEF ImageInv
<1>3. child[t] \in Children /\ child'[t] = c
  BY <1>1, <1>2 DEF SpawnTypes
<1>4. k \in Nat
  BY <1>3 DEF Children
<1>5. /\ c.at = "file" /\ c.vforked = child[t].vforked /\ c.list = child[t].list
      /\ c.handlers = child[t].handlers /\ c.mask = child[t].mask
      /\ c.n = k /\ c.fds = fds /\ c.inherited = child[t].inherited
      /\ c.overlapped = child[t].overlapped
  <2> HIDE DEF k
  <2> QED
    BY <1>3 DEF Children
<1>6. c \in Children
  <2> HIDE DEF k
  <2> QED
    BY <1>3, <1>4 DEF Children, Running
<1>7. OfThisCall(t)'
  <2> HIDE DEF c
  <2> QED
    BY <1>3, <1>5, StaysOfThisCall DEF Running
<1>8. SignalsAsAsked(t)'
  <2>1. /\ \A x \in Signals : child[t].handlers[x] = WantedHandler(x)
        /\ "SETSIGMASK" \in attr.flags => child[t].mask = attr.sigmask
    BY <1>2 DEF SignalsAsAsked
  <2>2. \A x \in Signals : WantedHandler(x)' = WantedHandler(x)
    BY DEF WantedHandler, SigDefault, objects
  <2>3. attr' = attr
    BY DEF objects
  <2> HIDE DEF c
  <2> QED
    BY <1>3, <1>5, <2>1, <2>2, <2>3 DEF SignalsAsAsked
<1>9. FilesAsAsked(t)'
  <2> HIDE DEF c
  <2>1. List(t)' = List(t)
    BY <1>3, <1>5 DEF List, objects
  <2>2. /\ List(t) # Null /\ Len(List(t)) \in Nat /\ child[t].n \in 1..Len(List(t))
        /\ SharedOpen(t) \/ TablesOf(child[t].inherited, List(t))[child[t].n] = fds
    BY ActionTyped
  <2>3. k \in 1..(IF List(t) = Null THEN 1 ELSE Len(List(t)) + 1) /\ k - 1 = child[t].n
    <3> DEFINE n == child[t].n
               l == Len(List(t))
    <3>1. n \in 1..l /\ l \in Nat
      BY <2>2
    <3> HIDE DEF n, l
    <3>2. n + 1 \in 1..l + 1 /\ (n + 1) - 1 = n
      BY <3>1
    <3> QED
      BY <2>2, <3>2 DEF n, l
  <2>4. SharedOpen(t) \/ Reached(c.inherited, List(t), k) = fds
    BY <1>5, <2>2, <2>3 DEF Reached
  <2>5. SharedOpen(t)' = SharedOpen(t)
    BY <1>3, <1>5, StaysMarked
  <2> HIDE DEF k
  <2> QED
    BY <1>3, <1>5, <2>1, <2>3, <2>4, <2>5 DEF FilesAsAsked
<1> HIDE DEF c
<1> QED
  BY <1>1, <1>5, <1>6, <1>7, <1>8, <1>9, ChildKeepsImageInv DEF Running

\* What an action leaves of a table.
LEMMA PerformOn ==
  ASSUME NEW fds \in FdTables, NEW a \in FileActions
  PROVE  /\ a.what = "kClose" => /\ Perform(fds, a) = [fds EXCEPT ![a.fd] = Null]
                                 /\ Perform(fds, a) \in FdTables
         /\ a.what = "kDup2" /\ fds[a.fd] # Null =>
              /\ Perform(fds, a) = [fds EXCEPT ![a.new_fd] = fds[a.fd]]
              /\ Perform(fds, a) \in FdTables
         /\ a.what = "kOpen" => /\ Perform(fds, a) = [fds EXCEPT ![a.new_fd] = a.path]
                                /\ Perform(fds, a) \in FdTables
                                /\ a.new_fd \in Fds /\ a.path \in Files /\ a.path # Null
<1>0. fds # Null
  BY PosixSpawnAssumption
<1>1. ASSUME a.what = "kClose"
      PROVE  Perform(fds, a) = [fds EXCEPT ![a.fd] = Null] /\ Perform(fds, a) \in FdTables
  <2>1. Perform(fds, a) = [fds EXCEPT ![a.fd] = Null]
    BY <1>0, <1>1 DEF Perform
  <2> QED
    BY <2>1 DEF FdTables
<1>2. ASSUME a.what = "kDup2", fds[a.fd] # Null
      PROVE  /\ Perform(fds, a) = [fds EXCEPT ![a.new_fd] = fds[a.fd]]
             /\ Perform(fds, a) \in FdTables
  <2>1. Perform(fds, a) = [fds EXCEPT ![a.new_fd] = fds[a.fd]]
    BY <1>0, <1>2 DEF Perform
  <2>2. a.fd \in Fds
    BY <1>2 DEF FileActions
  <2> QED
    BY <2>1, <2>2 DEF FdTables
<1>3. ASSUME a.what = "kOpen"
      PROVE  /\ Perform(fds, a) = [fds EXCEPT ![a.new_fd] = a.path]
             /\ Perform(fds, a) \in FdTables
             /\ a.new_fd \in Fds /\ a.path \in Files /\ a.path # Null
  <2>1. Perform(fds, a) = [fds EXCEPT ![a.new_fd] = a.path]
    BY <1>0, <1>3 DEF Perform
  <2>2. a.new_fd \in Fds /\ a.path \in Files /\ a.path # Null
    BY <1>3, PosixSpawnAssumption DEF FileActions
  <2> QED
    BY <2>1, <2>2 DEF FdTables
<1> QED
  BY <1>1, <1>2, <1>3

\* close and dup2 are done as Perform says, or dup2 fails and the child ends.
LEMMA CloseAndDupKeepImageInv ==
  ASSUME ImageInv, NEW t \in Threads, DoClose(t) \/ DoDup2(t) PROVE ImageInv'
<1> DEFINE fds == child[t].fds
           a == Action(t)
<1>1. child[t].at = "file" /\ HasAction(t) /\ UNCHANGED <<objects, caller>>
  BY DEF DoClose, DoDup2
<1>2. /\ fds \in FdTables
      /\ SharedOpen(t) \/ fds = Reached(child[t].inherited, List(t), child[t].n)
  BY <1>1 DEF ImageInv, FilesAsAsked, SpawnTypes, Children
<1>3. a \in FileActions
  BY <1>1, ActionTyped
<1>4. ASSUME Done(t, Perform(fds, a)), Perform(fds, a) \in FdTables PROVE ImageInv'
  BY <1>1, <1>2, <1>4, DoneKeepsImageInv
<1>5. CASE DoClose(t)
  <2>1. a.what = "kClose" /\ Done(t, [fds EXCEPT ![a.fd] = Null])
    BY <1>5 DEF DoClose
  <2>2. Perform(fds, a) = [fds EXCEPT ![a.fd] = Null] /\ Perform(fds, a) \in FdTables
    BY <1>2, <1>3, <2>1, PerformOn
  <2> QED
    BY <1>4, <2>1, <2>2
<1>6. CASE DoDup2(t) /\ ~Exit(t)
  <2>1. /\ a.what = "kDup2" /\ fds[a.fd] # Null
        /\ Done(t, [fds EXCEPT ![a.new_fd] = fds[a.fd]])
    BY <1>6 DEF DoDup2
  <2>2. /\ Perform(fds, a) = [fds EXCEPT ![a.new_fd] = fds[a.fd]]
        /\ Perform(fds, a) \in FdTables
    BY <1>2, <1>3, <2>1, PerformOn
  <2> QED
    BY <1>4, <2>1, <2>2
<1>7. CASE Exit(t)
  BY <1>1, <1>7, ExitKeepsImageInv
<1> QED
  BY <1>5, <1>6, <1>7

\* An open that landed elsewhere is moved to where it was asked for, and the lowest
\* free descriptor is free again.
LEMMA MoveKeepsImageInv ==
  ASSUME ImageInv, NEW t \in Threads, DoMove(t) PROVE ImageInv'
<1> DEFINE fds == child[t].fds
           a == Action(t)
           pre == Reached(child[t].inherited, List(t), child[t].n)
<1>1. child[t].at = "move" /\ UNCHANGED <<objects, caller>>
  BY DEF DoMove
<1>2. /\ HasAction(t) /\ a.what = "kOpen" /\ a.fd \in Fds /\ fds \in FdTables
      /\ SharedOpen(t) \/ Opened(fds, pre, a)
  BY <1>1 DEF ImageInv, FilesAsAsked, SpawnTypes, Children
<1>3. a \in FileActions
  BY <1>2, ActionTyped
<1>4. a.new_fd \in Fds
  BY <1>2, <1>3 DEF FileActions
<1> HIDE DEF fds, a, pre
<1> DEFINE new == IF a.fd = a.new_fd THEN fds ELSE Moved(fds, a.fd, a.new_fd)
<1>5. new \in FdTables
  BY <1>2, <1>4 DEF Moved, FdTables
<1>6. ASSUME Opened(fds, pre, a) PROVE new = Perform(pre, a)
  <2>1. /\ pre \in FdTables /\ pre[a.fd] = Null /\ fds = [pre EXCEPT ![a.fd] = a.path]
    BY <1>6 DEF Opened
  <2>2. Perform(pre, a) = [pre EXCEPT ![a.new_fd] = a.path]
    BY <1>2, <1>3, <2>1, PerformOn
  <2>3. fds[a.fd] = a.path
    BY <1>2, <2>1 DEF FdTables
  <2>4. CASE a.fd = a.new_fd
    BY <2>1, <2>2, <2>4
  <2>5. CASE a.fd # a.new_fd
    <3>1. Moved(fds, a.fd, a.new_fd) = [fds EXCEPT ![a.new_fd] = a.path, ![a.fd] = Null]
      BY <2>3 DEF Moved
    <3>2. ASSUME NEW d \in Fds
          PROVE  [fds EXCEPT ![a.new_fd] = a.path, ![a.fd] = Null][d]
                   = [pre EXCEPT ![a.new_fd] = a.path][d]
      BY <1>2, <1>4, <2>1, <2>5 DEF FdTables
    <3>3. [fds EXCEPT ![a.new_fd] = a.path, ![a.fd] = Null]
            = [pre EXCEPT ![a.new_fd] = a.path]
      BY <1>2, <1>4, <2>1, <3>2 DEF FdTables
    <3> QED
      BY <2>2, <2>5, <3>1, <3>3
  <2> QED
    BY <2>4, <2>5
<1>7. CASE Exit(t)
  BY <1>1, <1>2, <1>7, ExitKeepsImageInv
<1>8. CASE ~Exit(t)
  <2>1. Done(t, new)
    BY <1>8 DEF DoMove, fds, a
  <2>2. SharedOpen(t) \/ new = Perform(pre, a)
    BY <1>2, <1>6
  <2> HIDE DEF new
  <2> QED
    BY <1>1, <1>2, <1>5, <2>1, <2>2, DoneKeepsImageInv DEF pre, a
<1> QED
  BY <1>7, <1>8

\* The lowest of some descriptors is one of them.
LEMMA LowestIsFree ==
  ASSUME NEW D \in SUBSET Fds, D # {}
  PROVE  Lowest(D) \in D
<1>1. D \in SUBSET Nat
  BY PosixSpawnAssumption DEF Fds
<1>2. \E d \in D : \A e \in D : d <= e
  BY <1>1, LeastNumber
<1> QED
  BY <1>2 DEF Lowest

\* A list in which an open has left its descriptor asks for the same as before.
LEMMA StoredList ==
  ASSUME NEW l \in Seq(FileActions), NEW n \in 1..Len(l), l[n].what = "kOpen", NEW fd \in Fds
  PROVE  LET new == [l EXCEPT ![n].fd = fd] IN
         /\ new \in Seq(FileActions) /\ Len(new) = Len(l)
         /\ new[n].what = "kOpen" /\ new[n].fd = fd /\ new[n].path = l[n].path
         /\ \A i \in 1..Len(l) : i # n => new[i] = l[i]
         /\ SameAsked(new, l)
<1> DEFINE a == [l[n] EXCEPT !.fd = fd]
           new == [l EXCEPT ![n].fd = fd]
<1>1. l[n] \in FileActions
  OBVIOUS
<1>2. a \in FileActions /\ a.what = "kOpen" /\ a.fd = fd /\ a.path = l[n].path
  BY <1>1 DEF FileActions
<1>3. Asks(a) = Asks(l[n])
  BY <1>1, <1>2 DEF Asks, FileActions
<1>4. new = [l EXCEPT ![n] = a]
  OBVIOUS
<1> HIDE DEF a, new
<1>5. new \in Seq(FileActions) /\ Len(new) = Len(l)
  BY <1>2, <1>4
<1>6. new[n] = a /\ \A i \in 1..Len(l) : i # n => new[i] = l[i]
  BY <1>4
<1>7. SameAsked(new, l)
  BY <1>3, <1>5, <1>6, PosixSpawnAssumption DEF SameAsked
<1> QED
  BY <1>2, <1>5, <1>6, <1>7 DEF new

\* Lists that ask for the same as the same list ask for the same.
LEMMA SameAskedTransitive ==
  ASSUME NEW k, NEW l, NEW m, SameAsked(k, l), SameAsked(l, m)
  PROVE  SameAsked(k, m)
BY DEF SameAsked

\* An open stores its descriptor in the list, which is the caller's own after vfork:
\* what the list asks for is as before, and the other children that run are marked.
LEMMA StoreKeepsImageInv ==
  ASSUME ImageInv, NEW t \in Threads, child[t].at = "file", HasAction(t),
         Action(t).what = "kOpen", NEW fd \in Free(child[t].fds), StoreFd(t, fd),
         UNCHANGED <<attr, handlers, caller>>
  PROVE  ImageInv'
<1> DEFINE n == child[t].n
           l == List(t)
           new == [l EXCEPT ![n].fd = fd]
           c == child'[t]
<1>1. SpawnTypes /\ Marked /\ OfThisCall(t) /\ SignalsAsAsked(t) /\ FilesAsAsked(t)
  BY DEF ImageInv
<1>2. child[t] \in Children
  BY <1>1 DEF SpawnTypes
<1>3. fd \in Fds /\ child[t].fds[fd] = Null
  BY DEF Free
<1>4. /\ l \in Seq(FileActions) /\ l # Null /\ n \in 1..Len(l) /\ n - 1 \in 0..Len(l)
      /\ Action(t) \in FileActions /\ Action(t) = l[n]
  BY ActionTyped DEF Action
<1>5. /\ new \in Seq(FileActions) /\ Len(new) = Len(l) /\ new # Null
      /\ new[n].what = "kOpen" /\ new[n].fd = fd /\ new[n].path = l[n].path
      /\ \A i \in 1..Len(l) : i # n => new[i] = l[i]
      /\ SameAsked(new, l)
  <2> HIDE DEF n, l
  <2>1. l[n].what = "kOpen"
    BY <1>4
  <2>2. LET x == [l EXCEPT ![n].fd = fd] IN
        /\ x \in Seq(FileActions) /\ Len(x) = Len(l)
        /\ x[n].what = "kOpen" /\ x[n].fd = fd /\ x[n].path = l[n].path
        /\ \A i \in 1..Len(l) : i # n => x[i] = l[i]
        /\ SameAsked(x, l)
    BY <1>3, <1>4, <2>1, StoredList
  <2> HIDE DEF new
  <2>3. new \in Seq(FileActions) => new # Null
    BY PosixSpawnAssumption
  <2> QED
    BY <2>2, <2>3 DEF new
<1>6. /\ child' = [child EXCEPT ![t] = c] /\ c \in Children
      /\ c.at = "move" /\ c.vforked = child[t].vforked /\ c.n = n
      /\ c.handlers = child[t].handlers /\ c.mask = child[t].mask
      /\ c.inherited = child[t].inherited /\ c.overlapped = child[t].overlapped
      /\ c.fds = [child[t].fds EXCEPT ![fd] = l[n].path]
      /\ IF child[t].vforked THEN actions' = new /\ c.list = child[t].list
                             ELSE actions' = actions /\ c.list = new
  <2> DEFINE fds == [child[t].fds EXCEPT ![fd] = l[n].path]
  <2>1. fds \in FdTables
    <3>1. l[n].path \in Files
      BY <1>4 DEF FileActions
    <3> QED
      BY <1>2, <3>1 DEF Children, FdTables
  <2>2. CASE child[t].vforked
    <3>1. actions' = new /\ child' = [child EXCEPT ![t].fds[fd] = l[n].path, ![t].at = "move"]
      BY <1>4, <2>2 DEF StoreFd, List
    <3>2. child' = [child EXCEPT ![t] = [child[t] EXCEPT !.fds = fds, !.at = "move"]]
      BY <3>1
    <3>3. c = [child[t] EXCEPT !.fds = fds, !.at = "move"]
      BY <1>1, <3>2 DEF SpawnTypes
    <3>4. child' = [child EXCEPT ![t] = c]
      BY <3>2, <3>3
    <3> HIDE DEF c, fds
    <3>5. c \in Children
      BY <1>2, <2>1, <3>3 DEF Children, Running
    <3>6. /\ c.at = "move" /\ c.vforked = child[t].vforked /\ c.n = n
          /\ c.handlers = child[t].handlers /\ c.mask = child[t].mask /\ c.list = child[t].list
          /\ c.inherited = child[t].inherited /\ c.fds = fds
          /\ c.overlapped = child[t].overlapped
      BY <1>2, <3>3 DEF Children
    <3> QED
      BY <2>2, <3>1, <3>4, <3>5, <3>6 DEF fds
  <2>3. CASE ~child[t].vforked
    <3>1. /\ actions' = actions
          /\ child' = [child EXCEPT ![t].fds[fd] = l[n].path, ![t].at = "move",
                                    ![t].list = [@ EXCEPT ![child[t].n].fd = fd]]
          /\ l = child[t].list
      BY <1>4, <2>3 DEF StoreFd, List
    <3> HIDE DEF l
    <3>2. child' = [child EXCEPT ![t] = [child[t] EXCEPT !.fds = fds, !.at = "move", !.list = new]]
      BY <3>1
    <3>3. c = [child[t] EXCEPT !.fds = fds, !.at = "move", !.list = new]
      BY <1>1, <3>2 DEF SpawnTypes
    <3>4. child' = [child EXCEPT ![t] = c]
      BY <3>2, <3>3
    <3> HIDE DEF c, fds, new
    <3>5. c \in Children
      BY <1>2, <1>5, <2>1, <3>3 DEF Children, Running
    <3>6. /\ c.at = "move" /\ c.vforked = child[t].vforked /\ c.n = n
          /\ c.handlers = child[t].handlers /\ c.mask = child[t].mask /\ c.list = new
          /\ c.inherited = child[t].inherited /\ c.fds = fds
          /\ c.overlapped = child[t].overlapped
      BY <1>2, <3>3 DEF Children
    <3> QED
      BY <2>3, <3>1, <3>4, <3>5, <3>6 DEF fds
  <2> QED
    BY <2>2, <2>3
<1> HIDE DEF c, new
<1>7. /\ attr' = attr /\ handlers' = handlers /\ mask' = mask /\ old_set' = old_set /\ pc' = pc
      /\ child'[t] = c /\ List(t)' = new /\ c.n - 1 \in 0..Len(l)
      /\ \A u \in Threads : u # t => child'[u] = child[u]
  <2>1. attr' = attr /\ handlers' = handlers /\ mask' = mask /\ old_set' = old_set /\ pc' = pc
    BY DEF caller
  <2>2. child'[t] = c /\ \A u \in Threads : u # t => child'[u] = child[u]
    BY <1>1, <1>6 DEF SpawnTypes, c
  <2>3. List(t)' = new
    BY <1>6, <2>2 DEF List
  <2> QED
    BY <1>4, <1>6, <2>1, <2>2, <2>3
<1>8. SpawnTypes'
  <2>1. actions' \in Seq(FileActions) \cup {Null}
    BY <1>1, <1>5, <1>6 DEF SpawnTypes
  <2>2. child' \in [Threads -> Children]
    BY <1>1, <1>6 DEF SpawnTypes
  <2> QED
    BY <1>1, <1>7, <2>1, <2>2 DEF SpawnTypes
<1>9. (actions' = Null <=> actions = Null) /\ UseVfork' = UseVfork
  <2>1. child[t].vforked => actions = l
    BY DEF List
  <2>2. actions' = Null <=> actions = Null
    BY <1>4, <1>5, <1>6, <2>1
  <2> QED
    BY <1>7, <2>2 DEF UseVfork
<1>10. Marked' /\ \A u \in Threads : SharedOpen(u) => SharedOpen(u)'
  <2>1. ASSUME NEW u \in Threads
        PROVE  /\ child'[u].vforked <=> child[u].vforked
               /\ child'[u].overlapped <=> child[u].overlapped
               /\ child'[u].at \in Running => child[u].at \in Running
    <3>1. CASE u # t
      BY <1>7, <3>1
    <3>2. CASE u = t
      <4>1. /\ child'[u] = c /\ c.vforked = child[u].vforked
            /\ c.overlapped = child[u].overlapped
            /\ child[u].at \in Running
        BY <1>6, <1>7, <3>2 DEF Running
      <4> QED
        BY <4>1, Zenon
    <3> QED
      BY <3>1, <3>2
  <2>2. Marked'
    <3> SUFFICES ASSUME NEW x \in Threads, NEW y \in Threads, x # y,
                        child'[x].vforked, child'[x].at \in Running,
                        child'[y].vforked, child'[y].at \in Running
                 PROVE  child'[x].overlapped
      BY DEF Marked
    <3>1. /\ child[x].vforked /\ child[x].at \in Running
          /\ child[y].vforked /\ child[y].at \in Running
      BY <2>1
    <3>2. child[x].overlapped
      BY <3>1 DEF ImageInv, Marked
    <3> QED
      BY <2>1, <3>2
  <2>3. CASE child[t].vforked
    <3>1. actions' # Null /\ n \in DOMAIN actions' /\ actions'[n].what = "kOpen"
      BY <1>4, <1>5, <1>6, <2>3
    <3> HIDE DEF n
    <3>2. ASSUME NEW u \in Threads, child[u].overlapped PROVE SharedOpen(u)'
      <4>1. child'[u].overlapped
        BY <2>1, <3>2
      <4> QED
        BY <3>1, <4>1 DEF SharedOpen
    <3> QED
      BY <2>2, <3>2 DEF SharedOpen
  <2>4. CASE ~child[t].vforked
    BY <1>6, <2>1, <2>2, <2>4 DEF SharedOpen
  <2> QED
    BY <2>3, <2>4
<1>11. OfThisCall(t)'
  <2>1. child[t].vforked = UseVfork /\ (child[t].vforked => pc[t] = "suspended")
    BY <1>1 DEF OfThisCall, Running
  <2>2. ~child[t].vforked => SameAsked(l, actions) /\ actions' = actions /\ c.list = new
    BY <1>1, <1>6 DEF OfThisCall, List
  <2>3. ~child[t].vforked => SameAsked(c.list, actions')
    <3> HIDE DEF l
    <3> QED
      BY <1>5, <2>2, SameAskedTransitive
  <2> HIDE DEF n, l
  <2> QED
    BY <1>6, <1>7, <1>9, <2>1, <2>3 DEF OfThisCall
<1>12. SignalsAsAsked(t)'
  <2>1. /\ \A x \in Signals : child[t].handlers[x] = WantedHandler(x)
        /\ "SETSIGMASK" \in attr.flags => child[t].mask = attr.sigmask
    BY <1>1 DEF SignalsAsAsked
  <2>2. \A x \in Signals : WantedHandler(x)' = WantedHandler(x)
    BY <1>7 DEF WantedHandler, SigDefault
  <2> QED
    BY <1>6, <1>7, <2>1, <2>2 DEF SignalsAsAsked
<1>13. FilesAsAsked(t)'
  <2>1. HasAction(t)' /\ Action(t)' = new[n] /\ c.n = n /\ c.at = "move"
    <3>1. n \in DOMAIN new
      BY <1>4, <1>5
    <3> QED
      BY <1>5, <1>6, <1>7, <3>1 DEF HasAction, Action
  <2>2. ASSUME ~SharedOpen(t)
        PROVE  Opened(c.fds, Reached(c.inherited, new, c.n), new[n])
    <3> DEFINE pre == TablesOf(child[t].inherited, l)[n - 1]
    <3>1. child[t].fds = pre
      BY <1>1, <1>4, <2>2 DEF FilesAsAsked, Reached
    <3>2. TablesOf(c.inherited, new)[n - 1] = pre
      <4> HIDE DEF l, n
      <4> QED
        BY <1>4, <1>5, <1>6, TablesAgree
    <3>3. pre \in FdTables
      BY <1>2, <3>1 DEF Children
    <3> HIDE DEF l, n, pre
    <3>4. Reached(c.inherited, new, c.n) = pre
      BY <1>5, <2>1, <3>2 DEF Reached
    <3> QED
      BY <1>3, <1>5, <1>6, <3>1, <3>3, <3>4 DEF Opened
  <2>3. ~SharedOpen(t)' => ~SharedOpen(t)
    BY <1>10
  <2> HIDE DEF l, n
  <2> QED
    BY <1>3, <1>5, <1>7, <2>1, <2>2, <2>3 DEF FilesAsAsked
<1>14. ASSUME NEW u \in Threads, u # t
       PROVE  (OfThisCall(u) /\ SignalsAsAsked(u) /\ FilesAsAsked(u))'
  <2>1. CASE ~child[t].vforked
    BY <1>6, <1>7, <1>14, <2>1, OthersAsAsked DEF objects
  <2>2. CASE child[t].vforked
    <3>1. OfThisCall(u) /\ SignalsAsAsked(u) /\ FilesAsAsked(u)
      BY DEF ImageInv
    <3>2. /\ child[u].at # "none" => child[u].vforked
          /\ child[u].at \in Running => SharedOpen(u)'
      <4>1. UseVfork
        BY <1>1, <2>2 DEF OfThisCall, Running
      <4>2. child[u].at # "none" => child[u].vforked
        BY <3>1, <4>1 DEF OfThisCall
      <4>3. child[u].at \in Running => child[u].overlapped
        BY <1>1, <1>14, <2>2, <4>2 DEF Marked, Running
      <4>4. actions' # Null /\ n \in DOMAIN actions' /\ actions'[n].what = "kOpen"
        BY <1>4, <1>5, <1>6, <2>2
      <4> HIDE DEF n
      <4> QED
        BY <1>7, <1>14, <4>2, <4>3, <4>4 DEF SharedOpen
    <3>3. child'[u] = child[u]
      BY <1>7, <1>14
    <3>4. OfThisCall(u)'
      BY <1>7, <1>9, <3>1, <3>2, <3>3 DEF OfThisCall
    <3>5. SignalsAsAsked(u)'
      BY <1>7, <3>1, <3>3 DEF SignalsAsAsked, WantedHandler, WantedMask, SigDefault
    <3>6. FilesAsAsked(u)'
      <4>1. actions = l /\ actions' = new
        BY <1>6, <2>2 DEF List
      <4>2. ASSUME NEW table PROVE Wanted(table)' = Wanted(table)
        <5> HIDE DEF l, n
        <5>1. Wanted(table) = TablesOf(table, l)[Len(l)]
          BY <1>4, <4>1 DEF Wanted
        <5>2. Wanted(table)' = TablesOf(table, new)[Len(new)]
          BY <1>5, <4>1 DEF Wanted
        <5>3. Len(l) \in 0..Len(l)
          BY <1>4
        <5> QED
          BY <1>4, <1>5, <5>1, <5>2, <5>3, TablesAgree
      <4>3. child[u].at \in Running \cup {"exec"} => List(u) = l /\ List(u)' = new
        BY <3>2, <3>3, <4>1 DEF List, Running
      <4>4. child[u].at = "move" =>
              HasAction(u)' /\ Action(u)'.what = "kOpen" /\ Action(u)'.fd \in Fds
        <5> SUFFICES ASSUME child[u].at = "move"
                     PROVE  HasAction(u)' /\ Action(u)'.what = "kOpen" /\ Action(u)'.fd \in Fds
          OBVIOUS
        <5> DEFINE k == child[u].n
        <5>1. HasAction(u) /\ Action(u).what = "kOpen" /\ Action(u).fd \in Fds
          BY <3>1 DEF FilesAsAsked
        <5>2. List(u) = l /\ List(u)' = new
          BY <4>3 DEF Running
        <5> HIDE DEF l, n
        <5>3. k \in 1..Len(l) /\ l[k].what = "kOpen" /\ l[k].fd \in Fds
          BY <1>4, <5>1, <5>2 DEF HasAction, Action
        <5>4. k \in DOMAIN new /\ new[k].what = "kOpen" /\ new[k].fd \in Fds
          BY <1>3, <1>5, <5>3
        <5> QED
          BY <1>5, <3>3, <5>2, <5>4 DEF HasAction, Action
      <4>5. child[u].at = "file" =>
              child[u].n \in 1..(IF List(u)' = Null THEN 1 ELSE Len(List(u)') + 1)
        <5> HIDE DEF l, n
        <5> QED
          BY <1>4, <1>5, <3>1, <4>3 DEF FilesAsAsked, Running
      <4>6. child[u].at = "exec" => SharedOpen(u)' \/ child[u].fds = Wanted(child[u].inherited)
        BY <1>10, <3>1 DEF FilesAsAsked
      <4>7. Wanted(child[u].inherited)' = Wanted(child[u].inherited)
        BY <3>3, <4>1, <4>2 DEF Wanted
      <4> HIDE DEF l, n
      <4> QED
        BY <3>1, <3>2, <3>3, <4>4, <4>5, <4>6, <4>7 DEF FilesAsAsked, Running
    <3> QED
      BY <3>4, <3>5, <3>6
  <2> QED
    BY <2>1, <2>2
<1> QED
  BY <1>8, <1>10, <1>11, <1>12, <1>13, <1>14 DEF ImageInv

\* An open takes the lowest free descriptor, or fails.
LEMMA OpenKeepsImageInv ==
  ASSUME ImageInv, NEW t \in Threads, DoOpen(t) PROVE ImageInv'
<1>1. /\ child[t].at = "file" /\ HasAction(t) /\ Action(t).what = "kOpen"
      /\ UNCHANGED <<attr, handlers, caller>>
  BY DEF DoOpen
<1>2. CASE Free(child[t].fds) # {} /\ StoreFd(t, Lowest(Free(child[t].fds)))
  <2>1. Lowest(Free(child[t].fds)) \in Free(child[t].fds)
    BY <1>2, LowestIsFree DEF Free
  <2> QED
    BY <1>1, <1>2, <2>1, StoreKeepsImageInv
<1>3. CASE Exit(t) /\ UNCHANGED actions
  BY <1>1, <1>3, ExitKeepsImageInv DEF objects
<1> QED
  BY <1>2, <1>3 DEF DoOpen

\* At the end of the list the table is the one it asks for, and the mask is set.
LEMMA RestoreKeepsImageInv ==
  ASSUME ImageInv, NEW t \in Threads, RestoreMask(t) PROVE ImageInv'
<1> DEFINE m == IF "SETSIGMASK" \in attr.flags THEN child[t].mask ELSE old_set[t]
           c == [child[t] EXCEPT !.at = "last", !.mask = m]
<1>1. /\ child[t].at = "file" /\ ~HasAction(t) /\ UNCHANGED <<objects, caller>>
      /\ child' = [child EXCEPT ![t] = c]
  BY DEF RestoreMask
<1>2. SpawnTypes /\ SignalsAsAsked(t) /\ FilesAsAsked(t)
  BY DEF ImageInv
<1>3. child[t] \in Children /\ child'[t] = c
  BY <1>1, <1>2 DEF SpawnTypes
<1>4. m \in SUBSET Signals /\ m = WantedMask(t)
  <2>1. m \in SUBSET Signals
    BY <1>2, <1>3 DEF SpawnTypes, Children
  <2>2. m = WantedMask(t)
    BY <1>1, <1>2 DEF SignalsAsAsked, WantedMask
  <2> QED
    BY <2>1, <2>2
<1> HIDE DEF m
<1>5. /\ c.at = "last" /\ c.vforked = child[t].vforked /\ c.list = child[t].list
      /\ c.handlers = child[t].handlers /\ c.mask = m
      /\ c.fds = child[t].fds /\ c.inherited = child[t].inherited
      /\ c.overlapped = child[t].overlapped
  BY <1>3 DEF Children
<1>6. c \in Children
  BY <1>3, <1>4 DEF Children, Running
<1> HIDE DEF c
<1>7. OfThisCall(t)'
  BY <1>1, <1>3, <1>5, StaysOfThisCall DEF Running
<1>8. SignalsAsAsked(t)'
  <2>1. \A x \in Signals : child[t].handlers[x] = WantedHandler(x)
    BY <1>1, <1>2 DEF SignalsAsAsked
  <2>2. \A x \in Signals : WantedHandler(x)' = WantedHandler(x)
    BY <1>1 DEF WantedHandler, SigDefault, objects
  <2>3. WantedMask(t)' = WantedMask(t)
    BY <1>1 DEF WantedMask, objects, caller
  <2> QED
    BY <1>3, <1>4, <1>5, <2>1, <2>2, <2>3 DEF SignalsAsAsked
<1>9. ASSUME ~SharedOpen(t) PROVE c.fds = Wanted(c.inherited)
  <2>1. List(t) \in Seq(FileActions) \cup {Null} /\ SameAsked(List(t), actions)
    BY <1>1, ListTyped
  <2>2. /\ child[t].fds = Reached(child[t].inherited, List(t), child[t].n)
        /\ child[t].n \in 1..(IF List(t) = Null THEN 1 ELSE Len(List(t)) + 1)
    BY <1>1, <1>2, <1>9 DEF FilesAsAsked
  <2> DEFINE l == List(t)
             n == child[t].n
  <2>3. l # Null => n \notin 1..Len(l)
    BY <1>1, <2>1 DEF HasAction
  <2> HIDE DEF l, n
  <2>4. CASE l = Null
    BY <1>5, <2>1, <2>2, <2>4 DEF SameAsked, Wanted, Reached, l
  <2>5. CASE l # Null
    <3>1. l \in Seq(FileActions) /\ Len(l) \in Nat
      BY <2>1, <2>5 DEF l
    <3>2. n \in 1..Len(l) + 1
      BY <2>2, <2>5 DEF l, n
    <3>3. n - 1 = Len(l)
      BY <2>3, <2>5, <3>1, <3>2
    <3>4. child[t].fds = TablesOf(child[t].inherited, l)[Len(l)]
      BY <2>2, <2>5, <3>3 DEF Reached, l, n
    <3>5. SameAsked(l, actions)
      BY <2>1 DEF l
    <3>6. actions # Null /\ Len(actions) = Len(l)
      BY <2>5, <3>5 DEF SameAsked
    <3>7. actions \in Seq(FileActions) /\ Len(l) \in 0..Len(actions)
      BY <1>2, <3>1, <3>6 DEF SpawnTypes
    <3>8. \A i \in 0..Len(actions) :
            TablesOf(child[t].inherited, l)[i] = TablesOf(child[t].inherited, actions)[i]
      BY <3>1, <3>5, <3>7, TablesAgree
    <3> QED
      BY <1>5, <3>4, <3>6, <3>7, <3>8 DEF Wanted
  <2> QED
    BY <2>4, <2>5
<1>10. FilesAsAsked(t)'
  <2>1. Wanted(child[t].inherited)' = Wanted(c.inherited)
    BY <1>1, <1>3 DEF Wanted, objects
  <2>2. SharedOpen(t)' = SharedOpen(t)
    BY <1>1, <1>3, <1>5, StaysMarked
  <2> QED
    BY <1>3, <1>5, <1>9, <2>1, <2>2 DEF FilesAsAsked
<1> QED
  BY <1>1, <1>5, <1>6, <1>7, <1>8, <1>10, ChildKeepsImageInv DEF Running

\* The program is executed with what the child has.
LEMMA ExecKeepsImageInv ==
  ASSUME ImageInv, NEW t \in Threads, Exec(t) PROVE ImageInv'
<1> DEFINE c == [child[t] EXCEPT !.at = "exec"]
<1>1. child[t].at = "last" /\ UNCHANGED <<objects, caller>>
  BY DEF Exec
<1>2. CASE Exit(t)
  BY <1>1, <1>2, ExitKeepsImageInv
<1>3. CASE child' = [child EXCEPT ![t] = c]
  <2>1. SpawnTypes /\ SignalsAsAsked(t) /\ FilesAsAsked(t)
    BY DEF ImageInv
  <2>2. child[t] \in Children /\ child'[t] = c
    BY <1>3, <2>1 DEF SpawnTypes
  <2>3. /\ c.at = "exec" /\ c.vforked = child[t].vforked /\ c.list = child[t].list
        /\ c.handlers = child[t].handlers /\ c.mask = child[t].mask
        /\ c.fds = child[t].fds /\ c.inherited = child[t].inherited
        /\ c.overlapped = child[t].overlapped
    BY <2>2 DEF Children
  <2>4. c \in Children
    BY <2>2 DEF Children, Ended
  <2> HIDE DEF c
  <2>5. OfThisCall(t)'
    BY <1>1, <2>2, <2>3, StaysOfThisCall DEF Running
  <2>6. SignalsAsAsked(t)'
    <3>1. \A x \in Signals : WantedHandler(x)' = WantedHandler(x)
      BY <1>1 DEF WantedHandler, SigDefault, objects
    <3>2. WantedMask(t)' = WantedMask(t)
      BY <1>1 DEF WantedMask, objects, caller
    <3> QED
      BY <1>1, <2>1, <2>2, <2>3, <3>1, <3>2 DEF SignalsAsAsked
  <2>7. FilesAsAsked(t)'
    <3>1. SharedOpen(t) \/ child[t].fds = Wanted(child[t].inherited)
      BY <1>1, <2>1 DEF FilesAsAsked
    <3>2. Wanted(child[t].inherited)' = Wanted(c.inherited)
      BY <1>1, <2>2 DEF Wanted, objects
    <3>3. SharedOpen(t)' = SharedOpen(t)
      BY <1>1, <2>2, <2>3, StaysMarked
    <3> QED
      BY <2>2, <2>3, <3>1, <3>2, <3>3 DEF FilesAsAsked
  <2> QED
    BY <1>1, <1>3, <2>3, <2>4, <2>5, <2>6, <2>7, ChildKeepsImageInv DEF Running
<1> QED
  BY <1>2, <1>3 DEF Exec

\* Every step preserves the invariant.
LEMMA StepImageInv == ImageInv /\ [Next]_vars => ImageInv'
<1> SUFFICES ASSUME ImageInv, [Next]_vars PROVE ImageInv'
  OBVIOUS
<1>1. CASE Clients
  BY <1>1, ClientsKeepImageInv
<1>2. ASSUME NEW t \in Threads, Caller(t) PROVE ImageInv'
  BY <1>2, SpawnCallKeepsImageInv, ForkKeepsImageInv, ReturnKeepsImageInv DEF Caller
<1>3. ASSUME NEW t \in Threads, Child(t) PROVE ImageInv'
  <2>1. CASE ResetHandler(t) \/ ApplyRest(t)
    <3>1. CASE Exit(t)
      BY <2>1, <3>1, ExitKeepsImageInv DEF ResetHandler, ApplyRest
    <3>2. CASE ~Exit(t)
      BY <2>1, <3>2, ResetKeepsImageInv, ApplyRestKeepsImageInv
    <3> QED
      BY <3>1, <3>2
  <2> QED
    BY <1>3, <2>1, CloseAndDupKeepImageInv, OpenKeepsImageInv,
       MoveKeepsImageInv, RestoreKeepsImageInv, ExecKeepsImageInv DEF Child
<1>4. CASE UNCHANGED vars
  <2>1. SpawnTypes /\ Marked
    BY DEF ImageInv
  <2>2. SpawnTypes'
    BY <1>4, <2>1 DEF vars, SpawnTypes
  <2>3. Marked'
    BY <1>4, <2>1 DEF vars, Marked
  <2>4. \A t \in Threads : (OfThisCall(t) /\ SignalsAsAsked(t) /\ FilesAsAsked(t))'
    BY <1>4, OthersAsAsked DEF vars, objects
  <2> QED
    BY <2>2, <2>3, <2>4 DEF ImageInv
<1> QED
  BY <1>1, <1>2, <1>3, <1>4 DEF Next

-----------------------------------------------------------------------------

\* The child of each call has what the call asked for, as far as it has come; of its
\* descriptors this is said unless it shares a list that opens files with another
\* child of vfork.
THEOREM SpawnImageInvariant == Spec => []ImageInv
<1>1. Init => ImageInv
  BY InitImageInv
<1>2. ImageInv /\ [Next]_vars => ImageInv'
  BY StepImageInv
<1> QED
  BY <1>1, <1>2, PTL DEF Spec

\* Each program is executed with the mask and the dispositions that were asked for,
\* and with the descriptors, for any list, attributes and signals and however often a
\* list that children of vfork wrote to is used again, except that a child of vfork
\* that shared an open with another one may have other descriptors.
THEOREM SpawnImageAsAsked == Spec => []ImageAsAsked
<1>1. ImageInv => ImageAsAsked
  <2> SUFFICES ASSUME ImageInv, NEW t \in Threads, child[t].at = "exec"
               PROVE  /\ SharedOpen(t) \/ child[t].fds = Wanted(child[t].inherited)
                      /\ child[t].mask = WantedMask(t)
                      /\ \A s \in Signals : child[t].handlers[s] = WantedHandler(s)
    BY DEF ImageAsAsked, WantedMask, WantedHandler
  <2>1. SignalsAsAsked(t) /\ FilesAsAsked(t)
    BY DEF ImageInv
  <2> QED
    BY <2>1 DEF SignalsAsAsked, FilesAsAsked
<1> QED
  BY <1>1, SpawnImageInvariant, PTL

=============================================================================
