--------------------------- MODULE NamedSemProofs ---------------------------
(***************************************************************************)
(* NamedSem proved for any processes, threads, names, inodes and addresses *)
(* and any table size: handles are counted and mapped, a semaphore has one *)
(* address, and nothing is lost on any path.                               *)
(***************************************************************************)
EXTENDS NamedSem, FiniteSetTheorems, WellFoundedInduction, TLAPS

-----------------------------------------------------------------------------

Inode == Inodes \cup {NoInode}

Entry == [sem : Addrs \cup {Null, Reserved}, ino : Inode, refcnt : Nat]

Calls == [name : Names \cup {Null}, flags : Flags, slot : Slots, file : Inode,
          addr : Addrs \cup {Null}]

InHand == {"publish", "unmap"}

Shape ==
  /\ dir \in [Names -> Inode]
  /\ semtab \in [Procs -> {NoTable} \cup [Slots -> Entry]]
  /\ maps \in [Procs -> [Addrs -> Inode]]
  /\ handles \in [Procs -> [Addrs -> Nat]]
  /\ pc \in [Threads -> {"idle", "unmap"} \cup InOpen]
  /\ call \in [Threads -> Calls]
  /\ \A t \in Threads : /\ pc[t] \in InOpen => call[t].name \in Names
                        /\ pc[t] \in {"write", "map"} => call[t].file \in Inodes

\* A slot is reserved by the one open under way that has its number.
Reservations ==
  /\ \A t \in Threads : pc[t] \in InOpen =>
       semtab[ProcOf[t]] # NoTable /\ semtab[ProcOf[t]][call[t].slot].sem = Reserved
  /\ \A t, u \in Threads :
       /\ pc[t] \in InOpen /\ pc[u] \in InOpen
       /\ ProcOf[t] = ProcOf[u] /\ call[t].slot = call[u].slot
       => t = u
  /\ \A p \in Procs : \A i \in DOMAIN semtab[p] : semtab[p][i].sem = Reserved =>
       \E t \in Threads : ProcOf[t] = p /\ pc[t] \in InOpen /\ call[t].slot = i

\* What an entry says is true of the mappings and the handles.
EntriesAreTrue ==
  \A p \in Procs : \A i \in DOMAIN semtab[p] :
    IF semtab[p][i].sem \in Addrs
      THEN /\ semtab[p][i].ino = maps[p][semtab[p][i].sem]
           /\ semtab[p][i].ino # NoInode
           /\ semtab[p][i].refcnt = handles[p][semtab[p][i].sem]
           /\ semtab[p][i].refcnt > 0
      ELSE semtab[p][i].ino = NoInode /\ semtab[p][i].refcnt = 0

\* No two entries have the same address or the same inode.
EntriesDiffer ==
  \A p \in Procs : \A i, j \in DOMAIN semtab[p] :
    semtab[p][i].sem \in Addrs /\ semtab[p][j].sem \in Addrs /\ i # j =>
      semtab[p][i].sem # semtab[p][j].sem /\ semtab[p][i].ino # semtab[p][j].ino

HandlesHaveEntries ==
  \A p \in Procs, a \in Addrs : handles[p][a] > 0 => \E i \in DOMAIN semtab[p] : semtab[p][i].sem = a

\* A thread that has mapped a file, or is going to unmap it, has it for itself.
MappingsInHand ==
  /\ \A t \in Threads : pc[t] \in InHand =>
       /\ call[t].addr \in Addrs /\ maps[ProcOf[t]][call[t].addr] # NoInode
       /\ handles[ProcOf[t]][call[t].addr] = 0
  /\ \A t, u \in Threads :
       /\ pc[t] \in InHand /\ pc[u] \in InHand
       /\ ProcOf[t] = ProcOf[u] /\ call[t].addr = call[u].addr
       => t = u

MappingsAreOwned ==
  \A p \in Procs : \A a \in Addrs : maps[p][a] # NoInode =>
    \/ handles[p][a] > 0
    \/ \E t \in Threads : ProcOf[t] = p /\ pc[t] \in InHand /\ call[t].addr = a

IInv ==
  /\ Shape /\ Reservations /\ EntriesAreTrue /\ EntriesDiffer /\ HandlesHaveEntries
  /\ MappingsInHand /\ MappingsAreOwned

-----------------------------------------------------------------------------

\* There is a smallest number in a set of slots.
LEMMA SmallestSlot ==
  ASSUME NEW S \in SUBSET Slots, S # {}
  PROVE  Min(S) \in S /\ \A j \in S : Min(S) <= j
<1> DEFINE Below(m) == S \cap (0..m)
           T == {Below(m) : m \in S}
<1>0. IsFiniteSet(S) /\ S \subseteq Nat
  <2>1. 0 \in Int /\ NSems - 1 \in Int
    BY NamedSemAssumption
  <2>2. IsFiniteSet(0..NSems - 1)
    BY <2>1, FS_Interval
  <2>3. S \in SUBSET (0..NSems - 1)
    BY DEF Slots
  <2>4. IsFiniteSet(S)
    BY <2>2, <2>3, FS_Subset
  <2> QED
    BY <2>1, <2>3, <2>4
<1>1. T \subseteq FiniteSubsetsOf(S) /\ T # {}
  <2>1. \A m \in S : Below(m) \in SUBSET S
    OBVIOUS
  <2> HIDE DEF Below
  <2>2. \A m \in S : IsFiniteSet(Below(m))
    BY <1>0, <2>1, FS_Subset
  <2> QED
    BY <2>1, <2>2 DEF FiniteSubsetsOf
<1>2. PICK m \in S : \A j \in S : ~ (<<Below(j), Below(m)>> \in StrictSubsetOrdering(S))
  <2> HIDE DEF T
  <2>1. \E x \in T : \A y \in T : ~ (<<y, x>> \in StrictSubsetOrdering(S))
    BY <1>1, FS_StrictSubsetOrderingWellFounded, WFMin
  <2> QED
    BY <2>1 DEF T
<1>3. \A j \in S : m <= j
  <2> SUFFICES ASSUME NEW j \in S, j < m PROVE FALSE
    BY <1>0
  <2>1. Below(j) \subseteq Below(m) /\ m \in Below(m) /\ m \notin Below(j)
    BY <1>0
  <2>2. Below(j) \in SUBSET S /\ Below(m) \in SUBSET S
    OBVIOUS
  <2> HIDE DEF Below
  <2> QED
    BY <1>2, <2>1, <2>2 DEF StrictSubsetOrdering
<1> QED
  BY <1>3 DEF Min

\* The constants that stand for nothing are none of the things they stand in for.
LEMMA Constants ==
  /\ Null \notin Addrs /\ Reserved \notin Addrs /\ Null # Reserved
  /\ NoInode \notin Inodes /\ 0 \in Slots
  /\ \A t \in Threads : ProcOf[t] \in Procs
  /\ DOMAIN NoTable = {} /\ NewTable \in [Slots -> Entry]
  /\ \A f \in [Slots -> Entry] : f # NoTable
<1>1. 0 \in Slots
  BY NamedSemAssumption DEF Slots
<1>2. DOMAIN NoTable = {}
  BY DEF NoTable
<1>3. NewTable \in [Slots -> Entry]
  BY DEF NewTable, FreeEntry, Entry, Inode
<1> QED
  BY <1>1, <1>2, <1>3, NamedSemAssumption

-----------------------------------------------------------------------------
(* The steps                                                               *)

\* The steps that leave the table, the mappings and the handles alone, and every
\* thread in its part of sem_open or sem_close.
LEMMA QuietKeepsIInv ==
  ASSUME IInv, Shape', UNCHANGED memory,
         \A t \in Threads : /\ pc'[t] \in InOpen <=> pc[t] \in InOpen
                            /\ pc'[t] \in InHand <=> pc[t] \in InHand
                            /\ pc[t] \in InOpen => call'[t].slot = call[t].slot
                            /\ pc[t] \in InHand => call'[t].addr = call[t].addr
  PROVE  IInv'
<1>1. UNCHANGED <<semtab, maps, handles>>
  BY DEF memory
<1>2. Reservations'
  BY <1>1, Constants DEF IInv, Reservations
<1>3. EntriesAreTrue' /\ EntriesDiffer' /\ HandlesHaveEntries'
  BY <1>1 DEF IInv, EntriesAreTrue, EntriesDiffer, HandlesHaveEntries
<1>4. MappingsInHand' /\ MappingsAreOwned'
  BY <1>1, Constants DEF IInv, MappingsInHand, MappingsAreOwned
<1> QED
  BY <1>2, <1>3, <1>4 DEF IInv

\* A thread that goes on in sem_open, before it has mapped the file.
LEMMA MoveKeepsIInv ==
  ASSUME IInv, NEW t \in Threads, UNCHANGED memory, dir' \in [Names -> Inode],
         pc[t] \in InOpen \ InHand, NEW l \in InOpen \ InHand, Goto(t, l),
         NEW f \in Inode, SetFile(t, f) \/ (UNCHANGED call /\ f = call[t].file),
         l \in {"write", "map"} => f \in Inodes
  PROVE  IInv'
<1>0. Shape
  BY DEF IInv
<1>1. pc' = [pc EXCEPT ![t] = l] /\ pc \in [Threads -> {"idle", "unmap"} \cup InOpen]
  BY <1>0 DEF Goto, Shape
<1>2. /\ call' \in [Threads -> Calls] /\ call'[t].file = f
      /\ \A u \in Threads : call'[u].slot = call[u].slot /\ call'[u].addr = call[u].addr
      /\ \A u \in Threads : call'[u].name = call[u].name
      /\ \A u \in Threads \ {t} : call'[u] = call[u]
  <2>1. CASE UNCHANGED call /\ f = call[t].file
    BY <1>0, <2>1 DEF Shape
  <2>2. CASE SetFile(t, f)
    <3> DEFINE c == [call[t] EXCEPT !.file = f]
    <3>1. call \in [Threads -> Calls] /\ call[t] \in Calls
      BY <1>0 DEF Shape
    <3>2. /\ c \in Calls /\ c.file = f
          /\ c.slot = call[t].slot /\ c.addr = call[t].addr /\ c.name = call[t].name
      BY <3>1 DEF Calls
    <3>3. call' = [call EXCEPT ![t] = c]
      BY <2>2 DEF SetFile
    <3> HIDE DEF c
    <3> QED
      BY <3>1, <3>2, <3>3
  <2> QED
    BY <2>1, <2>2
<1>3. Shape'
  BY <1>0, <1>1, <1>2 DEF Shape, memory
<1>4. \A u \in Threads : /\ pc'[u] \in InOpen <=> pc[u] \in InOpen
                         /\ pc'[u] \in InHand <=> pc[u] \in InHand
  BY <1>1
<1> QED
  BY <1>2, <1>3, <1>4, QuietKeepsIInv

\* The switch, open, write and unlink of sem_open, and the calls that leave the table.
LEMMA FileStepsKeepIInv ==
  ASSUME IInv, NEW t \in Threads,
         \/ OpenDispatch(t) \/ OpenExisting(t) \/ Create(t) \/ Write(t) \/ Undo(t)
         \/ SemOpenNoTable(t) \/ SemCloseUnknown(t) \/ SemUnlink(t)
  PROVE  IInv'
<1>0. /\ Shape /\ dir \in [Names -> Inode] /\ call[t] \in Calls /\ call[t].file \in Inode
      /\ NoInode \in Inode /\ NoInode \notin Inodes
      /\ pc[t] \in {"write", "map"} => call[t].file \in Inodes
  BY Constants DEF IInv, Shape, Inode, Calls
<1>1. CASE OpenDispatch(t)
  <2>1. PICK l \in {"existing", "create", "fail"} : Goto(t, l)
    <3>1. call[t].flags \in Flags
      BY <1>0 DEF Calls
    <3>2. call[t].flags \in {{}, {"O_CREAT"}, {"O_EXCL"}, {"O_CREAT", "O_EXCL"}}
      BY <3>1 DEF Flags
    <3> QED
      BY <1>1, <3>2 DEF OpenDispatch, Fail
  <2> QED
    BY <1>0, <1>1, <2>1, MoveKeepsIInv DEF OpenDispatch, InOpen, InHand
<1>2. CASE OpenExisting(t)
  <2>1. CASE Exists(t) /\ SetFile(t, dir[call[t].name]) /\ Goto(t, "map")
    <3>1. dir[call[t].name] \in Inode /\ dir[call[t].name] # NoInode
      BY <1>0, <1>2, <2>1 DEF Exists, OpenExisting, InOpen, Shape
    <3> QED
      BY <1>0, <1>2, <2>1, <3>1, MoveKeepsIInv DEF OpenExisting, InOpen, InHand, Inode
  <2>2. CASE UNCHANGED call /\ Goto(t, "fail")
    BY <1>0, <1>2, <2>2, MoveKeepsIInv DEF OpenExisting, InOpen, InHand
  <2> QED
    BY <1>2, <2>1, <2>2 DEF OpenExisting, Fail
<1>3. CASE Create(t)
  <2>1. ASSUME NEW f \in Inodes, dir' = [dir EXCEPT ![call[t].name] = f], SetFile(t, f), Goto(t, "write")
        PROVE  IInv'
    BY <1>0, <1>3, <2>1, MoveKeepsIInv DEF Create, InOpen, InHand, Inode
  <2>2. CASE UNCHANGED <<dir, call>> /\ Goto(t, "fail")
    BY <1>0, <1>3, <2>2, MoveKeepsIInv DEF Create, InOpen, InHand
  <2> QED
    BY <1>3, <2>1, <2>2 DEF Create, Fail
<1>4. CASE Write(t)
  <2>1. CASE Goto(t, "map") /\ UNCHANGED call
    BY <1>0, <1>4, <2>1, MoveKeepsIInv DEF Write, InOpen, InHand
  <2>2. CASE Goto(t, "undo") /\ SetFile(t, NoInode)
    BY <1>0, <1>4, <2>2, MoveKeepsIInv DEF Write, InOpen, InHand
  <2> QED
    BY <1>4, <2>1, <2>2 DEF Write
<1>5. CASE Undo(t)
  BY <1>0, <1>5, MoveKeepsIInv DEF Undo, Fail, InOpen, InHand
<1>6. CASE SemOpenNoTable(t) \/ SemCloseUnknown(t) \/ SemUnlink(t)
  <2>1. UNCHANGED <<memory, pc, call>> /\ dir' \in [Names -> Inode]
    BY <1>0, <1>6 DEF SemOpenNoTable, SemCloseUnknown, SemUnlink
  <2>2. Shape'
    BY <1>0, <2>1 DEF Shape, memory
  <2> QED
    BY <2>1, <2>2, QuietKeepsIInv
<1> QED
  BY <1>1, <1>2, <1>3, <1>4, <1>5, <1>6

\* sem_open reserves the first free slot for this call.
LEMMA SemOpenKeepsIInv == ASSUME IInv, NEW t \in Threads, SemOpen(t) PROVE IInv'
<1> DEFINE p == ProcOf[t]
           tab == IF semtab[p] = NoTable THEN NewTable ELSE semtab[p]
           free == {i \in Slots : tab[i].sem = Null}
<1>0. /\ Shape /\ p \in Procs /\ semtab[p] \in {NoTable} \cup [Slots -> Entry]
      /\ pc[t] = "idle" /\ UNCHANGED <<dir, maps, handles>>
  BY Constants DEF IInv, Shape, SemOpen
<1>1. CASE Outcome(t, "EMFILE") /\ UNCHANGED <<semtab, pc, call>>
  <2>1. UNCHANGED memory /\ Shape'
    BY <1>0, <1>1 DEF memory, Shape
  <2> QED
    BY <1>1, <2>1, QuietKeepsIInv
<1>2. CASE /\ semtab[p] = NoTable \/ ~CannotReserve(p)
           /\ semtab' = [semtab EXCEPT ![p] = [tab EXCEPT ![Min(free)].sem = Reserved]]
           /\ \E n \in Names, f \in Flags :
                call' = [call EXCEPT ![t] =
                           [NoCall EXCEPT !.name = n, !.flags = f, !.slot = Min(free)]]
           /\ Goto(t, "open")
  <2>1. /\ tab \in [Slots -> Entry]
        /\ \A i \in Slots : IF i \in DOMAIN semtab[p] THEN tab[i] = semtab[p][i]
                                                     ELSE tab[i] = FreeEntry
        /\ DOMAIN semtab[p] \subseteq Slots
    BY <1>0, Constants DEF NewTable
  <2>2. free # {}
    <3>1. CASE semtab[p] = NoTable
      BY <3>1, Constants DEF NewTable, FreeEntry
    <3>2. CASE semtab[p] # NoTable
      BY <1>0, <1>2, <3>2 DEF CannotReserve, FreeSlots
    <3> QED
      BY <3>1, <3>2
  <2> DEFINE m == Min(free)
  <2>3. m \in Slots /\ tab[m].sem = Null
    <3>1. free \in SUBSET Slots
      OBVIOUS
    <3>2. m \in free
      <4> HIDE DEF free
      <4> QED
        BY <2>2, <3>1, SmallestSlot
    <3> QED
      BY <3>2
  <2>4. tab[m].ino = NoInode /\ tab[m].refcnt = 0
    <3> HIDE DEF m, tab, p
    <3>1. CASE m \in DOMAIN semtab[p]
      <4>1. semtab[p][m].sem \notin Addrs
        BY <2>1, <2>3, <3>1, Constants
      <4> QED
        BY <1>0, <2>1, <2>3, <3>1, <4>1 DEF IInv, EntriesAreTrue
    <3>2. CASE m \notin DOMAIN semtab[p]
      BY <2>1, <2>3, <3>2 DEF FreeEntry
    <3> QED
      BY <3>1, <3>2
  <2>5. PICK n \in Names, f \in Flags :
          call' = [call EXCEPT ![t] = [NoCall EXCEPT !.name = n, !.flags = f, !.slot = m]]
    BY <1>2
  <2> DEFINE c == [NoCall EXCEPT !.name = n, !.flags = f, !.slot = m]
             new == [tab EXCEPT ![m].sem = Reserved]
  <2>6. c \in Calls /\ c.name \in Names /\ c.slot = m
    BY <2>3 DEF NoCall, Calls, Inode
  <2>7. /\ new \in [Slots -> Entry]
        /\ new[m].sem = Reserved /\ new[m].ino = NoInode /\ new[m].refcnt = 0
        /\ \A i \in Slots \ {m} : new[i] = tab[i]
    <3>1. [tab[m] EXCEPT !.sem = Reserved] \in Entry
      BY <2>1, <2>3 DEF Entry
    <3> HIDE DEF tab, m
    <3> QED
      BY <2>1, <2>3, <2>4, <3>1 DEF Entry
  <2>8. call' = [call EXCEPT ![t] = c] /\ semtab' = [semtab EXCEPT ![p] = new]
    BY <1>2, <2>5
  <2>9. pc' = [pc EXCEPT ![t] = "open"]
    BY <1>2 DEF Goto
  <2> HIDE DEF c, new, tab, m, free
  <2>10. Shape'
    BY <1>0, <2>6, <2>7, <2>8, <2>9 DEF Shape, InOpen
  <2>11. /\ \A q \in Procs \ {p} : semtab'[q] = semtab[q]
         /\ semtab'[p] = new /\ DOMAIN new = Slots
         /\ \A u \in Threads \ {t} : pc'[u] = pc[u] /\ call'[u] = call[u]
         /\ pc'[t] = "open" /\ call'[t].slot = m
         /\ \A i \in Slots \ {m} : IF i \in DOMAIN semtab[p] THEN new[i] = semtab[p][i]
                                                            ELSE new[i] = FreeEntry
         /\ \A i \in DOMAIN semtab[p] \ {m} : new[i] = semtab[p][i]
         /\ m \in DOMAIN semtab[p] => semtab[p][m].sem = Null
    <3>1. /\ \A q \in Procs \ {p} : semtab'[q] = semtab[q]
          /\ semtab'[p] = new /\ DOMAIN new = Slots
      BY <1>0, <2>7, <2>8 DEF Shape
    <3>2. /\ \A u \in Threads \ {t} : pc'[u] = pc[u] /\ call'[u] = call[u]
          /\ pc'[t] = "open" /\ call'[t].slot = m
      BY <1>0, <2>6, <2>8, <2>9 DEF Shape
    <3>3. \A i \in Slots \ {m} : new[i] = tab[i]
      BY <2>7
    <3> QED
      BY <2>1, <2>3, <3>1, <3>2, <3>3
  <2>12. Reservations'
    <3>1. \A u \in Threads : pc[u] \in InOpen /\ ProcOf[u] = p =>
             call[u].slot # m /\ call[u].slot \in DOMAIN semtab[p]
      BY <1>0, <2>11, Constants DEF IInv, Reservations, Shape, Calls
    <3>2. FreeEntry.sem = Null
      BY DEF FreeEntry
    <3>3. "open" \in InOpen /\ pc[t] \notin InOpen
      BY <1>0 DEF InOpen
    <3>4. \A u \in Threads : pc'[u] \in InOpen =>
            semtab'[ProcOf[u]] # NoTable /\ semtab'[ProcOf[u]][call'[u].slot].sem = Reserved
      BY <2>7, <2>11, <3>1, <3>3, Constants DEF IInv, Reservations
    <3>5. \A u, v \in Threads :
            /\ pc'[u] \in InOpen /\ pc'[v] \in InOpen
            /\ ProcOf[u] = ProcOf[v] /\ call'[u].slot = call'[v].slot
            => u = v
      BY <2>11, <3>1, <3>3 DEF IInv, Reservations
    <3>6. \A q \in Procs : \A i \in DOMAIN semtab'[q] : semtab'[q][i].sem = Reserved =>
            \E u \in Threads : ProcOf[u] = q /\ pc'[u] \in InOpen /\ call'[u].slot = i
      BY <1>0, <2>11, <3>2, <3>3, Constants DEF IInv, Reservations
    <3> QED
      BY <3>4, <3>5, <3>6 DEF Reservations
  <2>13. EntriesAreTrue' /\ EntriesDiffer'
    <3>1. FreeEntry.sem \notin Addrs /\ FreeEntry.ino = NoInode /\ FreeEntry.refcnt = 0
      BY Constants DEF FreeEntry
    <3> QED
      BY <1>0, <2>7, <2>11, <3>1, Constants DEF IInv, EntriesAreTrue, EntriesDiffer
  <2>14. HandlesHaveEntries'
    <3>1. \A i \in DOMAIN semtab[p] : semtab[p][i].sem \in Addrs => new[i] = semtab[p][i]
      BY <2>11, Constants
    <3>2. DOMAIN semtab[p] \subseteq DOMAIN semtab'[p]
      BY <2>1, <2>11
    <3> QED
      BY <1>0, <2>11, <3>1, <3>2 DEF IInv, HandlesHaveEntries
  <2>15. MappingsInHand' /\ MappingsAreOwned'
    BY <1>0, <2>11 DEF IInv, MappingsInHand, MappingsAreOwned, InHand
  <2> QED
    BY <2>10, <2>12, <2>13, <2>14, <2>15 DEF IInv
<1> QED
  BY <1>1, <1>2 DEF SemOpen

\* fstat and mmap: the new mapping is this thread's alone.
LEMMA MapKeepsIInv == ASSUME IInv, NEW t \in Threads, Map(t) PROVE IInv'
<1> DEFINE p == ProcOf[t]
<1>0. /\ Shape /\ p \in Procs /\ pc[t] = "map" /\ call[t] \in Calls /\ call[t].file \in Inodes
      /\ UNCHANGED <<dir, semtab, handles>> /\ NoInode \in Inode /\ NoInode \notin Inodes
  BY Constants DEF IInv, Shape, Map, Inode
<1>1. CASE Goto(t, "undo") /\ SetFile(t, NoInode) /\ UNCHANGED maps
  BY <1>0, <1>1, MoveKeepsIInv DEF InOpen, InHand, Shape, memory
<1>2. ASSUME NEW a \in FreeAddrs(p),
             maps' = [maps EXCEPT ![p][a] = call[t].file],
             call' = [call EXCEPT ![t].addr = a, ![t].file = NoInode], Goto(t, "publish")
      PROVE  IInv'
  <2> DEFINE c == [call[t] EXCEPT !.addr = a, !.file = NoInode]
  <2>1. a \in Addrs /\ maps[p][a] = NoInode
    BY DEF FreeAddrs
  <2>2. c \in Calls /\ c.addr = a /\ c.slot = call[t].slot /\ c.name = call[t].name
    BY <1>0, <2>1 DEF Calls
  <2>3. call' = [call EXCEPT ![t] = c]
    BY <1>2
  <2> HIDE DEF c
  <2>4. /\ call' \in [Threads -> Calls] /\ call'[t] = c
        /\ \A u \in Threads \ {t} : call'[u] = call[u] /\ pc'[u] = pc[u]
        /\ pc'[t] = "publish" /\ pc' \in [Threads -> {"idle", "unmap"} \cup InOpen]
    BY <1>0, <1>2, <2>2, <2>3 DEF Shape, Goto, InOpen
  <2>5. /\ maps' \in [Procs -> [Addrs -> Inode]]
        /\ \A q \in Procs \ {p} : maps'[q] = maps[q]
        /\ maps'[p][a] = call[t].file
        /\ \A b \in Addrs \ {a} : maps'[p][b] = maps[p][b]
    BY <1>0, <1>2, <2>1 DEF Shape, Inode
  <2> HIDE DEF p
  <2>6. Shape'
    BY <1>0, <2>2, <2>4, <2>5 DEF Shape, InOpen
  <2>7. handles[p][a] = 0
    <3>1. handles[p][a] \in Nat
      BY <1>0, <2>1 DEF Shape
    <3>2. ~(handles[p][a] > 0)
      BY <1>0, <2>1 DEF IInv, HandlesHaveEntries, EntriesAreTrue
    <3> QED
      BY <3>1, <3>2
  <2>8. \A i \in DOMAIN semtab[p] : semtab[p][i].sem # a
    BY <1>0, <2>1 DEF IInv, EntriesAreTrue
  <2>9. \A u \in Threads : pc[u] \in InHand /\ ProcOf[u] = p => call[u].addr # a
    BY <1>0, <2>1 DEF IInv, MappingsInHand
  <2>10. Reservations'
    <3>1. pc[t] \in InOpen /\ pc'[t] \in InOpen /\ call'[t].slot = call[t].slot
      BY <1>0, <2>2, <2>4 DEF InOpen
    <3>2. \A u \in Threads : (pc'[u] \in InOpen <=> pc[u] \in InOpen) /\ call'[u].slot = call[u].slot
      BY <2>4, <3>1
    <3> QED
      BY <1>0, <3>2, Constants DEF IInv, Reservations
  <2>11. EntriesAreTrue' /\ EntriesDiffer' /\ HandlesHaveEntries'
    BY <1>0, <2>5, <2>8 DEF IInv, EntriesAreTrue, EntriesDiffer, HandlesHaveEntries
  <2>12. MappingsInHand'
    <3>1. pc[t] \notin InHand /\ pc'[t] \in InHand /\ call'[t].addr = a /\ ProcOf[t] = p
      BY <1>0, <2>2, <2>4 DEF InHand, p
    <3>2. maps'[p][a] # NoInode /\ handles'[p][a] = 0
      BY <1>0, <2>5, <2>7
    <3>3. \A u \in Threads : pc'[u] \in InHand =>
            /\ call'[u].addr \in Addrs /\ maps'[ProcOf[u]][call'[u].addr] # NoInode
            /\ handles'[ProcOf[u]][call'[u].addr] = 0
      BY <1>0, <2>1, <2>4, <2>5, <2>9, <3>1, <3>2, Constants DEF IInv, MappingsInHand
    <3>4. \A u, v \in Threads :
            /\ pc'[u] \in InHand /\ pc'[v] \in InHand
            /\ ProcOf[u] = ProcOf[v] /\ call'[u].addr = call'[v].addr
            => u = v
      BY <2>4, <2>9, <3>1 DEF IInv, MappingsInHand
    <3> QED
      BY <3>3, <3>4 DEF MappingsInHand
  <2>13. MappingsAreOwned'
    <3>1. pc[t] \notin InHand /\ pc'[t] \in InHand /\ call'[t].addr = a /\ ProcOf[t] = p
      BY <1>0, <2>2, <2>4 DEF InHand, p
    <3> QED
      BY <1>0, <2>4, <2>5, <3>1 DEF IInv, MappingsAreOwned
  <2> QED
    BY <2>6, <2>10, <2>11, <2>12, <2>13 DEF IInv
<1> QED
  BY <1>1, <1>2 DEF Map

\* A thread that returns to its caller without a mapping in hand.
LEMMA ReturnForgets ==
  ASSUME Shape, NEW t \in Threads, Return(t)
  PROVE  /\ pc' \in [Threads -> {"idle", "unmap"} \cup InOpen] /\ call' \in [Threads -> Calls]
         /\ pc'[t] = "idle" /\ pc'[t] \notin InOpen \cup InHand
         /\ \A u \in Threads \ {t} : call'[u] = call[u] /\ pc'[u] = pc[u]
<1>1. NoCall \in Calls
  BY Constants DEF NoCall, Calls, Inode, Flags
<1> QED
  BY <1>1 DEF Return, Goto, Shape, InOpen, InHand

\* The failure path of sem_open gives the slot back.
LEMMA OpenFailsKeepsIInv == ASSUME IInv, NEW t \in Threads, OpenFails(t) PROVE IInv'
<1> DEFINE p == ProcOf[t]
           s == call[t].slot
           new == GiveBack(semtab[p], s)
<1>0. /\ Shape /\ p \in Procs /\ pc[t] \in InOpen /\ pc[t] \notin InHand /\ call[t] \in Calls
      /\ UNCHANGED <<dir, maps, handles>>
      /\ semtab[p] \in [Slots -> Entry] /\ s \in Slots /\ semtab[p][s].sem = Reserved
  BY Constants DEF IInv, Shape, OpenFails, InOpen, InHand, Reservations, Calls
<1>1. /\ new \in [Slots -> Entry] /\ DOMAIN new = Slots /\ DOMAIN semtab[p] = Slots
      /\ new[s].sem = Null /\ new[s].ino = semtab[p][s].ino /\ new[s].refcnt = semtab[p][s].refcnt
      /\ \A i \in Slots \ {s} : new[i] = semtab[p][i]
  <2>1. [semtab[p][s] EXCEPT !.sem = Null] \in Entry
    BY <1>0 DEF Entry
  <2> QED
    BY <1>0, <2>1 DEF GiveBack, Entry
<1>2. semtab[p][s].ino = NoInode /\ semtab[p][s].refcnt = 0
  <2> HIDE DEF p, s
  <2> QED
    BY <1>0, <1>1, Constants DEF IInv, EntriesAreTrue
<1>3. semtab' = [semtab EXCEPT ![p] = new]
  BY DEF OpenFails
<1> HIDE DEF new, s
<1>4. semtab'[p] = new /\ \A q \in Procs \ {p} : semtab'[q] = semtab[q]
  BY <1>0, <1>3 DEF Shape
<1>5. /\ pc' \in [Threads -> {"idle", "unmap"} \cup InOpen] /\ call' \in [Threads -> Calls]
      /\ pc'[t] = "idle" /\ pc'[t] \notin InOpen \cup InHand
      /\ \A u \in Threads \ {t} : call'[u] = call[u] /\ pc'[u] = pc[u]
  BY <1>0, ReturnForgets DEF OpenFails
<1>6. Shape'
  BY <1>0, <1>1, <1>3, <1>5 DEF Shape
<1>7. \A u \in Threads \ {t} : pc[u] \in InOpen /\ ProcOf[u] = p => call[u].slot # s
  BY <1>0 DEF IInv, Reservations, s
<1> HIDE DEF p
<1>8. Reservations'
  <2>1. \A u \in Threads : pc'[u] \in InOpen => u # t /\ pc[u] \in InOpen /\ call'[u].slot \in Slots
    BY <1>5 DEF Calls
  <2>2. \A u \in Threads : pc'[u] \in InOpen =>
          semtab'[ProcOf[u]] # NoTable /\ semtab'[ProcOf[u]][call'[u].slot].sem = Reserved
    BY <1>1, <1>4, <1>5, <1>7, <2>1, Constants DEF IInv, Reservations
  <2>3. \A u, v \in Threads :
          /\ pc'[u] \in InOpen /\ pc'[v] \in InOpen
          /\ ProcOf[u] = ProcOf[v] /\ call'[u].slot = call'[v].slot
          => u = v
    BY <1>5, <2>1 DEF IInv, Reservations
  <2>4. ProcOf[t] = p /\ call[t].slot = s
    BY DEF p, s
  <2>5. \A q \in Procs : \A i \in DOMAIN semtab'[q] : semtab'[q][i].sem = Reserved =>
          \E u \in Threads : ProcOf[u] = q /\ pc'[u] \in InOpen /\ call'[u].slot = i
    BY <1>0, <1>1, <1>4, <1>5, <2>4, Constants DEF IInv, Reservations
  <2> QED
    BY <2>2, <2>3, <2>5 DEF Reservations
<1>9. EntriesAreTrue' /\ EntriesDiffer' /\ HandlesHaveEntries'
  BY <1>0, <1>1, <1>2, <1>4, Constants
     DEF IInv, EntriesAreTrue, EntriesDiffer, HandlesHaveEntries
<1>10. MappingsInHand' /\ MappingsAreOwned'
  BY <1>0, <1>5 DEF IInv, MappingsInHand, MappingsAreOwned
<1> QED
  BY <1>6, <1>8, <1>9, <1>10 DEF IInv

\* munmap after the last sem_close: nobody else has the address.
LEMMA UnmapKeepsIInv == ASSUME IInv, NEW t \in Threads, Unmap(t) PROVE IInv'
<1> DEFINE p == ProcOf[t]
           a == call[t].addr
<1>0. /\ Shape /\ p \in Procs /\ pc[t] = "unmap" /\ pc[t] \in InHand /\ pc[t] \notin InOpen
      /\ UNCHANGED <<dir, semtab, handles>>
      /\ a \in Addrs /\ maps[p][a] # NoInode /\ handles[p][a] = 0
      /\ maps' = [maps EXCEPT ![p][a] = NoInode]
  BY Constants DEF IInv, Unmap, InOpen, InHand, MappingsInHand
<1>1. /\ pc' \in [Threads -> {"idle", "unmap"} \cup InOpen] /\ call' \in [Threads -> Calls]
      /\ pc'[t] = "idle" /\ pc'[t] \notin InOpen \cup InHand
      /\ \A u \in Threads \ {t} : call'[u] = call[u] /\ pc'[u] = pc[u]
  BY <1>0, ReturnForgets DEF Unmap
<1>2. \A u \in Threads \ {t} : pc[u] \in InHand /\ ProcOf[u] = p => call[u].addr # a
  BY <1>0 DEF IInv, MappingsInHand
<1>3. ProcOf[t] = p /\ call[t].addr = a
  OBVIOUS
<1> HIDE DEF p, a
<1>4. /\ maps' \in [Procs -> [Addrs -> Inode]]
      /\ \A q \in Procs \ {p} : maps'[q] = maps[q]
      /\ maps'[p][a] = NoInode
      /\ \A b \in Addrs \ {a} : maps'[p][b] = maps[p][b]
  BY <1>0 DEF Shape, Inode
<1>5. Shape'
  BY <1>0, <1>1, <1>4 DEF Shape
<1>6. Reservations'
  BY <1>0, <1>1 DEF IInv, Reservations
<1>7. \A i \in DOMAIN semtab[p] : semtab[p][i].sem # a
  BY <1>0 DEF IInv, EntriesAreTrue
<1>8. EntriesAreTrue' /\ EntriesDiffer' /\ HandlesHaveEntries'
  BY <1>0, <1>4, <1>7 DEF IInv, EntriesAreTrue, EntriesDiffer, HandlesHaveEntries
<1>9. MappingsInHand'
  BY <1>0, <1>1, <1>2, <1>4, Constants DEF IInv, MappingsInHand
<1>10. MappingsAreOwned'
  <2> SUFFICES ASSUME NEW q \in Procs, NEW b \in Addrs, maps'[q][b] # NoInode
               PROVE  \/ handles[q][b] > 0
                      \/ \E u \in Threads : ProcOf[u] = q /\ pc'[u] \in InHand /\ call'[u].addr = b
    BY <1>0 DEF MappingsAreOwned
  <2>1. maps[q][b] # NoInode /\ ~(q = p /\ b = a)
    BY <1>4
  <2>2. CASE handles[q][b] > 0
    BY <2>2
  <2>3. ASSUME NEW u \in Threads, ProcOf[u] = q, pc[u] \in InHand, call[u].addr = b
        PROVE  pc'[u] \in InHand /\ call'[u].addr = b
    BY <1>1, <1>3, <2>1, <2>3
  <2> QED
    BY <2>1, <2>2, <2>3 DEF IInv, MappingsAreOwned
<1> QED
  BY <1>5, <1>6, <1>8, <1>9, <1>10 DEF IInv

\* One entry of one table is set: to what its new handles and its mapping say, or
\* to free when the last handle is gone.
LEMMA EntryStaysTrue ==
  ASSUME IInv, NEW p \in Procs, NEW s \in Slots, NEW a \in Addrs, NEW e \in Entry,
         SetEntry(p, s, e), UNCHANGED maps,
         semtab[p] \in [Slots -> Entry],
         \A q \in Procs \ {p} : handles'[q] = handles[q],
         \A b \in Addrs \ {a} : handles'[p][b] = handles[p][b],
         \A i \in Slots \ {s} : semtab[p][i].sem # a,
         semtab[p][s].sem \in Addrs => semtab[p][s].sem = a,
         \/ e.sem = Null /\ e.ino = NoInode /\ e.refcnt = 0 /\ ~(handles'[p][a] > 0)
         \/ /\ e.sem = a /\ e.ino = maps[p][a] /\ e.ino # NoInode
            /\ e.refcnt = handles'[p][a] /\ e.refcnt > 0
            /\ \A i \in Slots \ {s} : semtab[p][i].sem \in Addrs => semtab[p][i].ino # e.ino
  PROVE  /\ semtab' \in [Procs -> {NoTable} \cup [Slots -> Entry]]
         /\ semtab'[p] \in [Slots -> Entry] /\ semtab'[p][s] = e
         /\ \A i \in Slots \ {s} : semtab'[p][i] = semtab[p][i]
         /\ \A q \in Procs \ {p} : semtab'[q] = semtab[q]
         /\ EntriesAreTrue' /\ EntriesDiffer' /\ HandlesHaveEntries'
<1> DEFINE new == [semtab[p] EXCEPT ![s] = e]
<1>1. /\ new \in [Slots -> Entry] /\ new[s] = e /\ DOMAIN new = Slots
      /\ \A i \in Slots \ {s} : new[i] = semtab[p][i]
  OBVIOUS
<1>2. semtab' = [semtab EXCEPT ![p] = new]
  BY DEF SetEntry
<1> HIDE DEF new
<1>3. /\ semtab' \in [Procs -> {NoTable} \cup [Slots -> Entry]]
      /\ semtab'[p] = new /\ \A q \in Procs \ {p} : semtab'[q] = semtab[q]
  BY <1>1, <1>2 DEF IInv, Shape
<1>4. EntriesAreTrue'
  <2> SUFFICES ASSUME NEW q \in Procs, NEW i \in DOMAIN semtab'[q]
               PROVE  IF semtab'[q][i].sem \in Addrs
                        THEN /\ semtab'[q][i].ino = maps[q][semtab'[q][i].sem]
                             /\ semtab'[q][i].ino # NoInode
                             /\ semtab'[q][i].refcnt = handles'[q][semtab'[q][i].sem]
                             /\ semtab'[q][i].refcnt > 0
                        ELSE semtab'[q][i].ino = NoInode /\ semtab'[q][i].refcnt = 0
    BY DEF EntriesAreTrue
  <2>1. CASE q # p
    BY <1>3, <2>1 DEF IInv, EntriesAreTrue
  <2>2. CASE q = p /\ i = s
    BY <1>1, <1>3, <2>2, Constants
  <2>3. CASE q = p /\ i # s
    <3>1. i \in Slots /\ semtab'[p][i] = semtab[p][i] /\ semtab[p][i].sem # a
      BY <1>1, <1>3, <2>3
    <3>2. i \in DOMAIN semtab[p]
      BY <3>1
    <3> QED
      BY <2>3, <3>1, <3>2 DEF IInv, EntriesAreTrue
  <2> QED
    BY <2>1, <2>2, <2>3
<1>5. EntriesDiffer'
  <2> SUFFICES ASSUME NEW q \in Procs, NEW i \in DOMAIN semtab'[q], NEW j \in DOMAIN semtab'[q],
                      semtab'[q][i].sem \in Addrs, semtab'[q][j].sem \in Addrs, i # j
               PROVE  semtab'[q][i].sem # semtab'[q][j].sem /\ semtab'[q][i].ino # semtab'[q][j].ino
    BY DEF EntriesDiffer
  <2>1. CASE q # p
    BY <1>3, <2>1 DEF IInv, EntriesDiffer
  <2>2. CASE q = p /\ i # s /\ j # s
    BY <1>1, <1>3, <2>2 DEF IInv, EntriesDiffer
  <2>3. CASE q = p /\ (i = s \/ j = s)
    BY <1>1, <1>3, <2>3, Constants
  <2> QED
    BY <2>1, <2>2, <2>3
<1>6. HandlesHaveEntries'
  <2> SUFFICES ASSUME NEW q \in Procs, NEW b \in Addrs, handles'[q][b] > 0
               PROVE  \E i \in DOMAIN semtab'[q] : semtab'[q][i].sem = b
    BY DEF HandlesHaveEntries
  <2>1. CASE q # p
    BY <1>3, <2>1 DEF IInv, HandlesHaveEntries
  <2>2. CASE q = p /\ b = a
    BY <1>1, <1>3, <2>2
  <2>3. CASE q = p /\ b # a
    <3>1. PICK i \in DOMAIN semtab[p] : semtab[p][i].sem = b
      BY <2>3 DEF IInv, HandlesHaveEntries
    <3> QED
      BY <1>1, <1>3, <2>3, <3>1
  <2> QED
    BY <2>1, <2>2, <2>3
<1> QED
  BY <1>1, <1>3, <1>4, <1>5, <1>6

\* sem_close counts one reference less, and gives up the slot of the last.
LEMMA SemCloseKeepsIInv == ASSUME IInv, NEW t \in Threads, SemClose(t) PROVE IInv'
<1> DEFINE p == ProcOf[t]
<1>0. /\ Shape /\ p \in Procs /\ pc[t] = "idle" /\ pc[t] \notin InOpen \cup InHand
      /\ call[t] \in Calls /\ UNCHANGED <<dir, maps>>
  BY Constants DEF IInv, Shape, SemClose, InOpen, InHand
<1>1. PICK a \in Addrs, s \in Slots :
        /\ handles[p][a] > 0 /\ handles' = [handles EXCEPT ![p][a] = @ - 1]
        /\ semtab[p][s].sem = a
        /\ IF LastReference(semtab[p][s].refcnt - 1)
             THEN /\ SetEntry(p, s, FreeEntry)
                  /\ call' = [call EXCEPT ![t].addr = a]
                  /\ Goto(t, "unmap")
             ELSE /\ SetEntry(p, s, [semtab[p][s] EXCEPT !.refcnt = @ - 1])
                  /\ UNCHANGED <<pc, call>>
  BY DEF SemClose
<1>2. semtab[p] \in [Slots -> Entry]
  BY <1>0, <1>1, Constants DEF Shape, IInv, HandlesHaveEntries
<1> HIDE DEF p
<1>3. /\ semtab[p][s].ino = maps[p][a] /\ maps[p][a] # NoInode
      /\ semtab[p][s].refcnt = handles[p][a] /\ handles[p][a] \in Nat
      /\ semtab[p][s] \in Entry
      /\ \A i \in Slots \ {s} : semtab[p][i].sem # a
  BY <1>0, <1>1, <1>2 DEF IInv, EntriesAreTrue, EntriesDiffer, Shape
<1>4. /\ handles' \in [Procs -> [Addrs -> Nat]]
      /\ \A q \in Procs \ {p} : handles'[q] = handles[q]
      /\ handles'[p][a] = handles[p][a] - 1
      /\ \A b \in Addrs \ {a} : handles'[p][b] = handles[p][b]
  BY <1>0, <1>1, <1>3 DEF Shape
<1>5. \A u \in Threads : pc[u] \in InHand /\ ProcOf[u] = p => call[u].addr # a
  BY <1>0, <1>1, <1>3 DEF IInv, MappingsInHand
<1>6. \A u \in Threads : pc[u] \in InOpen /\ ProcOf[u] = p => call[u].slot # s
  BY <1>0, <1>1, Constants DEF IInv, Reservations
<1>7. /\ a \notin {Null, Reserved} /\ FreeEntry \in Entry /\ FreeEntry.sem = Null
      /\ FreeEntry.ino = NoInode /\ FreeEntry.refcnt = 0
  BY Constants DEF FreeEntry, Entry, Inode
<1>8. ASSUME NEW e \in Entry, SetEntry(p, s, e), e.sem # Reserved,
             call' \in [Threads -> Calls],
             \A u \in Threads : /\ pc'[u] \in InOpen <=> pc[u] \in InOpen
                                /\ call'[u].slot = call[u].slot
      PROVE  /\ semtab' \in [Procs -> {NoTable} \cup [Slots -> Entry]]
             /\ semtab'[p] \in [Slots -> Entry] /\ semtab'[p][s] = e
             /\ \A i \in Slots \ {s} : semtab'[p][i] = semtab[p][i]
             /\ \A q \in Procs \ {p} : semtab'[q] = semtab[q]
             /\ DOMAIN semtab'[p] = Slots /\ DOMAIN semtab[p] = Slots
             /\ Reservations'
  <2> DEFINE new == [semtab[p] EXCEPT ![s] = e]
  <2>1. new \in [Slots -> Entry] /\ new[s] = e /\ \A i \in Slots \ {s} : new[i] = semtab[p][i]
    BY <1>2
  <2>2. semtab' = [semtab EXCEPT ![p] = new]
    BY <1>8 DEF SetEntry
  <2> HIDE DEF new
  <2>3. /\ semtab' \in [Procs -> {NoTable} \cup [Slots -> Entry]]
        /\ semtab'[p] = new /\ \A q \in Procs \ {p} : semtab'[q] = semtab[q]
    BY <1>0, <2>1, <2>2 DEF Shape
  <2>4. Reservations'
    <3>1. \A u \in Threads : pc'[u] \in InOpen =>
            semtab'[ProcOf[u]] # NoTable /\ semtab'[ProcOf[u]][call'[u].slot].sem = Reserved
      <4>1. \A u \in Threads : call[u].slot \in Slots
        BY <1>0 DEF Shape, Calls
      <4> QED
        BY <1>6, <1>8, <2>1, <2>3, <4>1, Constants DEF IInv, Reservations
    <3>2. \A u, v \in Threads :
            /\ pc'[u] \in InOpen /\ pc'[v] \in InOpen
            /\ ProcOf[u] = ProcOf[v] /\ call'[u].slot = call'[v].slot
            => u = v
      BY <1>8 DEF IInv, Reservations
    <3>3. ASSUME NEW q \in Procs, NEW i \in DOMAIN semtab'[q], semtab'[q][i].sem = Reserved
          PROVE  \E u \in Threads : ProcOf[u] = q /\ pc'[u] \in InOpen /\ call'[u].slot = i
      <4>1. i \in DOMAIN semtab[q] /\ semtab[q][i].sem = Reserved
        BY <1>2, <1>8, <2>1, <2>3, <3>3
      <4>2. PICK u \in Threads : ProcOf[u] = q /\ pc[u] \in InOpen /\ call[u].slot = i
        BY <4>1 DEF IInv, Reservations
      <4> QED
        BY <1>8, <4>2
    <3> QED
      BY <3>1, <3>2, <3>3 DEF Reservations
  <2> QED
    BY <1>2, <2>1, <2>3, <2>4
<1>9. CASE LastReference(semtab[p][s].refcnt - 1)
  <2>1. handles'[p][a] = 0 /\ handles[p][a] = 1
    BY <1>1, <1>3, <1>4, <1>9 DEF LastReference
  <2> DEFINE c == [call[t] EXCEPT !.addr = a]
  <2>2. c \in Calls /\ c.addr = a /\ c.slot = call[t].slot /\ call' = [call EXCEPT ![t] = c]
    BY <1>0, <1>1, <1>9 DEF Calls
  <2> HIDE DEF c
  <2>3. /\ call' \in [Threads -> Calls] /\ call'[t].addr = a
        /\ \A u \in Threads : call'[u].slot = call[u].slot
        /\ \A u \in Threads \ {t} : call'[u] = call[u] /\ pc'[u] = pc[u]
        /\ pc'[t] = "unmap" /\ pc' \in [Threads -> {"idle", "unmap"} \cup InOpen]
    BY <1>0, <1>1, <1>9, <2>2 DEF Shape, Goto
  <2>4. /\ pc'[t] \notin InOpen /\ pc'[t] \in InHand /\ ProcOf[t] = p
        /\ \A u \in Threads : pc'[u] \in InOpen <=> pc[u] \in InOpen
    BY <1>0, <2>3 DEF InOpen, InHand, p
  <2>5. SetEntry(p, s, FreeEntry)
    BY <1>1, <1>9
  <2>6. /\ semtab' \in [Procs -> {NoTable} \cup [Slots -> Entry]]
        /\ semtab'[p] \in [Slots -> Entry] /\ semtab'[p][s] = FreeEntry
        /\ \A i \in Slots \ {s} : semtab'[p][i] = semtab[p][i]
        /\ \A q \in Procs \ {p} : semtab'[q] = semtab[q]
        /\ DOMAIN semtab'[p] = Slots /\ DOMAIN semtab[p] = Slots
        /\ Reservations'
    BY <1>7, <1>8, <2>3, <2>4, <2>5, Constants
  <2>7. Shape'
    <3>1. \A u \in Threads : /\ pc'[u] \in InOpen => call'[u].name \in Names
                             /\ pc'[u] \in {"write", "map"} => call'[u].file \in Inodes
      BY <1>0, <2>3, <2>4 DEF Shape
    <3> QED
      BY <1>0, <1>4, <2>3, <2>6, <3>1 DEF Shape
  <2>8. EntriesAreTrue' /\ EntriesDiffer' /\ HandlesHaveEntries'
    BY <1>0, <1>1, <1>2, <1>3, <1>4, <1>7, <2>1, <2>5, EntryStaysTrue
  <2>9. MappingsInHand'
    <3>1. \A u \in Threads \ {t} : pc'[u] \in InHand =>
            pc[u] \in InHand /\ call'[u] = call[u] /\ (ProcOf[u] = p => call[u].addr # a)
      BY <1>5, <2>3
    <3>2. \A u \in Threads : pc'[u] \in InHand =>
            call'[u].addr \in Addrs /\ maps[ProcOf[u]][call'[u].addr] # NoInode
      BY <1>0, <1>3, <2>3, <2>4, <3>1 DEF IInv, MappingsInHand
    <3>3. ASSUME NEW u \in Threads, pc'[u] \in InHand
          PROVE  handles'[ProcOf[u]][call'[u].addr] = 0
      <4>1. CASE u = t
        BY <2>1, <2>3, <2>4, <4>1
      <4>2. CASE u # t
        <5>1. call'[u].addr = call[u].addr /\ call[u].addr \in Addrs /\ ProcOf[u] \in Procs
              /\ handles[ProcOf[u]][call[u].addr] = 0
          BY <3>1, <3>3, <4>2, Constants DEF IInv, MappingsInHand
        <5> QED
          BY <1>4, <3>1, <3>3, <4>2, <5>1
      <4> QED
        BY <4>1, <4>2
    <3>4. ASSUME NEW u \in Threads, NEW v \in Threads, pc'[u] \in InHand, pc'[v] \in InHand,
                 ProcOf[u] = ProcOf[v], call'[u].addr = call'[v].addr
          PROVE  u = v
      BY <2>3, <2>4, <3>1, <3>4 DEF IInv, MappingsInHand
    <3> QED
      BY <1>0, <3>2, <3>3, <3>4 DEF MappingsInHand
  <2>10. MappingsAreOwned'
    <3> SUFFICES ASSUME NEW q \in Procs, NEW b \in Addrs, maps[q][b] # NoInode
                 PROVE  \/ handles'[q][b] > 0
                        \/ \E u \in Threads : ProcOf[u] = q /\ pc'[u] \in InHand /\ call'[u].addr = b
      BY <1>0 DEF MappingsAreOwned
    <3>1. CASE q = p /\ b = a
      BY <2>3, <2>4, <3>1
    <3>2. CASE ~(q = p /\ b = a)
      <4>1. handles'[q][b] = handles[q][b]
        BY <1>4, <3>2
      <4>2. \A u \in Threads : pc[u] \in InHand => pc'[u] \in InHand /\ call'[u] = call[u]
        BY <1>0, <2>3
      <4> QED
        BY <4>1, <4>2 DEF IInv, MappingsAreOwned
    <3> QED
      BY <3>1, <3>2
  <2> QED
    BY <2>6, <2>7, <2>8, <2>9, <2>10 DEF IInv
<1>10. CASE ~LastReference(semtab[p][s].refcnt - 1)
  <2> DEFINE e == [semtab[p][s] EXCEPT !.refcnt = @ - 1]
  <2>1. handles'[p][a] > 0
    BY <1>1, <1>3, <1>4, <1>10 DEF LastReference
  <2>2. e \in Entry /\ e.sem = a /\ e.ino = maps[p][a] /\ e.refcnt = handles'[p][a]
    BY <1>1, <1>3, <1>4 DEF Entry
  <2>3. SetEntry(p, s, e) /\ UNCHANGED <<pc, call>>
    BY <1>1, <1>10
  <2> HIDE DEF e
  <2>4. /\ semtab' \in [Procs -> {NoTable} \cup [Slots -> Entry]]
        /\ semtab'[p] \in [Slots -> Entry] /\ semtab'[p][s] = e
        /\ \A i \in Slots \ {s} : semtab'[p][i] = semtab[p][i]
        /\ \A q \in Procs \ {p} : semtab'[q] = semtab[q]
        /\ DOMAIN semtab'[p] = Slots /\ DOMAIN semtab[p] = Slots
        /\ Reservations'
    BY <1>0, <1>7, <1>8, <2>2, <2>3 DEF Shape
  <2>5. Shape'
    BY <1>0, <1>4, <2>3, <2>4 DEF Shape
  <2>6. EntriesAreTrue' /\ EntriesDiffer' /\ HandlesHaveEntries'
    <3>1. \A i \in Slots \ {s} : semtab[p][i].sem \in Addrs => semtab[p][i].ino # e.ino
      BY <1>0, <1>1, <1>2, <1>3, <2>2 DEF IInv, EntriesDiffer
    <3> QED
      BY <1>0, <1>1, <1>2, <1>3, <1>4, <2>1, <2>2, <2>3, <3>1, EntryStaysTrue
  <2>7. MappingsInHand'
    <3>1. ASSUME NEW u \in Threads, pc[u] \in InHand
          PROVE  handles'[ProcOf[u]][call[u].addr] = 0
      <4>1. /\ call[u].addr \in Addrs /\ ProcOf[u] \in Procs
            /\ handles[ProcOf[u]][call[u].addr] = 0
        BY <3>1, Constants DEF IInv, MappingsInHand
      <4> QED
        BY <1>4, <1>5, <3>1, <4>1
    <3> QED
      BY <1>0, <2>3, <3>1 DEF IInv, MappingsInHand
  <2>8. MappingsAreOwned'
    <3> SUFFICES ASSUME NEW q \in Procs, NEW b \in Addrs, maps[q][b] # NoInode
                 PROVE  \/ handles'[q][b] > 0
                        \/ \E u \in Threads : ProcOf[u] = q /\ pc[u] \in InHand /\ call[u].addr = b
      BY <1>0, <2>3 DEF MappingsAreOwned
    <3>1. CASE q = p /\ b = a
      BY <2>1, <3>1
    <3>2. CASE ~(q = p /\ b = a)
      BY <1>4, <3>2 DEF IInv, MappingsAreOwned
    <3> QED
      BY <3>1, <3>2
  <2> QED
    BY <2>4, <2>5, <2>6, <2>7, <2>8 DEF IInv
<1> QED
  BY <1>9, <1>10

\* An open that ends leaves no reservation behind, and touches no other.
LEMMA ReservationEnds ==
  ASSUME IInv, NEW t \in Threads, pc[t] \in InOpen, Return(t),
         NEW table \in [Slots -> Entry], semtab' = [semtab EXCEPT ![ProcOf[t]] = table],
         table[call[t].slot].sem # Reserved,
         \A i \in Slots \ {call[t].slot} :
           table[i].sem = Reserved <=> semtab[ProcOf[t]][i].sem = Reserved
  PROVE  /\ Reservations'
         /\ semtab' \in [Procs -> {NoTable} \cup [Slots -> Entry]]
         /\ semtab'[ProcOf[t]] = table
         /\ \A q \in Procs \ {ProcOf[t]} : semtab'[q] = semtab[q]
<1> DEFINE p == ProcOf[t]
           s == call[t].slot
<1>0. /\ Shape /\ p \in Procs /\ s \in Slots /\ ProcOf[t] = p /\ call[t].slot = s
      /\ semtab[p] \in [Slots -> Entry] /\ table[s].sem # Reserved
      /\ semtab' = [semtab EXCEPT ![p] = table]
      /\ \A i \in Slots \ {s} : table[i].sem = Reserved <=> semtab[p][i].sem = Reserved
  BY Constants DEF IInv, Shape, Reservations, Calls
<1>1. \A u \in Threads \ {t} : pc[u] \in InOpen /\ ProcOf[u] = p => call[u].slot # s
  BY DEF IInv, Reservations
<1> HIDE DEF p, s
<1>2. /\ semtab' \in [Procs -> {NoTable} \cup [Slots -> Entry]]
      /\ semtab'[p] = table /\ \A q \in Procs \ {p} : semtab'[q] = semtab[q]
  BY <1>0 DEF Shape
<1>3. /\ pc'[t] \notin InOpen
      /\ \A u \in Threads \ {t} : call'[u] = call[u] /\ pc'[u] = pc[u]
  BY <1>0, ReturnForgets
<1>4. \A u \in Threads : call[u].slot \in Slots
  BY <1>0 DEF Shape, Calls
<1>5. ASSUME NEW u \in Threads, pc'[u] \in InOpen
      PROVE  semtab'[ProcOf[u]] # NoTable /\ semtab'[ProcOf[u]][call'[u].slot].sem = Reserved
  <2>1. u # t /\ pc[u] \in InOpen /\ call'[u].slot = call[u].slot
    BY <1>3, <1>5
  <2>2. semtab[ProcOf[u]] # NoTable /\ semtab[ProcOf[u]][call[u].slot].sem = Reserved
    BY <2>1 DEF IInv, Reservations
  <2>3. CASE ProcOf[u] = p
    BY <1>0, <1>1, <1>2, <1>4, <2>1, <2>2, <2>3, Constants
  <2>4. CASE ProcOf[u] # p
    BY <1>2, <2>1, <2>2, <2>4, Constants
  <2> QED
    BY <2>3, <2>4
<1>6. ASSUME NEW u \in Threads, NEW v \in Threads, pc'[u] \in InOpen, pc'[v] \in InOpen,
             ProcOf[u] = ProcOf[v], call'[u].slot = call'[v].slot
      PROVE  u = v
  BY <1>3, <1>6 DEF IInv, Reservations
<1>7. ASSUME NEW q \in Procs, NEW i \in DOMAIN semtab'[q], semtab'[q][i].sem = Reserved
      PROVE  \E u \in Threads : ProcOf[u] = q /\ pc'[u] \in InOpen /\ call'[u].slot = i
  <2>1. i \in DOMAIN semtab[q] /\ semtab[q][i].sem = Reserved /\ ~(q = p /\ i = s)
    BY <1>0, <1>2, <1>7
  <2>2. PICK u \in Threads : ProcOf[u] = q /\ pc[u] \in InOpen /\ call[u].slot = i
    BY <2>1 DEF IInv, Reservations
  <2>3. u # t
    BY <1>0, <2>1, <2>2
  <2> QED
    BY <1>3, <2>2, <2>3
<1> QED
  BY <1>0, <1>2, <1>5, <1>6, <1>7 DEF Reservations

\* The new mapping goes into the slot that was reserved for it.
LEMMA PublishNewKeepsIInv ==
  ASSUME IInv, NEW t \in Threads, pc[t] = "publish", Return(t), UNCHANGED <<dir, maps>>,
         SetEntry(ProcOf[t], call[t].slot,
                  [sem |-> call[t].addr, ino |-> maps[ProcOf[t]][call[t].addr], refcnt |-> 1]),
         \A i \in Slots : semtab[ProcOf[t]][i].ino # maps[ProcOf[t]][call[t].addr],
         handles' = [handles EXCEPT ![ProcOf[t]][call[t].addr] = @ + 1]
  PROVE  IInv'
<1> DEFINE p == ProcOf[t]
           s == call[t].slot
           a == call[t].addr
           e == [sem |-> a, ino |-> maps[p][a], refcnt |-> 1]
           new == [semtab[p] EXCEPT ![s] = e]
<1>0. /\ Shape /\ p \in Procs /\ s \in Slots /\ a \in Addrs /\ pc[t] \in InOpen /\ pc[t] \in InHand
      /\ maps[p][a] # NoInode /\ handles[p][a] = 0
      /\ semtab[p] \in [Slots -> Entry] /\ semtab[p][s].sem = Reserved
      /\ ProcOf[t] = p /\ call[t].slot = s /\ call[t].addr = a
  BY Constants DEF IInv, Shape, Reservations, MappingsInHand, Calls, InOpen, InHand
<1>1. e \in Entry /\ e.sem = a /\ e.ino = maps[p][a] /\ e.refcnt = 1
  BY <1>0 DEF Entry, Shape
<1>2. SetEntry(p, s, e) /\ \A i \in Slots : semtab[p][i].ino # e.ino
  BY <1>1
<1>3. handles' = [handles EXCEPT ![p][a] = @ + 1]
  OBVIOUS
<1>4. \A u \in Threads \ {t} : pc[u] \in InHand /\ ProcOf[u] = p => call[u].addr # a
  BY <1>0 DEF IInv, MappingsInHand
<1> HIDE DEF p, s, a, e
<1>5. /\ new \in [Slots -> Entry] /\ new[s] = e
      /\ \A i \in Slots \ {s} : new[i] = semtab[p][i]
  BY <1>0, <1>1
<1>6. semtab' = [semtab EXCEPT ![p] = new]
  BY <1>2 DEF SetEntry
<1> HIDE DEF new
<1>7. /\ handles' \in [Procs -> [Addrs -> Nat]]
      /\ \A q \in Procs \ {p} : handles'[q] = handles[q]
      /\ handles'[p][a] = 1
      /\ \A b \in Addrs \ {a} : handles'[p][b] = handles[p][b]
  BY <1>0, <1>3 DEF Shape
<1>8. /\ pc' \in [Threads -> {"idle", "unmap"} \cup InOpen] /\ call' \in [Threads -> Calls]
      /\ pc'[t] = "idle" /\ pc'[t] \notin InOpen \cup InHand
      /\ \A u \in Threads \ {t} : call'[u] = call[u] /\ pc'[u] = pc[u]
  BY <1>0, ReturnForgets
<1>9. Reservations' /\ semtab' \in [Procs -> {NoTable} \cup [Slots -> Entry]]
  <2>1. /\ new[s].sem # Reserved
        /\ \A i \in Slots \ {s} : new[i].sem = Reserved <=> semtab[p][i].sem = Reserved
    BY <1>0, <1>1, <1>5, Constants
  <2>2. /\ semtab' = [semtab EXCEPT ![ProcOf[t]] = new] /\ new[call[t].slot].sem # Reserved
        /\ \A i \in Slots \ {call[t].slot} :
             new[i].sem = Reserved <=> semtab[ProcOf[t]][i].sem = Reserved
    BY <1>0, <1>6, <2>1
  <2> QED
    BY <1>0, <1>5, <2>2, ReservationEnds
<1>10. Shape'
  BY <1>0, <1>7, <1>8, <1>9 DEF Shape
<1>11. \A i \in Slots : semtab[p][i].sem # a
  <2>1. DOMAIN semtab[p] = Slots
    BY <1>0
  <2> QED
    BY <1>0, <2>1 DEF IInv, EntriesAreTrue
<1>12. EntriesAreTrue' /\ EntriesDiffer' /\ HandlesHaveEntries'
  BY <1>0, <1>1, <1>2, <1>7, <1>11, EntryStaysTrue, Constants
<1>13. MappingsInHand'
  <2>1. ASSUME NEW u \in Threads, pc'[u] \in InHand
        PROVE  /\ u # t /\ pc[u] \in InHand /\ call'[u] = call[u]
               /\ call[u].addr \in Addrs /\ maps[ProcOf[u]][call[u].addr] # NoInode
               /\ handles'[ProcOf[u]][call[u].addr] = 0
    <3>1. u # t /\ pc[u] \in InHand /\ call'[u] = call[u]
      BY <1>8, <2>1
    <3>2. /\ call[u].addr \in Addrs /\ ProcOf[u] \in Procs
          /\ maps[ProcOf[u]][call[u].addr] # NoInode
          /\ handles[ProcOf[u]][call[u].addr] = 0
      BY <3>1, Constants DEF IInv, MappingsInHand
    <3> QED
      BY <1>4, <1>7, <3>1, <3>2
  <2> QED
    BY <2>1 DEF IInv, MappingsInHand
<1>14. MappingsAreOwned'
  <2> SUFFICES ASSUME NEW q \in Procs, NEW b \in Addrs, maps[q][b] # NoInode
               PROVE  \/ handles'[q][b] > 0
                      \/ \E u \in Threads : ProcOf[u] = q /\ pc'[u] \in InHand /\ call'[u].addr = b
    BY DEF MappingsAreOwned
  <2>1. CASE q = p /\ b = a
    BY <1>7, <2>1
  <2>2. CASE ~(q = p /\ b = a)
    <3>1. handles'[q][b] = handles[q][b]
      BY <1>7, <2>2
    <3>2. ASSUME NEW u \in Threads, ProcOf[u] = q, pc[u] \in InHand, call[u].addr = b
          PROVE  pc'[u] \in InHand /\ call'[u].addr = b
      BY <1>0, <1>8, <2>2, <3>2
    <3> QED
      BY <3>1, <3>2 DEF IInv, MappingsAreOwned
  <2> QED
    BY <2>1, <2>2
<1> QED
  BY <1>9, <1>10, <1>12, <1>13, <1>14 DEF IInv

\* What Publish does when entry m has the inode that was mapped.
PublishKnown(t, m) ==
  LET p == ProcOf[t]
      back == GiveBack(semtab[p], call[t].slot)
  IN
  /\ pc[t] = "publish"
  /\ semtab[p][m].ino = maps[p][call[t].addr]
  /\ semtab' = [semtab EXCEPT ![p] =
       [back EXCEPT ![m] = [sem |-> semtab[p][m].sem, ino |-> maps[p][call[t].addr],
                            refcnt |-> back[m].refcnt + 1]]]
  /\ maps' = [maps EXCEPT ![p][call[t].addr] = NoInode]
  /\ handles' = [handles EXCEPT ![p][semtab[p][m].sem] = @ + 1]
  /\ Return(t)
  /\ UNCHANGED dir

\* The semaphore is mapped already: its entry counts one handle more, the slot and
\* the second mapping are given back.
LEMMA PublishKnownKeepsIInv ==
  ASSUME IInv, NEW t \in Threads, NEW m \in Slots, PublishKnown(t, m)
  PROVE  IInv'
<1> DEFINE p == ProcOf[t]
           s == call[t].slot
           a == call[t].addr
           b == semtab[p][m].sem
           back == GiveBack(semtab[p], s)
           e == [sem |-> b, ino |-> maps[p][a], refcnt |-> back[m].refcnt + 1]
           new == [back EXCEPT ![m] = e]
<1>0. /\ Shape /\ p \in Procs /\ s \in Slots /\ a \in Addrs /\ pc[t] \in InOpen /\ pc[t] \in InHand
      /\ maps[p][a] # NoInode /\ handles[p][a] = 0 /\ semtab[p][m].ino = maps[p][a]
      /\ semtab[p] \in [Slots -> Entry] /\ semtab[p][s].sem = Reserved
      /\ ProcOf[t] = p /\ call[t].slot = s /\ call[t].addr = a
      /\ Return(t) /\ UNCHANGED dir
  BY Constants DEF PublishKnown, IInv, Shape, Reservations, MappingsInHand, Calls, InOpen, InHand
<1>1. /\ semtab' = [semtab EXCEPT ![p] = new]
      /\ maps' = [maps EXCEPT ![p][a] = NoInode]
      /\ handles' = [handles EXCEPT ![p][b] = @ + 1]
      /\ semtab[p][m].sem = b
  BY DEF PublishKnown
<1>2. \A u \in Threads \ {t} : pc[u] \in InHand /\ ProcOf[u] = p => call[u].addr # a
  BY <1>0 DEF IInv, MappingsInHand
<1> HIDE DEF p, s, a, b
<1>3. DOMAIN semtab[p] = Slots
  BY <1>0
<1>4. /\ semtab[p][s].ino = NoInode /\ semtab[p][s].refcnt = 0
      /\ b \in Addrs /\ maps[p][b] = maps[p][a] /\ s # m /\ a # b
      /\ semtab[p][m].refcnt = handles[p][b] /\ handles[p][b] > 0 /\ handles[p][b] \in Nat
  <2>1. semtab[p][s].ino = NoInode /\ semtab[p][s].refcnt = 0
    BY <1>0, <1>3, Constants DEF IInv, EntriesAreTrue
  <2>2. b \in Addrs /\ maps[p][b] = maps[p][a] /\ semtab[p][m].refcnt = handles[p][b] /\ handles[p][b] > 0
    BY <1>0, <1>1, <1>3 DEF IInv, EntriesAreTrue
  <2>3. handles[p][b] \in Nat
    BY <1>0, <2>2 DEF Shape
  <2> QED
    BY <1>0, <2>1, <2>2, <2>3
<1>5. /\ back \in [Slots -> Entry] /\ back[s].sem = Null
      /\ back[s].ino = NoInode /\ back[s].refcnt = 0
      /\ \A i \in Slots \ {s} : back[i] = semtab[p][i]
  <2>1. [semtab[p][s] EXCEPT !.sem = Null] \in Entry
    BY <1>0 DEF Entry
  <2> QED
    BY <1>0, <1>4, <2>1 DEF GiveBack, Entry
<1> HIDE DEF back
<1>6. e \in Entry /\ e.sem = b /\ e.ino = maps[p][a] /\ e.refcnt = handles[p][b] + 1
  BY <1>0, <1>4, <1>5 DEF Entry, Shape
<1> HIDE DEF e
<1>7. /\ new \in [Slots -> Entry] /\ DOMAIN new = Slots /\ new[m] = e
      /\ new[s].sem = Null /\ new[s].ino = NoInode /\ new[s].refcnt = 0
      /\ \A i \in Slots \ {s, m} : new[i] = semtab[p][i]
  BY <1>4, <1>5, <1>6
<1> HIDE DEF new
<1>8. /\ handles' \in [Procs -> [Addrs -> Nat]]
      /\ \A q \in Procs \ {p} : handles'[q] = handles[q]
      /\ handles'[p][b] = handles[p][b] + 1
      /\ \A x \in Addrs \ {b} : handles'[p][x] = handles[p][x]
  BY <1>0, <1>1, <1>4 DEF Shape
<1>9. /\ maps' \in [Procs -> [Addrs -> Inode]]
      /\ \A q \in Procs \ {p} : maps'[q] = maps[q]
      /\ maps'[p][a] = NoInode
      /\ \A x \in Addrs \ {a} : maps'[p][x] = maps[p][x]
  BY <1>0, <1>1 DEF Shape, Inode
<1>10. /\ pc' \in [Threads -> {"idle", "unmap"} \cup InOpen] /\ call' \in [Threads -> Calls]
       /\ pc'[t] = "idle" /\ pc'[t] \notin InOpen \cup InHand
       /\ \A u \in Threads \ {t} : call'[u] = call[u] /\ pc'[u] = pc[u]
  BY <1>0, ReturnForgets
<1>11. /\ Reservations' /\ semtab' \in [Procs -> {NoTable} \cup [Slots -> Entry]]
       /\ semtab'[p] = new /\ \A q \in Procs \ {p} : semtab'[q] = semtab[q]
  <2>1. /\ new[s].sem # Reserved
        /\ \A i \in Slots \ {s} : new[i].sem = Reserved <=> semtab[p][i].sem = Reserved
    BY <1>1, <1>4, <1>6, <1>7, Constants
  <2>2. /\ semtab' = [semtab EXCEPT ![ProcOf[t]] = new] /\ new[call[t].slot].sem # Reserved
        /\ \A i \in Slots \ {call[t].slot} :
             new[i].sem = Reserved <=> semtab[ProcOf[t]][i].sem = Reserved
    BY <1>0, <1>1, <2>1
  <2>3. \A q \in Procs \ {ProcOf[t]} : semtab'[q] = semtab[q]
    BY <1>0, <1>7, <2>2, ReservationEnds
  <2> QED
    BY <1>0, <1>7, <2>2, <2>3, ReservationEnds
<1>12. Shape'
  BY <1>0, <1>8, <1>9, <1>10, <1>11 DEF Shape
<1>13. \A i \in Slots \ {s, m} : semtab[p][i].sem # a /\ semtab[p][i].sem # b
  BY <1>0, <1>1, <1>3, <1>4 DEF IInv, EntriesAreTrue, EntriesDiffer
<1>14. EntriesAreTrue'
  <2> SUFFICES ASSUME NEW q \in Procs, NEW i \in DOMAIN semtab'[q]
               PROVE  IF semtab'[q][i].sem \in Addrs
                        THEN /\ semtab'[q][i].ino = maps'[q][semtab'[q][i].sem]
                             /\ semtab'[q][i].ino # NoInode
                             /\ semtab'[q][i].refcnt = handles'[q][semtab'[q][i].sem]
                             /\ semtab'[q][i].refcnt > 0
                        ELSE semtab'[q][i].ino = NoInode /\ semtab'[q][i].refcnt = 0
    BY DEF EntriesAreTrue
  <2>1. CASE q # p
    BY <1>8, <1>9, <1>11, <2>1 DEF IInv, EntriesAreTrue
  <2>2. CASE q = p /\ i = s
    BY <1>7, <1>11, <2>2, Constants
  <2>3. CASE q = p /\ i = m
    BY <1>0, <1>4, <1>6, <1>7, <1>8, <1>9, <1>11, <2>3
  <2>4. CASE q = p /\ i \notin {s, m}
    <3>1. i \in Slots \ {s, m} /\ semtab'[p][i] = semtab[p][i] /\ i \in DOMAIN semtab[p]
      BY <1>3, <1>7, <1>11, <2>4
    <3>2. IF semtab[p][i].sem \in Addrs
            THEN /\ semtab[p][i].ino = maps[p][semtab[p][i].sem]
                 /\ semtab[p][i].ino # NoInode
                 /\ semtab[p][i].refcnt = handles[p][semtab[p][i].sem]
                 /\ semtab[p][i].refcnt > 0
            ELSE semtab[p][i].ino = NoInode /\ semtab[p][i].refcnt = 0
      BY <1>0, <3>1 DEF IInv, EntriesAreTrue
    <3>3. semtab[p][i].sem # a /\ semtab[p][i].sem # b
      BY <1>13, <3>1
    <3> QED
      BY <1>8, <1>9, <2>4, <3>1, <3>2, <3>3
  <2> QED
    BY <2>1, <2>2, <2>3, <2>4
<1>15. EntriesDiffer'
  <2>1. \A i \in Slots : new[i].sem \in Addrs => new[i].sem = semtab[p][i].sem /\ new[i].ino = semtab[p][i].ino
    BY <1>0, <1>1, <1>6, <1>7, Constants
  <2> SUFFICES ASSUME NEW q \in Procs, NEW i \in DOMAIN semtab'[q], NEW j \in DOMAIN semtab'[q],
                      semtab'[q][i].sem \in Addrs, semtab'[q][j].sem \in Addrs, i # j
               PROVE  semtab'[q][i].sem # semtab'[q][j].sem /\ semtab'[q][i].ino # semtab'[q][j].ino
    BY DEF EntriesDiffer
  <2>2. CASE q # p
    BY <1>11, <2>2 DEF IInv, EntriesDiffer
  <2>3. CASE q = p
    BY <1>3, <1>7, <1>11, <2>1, <2>3 DEF IInv, EntriesDiffer
  <2> QED
    BY <2>2, <2>3
<1>16. HandlesHaveEntries'
  <2> SUFFICES ASSUME NEW q \in Procs, NEW x \in Addrs, handles'[q][x] > 0
               PROVE  \E i \in DOMAIN semtab'[q] : semtab'[q][i].sem = x
    BY DEF HandlesHaveEntries
  <2>1. CASE q # p
    BY <1>8, <1>11, <2>1 DEF IInv, HandlesHaveEntries
  <2>2. CASE q = p /\ x = b
    BY <1>6, <1>7, <1>11, <2>2
  <2>3. CASE q = p /\ x # b
    <3>1. PICK i \in DOMAIN semtab[p] : semtab[p][i].sem = x
      BY <1>8, <2>3 DEF IInv, HandlesHaveEntries
    <3>2. i \in Slots \ {s, m}
      BY <1>0, <1>1, <1>3, <2>3, <3>1, Constants
    <3> QED
      BY <1>7, <1>11, <2>3, <3>1, <3>2
  <2> QED
    BY <2>1, <2>2, <2>3
<1>17. MappingsInHand'
  <2>1. ASSUME NEW u \in Threads, pc'[u] \in InHand
        PROVE  /\ u # t /\ pc[u] \in InHand /\ call'[u] = call[u]
               /\ call[u].addr \in Addrs /\ maps'[ProcOf[u]][call[u].addr] # NoInode
               /\ handles'[ProcOf[u]][call[u].addr] = 0
    <3>1. u # t /\ pc[u] \in InHand /\ call'[u] = call[u]
      BY <1>10, <2>1
    <3>2. /\ call[u].addr \in Addrs /\ ProcOf[u] \in Procs
          /\ maps[ProcOf[u]][call[u].addr] # NoInode
          /\ handles[ProcOf[u]][call[u].addr] = 0
      BY <3>1, Constants DEF IInv, MappingsInHand
    <3>3. ProcOf[u] = p => call[u].addr # a /\ call[u].addr # b
      BY <1>2, <1>4, <3>1, <3>2
    <3> QED
      BY <1>8, <1>9, <3>1, <3>2, <3>3
  <2> QED
    BY <2>1 DEF IInv, MappingsInHand
<1>18. MappingsAreOwned'
  <2> SUFFICES ASSUME NEW q \in Procs, NEW x \in Addrs, maps'[q][x] # NoInode
               PROVE  \/ handles'[q][x] > 0
                      \/ \E u \in Threads : ProcOf[u] = q /\ pc'[u] \in InHand /\ call'[u].addr = x
    BY DEF MappingsAreOwned
  <2>1. maps[q][x] # NoInode /\ ~(q = p /\ x = a)
    BY <1>9
  <2>2. handles[q][x] > 0 => handles'[q][x] > 0
    BY <1>4, <1>8
  <2>3. ASSUME NEW u \in Threads, ProcOf[u] = q, pc[u] \in InHand, call[u].addr = x
        PROVE  pc'[u] \in InHand /\ call'[u].addr = x
    BY <1>0, <1>10, <2>1, <2>3
  <2> QED
    BY <2>1, <2>2, <2>3 DEF IInv, MappingsAreOwned
<1> QED
  BY <1>11, <1>12, <1>14, <1>15, <1>16, <1>17, <1>18 DEF IInv

\* The second locked section of sem_open, in both its outcomes.
LEMMA PublishKeepsIInv == ASSUME IInv, NEW t \in Threads, Publish(t) PROVE IInv'
<1> DEFINE p == ProcOf[t]
           s == call[t].slot
           inode == maps[p][call[t].addr]
           same == {i \in Slots : SameSemaphore(semtab[p][i], inode)}
<1>0. pc[t] = "publish" /\ Return(t) /\ UNCHANGED dir
  BY DEF Publish
<1>1. CASE same = {}
  <2>1. semtab[p][s].refcnt = 0
    <3>1. /\ p \in Procs /\ s \in Slots /\ semtab[p] \in [Slots -> Entry]
          /\ semtab[p][s].sem = Reserved
      BY <1>0, Constants DEF IInv, Shape, Reservations, Calls, InOpen
    <3> QED
      BY <3>1, Constants DEF IInv, EntriesAreTrue
  <2>2. SetEntry(p, s, [sem |-> call[t].addr, ino |-> inode, refcnt |-> semtab[p][s].refcnt + 1])
    BY <1>1 DEF Publish, SetEntry
  <2>3. SetEntry(p, s, [sem |-> call[t].addr, ino |-> inode, refcnt |-> 1])
    BY <2>1, <2>2
  <2>4. /\ \A i \in Slots : semtab[p][i].ino # inode
        /\ UNCHANGED maps /\ handles' = [handles EXCEPT ![p][call[t].addr] = @ + 1]
    BY <1>1 DEF Publish, SameSemaphore
  <2> QED
    BY <1>0, <2>3, <2>4, PublishNewKeepsIInv
<1>2. CASE same # {}
  <2> DEFINE m == Min(same)
  <2>1. m \in Slots /\ semtab[p][m].ino = inode
    <3>1. m \in same
      BY <1>2, SmallestSlot
    <3> QED
      BY <3>1 DEF SameSemaphore
  <2>2. /\ semtab' = [semtab EXCEPT ![p] =
             [GiveBack(semtab[p], s) EXCEPT ![m] =
                [sem |-> semtab[p][m].sem, ino |-> inode,
                 refcnt |-> GiveBack(semtab[p], s)[m].refcnt + 1]]]
        /\ maps' = [maps EXCEPT ![p][call[t].addr] = NoInode]
        /\ handles' = [handles EXCEPT ![p][semtab[p][m].sem] = @ + 1]
    BY <1>2 DEF Publish
  <2> HIDE DEF m
  <2>3. PublishKnown(t, m)
    BY <1>0, <2>1, <2>2 DEF PublishKnown
  <2> QED
    BY <2>1, <2>3, PublishKnownKeepsIInv
<1> QED
  BY <1>1, <1>2

-----------------------------------------------------------------------------

\* Before the first call there is no table, no file and no call under way.
LEMMA IInvInit == Init => IInv
<1> SUFFICES ASSUME Init PROVE IInv
  OBVIOUS
<1>1. NoCall \in Calls
  BY Constants DEF NoCall, Calls, Inode, Flags
<1>2. \A p \in Procs : DOMAIN semtab[p] = {}
  BY Constants DEF Init
<1>3. Shape
  BY <1>1, Constants DEF Init, Shape, Inode, InOpen
<1>4. Reservations /\ EntriesAreTrue /\ EntriesDiffer
  BY <1>2 DEF Init, Reservations, EntriesAreTrue, EntriesDiffer, InOpen
<1>5. HandlesHaveEntries /\ MappingsInHand /\ MappingsAreOwned
  BY DEF Init, HandlesHaveEntries, MappingsInHand, MappingsAreOwned, InHand
<1> QED
  BY <1>3, <1>4, <1>5 DEF IInv

\* Every step keeps the invariant.
LEMMA IInvStep == IInv /\ [Next]_vars => IInv'
<1> SUFFICES ASSUME IInv, [Next]_vars PROVE IInv'
  OBVIOUS
<1>1. CASE UNCHANGED vars
  BY <1>1 DEF vars, IInv, Shape, Reservations, EntriesAreTrue, EntriesDiffer,
              HandlesHaveEntries, MappingsInHand, MappingsAreOwned
<1>2. ASSUME NEW t \in Threads,
             \/ SemOpen(t) \/ SemOpenNoTable(t) \/ OpenDispatch(t) \/ OpenExisting(t)
             \/ Create(t) \/ Write(t) \/ Map(t) \/ Undo(t) \/ Publish(t) \/ OpenFails(t)
             \/ SemClose(t) \/ Unmap(t) \/ SemCloseUnknown(t) \/ SemUnlink(t)
      PROVE  IInv'
  BY <1>2, FileStepsKeepIInv, SemOpenKeepsIInv, MapKeepsIInv, PublishKeepsIInv,
     OpenFailsKeepsIInv, UnmapKeepsIInv, SemCloseKeepsIInv
<1> QED
  BY <1>1, <1>2 DEF Next

\* The table, the handles, the mappings and the calls under way always agree:
\* nothing sem_open, sem_close and sem_unlink do in any order breaks it.
THEOREM NamedSemInvariant == Spec => []IInv
<1>1. Init => IInv
  BY IInvInit
<1>2. IInv /\ [Next]_vars => IInv'
  BY IInvStep
<1> QED
  BY <1>1, <1>2, PTL DEF Spec

\* A handle that is not closed stays counted and mapped to its semaphore, whatever
\* the other threads and processes open, close and unlink.
THEOREM NamedSemHandles == Spec => []HandlesAreMapped
<1>1. IInv => HandlesAreMapped
  <2> SUFFICES ASSUME IInv, NEW p \in Procs, NEW a \in Addrs, handles[p][a] > 0
               PROVE  \E i \in DOMAIN semtab[p] :
                        /\ semtab[p][i] = [sem |-> a, ino |-> maps[p][a], refcnt |-> handles[p][a]]
                        /\ maps[p][a] # NoInode
                        /\ \A t \in Threads : ProcOf[t] = p /\ pc[t] \in {"publish", "unmap"} =>
                             call[t].addr # a
    BY DEF HandlesAreMapped
  <2>1. PICK i \in DOMAIN semtab[p] : semtab[p][i].sem = a
    BY DEF IInv, HandlesHaveEntries
  <2>2. semtab[p][i] \in Entry
    BY <2>1, Constants DEF IInv, Shape
  <2>3. /\ semtab[p][i].ino = maps[p][a] /\ maps[p][a] # NoInode
        /\ semtab[p][i].refcnt = handles[p][a]
    BY <2>1 DEF IInv, EntriesAreTrue
  <2>4. \A t \in Threads : ProcOf[t] = p /\ pc[t] \in {"publish", "unmap"} => call[t].addr # a
    BY DEF IInv, MappingsInHand, InHand
  <2> QED
    BY <2>1, <2>2, <2>3, <2>4 DEF Entry
<1> QED
  BY <1>1, NamedSemInvariant, PTL

\* All opens of one semaphore in a process get one address.
THEOREM NamedSemOneAddress == Spec => []OneAddressPerSemaphore
<1>1. IInv => OneAddressPerSemaphore
  <2> SUFFICES ASSUME IInv, NEW p \in Procs, NEW a \in Addrs, NEW b \in Addrs,
                      handles[p][a] > 0, handles[p][b] > 0, maps[p][a] = maps[p][b], a # b
               PROVE  FALSE
    BY DEF OneAddressPerSemaphore
  <2>1. PICK i \in DOMAIN semtab[p] : semtab[p][i].sem = a
    BY DEF IInv, HandlesHaveEntries
  <2>2. PICK j \in DOMAIN semtab[p] : semtab[p][j].sem = b
    BY DEF IInv, HandlesHaveEntries
  <2>3. semtab[p][i].ino = maps[p][a] /\ semtab[p][j].ino = maps[p][b]
    BY <2>1, <2>2 DEF IInv, EntriesAreTrue
  <2> QED
    BY <2>1, <2>2, <2>3 DEF IInv, EntriesDiffer
<1> QED
  BY <1>1, NamedSemInvariant, PTL

\* No outcome of an open or a close loses a slot of the table or a mapping.
THEOREM NamedSemLeaksNothing == Spec => []NothingLeaks
<1>1. IInv => NothingLeaks
  <2> SUFFICES ASSUME IInv, NEW p \in Procs
               PROVE  /\ \A i \in DOMAIN semtab[p] : semtab[p][i].sem = Reserved =>
                           Cardinality({t \in Threads : /\ ProcOf[t] = p /\ call[t].slot = i
                                                        /\ pc[t] \in InOpen}) = 1
                      /\ \A a \in Addrs : maps[p][a] # NoInode =>
                           \/ handles[p][a] > 0
                           \/ \E t \in Threads : /\ ProcOf[t] = p /\ pc[t] \in {"publish", "unmap"}
                                                 /\ call[t].addr = a
    BY DEF NothingLeaks
  <2>1. ASSUME NEW i \in DOMAIN semtab[p], semtab[p][i].sem = Reserved
        PROVE  Cardinality({t \in Threads : /\ ProcOf[t] = p /\ call[t].slot = i
                                            /\ pc[t] \in InOpen}) = 1
    <3>1. PICK u \in Threads : ProcOf[u] = p /\ pc[u] \in InOpen /\ call[u].slot = i
      BY <2>1 DEF IInv, Reservations
    <3>2. {t \in Threads : ProcOf[t] = p /\ call[t].slot = i /\ pc[t] \in InOpen} = {u}
      BY <3>1 DEF IInv, Reservations
    <3> QED
      BY <3>2, FS_Singleton
  <2>2. \A a \in Addrs : maps[p][a] # NoInode =>
          \/ handles[p][a] > 0
          \/ \E t \in Threads : ProcOf[t] = p /\ pc[t] \in {"publish", "unmap"} /\ call[t].addr = a
    BY DEF IInv, MappingsAreOwned, InHand
  <2> QED
    BY <2>1, <2>2
<1> QED
  BY <1>1, NamedSemInvariant, PTL

=============================================================================
