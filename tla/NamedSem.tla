------------------------------ MODULE NamedSem ------------------------------
(***************************************************************************)
(* libc-extra/src/semaphore.c: named semaphores as mapped files.           *)
(*                                                                         *)
(* Each process has a table `semtab' of the semaphores it has open, under  *)
(* a mutex; processes meet in the directory of the semaphore files.  A     *)
(* section between LOCK and UNLOCK is one step, every system call outside  *)
(* of one is a step of its own.  A path is a member of Names: the mapping  *)
(* from a caller's name (__sem_mapname) only decides whether there is one. *)
(* The contents of the files are left out.                                 *)
(***************************************************************************)
EXTENDS Integers, FiniteSets, FiniteSetsExt

CONSTANTS Procs, Threads,
          ProcOf,       \* the process of each thread
          Names, Inodes, Addrs,
          NSems,        \* SEM_NSEMS_MAX
          MaxRefs,      \* INT_MAX
          MaxHandles,   \* bound: handles a process holds or is getting
          Faults,       \* the system calls that may fail for no reason seen here
          NoInode, Null, Reserved

ASSUME NamedSemAssumption ==
  /\ ProcOf \in [Threads -> Procs]
  /\ NSems \in Nat \ {0}
  /\ MaxRefs \in Nat /\ MaxHandles \in Nat
  /\ NoInode \notin Inodes
  /\ Null \notin Addrs /\ Reserved \notin Addrs /\ Null # Reserved
  /\ Faults \subseteq {"calloc", "sem_init", "open", "write", "mmap"}

VARIABLES dir,      \* the inode of each name, or NoInode
          semtab,   \* the table of each process; empty before the first call
          maps,     \* what each process has mapped at each address
          handles,  \* how many successful opens of an address are not closed
          pc,       \* where each thread is
          call,     \* the arguments and locals of its sem_open or sem_close
          ret       \* the last outcome each thread got

vars == <<dir, semtab, maps, handles, pc, call, ret>>
memory == <<semtab, maps, handles>>

Slots == 0..NSems - 1
FreeEntry == [sem |-> Null, ino |-> NoInode, refcnt |-> 0]
NewTable == [i \in Slots |-> FreeEntry]
NoTable == [i \in {} |-> FreeEntry]

Flags == SUBSET {"O_CREAT", "O_EXCL"}

(***************************************************************************)
(* A call under way: `slot' and `addr' (map, or sem_close's argument) are  *)
(* locals of the code, `file' is the inode behind fd.                      *)
(***************************************************************************)
NoCall == [name |-> Null, flags |-> {}, slot |-> 0, file |-> NoInode,
           addr |-> Null]

Init ==
  /\ dir = [n \in Names |-> NoInode]
  /\ semtab = [p \in Procs |-> NoTable]
  /\ maps = [p \in Procs |-> [a \in Addrs |-> NoInode]]
  /\ handles = [p \in Procs |-> [a \in Addrs |-> 0]]
  /\ pc = [t \in Threads |-> "idle"]
  /\ call = [t \in Threads |-> NoCall]
  /\ ret = [t \in Threads |-> "none"]

Goto(t, l) == pc' = [pc EXCEPT ![t] = l]

Outcome(t, r) == ret' = [ret EXCEPT ![t] = r]

SetFile(t, i) == call' = [call EXCEPT ![t].file = i]

Return(t) ==
  /\ Goto(t, "idle")
  /\ call' = [call EXCEPT ![t] = NoCall]

\* goto fail, with errno r
Fail(t, r) == Goto(t, "fail") /\ Outcome(t, r)

InOpen == {"open", "existing", "create", "write", "map", "undo", "publish", "fail"}

-----------------------------------------------------------------------------
(* The table                                                               *)

References(p) == MapThenSumSet(LAMBDA i : semtab[p][i].refcnt, DOMAIN semtab[p])

FreeSlots(p) == {i \in DOMAIN semtab[p] : semtab[p][i].sem = Null}

SetEntry(p, i, e) == semtab' = [semtab EXCEPT ![p][i] = e]

\* The inodes a file system may not give to a new file: those with a name, an
\* open descriptor or a mapping.
InodesInUse ==
  {dir[n] : n \in Names} \cup {call[t].file : t \in Threads}
    \cup UNION {{maps[p][a] : a \in Addrs} : p \in Procs}

FreeAddrs(p) == {a \in Addrs : maps[p][a] = NoInode}

\* What a client may still ask for within the bound.
Demand(p) == MapThenSumSet(LAMBDA a : handles[p][a], Addrs)
               + Cardinality({t \in Threads : ProcOf[t] = p /\ pc[t] \in InOpen})

-----------------------------------------------------------------------------
(* sem_open: reserve a slot                                                *)

CannotReserve(p) == References(p) = MaxRefs \/ FreeSlots(p) = {}

\* The first call of a process allocates its table.
SemOpen(t) ==
  LET p == ProcOf[t]
      table == IF semtab[p] = NoTable THEN NewTable ELSE semtab[p]
      free == {i \in Slots : table[i].sem = Null}
  IN
  /\ pc[t] = "idle"
  /\ Demand(p) < MaxHandles
  /\ \/ /\ semtab[p] # NoTable /\ CannotReserve(p)
        /\ Outcome(t, "EMFILE")
        /\ UNCHANGED <<semtab, pc, call>>
     \/ /\ semtab[p] = NoTable \/ ~CannotReserve(p)
        /\ semtab' = [semtab EXCEPT ![p] =
                        [table EXCEPT ![Min(free)].sem = Reserved]]
        /\ \E n \in Names, f \in Flags :
             call' = [call EXCEPT ![t] =
                        [NoCall EXCEPT !.name = n, !.flags = f, !.slot = Min(free)]]
        /\ Goto(t, "open")
        /\ Outcome(t, "none")
  /\ UNCHANGED <<dir, maps, handles>>

SemOpenNoTable(t) ==
  /\ pc[t] = "idle"
  /\ "calloc" \in Faults
  /\ semtab[ProcOf[t]] = NoTable
  /\ Outcome(t, "ENOMEM")
  /\ UNCHANGED <<dir, memory, pc, call>>

-----------------------------------------------------------------------------
(* sem_open: get a file descriptor                                         *)

Exists(t) == dir[call[t].name] # NoInode

\* The switch on the flags.  With O_CREAT alone, access decides between opening
\* and creating; the file may appear or vanish before the next step.
OpenDispatch(t) ==
  /\ pc[t] = "open"
  /\ CASE call[t].flags = {} -> Goto(t, "existing") /\ UNCHANGED ret
       [] call[t].flags = {"O_CREAT"} ->
            Goto(t, IF Exists(t) THEN "existing" ELSE "create") /\ UNCHANGED ret
       [] call[t].flags = {"O_CREAT", "O_EXCL"} ->
            Goto(t, "create") /\ UNCHANGED ret
       [] call[t].flags = {"O_EXCL"} -> Fail(t, "EINVAL")
  /\ UNCHANGED <<dir, memory, call>>

OpenExisting(t) ==
  /\ pc[t] = "existing"
  /\ \/ /\ Exists(t)
        /\ SetFile(t, dir[call[t].name])
        /\ Goto(t, "map")
        /\ UNCHANGED ret
     \/ /\ ~Exists(t)
        /\ Fail(t, "ENOENT")
        /\ UNCHANGED call
     \/ /\ "open" \in Faults
        /\ Fail(t, "EACCES")
        /\ UNCHANGED call
  /\ UNCHANGED <<dir, memory>>

\* sem_init of the local copy, then open with O_CREAT and O_EXCL.  A new file has
\* a new inode and is empty.
Create(t) ==
  /\ pc[t] = "create"
  /\ \/ /\ ~Exists(t)
        /\ \E i \in Inodes \ InodesInUse :
             /\ dir' = [dir EXCEPT ![call[t].name] = i]
             /\ SetFile(t, i)
        /\ Goto(t, "write")
        /\ UNCHANGED ret
     \/ /\ Exists(t)
        /\ Fail(t, "EEXIST")
        /\ UNCHANGED <<dir, call>>
     \/ /\ Faults \cap {"sem_init", "open"} # {}
        /\ Fail(t, "EACCES")
        /\ UNCHANGED <<dir, call>>
  /\ UNCHANGED memory

\* A failed write is followed by close and unlink.
Write(t) ==
  /\ pc[t] = "write"
  /\ \/ /\ Goto(t, "map")
        /\ UNCHANGED call
     \/ /\ "write" \in Faults
        /\ Goto(t, "undo")
        /\ SetFile(t, NoInode)
  /\ UNCHANGED <<dir, memory, ret>>

-----------------------------------------------------------------------------
(* sem_open: map the file and enter it in the table                        *)

\* After fstat and mmap, or one of them failing, the descriptor is closed; the
\* mapping keeps the inode alive.
Map(t) ==
  /\ pc[t] = "map"
  /\ \/ \E a \in FreeAddrs(ProcOf[t]) :
          /\ maps' = [maps EXCEPT ![ProcOf[t]][a] = call[t].file]
          /\ call' = [call EXCEPT ![t].addr = a, ![t].file = NoInode]
          /\ Goto(t, "publish")
     \/ /\ "mmap" \in Faults
        /\ Goto(t, "undo")
        /\ SetFile(t, NoInode)
        /\ UNCHANGED maps
  /\ UNCHANGED <<dir, semtab, handles, ret>>

\* unlink(name) on a failure path, then goto fail
Undo(t) ==
  /\ pc[t] = "undo"
  /\ dir' = [dir EXCEPT ![call[t].name] = NoInode]
  /\ Fail(t, "EIO")
  /\ UNCHANGED <<memory, call>>

NeverTheSame(e, inode) == FALSE

SameSemaphore(e, inode) == e.ino = inode

KeepReservation(table, i) == table

GiveBack(table, i) == [table EXCEPT ![i].sem = Null]

\* Under the lock: a semaphore that is mapped already is used in place of the
\* new mapping.
Publish(t) ==
  LET p == ProcOf[t]
      inode == maps[p][call[t].addr]
      same == {i \in Slots : SameSemaphore(semtab[p][i], inode)}
      i == IF same = {} THEN call[t].slot ELSE Min(same)
      a == IF same = {} THEN call[t].addr ELSE semtab[p][i].sem
      released == IF same = {} THEN semtab[p]
                  ELSE GiveBack(semtab[p], call[t].slot)
  IN
  /\ pc[t] = "publish"
  /\ semtab' = [semtab EXCEPT ![p] =
       [released EXCEPT ![i] =
          [sem |-> a, ino |-> inode, refcnt |-> released[i].refcnt + 1]]]
  /\ maps' = IF same = {} THEN maps ELSE [maps EXCEPT ![p][call[t].addr] = NoInode]
  /\ handles' = [handles EXCEPT ![p][a] = @ + 1]
  /\ Return(t)
  /\ Outcome(t, "ok")
  /\ UNCHANGED dir

OpenFails(t) ==
  /\ pc[t] = "fail"
  /\ semtab' = [semtab EXCEPT ![ProcOf[t]] = GiveBack(@, call[t].slot)]
  /\ Return(t)
  /\ UNCHANGED <<dir, maps, handles, ret>>

-----------------------------------------------------------------------------
(* sem_close, sem_unlink                                                   *)

LastButOneReference(n) == n <= 1

LastReference(n) == n = 0

\* A client closes a handle it holds; the last one gives up the slot at once and
\* unmaps after the unlock.
SemClose(t) ==
  LET p == ProcOf[t] IN
  /\ pc[t] = "idle"
  /\ \E a \in Addrs :
       /\ handles[p][a] > 0
       /\ handles' = [handles EXCEPT ![p][a] = @ - 1]
       /\ \E i \in Slots :
            /\ semtab[p][i].sem = a
            /\ \A j \in Slots : semtab[p][j].sem = a => i <= j
            /\ IF LastReference(semtab[p][i].refcnt - 1)
                 THEN /\ SetEntry(p, i, FreeEntry)
                      /\ call' = [call EXCEPT ![t].addr = a]
                      /\ Goto(t, "unmap")
                 ELSE /\ SetEntry(p, i, [semtab[p][i] EXCEPT !.refcnt = @ - 1])
                      /\ UNCHANGED <<pc, call>>
  /\ Outcome(t, "ok")
  /\ UNCHANGED <<dir, maps>>

Unmap(t) ==
  /\ pc[t] = "unmap"
  /\ maps' = [maps EXCEPT ![ProcOf[t]][call[t].addr] = NoInode]
  /\ Return(t)
  /\ UNCHANGED <<dir, semtab, handles, ret>>

\* An address that is in no slot, or a call before the first sem_open.
SemCloseUnknown(t) ==
  /\ pc[t] = "idle"
  /\ \E a \in Addrs : \A i \in DOMAIN semtab[ProcOf[t]] : semtab[ProcOf[t]][i].sem # a
  /\ Outcome(t, "EINVAL")
  /\ UNCHANGED <<dir, memory, pc, call>>

SemUnlink(t) ==
  /\ pc[t] = "idle"
  /\ \E n \in Names :
       /\ dir' = [dir EXCEPT ![n] = NoInode]
       /\ Outcome(t, IF dir[n] = NoInode THEN "ENOENT" ELSE "ok")
  /\ UNCHANGED <<memory, pc, call>>

-----------------------------------------------------------------------------

Next == \E t \in Threads :
  \/ SemOpen(t) \/ SemOpenNoTable(t) \/ OpenDispatch(t) \/ OpenExisting(t)
  \/ Create(t) \/ Write(t) \/ Map(t) \/ Undo(t) \/ Publish(t) \/ OpenFails(t)
  \/ SemClose(t) \/ Unmap(t) \/ SemCloseUnknown(t) \/ SemUnlink(t)

Spec == Init /\ [][Next]_vars

-----------------------------------------------------------------------------

Entries(p) == {semtab[p][i] : i \in DOMAIN semtab[p]}

\* A handle a client holds is in the table, counted exactly, and mapped to the
\* inode of its slot, whatever other threads open, close or unlink meanwhile: a
\* close never unmaps a semaphore somebody still uses.
HandlesAreMapped ==
  \A p \in Procs, a \in Addrs : handles[p][a] > 0 =>
    \E i \in DOMAIN semtab[p] :
      /\ semtab[p][i] = [sem |-> a, ino |-> maps[p][a], refcnt |-> handles[p][a]]
      /\ maps[p][a] # NoInode
      /\ \A t \in Threads : ProcOf[t] = p /\ pc[t] \in {"publish", "unmap"} => call[t].addr # a

\* Two opens of the same semaphore in one process get the same address.
OneAddressPerSemaphore ==
  \A p \in Procs : \A a, b \in Addrs :
    handles[p][a] > 0 /\ handles[p][b] > 0 /\ maps[p][a] = maps[p][b] => a = b

\* Every slot is free, reserved by exactly one open under way, or in use; every
\* mapping is in a slot or in the hands of one thread.  No outcome of an open
\* leaks a slot or a mapping.
NothingLeaks ==
  \A p \in Procs :
    /\ \A i \in DOMAIN semtab[p] : semtab[p][i].sem = Reserved =>
         Cardinality({t \in Threads : /\ ProcOf[t] = p /\ call[t].slot = i
                                      /\ pc[t] \in InOpen}) = 1
    /\ \A a \in Addrs : maps[p][a] # NoInode =>
         \/ handles[p][a] > 0
         \/ \E t \in Threads : ProcOf[t] = p /\ pc[t] \in {"publish", "unmap"} /\ call[t].addr = a

\* What the code does not do, and no run checks: O_CREAT alone opens the semaphore
\* if it exists (the comment at lines 146-148), so that it never fails because it does.
CreatAcceptsExisting ==
  \A t \in Threads : pc[t] = "fail" /\ call[t].flags = {"O_CREAT"} => ret[t] # "EEXIST"

=============================================================================
