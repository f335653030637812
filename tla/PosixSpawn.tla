----------------------------- MODULE PosixSpawn -----------------------------
(***************************************************************************)
(* libc-extra/src/posix_spawn.cpp: the attributes, the list of file        *)
(* actions, and posix_spawn itself: what the caller does around fork or    *)
(* vfork, and what the child does until it executes another program.       *)
(*                                                                         *)
(* Each system call of the child is a step.  A child of fork works on a    *)
(* copy of the list; a child of vfork works on the caller's own list while *)
(* the calling thread is suspended, and the other threads run on.  The     *)
(* descriptor table, the signal mask and the dispositions are the child's  *)
(* own in both cases.  Close-on-exec and the return values are left out.   *)
(***************************************************************************)
EXTENDS Integers, Sequences

CONSTANTS Threads,
          NSIG,            \* the signals are 1 .. NSIG - 1
          OPEN_MAX,        \* the descriptors are 0 .. OPEN_MAX - 1
          Files,           \* what a descriptor may stand for
          Tables,          \* the descriptors the caller may have when it forks
          Actions,         \* the file actions the clients add
          FlagSets,        \* the flags they set
          Masks, Defaults, \* the signal sets they put in the attributes
          ThreadMasks,     \* the signal masks the threads may have
          Dispositions,    \* what they may have done with each signal
          MaxActions,      \* bound: the length of a list
          Null

Signals == 1..NSIG - 1
Fds == 0..OPEN_MAX - 1
Flags == {"USEVFORK", "SETSIGDEF", "SETSIGMASK", "SETPGROUP"}
Handlers == {"SIG_DFL", "SIG_IGN", "caught"}

FdTables == [Fds -> Files \cup {Null}]

\* The actions that the add functions accept and that open, close and dup2 leave
\* behind: a negative descriptor is EBADF, and of an open fd is -1 at first.
FileActions ==
  [what : {"kOpen"}, fd : Fds \cup {-1}, new_fd : Fds, path : Files]
    \cup [what : {"kClose"}, fd : Fds, new_fd : {-1}, path : {Null}]
    \cup [what : {"kDup2"}, fd : Fds, new_fd : Fds, path : {Null}]

ASSUME PosixSpawnAssumption ==
  /\ NSIG \in Nat \ {0} /\ OPEN_MAX \in Nat \ {0} /\ MaxActions \in Nat
  /\ Null \notin Files /\ Null \notin FdTables /\ Null \notin Seq(FileActions)
  /\ Tables \subseteq FdTables
  /\ Actions \subseteq FileActions
  /\ FlagSets \subseteq SUBSET Flags
  /\ Masks \subseteq SUBSET Signals /\ Defaults \subseteq SUBSET Signals
  /\ ThreadMasks \subseteq SUBSET Signals
  /\ Dispositions \subseteq [Signals -> Handlers]

VARIABLES attr,      \* flags, sigmask and sigdefault of *attr (no attr: no flags)
          actions,   \* the list, or Null
          handlers,  \* the dispositions of the caller's process
          mask,      \* the signal mask of each thread
          old_set,   \* ssb.old_set_ of its call
          pc,        \* where each thread is in posix_spawn
          child      \* its child

vars == <<attr, actions, handlers, mask, old_set, pc, child>>

objects == <<attr, actions, handlers>>
caller == <<mask, old_set, pc>>

(***************************************************************************)
(* A child: `at' is where it is or how it ended, `s' ApplyAttrs's counter, *)
(* `n' the index of the file action, `list' its copy of the list,          *)
(* `inherited' the descriptors it started with, and `overlapped' whether   *)
(* another child has run on the caller's list at the same time.            *)
(***************************************************************************)
Ended == {"exec", "exit"}
Running == {"attrs", "file", "move", "last"}

NoFile == [d \in Fds |-> Null]

NoChild == [at |-> "none", vforked |-> FALSE, s |-> 1, n |-> 1, list |-> Null,
            mask |-> {}, handlers |-> [s \in Signals |-> "SIG_DFL"],
            inherited |-> NoFile, fds |-> NoFile, overlapped |-> FALSE]

Init ==
  /\ attr = [flags |-> {}, sigmask |-> {}, sigdefault |-> {}]
  /\ actions = Null
  /\ handlers \in Dispositions
  /\ \E m \in ThreadMasks : mask = [t \in Threads |-> m]   \* inherited by every thread
  /\ old_set = [t \in Threads |-> {}]
  /\ pc = [t \in Threads |-> "idle"]
  /\ child = [t \in Threads |-> NoChild]

Goto(t, l) == pc' = [pc EXCEPT ![t] = l]

-----------------------------------------------------------------------------
(* The attributes and the list.  The clients change them only while no     *)
(* call and no child uses them.                                            *)

Quiet == \A t \in Threads : pc[t] = "idle" /\ child[t].at = "none"

\* posix_spawnattr_setflags, setsigmask and setsigdefault
SetAttr ==
  /\ Quiet
  /\ \E flags \in FlagSets, m \in Masks, d \in Defaults :
       attr' \in {[attr EXCEPT !.flags = flags], [attr EXCEPT !.sigmask = m],
                  [attr EXCEPT !.sigdefault = d]}
  /\ UNCHANGED <<actions, handlers, caller, child>>

\* posix_spawn_file_actions_init
ActionsInit ==
  /\ Quiet
  /\ actions = Null
  /\ actions' = <<>>
  /\ UNCHANGED <<attr, handlers, caller, child>>

\* posix_spawn_file_actions_addopen, addclose and adddup2
AddFileAction ==
  /\ Quiet
  /\ actions # Null
  /\ Len(actions) < MaxActions
  /\ \E a \in Actions : actions' = Append(actions, a)
  /\ UNCHANGED <<attr, handlers, caller, child>>

\* posix_spawn_file_actions_destroy
ActionsDestroy ==
  /\ Quiet
  /\ actions # Null
  /\ actions' = Null
  /\ UNCHANGED <<attr, handlers, caller, child>>

-----------------------------------------------------------------------------
(* posix_spawn in the caller                                               *)

BlockNone(m) == m

BlockAll(m) == Signals

UseVfork == "USEVFORK" \in attr.flags \/ (actions = Null /\ attr.flags = {})

\* The constructor of the ScopedSignalBlocker.
SpawnCall(t) ==
  /\ pc[t] = "idle"
  /\ child[t].at = "none"
  /\ old_set' = [old_set EXCEPT ![t] = mask[t]]
  /\ mask' = [mask EXCEPT ![t] = BlockAll(@)]
  /\ Goto(t, "fork")
  /\ UNCHANGED <<objects, child>>

\* The other children that run on the caller's list.
Beside(t) == {u \in Threads \ {t} : child[u].vforked /\ child[u].at \in Running}

NewChild(t, table) ==
  [NoChild EXCEPT !.at = "attrs", !.vforked = UseVfork, !.mask = mask[t],
                  !.handlers = handlers, !.inherited = table, !.fds = table,
                  !.list = IF UseVfork THEN Null ELSE actions,
                  !.overlapped = UseVfork /\ Beside(t) # {}]

Fork(t) ==
  /\ pc[t] = "fork"
  /\ \E table \in Tables :
       child' = [u \in Threads |->
         IF u = t THEN NewChild(t, table)
         ELSE [child[u] EXCEPT !.overlapped = @ \/ (UseVfork /\ u \in Beside(t))]]
  /\ Goto(t, IF UseVfork THEN "suspended" ELSE "return")
  /\ UNCHANGED <<objects, mask, old_set>>

\* The call returns errno, and there is no child.
ForkFails(t) ==
  /\ pc[t] = "fork"
  /\ Goto(t, "return")
  /\ UNCHANGED <<objects, mask, old_set, child>>

\* vfork returns in the caller when the child has executed or exited.
Resume(t) ==
  /\ pc[t] = "suspended"
  /\ child[t].at \in Ended
  /\ Goto(t, "return")
  /\ UNCHANGED <<objects, mask, old_set, child>>

\* The destructor of the ScopedSignalBlocker.
Return(t) ==
  /\ pc[t] = "return"
  /\ mask' = [mask EXCEPT ![t] = old_set[t]]
  /\ Goto(t, "idle")
  /\ UNCHANGED <<objects, old_set, child>>

\* The client waits for its child.
Reap(t) ==
  /\ pc[t] = "idle"
  /\ child[t].at \in Ended
  /\ child' = [child EXCEPT ![t] = NoChild]
  /\ UNCHANGED <<objects, caller>>

-----------------------------------------------------------------------------
(* ApplyAttrs in the child                                                 *)

Exit(t) == child' = [child EXCEPT ![t].at = "exit"]

SigDefault == IF "SETSIGDEF" \in attr.flags THEN attr.sigdefault ELSE {}

MustReset(t, s) == s \in SigDefault \/ child[t].handlers[s] = "caught"

\* sigaction may fail, as for a signal that cannot be caught.
ResetHandler(t) ==
  LET s == child[t].s IN
  /\ child[t].at = "attrs"
  /\ s \in Signals
  /\ \/ child' = [child EXCEPT ![t].handlers[s] = IF MustReset(t, s) THEN "SIG_DFL" ELSE @,
                               ![t].s = s + 1]
     \/ Exit(t)
  /\ UNCHANGED <<objects, caller>>

\* The process group, the session, the scheduler and the ids ("SETPGROUP" stands
\* for their flags) may fail; the signal mask comes last.
ApplyRest(t) ==
  /\ child[t].at = "attrs"
  /\ child[t].s \notin Signals
  /\ \/ child' = [child EXCEPT ![t].mask = IF "SETSIGMASK" \in attr.flags
                                             THEN attr.sigmask ELSE @,
                               ![t].at = "file"]
     \/ "SETPGROUP" \in attr.flags /\ Exit(t)
  /\ UNCHANGED <<objects, caller>>

-----------------------------------------------------------------------------
(* The file actions in the child                                           *)

List(t) == IF child[t].vforked THEN actions ELSE child[t].list

HasAction(t) == List(t) # Null /\ child[t].n \in DOMAIN List(t)

Action(t) == List(t)[child[t].n]

SameIndex(n) == n

NextIndex(n) == n + 1

\* The action is done and leaves the table fds.
Done(t, fds) ==
  child' = [child EXCEPT ![t].fds = fds, ![t].n = NextIndex(@), ![t].at = "file"]

DoClose(t) ==
  /\ child[t].at = "file" /\ HasAction(t)
  /\ Action(t).what = "kClose"
  /\ Done(t, [child[t].fds EXCEPT ![Action(t).fd] = Null])
  /\ UNCHANGED <<objects, caller>>

DoDup2(t) ==
  LET fds == child[t].fds IN
  /\ child[t].at = "file" /\ HasAction(t)
  /\ Action(t).what = "kDup2"
  /\ IF fds[Action(t).fd] = Null
       THEN Exit(t)
       ELSE Done(t, [fds EXCEPT ![Action(t).new_fd] = fds[Action(t).fd]])
  /\ UNCHANGED <<objects, caller>>

Free(fds) == {d \in Fds : fds[d] = Null}

Lowest(D) == CHOOSE d \in D : \A e \in D : d <= e

\* The number of the new descriptor is stored in the list.
StoreFd(t, fd) ==
  IF child[t].vforked
    THEN /\ actions' = [actions EXCEPT ![child[t].n].fd = fd]
         /\ child' = [child EXCEPT ![t].fds[fd] = Action(t).path, ![t].at = "move"]
    ELSE /\ child' = [child EXCEPT ![t].fds[fd] = Action(t).path, ![t].at = "move",
                                   ![t].list = [@ EXCEPT ![child[t].n].fd = fd]]
         /\ UNCHANGED actions

DoOpen(t) ==
  /\ child[t].at = "file" /\ HasAction(t)
  /\ Action(t).what = "kOpen"
  /\ \/ Free(child[t].fds) # {} /\ StoreFd(t, Lowest(Free(child[t].fds)))
     \/ Exit(t) /\ UNCHANGED actions      \* no such file, no free descriptor
  /\ UNCHANGED <<attr, handlers, caller>>

MovedNotClosed(fds, fd, new_fd) == [fds EXCEPT ![new_fd] = fds[fd]]

Moved(fds, fd, new_fd) == [fds EXCEPT ![new_fd] = fds[fd], ![fd] = Null]

\* If it did not land where it was wanted, it is moved there.
DoMove(t) ==
  LET fds == child[t].fds
      fd == Action(t).fd
      new_fd == Action(t).new_fd
  IN
  /\ child[t].at = "move"
  /\ CASE fd = new_fd -> Done(t, fds)
       [] fd # new_fd /\ fds[fd] = Null -> Exit(t)
       [] OTHER -> Done(t, Moved(fds, fd, new_fd))
  /\ UNCHANGED <<objects, caller>>

\* The end of the list: the mask of the caller comes back unless another one was
\* asked for.
RestoreMask(t) ==
  /\ child[t].at = "file" /\ ~HasAction(t)
  /\ child' = [child EXCEPT ![t].at = "last",
                            ![t].mask = IF "SETSIGMASK" \in attr.flags THEN @ ELSE old_set[t]]
  /\ UNCHANGED <<objects, caller>>

\* exec_fn, and _exit(127) if it returns
Exec(t) ==
  /\ child[t].at = "last"
  /\ \/ child' = [child EXCEPT ![t].at = "exec"]
     \/ Exit(t)
  /\ UNCHANGED <<objects, caller>>

-----------------------------------------------------------------------------

Caller(t) == SpawnCall(t) \/ Fork(t) \/ ForkFails(t) \/ Resume(t) \/ Return(t) \/ Reap(t)

Child(t) ==
  \/ ResetHandler(t) \/ ApplyRest(t)
  \/ DoClose(t) \/ DoDup2(t) \/ DoOpen(t) \/ DoMove(t)
  \/ RestoreMask(t) \/ Exec(t)

Clients == SetAttr \/ ActionsInit \/ AddFileAction \/ ActionsDestroy

Next == Clients \/ \E t \in Threads : Caller(t) \/ Child(t)

Spec == Init /\ [][Next]_vars

\* A thread inside posix_spawn runs, and so does a child.
FairSpec ==
  /\ Spec
  /\ \A t \in Threads : /\ WF_vars(Fork(t) \/ ForkFails(t) \/ Resume(t) \/ Return(t))
                        /\ WF_vars(Child(t))

-----------------------------------------------------------------------------

\* No signal can run a handler of the caller in the child, which after vfork would
\* run on the caller's memory: a caught signal is blocked until it is reset.
NoHandlerInChild ==
  \A t \in Threads : child[t].at \in Running =>
    \A s \in Signals : child[t].handlers[s] = "caught" => s \in child[t].mask

\* The inductive strengthening: all is blocked from before the fork until the last
\* disposition is reset, and ApplyAttrs is done with the signals below `s'.
HandlersGone(t, bound) ==
  \A s \in Signals : s < bound => child[t].handlers[s] # "caught"

Guarded(t) ==
  /\ pc[t] = "fork" => mask[t] = Signals
  /\ child[t].at = "attrs" =>
       child[t].s \in 1..NSIG /\ child[t].mask = Signals /\ HandlersGone(t, child[t].s)
  /\ child[t].at \in Running \ {"attrs"} => HandlersGone(t, NSIG)

BlockedUntilReset == \A t \in Threads : Guarded(t)

(***************************************************************************)
(* The descriptors that a list of actions asks for: each action in turn    *)
(* on the table the ones before it left.                                   *)
(***************************************************************************)
Perform(fds, a) ==
  CASE fds = Null                                  -> Null
    [] fds # Null /\ a.what = "kClose"             -> [fds EXCEPT ![a.fd] = Null]
    [] fds # Null /\ a.what = "kDup2"              ->
         IF fds[a.fd] = Null THEN Null ELSE [fds EXCEPT ![a.new_fd] = fds[a.fd]]
    [] fds # Null /\ a.what = "kOpen"              ->
         [fds EXCEPT ![a.new_fd] = a.path]

\* The tables that the first 0, 1, 2, ... actions of a list leave.
TablesOf(table, list) ==
  LET left[n \in 0..Len(list)] ==
        IF n = 0 THEN table ELSE Perform(left[n - 1], list[n])
  IN  left

Wanted(table) == IF actions = Null THEN table ELSE TablesOf(table, actions)[Len(actions)]

\* Two children of vfork worked on one list at the same time, and the list opens files.
SharedOpen(t) ==
  /\ child[t].overlapped
  /\ actions # Null
  /\ \E n \in DOMAIN actions : actions[n].what = "kOpen"

\* The program is executed with the mask and the dispositions that the caller asked
\* for: what is caught is not left to a program that has no handler.  And each time
\* the same list is used, by fork or vfork, with the descriptors asked for: none is
\* left over or missing.  The code gives the last only to a child that had a list
\* with an open in it to itself: the number of a descriptor that one child of vfork
\* opens is stored in the list (line 108), where another may read it (lines 110-113).
ImageAsAsked ==
  \A t \in Threads : child[t].at = "exec" =>
    /\ SharedOpen(t) \/ child[t].fds = Wanted(child[t].inherited)
    /\ child[t].mask = IF "SETSIGMASK" \in attr.flags THEN attr.sigmask ELSE old_set[t]
    /\ \A s \in Signals :
         child[t].handlers[s] = IF s \in SigDefault \/ handlers[s] = "caught"
                                  THEN "SIG_DFL" ELSE handlers[s]

\* A call returns, also when the child fails and never executes anything.
SpawnReturns == \A t \in Threads : pc[t] # "idle" ~> pc[t] = "idle"

=============================================================================
