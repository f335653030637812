------------------------------ MODULE IfAddrs ------------------------------
(***************************************************************************)
(* libc-extra/src/ifaddrs.c: getifaddrs asks the kernel over a netlink     *)
(* socket for its links and then for its addresses, keeps the replies in   *)
(* two lists, and turns them into the result list.                         *)
(*                                                                         *)
(* Several threads of one process may be in getifaddrs at once.  The       *)
(* kernel is external: the ports it gives to sockets, the dumps it sends   *)
(* in datagrams of any size, and interfaces that come and go meanwhile.    *)
(* Every link has one address.  A message is the index of its interface;   *)
(* what the attributes of an address say is looked at when it is           *)
(* interpreted.  The number in nlmsg_seq is the socket's, so that what     *)
(* arrives on a socket has the right one.  Labels, netmasks, flags and the *)
(* layout of an entry in memory are left out.                              *)
(***************************************************************************)
EXTENDS Integers, Sequences, SequencesExt, FiniteSets

CONSTANTS Threads,
          LastIndex,    \* bound: interface indices go from 1 to LastIndex
          Ports, Pid,   \* what nl_pid of a socket may be; the process id is one
          NoPort,
          FirstSize,    \* how many messages fit into the first buffer of 4096
          MaxReply,     \* bound: messages in one datagram
          MaxChanges,   \* bound: how often an interface comes or goes
          Failing       \* the calls that may fail

ASSUME IfAddrsAssumption ==
  /\ LastIndex \in Nat /\ FirstSize \in Nat \ {0}
  /\ MaxReply \in Nat \ {0} /\ MaxChanges \in Nat
  /\ Pid \in Ports /\ NoPort \notin Ports

VARIABLES up,        \* the kernel's interfaces
          changes,   \* how often they changed
          cursor,    \* per socket: where its dump is, 0 if none is running
          queue,     \* per socket: datagrams not received yet
          port,      \* per thread: nl_pid of its socket, or NoPort
          pc,
          phase,     \* which request is on its way
          size,      \* l_size of getNetlinkResponse
          replies,   \* the two NetlinkLists, as the messages in them
          ifap,      \* *ifap, a list of entries
          ret,
          stable,    \* history: the interfaces that were there since the call began
          seen,      \* history: those that were there at some time since then
          cut,       \* history: a reply of this call was truncated
          lost       \* history: how many replies of this call nothing points to

vars == <<up, changes, cursor, queue, port, pc, phase, size, replies, ifap, ret,
          stable, seen, cut, lost>>

kernel == <<up, changes>>
socket == <<cursor, queue, port>>
history == <<stable, seen, cut, lost>>

Indices == 1..LastIndex
NoReplies == [link |-> <<>>, addr |-> <<>>]

Init ==
  /\ up \in SUBSET Indices
  /\ changes = 0
  /\ cursor = [t \in Threads |-> 0]
  /\ queue = [t \in Threads |-> <<>>]
  /\ port = [t \in Threads |-> NoPort]
  /\ pc = [t \in Threads |-> "idle"]
  /\ phase = [t \in Threads |-> "link"]
  /\ size = [t \in Threads |-> FirstSize]
  /\ replies = [t \in Threads |-> NoReplies]
  /\ ifap = [t \in Threads |-> <<>>]
  /\ ret = [t \in Threads |-> "none"]
  /\ stable = [t \in Threads |-> {}]
  /\ seen = [t \in Threads |-> {}]
  /\ cut = [t \in Threads |-> FALSE]
  /\ lost = [t \in Threads |-> 0]

Goto(t, l) == pc' = [pc EXCEPT ![t] = l]

-----------------------------------------------------------------------------
(* The kernel                                                              *)

Change(i) ==
  /\ changes < MaxChanges
  /\ changes' = changes + 1
  /\ up' = IF i \in up THEN up \ {i} ELSE up \cup {i}
  /\ stable' = [t \in Threads |-> stable[t] \cap up']
  /\ seen' = [t \in Threads |-> IF pc[t] = "idle" THEN seen[t] ELSE seen[t] \cup up']
  /\ UNCHANGED <<socket, pc, phase, size, replies, ifap, ret, cut, lost>>

Datagram(msgs, done) == [msgs |-> msgs, done |-> done]

Ascending(s) == \A j, k \in DOMAIN s : j < k => s[j] < s[k]

Parts == UNION {[1..n -> Indices] : n \in 0..MaxReply}

\* The next part of a dump: interfaces in the order of their indices, as they are
\* now.  NLMSG_DONE comes with the last of them or in a datagram of its own.
Fill(t) ==
  /\ cursor[t] # 0 /\ queue[t] = <<>>
  /\ \E next \in cursor[t]..LastIndex + 1, part \in Parts, done \in BOOLEAN :
       /\ Ascending(part) /\ ToSet(part) = {i \in up : i \in cursor[t]..next - 1}
       /\ IF done THEN next = LastIndex + 1 ELSE part # <<>>
       /\ queue' = [queue EXCEPT ![t] = Append(@, Datagram(part, done))]
       /\ cursor' = [cursor EXCEPT ![t] = IF done THEN 0 ELSE next]
  /\ UNCHANGED <<kernel, port, pc, phase, size, replies, ifap, ret, history>>

FreePorts == Ports \ {port[t] : t \in Threads}

\* bind with nl_pid 0: the process id if no other socket has it.
Autobind == IF Pid \in FreePorts THEN {Pid} ELSE FreePorts

-----------------------------------------------------------------------------
(* getifaddrs                                                              *)

Call(t) ==
  /\ pc[t] = "idle" /\ ret[t] = "none"
  /\ Goto(t, "socket")
  /\ ifap' = [ifap EXCEPT ![t] = <<>>]
  /\ stable' = [stable EXCEPT ![t] = up]
  /\ seen' = [seen EXCEPT ![t] = up]
  /\ UNCHANGED <<kernel, socket, phase, size, replies, ret, cut, lost>>

\* netlink_socket
Socket(t) ==
  /\ pc[t] = "socket"
  /\ \E p \in Autobind : port' = [port EXCEPT ![t] = p]
  /\ Goto(t, "send")
  /\ UNCHANGED <<kernel, cursor, queue, phase, size, replies, ifap, ret, history>>

\* netlink_send
Send(t) ==
  /\ pc[t] = "send"
  /\ cursor' = [cursor EXCEPT ![t] = 1]
  /\ size' = [size EXCEPT ![t] = FirstSize]
  /\ Goto(t, "recv")
  /\ UNCHANGED <<kernel, queue, port, phase, replies, ifap, ret, history>>

\* A message counts only if nlmsg_pid is the process id.
MineOnce(t) == port[t] = Pid /\ phase[t] = "link"

Mine(t) == port[t] = Pid

DoneOnly(d) == IF d.done THEN <<>> ELSE d.msgs

Kept(d) == d.msgs

\* getNetlinkResponse returns a reply, and getResultList puts it into its list.
\* The list ends at NLMSG_DONE; after the second list the socket is closed.
Receive(t) ==
  /\ pc[t] = "recv" /\ queue[t] # <<>>
  /\ LET d == Head(queue[t])
         ends == d.done /\ Mine(t)
     IN
     /\ Len(d.msgs) <= size[t]
     /\ replies' = [replies EXCEPT ![t][phase[t]] = @ \o Kept(d)]
     /\ phase' = [phase EXCEPT ![t] = IF ends THEN "addr" ELSE @]
     /\ Goto(t, CASE ~ends -> "recv"
                  [] ends /\ phase[t] = "link" -> "send"
                  [] OTHER -> "interpret")
  /\ size' = [size EXCEPT ![t] = FirstSize]
  /\ queue' = [queue EXCEPT ![t] = Tail(@)]
  /\ UNCHANGED <<kernel, cursor, port, ifap, ret, history>>

\* The buffer was too small: a larger one, and recvmsg again.  The reply is gone.
ReceiveTruncated(t) ==
  /\ pc[t] = "recv" /\ queue[t] # <<>>
  /\ Len(Head(queue[t]).msgs) > size[t]
  /\ size' = [size EXCEPT ![t] = 2 * @]
  /\ queue' = [queue EXCEPT ![t] = Tail(@)]
  /\ cut' = [cut EXCEPT ![t] = TRUE]
  /\ UNCHANGED <<kernel, cursor, port, pc, phase, replies, ifap, ret, stable, seen, lost>>

\* close, with what the kernel still has for the socket
Close(t) ==
  /\ port' = [port EXCEPT ![t] = NoPort]
  /\ cursor' = [cursor EXCEPT ![t] = 0]
  /\ queue' = [queue EXCEPT ![t] = <<>>]

\* netlink_socket returns -1 (it closes a socket that bind fails for).
SocketFails(t) ==
  /\ pc[t] = "socket" /\ "socket" \in Failing
  /\ Goto(t, "idle")
  /\ ret' = [ret EXCEPT ![t] = "-1"]
  /\ UNCHANGED <<kernel, socket, phase, size, replies, ifap, history>>

\* getResultList returns NULL, before there is a reply in its list.
SendFails(t) ==
  /\ pc[t] = "send" /\ "sendto" \in Failing
  /\ Goto(t, "nolist")
  /\ UNCHANGED <<kernel, socket, phase, size, replies, ifap, ret, history>>

\* freeResultList(l_list) in getResultList
FreesItsList(t) == replies' = [replies EXCEPT ![t][phase[t]] = <<>>]

\* recvmsg or malloc of the buffer fails, or the kernel answers with NLMSG_ERROR.
ReceiveFails(t) ==
  /\ pc[t] = "recv" /\ "recvmsg" \in Failing
  /\ FreesItsList(t)
  /\ size' = [size EXCEPT ![t] = FirstSize]
  /\ Goto(t, "nolist")
  /\ UNCHANGED <<kernel, socket, phase, ifap, ret, history>>

\* malloc fails for the list item of a reply.  The list is freed, the reply that has
\* just been received is in no list and is not.
ItemFails(t) ==
  /\ pc[t] = "recv" /\ queue[t] # <<>> /\ "item" \in Failing
  /\ Len(Head(queue[t]).msgs) <= size[t]
  /\ FreesItsList(t)
  /\ lost' = [lost EXCEPT ![t] = @ + 1]
  /\ size' = [size EXCEPT ![t] = FirstSize]
  /\ queue' = [queue EXCEPT ![t] = Tail(@)]
  /\ Goto(t, "nolist")
  /\ UNCHANGED <<kernel, cursor, port, phase, ifap, ret, stable, seen, cut>>

FreesNothing(t) == UNCHANGED replies

\* What getifaddrs frees if it has no list of addresses: that of the links.
FreesLinks(t) == replies' = [replies EXCEPT ![t].link = <<>>]

\* One of the lists is missing, and the call returns.
NoList(t) ==
  /\ pc[t] = "nolist"
  /\ Close(t)
  /\ IF phase[t] = "addr" THEN FreesLinks(t) ELSE UNCHANGED replies
  /\ phase' = [phase EXCEPT ![t] = "link"]
  /\ ret' = [ret EXCEPT ![t] = "-1"]
  /\ Goto(t, "idle")
  /\ UNCHANGED <<kernel, size, ifap, history>>

-----------------------------------------------------------------------------
(* interpretLinks and interpretAddrs                                       *)

\* The orders in which the kernel puts the attributes of an address.
Attributes == {<<"address">>, <<"local", "address">>, <<"address", "local">>,
               <<"address", "local", "broadcast">>}

OverwritesAddress(e) == [e EXCEPT !.addr = "local"]

MovesAddress(e) ==
  [e EXCEPT !.ifu = IF e.addr # "none" THEN e.addr ELSE @, !.addr = "local"]

\* ifa_dstaddr and ifa_broadaddr are one field of the entry (ifa_ifu).
Place(e, attribute) ==
  CASE attribute = "address" /\ e.addr = "none" -> [e EXCEPT !.addr = "address"]
    [] attribute = "address" /\ e.addr # "none" -> [e EXCEPT !.ifu = "address"]
    [] attribute = "local" -> MovesAddress(e)
    [] attribute = "broadcast" -> [e EXCEPT !.ifu = "broadcast"]

LinkEntry(i) ==
  [kind |-> "link", index |-> i, name |-> i, addr |-> "packet", ifu |-> "broadcast"]

\* findInterface looks at the first p_numLinks entries.
AllButLast(links) == {links[j] : j \in 1..Len(links) - 1}

Known(links) == {links[j] : j \in 1..Len(links)}

\* The entry of an address has the name of its link, or "" (0) if it is not known.
\* Its attributes are placed one after the other.
AddrEntry(links, i, attributes) ==
  LET entry[n \in 0..Len(attributes)] ==
        IF n = 0 THEN [kind |-> "addr", index |-> i, name |-> IF i \in Known(links) THEN i ELSE 0,
                       addr |-> "none", ifu |-> "none"]
        ELSE Place(entry[n - 1], attributes[n])
  IN entry[Len(attributes)]

Entries(links, addrs, attributes) ==
  [j \in 1..Len(links) |-> LinkEntry(links[j])]
    \o [j \in 1..Len(addrs) |-> AddrEntry(links, addrs[j], attributes)]

\* An entry for every message, or for the first n if malloc fails then.
Interpret(t) ==
  /\ pc[t] = "interpret"
  /\ \E attributes \in Attributes, n \in 0..2 * LastIndex :
       LET all == Entries(replies[t].link, replies[t].addr, attributes) IN
       \/ /\ n = Len(all)
          /\ ifap' = [ifap EXCEPT ![t] = all]
          /\ ret' = [ret EXCEPT ![t] = "0"]
       \/ /\ n < Len(all) /\ "entry" \in Failing
          /\ ifap' = [ifap EXCEPT ![t] = SubSeq(all, 1, n)]
          /\ ret' = [ret EXCEPT ![t] = "-1"]
  /\ Goto(t, "finish")
  /\ UNCHANGED <<kernel, socket, phase, size, replies, history>>

\* The end of getifaddrs, with what was interpreted or with part of it.
Finish(t) ==
  /\ pc[t] = "finish"
  /\ replies' = [replies EXCEPT ![t] = NoReplies]
  /\ Close(t)
  /\ phase' = [phase EXCEPT ![t] = "link"]
  /\ Goto(t, "idle")
  /\ UNCHANGED <<kernel, size, ifap, ret, history>>

\* The caller is done with the result, which it frees if the call succeeded.
FreeIfAddrs(t) ==
  /\ pc[t] = "idle" /\ ret[t] # "none"
  /\ ret' = [ret EXCEPT ![t] = "none"]
  /\ ifap' = [ifap EXCEPT ![t] = <<>>]
  /\ stable' = [stable EXCEPT ![t] = {}]
  /\ seen' = [seen EXCEPT ![t] = {}]
  /\ cut' = [cut EXCEPT ![t] = FALSE]
  /\ lost' = [lost EXCEPT ![t] = 0]
  /\ UNCHANGED <<kernel, socket, pc, phase, size, replies>>

-----------------------------------------------------------------------------

\* What a call does of itself, and the kernel's answer to it.
Progress(t) ==
  \/ Socket(t) \/ Send(t) \/ Fill(t) \/ Receive(t) \/ ReceiveTruncated(t)
  \/ NoList(t) \/ Interpret(t) \/ Finish(t)

Failure(t) == SocketFails(t) \/ SendFails(t) \/ ReceiveFails(t) \/ ItemFails(t)

Next ==
  \/ \E t \in Threads : Call(t) \/ Progress(t) \/ Failure(t) \/ FreeIfAddrs(t)
  \/ \E i \in Indices : Change(i)

Spec == Init /\ [][Next]_vars

FairSpec == Spec /\ \A t \in Threads : WF_vars(Progress(t))

-----------------------------------------------------------------------------

Of(t, kind) == {j \in 1..Len(ifap[t]) : ifap[t][j].kind = kind}
IndicesOf(t, kind) == {ifap[t][j].index : j \in Of(t, kind)}

\* When getifaddrs returns 0 and no reply was truncated, the list has every link
\* and every address that was there all the time, none that never was, and none
\* twice, whatever came and went and however the kernel cut its answers.
Complete ==
  \A t \in Threads : ret[t] = "0" /\ ~cut[t] =>
    \A kind \in {"link", "addr"} :
      /\ stable[t] \subseteq IndicesOf(t, kind)
      /\ IndicesOf(t, kind) \subseteq seen[t]
      /\ Cardinality(Of(t, kind)) = Cardinality(IndicesOf(t, kind))

\* Links come before addresses, and an address has the name of its link exactly if
\* the list has the link; also in the part of a list that a failed call leaves.
NamedByLink ==
  \A t \in Threads : \A j \in Of(t, "addr") :
    /\ \A k \in Of(t, "link") : k < j
    /\ ifap[t][j].name # 0 <=> ifap[t][j].index \in IndicesOf(t, "link")

\* In whatever order the attributes come, ifa_addr is the local address if there is
\* one, and the peer's is not lost unless the broadcast address takes its place
\* (the comment at lines 433-434).
LocalIsTheAddress ==
  \A t \in Threads : \A j \in Of(t, "addr") :
    \/ ifap[t][j].addr = "local" /\ ifap[t][j].ifu \in {"address", "broadcast"}
    \/ ifap[t][j].addr = "address" /\ ifap[t][j].ifu = "none"

\* Whichever step fails, and in whichever of the two lists, a call that has returned
\* has closed its socket and freed both lists.  Every reply it received was in one of
\* them, but for one in a failed call: the reply whose list item could not be
\* allocated (lines 178-181), which is lost.
NothingLeaks ==
  \A t \in Threads : pc[t] = "idle" =>
    /\ port[t] = NoPort /\ cursor[t] = 0 /\ queue[t] = <<>>
    /\ replies[t] = NoReplies
    /\ lost[t] = 0 \/ (lost[t] = 1 /\ ret[t] = "-1")

\* What the code does not do, and no run checks: free that reply, and leave the
\* caller of a failed call nothing to free.
EachReplyIsFreed == \A t \in Threads : lost[t] = 0
FailureStoresNothing == \A t \in Threads : ret[t] = "-1" => ifap[t] = <<>>

\* A call whose socket got the process id as its port returns, unless a truncated
\* reply took NLMSG_DONE with it.
OwnPortReturns ==
  \A t \in Threads : port[t] = Pid ~> port[t] = NoPort \/ cut[t]

\* Every call returns, with 0 or with -1.
CallsReturn == \A t \in Threads : pc[t] # "idle" ~> pc[t] = "idle"

=============================================================================
