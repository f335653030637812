--------------------------- MODULE IfAddrsProofs ---------------------------
(***************************************************************************)
(* IfAddrs proved for any set of threads, any number of interfaces, ports  *)
(* and changes, and replies of any size.                                   *)
(***************************************************************************)
EXTENDS IfAddrs, FiniteSetTheorems, TLAPS

-----------------------------------------------------------------------------

Datagrams == [msgs : Seq(Indices), done : BOOLEAN]
Replies == [link : Seq(Indices), addr : Seq(Indices)]

Domains ==
  /\ DOMAIN cursor = Threads /\ DOMAIN queue = Threads /\ DOMAIN port = Threads
  /\ DOMAIN pc = Threads /\ DOMAIN phase = Threads /\ DOMAIN size = Threads
  /\ DOMAIN replies = Threads /\ DOMAIN ifap = Threads /\ DOMAIN ret = Threads
  /\ DOMAIN stable = Threads /\ DOMAIN seen = Threads /\ DOMAIN cut = Threads
  /\ DOMAIN lost = Threads

Shape(t) ==
  /\ cursor[t] \in 0..LastIndex + 1
  /\ queue[t] = <<>> \/ \E d \in Datagrams : queue[t] = <<d>>
  /\ pc[t] \in {"idle", "socket", "send", "recv", "nolist", "interpret", "finish"}
  /\ phase[t] \in {"link", "addr"}
  /\ replies[t] \in Replies
  /\ stable[t] \subseteq Indices /\ seen[t] \subseteq Indices

\* A dump runs only while its replies are received or the call gives up, and a list is
\* empty until it is asked for and once it is given up.
InTurn(t) ==
  /\ pc[t] \in {"idle", "socket"} => port[t] = NoPort
  /\ pc[t] \notin {"recv", "nolist"} => cursor[t] = 0 /\ queue[t] = <<>>
  /\ pc[t] \in {"idle", "socket"} => phase[t] = "link"
  /\ phase[t] = "link" => replies[t].addr = <<>>
  /\ phase[t] = "link" /\ pc[t] # "recv" => replies[t].link = <<>>
  /\ pc[t] \in {"send", "nolist"} => replies[t].addr = <<>>
  /\ pc[t] \in {"interpret", "finish"} => phase[t] = "addr"

\* A reply is lost only by a call that then fails.
Accounted(t) ==
  /\ lost[t] \in {0, 1}
  /\ pc[t] \notin {"idle", "nolist"} => lost[t] = 0
  /\ pc[t] = "idle" /\ lost[t] = 1 => ret[t] = "-1"

\* A sequence of indices that says which interfaces below `bound' there are: those
\* that stayed, perhaps some that came or went, in order.
Lists(t, s, bound) ==
  /\ Ascending(s)
  /\ ToSet(s) \subseteq seen[t]
  /\ \A i \in ToSet(s) : i < bound
  /\ \A i \in stable[t] : i < bound => i \in ToSet(s)

InHand(t) == IF queue[t] = <<>> THEN <<>> ELSE Head(queue[t]).msgs

\* The kernel has answered for the interfaces below this one.
Answered(t) == IF cursor[t] = 0 THEN LastIndex + 1 ELSE cursor[t]

\* The replies kept and the one on its way list what the kernel has answered for,
\* and a list that is ended lists all.
Progressing(t) ==
  /\ pc[t] # "idle" => stable[t] \subseteq up /\ up \subseteq seen[t]
  /\ queue[t] # <<>> => (Head(queue[t]).done => cursor[t] = 0)
  /\ ~cut[t] =>
       /\ pc[t] = "recv" => Lists(t, replies[t][phase[t]] \o InHand(t), Answered(t))
       /\ phase[t] = "addr" => Lists(t, replies[t].link, LastIndex + 1)
       /\ pc[t] = "interpret" => Lists(t, replies[t].addr, LastIndex + 1)

\* The four properties, for one thread.
CompleteOf(t) ==
  ret[t] = "0" /\ ~cut[t] =>
    \A kind \in {"link", "addr"} :
      /\ stable[t] \subseteq IndicesOf(t, kind)
      /\ IndicesOf(t, kind) \subseteq seen[t]
      /\ Cardinality(Of(t, kind)) = Cardinality(IndicesOf(t, kind))

NamedOf(t) ==
  \A j \in Of(t, "addr") :
    /\ \A k \in Of(t, "link") : k < j
    /\ ifap[t][j].name # 0 <=> ifap[t][j].index \in IndicesOf(t, "link")

LocalOf(t) ==
  \A j \in Of(t, "addr") :
    \/ ifap[t][j].addr = "local" /\ ifap[t][j].ifu \in {"address", "broadcast"}
    \/ ifap[t][j].addr = "address" /\ ifap[t][j].ifu = "none"

Result(t) == CompleteOf(t) /\ NamedOf(t) /\ LocalOf(t)

ThreadInv(t) == Shape(t) /\ InTurn(t) /\ Accounted(t) /\ Progressing(t) /\ Result(t)

IInv == Domains /\ up \subseteq Indices /\ \A t \in Threads : ThreadInv(t)

-----------------------------------------------------------------------------
(* Sequences of indices                                                    *)

\* What is in a sequence of indices.
LEMMA Elements ==
  ASSUME NEW s \in Seq(Indices)
  PROVE  /\ ToSet(s) = {s[j] : j \in 1..Len(s)} /\ Len(s) \in Nat
         /\ ToSet(s) \subseteq Indices
BY DEF ToSet

\* A sequence that lists what is below one bound, followed by one that lists what
\* is between this bound and another, lists what is below the other.
LEMMA ListsGrow ==
  ASSUME NEW t, NEW r \in Seq(Indices), NEW s \in Seq(Indices), NEW b \in Nat, NEW c \in Nat,
         b <= c, Lists(t, r, b), Ascending(s), ToSet(s) = {i \in up : i \in b..c - 1},
         stable[t] \subseteq up, up \subseteq seen[t], up \subseteq Indices
  PROVE  Lists(t, r \o s, c)
<1>0. Indices \subseteq Nat
  BY DEF Indices
<1>1. /\ r \o s \in Seq(Indices) /\ Len(r \o s) = Len(r) + Len(s)
      /\ Len(r) \in Nat /\ Len(s) \in Nat
      /\ \A j \in 1..Len(r) + Len(s) : (r \o s)[j] = IF j <= Len(r) THEN r[j] ELSE s[j - Len(r)]
  OBVIOUS
<1>2. ToSet(r \o s) = ToSet(r) \cup ToSet(s)
  <2>1. \A i : i \in ToSet(r \o s) => i \in ToSet(r) \/ i \in ToSet(s)
    BY <1>1 DEF ToSet
  <2>2. ASSUME NEW j \in 1..Len(r) PROVE r[j] \in ToSet(r \o s)
    BY <1>1 DEF ToSet
  <2>3. ASSUME NEW j \in 1..Len(s) PROVE s[j] \in ToSet(r \o s)
    <3>1. Len(r) + j \in 1..Len(r) + Len(s) /\ ~(Len(r) + j <= Len(r)) /\ (Len(r) + j) - Len(r) = j
      BY <1>1
    <3>2. (r \o s)[Len(r) + j] = s[j] /\ Len(r) + j \in DOMAIN (r \o s)
      BY <1>1, <3>1
    <3> QED
      BY <3>2 DEF ToSet
  <2>4. ToSet(r) \subseteq ToSet(r \o s) /\ ToSet(s) \subseteq ToSet(r \o s)
    BY <2>2, <2>3, Elements
  <2> QED
    BY <2>1, <2>4
<1>3. ToSet(r) \subseteq Nat /\ ToSet(s) \subseteq Nat
  BY <1>0, Elements
<1>4. \A i \in ToSet(r), k \in ToSet(s) : i < k
  BY <1>3 DEF Lists
<1>5. Ascending(r \o s)
  <2> SUFFICES ASSUME NEW j \in 1..Len(r) + Len(s), NEW k \in 1..Len(r) + Len(s), j < k
               PROVE  (r \o s)[j] < (r \o s)[k]
    BY <1>1 DEF Ascending
  <2>1. CASE k <= Len(r)
    BY <1>1, <2>1 DEF Lists, Ascending
  <2>2. CASE j <= Len(r) /\ ~(k <= Len(r))
    <3>1. j \in 1..Len(r) /\ k - Len(r) \in 1..Len(s)
      BY <1>1, <2>2
    <3>2. r[j] \in ToSet(r) /\ s[k - Len(r)] \in ToSet(s)
      BY <3>1 DEF ToSet
    <3> QED
      BY <1>1, <1>4, <2>2, <3>2
  <2>3. CASE ~(j <= Len(r))
    <3>1. j - Len(r) \in 1..Len(s) /\ k - Len(r) \in 1..Len(s) /\ j - Len(r) < k - Len(r)
          /\ ~(k <= Len(r))
      BY <1>1, <2>3
    <3>2. s[j - Len(r)] < s[k - Len(r)]
      BY <3>1 DEF Ascending
    <3> QED
      BY <1>1, <2>3, <3>1, <3>2
  <2> QED
    BY <2>1, <2>2, <2>3
<1>6. ToSet(r \o s) \subseteq seen[t] /\ \A i \in ToSet(r \o s) : i < c
  BY <1>2, <1>3 DEF Lists
<1>7. ASSUME NEW i \in stable[t], i < c PROVE i \in ToSet(r \o s)
  <2>1. i \in Nat
    BY <1>0
  <2> QED
    BY <1>2, <1>7, <2>1 DEF Lists
<1> QED
  BY <1>5, <1>6, <1>7 DEF Lists

\* The empty sequence lists what is below the first index.
LEMMA NothingListed ==
  ASSUME NEW t, stable[t] \subseteq Indices
  PROVE  Lists(t, <<>>, 1)
BY DEF Lists, Ascending, ToSet, Indices

\* The interfaces that came and went in the meantime do not matter to a list.
LEMMA ListsLast ==
  ASSUME NEW t, NEW s, NEW b, Lists(t, s, b), stable'[t] \subseteq stable[t], seen[t] \subseteq seen'[t]
  PROVE  /\ Ascending(s) /\ ToSet(s) \subseteq seen'[t] /\ \A i \in ToSet(s) : i < b
         /\ \A i \in stable'[t] : i < b => i \in ToSet(s)
BY DEF Lists

-----------------------------------------------------------------------------
(* The result                                                              *)

\* The entry of an address for each order of its attributes.
LEMMA EntryOfAddress ==
  ASSUME NEW links, NEW i, NEW attributes \in Attributes
  PROVE  LET e == AddrEntry(links, i, attributes) IN
         /\ e.kind = "addr" /\ e.index = i /\ e.name = IF i \in Known(links) THEN i ELSE 0
         /\ \/ e.addr = "local" /\ e.ifu \in {"address", "broadcast"}
            \/ e.addr = "address" /\ e.ifu = "none"
<1> DEFINE e0 == [kind |-> "addr", index |-> i, name |-> IF i \in Known(links) THEN i ELSE 0,
                  addr |-> "none", ifu |-> "none"]
           e1 == Place(e0, attributes[1])
           e2 == Place(e1, attributes[2])
           e3 == Place(e2, attributes[3])
           IsEntry(f) == f = [n \in 0..Len(attributes) |->
                                IF n = 0 THEN e0 ELSE Place(f[n - 1], attributes[n])]
           g == [n \in 0..Len(attributes) |-> CASE n = 0 -> e0 [] n = 1 -> e1 [] n = 2 -> e2 [] OTHER -> e3]
<1>1. Len(attributes) \in {1, 2, 3}
  BY DEF Attributes
<1>2. IsEntry(g)
  <2> HIDE DEF e0
  <2> QED
    BY <1>1
<1>3. ASSUME NEW f, IsEntry(f)
      PROVE  f[Len(attributes)] = CASE Len(attributes) = 1 -> e1 [] Len(attributes) = 2 -> e2 [] OTHER -> e3
  <2> HIDE DEF e0
  <2>1. f[0] = e0
    BY <1>1, <1>3
  <2>2. f[1] = e1
    BY <1>1, <1>3, <2>1
  <2>3. Len(attributes) >= 2 => f[2] = e2
    BY <1>1, <1>3, <2>2
  <2>4. Len(attributes) >= 3 => f[3] = e3
    BY <1>1, <1>3, <2>3
  <2> HIDE DEF e1, e2, e3
  <2>5. CASE Len(attributes) = 1
    BY <2>2, <2>5
  <2>6. CASE Len(attributes) = 2
    BY <2>3, <2>6
  <2>7. CASE Len(attributes) = 3
    BY <2>4, <2>7
  <2> QED
    BY <1>1, <2>5, <2>6, <2>7
<1> HIDE DEF IsEntry, g
<1>4. AddrEntry(links, i, attributes) =
        CASE Len(attributes) = 1 -> e1 [] Len(attributes) = 2 -> e2 [] OTHER -> e3
  <2>1. IsEntry(CHOOSE f : IsEntry(f))
    BY <1>2
  <2>2. (CHOOSE f : IsEntry(f))[Len(attributes)] =
          CASE Len(attributes) = 1 -> e1 [] Len(attributes) = 2 -> e2 [] OTHER -> e3
    BY <1>3, <2>1
  <2>3. AddrEntry(links, i, attributes) = (CHOOSE f : IsEntry(f))[Len(attributes)]
    BY DEF AddrEntry, IsEntry
  <2> QED
    BY <2>2, <2>3
<1>5. CASE attributes = <<"address">>
  BY <1>4, <1>5 DEF Place
<1>6. CASE attributes = <<"local", "address">>
  BY <1>4, <1>6 DEF Place, MovesAddress
<1>7. CASE attributes = <<"address", "local">>
  BY <1>4, <1>7 DEF Place, MovesAddress
<1>8. CASE attributes = <<"address", "local", "broadcast">>
  BY <1>4, <1>8 DEF Place, MovesAddress
<1> QED
  BY <1>5, <1>6, <1>7, <1>8 DEF Attributes

\* Two sequences, one after the other.
LEMMA Joined ==
  ASSUME NEW S, NEW p \in Seq(S), NEW q \in Seq(S)
  PROVE  /\ p \o q \in Seq(S) /\ Len(p \o q) = Len(p) + Len(q)
         /\ \A j \in 1..Len(p) + Len(q) : (p \o q)[j] = IF j <= Len(p) THEN p[j] ELSE q[j - Len(p)]
OBVIOUS

\* The entries of all replies.
LEMMA EntriesInOrder ==
  ASSUME NEW links \in Seq(Indices), NEW addrs \in Seq(Indices), NEW attributes
  PROVE  /\ Len(Entries(links, addrs, attributes)) = Len(links) + Len(addrs)
         /\ Len(links) \in Nat /\ Len(addrs) \in Nat
         /\ \A j \in 1..Len(links) : Entries(links, addrs, attributes)[j] = LinkEntry(links[j])
         /\ \A j \in Len(links) + 1..Len(links) + Len(addrs) :
              Entries(links, addrs, attributes)[j] = AddrEntry(links, addrs[j - Len(links)], attributes)
<1> DEFINE l == [j \in 1..Len(links) |-> LinkEntry(links[j])]
           a == [j \in 1..Len(addrs) |-> AddrEntry(links, addrs[j], attributes)]
           E == {LinkEntry(links[j]) : j \in 1..Len(links)}
                  \cup {AddrEntry(links, addrs[j], attributes) : j \in 1..Len(addrs)}
<1>1. l \in Seq(E) /\ Len(l) = Len(links) /\ a \in Seq(E) /\ Len(a) = Len(addrs)
      /\ Len(links) \in Nat /\ Len(addrs) \in Nat
  OBVIOUS
<1>2. Entries(links, addrs, attributes) = l \o a
  BY DEF Entries
<1>3. /\ \A j \in 1..Len(links) : l[j] = LinkEntry(links[j])
      /\ \A j \in 1..Len(addrs) : a[j] = AddrEntry(links, addrs[j], attributes)
  OBVIOUS
<1> HIDE DEF l, a, E
<1>4. /\ Len(l \o a) = Len(l) + Len(a)
      /\ \A j \in 1..Len(l) + Len(a) : (l \o a)[j] = IF j <= Len(l) THEN l[j] ELSE a[j - Len(l)]
  BY <1>1, Joined
<1>5. ASSUME NEW j \in 1..Len(links) PROVE (l \o a)[j] = LinkEntry(links[j])
  BY <1>1, <1>3, <1>4
<1>6. ASSUME NEW j \in Len(links) + 1..Len(links) + Len(addrs)
      PROVE  (l \o a)[j] = AddrEntry(links, addrs[j - Len(links)], attributes)
  <2>1. j - Len(links) \in 1..Len(addrs) /\ ~(j <= Len(links)) /\ j \in 1..Len(l) + Len(a)
    BY <1>1
  <2> QED
    BY <1>1, <1>3, <1>4, <2>1
<1> QED
  BY <1>1, <1>2, <1>4, <1>5, <1>6

\* The first n entries: links before addresses, which have the names of the links.
LEMMA FirstEntries ==
  ASSUME NEW t, NEW links \in Seq(Indices), NEW addrs \in Seq(Indices), NEW attributes \in Attributes,
         NEW n \in Nat, n <= Len(links) + Len(addrs), Len(ifap'[t]) = n,
         \A j \in 1..n : ifap'[t][j] = Entries(links, addrs, attributes)[j]
  PROVE  /\ NamedOf(t)' /\ LocalOf(t)'
         /\ n = Len(links) + Len(addrs) =>
              /\ Of(t, "link")' = 1..Len(links)
              /\ Of(t, "addr")' = Len(links) + 1..Len(links) + Len(addrs)
              /\ IndicesOf(t, "link")' = ToSet(links) /\ IndicesOf(t, "addr")' = ToSet(addrs)
<1> DEFINE k == Len(links)
           m == Len(addrs)
<1>0. k \in Nat /\ m \in Nat /\ Indices \subseteq Nat \ {0}
  BY EntriesInOrder DEF Indices
<1>1. ASSUME NEW j \in 1..n, j <= k
      PROVE  /\ ifap'[t][j].kind = "link" /\ ifap'[t][j].index = links[j]
  <2>1. j \in 1..k
    BY <1>0, <1>1
  <2>2. ifap'[t][j] = LinkEntry(links[j])
    BY <2>1, EntriesInOrder
  <2> QED
    BY <2>2 DEF LinkEntry
<1>2. ASSUME NEW j \in 1..n, ~(j <= k)
      PROVE  /\ j - k \in 1..m
             /\ ifap'[t][j].kind = "addr" /\ ifap'[t][j].index = addrs[j - k]
             /\ ifap'[t][j].name = IF addrs[j - k] \in Known(links) THEN addrs[j - k] ELSE 0
             /\ \/ ifap'[t][j].addr = "local" /\ ifap'[t][j].ifu \in {"address", "broadcast"}
                \/ ifap'[t][j].addr = "address" /\ ifap'[t][j].ifu = "none"
  <2>1. j \in k + 1..k + m /\ j - k \in 1..m
    BY <1>0, <1>2
  <2>2. ifap'[t][j] = AddrEntry(links, addrs[j - k], attributes)
    BY <2>1, EntriesInOrder
  <2> QED
    BY <2>1, <2>2, EntryOfAddress
<1>10. n \in Nat /\ n <= k + m /\ (n = Len(links) + Len(addrs) => n = k + m)
  OBVIOUS
<1> HIDE DEF k, m
<1>3. /\ Of(t, "link")' = {j \in 1..n : j <= k}
      /\ Of(t, "addr")' = {j \in 1..n : ~(j <= k)}
  BY <1>1, <1>2 DEF Of
<1>4. LocalOf(t)'
  BY <1>2, <1>3 DEF LocalOf
<1>5. ToSet(links) = Known(links) /\ ToSet(links) = {links[j] : j \in 1..k}
      /\ ToSet(addrs) = {addrs[j] : j \in 1..m} /\ ToSet(addrs) \subseteq Indices
  BY Elements DEF Known, k, m
<1>6. n >= k => IndicesOf(t, "link")' = ToSet(links)
  <2> SUFFICES ASSUME n >= k PROVE {ifap'[t][j].index : j \in Of(t, "link")'} = ToSet(links)
    BY DEF IndicesOf
  <2>1. Of(t, "link")' = 1..k
    <3>1. \A j : j \in 1..n /\ j <= k <=> j \in 1..k
      BY <1>0, <1>10
    <3> QED
      BY <1>3, <3>1
  <2>2. \A j \in 1..k : ifap'[t][j].index = links[j]
    BY <1>0, <1>1, <1>10
  <2> QED
    BY <1>5, <2>1, <2>2
<1>7. ASSUME NEW j \in Of(t, "addr")'
      PROVE  /\ \A i \in Of(t, "link")' : i < j
             /\ ifap'[t][j].name # 0 <=> ifap'[t][j].index \in IndicesOf(t, "link")'
  <2>1. j \in 1..n /\ ~(j <= k)
    BY <1>3
  <2>2. \A i \in Of(t, "link")' : i < j
    BY <1>0, <1>3, <2>1
  <2>3. IndicesOf(t, "link")' = Known(links)
    BY <1>0, <1>5, <1>6, <2>1
  <2>4. addrs[j - k] \in Indices
    BY <1>2, <1>5, <2>1
  <2>5. ifap'[t][j].name # 0 <=> addrs[j - k] \in Known(links)
    BY <1>0, <1>2, <2>1, <2>4
  <2> QED
    BY <1>2, <2>1, <2>2, <2>3, <2>5
<1>8. NamedOf(t)'
  BY <1>7 DEF NamedOf
<1>9. ASSUME n = k + m
      PROVE  /\ Of(t, "link")' = 1..k /\ Of(t, "addr")' = k + 1..k + m
             /\ IndicesOf(t, "link")' = ToSet(links) /\ IndicesOf(t, "addr")' = ToSet(addrs)
  <2>1. Of(t, "link")' = 1..k /\ Of(t, "addr")' = k + 1..k + m
    <3>1. \A j : j \in 1..n /\ j <= k <=> j \in 1..k
      BY <1>0, <1>9, <1>10
    <3>2. \A j : j \in 1..n /\ ~(j <= k) <=> j \in k + 1..k + m
      BY <1>0, <1>9, <1>10
    <3> QED
      BY <1>3, <3>1, <3>2
  <2>2. \A j \in k + 1..k + m : j - k \in 1..m /\ ifap'[t][j].index = addrs[j - k]
    BY <1>0, <1>2, <1>9, <1>10
  <2>3. \A i \in 1..m : i + k \in k + 1..k + m /\ (i + k) - k = i
    BY <1>0
  <2>4. {ifap'[t][j].index : j \in k + 1..k + m} = {addrs[i] : i \in 1..m}
    <3>1. ASSUME NEW i \in 1..m PROVE addrs[i] \in {ifap'[t][j].index : j \in k + 1..k + m}
      BY <2>2, <2>3
    <3>2. ASSUME NEW j \in k + 1..k + m PROVE ifap'[t][j].index \in {addrs[i] : i \in 1..m}
      BY <2>2
    <3> QED
      BY <3>1, <3>2
  <2>5. IndicesOf(t, "addr")' = ToSet(addrs)
    BY <1>5, <2>1, <2>4 DEF IndicesOf
  <2> QED
    BY <1>0, <1>6, <1>9, <1>10, <2>1, <2>5
<1> QED
  BY <1>4, <1>8, <1>9, <1>10 DEF k, m

\* An ascending sequence has no index twice.
LEMMA NoneTwice ==
  ASSUME NEW s \in Seq(Indices), Ascending(s), NEW k \in Nat
  PROVE  Cardinality(k + 1..k + Len(s)) = Cardinality(ToSet(s))
<1> DEFINE D == k + 1..k + Len(s)
           f == [j \in D |-> s[j - k]]
<1>0. /\ Len(s) \in Nat /\ ToSet(s) = {s[j] : j \in 1..Len(s)}
      /\ \A j \in 1..Len(s) : s[j] \in Nat
  <2>1. Indices \subseteq Nat
    BY DEF Indices
  <2>2. \A j \in 1..Len(s) : s[j] \in Indices
    OBVIOUS
  <2> QED
    BY <2>1, <2>2, Elements
<1>1. \A j \in D : j - k \in 1..Len(s)
  BY <1>0
<1>2. \A i \in 1..Len(s) : i + k \in D /\ (i + k) - k = i
  BY <1>0
<1>3. f \in Surjection(D, ToSet(s))
  <2>1. f \in [D -> ToSet(s)]
    BY <1>0, <1>1
  <2>2. ASSUME NEW x \in ToSet(s) PROVE \E j \in D : f[j] = x
    <3>1. PICK i \in 1..Len(s) : s[i] = x
      BY <1>0
    <3>2. f[i + k] = x /\ i + k \in D
      BY <1>2, <3>1
    <3> QED
      BY <3>2
  <2> HIDE DEF f
  <2> QED
    BY <2>1, <2>2 DEF Surjection
<1>4. f \in Injection(D, ToSet(s))
  <2>1. f \in [D -> ToSet(s)] /\ \A j \in D : f[j] = s[j - k] /\ j \in Int
    BY <1>0, <1>1
  <2> HIDE DEF f, D
  <2>2. ASSUME NEW i \in D, NEW j \in D, f[i] = f[j] PROVE i = j
    <3>1. i - k \in 1..Len(s) /\ j - k \in 1..Len(s) /\ i \in Int /\ j \in Int
      BY <1>1, <2>1
    <3>2. s[i - k] = s[j - k]
      BY <2>1, <2>2
    <3>3. s[i - k] \in Nat
      BY <1>0, <3>1
    <3>4. i - k \in DOMAIN s /\ j - k \in DOMAIN s
      BY <3>1
    <3>5. ~(s[i - k] < s[j - k]) /\ ~(s[j - k] < s[i - k])
      BY <3>2, <3>3
    <3>6. ~(i - k < j - k) /\ ~(j - k < i - k)
      BY <3>4, <3>5 DEF Ascending
    <3> QED
      BY <3>1, <3>6
  <2> QED
    BY <2>1, <2>2 DEF Injection, IsInjective
<1>5. IsFiniteSet(D)
  BY <1>0, FS_Interval
<1> HIDE DEF D, f
<1>6. Cardinality(D) = Cardinality(ToSet(s))
  BY <1>3, <1>4, <1>5, FS_Surjection
<1> QED
  BY <1>6 DEF D

-----------------------------------------------------------------------------
(* One step                                                                *)

Same(u) ==
  /\ cursor'[u] = cursor[u] /\ queue'[u] = queue[u] /\ port'[u] = port[u]
  /\ pc'[u] = pc[u] /\ phase'[u] = phase[u] /\ replies'[u] = replies[u]
  /\ ifap'[u] = ifap[u] /\ ret'[u] = ret[u]
  /\ stable'[u] = stable[u] /\ seen'[u] = seen[u] /\ cut'[u] = cut[u]
  /\ lost'[u] = lost[u]

\* A thread that no step is taken for.
LEMMA OtherThread ==
  ASSUME NEW u, ThreadInv(u), Same(u), up' = up
  PROVE  ThreadInv(u)'
<1> USE DEF Same
<1>1. Shape(u)'
  BY DEF ThreadInv, Shape
<1>2. InTurn(u)' /\ Accounted(u)'
  BY DEF ThreadInv, InTurn, Accounted
<1>3. InHand(u)' = InHand(u) /\ Answered(u)' = Answered(u)
      /\ \A s, b : Lists(u, s, b) = Lists(u, s, b)'
  BY DEF InHand, Answered, Lists
<1>4. Progressing(u)'
  BY <1>3 DEF ThreadInv, Progressing
<1>5. \A kind : Of(u, kind)' = Of(u, kind) /\ IndicesOf(u, kind)' = IndicesOf(u, kind)
  BY DEF Of, IndicesOf
<1>6. Result(u)'
  BY <1>5 DEF ThreadInv, Result, CompleteOf, NamedOf, LocalOf
<1> QED
  BY <1>1, <1>2, <1>4, <1>6 DEF ThreadInv

\* The result of a call stays as it is until the next call, and is not looked at
\* when the call fails.
LEMMA ResultStays ==
  ASSUME NEW t, Result(t), ifap'[t] = ifap[t], ret'[t] = ret[t] \/ ret'[t] # "0",
         ret'[t] = "0" /\ ~cut'[t] =>
           ~cut[t] /\ stable'[t] \subseteq stable[t] /\ seen[t] \subseteq seen'[t]
  PROVE  Result(t)'
<1>1. \A kind : Of(t, kind)' = Of(t, kind) /\ IndicesOf(t, kind)' = IndicesOf(t, kind)
  BY DEF Of, IndicesOf
<1>2. CompleteOf(t)'
  BY <1>1 DEF Result, CompleteOf
<1>3. NamedOf(t)' /\ LocalOf(t)'
  BY <1>1 DEF Result, NamedOf, LocalOf
<1> QED
  BY <1>2, <1>3 DEF Result

\* There is no entry in an empty list.
LEMMA EmptyResult ==
  ASSUME NEW t, ifap'[t] = <<>>, ret'[t] # "0"
  PROVE  Result(t)'
<1>1. Of(t, "addr")' = {}
  BY DEF Of
<1> QED
  BY <1>1 DEF Result, CompleteOf, NamedOf, LocalOf

\* A step taken for one thread.
LEMMA OneThread ==
  ASSUME IInv, Domains', up' = up, NEW t \in Threads, ThreadInv(t)',
         \A u \in Threads \ {t} : Same(u)
  PROVE  IInv'
<1>1. ASSUME NEW u \in Threads PROVE ThreadInv(u)'
  <2>1. CASE u = t
    BY <2>1
  <2>2. CASE u # t
    BY <2>2, OtherThread DEF IInv
  <2> QED
    BY <2>1, <2>2
<1> QED
  BY <1>1 DEF IInv

LEMMA CallStep ==
  ASSUME IInv, NEW t \in Threads, Call(t)
  PROVE  IInv'
<1> USE DEF Call, Goto, kernel, socket
<1>0. Domains /\ ThreadInv(t) /\ up \subseteq Indices
  BY DEF IInv
<1>1. Domains' /\ up' = up
  BY <1>0 DEF Domains
<1>2. \A u \in Threads \ {t} : Same(u)
  BY <1>0 DEF Same, Domains
<1>3. /\ pc'[t] = "socket" /\ pc[t] = "idle" /\ ifap'[t] = <<>> /\ ret'[t] = "none"
      /\ stable'[t] = up /\ seen'[t] = up
      /\ cursor'[t] = cursor[t] /\ queue'[t] = queue[t] /\ port'[t] = port[t]
      /\ phase'[t] = phase[t] /\ replies'[t] = replies[t] /\ cut'[t] = cut[t]
      /\ ret[t] = "none" /\ lost'[t] = lost[t]
  BY <1>0 DEF Domains
<1>4. Shape(t)'
  BY <1>0, <1>3 DEF ThreadInv, Shape
<1>5. InTurn(t)' /\ Accounted(t)'
  BY <1>0, <1>3 DEF ThreadInv, InTurn, Accounted
<1>6. Progressing(t)'
  BY <1>0, <1>1, <1>3 DEF ThreadInv, InTurn, Progressing
<1>7. Result(t)'
  BY <1>3, EmptyResult
<1> QED
  BY <1>1, <1>2, <1>4, <1>5, <1>6, <1>7, OneThread DEF ThreadInv

LEMMA SocketStep ==
  ASSUME IInv, NEW t \in Threads, Socket(t)
  PROVE  IInv'
<1> USE DEF Socket, Goto, kernel, history
<1>0. Domains /\ ThreadInv(t) /\ up \subseteq Indices
  BY DEF IInv
<1>1. Domains' /\ up' = up
  BY <1>0 DEF Domains
<1>2. \A u \in Threads \ {t} : Same(u)
  BY <1>0 DEF Same, Domains
<1>3. /\ pc[t] = "socket" /\ pc'[t] = "send" /\ ifap'[t] = ifap[t] /\ ret'[t] = ret[t]
      /\ stable'[t] = stable[t] /\ seen'[t] = seen[t]
      /\ cursor'[t] = cursor[t] /\ queue'[t] = queue[t]
      /\ phase'[t] = phase[t] /\ replies'[t] = replies[t] /\ cut'[t] = cut[t]
      /\ lost'[t] = lost[t]
  BY <1>0 DEF Domains
<1>4. Shape(t)'
  BY <1>0, <1>3 DEF ThreadInv, Shape
<1>5. InTurn(t)' /\ Accounted(t)'
  BY <1>0, <1>3 DEF ThreadInv, InTurn, Accounted
<1>6. Progressing(t)'
  BY <1>0, <1>1, <1>3 DEF ThreadInv, InTurn, Progressing
<1>7. Result(t)'
  BY <1>0, <1>3, ResultStays DEF ThreadInv
<1> QED
  BY <1>1, <1>2, <1>4, <1>5, <1>6, <1>7, OneThread DEF ThreadInv

LEMMA SocketFailsStep ==
  ASSUME IInv, NEW t \in Threads, SocketFails(t)
  PROVE  IInv'
<1> USE DEF SocketFails, Goto, kernel, socket, history
<1>0. Domains /\ ThreadInv(t) /\ up \subseteq Indices
  BY DEF IInv
<1>1. Domains' /\ up' = up
  BY <1>0 DEF Domains
<1>2. \A u \in Threads \ {t} : Same(u)
  BY <1>0 DEF Same, Domains
<1>3. /\ pc[t] = "socket" /\ pc'[t] = "idle" /\ ifap'[t] = ifap[t] /\ ret'[t] = "-1"
      /\ stable'[t] = stable[t] /\ seen'[t] = seen[t] /\ port'[t] = port[t]
      /\ cursor'[t] = cursor[t] /\ queue'[t] = queue[t]
      /\ phase'[t] = phase[t] /\ replies'[t] = replies[t] /\ cut'[t] = cut[t]
      /\ lost'[t] = lost[t]
  BY <1>0 DEF Domains
<1>4. Shape(t)'
  BY <1>0, <1>3 DEF ThreadInv, Shape
<1>5. InTurn(t)' /\ Accounted(t)'
  BY <1>0, <1>3 DEF ThreadInv, InTurn, Accounted
<1>6. Progressing(t)'
  BY <1>0, <1>1, <1>3 DEF ThreadInv, InTurn, Progressing
<1>7. Result(t)'
  BY <1>0, <1>3, ResultStays DEF ThreadInv
<1> QED
  BY <1>1, <1>2, <1>4, <1>5, <1>6, <1>7, OneThread DEF ThreadInv

LEMMA SendStep ==
  ASSUME IInv, NEW t \in Threads, Send(t)
  PROVE  IInv'
<1> USE DEF Send, Goto, kernel, history
<1>0. Domains /\ ThreadInv(t) /\ up \subseteq Indices
  BY DEF IInv
<1>1. Domains' /\ up' = up
  BY <1>0 DEF Domains
<1>2. \A u \in Threads \ {t} : Same(u)
  BY <1>0 DEF Same, Domains
<1>3. /\ pc[t] = "send" /\ pc'[t] = "recv" /\ ifap'[t] = ifap[t] /\ ret'[t] = ret[t]
      /\ stable'[t] = stable[t] /\ seen'[t] = seen[t] /\ port'[t] = port[t]
      /\ cursor'[t] = 1 /\ queue'[t] = queue[t] /\ lost'[t] = lost[t]
      /\ phase'[t] = phase[t] /\ replies'[t] = replies[t] /\ cut'[t] = cut[t]
  BY <1>0 DEF Domains
<1>4. Shape(t)'
  BY <1>0, <1>3, IfAddrsAssumption DEF ThreadInv, Shape
<1>5. InTurn(t)' /\ Accounted(t)'
  BY <1>0, <1>3 DEF ThreadInv, InTurn, Accounted
<1>6. Progressing(t)'
  <2>1. queue[t] = <<>> /\ replies[t][phase[t]] = <<>>
    BY <1>0, <1>3 DEF ThreadInv, Shape, InTurn
  <2>2. InHand(t)' = <<>> /\ Answered(t)' = 1
    BY <1>3, <2>1 DEF InHand, Answered
  <2>3. <<>> \o <<>> = <<>>
    OBVIOUS
  <2>4. Lists(t, <<>>, 1)
    BY <1>0, NothingListed DEF ThreadInv, Shape
  <2>5. \A s, b : Lists(t, s, b) => Lists(t, s, b)'
    BY <1>3 DEF Lists
  <2>6. Lists(t, replies[t][phase[t]] \o InHand(t), Answered(t))'
    BY <1>3, <2>1, <2>2, <2>3, <2>4, <2>5
  <2> QED
    BY <1>0, <1>1, <1>3, <2>1, <2>5, <2>6 DEF ThreadInv, Progressing
<1>7. Result(t)'
  BY <1>0, <1>3, ResultStays DEF ThreadInv
<1> QED
  BY <1>1, <1>2, <1>4, <1>5, <1>6, <1>7, OneThread DEF ThreadInv

LEMMA FillStep ==
  ASSUME IInv, NEW t \in Threads, Fill(t)
  PROVE  IInv'
<1> USE DEF kernel, history
<1>0. Domains /\ ThreadInv(t) /\ up \subseteq Indices /\ LastIndex \in Nat
  BY IfAddrsAssumption DEF IInv
<1>1. PICK next \in cursor[t]..LastIndex + 1, part \in Parts, done \in BOOLEAN :
       /\ Ascending(part) /\ ToSet(part) = {i \in up : i \in cursor[t]..next - 1}
       /\ IF done THEN next = LastIndex + 1 ELSE part # <<>>
       /\ queue' = [queue EXCEPT ![t] = Append(@, Datagram(part, done))]
       /\ cursor' = [cursor EXCEPT ![t] = IF done THEN 0 ELSE next]
  BY DEF Fill
<1>2. Domains' /\ up' = up
  BY <1>0, <1>1 DEF Domains, Fill
<1>3. \A u \in Threads \ {t} : Same(u)
  BY <1>0, <1>1 DEF Same, Domains, Fill
<1>4. /\ cursor[t] # 0 /\ queue[t] = <<>> /\ queue'[t] = <<Datagram(part, done)>>
      /\ cursor'[t] = (IF done THEN 0 ELSE next)
      /\ pc'[t] = pc[t] /\ ifap'[t] = ifap[t] /\ ret'[t] = ret[t] /\ port'[t] = port[t]
      /\ stable'[t] = stable[t] /\ seen'[t] = seen[t]
      /\ phase'[t] = phase[t] /\ replies'[t] = replies[t] /\ cut'[t] = cut[t]
      /\ lost'[t] = lost[t]
  BY <1>0, <1>1 DEF Domains, Fill
<1>5. part \in Seq(Indices)
  BY DEF Parts
<1>6. /\ pc[t] \in {"recv", "nolist"} /\ cursor[t] \in 1..LastIndex + 1 /\ next \in 1..LastIndex + 1
      /\ cursor[t] <= next
  BY <1>0, <1>4 DEF ThreadInv, Shape, InTurn
<1>7. Shape(t)'
  <2>1. Datagram(part, done) \in Datagrams
    BY <1>5 DEF Datagram, Datagrams
  <2>2. cursor'[t] \in 0..LastIndex + 1
    BY <1>0, <1>4, <1>6
  <2> QED
    BY <1>0, <1>4, <2>1, <2>2 DEF ThreadInv, Shape
<1>8. InTurn(t)' /\ Accounted(t)'
  BY <1>0, <1>4, <1>6 DEF ThreadInv, InTurn, Accounted
<1>9. InHand(t) = <<>> /\ Answered(t) = cursor[t]
      /\ InHand(t)' = part /\ Answered(t)' = next /\ (Head(queue'[t]).done => cursor'[t] = 0)
  <2>1. Head(queue'[t]).msgs = part /\ Head(queue'[t]).done = done /\ queue'[t] # <<>>
    BY <1>4 DEF Datagram
  <2>2. InHand(t) = <<>> /\ InHand(t)' = part
    BY <1>4, <2>1 DEF InHand
  <2>3. Answered(t) = cursor[t] /\ Answered(t)' = next
    BY <1>0, <1>1, <1>4, <1>6 DEF Answered
  <2> QED
    BY <1>4, <2>1, <2>2, <2>3
<1>10. \A s, b : Lists(t, s, b) => Lists(t, s, b)'
  BY <1>4 DEF Lists
<1>11. Progressing(t)'
  <2>1. stable[t] \subseteq up /\ up \subseteq seen[t]
    BY <1>0, <1>6 DEF ThreadInv, Progressing
  <2>2. replies[t][phase[t]] \in Seq(Indices)
    BY <1>0 DEF ThreadInv, Shape, Replies
  <2>3. replies[t][phase[t]] \o <<>> = replies[t][phase[t]]
    BY <2>2
  <2>4. ASSUME ~cut[t], pc[t] = "recv" PROVE Lists(t, replies[t][phase[t]] \o part, next)
    <3>1. Lists(t, replies[t][phase[t]], cursor[t])
      BY <1>0, <1>6, <1>9, <2>3, <2>4 DEF ThreadInv, Progressing
    <3> DEFINE r == replies[t][phase[t]]
               b == cursor[t]
    <3>2. r \in Seq(Indices) /\ Lists(t, r, b)
      BY <2>2, <3>1
    <3>3. b \in Nat /\ next \in Nat /\ b <= next
      BY <1>0, <1>6
    <3>4. ToSet(part) = {i \in up : i \in b..next - 1} /\ Ascending(part)
      BY <1>1
    <3> HIDE DEF r, b
    <3>5. Lists(t, r \o part, next)
      BY <1>0, <1>5, <2>1, <3>2, <3>3, <3>4, ListsGrow
    <3> QED
      BY <3>5 DEF r
  <2> QED
    BY <1>0, <1>2, <1>4, <1>6, <1>9, <1>10, <2>1, <2>4 DEF ThreadInv, Progressing
<1>12. Result(t)'
  BY <1>0, <1>4, ResultStays DEF ThreadInv
<1> QED
  BY <1>2, <1>3, <1>7, <1>8, <1>11, <1>12, OneThread DEF ThreadInv

\* A socket never has more than one datagram to receive.
LEMMA OneDatagram ==
  ASSUME NEW d
  PROVE  Tail(<<d>>) = <<>>
OBVIOUS

LEMMA ReceiveStep ==
  ASSUME IInv, NEW t \in Threads, Receive(t)
  PROVE  IInv'
<1> USE DEF kernel, history
<1> DEFINE d == Head(queue[t])
           ends == d.done /\ Mine(t)
<1>0. Domains /\ ThreadInv(t) /\ up \subseteq Indices /\ LastIndex \in Nat
  BY IfAddrsAssumption DEF IInv
<1>1. Domains' /\ up' = up
  BY <1>0 DEF Domains, Receive, Goto
<1>2. \A u \in Threads \ {t} : Same(u)
  BY <1>0 DEF Same, Domains, Receive, Goto
<1>3. pc[t] = "recv" /\ queue[t] = <<d>> /\ d \in Datagrams
  BY <1>0 DEF ThreadInv, Shape, Receive
<1>4. d.msgs \in Seq(Indices) /\ d.done \in BOOLEAN
  BY <1>3 DEF Datagrams
<1>5. /\ replies' = [replies EXCEPT ![t][phase[t]] = @ \o d.msgs]
      /\ phase' = [phase EXCEPT ![t] = IF ends THEN "addr" ELSE @]
      /\ pc' = [pc EXCEPT ![t] = CASE ~ends -> "recv"
                                   [] ends /\ phase[t] = "link" -> "send"
                                   [] OTHER -> "interpret"]
      /\ queue' = [queue EXCEPT ![t] = Tail(@)]
  BY DEF Receive, Goto, Kept
<1>6. /\ cursor'[t] = cursor[t] /\ ifap'[t] = ifap[t] /\ ret'[t] = ret[t]
      /\ stable'[t] = stable[t] /\ seen'[t] = seen[t] /\ cut'[t] = cut[t]
      /\ port'[t] = port[t] /\ lost'[t] = lost[t]
  BY DEF Receive
<1>7. replies[t] \in Replies /\ phase[t] \in {"link", "addr"} /\ replies[t][phase[t]] \in Seq(Indices)
  BY <1>0 DEF ThreadInv, Shape, Replies
<1>8. queue'[t] = <<>>
  BY <1>0, <1>3, <1>5, OneDatagram DEF Domains
<1>9. /\ replies'[t] = [replies[t] EXCEPT ![phase[t]] = @ \o d.msgs]
      /\ phase'[t] = (IF ends THEN "addr" ELSE phase[t])
      /\ ~ends => pc'[t] = "recv"
      /\ ends /\ phase[t] = "link" => pc'[t] = "send"
      /\ ends /\ phase[t] = "addr" => pc'[t] = "interpret"
  <2> HIDE DEF ends, d
  <2> QED
    BY <1>0, <1>5, <1>7 DEF Domains
<1>10. ends => cursor[t] = 0
  BY <1>0, <1>3 DEF ThreadInv, Progressing
<1> HIDE DEF ends, d
<1> DEFINE new == replies[t][phase[t]] \o d.msgs
<1>11. new \in Seq(Indices) /\ new \o <<>> = new
  BY <1>4, <1>7
<1>12. /\ replies'[t] \in Replies /\ replies'[t][phase[t]] = new
       /\ phase[t] = "link" => replies'[t].addr = replies[t].addr /\ replies'[t].link = new
       /\ phase[t] = "addr" => replies'[t].link = replies[t].link /\ replies'[t].addr = new
  <2>1. new \in Seq(Indices) /\ replies'[t] = [replies[t] EXCEPT ![phase[t]] = new]
    BY <1>9, <1>11
  <2> HIDE DEF new
  <2> QED
    BY <1>7, <2>1 DEF Replies
<1>13. ~cut[t] => Lists(t, new, Answered(t))
  BY <1>0, <1>3 DEF ThreadInv, Progressing, InHand, d
<1> HIDE DEF new
<1>14. Shape(t)'
  <2>1. pc'[t] \in {"recv", "send", "interpret"} /\ phase'[t] \in {"link", "addr"}
    BY <1>7, <1>9
  <2> QED
    BY <1>0, <1>6, <1>8, <1>12, <2>1 DEF ThreadInv, Shape
<1>15. InTurn(t)' /\ Accounted(t)'
  <2>1. phase[t] = "link" => replies[t].addr = <<>>
    BY <1>0 DEF ThreadInv, InTurn
  <2>2. ~ends => InTurn(t)'
    BY <1>9, <1>12, <2>1 DEF InTurn
  <2>3. ends => InTurn(t)'
    BY <1>6, <1>7, <1>8, <1>9, <1>10, <1>12, <2>1 DEF InTurn
  <2>4. pc'[t] \in {"recv", "send", "interpret"} /\ lost[t] = 0
    BY <1>0, <1>3, <1>7, <1>9 DEF ThreadInv, Accounted
  <2> QED
    BY <1>6, <2>2, <2>3, <2>4 DEF Accounted
<1>16. \A s, b : Lists(t, s, b) => Lists(t, s, b)'
  BY <1>6 DEF Lists
<1>17. Progressing(t)'
  <2>1. stable'[t] \subseteq up' /\ up' \subseteq seen'[t]
    BY <1>0, <1>1, <1>3, <1>6 DEF ThreadInv, Progressing
  <2>2. InHand(t)' = <<>> /\ Answered(t)' = Answered(t) /\ (ends => Answered(t) = LastIndex + 1)
    BY <1>6, <1>8, <1>10 DEF InHand, Answered
  <2>3. ~cut[t] /\ phase[t] = "addr" => Lists(t, replies[t].link, LastIndex + 1)
    BY <1>0 DEF ThreadInv, Progressing
  <2>4. CASE ~ends
    <3>1. phase'[t] = phase[t] /\ pc'[t] = "recv" /\ replies'[t][phase'[t]] \o InHand(t)' = new
      BY <1>9, <1>11, <1>12, <2>2, <2>4
    <3> QED
      BY <1>6, <1>8, <1>12, <1>13, <1>16, <2>1, <2>2, <2>3, <3>1 DEF Progressing
  <2>5. CASE ends /\ phase[t] = "link"
    BY <1>6, <1>8, <1>9, <1>12, <1>13, <1>16, <2>1, <2>2, <2>5 DEF Progressing
  <2>6. CASE ends /\ phase[t] = "addr"
    BY <1>6, <1>8, <1>9, <1>12, <1>13, <1>16, <2>1, <2>2, <2>3, <2>6 DEF Progressing
  <2> QED
    BY <1>7, <2>4, <2>5, <2>6
<1>18. Result(t)'
  BY <1>0, <1>6, ResultStays DEF ThreadInv
<1> QED
  BY <1>1, <1>2, <1>14, <1>15, <1>17, <1>18, OneThread DEF ThreadInv

LEMMA ReceiveTruncatedStep ==
  ASSUME IInv, NEW t \in Threads, ReceiveTruncated(t)
  PROVE  IInv'
<1> USE DEF ReceiveTruncated, kernel
<1>0. Domains /\ ThreadInv(t) /\ up \subseteq Indices
  BY DEF IInv
<1>1. Domains' /\ up' = up
  BY <1>0 DEF Domains
<1>2. \A u \in Threads \ {t} : Same(u)
  BY <1>0 DEF Same, Domains
<1>8. queue'[t] = <<>>
  <2>1. PICK d : queue[t] = <<d>>
    BY <1>0 DEF ThreadInv, Shape
  <2>2. queue'[t] = Tail(queue[t])
    BY <1>0 DEF Domains
  <2> QED
    BY <2>1, <2>2, OneDatagram
<1>3. /\ pc[t] = "recv" /\ queue'[t] = <<>> /\ cut'[t] = TRUE
      /\ pc'[t] = pc[t] /\ ifap'[t] = ifap[t] /\ ret'[t] = ret[t]
      /\ stable'[t] = stable[t] /\ seen'[t] = seen[t] /\ port'[t] = port[t]
      /\ cursor'[t] = cursor[t] /\ phase'[t] = phase[t] /\ replies'[t] = replies[t]
      /\ lost'[t] = lost[t]
  BY <1>0, <1>8 DEF Domains
<1>4. Shape(t)'
  BY <1>0, <1>3 DEF ThreadInv, Shape
<1>5. InTurn(t)' /\ Accounted(t)'
  BY <1>0, <1>3 DEF ThreadInv, InTurn, Accounted
<1>6. Progressing(t)'
  BY <1>0, <1>1, <1>3 DEF ThreadInv, Progressing
<1>7. Result(t)'
  BY <1>0, <1>3, ResultStays DEF ThreadInv
<1> QED
  BY <1>1, <1>2, <1>4, <1>5, <1>6, <1>7, OneThread DEF ThreadInv

\* getResultList gives up: its list is freed or was not begun, and at most the reply
\* in hand is lost.
LEMMA GivesUpStep ==
  ASSUME IInv, NEW t \in Threads, pc[t] \in {"send", "recv"}, Goto(t, "nolist"),
         replies'[t] = [replies[t] EXCEPT ![phase[t]] = <<>>] \/
           (pc[t] = "send" /\ replies'[t] = replies[t]),
         Domains', \A u \in Threads \ {t} : Same(u),
         up' = up, cursor' = cursor, port' = port, phase' = phase,
         ifap' = ifap, ret' = ret, stable' = stable, seen' = seen, cut' = cut,
         queue'[t] \in {queue[t], <<>>}, lost'[t] \in {lost[t], lost[t] + 1}
  PROVE  IInv'
<1>0. Domains /\ ThreadInv(t) /\ up \subseteq Indices
  BY DEF IInv
<1>1. pc'[t] = "nolist"
  BY <1>0 DEF Domains, Goto
<1>2. /\ phase[t] \in {"link", "addr"} /\ replies[t] \in Replies /\ lost[t] = 0
      /\ phase[t] = "link" => replies[t].addr = <<>>
      /\ pc[t] = "send" => replies[t].addr = <<>> /\ (phase[t] = "link" => replies[t].link = <<>>)
  BY <1>0 DEF ThreadInv, Shape, InTurn, Accounted
<1>3. /\ replies'[t] \in Replies /\ replies'[t].addr = <<>>
      /\ phase[t] = "link" => replies'[t].link = <<>>
      /\ phase[t] = "addr" => replies'[t].link = replies[t].link
  <2>1. CASE replies'[t] = [replies[t] EXCEPT ![phase[t]] = <<>>]
    <3>1. <<>> \in Seq(Indices)
      OBVIOUS
    <3>2. CASE phase[t] = "link"
      BY <1>2, <2>1, <3>1, <3>2 DEF Replies
    <3>3. CASE phase[t] = "addr"
      BY <1>2, <2>1, <3>1, <3>3 DEF Replies
    <3> QED
      BY <1>2, <3>2, <3>3
  <2>2. CASE pc[t] = "send" /\ replies'[t] = replies[t]
    BY <1>2, <2>2
  <2> QED
    BY <2>1, <2>2
<1>4. Shape(t)'
  BY <1>0, <1>1, <1>3 DEF ThreadInv, Shape
<1>5. InTurn(t)' /\ Accounted(t)'
  BY <1>1, <1>2, <1>3 DEF InTurn, Accounted
<1>6. Progressing(t)'
  <2>1. \A s, b : Lists(t, s, b) => Lists(t, s, b)'
    BY DEF Lists
  <2> QED
    BY <1>0, <1>1, <1>3, <2>1 DEF ThreadInv, Progressing
<1>7. Result(t)'
  BY <1>0, ResultStays DEF ThreadInv
<1> QED
  BY <1>4, <1>5, <1>6, <1>7, OneThread DEF ThreadInv

LEMMA FailsStep ==
  ASSUME IInv, NEW t \in Threads, SendFails(t) \/ ReceiveFails(t) \/ ItemFails(t)
  PROVE  IInv'
<1>0. Domains /\ ThreadInv(t)
  BY DEF IInv
<1>1. CASE SendFails(t)
  <2>1. Domains' /\ \A u \in Threads \ {t} : Same(u)
    BY <1>0, <1>1 DEF Domains, Same, SendFails, Goto, kernel, socket, history
  <2> QED
    BY <1>1, <2>1, GivesUpStep DEF SendFails, kernel, socket, history
<1>2. CASE ReceiveFails(t)
  <2>1. Domains' /\ \A u \in Threads \ {t} : Same(u)
    BY <1>0, <1>2 DEF Domains, Same, ReceiveFails, FreesItsList, Goto, kernel, socket, history
  <2>2. replies'[t] = [replies[t] EXCEPT ![phase[t]] = <<>>]
    BY <1>0, <1>2 DEF Domains, ReceiveFails, FreesItsList
  <2> QED
    BY <1>2, <2>1, <2>2, GivesUpStep DEF ReceiveFails, kernel, socket, history
<1>3. CASE ItemFails(t)
  <2>1. Domains' /\ \A u \in Threads \ {t} : Same(u)
    BY <1>0, <1>3 DEF Domains, Same, ItemFails, FreesItsList, Goto, kernel
  <2>2. /\ replies'[t] = [replies[t] EXCEPT ![phase[t]] = <<>>]
        /\ lost'[t] = lost[t] + 1
    BY <1>0, <1>3 DEF Domains, ItemFails, FreesItsList
  <2>3. queue'[t] = <<>>
    <3>1. PICK d : queue[t] = <<d>>
      BY <1>0, <1>3 DEF ThreadInv, Shape, ItemFails
    <3>2. queue'[t] = Tail(queue[t])
      BY <1>0, <1>3 DEF Domains, ItemFails
    <3> QED
      BY <3>1, <3>2, OneDatagram
  <2> QED
    BY <1>3, <2>1, <2>2, <2>3, GivesUpStep DEF ItemFails, kernel
<1> QED
  BY <1>1, <1>2, <1>3

\* A call returns, from either end of getifaddrs.
LEMMA ReturnStep ==
  ASSUME IInv, NEW t \in Threads, NoList(t) \/ Finish(t)
  PROVE  IInv'
<1> USE DEF Close, Goto, kernel, history
<1>0. Domains /\ ThreadInv(t) /\ up \subseteq Indices
  BY DEF IInv
<1>1. Domains' /\ up' = up
  <2>1. CASE NoList(t)
    BY <1>0, <2>1 DEF Domains, NoList, FreesLinks
  <2>2. CASE Finish(t)
    BY <1>0, <2>2 DEF Domains, Finish
  <2> QED
    BY <2>1, <2>2
<1>2. \A u \in Threads \ {t} : Same(u)
  <2>1. CASE NoList(t)
    BY <1>0, <2>1 DEF Same, Domains, NoList, FreesLinks
  <2>2. CASE Finish(t)
    BY <1>0, <2>2 DEF Same, Domains, Finish
  <2> QED
    BY <2>1, <2>2
<1>3. /\ pc'[t] = "idle" /\ port'[t] = NoPort /\ cursor'[t] = 0 /\ queue'[t] = <<>>
      /\ phase'[t] = "link" /\ ifap' = ifap /\ stable' = stable /\ seen' = seen
      /\ cut' = cut /\ lost' = lost
      /\ ret'[t] = "-1" \/ (ret'[t] = ret[t] /\ pc[t] = "finish")
  BY <1>0 DEF Domains, NoList, Finish
<1>4. NoReplies.link = <<>> /\ NoReplies.addr = <<>> /\ NoReplies \in Replies
  BY DEF NoReplies, Replies
<1>5. replies'[t] \in Replies /\ replies'[t].link = <<>> /\ replies'[t].addr = <<>>
  <2>1. CASE Finish(t)
    <3>1. replies'[t] = NoReplies
      BY <1>0, <2>1 DEF Domains, Finish
    <3> QED
      BY <1>4, <3>1
  <2>2. CASE NoList(t) /\ phase[t] = "addr"
    <3>1. replies'[t] = [replies[t] EXCEPT !.link = <<>>]
      BY <1>0, <2>2 DEF Domains, NoList, FreesLinks
    <3>2. replies[t] \in Replies /\ replies[t].addr = <<>>
      BY <1>0, <2>2 DEF ThreadInv, Shape, InTurn, NoList
    <3> QED
      BY <3>1, <3>2 DEF Replies
  <2>3. CASE NoList(t) /\ phase[t] # "addr"
    <3>1. replies'[t] = replies[t] /\ phase[t] = "link"
      BY <1>0, <2>3 DEF ThreadInv, Shape, NoList
    <3> QED
      BY <1>0, <2>3, <3>1 DEF ThreadInv, Shape, InTurn, NoList
  <2> QED
    BY <2>1, <2>2, <2>3
<1>6. Shape(t)'
  BY <1>0, <1>3, <1>5, IfAddrsAssumption DEF ThreadInv, Shape
<1>7. InTurn(t)' /\ Accounted(t)'
  BY <1>0, <1>3, <1>5 DEF ThreadInv, InTurn, Accounted
<1>8. Progressing(t)'
  BY <1>3 DEF Progressing
<1>9. Result(t)'
  BY <1>0, <1>3, ResultStays DEF ThreadInv
<1> QED
  BY <1>1, <1>2, <1>6, <1>7, <1>8, <1>9, OneThread DEF ThreadInv

\* All entries, once both lists are ended: the interfaces that stayed, and none twice.
LEMMA AllEntries ==
  ASSUME NEW t, NEW links \in Seq(Indices), NEW addrs \in Seq(Indices), NEW attributes \in Attributes,
         ifap'[t] = Entries(links, addrs, attributes), LastIndex \in Nat,
         ~cut'[t] => Lists(t, links, LastIndex + 1) /\ Lists(t, addrs, LastIndex + 1),
         stable[t] \subseteq Indices, stable'[t] = stable[t], seen'[t] = seen[t]
  PROVE  Result(t)'
<1> DEFINE k == Len(links)
           m == Len(addrs)
<1>1. k \in Nat /\ m \in Nat /\ Len(ifap'[t]) = k + m
  BY EntriesInOrder
<1>2. /\ NamedOf(t)' /\ LocalOf(t)'
      /\ Of(t, "link")' = 1..k /\ Of(t, "addr")' = k + 1..k + m
      /\ IndicesOf(t, "link")' = ToSet(links) /\ IndicesOf(t, "addr")' = ToSet(addrs)
  <2> DEFINE n == k + m
  <2>1. n \in Nat /\ n <= Len(links) + Len(addrs) /\ Len(ifap'[t]) = n /\ n = Len(links) + Len(addrs)
    BY <1>1
  <2>2. \A j \in 1..n : ifap'[t][j] = Entries(links, addrs, attributes)[j]
    OBVIOUS
  <2> HIDE DEF n
  <2> QED
    BY <2>1, <2>2, FirstEntries
<1>3. ASSUME NEW s, Lists(t, s, LastIndex + 1)
      PROVE  stable'[t] \subseteq ToSet(s) /\ ToSet(s) \subseteq seen'[t]
  <2>1. \A i \in stable[t] : i < LastIndex + 1
    BY DEF Indices
  <2> QED
    BY <1>3, <2>1 DEF Lists
<1>4. ASSUME ~cut'[t]
      PROVE  /\ Cardinality(1..k) = Cardinality(ToSet(links))
             /\ Cardinality(k + 1..k + m) = Cardinality(ToSet(addrs))
  <2>1. Ascending(links) /\ Ascending(addrs)
    BY <1>4 DEF Lists
  <2>2. Cardinality(0 + 1..0 + Len(links)) = Cardinality(ToSet(links))
    BY <2>1, NoneTwice
  <2>3. Cardinality(k + 1..k + m) = Cardinality(ToSet(addrs))
    BY <1>1, <2>1, NoneTwice
  <2> QED
    BY <1>1, <2>2, <2>3
<1> HIDE DEF k, m
<1>5. ASSUME ~cut'[t], NEW kind \in {"link", "addr"}
      PROVE  /\ stable'[t] \subseteq IndicesOf(t, kind)'
             /\ IndicesOf(t, kind)' \subseteq seen'[t]
             /\ Cardinality(Of(t, kind)') = Cardinality(IndicesOf(t, kind)')
  <2>1. CASE kind = "link"
    BY <1>2, <1>3, <1>4, <1>5, <2>1
  <2>2. CASE kind = "addr"
    BY <1>2, <1>3, <1>4, <1>5, <2>2
  <2> QED
    BY <2>1, <2>2
<1> QED
  BY <1>2, <1>5 DEF Result, CompleteOf

LEMMA InterpretStep ==
  ASSUME IInv, NEW t \in Threads, Interpret(t)
  PROVE  IInv'
<1>0. Domains /\ ThreadInv(t) /\ LastIndex \in Nat
  BY IfAddrsAssumption DEF IInv
<1> DEFINE links == replies[t].link
           addrs == replies[t].addr
<1>1. links \in Seq(Indices) /\ addrs \in Seq(Indices) /\ stable[t] \subseteq Indices
  BY <1>0 DEF ThreadInv, Shape, Replies
<1>2. ~cut[t] => Lists(t, links, LastIndex + 1) /\ Lists(t, addrs, LastIndex + 1)
  BY <1>0 DEF ThreadInv, Progressing, InTurn, Interpret
<1>3. PICK attributes \in Attributes, n \in 0..2 * LastIndex :
        LET all == Entries(links, addrs, attributes) IN
        \/ n = Len(all) /\ ifap' = [ifap EXCEPT ![t] = all] /\ ret' = [ret EXCEPT ![t] = "0"]
        \/ /\ n < Len(all) /\ ifap' = [ifap EXCEPT ![t] = SubSeq(all, 1, n)]
           /\ ret' = [ret EXCEPT ![t] = "-1"]
  BY DEF Interpret
<1> DEFINE all == Entries(links, addrs, attributes)
<1>4. /\ pc[t] = "interpret" /\ pc' = [pc EXCEPT ![t] = "finish"] /\ up' = up
      /\ cursor' = cursor /\ queue' = queue /\ port' = port /\ phase' = phase
      /\ replies' = replies /\ size' = size
      /\ stable' = stable /\ seen' = seen /\ cut' = cut /\ lost' = lost
  BY DEF Interpret, Goto, kernel, socket, history
<1>5. Domains' /\ \A u \in Threads \ {t} : Same(u)
  BY <1>0, <1>3, <1>4 DEF Domains, Same
<1> HIDE DEF links, addrs
<1>6. Result(t)'
  <2>1. CASE n = Len(all) /\ ifap' = [ifap EXCEPT ![t] = all]
    <3>1. ifap'[t] = Entries(links, addrs, attributes)
      BY <1>0, <2>1 DEF Domains
    <3> QED
      BY <1>0, <1>1, <1>2, <1>4, <3>1, AllEntries
  <2>2. CASE /\ n < Len(all) /\ ifap' = [ifap EXCEPT ![t] = SubSeq(all, 1, n)]
             /\ ret' = [ret EXCEPT ![t] = "-1"]
    <3>1. ifap'[t] = SubSeq(all, 1, n) /\ ret'[t] = "-1"
      BY <1>0, <2>2 DEF Domains
    <3>2. n \in Nat /\ Len(all) = Len(links) + Len(addrs) /\ n <= Len(links) + Len(addrs)
      BY <1>0, <1>1, <2>2, EntriesInOrder
    <3>3. Len(ifap'[t]) = n /\ \A j \in 1..n : ifap'[t][j] = all[j]
      <4>1. Len(SubSeq(all, 1, n)) = n /\ \A j \in 1..n : SubSeq(all, 1, n)[j] = all[j]
        <5> HIDE DEF all
        <5> QED
          BY <2>2, <3>2
      <4> QED
        BY <3>1, <4>1
    <3>4. NamedOf(t)' /\ LocalOf(t)'
      BY <1>1, <3>2, <3>3, FirstEntries
    <3> QED
      BY <3>1, <3>4 DEF Result, CompleteOf
  <2> QED
    BY <1>3, <2>1, <2>2
<1> HIDE DEF all
<1>7. pc'[t] = "finish"
  BY <1>0, <1>4 DEF Domains
<1>8. Shape(t)'
  BY <1>0, <1>4, <1>7 DEF ThreadInv, Shape
<1>9. InTurn(t)' /\ Accounted(t)'
  BY <1>0, <1>4, <1>7 DEF ThreadInv, InTurn, Accounted
<1>10. Progressing(t)'
  <2>1. \A s, b : Lists(t, s, b) => Lists(t, s, b)'
    BY <1>4 DEF Lists
  <2> QED
    BY <1>0, <1>4, <1>7, <2>1 DEF ThreadInv, InTurn, Progressing
<1> QED
  BY <1>0, <1>4, <1>5, <1>6, <1>8, <1>9, <1>10, OneThread DEF ThreadInv

LEMMA FreeIfAddrsStep ==
  ASSUME IInv, NEW t \in Threads, FreeIfAddrs(t)
  PROVE  IInv'
<1> USE DEF FreeIfAddrs, kernel, socket
<1>0. Domains /\ ThreadInv(t) /\ up \subseteq Indices
  BY DEF IInv
<1>1. Domains' /\ up' = up
  BY <1>0 DEF Domains
<1>2. \A u \in Threads \ {t} : Same(u)
  BY <1>0 DEF Same, Domains
<1>3. /\ pc[t] = "idle" /\ pc'[t] = pc[t] /\ ifap'[t] = <<>> /\ ret'[t] = "none"
      /\ stable'[t] = {} /\ seen'[t] = {} /\ port'[t] = port[t]
      /\ cursor'[t] = cursor[t] /\ queue'[t] = queue[t]
      /\ phase'[t] = phase[t] /\ replies'[t] = replies[t] /\ lost'[t] = 0
  BY <1>0 DEF Domains
<1>4. Shape(t)'
  BY <1>0, <1>3 DEF ThreadInv, Shape
<1>5. InTurn(t)' /\ Accounted(t)'
  BY <1>0, <1>3 DEF ThreadInv, InTurn, Accounted
<1>6. Progressing(t)'
  BY <1>0, <1>3 DEF ThreadInv, InTurn, Progressing
<1>7. Result(t)'
  BY <1>3, EmptyResult
<1> QED
  BY <1>1, <1>2, <1>4, <1>5, <1>6, <1>7, OneThread DEF ThreadInv

\* An interface comes or goes: what is listed may be out of date, the interfaces
\* that stay are listed still.
LEMMA ChangeStep ==
  ASSUME IInv, NEW i \in Indices, Change(i)
  PROVE  IInv'
<1> USE DEF Change, socket
<1>0. Domains /\ up \subseteq Indices /\ up' \subseteq Indices
  BY DEF IInv
<1>1. Domains'
  BY <1>0 DEF Domains
<1>2. ASSUME NEW t \in Threads
      PROVE  ThreadInv(t)'
  <2>0. ThreadInv(t)
    BY DEF IInv
  <2>1. /\ stable'[t] = stable[t] \cap up'
        /\ seen'[t] = IF pc[t] = "idle" THEN seen[t] ELSE seen[t] \cup up'
        /\ stable'[t] \subseteq stable[t] /\ seen[t] \subseteq seen'[t]
    OBVIOUS
  <2>2. Shape(t)'
    BY <1>0, <2>0, <2>1 DEF ThreadInv, Shape
  <2>3. InTurn(t)' /\ Accounted(t)'
    BY <2>0 DEF ThreadInv, InTurn, Accounted
  <2>4. InHand(t)' = InHand(t) /\ Answered(t)' = Answered(t)
    BY DEF InHand, Answered
  <2>5. \A s, b : Lists(t, s, b) => Lists(t, s, b)'
    BY <2>1, ListsLast DEF Lists
  <2>6. Progressing(t)'
    BY <2>0, <2>1, <2>4, <2>5 DEF ThreadInv, Progressing
  <2>7. Result(t)'
    BY <2>0, <2>1, ResultStays DEF ThreadInv
  <2> QED
    BY <2>2, <2>3, <2>6, <2>7 DEF ThreadInv
<1> QED
  BY <1>0, <1>1, <1>2 DEF IInv

LEMMA InitIInv == Init => IInv
<1> SUFFICES ASSUME Init PROVE IInv
  OBVIOUS
<1> USE DEF Init
<1>1. Domains /\ up \subseteq Indices
  BY DEF Domains
<1>2. ASSUME NEW t \in Threads PROVE ThreadInv(t)
  <2>1. Shape(t)
    BY IfAddrsAssumption DEF Shape, NoReplies, Replies
  <2>2. InTurn(t) /\ Accounted(t)
    BY DEF InTurn, Accounted, NoReplies
  <2>3. Progressing(t)
    BY DEF Progressing
  <2>4. Result(t)
    <3>1. Of(t, "addr") = {}
      BY DEF Of
    <3> QED
      BY <3>1 DEF Result, CompleteOf, NamedOf, LocalOf
  <2> QED
    BY <2>1, <2>2, <2>3, <2>4 DEF ThreadInv
<1> QED
  BY <1>1, <1>2 DEF IInv

LEMMA StepKeepsIInv == IInv /\ [Next]_vars => IInv'
<1> SUFFICES ASSUME IInv, [Next]_vars PROVE IInv'
  OBVIOUS
<1>1. ASSUME NEW t \in Threads, Progress(t) PROVE IInv'
  BY <1>1, SocketStep, SendStep, FillStep, ReceiveStep, ReceiveTruncatedStep, InterpretStep,
     ReturnStep DEF Progress
<1>2. ASSUME NEW t \in Threads, Call(t) \/ Failure(t) \/ FreeIfAddrs(t) PROVE IInv'
  BY <1>2, CallStep, SocketFailsStep, FailsStep, FreeIfAddrsStep DEF Failure
<1>3. ASSUME NEW i \in Indices, Change(i) PROVE IInv'
  BY <1>3, ChangeStep
<1>4. CASE UNCHANGED vars
  <2> USE <1>4 DEF vars
  <2>1. Domains' /\ up' = up
    BY DEF IInv, Domains
  <2>2. \A u \in Threads : Same(u)
    BY DEF Same
  <2>3. \A u \in Threads : ThreadInv(u)'
    BY <2>1, <2>2, OtherThread DEF IInv
  <2> QED
    BY <2>1, <2>3 DEF IInv
<1> QED
  BY <1>1, <1>2, <1>3, <1>4 DEF Next

-----------------------------------------------------------------------------
(* The theorems                                                            *)

\* The inductive invariant: each list of replies, with the datagram on its way, says
\* which interfaces there are below the kernel's cursor.
THEOREM IfAddrsInvariant == Spec => []IInv
BY InitIInv, StepKeepsIInv, PTL DEF Spec

\* A call that succeeds returns every link and address that stayed, none that never
\* was, and none twice, for any interleaving of calls, answers and changes.
THEOREM IfAddrsComplete == Spec => []Complete
<1>1. IInv => Complete
  BY DEF IInv, ThreadInv, Result, CompleteOf, Complete
<1> QED
  BY <1>1, IfAddrsInvariant, PTL

\* Links come before addresses, which have their names, also in part of a list.
THEOREM IfAddrsNamed == Spec => []NamedByLink
<1>1. IInv => NamedByLink
  BY DEF IInv, ThreadInv, Result, NamedOf, NamedByLink
<1> QED
  BY <1>1, IfAddrsInvariant, PTL

\* The address of an entry is the local one, for each order of the attributes.
THEOREM IfAddrsLocal == Spec => []LocalIsTheAddress
<1>1. IInv => LocalIsTheAddress
  BY DEF IInv, ThreadInv, Result, LocalOf, LocalIsTheAddress
<1> QED
  BY <1>1, IfAddrsInvariant, PTL

\* A call that has returned has closed its socket and freed both lists, on every path
\* through its cleanup, and only a call that failed may have lost a reply, and only one.
THEOREM IfAddrsLeaksNothing == Spec => []NothingLeaks
<1>1. IInv => NothingLeaks
  <2> SUFFICES ASSUME IInv, NEW t \in Threads, pc[t] = "idle"
               PROVE  /\ port[t] = NoPort /\ cursor[t] = 0 /\ queue[t] = <<>>
                      /\ replies[t] = NoReplies
                      /\ lost[t] = 0 \/ (lost[t] = 1 /\ ret[t] = "-1")
    BY DEF NothingLeaks
  <2>1. Shape(t) /\ InTurn(t) /\ Accounted(t)
    BY DEF IInv, ThreadInv
  <2>2. /\ port[t] = NoPort /\ cursor[t] = 0 /\ queue[t] = <<>>
        /\ replies[t].link = <<>> /\ replies[t].addr = <<>> /\ replies[t] \in Replies
    BY <2>1 DEF Shape, InTurn
  <2>3. replies[t] = NoReplies
    BY <2>2 DEF Replies, NoReplies
  <2> QED
    BY <2>1, <2>2, <2>3 DEF Accounted
<1> QED
  BY <1>1, IfAddrsInvariant, PTL

=============================================================================
