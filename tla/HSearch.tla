------------------------------ MODULE HSearch ------------------------------
(***************************************************************************)
(* The hash table of <search.h>: hcreate.c, hcreate_r.c, hdestroy_r.c and  *)
(* hsearch_r.c, through the interface of the one global table.             *)
(*                                                                         *)
(* An open-addressed table with quadratic probing that doubles when it is  *)
(* half full.  The code is sequential.  A probe loop is one step: it stops *)
(* at the first position that fits, and the model is stuck where the code  *)
(* would loop for ever.  The copy into a larger table takes one step for   *)
(* each old entry.  hcreate does nothing (hcreate.c:45-49), so it has no   *)
(* action.                                                                 *)
(***************************************************************************)
EXTENDS Integers, FiniteSets

CONSTANTS Keys, Data,
          Absent,      \* the NULL pointer: no key, no data, no request
          InitCount,   \* entries of a new table (16), a power of two
          Hashes       \* what hsearch_hash may be: one function for each offset_basis

\* No odd number but 1 divides it.
PowerOfTwo(n) == n > 0 /\ \A d \in 1..n : n % d = 0 => d = 1 \/ d % 2 = 0

ASSUME HSearchAssumption ==
  /\ InitCount \in Nat \ {0, 1} /\ PowerOfTwo(InitCount)
  /\ Hashes # {} /\ Hashes \subseteq [Keys -> Nat]
  /\ Absent \notin Keys /\ Absent \notin Data
  /\ Absent \notin [action : {"FIND", "ENTER"}, key : Keys, data : Data]

VARIABLES initialized,   \* global_hashtable_initialized
          hash,          \* the hash of each key under the current offset_basis
          entries, index_mask, entries_used,
          old_entries,   \* the array being copied
          i,             \* the loop counter of the copy
          pc,
          request,       \* the arguments of the call under way
          reply          \* the data of the entry the last call returned

vars == <<initialized, hash, entries, index_mask, entries_used, old_entries, i,
          pc, request, reply>>

table == <<initialized, hash, entries, index_mask, entries_used>>

NullEntry == [key |-> Absent, data |-> Absent]
NewEntries(count) == [s \in 0..count - 1 |-> NullEntry]
NoEntries == [s \in {} |-> NullEntry]
NoHash == [k \in Keys |-> 0]

Init ==
  /\ initialized = FALSE
  /\ hash = NoHash
  /\ entries = NoEntries
  /\ index_mask = 0
  /\ entries_used = 0
  /\ old_entries = NoEntries
  /\ i = 0
  /\ pc = "idle"
  /\ request = Absent
  /\ reply = Absent

-----------------------------------------------------------------------------
(* The probe loops                                                         *)

\* Probing at the squares of n instead.
ProbeSquares(h, n, count) == (h + n * n) % count

\* The n-th index tried for a hash value: index += ++i sums up to n(n+1)/2, and
\* the mask is the remainder by a power of two.
Probe(h, n, count) == (h + (n * (n + 1)) \div 2) % count

Count == index_mask + 1

\* The loop stops at the n-th index: the first one among the indices sought.
StopsAt(h, n, sought) ==
  /\ Probe(h, n, Count) \in sought
  /\ \A m \in 0..n - 1 : Probe(h, m, Count) \notin sought

IsFree(e) == e.key = Absent

FreeIndices == {s \in DOMAIN entries : IsFree(entries[s])}

PutFirst(h, e) == entries' = [entries EXCEPT ![Probe(h, 0, Count)] = e]

\* hsearch_lookup_free: store e at the first free index for the hash value h.
PutFree(h, e) ==
  \E n \in 0..index_mask :
    /\ StopsAt(h, n, FreeIndices)
    /\ entries' = [entries EXCEPT ![Probe(h, n, Count)] = e]

-----------------------------------------------------------------------------
(* hsearch: create the global table if there is none                       *)

Requests == [action : {"FIND", "ENTER"}, key : Keys, data : Data]

Return(d) ==
  /\ pc' = "idle"
  /\ request' = Absent
  /\ reply' = d

HSearchCall ==
  /\ pc = "idle"
  /\ request' \in Requests
  /\ pc' = IF initialized THEN "search" ELSE "create"
  /\ UNCHANGED <<table, old_entries, i, reply>>

CreateTable ==
  /\ pc = "create"
  /\ initialized' = TRUE
  /\ hash' \in Hashes
  /\ entries' = NewEntries(InitCount)
  /\ index_mask' = InitCount - 1
  /\ entries_used' = 0
  /\ pc' = "search"
  /\ UNCHANGED <<old_entries, i, request, reply>>

\* One of the two allocations of hcreate_r fails.
CreateFails ==
  /\ pc = "create"
  /\ Return(Absent)
  /\ UNCHANGED <<table, old_entries, i>>

-----------------------------------------------------------------------------
(* hsearch_r                                                               *)

Key == request.key

StopsSearch == FreeIndices \cup {s \in DOMAIN entries : entries[s].key = Key}

MissesAt(n) ==
  /\ pc = "search"
  /\ StopsAt(hash[Key], n, StopsSearch)
  /\ IsFree(entries[Probe(hash[Key], n, Count)])

\* The key is there: ENTER returns the old entry as it is.
Found ==
  /\ pc = "search"
  /\ \E n \in 0..index_mask :
       LET e == entries[Probe(hash[Key], n, Count)] IN
       /\ StopsAt(hash[Key], n, StopsSearch)
       /\ e.key = Key
       /\ Return(e.data)
  /\ UNCHANGED <<table, old_entries, i>>

NotFound ==
  /\ \E n \in 0..index_mask : MissesAt(n)
  /\ request.action = "FIND"
  /\ Return(Absent)
  /\ UNCHANGED <<table, old_entries, i>>

MustGrow(used, mask) == used * 2 >= mask

NewEntry == [key |-> Key, data |-> request.data]

Uncounted(used) == used

Counted(used) == used + 1

\* There is room: the entry goes to the index where the search stopped.
Insert ==
  /\ \E n \in 0..index_mask :
       /\ MissesAt(n)
       /\ entries' = [entries EXCEPT ![Probe(hash[Key], n, Count)] = NewEntry]
  /\ request.action = "ENTER"
  /\ ~MustGrow(entries_used, index_mask)
  /\ entries_used' = Counted(entries_used)
  /\ Return(request.data)
  /\ UNCHANGED <<initialized, hash, index_mask, old_entries, i>>

Grow ==
  /\ \E n \in 0..index_mask : MissesAt(n)
  /\ request.action = "ENTER"
  /\ MustGrow(entries_used, index_mask)
  /\ old_entries' = entries
  /\ entries' = NewEntries(2 * Count)
  /\ index_mask' = 2 * Count - 1
  /\ i' = 0
  /\ pc' = "copy"
  /\ UNCHANGED <<initialized, hash, entries_used, request, reply>>

\* calloc fails: the table stays as it was and the call returns NULL.
GrowFails ==
  /\ \E n \in 0..index_mask : MissesAt(n)
  /\ request.action = "ENTER"
  /\ MustGrow(entries_used, index_mask)
  /\ Return(Absent)
  /\ UNCHANGED <<table, old_entries, i>>

\* Copying each entry to the index it had instead of hashing it again.
OldIndex(e, s) == s

OldHash(e, s) == hash[e.key]

CopyEntry ==
  /\ pc = "copy"
  /\ i \in DOMAIN old_entries
  /\ IF IsFree(old_entries[i])
       THEN UNCHANGED entries
       ELSE PutFree(OldHash(old_entries[i], i), old_entries[i])
  /\ i' = i + 1
  /\ UNCHANGED <<initialized, hash, index_mask, entries_used, old_entries, pc,
                 request, reply>>

\* After the copy the old array is freed, and the new entry looks for its index
\* again: the one found before belongs to the old array.
InsertAfterGrowth ==
  /\ pc = "copy"
  /\ i \notin DOMAIN old_entries
  /\ old_entries' = NoEntries
  /\ PutFree(hash[Key], NewEntry)
  /\ entries_used' = Counted(entries_used)
  /\ i' = 0
  /\ Return(request.data)
  /\ UNCHANGED <<initialized, hash, index_mask>>

-----------------------------------------------------------------------------
(* hdestroy                                                                *)

HDestroy ==
  /\ pc = "idle"
  /\ initialized
  /\ initialized' = FALSE
  /\ hash' = NoHash
  /\ entries' = NoEntries
  /\ index_mask' = 0
  /\ entries_used' = 0
  /\ UNCHANGED <<old_entries, i, pc, request, reply>>

-----------------------------------------------------------------------------

Next ==
  \/ HSearchCall \/ CreateTable \/ CreateFails
  \/ Found \/ NotFound \/ Insert \/ Grow \/ GrowFails
  \/ CopyEntry \/ InsertAfterGrowth \/ HDestroy

Spec == Init /\ [][Next]_vars

-----------------------------------------------------------------------------

Used(f) == {s \in DOMAIN f : ~IsFree(f[s])}

Uncopied == {s \in Used(old_entries) : s >= i}

\* entries_used is the number of entries, also while they move to a new array:
\* the table neither loses one nor counts one twice, and is never more than half
\* full (hsearch_r.c:112-115).
UsedIsExact ==
  /\ entries_used = Cardinality(Used(entries)) + Cardinality(Uncopied)
  /\ entries_used * 2 <= Count

\* Every probe loop ends: from any start it comes to a free index, so that
\* neither a search for a missing key nor hsearch_lookup_free can loop for ever.
ProbesEnd ==
  initialized => \A h \in 0..index_mask : \E n \in 0..index_mask :
    IsFree(entries[Probe(h, n, Count)])

\* The entry a caller was given stays where it is, with its key and its data, for
\* as long as the array is the same.
EntriesStay ==
  [][DOMAIN entries' = DOMAIN entries =>
       \A s \in Used(entries) : entries'[s] = entries[s]]_vars

-----------------------------------------------------------------------------

Stored == {entries[s] : s \in Used(entries)} \cup {old_entries[s] : s \in Uncopied}

\* The data of each key that is in one of the two arrays.
Content == [k \in Keys |-> IF \E e \in Stored : e.key = k
                              THEN (CHOOSE e \in Stored : e.key = k).data
                              ELSE Absent]

Abstract == INSTANCE SearchTable WITH content <- Content

\* The table is the abstract one, whatever the hash function, the collisions and
\* the moment at which memory runs out.
ImplementsTable == Abstract!Spec

=============================================================================
