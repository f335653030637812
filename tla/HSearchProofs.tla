--------------------------- MODULE HSearchProofs ---------------------------
(***************************************************************************)
(* HSearch proved for any keys, data, hash functions and first size: the   *)
(* count of the entries is exact, an entry stays where it is, the probe    *)
(* loops end, and the table is the abstract one.                           *)
(***************************************************************************)
EXTENDS HSearch, FiniteSetTheorems, TLAPS

-----------------------------------------------------------------------------

UsedEntry == [key : Keys, data : Data]
Arrays(mask) == [0..mask -> UsedEntry \cup {NullEntry}]

Shape ==
  /\ initialized \in BOOLEAN
  /\ pc \in {"idle", "create", "search", "copy"}
  /\ index_mask \in Nat /\ entries_used \in Nat /\ i \in Nat
  /\ initialized => /\ entries \in Arrays(index_mask) /\ index_mask >= 1
                    /\ hash \in [Keys -> Nat]
  /\ ~initialized => entries = NoEntries /\ entries_used = 0
  /\ pc = "create" => ~initialized
  /\ pc \in {"search", "copy"} => initialized
  /\ IF pc = "idle" THEN request = Absent ELSE request \in Requests

\* During the copy the new array is twice as large as the old one, which is at most
\* half full.
Copying ==
  IF pc = "copy"
    THEN \E m \in Nat : /\ m >= 1 /\ index_mask = 2 * (m + 1) - 1
                        /\ old_entries \in Arrays(m) /\ entries_used * 2 <= m + 1
    ELSE old_entries = NoEntries

\* From its hash value an entry is reached before any free index.
UsedUpTo(f, h, n, count) == \A m \in 0..n - 1 : Probe(h, m, count) \in Used(f)

ReachableIn(f, hashes, count) ==
  \A s \in Used(f) : \E n \in Nat : /\ Probe(hashes[f[s].key], n, count) = s
                                   /\ UsedUpTo(f, hashes[f[s].key], n, count)

Reachable == initialized => ReachableIn(entries, hash, Count)

\* A key is stored with one data, and the key an ENTER is going to insert after the
\* copy is not stored yet.
OneEach(S) == \A e, f \in S : e.key = f.key => e = f

OneEntryPerKey ==
  /\ OneEach(Stored)
  /\ pc = "copy" => request.action = "ENTER" /\ \A e \in Stored : e.key # Key

IInv == Shape /\ Copying /\ UsedIsExact /\ Reachable /\ OneEntryPerKey

-----------------------------------------------------------------------------
(* The arrays                                                              *)

\* A probe is an index of the table.
LEMMA ProbeInRange ==
  ASSUME NEW h \in Nat, NEW n \in Nat, NEW count \in Nat \ {0}
  PROVE  Probe(h, n, count) \in 0..count - 1
BY DEF Probe

\* An index holds an entry with a key, or is free.
LEMMA UsedOrFree ==
  ASSUME NEW mask, NEW f \in Arrays(mask), NEW s \in 0..mask
  PROVE  /\ s \in Used(f) => f[s] \in UsedEntry /\ f[s].key \in Keys
         /\ s \notin Used(f) => IsFree(f[s]) /\ f[s].key = Absent
BY HSearchAssumption DEF Arrays, Used, IsFree, UsedEntry, NullEntry

\* An array holds finitely many entries.
LEMMA UsedIsFinite ==
  ASSUME NEW mask \in Nat, NEW f \in Arrays(mask), NEW S \in SUBSET Used(f)
  PROVE  IsFiniteSet(S) /\ Cardinality(S) \in Nat
<1>1. IsFiniteSet(0..mask)
  BY FS_Interval
<1>2. S \in SUBSET (0..mask)
  BY DEF Arrays, Used
<1> QED
  BY <1>1, <1>2, FS_Subset, FS_CardinalityType

\* An array with an entry put at a free index.
Put(f, s, e) == [f EXCEPT ![s] = e]

Entries(f) == {f[s] : s \in Used(f)}

\* It has one entry more, and the others are as they were.
LEMMA PutAtFreeIndex ==
  ASSUME NEW mask \in Nat, NEW f \in Arrays(mask), NEW s \in 0..mask, IsFree(f[s]),
         NEW e \in UsedEntry
  PROVE  /\ Put(f, s, e) \in Arrays(mask)
         /\ Used(Put(f, s, e)) = Used(f) \cup {s}
         /\ Cardinality(Used(Put(f, s, e))) = Cardinality(Used(f)) + 1
         /\ \A u \in Used(f) : Put(f, s, e)[u] = f[u]
         /\ Put(f, s, e)[s] = e
         /\ Entries(Put(f, s, e)) = Entries(f) \cup {e}
<1> DEFINE g == Put(f, s, e)
<1>1. g \in Arrays(mask) /\ s \notin Used(f) /\ g[s] = e /\ \A u \in 0..mask : u # s => g[u] = f[u]
  BY DEF Arrays, Used, Put
<1> HIDE DEF g
<1>2. ~IsFree(e)
  BY HSearchAssumption DEF UsedEntry, IsFree
<1>3. Used(g) = Used(f) \cup {s}
  BY <1>1, <1>2 DEF Used, Arrays
<1>4. Cardinality(Used(g)) = Cardinality(Used(f)) + 1
  BY <1>1, <1>3, UsedIsFinite, FS_AddElement
<1>5. \A u \in Used(f) : g[u] = f[u]
  BY <1>1 DEF Used, Arrays
<1>6. Entries(g) = Entries(f) \cup {e}
  BY <1>1, <1>3, <1>5 DEF Entries
<1> QED
  BY <1>1, <1>3, <1>4, <1>5, <1>6 DEF g

\* Arrays without entries.
LEMMA EmptyArrays ==
  /\ Used(NoEntries) = {}
  /\ \A count \in Nat \ {0} : NewEntries(count) \in Arrays(count - 1) /\ Used(NewEntries(count)) = {}
  /\ Cardinality({}) = 0
BY FS_EmptySet DEF Used, NoEntries, NewEntries, NullEntry, IsFree, Arrays

-----------------------------------------------------------------------------
(* The probe loops                                                         *)

\* An entry put at the first free index of its probes is reachable, and so are the
\* entries that were there.
LEMMA PutIsReachable ==
  ASSUME NEW mask \in Nat, NEW f \in Arrays(mask), NEW hashes \in [Keys -> Nat],
         NEW e \in UsedEntry, NEW n \in Nat, NEW s \in 0..mask,
         s = Probe(hashes[e.key], n, mask + 1), IsFree(f[s]),
         UsedUpTo(f, hashes[e.key], n, mask + 1), ReachableIn(f, hashes, mask + 1)
  PROVE  ReachableIn(Put(f, s, e), hashes, mask + 1)
<1> DEFINE g == Put(f, s, e)
<1>1. Used(g) = Used(f) \cup {s} /\ (\A u \in Used(f) : g[u] = f[u])
  BY PutAtFreeIndex
<1>2. g[s] = e
  BY PutAtFreeIndex
<1> HIDE DEF g
<1>3. \A h, k : UsedUpTo(f, h, k, mask + 1) => UsedUpTo(g, h, k, mask + 1)
  BY <1>1 DEF UsedUpTo
<1>4. \A u \in Used(f) : \E k \in Nat : /\ Probe(hashes[g[u].key], k, mask + 1) = u
                                        /\ UsedUpTo(g, hashes[g[u].key], k, mask + 1)
  BY <1>1, <1>3 DEF ReachableIn
<1>5. \E k \in Nat : /\ Probe(hashes[g[s].key], k, mask + 1) = s
                     /\ UsedUpTo(g, hashes[g[s].key], k, mask + 1)
  BY <1>2, <1>3
<1>6. ReachableIn(g, hashes, mask + 1)
  BY <1>1, <1>4, <1>5 DEF ReachableIn
<1> QED
  BY <1>6 DEF g

\* The indices before the one where a loop stopped are in use if it stops at the
\* free ones.
LEMMA UsedBefore ==
  ASSUME Shape, initialized, NEW h \in Nat, NEW n \in Nat, NEW S, FreeIndices \subseteq S,
         StopsAt(h, n, S)
  PROVE  UsedUpTo(entries, h, n, Count)
<1> SUFFICES ASSUME NEW m \in 0..n - 1 PROVE Probe(h, m, Count) \in Used(entries)
  BY DEF UsedUpTo
<1>1. m \in Nat /\ Count \in Nat \ {0} /\ entries \in Arrays(index_mask) /\ Count - 1 = index_mask
  BY DEF Shape, Count
<1>2. Probe(h, m, Count) \in 0..index_mask
  BY <1>1, ProbeInRange
<1>3. Probe(h, m, Count) \notin FreeIndices
  BY DEF StopsAt
<1> QED
  BY <1>1, <1>2, <1>3 DEF FreeIndices, Used, Arrays

\* A key for which the search stops at a free index is not stored.
LEMMA MissingKey ==
  ASSUME Shape, Copying, Reachable, NEW n \in 0..index_mask, MissesAt(n)
  PROVE  \A e \in Stored : e.key # Key
<1>0. /\ pc = "search" /\ initialized /\ old_entries = NoEntries
      /\ n \in Nat /\ Count \in Nat \ {0} /\ Count - 1 = index_mask
      /\ entries \in Arrays(index_mask)
      /\ ReachableIn(entries, hash, Count)
  BY DEF Shape, Copying, Reachable, MissesAt, Count
<1>1. Stored = {entries[s] : s \in Used(entries)}
  BY <1>0, EmptyArrays DEF Stored, Uncopied
<1> SUFFICES ASSUME NEW s \in Used(entries), entries[s].key = Key PROVE FALSE
  BY <1>1
<1>2. PICK k \in Nat : Probe(hash[Key], k, Count) = s /\ UsedUpTo(entries, hash[Key], k, Count)
  BY <1>0 DEF ReachableIn
<1>3. s \in StopsSearch /\ ~IsFree(entries[s])
  BY DEF StopsSearch, Used
<1>4. CASE k < n
  BY <1>0, <1>2, <1>3, <1>4 DEF MissesAt, StopsAt
<1>5. CASE k = n
  BY <1>2, <1>3, <1>5 DEF MissesAt
<1>6. CASE k > n
  <2>1. Probe(hash[Key], n, Count) \in Used(entries)
    BY <1>0, <1>2, <1>6 DEF UsedUpTo
  <2> QED
    BY <2>1 DEF MissesAt, Used
<1> QED
  BY <1>0, <1>2, <1>4, <1>5, <1>6

-----------------------------------------------------------------------------
(* The steps                                                               *)

\* What hsearch_lookup_free does to the array.
LEMMA PutFreeAdds ==
  ASSUME Shape, initialized, ReachableIn(entries, hash, Count), NEW e \in UsedEntry,
         PutFree(hash[e.key], e)
  PROVE  /\ entries' \in Arrays(index_mask)
         /\ Cardinality(Used(entries')) = Cardinality(Used(entries)) + 1
         /\ Entries(entries') = Entries(entries) \cup {e}
         /\ ReachableIn(entries', hash, Count)
         /\ \A s \in Used(entries) : entries'[s] = entries[s]
<1>0. /\ index_mask \in Nat /\ entries \in Arrays(index_mask) /\ hash \in [Keys -> Nat]
      /\ Count \in Nat \ {0} /\ Count = index_mask + 1 /\ Count - 1 = index_mask
      /\ hash[e.key] \in Nat
  BY DEF Shape, Count, UsedEntry
<1>1. PICK n \in 0..index_mask :
        /\ StopsAt(hash[e.key], n, FreeIndices)
        /\ entries' = [entries EXCEPT ![Probe(hash[e.key], n, Count)] = e]
  BY DEF PutFree
<1> DEFINE s == Probe(hash[e.key], n, Count)
<1>2. n \in Nat /\ s \in 0..index_mask
  <2>1. n \in Nat
    BY <1>0
  <2> QED
    BY <1>0, <2>1, ProbeInRange
<1>3. IsFree(entries[s])
  BY <1>1 DEF StopsAt, FreeIndices
<1>4. UsedUpTo(entries, hash[e.key], n, Count)
  BY <1>0, <1>1, <1>2, UsedBefore
<1> HIDE DEF s
<1>5. ReachableIn(Put(entries, s, e), hash, Count)
  BY <1>0, <1>2, <1>3, <1>4, PutIsReachable DEF s
<1>6. entries' = Put(entries, s, e)
  BY <1>1 DEF s, Put
<1> QED
  BY <1>0, <1>2, <1>3, <1>5, <1>6, PutAtFreeIndex

\* Outside of the copy the entries stored are those of the one array.
LEMMA StoredInOneArray ==
  (Copying /\ pc # "copy")
     => (old_entries = NoEntries /\ Uncopied = {} /\ Stored = Entries(entries))
BY EmptyArrays DEF Copying, Uncopied, Stored, Entries

\* The same after a step.
LEMMA StoredInOneArrayNext ==
  ((Copying /\ pc # "copy")
     => (old_entries = NoEntries /\ Uncopied = {} /\ Stored = Entries(entries)))'
BY StoredInOneArray, PTL

\* The steps that leave the table alone.
LEMMA TableStays ==
  ASSUME IInv, pc # "copy", pc' # "copy", UNCHANGED <<table, old_entries, i>>, Shape'
  PROVE  IInv' /\ Stored' = Stored
<1>1. Copying' /\ Uncopied' = Uncopied /\ Stored' = Stored
  BY DEF IInv, Copying, Uncopied, Stored, table
<1>2. UsedIsExact' /\ Reachable'
  BY <1>1 DEF IInv, UsedIsExact, Count, Reachable, table
<1>3. OneEntryPerKey'
  BY <1>1 DEF IInv, OneEntryPerKey
<1> QED
  BY <1>1, <1>2, <1>3 DEF IInv

\* A call changes nothing that is stored.
LEMMA CallStep ==
  ASSUME IInv, HSearchCall PROVE IInv' /\ Stored' = Stored
<1>1. Shape'
  BY DEF IInv, Shape, HSearchCall, table
<1> QED
  BY <1>1, TableStays DEF HSearchCall, table

\* Neither does the return of a call that enters nothing.
LEMMA ReturnStep ==
  ASSUME IInv, CreateFails \/ Found \/ NotFound \/ GrowFails PROVE IInv' /\ Stored' = Stored
<1>1. /\ pc \in {"create", "search"} /\ pc' = "idle" /\ request' = Absent
      /\ UNCHANGED <<table, old_entries, i>>
  BY DEF CreateFails, Found, NotFound, GrowFails, MissesAt, Return
<1>2. Shape'
  BY <1>1 DEF IInv, Shape, table
<1> QED
  BY <1>1, <1>2, TableStays

\* A new table is empty, as there was none.
LEMMA CreateStep ==
  ASSUME IInv, CreateTable PROVE IInv' /\ Stored' = Stored
<1>0. /\ pc = "create" /\ pc' = "search" /\ ~initialized /\ initialized'
      /\ entries' = NewEntries(InitCount) /\ InitCount \in Nat \ {0, 1}
      /\ index_mask' = InitCount - 1 /\ entries_used' = 0 /\ hash' \in [Keys -> Nat]
      /\ UNCHANGED <<old_entries, i, request, reply>>
      /\ entries = NoEntries
  BY HSearchAssumption DEF CreateTable, IInv, Shape
<1>1. entries' \in Arrays(index_mask') /\ Used(entries') = {}
  BY <1>0, EmptyArrays
<1>2. Shape'
  BY <1>0, <1>1 DEF IInv, Shape
<1>3. Copying'
  BY <1>0 DEF IInv, Copying
<1>4. Uncopied' = {} /\ Stored' = {} /\ Stored = {}
  BY <1>0, <1>1, <1>3, StoredInOneArray, StoredInOneArrayNext, EmptyArrays DEF IInv, Entries
<1>5. UsedIsExact'
  <2>1. Count' = InitCount
    BY <1>0 DEF Count
  <2> QED
    BY <1>0, <1>1, <1>4, <2>1, EmptyArrays DEF UsedIsExact
<1>6. Reachable' /\ OneEntryPerKey'
  BY <1>0, <1>1, <1>4 DEF Reachable, ReachableIn, OneEntryPerKey, OneEach
<1> QED
  BY <1>2, <1>3, <1>4, <1>5, <1>6 DEF IInv

\* hdestroy leaves nothing behind.
LEMMA DestroyStep ==
  ASSUME IInv, HDestroy PROVE IInv' /\ Stored' = {}
<1>0. /\ pc = "idle" /\ pc' = "idle" /\ initialized' = FALSE /\ entries' = NoEntries
      /\ index_mask' = 0 /\ entries_used' = 0
      /\ UNCHANGED <<old_entries, i, request>>
  BY DEF HDestroy
<1>1. Shape'
  BY <1>0 DEF IInv, Shape
<1>2. Copying'
  BY <1>0 DEF IInv, Copying
<1>3. Uncopied' = {} /\ Stored' = {}
  BY <1>0, <1>2, StoredInOneArrayNext, EmptyArrays DEF Entries
<1>4. UsedIsExact'
  <2>1. Count' = 1
    BY <1>0 DEF Count
  <2> QED
    BY <1>0, <1>3, <2>1, EmptyArrays DEF UsedIsExact
<1>5. Reachable' /\ OneEntryPerKey'
  BY <1>0, <1>3 DEF Reachable, OneEntryPerKey, OneEach
<1> QED
  BY <1>1, <1>2, <1>3, <1>4, <1>5 DEF IInv

\* The entries still to be copied, when the loop has come to the index j.
FromIndex(f, j) == {s \in Used(f) : s >= j}

\* The loop of the copy leaves one entry fewer to be copied, or passes over a free
\* index.
LEMMA OneFewer ==
  ASSUME NEW mask \in Nat, NEW f \in Arrays(mask), NEW j \in 0..mask
  PROVE  IF IsFree(f[j])
           THEN FromIndex(f, j + 1) = FromIndex(f, j)
           ELSE /\ Cardinality(FromIndex(f, j)) = Cardinality(FromIndex(f, j + 1)) + 1
                /\ {f[s] : s \in FromIndex(f, j)} = {f[s] : s \in FromIndex(f, j + 1)} \cup {f[j]}
<1>0. Used(f) \subseteq 0..mask /\ j \in Nat
  BY DEF Used, Arrays
<1>1. CASE IsFree(f[j])
  <2>1. j \notin Used(f)
    BY <1>1 DEF Used
  <2> QED
    BY <1>0, <1>1, <2>1 DEF FromIndex
<1>2. CASE ~IsFree(f[j])
  <2>1. j \in Used(f)
    BY <1>2 DEF Used, Arrays
  <2>2. FromIndex(f, j) = FromIndex(f, j + 1) \cup {j} /\ j \notin FromIndex(f, j + 1)
    BY <1>0, <2>1 DEF FromIndex
  <2>3. IsFiniteSet(FromIndex(f, j + 1)) /\ Cardinality(FromIndex(f, j + 1)) \in Nat
    BY UsedIsFinite DEF FromIndex
  <2>4. Cardinality(FromIndex(f, j)) = Cardinality(FromIndex(f, j + 1)) + 1
    BY <2>2, <2>3, FS_AddElement
  <2> QED
    BY <1>2, <2>2, <2>4
<1> QED
  BY <1>1, <1>2

\* An ENTER that finds room stores one entry, of a key that was not stored.
LEMMA InsertStep ==
  ASSUME IInv, Insert
  PROVE  /\ IInv' /\ Stored' = Stored \cup {NewEntry}
         /\ NewEntry \in UsedEntry /\ \A e \in Stored : e.key # Key
<1>1. PICK n \in 0..index_mask :
        /\ MissesAt(n)
        /\ entries' = [entries EXCEPT ![Probe(hash[Key], n, Count)] = NewEntry]
  BY DEF Insert
<1> DEFINE s == Probe(hash[Key], n, Count)
<1>0. /\ pc = "search" /\ pc' = "idle" /\ request' = Absent
      /\ UNCHANGED <<initialized, hash, index_mask, old_entries, i>>
      /\ entries_used * 2 < index_mask /\ entries_used' = entries_used + 1
      /\ Shape /\ Copying /\ UsedIsExact /\ Reachable /\ OneEntryPerKey
      /\ initialized /\ request \in Requests
      /\ index_mask \in Nat /\ entries \in Arrays(index_mask) /\ hash \in [Keys -> Nat]
      /\ entries_used \in Nat
      /\ Count \in Nat \ {0} /\ Count = index_mask + 1 /\ Count - 1 = index_mask
      /\ n \in Nat /\ ReachableIn(entries, hash, Count)
  BY <1>1 DEF Insert, MissesAt, Return, MustGrow, Counted, IInv, Shape, Reachable, Count
<1>2. NewEntry \in UsedEntry /\ NewEntry.key = Key /\ Key \in Keys /\ hash[Key] \in Nat
  BY <1>0 DEF NewEntry, UsedEntry, Requests, Key
<1>3. \A e \in Stored : e.key # Key
  BY <1>0, <1>1, MissingKey
<1>4. s \in 0..index_mask
  BY <1>0, <1>2, ProbeInRange
<1>5. IsFree(entries[s]) /\ UsedUpTo(entries, hash[Key], n, Count)
  <2>1. FreeIndices \subseteq StopsSearch
    BY DEF StopsSearch
  <2>2. StopsAt(hash[Key], n, StopsSearch) /\ IsFree(entries[s])
    BY <1>1 DEF MissesAt
  <2> QED
    BY <1>0, <1>2, <2>1, <2>2, UsedBefore
<1>6. entries' = Put(entries, s, NewEntry)
  BY <1>1 DEF Put
<1> HIDE DEF s
<1>7. ReachableIn(entries', hash, Count)
  BY <1>0, <1>2, <1>4, <1>5, <1>6, PutIsReachable DEF s
<1>8. /\ entries' \in Arrays(index_mask)
      /\ Cardinality(Used(entries')) = Cardinality(Used(entries)) + 1
      /\ Entries(entries') = Entries(entries) \cup {NewEntry}
  BY <1>0, <1>2, <1>4, <1>5, <1>6, PutAtFreeIndex
<1>9. Shape' /\ Copying' /\ Reachable'
  BY <1>0, <1>7, <1>8 DEF Shape, Copying, Reachable, Count
<1>10. /\ Uncopied = {} /\ Stored = Entries(entries)
       /\ Uncopied' = {} /\ Stored' = Entries(entries')
  BY <1>0, <1>9, StoredInOneArray, StoredInOneArrayNext
<1>11. UsedIsExact'
  <2>1. Cardinality(Used(entries)) \in Nat /\ Count' = Count
    BY <1>0, UsedIsFinite DEF Count
  <2> QED
    BY <1>0, <1>8, <1>10, <2>1, EmptyArrays DEF UsedIsExact
<1>12. Stored' = Stored \cup {NewEntry}
  BY <1>8, <1>10
<1>13. OneEntryPerKey'
  BY <1>0, <1>2, <1>3, <1>12 DEF OneEntryPerKey, OneEach
<1> QED
  BY <1>2, <1>3, <1>9, <1>11, <1>12, <1>13 DEF IInv

\* The new array is empty, and all entries are to be copied.
LEMMA GrowStep ==
  ASSUME IInv, Grow PROVE IInv' /\ Stored' = Stored
<1>1. PICK n \in 0..index_mask : MissesAt(n)
  BY DEF Grow
<1>0. /\ pc = "search" /\ pc' = "copy" /\ UNCHANGED <<initialized, hash, entries_used, request>>
      /\ old_entries' = entries /\ entries' = NewEntries(2 * Count)
      /\ index_mask' = 2 * Count - 1 /\ i' = 0
      /\ Shape /\ Copying /\ UsedIsExact /\ Reachable /\ OneEntryPerKey
      /\ initialized /\ request \in Requests
      /\ index_mask \in Nat /\ index_mask >= 1 /\ entries \in Arrays(index_mask)
      /\ hash \in [Keys -> Nat] /\ entries_used \in Nat
      /\ Count \in Nat \ {0} /\ Count = index_mask + 1
  BY <1>1 DEF Grow, MissesAt, IInv, Shape, Count
<1>2. entries' \in Arrays(index_mask') /\ Used(entries') = {}
  BY <1>0, EmptyArrays
<1>3. Shape' /\ Reachable'
  BY <1>0, <1>2 DEF Shape, Reachable, ReachableIn
<1>4. Uncopied = {} /\ Stored = Entries(entries)
  BY <1>0, StoredInOneArray
<1>5. Uncopied' = Used(entries) /\ Stored' = Stored
  <2>1. \A s \in Used(entries) : s >= 0
    BY <1>0 DEF Used, Arrays
  <2>2. Uncopied' = Used(entries)
    BY <1>0, <2>1 DEF Uncopied
  <2> QED
    BY <1>0, <1>2, <1>4, <2>2 DEF Stored, Entries
<1>6. Copying' /\ UsedIsExact'
  <2>1. Count' = 2 * Count
    BY <1>0 DEF Count
  <2>2. entries_used * 2 <= Count /\ entries_used = Cardinality(Used(entries)) + 0
    BY <1>0, <1>4, EmptyArrays DEF UsedIsExact
  <2>3. Cardinality(Used(entries)) \in Nat
    BY <1>0, UsedIsFinite
  <2>4. Copying'
    BY <1>0, <2>2 DEF Copying
  <2>5. UsedIsExact'
    <3>1. Cardinality(Used(entries')) = 0 /\ Cardinality(Uncopied') = Cardinality(Used(entries))
      BY <1>2, <1>5, EmptyArrays
    <3>2. entries_used' = entries_used /\ entries_used \in Nat /\ Count \in Nat
      BY <1>0
    <3> QED
      BY <2>1, <2>2, <2>3, <3>1, <3>2 DEF UsedIsExact
  <2> QED
    BY <2>4, <2>5
<1>7. \A e \in Stored : e.key # Key
  BY <1>0, <1>1, MissingKey
<1>8. OneEntryPerKey'
  BY <1>0, <1>5, <1>7 DEF OneEntryPerKey, Key, Grow
<1> QED
  BY <1>3, <1>5, <1>6, <1>8 DEF IInv

\* Each step of the copy moves an entry.
LEMMA CopyStep ==
  ASSUME IInv, CopyEntry PROVE IInv' /\ Stored' = Stored
<1>0. /\ pc = "copy" /\ i \in DOMAIN old_entries /\ i' = i + 1
      /\ UNCHANGED <<initialized, hash, index_mask, entries_used, old_entries, pc, request>>
      /\ Shape /\ Copying /\ UsedIsExact /\ Reachable /\ OneEntryPerKey
      /\ initialized /\ i \in Nat /\ entries_used \in Nat
      /\ index_mask \in Nat /\ entries \in Arrays(index_mask) /\ hash \in [Keys -> Nat]
      /\ ReachableIn(entries, hash, Count) /\ Count \in Nat
  BY DEF CopyEntry, IInv, Shape, Reachable, Count
<1>1. PICK m \in Nat : /\ m >= 1 /\ index_mask = 2 * (m + 1) - 1
                      /\ old_entries \in Arrays(m) /\ entries_used * 2 <= m + 1
  BY <1>0 DEF Copying
<1>2. i \in 0..m
  BY <1>0, <1>1 DEF Arrays
<1>3. /\ Uncopied = FromIndex(old_entries, i)
      /\ Uncopied' = FromIndex(old_entries, i + 1)
      /\ Stored = Entries(entries) \cup {old_entries[s] : s \in Uncopied}
      /\ Stored' = Entries(entries') \cup {old_entries[s] : s \in Uncopied'}
  BY <1>0 DEF Uncopied, FromIndex, Stored, Entries
<1>4. /\ Cardinality(Used(entries)) \in Nat /\ Cardinality(Uncopied) \in Nat
      /\ Cardinality(Uncopied') \in Nat
  BY <1>0, <1>1, <1>3, UsedIsFinite DEF FromIndex
<1>5. CASE IsFree(old_entries[i])
  <2>1. entries' = entries
    BY <1>5 DEF CopyEntry
  <2>2. Uncopied' = Uncopied
    BY <1>1, <1>2, <1>3, <1>5, OneFewer
  <2>3. Stored' = Stored
    BY <1>3, <2>1, <2>2
  <2>4. Shape' /\ Copying' /\ UsedIsExact' /\ Reachable'
    BY <1>0, <2>1, <2>2 DEF Shape, Copying, UsedIsExact, Reachable, Count
  <2>5. OneEntryPerKey'
    BY <1>0, <2>3 DEF OneEntryPerKey, Key
  <2> QED
    BY <2>3, <2>4, <2>5 DEF IInv
<1>6. CASE ~IsFree(old_entries[i])
  <2> DEFINE e == old_entries[i]
  <2>1. e \in UsedEntry
    BY <1>1, <1>2, <1>6, UsedOrFree DEF Used, Arrays
  <2>2. PutFree(hash[e.key], e)
    BY <1>6 DEF CopyEntry, OldHash
  <2> HIDE DEF e
  <2>3. /\ entries' \in Arrays(index_mask)
        /\ Cardinality(Used(entries')) = Cardinality(Used(entries)) + 1
        /\ Entries(entries') = Entries(entries) \cup {e}
        /\ ReachableIn(entries', hash, Count)
    BY <1>0, <2>1, <2>2, PutFreeAdds
  <2>4. /\ Cardinality(Uncopied) = Cardinality(Uncopied') + 1
        /\ {old_entries[s] : s \in Uncopied} = {old_entries[s] : s \in Uncopied'} \cup {e}
    BY <1>1, <1>2, <1>3, <1>6, OneFewer DEF e
  <2>5. Stored' = Stored
    BY <1>3, <2>3, <2>4
  <2>6. Shape' /\ Copying' /\ Reachable' /\ Count' = Count
    BY <1>0, <2>3 DEF Shape, Copying, Reachable, Count
  <2>7. UsedIsExact'
    BY <1>0, <1>4, <2>3, <2>4, <2>6 DEF UsedIsExact
  <2>8. OneEntryPerKey'
    BY <1>0, <2>5 DEF OneEntryPerKey, Key
  <2> QED
    BY <2>5, <2>6, <2>7, <2>8 DEF IInv
<1> QED
  BY <1>5, <1>6

\* An ENTER after the copy stores one entry too.
LEMMA InsertAfterGrowthStep ==
  ASSUME IInv, InsertAfterGrowth
  PROVE  /\ IInv' /\ Stored' = Stored \cup {NewEntry}
         /\ NewEntry \in UsedEntry /\ \A e \in Stored : e.key # Key
<1>0. /\ pc = "copy" /\ i \notin DOMAIN old_entries /\ i' = 0 /\ pc' = "idle"
      /\ UNCHANGED <<initialized, hash, index_mask>>
      /\ entries_used' = entries_used + 1 /\ old_entries' = NoEntries /\ request' = Absent
      /\ Shape /\ Copying /\ UsedIsExact /\ Reachable /\ OneEntryPerKey
      /\ initialized /\ i \in Nat /\ entries_used \in Nat /\ request \in Requests
      /\ index_mask \in Nat /\ entries \in Arrays(index_mask) /\ hash \in [Keys -> Nat]
      /\ ReachableIn(entries, hash, Count) /\ Count = index_mask + 1
  BY DEF InsertAfterGrowth, Return, Counted, IInv, Shape, Reachable, Count
<1>1. PICK m \in Nat : /\ m >= 1 /\ index_mask = 2 * (m + 1) - 1
                      /\ old_entries \in Arrays(m) /\ entries_used * 2 <= m + 1
  BY <1>0 DEF Copying
<1>2. Uncopied = {}
  BY <1>0, <1>1 DEF Uncopied, Used, Arrays
<1>3. Stored = Entries(entries)
  BY <1>2 DEF Stored, Entries
<1>4. NewEntry \in UsedEntry /\ NewEntry.key = Key /\ PutFree(hash[NewEntry.key], NewEntry)
  BY <1>0 DEF InsertAfterGrowth, NewEntry, UsedEntry, Requests, Key
<1>5. /\ entries' \in Arrays(index_mask)
      /\ Cardinality(Used(entries')) = Cardinality(Used(entries)) + 1
      /\ Entries(entries') = Entries(entries) \cup {NewEntry}
      /\ ReachableIn(entries', hash, Count)
  BY <1>0, <1>4, PutFreeAdds
<1>6. Shape' /\ Copying' /\ Reachable' /\ Count' = Count
  BY <1>0, <1>5 DEF Shape, Copying, Reachable, Count
<1>7. Uncopied' = {} /\ Stored' = Stored \cup {NewEntry}
  BY <1>0, <1>3, <1>5, <1>6, StoredInOneArrayNext
<1>8. UsedIsExact'
  <2>1. /\ Cardinality(Used(entries)) \in Nat
        /\ Cardinality(Uncopied) = 0 /\ Cardinality(Uncopied') = 0
    BY <1>0, <1>2, <1>7, UsedIsFinite, EmptyArrays
  <2> QED
    BY <1>0, <1>1, <1>5, <1>6, <2>1 DEF UsedIsExact
<1>9. \A e \in Stored : e.key # Key
  BY <1>0 DEF OneEntryPerKey
<1>10. OneEntryPerKey'
  BY <1>0, <1>4, <1>7, <1>9 DEF OneEntryPerKey, OneEach
<1> QED
  BY <1>4, <1>6, <1>7, <1>8, <1>9, <1>10 DEF IInv

\* Every step preserves the invariant.
LEMMA IInvStep == ASSUME IInv, [Next]_vars PROVE IInv'
<1>1. CASE UNCHANGED vars
  <2>1. UNCHANGED <<table, old_entries, i, pc, request>>
    BY <1>1 DEF vars, table
  <2>2. Shape' /\ Copying' /\ Uncopied' = Uncopied /\ Stored' = Stored
    BY <2>1 DEF IInv, Shape, Copying, Uncopied, Stored, table
  <2>3. UsedIsExact' /\ Reachable'
    BY <2>1, <2>2 DEF IInv, UsedIsExact, Count, Reachable, table
  <2>4. OneEntryPerKey'
    BY <2>1, <2>2 DEF IInv, OneEntryPerKey, Key
  <2> QED
    BY <2>2, <2>3, <2>4 DEF IInv
<1> QED
  BY <1>1, CallStep, ReturnStep, CreateStep, DestroyStep, InsertStep, GrowStep, CopyStep,
     InsertAfterGrowthStep DEF Next

\* The invariant holds without a table.
LEMMA IInvInit == ASSUME Init PROVE IInv
<1>1. Shape /\ Copying /\ Uncopied = {} /\ Stored = {}
  BY EmptyArrays DEF Init, Shape, Copying, Uncopied, Stored
<1>2. UsedIsExact
  BY <1>1, EmptyArrays DEF Init, UsedIsExact, Count
<1> QED
  BY <1>1, <1>2 DEF Init, IInv, Reachable, OneEntryPerKey, OneEach

\* The arrays have their sizes, each entry can be reached by its probes, no key is
\* stored twice and the count is exact, in every reachable state.
THEOREM HSearchInvariant == Spec => []IInv
BY IInvInit, IInvStep, PTL DEF Spec

\* entries_used is the number of entries, at most half of the array, before, during
\* and after a copy (hsearch_r.c:112-148).
THEOREM HSearchCountsExactly == Spec => []UsedIsExact
BY HSearchInvariant, PTL DEF IInv

-----------------------------------------------------------------------------
(* The entries do not move                                                 *)

\* No step moves or changes an entry of an array that stays.
LEMMA EntriesStayStep ==
  ASSUME IInv, [Next]_vars, DOMAIN entries' = DOMAIN entries, NEW s \in Used(entries)
  PROVE  entries'[s] = entries[s]
<1>0. /\ index_mask \in Nat /\ Count = index_mask + 1
      /\ Shape /\ (initialized => entries \in Arrays(index_mask)) /\ s \in DOMAIN entries
      /\ (~initialized => entries = NoEntries) /\ (pc = "create" => ~initialized)
  BY DEF IInv, Shape, Count, Used
<1>1. CASE UNCHANGED entries
  BY <1>1
<1>2. CASE CreateTable \/ HDestroy
  <2>1. entries = NoEntries \/ entries' = NoEntries
    BY <1>0, <1>2 DEF CreateTable, HDestroy
  <2>2. DOMAIN NoEntries = {}
    BY DEF NoEntries
  <2> QED
    BY <1>0, <2>1, <2>2
<1>3. CASE Insert
  <2>1. PICK n \in 0..index_mask :
          /\ IsFree(entries[Probe(hash[Key], n, Count)])
          /\ entries' = [entries EXCEPT ![Probe(hash[Key], n, Count)] = NewEntry]
    BY <1>3 DEF Insert, MissesAt
  <2> QED
    BY <2>1 DEF Used
<1>4. CASE Grow
  <2>1. pc = "search" /\ entries' = NewEntries(2 * Count)
    BY <1>4 DEF Grow, MissesAt
  <2>2. DOMAIN entries = 0..index_mask /\ DOMAIN entries' = 0..2 * Count - 1
    BY <1>0, <2>1 DEF Shape, Arrays, NewEntries
  <2>3. 2 * Count - 1 \in DOMAIN entries' /\ 2 * Count - 1 \notin DOMAIN entries
    BY <1>0, <2>2
  <2> QED
    BY <2>3
<1>5. CASE CopyEntry \/ InsertAfterGrowth
  <2>1. ASSUME NEW h, NEW e, PutFree(h, e) PROVE entries'[s] = entries[s]
    BY <2>1 DEF PutFree, StopsAt, FreeIndices, Used
  <2> QED
    BY <1>1, <1>5, <2>1 DEF CopyEntry, InsertAfterGrowth
<1> QED
  BY <1>1, <1>2, <1>3, <1>4, <1>5
     DEF Next, HSearchCall, CreateFails, Found, NotFound, GrowFails, table, vars

\* The entry a caller was given stays at its index, with its key and data, until the
\* array is replaced (hsearch_r.c:91-110).
THEOREM HSearchEntriesStay == Spec => EntriesStay
<1>1. IInv /\ [Next]_vars =>
        [DOMAIN entries' = DOMAIN entries =>
           \A s \in Used(entries) : entries'[s] = entries[s]]_vars
  BY EntriesStayStep
<1> QED
  BY <1>1, HSearchInvariant, PTL DEF Spec, EntriesStay

-----------------------------------------------------------------------------
(* Numbers: the first c probes visit each of c indices once, c a power of  *)
(* two, because (n - m) * (n + m + 1) is no multiple of 2c                 *)

\* A set of numbers has a least one.
LEMMA LeastNumber ==
  ASSUME NEW S \in SUBSET Nat, S # {}
  PROVE  \E m \in S : \A j \in S : m <= j
<1> DEFINE Below(m) == S \cap (0..m)
           T == {Below(m) : m \in S}
<1>1. T \subseteq FiniteSubsetsOf(S) /\ T # {}
  <2>1. \A m \in S : IsFiniteSet(0..m)
    BY FS_Interval
  <2>2. \A m \in S : IsFiniteSet(Below(m))
    BY <2>1, FS_Subset
  <2> QED
    BY <2>2 DEF FiniteSubsetsOf
<1>2. PICK m \in S : \A j \in S : ~ (<<Below(j), Below(m)>> \in StrictSubsetOrdering(S))
  <2> HIDE DEF T
  <2>1. \E x \in T : \A y \in T : ~ (<<y, x>> \in StrictSubsetOrdering(S))
    BY <1>1, FS_StrictSubsetOrderingWellFounded, WFMin
  <2> QED
    BY <2>1 DEF T
<1>3. ASSUME NEW j \in S, j < m PROVE FALSE
  <2>1. Below(j) \subseteq Below(m) /\ m \in Below(m) /\ m \notin Below(j)
    BY <1>3
  <2>2. Below(j) \in SUBSET S /\ Below(m) \in SUBSET S
    OBVIOUS
  <2> HIDE DEF Below
  <2> QED
    BY <1>2, <2>1, <2>2 DEF StrictSubsetOrdering
<1> QED
  BY <1>3

\* A number is even or odd.
LEMMA EvenOrOdd ==
  ASSUME NEW n \in Nat
  PROVE  \E k \in Nat : n = 2 * k \/ n = 2 * k + 1
<1>1. n = 2 * (n \div 2) + (n % 2) /\ n \div 2 \in Nat /\ n % 2 \in 0..1
  OBVIOUS
<1> QED
  BY <1>1

\* No odd number is even.
LEMMA OddIsNotEven ==
  ASSUME NEW a \in Nat, NEW b \in Nat
  PROVE  2 * a + 1 # 2 * b
OBVIOUS

\* Numbers with the same remainder differ by a multiple.
LEMMA SameRemainder ==
  ASSUME NEW a \in Nat, NEW b \in Nat, NEW c \in Nat, c > 0, a % c = b % c
  PROVE  \E q \in Int : b - a = c * q
<1>1. /\ a = c * (a \div c) + (a % c) /\ b = c * (b \div c) + (b % c)
      /\ a \div c \in Int /\ b \div c \in Int
  OBVIOUS
<1>2. b - a = c * ((b \div c) - (a \div c))
  BY <1>1
<1>3. (b \div c) - (a \div c) \in Int
  BY <1>1
<1> QED
  BY <1>2, <1>3

\* The half of a power of two is one, unless it is 1.
LEMMA HalfIsPowerOfTwo ==
  ASSUME NEW c \in Nat, PowerOfTwo(c), c # 1
  PROVE  \E b \in Nat : c = 2 * b /\ b < c /\ PowerOfTwo(b)
<1>1. c > 0 /\ c % c = 0
  BY DEF PowerOfTwo
<1>2. c % 2 = 0
  BY <1>1 DEF PowerOfTwo
<1>3. PICK b \in Nat : c = 2 * b
  BY <1>2
<1>4. ASSUME NEW d \in 1..b, b % d = 0 PROVE d = 1 \/ d % 2 = 0
  <2>1. PICK q \in Nat : b = d * q
    <3>1. b = d * (b \div d) + (b % d) /\ b \div d \in Nat
      BY <1>4
    <3>2. d * (b \div d) \in Nat
      BY <3>1
    <3>3. b = d * (b \div d)
      BY <1>4, <3>1, <3>2
    <3> QED
      BY <3>1, <3>3
  <2>2. c = d * (2 * q)
    BY <1>3, <2>1
  <2>3. c % d = 0
    BY <2>2
  <2> QED
    BY <1>1, <1>3, <2>3 DEF PowerOfTwo
<1>5. b > 0 /\ b < c
  BY <1>1, <1>3
<1>6. PowerOfTwo(b)
  BY <1>4, <1>5 DEF PowerOfTwo
<1> QED
  BY <1>3, <1>5, <1>6

\* The double of a power of two is one.
LEMMA DoubleIsPowerOfTwo ==
  ASSUME NEW c \in Nat, PowerOfTwo(c)
  PROVE  PowerOfTwo(2 * c)
<1>1. c > 0 /\ 2 * c > 0
  BY DEF PowerOfTwo
<1>2. ASSUME NEW d \in 1..2 * c, (2 * c) % d = 0, d % 2 = 1 PROVE d = 1
  <2>1. PICK q \in Nat : 2 * c = d * q
    <3>1. 2 * c = d * ((2 * c) \div d) + ((2 * c) % d) /\ (2 * c) \div d \in Nat
      BY <1>2
    <3> QED
      BY <1>2, <3>1
  <2>2. PICK e \in Nat : d = 2 * e + 1
    BY <1>2, EvenOrOdd
  <2>3. PICK p \in Nat : q = 2 * p \/ q = 2 * p + 1
    BY EvenOrOdd
  <2>4. q = 2 * p
    <3> SUFFICES ASSUME q = 2 * p + 1 PROVE FALSE
      BY <2>3
    <3>1. d * q = 2 * (e * q + p) + 1
      BY <2>2
    <3>2. e * q + p \in Nat
      OBVIOUS
    <3> QED
      BY <2>1, <3>1, <3>2
  <2>5. c = d * p
    <3>1. d * q = 2 * (d * p)
      BY <2>4
    <3>2. d * p \in Nat
      OBVIOUS
    <3> QED
      BY <2>1, <3>1, <3>2
  <2>6. c % d = 0 /\ d <= c
    BY <1>1, <2>5
  <2> QED
    BY <1>2, <2>6 DEF PowerOfTwo
<1> QED
  BY <1>1, <1>2 DEF PowerOfTwo

\* Named, so that a lemma can be cited for a product.
IsOdd(n) == n % 2 = 1

Divides(c, n) == \E q \in Nat : n = c * q

\* A power of two that divides a product with an odd factor divides the other.
LEMMA DividesOtherFactor ==
  ASSUME NEW c \in Nat, PowerOfTwo(c), NEW u \in Nat, IsOdd(u), NEW v \in Nat,
         NEW p \in Nat, p = u * v, Divides(c, p)
  PROVE  Divides(c, v)
<1> DEFINE Fails == {n \in Nat : /\ PowerOfTwo(n)
                                /\ \E x, r \in Nat : u * x = n * r /\ \A w \in Nat : x # n * w}
<1> SUFFICES ASSUME Fails # {} PROVE FALSE
  BY DEF Divides
<1>1. PICK n \in Fails : \A m \in Fails : n <= m
  <2> HIDE DEF Fails
  <2>1. Fails \in SUBSET Nat
    BY DEF Fails
  <2> QED
    BY <2>1, LeastNumber
<1>2. PICK x \in Nat, r \in Nat : u * x = n * r /\ \A w \in Nat : x # n * w
  BY <1>1
<1>3. n # 1
  BY <1>2
<1>4. PICK b \in Nat : n = 2 * b /\ b < n /\ PowerOfTwo(b)
  BY <1>1, <1>3, HalfIsPowerOfTwo
<1>5. PICK e \in Nat : u = 2 * e + 1
  BY EvenOrOdd DEF IsOdd
<1>6. PICK y \in Nat : x = 2 * y
  <2>1. PICK y \in Nat : x = 2 * y \/ x = 2 * y + 1
    BY EvenOrOdd
  <2>2. CASE x = 2 * y + 1
    <3>1. u * x = 2 * (e * x + y) + 1
      BY <1>5, <2>2
    <3>2. n * r = 2 * (b * r)
      BY <1>4
    <3>3. e * x + y \in Nat /\ b * r \in Nat
      OBVIOUS
    <3> QED
      BY <1>2, <3>1, <3>2, <3>3, OddIsNotEven
  <2> QED
    BY <2>1, <2>2
<1>7. u * y = b * r
  <2>1. u * x = 2 * (u * y) /\ n * r = 2 * (b * r)
    BY <1>4, <1>6
  <2>2. u * y \in Nat /\ b * r \in Nat
    OBVIOUS
  <2> QED
    BY <1>2, <2>1, <2>2
<1>8. PICK w \in Nat : y = b * w
  <2>1. b \notin Fails
    <3> HIDE DEF Fails
    <3>1. n \in Nat
      BY <1>1 DEF Fails
    <3> QED
      BY <1>1, <1>4, <3>1
  <2> QED
    BY <1>4, <1>7, <2>1
<1>9. x = n * w
  BY <1>4, <1>6, <1>8
<1> QED
  BY <1>2, <1>9

\* Twice the sum of the numbers up to n.
LEMMA TwiceTheSum ==
  ASSUME NEW n \in Nat
  PROVE  (n * (n + 1)) \div 2 \in Nat /\ 2 * ((n * (n + 1)) \div 2) = n * (n + 1)
<1>1. PICK k \in Nat : n = 2 * k \/ n = 2 * k + 1
  BY EvenOrOdd
<1>2. \E p \in Nat : n * (n + 1) = 2 * p
  <2>1. CASE n = 2 * k
    <3>1. n * (n + 1) = 2 * (k * (n + 1)) /\ k * (n + 1) \in Nat
      BY <2>1
    <3> QED
      BY <3>1
  <2>2. CASE n = 2 * k + 1
    <3>1. n * (n + 1) = 2 * (n * (k + 1)) /\ n * (k + 1) \in Nat
      BY <2>2
    <3> QED
      BY <3>1
  <2> QED
    BY <1>1, <2>1, <2>2
<1> QED
  BY <1>2

\* Between 0 and c there is no multiple of c.
LEMMA NoMultipleBelow ==
  ASSUME NEW c \in Nat, NEW w \in Nat
  PROVE  c * w \notin 1..c - 1
<1>1. CASE w = 0
  BY <1>1
<1>2. CASE w > 0
  <2>1. c * w = c + c * (w - 1) /\ c * (w - 1) >= 0
    BY <1>2
  <2> QED
    BY <2>1
<1> QED
  BY <1>1, <1>2

\* No product of two smaller numbers, one of them odd, is a multiple of a power of two.
LEMMA NoSmallProduct ==
  ASSUME NEW c \in Nat, PowerOfTwo(c), NEW u \in 1..c - 1, IsOdd(u), NEW v \in 1..c - 1,
         NEW p \in Nat, p = u * v
  PROVE  ~Divides(c, p)
<1> SUFFICES ASSUME Divides(c, p) PROVE FALSE
  OBVIOUS
<1>1. u \in Nat /\ v \in Nat
  OBVIOUS
<1>2. Divides(c, v)
  BY <1>1, DividesOtherFactor
<1> QED
  BY <1>2, NoMultipleBelow DEF Divides

\* Two of the first count probes never meet.
LEMMA ProbesDiffer ==
  ASSUME NEW c \in Nat, PowerOfTwo(c), NEW h \in Nat,
         NEW m \in 0..c - 1, NEW n \in 0..c - 1, m < n
  PROVE  Probe(h, m, c) # Probe(h, n, c)
<1> DEFINE S(k) == (k * (k + 1)) \div 2
<1> SUFFICES ASSUME (h + S(m)) % c = (h + S(n)) % c PROVE FALSE
  BY DEF Probe
<1>1. S(m) \in Nat /\ S(n) \in Nat /\ 2 * S(m) = m * (m + 1) /\ 2 * S(n) = n * (n + 1)
  BY TwiceTheSum
<1>2. c > 0 /\ PowerOfTwo(2 * c)
  BY DoubleIsPowerOfTwo DEF PowerOfTwo
<1>3. PICK q \in Int : S(n) - S(m) = c * q
  <2> DEFINE a == h + S(m)
             b == h + S(n)
  <2>1. a \in Nat /\ b \in Nat /\ a % c = b % c /\ b - a = S(n) - S(m)
    BY <1>1
  <2> HIDE DEF a, b, S
  <2>2. PICK q \in Int : b - a = c * q
    BY <1>2, <2>1, SameRemainder
  <2> QED
    BY <2>1, <2>2
<1> HIDE DEF S
<1>4. (n - m) * (n + m + 1) = (2 * c) * q
  <2>1. (n - m) * (n + m + 1) = n * (n + 1) - m * (m + 1)
    OBVIOUS
  <2>2. (2 * c) * q = 2 * (c * q)
    OBVIOUS
  <2> QED
    BY <1>1, <1>3, <2>1, <2>2
<1>5. n - m \in 1..c - 1 /\ n + m + 1 \in 1..2 * c - 1
  OBVIOUS
<1>6. q \in Nat
  <2>1. (n - m) * (n + m + 1) > 0
    BY <1>5
  <2>2. q > 0
    BY <1>2, <1>4, <2>1
  <2> QED
    BY <2>2
<1> DEFINE u == n - m
           v == n + m + 1
           d == 2 * c
           p == d * q
<1>7. /\ d \in Nat /\ PowerOfTwo(d) /\ u \in 1..d - 1 /\ v \in 1..d - 1
      /\ p \in Nat /\ p = u * v /\ p = v * u /\ Divides(d, p)
      /\ IsOdd(u) \/ IsOdd(v)
  BY <1>2, <1>4, <1>5, <1>6 DEF IsOdd, Divides
<1> HIDE DEF u, v, d, p
<1>8. ~IsOdd(u)
  BY <1>7, NoSmallProduct
<1>9. ~IsOdd(v)
  BY <1>7, NoSmallProduct
<1> QED
  BY <1>7, <1>8, <1>9

\* The first count probes visit every index.
LEMMA ProbesVisitAll ==
  ASSUME NEW c \in Nat, PowerOfTwo(c), NEW h \in Nat, NEW s \in 0..c - 1
  PROVE  \E n \in 0..c - 1 : Probe(h, n, c) = s
<1> DEFINE I == 0..c - 1
           f == [n \in I |-> Probe(h, n, c)]
<1>1. c \in Nat \ {0}
  BY DEF PowerOfTwo
<1>2. f \in [I -> I]
  BY <1>1 DEF Probe
<1>3. \A m, n \in I : f[m] = f[n] => m = n
  <2>1. ASSUME NEW m \in I, NEW n \in I, m # n PROVE Probe(h, m, c) # Probe(h, n, c)
    <3>1. m < n \/ n < m
      BY <2>1
    <3> QED
      BY <3>1, ProbesDiffer
  <2> QED
    BY <2>1
<1>4. f \in Injection(I, I)
  BY <1>2, <1>3 DEF Injection, IsInjective
<1>5. IsFiniteSet(I)
  BY <1>1, FS_Interval
<1>6. f \in Surjection(I, I)
  <2> HIDE DEF f, I
  <2> QED
    BY <1>4, <1>5, FS_Injection
<1> QED
  BY <1>6 DEF Surjection

-----------------------------------------------------------------------------
(* The probe loops end                                                     *)

CountIsPowerOfTwo == initialized => PowerOfTwo(Count)

\* A table begins with a power of two and doubles.
LEMMA CountStep ==
  ASSUME IInv, CountIsPowerOfTwo, [Next]_vars PROVE CountIsPowerOfTwo'
<1>1. CASE UNCHANGED <<initialized, index_mask>>
  BY <1>1 DEF CountIsPowerOfTwo, Count
<1>2. CASE CreateTable
  <2>1. Count' = InitCount
    BY <1>2, HSearchAssumption DEF CreateTable, Count
  <2> QED
    BY <2>1, HSearchAssumption DEF CountIsPowerOfTwo
<1>3. CASE Grow
  <2>1. initialized /\ Count \in Nat
    BY <1>3 DEF Grow, MissesAt, IInv, Shape, Count
  <2>2. index_mask' = 2 * Count - 1
    BY <1>3 DEF Grow
  <2>3. Count' = 2 * Count
    <3>1. Count' = index_mask' + 1
      BY DEF Count
    <3> HIDE DEF Count
    <3> QED
      BY <2>1, <2>2, <3>1
  <2> QED
    BY <2>1, <2>3, DoubleIsPowerOfTwo DEF CountIsPowerOfTwo
<1>4. CASE HDestroy
  BY <1>4 DEF HDestroy, CountIsPowerOfTwo
<1> QED
  BY <1>1, <1>2, <1>3, <1>4
     DEF Next, HSearchCall, CreateFails, Found, NotFound, Insert, GrowFails, CopyEntry,
         InsertAfterGrowth, table, vars

\* An array that is at most half full has a free index.
LEMMA SomeIndexIsFree ==
  ASSUME Shape, Copying, UsedIsExact, initialized
  PROVE  \E s \in 0..index_mask : IsFree(entries[s])
<1>0. /\ index_mask \in Nat /\ index_mask >= 1 /\ entries \in Arrays(index_mask)
      /\ Count = index_mask + 1 /\ entries_used \in Nat
  BY DEF Shape, Count
<1> SUFFICES ASSUME \A s \in 0..index_mask : ~IsFree(entries[s]) PROVE FALSE
  OBVIOUS
<1>1. Used(entries) = 0..index_mask
  BY <1>0 DEF Used, Arrays
<1>2. Cardinality(0..index_mask) = index_mask + 1
  BY <1>0, FS_Interval
<1>3. Cardinality(Uncopied) \in Nat
  <2>1. CASE pc = "copy"
    BY <2>1, UsedIsFinite DEF Copying, Uncopied
  <2>2. CASE pc # "copy"
    <3>1. Uncopied = {}
      BY <2>2, StoredInOneArray
    <3> QED
      BY <3>1, FS_EmptySet
  <2> QED
    BY <2>1, <2>2
<1> QED
  BY <1>0, <1>1, <1>2, <1>3 DEF UsedIsExact

\* From any start the probes come to a free index.
LEMMA FreeIndexIsProbed ==
  ASSUME Shape, Copying, UsedIsExact, CountIsPowerOfTwo
  PROVE  ProbesEnd
<1> SUFFICES ASSUME initialized, NEW h \in 0..index_mask
             PROVE  \E n \in 0..index_mask : IsFree(entries[Probe(h, n, Count)])
  BY DEF ProbesEnd
<1>1. PICK s \in 0..index_mask : IsFree(entries[s])
  BY SomeIndexIsFree
<1>2. Count \in Nat /\ PowerOfTwo(Count) /\ Count - 1 = index_mask /\ h \in Nat
  BY DEF Shape, Count, CountIsPowerOfTwo
<1>3. PICK n \in 0..index_mask : Probe(h, n, Count) = s
  BY <1>2, ProbesVisitAll
<1> QED
  BY <1>1, <1>3

\* No probe loop, neither of a search for a missing key nor of
\* hsearch_lookup_free, runs for ever (hsearch_r.c:45-77).
THEOREM HSearchProbesEnd == Spec => []ProbesEnd
<1>1. Init => CountIsPowerOfTwo
  BY DEF Init, CountIsPowerOfTwo
<1>2. IInv /\ CountIsPowerOfTwo /\ [Next]_vars => CountIsPowerOfTwo'
  BY CountStep
<1>3. IInv /\ CountIsPowerOfTwo => ProbesEnd
  BY FreeIndexIsProbed DEF IInv
<1> QED
  BY <1>1, <1>2, <1>3, HSearchInvariant, PTL DEF Spec

-----------------------------------------------------------------------------
(* The table is the abstract one                                           *)

ContentOf(S) ==
  [k \in Keys |-> IF \E e \in S : e.key = k THEN (CHOOSE e \in S : e.key = k).data ELSE Absent]

\* What the content is for a set with one entry per key.
LEMMA ContentIsTheirs ==
  ASSUME NEW S, OneEach(S)
  PROVE  /\ \A e \in S : e.key \in Keys => ContentOf(S)[e.key] = e.data
         /\ \A k \in Keys : (\A e \in S : e.key # k) => ContentOf(S)[k] = Absent
<1>1. ASSUME NEW e \in S, e.key \in Keys PROVE ContentOf(S)[e.key] = e.data
  <2>1. e = CHOOSE f \in S : f.key = e.key
    BY DEF OneEach
  <2> QED
    BY <1>1, <2>1 DEF ContentOf
<1> QED
  BY <1>1 DEF ContentOf

\* A new key changes the content at that key.
LEMMA ContentWithNewKey ==
  ASSUME NEW S, OneEach(S), NEW e \in UsedEntry, \A f \in S : f.key # e.key
  PROVE  ContentOf(S \cup {e}) = [ContentOf(S) EXCEPT ![e.key] = e.data]
<1> DEFINE T == S \cup {e}
<1>0. OneEach(T) /\ e.key \in Keys /\ e \in T /\ S \subseteq T
  BY DEF OneEach, UsedEntry
<1>1. \A f \in T : f \in S \/ f = e
  OBVIOUS
<1> HIDE DEF T
<1>2. ContentOf(T)[e.key] = e.data
  BY <1>0, ContentIsTheirs
<1>3. ASSUME NEW k \in Keys, k # e.key PROVE ContentOf(T)[k] = ContentOf(S)[k]
  <2>1. CASE \E f \in S : f.key = k
    BY <1>0, <1>3, <2>1, ContentIsTheirs
  <2>2. CASE \A f \in S : f.key # k
    <3>1. \A f \in T : f.key # k
      BY <1>1, <1>3, <2>2
    <3> QED
      BY <1>0, <2>2, <3>1, ContentIsTheirs
  <2> QED
    BY <2>1, <2>2
<1>4. DOMAIN ContentOf(T) = Keys /\ DOMAIN ContentOf(S) = Keys
  BY DEF ContentOf
<1>5. ContentOf(T) = [ContentOf(S) EXCEPT ![e.key] = e.data]
  <2>1. ContentOf(T) = [k \in Keys |-> ContentOf(T)[k]]
    BY DEF ContentOf
  <2> QED
    BY <1>0, <1>2, <1>3, <1>4, <2>1
<1> QED
  BY <1>5 DEF T

\* The refinement mapping of HSearch in terms of the entries stored.
LEMMA ContentIsOfStored == Content = ContentOf(Stored)
BY DEF Content, ContentOf

\* The same after a step.
LEMMA ContentIsOfStoredNext == Content' = ContentOf(Stored')
BY DEF Content, ContentOf

\* The refinement begins with an empty table.
LEMMA RefinementInit == ASSUME Init PROVE Abstract!Init
<1>1. Stored = {}
  BY EmptyArrays DEF Init, Stored, Uncopied
<1>2. Content = Abstract!Empty
  BY <1>1, ContentIsOfStored DEF ContentOf, Abstract!Empty
<1> QED
  BY <1>2 DEF Init, Abstract!Init

\* A new entry is an Enter of the abstract table.
LEMMA EnterStep ==
  ASSUME IInv, Insert \/ InsertAfterGrowth PROVE Abstract!Enter
<1>1. /\ Stored' = Stored \cup {NewEntry} /\ NewEntry \in UsedEntry
      /\ \A e \in Stored : e.key # Key
      /\ OneEach(Stored) /\ NewEntry.key = Key /\ NewEntry.data = request.data /\ Key \in Keys
  BY InsertStep, InsertAfterGrowthStep DEF IInv, OneEntryPerKey, NewEntry, UsedEntry
<1>2. Content' = [Content EXCEPT ![Key] = request.data] /\ Content[Key] = Absent
  BY <1>1, ContentWithNewKey, ContentIsTheirs, ContentIsOfStored, ContentIsOfStoredNext
<1>3. request # Absent /\ request' = Absent /\ reply' = request.data
  BY HSearchAssumption DEF IInv, Shape, Insert, MissesAt, InsertAfterGrowth, Return, Requests
<1>4. request.action = "ENTER"
  BY DEF IInv, OneEntryPerKey, Insert, InsertAfterGrowth
<1> QED
  BY <1>2, <1>3, <1>4 DEF Abstract!Enter, Abstract!Answer, Key

\* Each step is one of the abstract table or none.
LEMMA RefinementStep == ASSUME IInv, [Next]_vars PROVE [Abstract!Next]_(Abstract!vars)
<1>0. /\ request # Absent <=> pc # "idle"
      /\ OneEach(Stored)
      /\ pc # "idle" => request \in Requests /\ Key \in Keys
      /\ Requests = Abstract!Requests
  BY HSearchAssumption
     DEF IInv, Shape, OneEntryPerKey, Requests, Key, Abstract!Requests
<1>s. Stored' = Stored => Content' = Content
  BY ContentIsOfStored, ContentIsOfStoredNext
<1>1. CASE HSearchCall
  BY <1>0, <1>1, <1>s, CallStep DEF HSearchCall, Abstract!Next, Abstract!Call
<1>2. CASE CreateFails
  <2>1. Stored = {}
    BY <1>2, StoredInOneArray, EmptyArrays DEF CreateFails, IInv, Shape, Entries
  <2>2. Content[Key] = Absent /\ Content' = Content /\ pc # "idle"
    BY <1>0, <1>2, <1>s, <2>1, ReturnStep, ContentIsTheirs, ContentIsOfStored DEF CreateFails
  <2> QED
    BY <1>0, <1>2, <2>2
       DEF CreateFails, Return, Key, Abstract!Next, Abstract!NotFound, Abstract!Answer
<1>3. CASE Found
  <2>1. PICK n \in 0..index_mask :
          LET e == entries[Probe(hash[Key], n, Count)] IN
          StopsAt(hash[Key], n, StopsSearch) /\ e.key = Key /\ Return(e.data)
    BY <1>3 DEF Found
  <2> DEFINE s == Probe(hash[Key], n, Count)
  <2>2. pc = "search" /\ initialized /\ s \in DOMAIN entries /\ entries[s].key = Key
    BY <1>3, <2>1 DEF Found, IInv, Shape, StopsAt, StopsSearch, FreeIndices
  <2>3. ~IsFree(entries[s])
    BY <1>0, <2>2, HSearchAssumption DEF IsFree
  <2>4. s \in Used(entries) /\ entries[s] \in UsedEntry
    BY <2>2, <2>3, UsedOrFree DEF Used, IInv, Shape, Arrays
  <2>5. Content[Key] = entries[s].data /\ entries[s].data \in Data
    BY <1>0, <2>2, <2>4, ContentIsTheirs, ContentIsOfStored DEF Stored, UsedEntry
  <2>6. /\ request' = Absent /\ reply' = entries[s].data
        /\ Content' = Content /\ request # Absent
    BY <1>0, <1>3, <1>s, <2>1, <2>2, ReturnStep DEF Return
  <2> QED
    BY <2>5, <2>6, HSearchAssumption DEF Key, Abstract!Next, Abstract!Found, Abstract!Answer
<1>4. CASE NotFound \/ GrowFails
  <2>1. PICK n \in 0..index_mask : MissesAt(n)
    BY <1>4 DEF NotFound, GrowFails
  <2>2. pc = "search" /\ \A e \in Stored : e.key # Key
    BY <2>1, MissingKey DEF IInv, MissesAt
  <2>3. Content[Key] = Absent /\ Content' = Content
    BY <1>0, <1>4, <1>s, <2>2, ReturnStep, ContentIsTheirs, ContentIsOfStored
  <2> QED
    BY <1>0, <1>4, <2>2, <2>3
       DEF NotFound, GrowFails, Return, Key, Abstract!Next, Abstract!NotFound, Abstract!Answer
<1>5. CASE Insert
  BY <1>5, EnterStep DEF Insert, Abstract!Next
<1>6. CASE CreateTable
  BY <1>6, <1>s, CreateStep DEF CreateTable, Abstract!vars
<1>7. CASE Grow
  BY <1>7, <1>s, GrowStep DEF Grow, Abstract!vars
<1>8. CASE CopyEntry
  BY <1>8, <1>s, CopyStep DEF CopyEntry, Abstract!vars
<1>9. CASE HDestroy
  <2>1. Content' = Abstract!Empty
    BY <1>9, DestroyStep, ContentIsOfStoredNext DEF ContentOf, Abstract!Empty
  <2> QED
    BY <1>0, <1>9, <2>1 DEF HDestroy, Abstract!Next, Abstract!Destroy
<1>10. CASE UNCHANGED vars
  <2>1. Stored' = Stored
    BY <1>10 DEF vars, Stored, Uncopied
  <2> QED
    BY <1>10, <1>s, <2>1 DEF vars, Abstract!vars
<1>11. CASE InsertAfterGrowth
  BY <1>11, EnterStep DEF Abstract!Next
<1> QED
  BY <1>1, <1>2, <1>3, <1>4, <1>5, <1>6, <1>7, <1>8, <1>9, <1>10, <1>11 DEF Next

\* Whatever the hash function, the collisions, the growth and the moment at which
\* memory runs out, the table keeps for each key the data of its first ENTER
\* (hsearch_r.c:79-155).
THEOREM HSearchImplements == Spec => ImplementsTable
BY HSearchInvariant, RefinementInit, RefinementStep, PTL
   DEF Spec, ImplementsTable, Abstract!Spec

=============================================================================
