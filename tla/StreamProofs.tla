--------------------------- MODULE StreamProofs ---------------------------
(***************************************************************************)
(* The two streams over memory, FMemOpen and MemStream, proved for any     *)
(* bytes, modes, chunks and sizes.  Both are files of bytes, whatever is   *)
(* written.  The first stays inside its buffer and ends there, but for the *)
(* byte behind it where the end of a string that was cut is put; the       *)
(* second tells its user which array is in use, and is zero behind the     *)
(* data.                                                                   *)
(***************************************************************************)
EXTENDS FMemOpen, MemStream, FiniteSetTheorems, WellFoundedInduction, SequenceTheorems, TLAPS

-----------------------------------------------------------------------------

Shape ==
  /\ mode \in Modes \cup {Closed}
  /\ mem \in Memory
  /\ capacity \in 0..MaxCapacity
  /\ size \in 0..capacity /\ offset \in 0..capacity
  /\ cut \in BOOLEAN
  /\ moved \in Seq(Bytes)

IInv == Shape /\ Terminated

\* What a step may store behind the buffer.
KeepsBehind ==
  \A j \in 0..MaxCapacity :
    j >= capacity' /\ mem'[j] # mem[j] => cut' /\ j = capacity' /\ mem'[j] = NUL

-----------------------------------------------------------------------------
(* fmemopen                                                                *)

\* strnlen looks no further than it may.
LEMMA StringLengthFits ==
  ASSUME NEW buf \in Memory, NEW cap \in 0..MaxCapacity
  PROVE  StringLength(buf, cap) \in 0..cap
<1> DEFINE S == {n \in 0..cap : n = cap \/ buf[n] = NUL}
           Below(m) == S \cap (0..m)
           T == {Below(m) : m \in S}
<1>0. IsFiniteSet(S) /\ S \subseteq Nat /\ cap \in S /\ cap \in Nat
  <2>1. 0 \in Int /\ cap \in Int /\ cap \in Nat
    BY FMemOpenAssumption
  <2>2. IsFiniteSet(0..cap)
    BY <2>1, FS_Interval
  <2>3. IsFiniteSet(S)
    BY <2>2, FS_Subset
  <2> QED
    BY <2>1, <2>3
<1> HIDE DEF S
<1>1. T \subseteq FiniteSubsetsOf(S) /\ T # {}
  <2>1. \A m \in S : Below(m) \in SUBSET S
    OBVIOUS
  <2> HIDE DEF Below
  <2>2. \A m \in S : IsFiniteSet(Below(m))
    BY <1>0, <2>1, FS_Subset
  <2> QED
    BY <1>0, <2>1, <2>2 DEF FiniteSubsetsOf
<1>2. PICK m \in S : \A j \in S : ~ (<<Below(j), Below(m)>> \in StrictSubsetOrdering(S))
  <2> HIDE DEF T
  <2>1. \E x \in T : \A y \in T : ~ (<<y, x>> \in StrictSubsetOrdering(S))
    BY <1>1, FS_StrictSubsetOrderingWellFounded, WFMin
  <2> QED
    BY <2>1 DEF T
<1>3. \A j \in S : m <= j
  <2> SUFFICES ASSUME NEW j \in S, j < m PROVE FALSE
    BY <1>0
  <2>1. Below(j) \subseteq Below(m) /\ m \in Below(m) /\ m \notin Below(j)
    BY <1>0
  <2>2. Below(j) \in SUBSET S /\ Below(m) \in SUBSET S
    OBVIOUS
  <2> HIDE DEF Below
  <2> QED
    BY <1>2, <2>1, <2>2 DEF StrictSubsetOrdering
<1>4. m \in 0..cap /\ (m < cap => buf[m] = NUL)
  BY <1>0 DEF S
<1>5. ASSUME NEW j \in 0..m - 1 PROVE buf[j] # NUL
  <2>1. j \in 0..cap /\ ~(m <= j)
    BY <1>0, <1>4
  <2> QED
    BY <1>3, <2>1 DEF S
<1>6. \E n \in 0..cap : /\ n < cap => buf[n] = NUL
                        /\ \A j \in 0..n - 1 : buf[j] # NUL
  BY <1>4, <1>5
<1> QED
  BY <1>6 DEF StringLength

\* A stream is opened within its buffer, and one for writing with an empty string.
LEMMA OpenKeepsIInv ==
  ASSUME IInv, Open
  PROVE  /\ IInv'
         /\ \A j \in 0..MaxCapacity : j >= capacity' => mem'[j] = mem[j]
         /\ offset' \in {0, size'} /\ mode' \in Modes /\ moved' = <<>>
<1>1. PICK buf \in {mem, [j \in 0..MaxCapacity |-> IF j < capacity' THEN NUL ELSE mem[j]]} :
        CASE mode' \in {"a", "a+"} ->
               mem' = buf /\ size' = StringLength(buf, capacity') /\ offset' = size'
          [] mode' \in {"r", "r+"} -> mem' = buf /\ size' = capacity' /\ offset' = 0
          [] mode' \in {"w", "w+"} ->
               /\ mem' = IF capacity' > 0 THEN [buf EXCEPT ![0] = NUL] ELSE buf
               /\ size' = 0 /\ offset' = 0
  BY DEF Open
<1>2. /\ mode' \in Modes /\ mode' \in {"r", "r+", "w", "w+", "a", "a+"}
      /\ capacity' \in 0..MaxCapacity /\ MaxCapacity \in Nat /\ moved' = <<>>
      /\ mem \in [0..MaxCapacity -> Bytes] /\ NUL \in Bytes
  BY FMemOpenAssumption DEF Open, IInv, Shape, Memory
<1>c. cut' \in BOOLEAN
  BY DEF Open
<1>3. buf \in [0..MaxCapacity -> Bytes] /\ \A j \in 0..MaxCapacity : j >= capacity' => buf[j] = mem[j]
  BY <1>2
<1>4. CASE mode' \in {"a", "a+"}
  <2>1. mem' = buf /\ size' = StringLength(buf, capacity') /\ offset' = size'
    BY <1>1, <1>4
  <2>2. size' \in 0..capacity'
    BY <1>2, <1>3, <2>1, StringLengthFits DEF Memory
  <2>3. Shape'
    BY <1>2, <1>3, <1>c, <2>1, <2>2 DEF Shape, Memory
  <2>4. Terminated'
    BY <1>4 DEF Terminated
  <2> QED
    BY <1>2, <1>3, <2>1, <2>3, <2>4 DEF IInv
<1>5. CASE mode' \in {"r", "r+"}
  <2>1. mem' = buf /\ size' = capacity' /\ offset' = 0
    BY <1>1, <1>5
  <2>2. Shape'
    BY <1>2, <1>3, <1>c, <2>1 DEF Shape, Memory
  <2>3. Terminated'
    BY <1>5 DEF Terminated
  <2> QED
    BY <1>2, <1>3, <2>1, <2>2, <2>3 DEF IInv
<1>6. CASE mode' \in {"w", "w+"}
  <2>1. /\ mem' = IF capacity' > 0 THEN [buf EXCEPT ![0] = NUL] ELSE buf
        /\ size' = 0 /\ offset' = 0
    BY <1>1, <1>6
  <2>2. /\ mem' \in [0..MaxCapacity -> Bytes]
        /\ capacity' > 0 => mem'[0] = NUL
        /\ \A j \in 0..MaxCapacity : j >= capacity' => mem'[j] = mem[j]
    BY <1>2, <1>3, <2>1
  <2> QED
    BY <1>2, <1>c, <2>1, <2>2 DEF IInv, Shape, Terminated, Memory
<1> QED
  BY <1>2, <1>4, <1>5, <1>6

-----------------------------------------------------------------------------
(* fmemopen_write                                                          *)

\* A chunk is a sequence of bytes, and not empty.
LEMMA ChunkFacts ==
  ASSUME NEW d \in Chunks
  PROVE  /\ d \in Seq(Bytes) /\ Len(d) \in Nat \ {0}
         /\ SpaceForNull(d) \in {0, 1}
         /\ ~IsString(d) => SpaceForNull(d) = 1
<1>1. d \in Seq(Bytes) /\ d # <<>>
  BY StdioStreamAssumption
<1>2. Len(d) \in Nat \ {0}
  BY <1>1
<1> QED
  BY <1>1, <1>2 DEF SpaceForNull

\* Bytes that are stored: they fit, with a NUL behind them if they are of a text, and
\* the NUL is put where no data is.
LEMMA StoringKeepsIInv ==
  ASSUME IInv, NEW d \in Chunks, NEW start \in {size, offset}, NEW n \in Int, n > 0,
         n <= Len(d), n + SpaceForNull(d) <= capacity - start,
         Store(start, d, n), UNCHANGED <<mode, capacity>>,
         cut' = (cut \/ (n < Len(d) /\ IsString(d)))
  PROVE  /\ IInv'
         /\ KeepsBehind
         /\ offset' = start + n /\ size' = IF start + n > size THEN start + n ELSE size
         /\ Len(moved') = n
         /\ \A j \in 1..n : mem'[start + j - 1] = moved'[j]
         /\ \A j \in 0..size - 1 : j \notin start..start + n - 1 => mem'[j] = mem[j]
<1> DEFINE end == start + n
           stored == SubSeq(d, 1, n)
<1>0. /\ MaxCapacity \in Nat /\ capacity \in 0..MaxCapacity /\ size \in 0..capacity
      /\ start \in 0..capacity /\ n \in Nat /\ end \in 0..capacity /\ end > start
      /\ mem \in [0..MaxCapacity -> Bytes] /\ NUL \in Bytes /\ cut' \in BOOLEAN
      /\ ~IsString(d) => end < capacity
  BY ChunkFacts, StdioStreamAssumption, FMemOpenAssumption DEF IInv, Shape, Memory
<1>1. /\ stored \in Seq(Bytes) /\ Len(stored) = n /\ \A j \in 1..n : stored[j] = d[j]
      /\ \A j \in 1..n : stored[j] \in Bytes
  <2>1. d \in Seq(Bytes) /\ 1 \in 1..Len(d) /\ n \in 1..Len(d) /\ 1 <= n
    BY <1>0, ChunkFacts
  <2>2. /\ stored \in Seq(Bytes) /\ Len(stored) = IF 1 <= n THEN n - 1 + 1 ELSE 0
        /\ \A j \in 1..n - 1 + 1 : stored[j] = d[1 + j - 1]
    BY <2>1, SubSeqProperties
  <2>3. Len(stored) = n /\ \A j \in 1..n : stored[j] = d[j]
    BY <1>0, <2>2
  <2> QED
    BY <2>2, <2>3
<1>2. /\ mem' = [j \in DOMAIN mem |->
                   CASE j \in start..end - 1 -> stored[j - start + 1]
                     [] j = end /\ NullFollows(end, stored) -> NUL
                     [] OTHER -> mem[j]]
      /\ offset' = end /\ size' = (IF end >= size THEN end ELSE size) /\ moved' = stored
  BY DEF Store
<1>3. IF end >= size /\ stored[n] # NUL THEN NullFollows(end, stored) ELSE ~NullFollows(end, stored)
  BY <1>1 DEF NullFollows, IsString, Last
<1>4. NullFollows(end, stored) => end >= size /\ (end < capacity \/ cut')
  <2> SUFFICES ASSUME NullFollows(end, stored) PROVE end >= size /\ (end < capacity \/ cut')
    OBVIOUS
  <2>1. end >= size /\ stored[n] # NUL
    BY <1>3
  <2>2. CASE ~IsString(d)
    BY <1>0, <2>1, <2>2
  <2>3. CASE IsString(d)
    <3>1. n # Len(d)
      BY <1>0, <1>1, <2>1, <2>3 DEF IsString, Last
    <3>2. n < Len(d)
      BY <1>0, <3>1, ChunkFacts
    <3> QED
      BY <2>1, <2>3, <3>2
  <2> QED
    BY <2>2, <2>3
<1> HIDE DEF end, stored
<1>5. ASSUME NEW j \in 0..MaxCapacity
      PROVE  /\ mem'[j] \in Bytes
             /\ j \in start..end - 1 => mem'[j] = stored[j - start + 1]
             /\ j = end /\ NullFollows(end, stored) => mem'[j] = NUL
             /\ j \notin start..end - 1 /\ ~(j = end /\ NullFollows(end, stored)) => mem'[j] = mem[j]
  <2>1. j \in start..end - 1 => j - start + 1 \in 1..n
    BY <1>0 DEF end
  <2> QED
    BY <1>0, <1>1, <1>2, <2>1
<1>6. mem' \in [0..MaxCapacity -> Bytes]
  <2>1. DOMAIN mem' = 0..MaxCapacity /\ mem' = [j \in 0..MaxCapacity |-> mem'[j]]
    BY <1>0, <1>2
  <2> QED
    BY <1>5, <2>1
<1>7. Shape'
  BY <1>0, <1>1, <1>2, <1>6 DEF IInv, Shape, Memory
<1>8. Terminated'
  <2> SUFFICES ASSUME mode \in {"w", "w+"}, capacity > 0
               PROVE  \/ size' > 0 /\ mem'[size' - 1] = NUL
                      \/ mem'[size'] = NUL /\ (size' < capacity \/ cut')
    BY DEF Terminated
  <2>1. CASE end >= size
    <3>0. size' = end
      BY <1>2, <2>1
    <3>1. size' = end /\ end > 0 /\ end \in 0..MaxCapacity /\ end - 1 \in start..end - 1
          /\ end - 1 \in 0..MaxCapacity /\ (end - 1) - start + 1 = n
      BY <1>0, <3>0 DEF end
    <3>2. mem'[end - 1] = stored[n]
      BY <1>5, <3>1
    <3>3. stored[n] # NUL => mem'[end] = NUL /\ (end < capacity \/ cut')
      BY <1>3, <1>4, <1>5, <2>1, <3>1
    <3> QED
      BY <3>1, <3>2, <3>3
  <2>2. CASE ~(end >= size)
    <3>1. size' = size /\ size > 0 /\ size \in 0..MaxCapacity /\ size - 1 \in 0..MaxCapacity
          /\ size \notin start..end - 1 /\ size - 1 \notin start..end - 1
      BY <1>0, <1>2, <2>2
    <3>2. mem'[size] = mem[size] /\ mem'[size - 1] = mem[size - 1]
      BY <1>4, <1>5, <2>2, <3>1
    <3>3. cut => cut'
      OBVIOUS
    <3> QED
      BY <3>1, <3>2, <3>3 DEF IInv, Terminated
  <2> QED
    BY <2>1, <2>2
<1>9. KeepsBehind
  <2> SUFFICES ASSUME NEW j \in 0..MaxCapacity, j >= capacity, mem'[j] # mem[j]
               PROVE  cut' /\ j = capacity /\ mem'[j] = NUL
    BY DEF KeepsBehind
  <2>1. j \notin start..end - 1
    BY <1>0
  <2>2. j = end /\ NullFollows(end, stored) /\ mem'[j] = NUL
    BY <1>5, <2>1
  <2> QED
    BY <1>0, <1>4, <2>2
<1>10. ASSUME NEW j \in 1..n PROVE mem'[start + j - 1] = moved'[j]
  <2>1. start + j - 1 \in start..end - 1 /\ start + j - 1 \in 0..MaxCapacity
        /\ (start + j - 1) - start + 1 = j
    BY <1>0 DEF end
  <2> QED
    BY <1>2, <1>5, <2>1
<1>11. \A j \in 0..size - 1 : j \notin start..end - 1 => mem'[j] = mem[j]
  BY <1>0, <1>4, <1>5
<1>12. end = start + n
  BY DEF end
<1>13. offset' = start + n /\ size' = (IF start + n > size THEN start + n ELSE size) /\ Len(moved') = n
  BY <1>0, <1>1, <1>2, <1>12
<1>14. IInv'
  BY <1>7, <1>8 DEF IInv
<1>15. \A j \in 0..size - 1 : j \notin start..start + n - 1 => mem'[j] = mem[j]
  <2> SUFFICES ASSUME NEW j \in 0..size - 1, j \notin start..start + n - 1
               PROVE  mem'[j] = mem[j]
    OBVIOUS
  <2>1. j \notin start..end - 1
    BY <1>0, <1>12
  <2> QED
    BY <1>11, <2>1
<1>16. \A j \in 1..n : mem'[start + j - 1] = moved'[j]
  BY <1>10
<1> HIDE DEF end
<1> QED
  BY <1>9, <1>13, <1>14, <1>15, <1>16

\* fmemopen_write: what fits is stored, or nothing.
LEMMA WriteKeepsIInv ==
  ASSUME IInv, Write
  PROVE  /\ IInv'
         /\ KeepsBehind
         /\ mode # Closed /\ UNCHANGED <<mode, capacity>>
         /\ \E start \in {size, offset} :
              \/ offset' = start /\ moved' = <<>> /\ UNCHANGED <<mem, size>>
              \/ \E n \in Nat \ {0} :
                   /\ offset' = start + n
                   /\ size' = IF start + n > size THEN start + n ELSE size
                   /\ Len(moved') = n
                   /\ \A j \in 1..n : mem'[start + j - 1] = moved'[j]
                   /\ \A j \in 0..size - 1 : j \notin start..start + n - 1 => mem'[j] = mem[j]
<1> DEFINE start == IF mode \in {"a", "a+"} THEN size ELSE offset
           Taken(d) == IF Len(d) + SpaceForNull(d) > capacity - start
                         THEN capacity - start - SpaceForNull(d) ELSE Len(d)
<1>1. PICK d \in Chunks :
        IF Taken(d) > 0
          THEN Store(start, d, Taken(d)) /\ cut' = (cut \/ (Taken(d) < Len(d) /\ IsString(d)))
          ELSE offset' = start /\ moved' = <<>> /\ UNCHANGED <<mem, size, cut>>
  BY DEF Write
<1>2. mode # Closed /\ UNCHANGED <<mode, capacity>> /\ start \in {size, offset}
  BY DEF Write, HasWrite
<1> DEFINE n == Taken(d)
<1>3. n \in Int /\ n <= Len(d) /\ n + SpaceForNull(d) <= capacity - start
  BY <1>2, ChunkFacts, FMemOpenAssumption DEF IInv, Shape
<1> HIDE DEF start, Taken
<1>4. CASE n > 0
  <2>1. Store(start, d, n) /\ cut' = (cut \/ (n < Len(d) /\ IsString(d)))
    BY <1>1, <1>4
  <2>2. n \in Nat \ {0}
    BY <1>3, <1>4
  <2> HIDE DEF n
  <2> QED
    BY <1>2, <1>3, <1>4, <2>1, <2>2, StoringKeepsIInv
<1>5. CASE ~(n > 0)
  <2>1. offset' = start /\ moved' = <<>> /\ UNCHANGED <<mem, size, cut>>
    BY <1>1, <1>5
  <2>2. IInv' /\ KeepsBehind
    BY <1>2, <2>1, FMemOpenAssumption DEF IInv, Shape, Terminated, KeepsBehind
  <2> QED
    BY <1>2, <2>1, <2>2
<1> QED
  BY <1>4, <1>5

-----------------------------------------------------------------------------
(* The steps                                                               *)

\* The invariant holds before a stream is opened.
LEMMA InitIInv == Init => IInv
<1> SUFFICES ASSUME Init PROVE IInv
  OBVIOUS
<1>1. cut \in BOOLEAN
  BY DEF Init
<1> QED
  BY <1>1, FMemOpenAssumption DEF Init, IInv, Shape, Terminated

\* A read returns bytes of the data and moves behind them.
LEMMA ReadKeepsIInv ==
  ASSUME IInv, Read
  PROVE  /\ IInv' /\ UNCHANGED <<mode, mem, capacity, size, cut>>
         /\ \E n \in 0..size - offset :
              moved' = [j \in 1..n |-> mem[offset + j - 1]] /\ offset' = offset + n
<1>0. /\ MaxCapacity \in Nat /\ capacity \in 0..MaxCapacity /\ size \in 0..capacity
      /\ offset \in 0..capacity /\ offset <= size /\ MaxRead \in Nat
      /\ mem \in [0..MaxCapacity -> Bytes] /\ UNCHANGED <<mode, mem, capacity, size, cut>>
  BY FMemOpenAssumption DEF Read, InsideData, IInv, Shape, Memory
<1>1. PICK n \in 0..size - offset :
        moved' = [j \in 1..n |-> mem[offset + j - 1]] /\ offset' = offset + n
  <2>1. PICK asked \in 1..MaxRead :
          LET n == IF asked > size - offset THEN size - offset ELSE asked IN
          moved' = [j \in 1..n |-> mem[offset + j - 1]] /\ offset' = offset + n
    BY DEF Read
  <2> DEFINE n == IF asked > size - offset THEN size - offset ELSE asked
  <2>2. n \in 0..size - offset
    BY <1>0
  <2> QED
    BY <2>1, <2>2
<1>2. moved' \in Seq(Bytes)
  <2>1. \A j \in 1..n : mem[offset + j - 1] \in Bytes
    BY <1>0
  <2>2. moved' \in [1..n -> Bytes] /\ n \in Nat
    BY <1>0, <1>1, <2>1
  <2> QED
    BY <2>2
<1>3. offset' \in 0..capacity
  BY <1>0, <1>1
<1> QED
  BY <1>0, <1>1, <1>2, <1>3 DEF IInv, Shape, Terminated

\* A seek stays within the buffer.
LEMMA SeekKeepsIInv ==
  ASSUME IInv, Seek
  PROVE  /\ IInv' /\ mode # Closed /\ offset' \in 0..MaxCapacity
         /\ UNCHANGED <<mode, mem, capacity, size, cut, moved>>
<1>1. /\ mode # Closed /\ UNCHANGED <<mode, mem, capacity, size, cut, moved>>
      /\ offset' \in 0..capacity
  BY FMemOpenAssumption DEF Seek, SeekTo, WithinBuffer, IInv, Shape
<1> QED
  BY <1>1, FMemOpenAssumption DEF IInv, Shape, Terminated

\* Every callback keeps the invariant, and what is behind the buffer but for the end of
\* a string.
LEMMA StepKeepsIInv == IInv /\ [Next]_vars => IInv' /\ KeepsBehind
<1> SUFFICES ASSUME IInv, [Next]_vars PROVE IInv' /\ KeepsBehind
  OBVIOUS
<1>1. CASE Open
  BY <1>1, OpenKeepsIInv DEF KeepsBehind
<1>2. CASE Read
  BY <1>2, ReadKeepsIInv DEF KeepsBehind
<1>3. CASE Write
  BY <1>3, WriteKeepsIInv
<1>4. CASE Seek
  BY <1>4, SeekKeepsIInv DEF KeepsBehind
<1>5. CASE Close
  <2>1. cut' \in BOOLEAN
    BY <1>5 DEF Close
  <2> QED
    BY <1>5, <2>1, FMemOpenAssumption DEF Close, IInv, Shape, Terminated, KeepsBehind
<1>6. CASE UNCHANGED vars
  BY <1>6 DEF vars, IInv, Shape, Terminated, KeepsBehind
<1> QED
  BY <1>1, <1>2, <1>3, <1>4, <1>5, <1>6 DEF Next

\* The offset and the size stay within the buffer, whatever is written.
THEOREM FMemOpenInvariant == Spec => []IInv
BY InitIInv, StepKeepsIInv, PTL DEF Spec

\* Whatever is written, in chunks of any length and with any seeks between, nothing is
\* stored behind the buffer but the NUL of line 129, and that only in a stream that was
\* given a string too long for it.
THEOREM FMemOpenStaysInside == Spec => StaysInside
<1>1. IInv /\ [Next]_vars =>
        [\A j \in DOMAIN mem :
           j >= capacity' /\ mem'[j] # mem[j] => cut' /\ j = capacity' /\ mem'[j] = NUL]_vars
  BY StepKeepsIInv DEF KeepsBehind, IInv, Shape, Memory
<1> QED
  BY <1>1, FMemOpenInvariant, PTL DEF Spec, StaysInside

\* Whatever is written to a stream opened for writing, its data end in a NUL or are
\* followed by one, within the buffer unless a string was cut at its end.
THEOREM FMemOpenTerminates == Spec => []Terminated
<1>1. IInv => Terminated
  BY DEF IInv
<1> QED
  BY <1>1, FMemOpenInvariant, PTL

-----------------------------------------------------------------------------
(* The stream is a file                                                    *)

Data == IF mode = Closed THEN Closed ELSE [j \in 1..size |-> mem[j - 1]]

AFile ==
  /\ Data \in Abstract!Contents /\ Data \in Seq(Bytes) /\ Len(Data) = size /\ Data # Closed
  /\ \A j \in 1..size : Data[j] = mem[j - 1]

\* The file that an open stream stands for.
LEMMA DataOfStream == IInv /\ mode # Closed => AFile
<1> SUFFICES ASSUME IInv, mode # Closed PROVE AFile
  OBVIOUS
<1>1. /\ Data = [j \in 1..size |-> mem[j - 1]] /\ size \in 0..MaxCapacity /\ size \in Nat
      /\ mem \in [0..MaxCapacity -> Bytes] /\ MaxCapacity \in Nat
  BY FMemOpenAssumption DEF Data, IInv, Shape, Memory
<1>2. Data \in [1..size -> Bytes]
  BY <1>1
<1>3. Data \in Abstract!Contents
  BY <1>1, <1>2 DEF Abstract!Contents
<1>4. Data \in Seq(Bytes) /\ Len(Data) = size
  BY <1>1, <1>2
<1>5. Data # Closed
  BY <1>4, StdioStreamAssumption
<1> QED
  BY <1>1, <1>3, <1>4, <1>5 DEF AFile

\* The same after a step.
LEMMA DataOfStreamNext == (IInv /\ mode # Closed => AFile)'
BY DataOfStream, PTL

\* A callback that leaves the buffer alone leaves the file alone.
LEMMA SameData ==
  ASSUME UNCHANGED <<mode, mem, size>>
  PROVE  UNCHANGED Data
BY DEF Data

\* A write is a write of the file.
LEMMA WriteImplements == ASSUME IInv, Write PROVE Abstract!Write
<1>0. /\ mode # Closed /\ UNCHANGED <<mode, capacity>> /\ IInv'
      /\ size \in Nat /\ offset \in Nat
  BY WriteKeepsIInv, FMemOpenAssumption DEF IInv, Shape
<1>1. /\ Data \in Seq(Bytes) /\ Len(Data) = size /\ Data # Closed
      /\ \A j \in 1..size : Data[j] = mem[j - 1]
  BY <1>0, DataOfStream DEF AFile
<1>2. /\ Data' \in Abstract!Contents /\ Len(Data') = size'
      /\ \A j \in 1..size' : Data'[j] = mem'[j - 1]
  BY <1>0, DataOfStreamNext DEF AFile
<1>3. PICK start \in {size, offset} :
        \/ offset' = start /\ moved' = <<>> /\ UNCHANGED <<mem, size>>
        \/ \E n \in Nat \ {0} :
             /\ offset' = start + n
             /\ size' = IF start + n > size THEN start + n ELSE size
             /\ Len(moved') = n
             /\ \A j \in 1..n : mem'[start + j - 1] = moved'[j]
             /\ \A j \in 0..size - 1 : j \notin start..start + n - 1 => mem'[j] = mem[j]
  BY WriteKeepsIInv
<1>4. start \in {offset, Len(Data)} /\ start \in Nat
  BY <1>0, <1>1
<1>5. CASE offset' = start /\ moved' = <<>> /\ UNCHANGED <<mem, size>>
  <2>1. Len(moved') = 0 /\ Data' = Data /\ offset' = start + 0
    BY <1>0, <1>4, <1>5, SameData
  <2> QED
    BY <1>1, <1>4, <2>1 DEF Abstract!Write, Data
<1>6. ASSUME NEW n \in Nat \ {0}, offset' = start + n,
             size' = IF start + n > size THEN start + n ELSE size,
             Len(moved') = n,
             \A j \in 1..n : mem'[start + j - 1] = moved'[j],
             \A j \in 0..size - 1 : j \notin start..start + n - 1 => mem'[j] = mem[j]
      PROVE  Abstract!Write
  <2>1. ASSUME NEW j \in 1..n PROVE Data'[start + j] = moved'[j]
    <3>1. start + j \in 1..size' /\ (start + j) - 1 = start + j - 1
      BY <1>0, <1>4, <1>6
    <3> QED
      BY <1>2, <1>6, <3>1
  <2>2. ASSUME NEW j \in 1..size, j \notin start + 1..offset' PROVE Data'[j] = Data[j]
    <3>1. j \in 1..size' /\ j - 1 \in 0..size - 1 /\ j - 1 \notin start..start + n - 1
      BY <1>0, <1>4, <1>6, <2>2
    <3> QED
      BY <1>1, <1>2, <1>6, <3>1
  <2> QED
    BY <1>1, <1>2, <1>4, <1>6, <2>1, <2>2 DEF Abstract!Write, Data
<1> QED
  BY <1>3, <1>5, <1>6

\* A read is a read of the file.
LEMMA ReadImplements == ASSUME IInv, Read PROVE Abstract!Read
<1>0. /\ mode # Closed /\ UNCHANGED <<mode, mem, size>> /\ offset <= size
      /\ size \in Nat /\ offset \in Nat
  BY ReadKeepsIInv, FMemOpenAssumption DEF IInv, Shape, Read, HasRead
<1>1. /\ Data \in Seq(Bytes) /\ Len(Data) = size /\ Data # Closed /\ UNCHANGED Data
      /\ \A j \in 1..size : Data[j] = mem[j - 1]
  BY <1>0, DataOfStream, SameData DEF AFile
<1>2. PICK n \in 0..size - offset :
        moved' = [j \in 1..n |-> mem[offset + j - 1]] /\ offset' = offset + n
  BY ReadKeepsIInv
<1>3. offset' \in offset..Len(Data)
  BY <1>0, <1>1, <1>2
<1>4. moved' = SubSeq(Data, offset + 1, offset')
  <2>1. SubSeq(Data, offset + 1, offset') = [j \in 1..n |-> Data[j + (offset + 1) - 1]]
    BY <1>0, <1>1, <1>2
  <2>2. \A j \in 1..n : Data[j + (offset + 1) - 1] = mem[offset + j - 1]
    BY <1>0, <1>1, <1>2
  <2> QED
    BY <1>2, <2>1, <2>2
<1> QED
  BY <1>1, <1>3, <1>4 DEF Abstract!Read, Data

\* Every callback is one of the file or none.
LEMMA StepImplements == IInv /\ [Next]_vars => [Abstract!Next]_(Abstract!vars)
<1> SUFFICES ASSUME IInv, [Next]_vars
             PROVE  Abstract!Next \/ UNCHANGED <<Data, offset, moved>>
  BY DEF Abstract!vars, Data
<1>1. CASE Open
  <2>1. mode = Closed /\ mode' # Closed /\ moved' = <<>> /\ offset' \in {0, size'}
    BY <1>1, OpenKeepsIInv, FMemOpenAssumption DEF Open
  <2>2. Data = Closed /\ Data' \in Abstract!Contents /\ Len(Data') = size'
    BY <1>1, <2>1, OpenKeepsIInv, DataOfStreamNext DEF AFile, Data
  <2> QED
    BY <2>1, <2>2 DEF Abstract!Next, Abstract!Open, Data
<1>2. CASE Read
  BY <1>2, ReadImplements DEF Abstract!Next
<1>3. CASE Write
  BY <1>3, WriteImplements DEF Abstract!Next
<1>4. CASE Seek
  <2>1. mode # Closed /\ offset' \in 0..MaxCapacity /\ UNCHANGED <<mode, mem, size, moved>>
    BY <1>4, SeekKeepsIInv
  <2>2. Data # Closed /\ UNCHANGED Data
    BY <2>1, DataOfStream, SameData DEF AFile
  <2> QED
    BY <2>1, <2>2 DEF Abstract!Next, Abstract!Seek, Data
<1>5. CASE Close
  <2>1. mode # Closed /\ mode' = Closed /\ offset' = 0 /\ moved' = <<>>
    BY <1>5 DEF Close
  <2>2. Data # Closed /\ Data' = Closed
    BY <2>1, DataOfStream DEF AFile, Data
  <2> QED
    BY <2>1, <2>2 DEF Abstract!Next, Abstract!Close, Data
<1>6. CASE UNCHANGED vars
  BY <1>6, SameData DEF vars
<1> QED
  BY <1>1, <1>2, <1>3, <1>4, <1>5, <1>6 DEF Next

\* The stream implements a file of bytes, whatever is written: a write changes its own
\* bytes only, and the NUL put behind them never clobbers data.
THEOREM FMemOpenImplements == Spec => ImplementsFile
<1>1. Init => Abstract!Init
  BY DEF Init, Abstract!Init
<1> QED
  BY <1>1, StepImplements, FMemOpenInvariant, PTL DEF Spec, ImplementsFile, Abstract!Spec

-----------------------------------------------------------------------------
(* The array that grows                                                    *)

ArrayShape ==
  /\ stream \in {"open", Closed}
  /\ pos \in Nat /\ st_size \in Nat /\ len \in Nat
  /\ stream = Closed => pos = 0 /\ len = 0 /\ moved = <<>>
  /\ stream = "open" => string \in [0..st_size - 1 -> Bytes]
  /\ pos <= MaxPos /\ len <= MaxPos
  /\ moved \in Seq(Bytes)

ArrayInv == ArrayShape /\ Published /\ ZeroBehindData

-----------------------------------------------------------------------------
(* memstream_write                                                         *)

\* A chunk is a sequence of bytes, and not empty.
LEMMA ChunkOfArray ==
  ASSUME NEW d \in Chunks
  PROVE  d \in Seq(Bytes) /\ Len(d) \in Nat \ {0} /\ \A j \in 1..Len(d) : d[j] \in Bytes
<1>1. d \in Seq(Bytes) /\ d # <<>>
  BY StdioStreamAssumption
<1>2. Len(d) \in Nat \ {0}
  BY <1>1
<1>3. \A j \in 1..Len(d) : d[j] \in Bytes
  BY <1>1
<1> QED
  BY <1>1, <1>2, <1>3

\* A new array is larger than the data and the NUL behind them.
LEMMA NewSizeIsEnough ==
  ASSUME NEW end \in Nat, st_size \in Nat
  PROVE  NewSize(end) \in Nat /\ NewSize(end) >= end + 1
BY DEF NewSize

\* The array that is written to, old or new: it holds what the string held, and
\* zeroes behind that.
LEMMA StoringKeepsArrayInv ==
  ASSUME ArrayInv, stream = "open", UNCHANGED stream, NEW d \in Chunks, pos + Len(d) <= MaxPos,
         NEW array, st_size' \in Nat, st_size' > pos + Len(d), st_size' >= st_size,
         array \in [0..st_size' - 1 -> Bytes],
         \A j \in 0..st_size' - 1 : array[j] = IF j < st_size THEN string[j] ELSE NUL,
         StoreIn(array, d), pbuf' = st_size'
  PROVE  /\ ArrayInv'
         /\ \A j \in 0..len' - 1 :
              string'[j] = IF j \in pos..pos' - 1 THEN d[j - pos + 1] ELSE array[j]
<1> DEFINE end == pos + Len(d)
<1>a. pos \in Nat /\ len \in Nat /\ st_size \in Nat
  BY DEF ArrayInv, ArrayShape
<1>b. Len(d) \in Nat \ {0}
  BY ChunkOfArray
<1>c. end \in Nat
  BY <1>a, <1>b
<1>d. len < st_size /\ \A j \in len..st_size - 1 : string[j] = NUL
  BY DEF ArrayInv, ZeroBehindData
<1>e. MaxPos \in Nat /\ NUL \in Bytes
  BY MemStreamAssumption, StdioStreamAssumption
<1>0. /\ pos \in Nat /\ len \in Nat /\ st_size \in Nat /\ Len(d) \in Nat \ {0} /\ end \in Nat
      /\ len < st_size /\ \A j \in len..st_size - 1 : string[j] = NUL
      /\ MaxPos \in Nat /\ NUL \in Bytes
  BY <1>a, <1>b, <1>c, <1>d, <1>e
<1>1. /\ pos' = end /\ psize' = end /\ moved' = d
      /\ len' = IF end > len THEN end ELSE len
      /\ string' = [j \in DOMAIN array |->
                      CASE j \in pos..end - 1 -> d[j - pos + 1]
                        [] j = end /\ end > len -> NUL
                        [] OTHER -> array[j]]
  BY DEF StoreIn, ZeroFollows
<1>2. DOMAIN array = 0..st_size' - 1
  OBVIOUS
<1>3. ASSUME NEW j \in 0..st_size' - 1
      PROVE  /\ j \in pos..end - 1 => string'[j] = d[j - pos + 1] /\ j - pos + 1 \in 1..Len(d)
             /\ j = end /\ end > len => string'[j] = NUL
             /\ j \notin pos..end - 1 /\ ~(j = end /\ end > len) => string'[j] = array[j]
  BY <1>0, <1>1, <1>2
<1>4. string' \in [0..st_size' - 1 -> Bytes]
  <2>1. DOMAIN string' = 0..st_size' - 1 /\ string' = [j \in 0..st_size' - 1 |-> string'[j]]
    BY <1>1, <1>2
  <2>2. ASSUME NEW j \in 0..st_size' - 1 PROVE string'[j] \in Bytes
    <3>1. CASE j \in pos..end - 1
      BY <1>3, <3>1, ChunkOfArray
    <3>2. CASE j \notin pos..end - 1
      BY <1>0, <1>3, <3>2
    <3> QED
      BY <3>1, <3>2
  <2> QED
    BY <2>1, <2>2
<1>5. ArrayShape'
  BY <1>0, <1>1, <1>4, ChunkOfArray, MemStreamAssumption DEF ArrayInv, ArrayShape
<1>6. Published'
  BY <1>0, <1>1 DEF Published, Minimum
<1>7. ZeroBehindData'
  <2>1. len' < st_size'
    BY <1>0, <1>1
  <2>2. ASSUME NEW j \in len'..st_size' - 1 PROVE string'[j] = NUL
    <3>1. j \in 0..st_size' - 1 /\ j >= len /\ j >= end /\ j \notin pos..end - 1
      BY <1>0, <1>1
    <3>2. j < st_size => j \in len..st_size - 1
      BY <1>0, <3>1
    <3>3. array[j] = NUL
      BY <1>0, <3>1, <3>2
    <3> QED
      BY <1>3, <3>1, <3>3
  <2> QED
    BY <2>1, <2>2 DEF ZeroBehindData
<1>8. ASSUME NEW j \in 0..len' - 1
      PROVE  string'[j] = IF j \in pos..pos' - 1 THEN d[j - pos + 1] ELSE array[j]
  <2>1. j \in 0..st_size' - 1 /\ ~(j = end /\ end > len)
    BY <1>0, <1>1
  <2> QED
    BY <1>1, <1>3, <2>1
<1> QED
  BY <1>5, <1>6, <1>7, <1>8 DEF ArrayInv

\* What is below the smaller of two numbers is below the larger.
LEMMA Below == \A m, n \in Nat : m < n => \A j \in 0..m - 1 : j \in 0..n - 1 /\ j < n
OBVIOUS

\* A write stores its bytes; before and behind them is what was there.
LEMMA ArrayWriteKeepsInv ==
  ASSUME ArrayInv, NEW d \in Chunks, MemStreamWrite(d)
  PROVE  /\ ArrayInv'
         /\ \A j \in 0..len' - 1 :
              string'[j] = IF j \in pos..pos' - 1 THEN d[j - pos + 1]
                           ELSE IF j < st_size THEN string[j] ELSE NUL
<1> DEFINE end == pos + Len(d)
<1>0. /\ stream = "open" /\ UNCHANGED stream /\ end <= MaxPos
      /\ pos \in Nat /\ st_size \in Nat /\ len \in Nat /\ end \in Nat /\ NUL \in Bytes
      /\ string \in [0..st_size - 1 -> Bytes] /\ pbuf = st_size
  BY ChunkOfArray, StdioStreamAssumption DEF MemStreamWrite, ArrayInv, ArrayShape, Published
<1>1. CASE MustGrow(end)
  <2>1. PICK tail \in Cleared(NewSize(end)) : StoreIn(Grown(NewSize(end), tail), d)
    BY <1>1 DEF MemStreamWrite
  <2>2. st_size' = NewSize(end) /\ pbuf' = st_size' /\ st_size' \in Nat /\ st_size' >= end + 1 /\ st_size' >= st_size
    BY <1>0, <1>1, NewSizeIsEnough DEF MemStreamWrite, Republished, MustGrow
  <2> DEFINE array == Grown(NewSize(end), tail)
  <2>3. array = [j \in 0..st_size' - 1 |-> IF j < st_size THEN string[j] ELSE NUL]
    BY <1>0, <2>2 DEF Grown, Cleared
  <2>4. array \in [0..st_size' - 1 -> Bytes]
    BY <1>0, <2>2, <2>3
  <2>5. \A j \in 0..st_size' - 1 : array[j] = IF j < st_size THEN string[j] ELSE NUL
    BY <2>3
  <2>6. st_size' > pos + Len(d) /\ pos + Len(d) <= MaxPos
    BY <1>0, <2>2
  <2> HIDE DEF array
  <2>7. /\ ArrayInv'
        /\ \A j \in 0..len' - 1 :
             string'[j] = IF j \in pos..pos' - 1 THEN d[j - pos + 1] ELSE array[j]
    BY <1>0, <2>1, <2>2, <2>4, <2>5, <2>6, StoringKeepsArrayInv DEF array
  <2>8. len' \in Nat /\ st_size' \in Nat /\ len' < st_size'
    BY <1>0, <2>7 DEF ArrayInv, ArrayShape, ZeroBehindData
  <2>9. \A j \in 0..len' - 1 : j \in 0..st_size' - 1
    BY <2>8, Below
  <2> QED
    BY <2>5, <2>7, <2>9
<1>2. CASE ~MustGrow(end)
  <2>1. StoreIn(string, d) /\ UNCHANGED <<st_size, pbuf>> /\ st_size > end
    BY <1>0, <1>2 DEF MemStreamWrite, MustGrow
  <2>2. \A j \in 0..st_size' - 1 : string[j] = IF j < st_size THEN string[j] ELSE NUL
    BY <1>0, <2>1
  <2>3. /\ ArrayInv'
        /\ \A j \in 0..len' - 1 :
             string'[j] = IF j \in pos..pos' - 1 THEN d[j - pos + 1] ELSE string[j]
    BY <1>0, <2>1, <2>2, StoringKeepsArrayInv
  <2>4. len' \in Nat /\ st_size' \in Nat /\ len' < st_size'
    BY <1>0, <2>3 DEF ArrayInv, ArrayShape, ZeroBehindData
  <2>5. st_size' = st_size /\ st_size \in Nat
    BY <1>0, <2>1
  <2>6. \A j \in 0..len' - 1 : j < st_size
    BY <2>4, <2>5, Below
  <2> QED
    BY <2>3, <2>6
<1> QED
  BY <1>1, <1>2

\* The invariant holds before the stream is opened.
LEMMA InitArrayInv == MemStreamInit => ArrayInv
BY MemStreamAssumption DEF MemStreamInit, ArrayInv, ArrayShape, Published, ZeroBehindData

\* Every call preserves the invariant.
LEMMA StepKeepsArrayInv == ArrayInv /\ [MemStreamNext]_memstream_vars => ArrayInv'
<1> SUFFICES ASSUME ArrayInv, [MemStreamNext]_memstream_vars PROVE ArrayInv'
  OBVIOUS
<1> USE DEF ArrayInv, ArrayShape, Published, ZeroBehindData
<1>1. CASE OpenMemStream
  <2>1. BUFSIZ \in Nat /\ BUFSIZ > 0 /\ NUL \in Bytes /\ MaxPos \in Nat
    BY StdioStreamAssumption, MemStreamAssumption
  <2> QED
    BY <1>1, <2>1, MemStreamAssumption DEF OpenMemStream, Minimum
<1>2. ASSUME NEW d \in Chunks, MemStreamWrite(d) PROVE ArrayInv'
  BY <1>2, ArrayWriteKeepsInv
<1>3. ASSUME NEW d \in Chunks, MemStreamWriteFails(d) PROVE ArrayInv'
  BY <1>3, MemStreamAssumption DEF MemStreamWriteFails
<1>4. CASE MemStreamSeek
  BY <1>4, MemStreamAssumption DEF MemStreamSeek, Unsigned, PosWithin
<1>5. CASE MemStreamClose
  BY <1>5, MemStreamAssumption DEF MemStreamClose
<1>6. CASE UNCHANGED memstream_vars
  BY <1>6 DEF memstream_vars
<1> QED
  BY <1>1, <1>2, <1>3, <1>4, <1>5, <1>6 DEF MemStreamNext

\* The inductive invariant of the stream.
THEOREM MemStreamInvariant == MemStreamSpec => []ArrayInv
BY InitArrayInv, StepKeepsArrayInv, PTL DEF MemStreamSpec

\* The user is told the array in use and min(pos, len), after every call.
THEOREM MemStreamPublishes == MemStreamSpec => []Published
BY MemStreamInvariant, PTL DEF ArrayInv

\* The data are a string: behind them the array is zero, and has room for a NUL.
THEOREM MemStreamTerminates == MemStreamSpec => []ZeroBehindData
BY MemStreamInvariant, PTL DEF ArrayInv

-----------------------------------------------------------------------------
(* The stream is a file                                                    *)

ArrayIsFile ==
  /\ Contents \in AbstractFile!Contents
  /\ Contents \in Seq(Bytes) /\ Len(Contents) = len /\ Contents # Closed
  /\ \A j \in 1..len : Contents[j] = string[j - 1]

\* The file that an open stream stands for.
LEMMA FileOfArray == ArrayInv /\ stream = "open" => ArrayIsFile
<1> SUFFICES ASSUME ArrayInv, stream = "open" PROVE ArrayIsFile
  OBVIOUS
<1>1. Contents = [j \in 1..len |-> string[j - 1]]
  BY MemStreamAssumption DEF Contents
<1>2. len \in 0..MaxPos /\ len < st_size /\ st_size \in Nat /\ string \in [0..st_size - 1 -> Bytes]
  BY MemStreamAssumption DEF ArrayInv, ArrayShape, ZeroBehindData
<1>3. Contents \in [1..len -> Bytes]
  BY <1>1, <1>2
<1>4. Contents \in AbstractFile!Contents
  BY <1>2, <1>3 DEF AbstractFile!Contents
<1>5. Contents \in Seq(Bytes) /\ Len(Contents) = len
  BY <1>1, <1>2, <1>3
<1> QED
  BY <1>1, <1>3, <1>4, <1>5, StdioStreamAssumption DEF ArrayIsFile

\* The same after a step.
LEMMA FileOfArrayNext == (ArrayInv /\ stream = "open" => ArrayIsFile)'
BY FileOfArray, PTL

\* A call that leaves the array alone leaves the file alone.
LEMMA SameArray ==
  ASSUME UNCHANGED <<stream, string, len>>
  PROVE  UNCHANGED Contents
BY DEF Contents

\* A write is a write of the file.
LEMMA ArrayWriteImplements ==
  ASSUME ArrayInv, NEW d \in Chunks, MemStreamWrite(d)
  PROVE  AbstractFile!Write
<1>1. /\ stream = "open" /\ stream' = "open" /\ moved' = d /\ pos' = pos + Len(d)
      /\ len' = IF pos + Len(d) > len THEN pos + Len(d) ELSE len
      /\ Len(d) \in Nat \ {0} /\ pos \in Nat /\ len \in Nat /\ st_size \in Nat /\ len < st_size
      /\ \A j \in len..st_size - 1 : string[j] = NUL
  BY ChunkOfArray DEF MemStreamWrite, StoreIn, ArrayInv, ArrayShape, ZeroBehindData
<1>2. ArrayInv'
  BY ArrayWriteKeepsInv
<1>3. /\ Contents \in Seq(Bytes) /\ Len(Contents) = len /\ Contents # Closed
      /\ \A j \in 1..len : Contents[j] = string[j - 1]
  BY <1>1, FileOfArray DEF ArrayIsFile
<1>4. /\ Contents' \in AbstractFile!Contents /\ Len(Contents') = len'
      /\ \A j \in 1..len' : Contents'[j] = string'[j - 1]
  BY <1>1, <1>2, FileOfArrayNext DEF ArrayIsFile
<1>5. ASSUME NEW j \in 1..Len(d) PROVE Contents'[pos + j] = d[j]
  <2>1. pos + j \in 1..len' /\ pos + j - 1 \in 0..len' - 1 /\ pos + j - 1 \in pos..pos' - 1
        /\ (pos + j - 1) - pos + 1 = j
    BY <1>1
  <2>2. string'[pos + j - 1] = d[(pos + j - 1) - pos + 1]
    BY <2>1, ArrayWriteKeepsInv
  <2>3. Contents'[pos + j] = string'[pos + j - 1]
    BY <1>1, <1>4, <2>1
  <2> QED
    BY <2>1, <2>2, <2>3
<1>6. ASSUME NEW j \in 1..len, j \notin pos + 1..pos' PROVE Contents'[j] = Contents[j]
  <2>1. j \in 1..len' /\ j - 1 \in 0..len' - 1 /\ j - 1 \notin pos..pos' - 1 /\ j - 1 < st_size
    BY <1>1, <1>6
  <2> QED
    BY <1>3, <1>4, <2>1, ArrayWriteKeepsInv
<1>7. len' = IF pos' > len THEN pos' ELSE len
  BY <1>1
<1> QED
  BY <1>1, <1>3, <1>4, <1>5, <1>6, <1>7 DEF AbstractFile!Write

\* A write that could not get memory is one of no bytes.
LEMMA FailedWriteImplements ==
  ASSUME ArrayInv, NEW d \in Chunks, MemStreamWriteFails(d)
  PROVE  AbstractFile!Write
<1>1. stream = "open" /\ moved' = <<>> /\ UNCHANGED <<stream, string, len, pos>> /\ pos \in Nat
  BY DEF MemStreamWriteFails, ArrayInv, ArrayShape
<1>2. Contents' = Contents /\ Contents # Closed
  BY <1>1, SameArray, FileOfArray DEF ArrayIsFile
<1> QED
  BY <1>1, <1>2 DEF AbstractFile!Write

\* Every call is one of the file or none.
LEMMA ArrayStepImplements == ArrayInv /\ [MemStreamNext]_memstream_vars => [AbstractFile!Next]_(AbstractFile!vars)
<1> SUFFICES ASSUME ArrayInv, [MemStreamNext]_memstream_vars PROVE AbstractFile!Next \/ UNCHANGED <<Contents, pos, moved>>
  BY DEF AbstractFile!vars
<1>1. CASE OpenMemStream
  <2>1. stream = Closed /\ stream' = "open" /\ pos' = 0 /\ len' = 0 /\ moved' = <<>>
    BY <1>1 DEF OpenMemStream
  <2>2. ArrayInv'
    BY StepKeepsArrayInv
  <2>3. Contents = Closed /\ Contents' \in AbstractFile!Contents
    BY <2>1, <2>2, FileOfArrayNext DEF ArrayIsFile, Contents
  <2> QED
    BY <2>1, <2>3 DEF AbstractFile!Next, AbstractFile!Open
<1>2. ASSUME NEW d \in Chunks, MemStreamWrite(d) PROVE AbstractFile!Next
  BY <1>2, ArrayWriteImplements DEF AbstractFile!Next
<1>3. ASSUME NEW d \in Chunks, MemStreamWriteFails(d) PROVE AbstractFile!Next
  BY <1>3, FailedWriteImplements DEF AbstractFile!Next
<1>4. CASE MemStreamSeek
  <2>1. stream = "open" /\ pos' \in 0..MaxPos /\ UNCHANGED <<stream, string, len, moved>>
    BY <1>4 DEF MemStreamSeek, Unsigned
  <2>2. Contents' = Contents /\ Contents # Closed
    BY <2>1, SameArray, FileOfArray DEF ArrayIsFile
  <2> QED
    BY <2>1, <2>2 DEF AbstractFile!Next, AbstractFile!Seek
<1>5. CASE MemStreamClose
  <2>1. stream = "open" /\ stream' = Closed /\ pos' = 0 /\ moved' = <<>>
    BY <1>5 DEF MemStreamClose
  <2>2. Contents # Closed /\ Contents' = Closed
    BY <2>1, FileOfArray DEF ArrayIsFile, Contents
  <2> QED
    BY <2>1, <2>2 DEF AbstractFile!Next, AbstractFile!Close
<1>6. CASE UNCHANGED memstream_vars
  BY <1>6, SameArray DEF memstream_vars
<1> QED
  BY <1>1, <1>2, <1>3, <1>4, <1>5, <1>6 DEF MemStreamNext

\* The stream implements a file of bytes: a write changes its own bytes only, also
\* when the array moves, and a failed one changes nothing.
THEOREM MemStreamImplements == MemStreamSpec => ImplementsByteFile
<1>1. MemStreamInit => AbstractFile!Init
  BY DEF MemStreamInit, Contents, AbstractFile!Init
<1> QED
  BY <1>1, ArrayStepImplements, MemStreamInvariant, PTL DEF MemStreamSpec, ImplementsByteFile, AbstractFile!Spec

=============================================================================
