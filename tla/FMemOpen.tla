------------------------------ MODULE FMemOpen ------------------------------
(***************************************************************************)
(* libc-extra/src/stdio_fmemopen.c: a stream over a caller's buffer.  The  *)
(* actions are the four callbacks given to funopen, as stdio may call them *)
(* with any chunk and any seek; each runs under the stream's lock and is   *)
(* one step.  `mem' is the buffer and the memory right behind it: indices  *)
(* from capacity on belong to somebody else.                               *)
(***************************************************************************)
EXTENDS StdioStream, SequencesExt

CONSTANTS Modes,         \* the modes the clients open with
          MaxCapacity,   \* bound: bytes of a buffer
          MaxRead        \* bound: bytes asked of fmemopen_read

ASSUME FMemOpenAssumption ==
  /\ Modes \subseteq {"r", "r+", "w", "w+", "a", "a+"}
  /\ MaxCapacity \in Nat /\ MaxRead \in Nat
  /\ Closed \notin Modes

VARIABLES mode,      \* the mode of the open stream, or Closed
          mem,       \* ck->buf and what lies behind it
          capacity, size, offset,
          cut        \* whether a write to the stream took only the beginning of a string

vars == <<mode, mem, capacity, size, offset, cut, moved>>

\* A write may store one byte behind the buffer.
Memory == [0..MaxCapacity -> Bytes]

Init ==
  /\ mode = Closed
  /\ mem \in Memory
  /\ capacity = 0 /\ size = 0 /\ offset = 0
  /\ cut = FALSE
  /\ moved = <<>>

-----------------------------------------------------------------------------
(* fmemopen                                                                *)

\* strnlen(buf, capacity)
StringLength(buf, cap) ==
  CHOOSE n \in 0..cap : /\ n < cap => buf[n] = NUL
                        /\ \A j \in 0..n - 1 : buf[j] # NUL

\* The caller's buffer, or zeroes from calloc.
Open ==
  /\ mode = Closed
  /\ mode' \in Modes
  /\ capacity' \in 0..MaxCapacity
  /\ \E buf \in {mem, [j \in 0..MaxCapacity |-> IF j < capacity' THEN NUL ELSE mem[j]]} :
       CASE mode' \in {"a", "a+"} ->
              /\ mem' = buf
              /\ size' = StringLength(buf, capacity')
              /\ offset' = size'
         [] mode' \in {"r", "r+"} ->
              /\ mem' = buf
              /\ size' = capacity'
              /\ offset' = 0
         [] mode' \in {"w", "w+"} ->
              /\ mem' = IF capacity' > 0 THEN [buf EXCEPT ![0] = NUL] ELSE buf
              /\ size' = 0
              /\ offset' = 0
  /\ cut' = FALSE
  /\ moved' = <<>>

-----------------------------------------------------------------------------
(* fmemopen_read                                                           *)

\* __sflags
AccessMode(m) == CASE m = "r" -> "O_RDONLY"
                   [] m \in {"w", "a"} -> "O_WRONLY"
                   [] OTHER -> "O_RDWR"

\* The callback is there unless the flags hold O_WRONLY.
HasRead == mode # Closed /\ AccessMode(mode) # "O_WRONLY"

\* At an offset past the end of the data size - offset wraps around, and the callback
\* would copy what lies there without a limit: the clients do not read there.
InsideData == offset <= size

Read ==
  /\ HasRead
  /\ InsideData
  /\ \E asked \in 1..MaxRead :
       LET n == IF asked > size - offset THEN size - offset ELSE asked IN
       /\ moved' = [j \in 1..n |-> mem[offset + j - 1]]
       /\ offset' = offset + n
  /\ UNCHANGED <<mode, mem, capacity, size, cut>>

-----------------------------------------------------------------------------
(* fmemopen_write                                                          *)

\* O_RDONLY is 0, so that `flags & O_RDONLY' never takes the callback away.
HasWrite == mode # Closed

\* A chunk that ends in NUL is a string; all others are text.
IsString(d) == Last(d) = NUL

NoSpaceForNull(d) == 0

SpaceForNull(d) == IF IsString(d) THEN 0 ELSE 1

NullAlways(end, d) == ~IsString(d)

NullNever(end, d) == FALSE

\* The text ends where no byte was ever written.
NullFollows(end, d) == end >= size /\ ~IsString(d)

\* n bytes of d, those that fit, are stored at `start' and perhaps a NUL after them.
Store(start, d, n) ==
  LET stored == SubSeq(d, 1, n)
      end == start + n
  IN
  /\ mem' = [j \in DOMAIN mem |->
               CASE j \in start..end - 1 -> stored[j - start + 1]
                 [] j = end /\ NullFollows(end, stored) -> NUL
                 [] OTHER -> mem[j]]
  /\ offset' = end
  /\ size' = IF end >= size THEN end ELSE size
  /\ moved' = stored

Write ==
  /\ HasWrite
  /\ \E d \in Chunks :
       LET start == IF mode \in {"a", "a+"} THEN size ELSE offset
           room == capacity - start
           n == IF Len(d) + SpaceForNull(d) > room
                  THEN room - SpaceForNull(d) ELSE Len(d)
       IN
       IF n > 0
         THEN /\ Store(start, d, n)
              /\ cut' = (cut \/ (n < Len(d) /\ IsString(d)))
         ELSE \* ENOSPC
              /\ offset' = start
              /\ moved' = <<>>
              /\ UNCHANGED <<mem, size, cut>>
  /\ UNCHANGED <<mode, capacity>>

-----------------------------------------------------------------------------
(* fmemopen_seek and fmemopen_close                                        *)

WithinBuffer(target) == target \in 0..capacity

SeekTo(target) == offset' = target

\* An illegal seek returns EINVAL and changes nothing.
Seek ==
  /\ mode # Closed
  /\ \E distance \in -MaxCapacity..MaxCapacity + 1 :
       \/ WithinBuffer(distance) /\ SeekTo(distance)                       \* SEEK_SET
       \/ WithinBuffer(offset + distance) /\ SeekTo(offset + distance)     \* SEEK_CUR
       \/ distance \in -size..0 /\ SeekTo(size + distance)                 \* SEEK_END
  /\ UNCHANGED <<mode, mem, capacity, size, cut, moved>>

Close ==
  /\ mode # Closed
  /\ mode' = Closed
  /\ capacity' = 0 /\ size' = 0 /\ offset' = 0
  /\ cut' = FALSE
  /\ moved' = <<>>
  /\ UNCHANGED mem

-----------------------------------------------------------------------------

Next == Open \/ Read \/ Write \/ Seek \/ Close

Spec == Init /\ [][Next]_vars

-----------------------------------------------------------------------------

\* However the clients seek, and whatever text they write in chunks of any length, no
\* callback stores behind the buffer.  Of strings that is false: when a string is cut
\* at the end of the buffer its NUL is lost, and the byte behind the buffer becomes
\* NUL (lines 105-107 and 129).  That byte, with that value, is the only one that a
\* callback ever stores there.
StaysInside ==
  [][\A j \in DOMAIN mem :
       j >= capacity' /\ mem'[j] # mem[j] => cut' /\ j = capacity' /\ mem'[j] = NUL]_vars

\* Whatever was written and overwritten, the data of a stream opened for writing end
\* in a NUL, or one follows them; and it lies in the buffer unless a string was cut
\* (lines 126-129; tests/src/fmemopen_test.c prints the buffer as a string).
Terminated ==
  mode \in {"w", "w+"} /\ capacity > 0 =>
    \/ size > 0 /\ mem[size - 1] = NUL
    \/ mem[size] = NUL /\ (size < capacity \/ cut)

\* The stream is a file of `size' bytes: a write changes its own bytes only, a NUL
\* put behind them never counts or clobbers data, and reads return what is there.
Abstract == INSTANCE ByteFile
  WITH MaxLen <- MaxCapacity,
       data <- IF mode = Closed THEN Closed
               ELSE [j \in 1..size |-> mem[j - 1]],
       pos <- offset

ImplementsFile == Abstract!Spec

=============================================================================
