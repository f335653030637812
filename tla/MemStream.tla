------------------------------ MODULE MemStream ------------------------------
(***************************************************************************)
(* libc-extra/src/stdio_open_memstream.c: a stream that writes to a buffer *)
(* it lets grow, and tells its user where the buffer is and how long.      *)
(*                                                                         *)
(* The actions are the callbacks given to funopen, as stdio may call them. *)
(* The array behind *pbuf is named by its size: each reallocation makes it *)
(* larger, and the array before is freed.  Positions stay far below the    *)
(* limits of size_t (MaxPos).                                              *)
(***************************************************************************)
EXTENDS StdioStream

CONSTANTS BUFSIZ,
          MaxPos     \* bound: the largest position clients seek to or write up to

ASSUME MemStreamAssumption ==
  /\ BUFSIZ \in Nat \ {0}
  /\ MaxPos \in Nat
  /\ Closed # "open"

VARIABLES stream,   \* "open" or Closed
          string,   \* st->string, an array of st->size bytes
          pos, st_size, len,
          pbuf,     \* *st->pbuf
          psize     \* *st->psize

memstream_vars == <<stream, string, pos, st_size, len, pbuf, psize, moved>>

MemStreamInit ==
  /\ stream = Closed
  /\ string = [j \in {} |-> NUL]
  /\ pos = 0 /\ st_size = 0 /\ len = 0
  /\ pbuf = 0 /\ psize = 0
  /\ moved = <<>>

Minimum(m, n) == IF m < n THEN m ELSE n

\* open_memstream; its failures leave no stream.
OpenMemStream ==
  /\ stream = Closed
  /\ stream' = "open"
  /\ string' = [j \in 0..BUFSIZ - 1 |-> NUL]
  /\ pos' = 0 /\ st_size' = BUFSIZ /\ len' = 0
  /\ pbuf' = BUFSIZ /\ psize' = 0
  /\ moved' = <<>>

-----------------------------------------------------------------------------
(* memstream_write                                                         *)

MustGrow(end) == end >= st_size

NewSize(end) == LET golden == (st_size * 8) \div 5 IN
                IF golden < end + 1 THEN end + 1 ELSE golden

\* recallocarray and bzero: the bytes there were, and zeroes.
Grown(s, tail) == [j \in 0..s - 1 |-> IF j < st_size THEN string[j] ELSE tail[j]]

Uncleared(s) == [0..s - 1 -> Bytes]

Cleared(s) == {[j \in 0..s - 1 |-> NUL]}

KeepPointer(s) == pbuf

Republished(s) == s

ZeroAlways(end) == TRUE

ZeroFollows(end) == end > len

\* d is stored at pos in `array', and a NUL behind the data if they got longer.
StoreIn(array, d) ==
  LET end == pos + Len(d) IN
  /\ string' = [j \in DOMAIN array |->
                  CASE j \in pos..end - 1 -> d[j - pos + 1]
                    [] j = end /\ ZeroFollows(end) -> NUL
                    [] OTHER -> array[j]]
  /\ pos' = end
  /\ len' = IF end > len THEN end ELSE len
  /\ psize' = end
  /\ moved' = d

MemStreamWrite(d) ==
  LET end == pos + Len(d) IN
  /\ stream = "open"
  /\ end <= MaxPos
  /\ IF MustGrow(end)
       THEN /\ \E tail \in Cleared(NewSize(end)) : StoreIn(Grown(NewSize(end), tail), d)
            /\ st_size' = NewSize(end)
            /\ pbuf' = Republished(NewSize(end))
       ELSE /\ StoreIn(string, d)
            /\ UNCHANGED <<st_size, pbuf>>
  /\ UNCHANGED stream

\* The buffer has to grow and there is no memory: -1, and nothing changes.
MemStreamWriteFails(d) ==
  /\ stream = "open"
  /\ MustGrow(pos + Len(d))
  /\ moved' = <<>>
  /\ UNCHANGED <<stream, string, pos, st_size, len, pbuf, psize>>

-----------------------------------------------------------------------------
(* memstream_seek, memstream_close                                         *)

Unsigned(p) == p \in 0..MaxPos

PosWithin(p) == Minimum(p, len)

\* Any position that is not negative, also one past the end of the data.
MemStreamSeek ==
  /\ stream = "open"
  /\ \E base \in {0, pos, len}, off \in -MaxPos..MaxPos :
       /\ Unsigned(base + off)
       /\ pos' = base + off
       /\ psize' = PosWithin(base + off)
  /\ UNCHANGED <<stream, string, st_size, len, pbuf, moved>>

\* The state is freed; the buffer and the two variables are the user's.
MemStreamClose ==
  /\ stream = "open"
  /\ stream' = Closed
  /\ string' = [j \in {} |-> NUL]
  /\ pos' = 0 /\ st_size' = 0 /\ len' = 0
  /\ moved' = <<>>
  /\ UNCHANGED <<pbuf, psize>>

-----------------------------------------------------------------------------

MemStreamNext ==
  \/ OpenMemStream
  \/ \E d \in Chunks : MemStreamWrite(d) \/ MemStreamWriteFails(d)
  \/ MemStreamSeek \/ MemStreamClose

MemStreamSpec == MemStreamInit /\ [][MemStreamNext]_memstream_vars

-----------------------------------------------------------------------------

\* The user's pointer is the array in use, never one that growing has freed, and
\* the user's length is min(pos, len), as line 14 says.
Published == stream = "open" => pbuf = st_size /\ psize = Minimum(pos, len)

\* There is room for a NUL behind the data and all the rest is zero, so that the
\* data are a string, and a gap left by a seek past their end reads as zeroes.
ZeroBehindData ==
  stream = "open" => len < st_size /\ \A j \in len..st_size - 1 : string[j] = NUL

\* What the user has written, without the room behind it.
Contents == IF stream = Closed THEN Closed ELSE [j \in 1..len |-> string[j - 1]]

AbstractFile == INSTANCE ByteFile WITH MaxLen <- MaxPos, data <- Contents, pos <- pos

\* The stream is a file of `len' bytes: a write changes its own bytes only, also
\* when it moves the data to a new array.
ImplementsByteFile == AbstractFile!Spec

=============================================================================
