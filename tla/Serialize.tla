----------------------------- MODULE Serialize ------------------------------
(***************************************************************************)
(* The byte streams of serialize.c: a writer of a file, and a reader of    *)
(* it.  serialize_get and unserialize_get ask for some bytes in one piece  *)
(* of memory; pieces that cross the end of the buffer are put together in  *)
(* an overflow vector.  The bytes written are 1, 2, 3, ... in order.       *)
(*                                                                         *)
(* The writer's stream is a file (unix_file_write), a vector that grows    *)
(* (serialize_vector_write), or memory of the caller that has no data      *)
(* function; the reader's is a file (unix_file_read) or memory.            *)
(***************************************************************************)
EXTENDS Integers, Sequences, FiniteSets, FiniteSetsExt, SequencesExt

CONSTANTS N_BUFFER,          \* n_buffer_bytes of a new stream
          MAX_PUT, MAX_GET,  \* bytes of the largest piece written and read
          MAX_BYTES,         \* bound: bytes in all
          SHORTEST_READ      \* the fewest bytes that a read returns while
                             \* there are as many; 0: it may also block

VARIABLES stream,            \* the stream of the writer, then of the reader
          data,              \* what is in the file, or in memory
          n_bytes,           \* history: the bytes written
          lost,              \* history: those that the writer has lost
          got                \* history: the bytes that the reader was given

vars == <<stream, data, n_bytes, lost, got>>

Bytes(i, n) == [k \in 1 .. n |-> i + k]

(* serialize_open_unix_file_descriptor, serialize_open_vector, _open_data. *)
(* A writer's bi is the current_buffer_index that is stored; its buffer    *)
(* goes up to the index in use, which in a call may be a local one.        *)
Opened(kind, at) ==
  [kind |-> kind, at |-> at, buffer |-> <<>>, size |-> N_BUFFER, bi |-> 0,
   overflow |-> <<>>, oi |-> 0, end |-> FALSE, asked |-> 0, left |-> 0, in_o |-> 0]

Init ==
  /\ \/ \E kind \in {"file", "vector", "memory"} : stream = Opened(kind, "write")
     \/ stream = [Opened("vector", "write") EXCEPT !.size = 0]
  /\ data = <<>> /\ n_bytes = 0 /\ lost = {} /\ got = <<>>

-----------------------------------------------------------------------------
\* Mutant: whatever the overflow still holds.
FitsBuffer(s, n) == s.bi + n <= s.size

(* The test of serialize_stream_read_write: the buffer has room, and the   *)
(* overflow holds nothing that is to be written first.                     *)
Fits(s, n) == s.overflow = <<>> /\ s.bi + n <= s.size

(* The end of the memory of a stream without a data function is noticed    *)
(* before that test.                                                       *)
AtEnd(s, n, size) == s.end \/ (s.kind = "memory" /\ s.bi + n = size)

(* serialize_get, and its caller writing the piece.                        *)
serialize_get(n) ==
  /\ stream.at = "write"
  /\ n_bytes + n <= MAX_BYTES
  /\ LET s == [stream EXCEPT !.end = AtEnd(stream, n, stream.size)]
     IN  IF Fits(stream, n)
         THEN /\ stream' = [s EXCEPT !.buffer = @ \o Bytes(n_bytes, n), !.bi = @ + n]
              /\ n_bytes' = n_bytes + n
         ELSE stream' = [s EXCEPT !.at = "prepend", !.asked = n] /\ UNCHANGED n_bytes
  /\ UNCHANGED <<data, lost, got>>

(* serialize_close: nothing is asked for, which empties the overflow.      *)
serialize_close ==
  /\ stream.at = "write" /\ stream.kind # "memory"
  /\ stream' = [stream EXCEPT !.at = "prepend", !.asked = 0]
  /\ UNCHANGED <<data, n_bytes, lost, got>>

(* As much of the overflow as fits is copied to the buffer.                *)
Prepended(s) ==
  LET n == Min({s.size - Len(s.buffer), Len(s.overflow)})
  IN  [s EXCEPT !.buffer = @ \o SubSeq(s.overflow, 1, n),
                !.overflow = SubSeq(@, n + 1, Len(@))]

(* unix_file_write: all is written; or the write would block or is         *)
(* interrupted, and the buffer is emptied all the same; or the write is a  *)
(* failure: an error ends the caller, and after a part is written, which   *)
(* is deleted from a vector of length 0, its header and its length are no    *)
(* longer ones that a call can go on with.                                 *)
unix_file_write(s, next) ==
  \/ /\ data' = data \o s.buffer
     /\ stream' = [s EXCEPT !.buffer = <<>>, !.bi = 0, !.at = next]
     /\ UNCHANGED lost
  \/ /\ s.buffer # <<>>
     /\ lost' = lost \cup ToSet(s.buffer)
     /\ stream' = [s EXCEPT !.buffer = <<>>, !.bi = 0, !.at = next]
     /\ UNCHANGED data
  \/ /\ s.buffer # <<>>
     /\ \E n \in 0 .. Len(s.buffer) - 1 : data' = data \o SubSeq(s.buffer, 1, n)
     /\ stream' = [s EXCEPT !.at = "failed"]
     /\ UNCHANGED lost

(* serialize_vector_write: the vector is doubled.                          *)
serialize_vector_write(s, next) ==
  /\ stream' = [s EXCEPT !.size = IF s.end THEN @ ELSE IF @ = 0 THEN N_BUFFER ELSE 2 * @,
                         !.bi = Len(s.buffer), !.at = next]
  /\ UNCHANGED <<data, lost>>

data_function(s, next) ==
  IF s.kind = "file" THEN unix_file_write(s, next) ELSE serialize_vector_write(s, next)

(* A turn of the loop of serialize_write_not_inline: a complete buffer     *)
(* goes to the data function, if there is one, and only then is the index  *)
(* into it stored.                                                         *)
Prepend ==
  /\ stream.at = "prepend"
  /\ LET s == Prepended(stream)
         next == IF s.overflow = <<>> THEN "place" ELSE "prepend"
     IN  IF Len(s.buffer) = s.size /\ s.kind # "memory" THEN data_function(s, next)
         ELSE stream' = [s EXCEPT !.at = "place"] /\ UNCHANGED <<data, lost>>
  /\ UNCHANGED <<n_bytes, got>>

(* The end of serialize_write_not_inline: where the new bytes go.  When it *)
(* is the overflow, the index of what was copied to the buffer since it    *)
(* was last stored is forgotten, and the next call writes over that.       *)
Place ==
  /\ stream.at = "place"
  /\ LET bytes == Bytes(n_bytes, stream.asked)
         next == IF stream.asked = 0 THEN "flush" ELSE "write"
     IN  IF stream.overflow # <<>> \/ stream.size - Len(stream.buffer) < Len(bytes)
         THEN /\ stream' = [stream EXCEPT !.buffer = SubSeq(@, 1, stream.bi),
                                          !.overflow = @ \o bytes, !.at = next]
              /\ lost' = lost \cup ToSet(SubSeq(stream.buffer, stream.bi + 1, Len(stream.buffer)))
         ELSE /\ stream' = [stream EXCEPT !.buffer = @ \o bytes, !.at = next,
                                          !.bi = Len(stream.buffer) + Len(bytes)]
              /\ UNCHANGED lost
  /\ n_bytes' = n_bytes + stream.asked
  /\ UNCHANGED <<data, got>>

(* serialize_read_write_close calls the data function a last time; the     *)
(* vector that serialize_close_vector returns ends at the index.           *)
Flush ==
  /\ stream.at = "flush"
  /\ LET s == [stream EXCEPT !.end = TRUE]
     IN  IF s.kind = "file" THEN unix_file_write(s, "closed")
         ELSE data' = s.buffer /\ stream' = [s EXCEPT !.at = "closed"] /\ UNCHANGED lost
  /\ UNCHANGED <<n_bytes, got>>

-----------------------------------------------------------------------------
(* unserialize_open_unix_file and unserialize_open_data.                   *)
unserialize_open ==
  /\ stream.at = "closed"
  /\ \/ stream' = Opened("file", "read") /\ UNCHANGED data
     \/ stream' = [Opened("memory", "read") EXCEPT !.buffer = data] /\ data' = <<>>
  /\ UNCHANGED <<n_bytes, lost, got>>

n_left_b(s) == Len(s.buffer) - s.bi
n_left_o(s) == Len(s.overflow) - s.oi

Given(bytes) == got' = got \o bytes
(* What is not in the vector is whatever is in the memory after it.        *)
From(v, i, n) == [k \in 1 .. n |-> IF i + k \in DOMAIN v THEN v[i + k] ELSE 0]

(* unserialize_get with the whole piece in the buffer, or in the overflow. *)
GetAtOnce(n) ==
  /\ stream.at = "read"
  /\ IF stream.overflow = <<>>
     THEN /\ n <= n_left_b(stream)
          /\ stream' = [stream EXCEPT !.bi = @ + n,
                                      !.end = AtEnd(stream, n, Len(stream.buffer))]
          /\ Given(From(stream.buffer, stream.bi, n))
     ELSE /\ n <= n_left_o(stream)
          /\ stream' = [stream EXCEPT !.oi = @ + n]
          /\ Given(From(stream.overflow, stream.oi, n))
  /\ UNCHANGED <<data, n_bytes, lost>>

(* serialize_read_not_inline: an overflow that is used up is reset, but    *)
(* the index into it that was read before is used at the end.              *)
GetBegin(n) ==
  /\ stream.at = "read"
  /\ IF stream.overflow = <<>> THEN n > n_left_b(stream) ELSE n > n_left_o(stream)
  /\ stream' = [stream EXCEPT !.at = "loop", !.asked = n, !.left = n, !.in_o = n_left_o(stream),
                              !.overflow = IF n_left_o(stream) = 0 THEN <<>> ELSE @]
  /\ UNCHANGED <<data, n_bytes, lost, got>>

Enough(s) == s.in_o + n_left_b(s) >= s.asked

Saved(s) == [s EXCEPT !.overflow = @ \o From(s.buffer, s.bi, n_left_b(s)),
                      !.in_o = @ + n_left_b(s), !.left = @ - n_left_b(s),
                      !.bi = Len(s.buffer)]

Possible == Min({SHORTEST_READ, Len(data)}) .. Min({N_BUFFER, Len(data)})

(* unix_file_read: n bytes, none at the end of the file or when the read   *)
(* would block; memory has no data function.                               *)
ReadMore ==
  /\ stream.at = "loop" /\ ~Enough(stream)
  /\ IF stream.kind = "memory"
     THEN stream' = [Saved(stream) EXCEPT !.end = TRUE, !.at = "copy"] /\ UNCHANGED data
     ELSE \E n \in Possible :
            /\ stream' = [Saved(stream) EXCEPT !.buffer = SubSeq(data, 1, n), !.bi = 0,
                                               !.end = @ \/ data = <<>>, !.at = "copy"]
            /\ data' = SubSeq(data, n + 1, Len(data))
  /\ UNCHANGED <<n_bytes, lost, got>>

(* unix_file_read with an error that is fatal to the caller.               *)
ReadFails ==
  /\ stream.at = "loop" /\ ~Enough(stream) /\ stream.kind = "file"
  /\ stream' = [Saved(stream) EXCEPT !.at = "failed"]
  /\ UNCHANGED <<data, n_bytes, lost, got>>

NoReadNeeded ==
  /\ stream.at = "loop" /\ Enough(stream)
  /\ stream' = [stream EXCEPT !.at = "copy"]
  /\ UNCHANGED <<data, n_bytes, lost, got>>

AtOnce(s) == s.in_o = 0 /\ s.left = s.asked /\ n_left_b(s) >= s.left

(* The rest of the loop: the piece is in the new buffer; or the stream has *)
(* ended; or the buffer is copied to the overflow, which at last has it.   *)
GetFromBuffer ==
  /\ stream.at = "copy"
  /\ AtOnce(stream)
  /\ stream' = [stream EXCEPT !.at = "read", !.bi = @ + stream.asked, !.oi = 0]
  /\ Given(From(stream.buffer, stream.bi, stream.asked))
  /\ UNCHANGED <<data, n_bytes, lost>>

EndOfStream ==
  /\ stream.at = "copy" /\ stream.end
  /\ ~AtOnce(stream)
  /\ stream' = [stream EXCEPT !.at = "error"]
  /\ UNCHANGED <<data, n_bytes, lost, got>>

Copy ==
  /\ stream.at = "copy" /\ ~stream.end
  /\ ~AtOnce(stream)
  /\ LET n == Min({stream.left, n_left_b(stream)})
         copied == [stream EXCEPT !.overflow = @ \o From(stream.buffer, stream.bi, n),
                                  !.bi = @ + n, !.left = @ - n, !.in_o = @ + n]
     IN  IF copied.left > 0
         THEN stream' = [copied EXCEPT !.at = "loop"] /\ UNCHANGED got
         ELSE /\ stream' = [copied EXCEPT !.at = "read", !.oi = @ + stream.asked]
              /\ Given(From(copied.overflow, copied.oi, stream.asked))
  /\ UNCHANGED <<data, n_bytes, lost>>

GetLoop == ReadMore \/ ReadFails \/ NoReadNeeded \/ GetFromBuffer \/ EndOfStream \/ Copy

Next ==
  \/ \E n \in 1 .. MAX_PUT : serialize_get(n)
  \/ \E n \in 1 .. MAX_GET : GetAtOnce(n) \/ GetBegin(n)
  \/ serialize_close \/ Prepend \/ Place \/ Flush
  \/ unserialize_open
  \/ GetLoop

Spec == Init /\ [][Next]_vars

-----------------------------------------------------------------------------
(* The bytes written, without those that were lost on the way.             *)
Kept == SelectSeq(Bytes(0, n_bytes), LAMBDA b : b \notin lost)

(* No byte is lost or out of order on its way through buffer and overflow, *)
(* but for two paths of the code: what serialize_write_not_inline copies   *)
(* from the overflow in a call that has to use the overflow again          *)
(* (serialize.c:671-676), and the buffer of a write that would block or is *)
(* interrupted (serialize.c:1069-1082).  Of a stream whose write fails or  *)
(* is cut short, or whose read fails, it says nothing more.  A reader is   *)
(* given the bytes that arrived, in pieces of other sizes as it likes, and *)
(* is told of the end only when too few are left.                          *)
StreamKeepsBytes ==
  /\ stream.at \in {"write", "prepend", "place", "flush"} =>
       data \o stream.buffer \o stream.overflow = Kept
  /\ stream.at = "closed" => data = Kept
  /\ got = SubSeq(Kept, 1, Len(got))
  /\ stream.at = "error" => Len(got) + stream.asked > Len(Kept)
=============================================================================
