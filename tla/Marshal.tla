------------------------------ MODULE Marshal -------------------------------
(***************************************************************************)
(* The types that serialize.c writes to a stream and reads back: integers  *)
(* of a fixed size and compact ones, strings, vectors in chunks, records   *)
(* column by column, bitmaps of 32 and of 64 bit machines, pools, heaps of *)
(* vector elements and the magic strings in front of them.                 *)
(*                                                                         *)
(* A stream is a sequence of bytes (module Serialize shows that it is      *)
(* one).  A reader is the bytes that are left, and what a function reads   *)
(* is the value with the bytes after it.  A u32 is in two's complement,    *)
(* so that it fits the integers of the model checker.                      *)
(***************************************************************************)
EXTENDS Integers, Sequences, FiniteSets, FiniteSetsExt, SequencesExt

CONSTANTS Items,             \* what may be written: [kind, value]
          CHUNK_SIZE,        \* SERIALIZE_VECTOR_CHUNK_SIZE
          MAX_ITEMS          \* bound: items in a stream

VARIABLES written,           \* history: the items, in order
          stream_bytes,      \* the bytes that are not read yet
          read_back          \* the values that were read

vars == <<written, stream_bytes, read_back>>

ERROR == "bad magic number"
R(v, rest) == [v |-> v, rest |-> rest]
Drop(b, n) == SubSeq(b, n + 1, Len(b))

-----------------------------------------------------------------------------
(* clib_host_to_net and clib_host_to_little; only compact integers have    *)
(* eight bytes here, the upper four of which are zero.                     *)
Byte(x, k) == IF k >= 4 THEN 0 ELSE (x \div 256^k) % 256
BigEndian(x, n) == [k \in 1 .. n |-> Byte(x, n - k)]
LittleEndian(x, n) == [k \in 1 .. n |-> Byte(x, k - 1)]

Signed(byte) == IF byte >= 128 THEN byte - 256 ELSE byte
FromBigEndian(b, n) ==
  FoldLeft(LAMBDA x, k : 256 * x + b[k],
           IF n = 4 THEN Signed(b[1]) ELSE b[1], [k \in 1 .. n - 1 |-> k + 1])

serialize_integer(x, n) == BigEndian(x, n)
unserialize_integer(b, n) == R(FromBigEndian(b, n), Drop(b, n))

(* serialize_64: the low half first; serialize_f64 is the same.            *)
serialize_64(x) == serialize_integer(x.lo, 4) \o serialize_integer(x.hi, 4)
unserialize_64(b) ==
  R([lo |-> FromBigEndian(b, 4), hi |-> FromBigEndian(Drop(b, 4), 4)], Drop(b, 8))

(* The low bits of the first byte tell how many bytes there are.           *)
serialize_likely_small_unsigned_integer(x) ==
  LET r2 == x - 2^7
      r4 == r2 - 2^14
  IN  CASE x < 2^7 -> <<1 + 2 * x>>
        [] x >= 2^7 /\ r2 < 2^14 -> LittleEndian(4 * r2 + 2, 2)
        \* 8 * r4 + 4 modulo 2^32: the upper three bits of r4 are zero
        [] r2 >= 2^14 /\ r4 < 2^29 -> <<(8 * (r4 % 2^5) + 4)>> \o LittleEndian(r4 \div 2^5, 3)
        [] OTHER -> <<0>> \o LittleEndian(x, 8)

\* Mutant: the ranges of the forms are not laid end to end.
SmallFromZero(b) ==
  LET y == b[1]
  IN  IF y % 2 = 1 THEN R(y \div 2, Drop(b, 1))
      ELSE IF (y \div 2) % 2 = 1 THEN R((y \div 4) + b[2] * 2^6, Drop(b, 2))
      ELSE IF (y \div 4) % 2 = 1
      THEN R(2^7 + 2^14 + (y \div 8) + b[2] * 2^5 + b[3] * 2^13 + b[4] * 2^21, Drop(b, 4))
      ELSE R(b[2] + b[3] * 2^8 + b[4] * 2^16 + Signed(b[5]) * 2^24, Drop(b, 9))

unserialize_likely_small_unsigned_integer(b) ==
  LET y == b[1]
  IN  IF y % 2 = 1 THEN R(y \div 2, Drop(b, 1))
      ELSE IF (y \div 2) % 2 = 1 THEN R(2^7 + (y \div 4) + b[2] * 2^6, Drop(b, 2))
      ELSE IF (y \div 4) % 2 = 1
      THEN R(2^7 + 2^14 + (y \div 8) + b[2] * 2^5 + b[3] * 2^13 + b[4] * 2^21, Drop(b, 4))
      ELSE R(b[2] + b[3] * 2^8 + b[4] * 2^16 + Signed(b[5]) * 2^24, Drop(b, 9))

(* The writer's code of a negative number counts from -1, the reader's     *)
(* from 0.                                                                 *)
serialize_likely_small_signed_integer(s) ==
  serialize_likely_small_unsigned_integer(IF s < 0 THEN -(2 * s + 1) ELSE 2 * s)
unserialize_likely_small_signed_integer(b) ==
  LET Sign(u) == R(IF u.v % 2 = 1 THEN -(u.v \div 2) ELSE u.v \div 2, u.rest)
  IN  Sign(unserialize_likely_small_unsigned_integer(b))

serialize_cstring(s) == serialize_likely_small_unsigned_integer(Len(s)) \o s
unserialize_cstring(b) ==
  LET Taken(len) == R(SubSeq(len.rest, 1, len.v), Drop(len.rest, len.v))
  IN  Taken(unserialize_likely_small_unsigned_integer(b))

-----------------------------------------------------------------------------
(* serialize_vec_8 to serialize_vec_64 and serialize_multiple_1 to _4:     *)
(* integers of n bytes one after the other.                                *)
serialize_vec(xs, n) == FlattenSeq([k \in DOMAIN xs |-> serialize_integer(xs[k], n)])
unserialize_vec(b, count, n) ==
  R([k \in 1 .. count |-> FromBigEndian(Drop(b, n * (k - 1)), n)], Drop(b, n * count))

(* serialize_vector: the length, and the elements in chunks, each written  *)
(* by Write; a chunk is read by ReadChunk, which is told its length.       *)
Chunks(xs) ==
  [c \in 1 .. (Len(xs) + CHUNK_SIZE - 1) \div CHUNK_SIZE |->
     SubSeq(xs, CHUNK_SIZE * (c - 1) + 1, Min({CHUNK_SIZE * c, Len(xs)}))]

serialize_vector(Write(_), xs) ==
  LET InChunks(chunks) == FlattenSeq([c \in DOMAIN chunks |-> Write(chunks[c])])
  IN  serialize_integer(Len(xs), 4) \o InChunks(Chunks(xs))

Lengths(n) ==
  [c \in 1 .. (n + CHUNK_SIZE - 1) \div CHUNK_SIZE |->
     Min({CHUNK_SIZE, n - CHUNK_SIZE * (c - 1)})]

Joined(r, x) == R(r.v \o x.v, x.rest)

unserialize_vector(ReadChunk(_, _), b) ==
  FoldLeft(LAMBDA r, n : Joined(r, ReadChunk(r.rest, n)),
           R(<<>>, Drop(b, 4)), Lengths(unserialize_integer(b, 4).v))

PutVec32(xs) == serialize_vec(xs, 4)
GetVec32(b, n) == unserialize_vec(b, n, 4)
vec_serialize_32(xs) == serialize_vector(PutVec32, xs)
vec_unserialize_32(b) == unserialize_vector(GetVec32, b)

(* serialize_multiple of each member of a record, as test_serialize.c does *)
(* for a chunk: all of the first members, then all of the second ones.     *)
serialize_multiple(rs) ==
  serialize_vec([k \in DOMAIN rs |-> rs[k].a8], 1)
    \o serialize_vec([k \in DOMAIN rs |-> rs[k].a16], 2)
    \o serialize_vec([k \in DOMAIN rs |-> rs[k].a32], 4)
unserialize_multiple(b, n) ==
  R([k \in 1 .. n |-> [a8 |-> b[k],
                       a16 |-> FromBigEndian(Drop(b, n + 2 * (k - 1)), 2),
                       a32 |-> FromBigEndian(Drop(b, 3 * n + 4 * (k - 1)), 4)]],
    Drop(b, 7 * n))

-----------------------------------------------------------------------------
(* A bitmap's words are sequences of u32 halves, the low one first: one on *)
(* a machine of 32 bits and two on one of 64.                              *)
serialize_bitmap(words) ==
  LET Halves(u) == serialize_integer(Len(u), 4) \o serialize_vec(u, 4)
  IN  Halves(FlattenSeq(words))

(* The reader has words of u32s halves; a missing high half is zero.       *)
unserialize_bitmap(b, u32s) ==
  LET Half(u, i) == IF i \in DOMAIN u THEN u[i] ELSE 0
      Words(u) == [w \in 1 .. (Len(u) + u32s - 1) \div u32s |->
                     [h \in 1 .. u32s |-> Half(u, u32s * (w - 1) + h)]]
      Read(u) == R(Words(u.v), u.rest)
  IN  Read(unserialize_vec(Drop(b, 4), unserialize_integer(b, 4).v, 4))

(* pool_foreach_region: the elements that are not free.                    *)
UsedIndices(length, free) == SetToSortSeq((1 .. length) \ ToSet(free), <)

(* The elements of a pool are u32 here.  Indices count from one.           *)
serialize_pool(p) ==
  IF p.elts = <<>> THEN serialize_integer(0, 4)
  ELSE LET Used(is) == serialize_vec([k \in DOMAIN is |-> p.elts[is[k]]], 4)
       IN  serialize_integer(Len(p.elts), 4) \o vec_serialize_32(p.free_indices)
             \o Used(UsedIndices(Len(p.elts), p.free_indices))

(* The elements at some indices, as they were read; the others are zero.   *)
Placed(length, indices, xs) ==
  [i \in 1 .. length |-> IF i \in ToSet(indices) THEN xs[CHOOSE k \in DOMAIN indices : indices[k] = i]
                         ELSE 0]

(* The free bitmap is made from the free indices.                          *)
unserialize_pool(b) ==
  LET Elts(l, free, used, elts) ==
        R([elts |-> Placed(l, used, elts.v), free_indices |-> free], elts.rest)
      Used(l, free, used) == Elts(l, free.v, used, unserialize_vec(free.rest, Len(used), 4))
      Free(l, free) == Used(l, free, UsedIndices(l, free.v))
      Length(l) == IF l.v = 0 THEN R([elts |-> <<>>, free_indices |-> <<>>], l.rest)
                   ELSE Free(l.v, vec_unserialize_32(l.rest))
  IN  Length(unserialize_integer(b, 4))

-----------------------------------------------------------------------------
(* A heap of vector elements: elts are <<offset, next, prev>>, where next  *)
(* and prev are relative and the highest bit of offset marks a free one.   *)
FREE_BIT == -(2^30) - 2^30
heap_is_free(e) == e[1] < 0
heap_offset(e) == IF e[1] < 0 THEN e[1] - FREE_BIT ELSE e[1]

(* The chain from element i to the tail, and the offsets of the used ones. *)
RECURSIVE Chain(_, _, _)
Chain(elts, i, tail) == <<i>> \o IF i = tail THEN <<>> ELSE Chain(elts, i + elts[i + 1][2], tail)

heap_elt_size(elts, i, length) ==
  LET next == IF elts[i + 1][2] = 0 THEN length ELSE heap_offset(elts[i + elts[i + 1][2] + 1])
  IN  next - heap_offset(elts[i + 1])

UsedOffsets(h) ==
  LET Offsets(i) == IF heap_is_free(h.elts[i + 1]) THEN <<>>
                    ELSE [j \in 1 .. heap_elt_size(h.elts, i, h.length) |->
                            heap_offset(h.elts[i + 1]) + j]
      All(chain) == FlattenSeq([k \in DOMAIN chain |-> Offsets(chain[k])])
  IN  All(Chain(h.elts, h.head, h.tail))

HeaderIntegers(h) == <<h.head, h.tail, h.used_count, h.max_len, h.flags, h.elt_bytes>>

serialize_heap(h) ==
  LET Data(used) == serialize_vec([k \in DOMAIN used |-> h.data[used[k]]], 4)
  IN  IF h.length = 0 THEN serialize_integer(0, 4)
      ELSE serialize_integer(h.length, 4)
             \o serialize_vec(HeaderIntegers(h), 4)
             \o serialize_integer(Len(h.free_lists), 4)
             \o FlattenSeq([k \in DOMAIN h.free_lists |-> vec_serialize_32(h.free_lists[k])])
             \o serialize_vector(LAMBDA es : serialize_vec(FlattenSeq(es), 4), h.elts)
             \o vec_serialize_32(h.small_free_elt_free_index)
             \o vec_serialize_32(h.free_elts)
             \o Data(UsedOffsets(h))

EmptyHeap ==
  [length |-> 0, head |-> 0, tail |-> 0, used_count |-> 0, max_len |-> 0, flags |-> 0,
   elt_bytes |-> 0, free_lists |-> <<>>, elts |-> <<>>, small_free_elt_free_index |-> <<>>,
   free_elts |-> <<>>, data |-> <<>>]

(* unserialize_vec_heap_elt.                                               *)
GetElts(b, n) ==
  R([k \in 1 .. n |-> [j \in 1 .. 3 |-> FromBigEndian(Drop(b, 12 * (k - 1) + 4 * (j - 1)), 4)]],
    Drop(b, 12 * n))

(* Vectors one after the other: of u32 first, and one of elements.         *)
Vectors(b, n) ==
  LET Next(r, x) == R(Append(r.v, x.v), x.rest)
  IN  FoldLeft(LAMBDA r, k : Next(r, vec_unserialize_32(r.rest)), R(<<>>, b), [k \in 1 .. n |-> k])

(* x is the length, the integers of the header and the number of lists.    *)
HeapOf(x, lists, elts, rest) ==
  [length |-> x[1], head |-> x[2], tail |-> x[3], used_count |-> x[4], max_len |-> x[5],
   flags |-> x[6], elt_bytes |-> x[7], free_lists |-> lists, elts |-> elts,
   small_free_elt_free_index |-> rest[1], free_elts |-> rest[2], data |-> <<>>]

unserialize_heap(b) ==
  LET Full(h, used, data) == R([h EXCEPT !.data = Placed(h.length, used, data.v)], data.rest)
      Data(h, used, bytes) == Full(h, used, unserialize_vec(bytes, Len(used), 4))
      Heap(h, bytes) == Data(h, UsedOffsets(h), bytes)
      Rest(x, lists, elts, rest) == Heap(HeapOf(x, lists, elts, rest.v), rest.rest)
      Elts(x, lists, elts) == Rest(x, lists, elts.v, Vectors(elts.rest, 2))
      Lists(x, lists) == Elts(x, lists.v, unserialize_vector(GetElts, lists.rest))
      Header(x) == Lists(x.v, Vectors(x.rest, x.v[8]))
  IN  IF unserialize_integer(b, 4).v = 0 THEN R(EmptyHeap, Drop(b, 4))
      ELSE Header(unserialize_vec(b, 8, 4))

serialize_magic(magic) == serialize_integer(Len(magic), 4) \o magic

(* The length, and then the bytes: written by serialize_get in the code,   *)
(* which for a reader's stream returns the bytes that come next.           *)
unserialize_check_magic(b, magic) ==
  IF unserialize_integer(b, 4).v = Len(magic) /\ SubSeq(b, 5, 4 + Len(magic)) = magic
  THEN R(magic, Drop(b, 4 + Len(magic))) ELSE R(ERROR, b)

-----------------------------------------------------------------------------
(* serialize calls the function of the kind.  The value of a bitmap has    *)
(* the halves in a word of its reader too.                                 *)
Put(item) ==
  LET v == item.value
  IN  CASE item.kind = "u8" -> serialize_integer(v, 1)
        [] item.kind = "u16" -> serialize_integer(v, 2)
        [] item.kind = "u32" -> serialize_integer(v, 4)
        [] item.kind = "u64" -> serialize_64(v)
        [] item.kind = "small" -> serialize_likely_small_unsigned_integer(v)
        [] item.kind = "signed" -> serialize_likely_small_signed_integer(v)
        [] item.kind = "cstring" -> serialize_cstring(v)
        [] item.kind = "vec_32" -> vec_serialize_32(v)
        [] item.kind = "records" -> serialize_vector(serialize_multiple, v)
        [] item.kind = "bitmap" -> serialize_bitmap(v.words)
        [] item.kind = "pool" -> serialize_pool(v)
        [] item.kind = "heap" -> serialize_heap(v)
        [] item.kind = "magic" -> serialize_magic(v)

Get(item, b) ==
  CASE item.kind = "u8" -> unserialize_integer(b, 1)
    [] item.kind = "u16" -> unserialize_integer(b, 2)
    [] item.kind = "u32" -> unserialize_integer(b, 4)
    [] item.kind = "u64" -> unserialize_64(b)
    [] item.kind = "small" -> unserialize_likely_small_unsigned_integer(b)
    [] item.kind = "signed" -> unserialize_likely_small_signed_integer(b)
    [] item.kind = "cstring" -> unserialize_cstring(b)
    [] item.kind = "vec_32" -> vec_unserialize_32(b)
    [] item.kind = "records" -> unserialize_vector(unserialize_multiple, b)
    [] item.kind = "bitmap" -> unserialize_bitmap(b, item.value.reader)
    [] item.kind = "pool" -> unserialize_pool(b)
    [] item.kind = "heap" -> unserialize_heap(b)
    [] item.kind = "magic" -> unserialize_check_magic(b, item.value)

Init == written = <<>> /\ stream_bytes = <<>> /\ read_back = <<>>

(* serialize.                                                              *)
Write(item) ==
  /\ Len(written) < MAX_ITEMS /\ read_back = <<>>
  /\ written' = Append(written, item)
  /\ stream_bytes' = stream_bytes \o Put(item)
  /\ UNCHANGED read_back

(* unserialize, by a reader that knows the kinds.                          *)
Read ==
  /\ Len(read_back) < Len(written)
  /\ \E r \in {Get(written[Len(read_back) + 1], stream_bytes)} :
       /\ read_back' = Append(read_back, r.v)
       /\ stream_bytes' = r.rest
  /\ UNCHANGED written

Next == (\E item \in Items : Write(item)) \/ Read

Spec == Init /\ [][Next]_vars

-----------------------------------------------------------------------------
(* The halves that are not zero, with their places.                        *)
BitsOf(words) ==
  LET halves == FlattenSeq(words) IN {<<i, halves[i]>> : i \in {j \in DOMAIN halves : halves[j] # 0}}

(* What a value means to its user: the bits of a bitmap whatever the size  *)
(* of its words, the elements of a pool or a heap that are not free.       *)
Meaning(kind, v) ==
  CASE kind = "bitmap" -> BitsOf(v)
    [] kind = "pool" -> [v EXCEPT !.elts = [i \in DOMAIN v.elts |->
                           IF i \in ToSet(v.free_indices) THEN 0 ELSE v.elts[i]]]
    [] kind = "heap" /\ v.length > 0 -> [v EXCEPT !.data = [i \in DOMAIN v.data |->
                           IF i \in ToSet(UsedOffsets(v)) THEN v.data[i] ELSE 0]]
    [] OTHER -> v

(* Whatever was written before and after it, and whatever forms and chunks *)
(* it takes, every value is read back as it was, and nothing is left over. *)
(* Excepted are the values of negative compact integers: there the writer  *)
(* and the reader disagree (serialize.h:255-268), and nothing is said but  *)
(* that the values after them are not affected.                            *)
ReadsWhatWasWritten ==
  /\ \A k \in DOMAIN read_back :
       LET item == written[k]
           value == IF item.kind = "bitmap" THEN item.value.words ELSE item.value
       IN  ~(item.kind = "signed" /\ value < 0) =>
             Meaning(item.kind, read_back[k]) = Meaning(item.kind, value)
  /\ Len(read_back) = Len(written) => stream_bytes = <<>>
=============================================================================
