-------------------------------- MODULE Fifo --------------------------------
(***************************************************************************)
(* The fifo of fifo.c and fifo.h: a vector used as a ring between head and *)
(* tail.  Tail = head would be an empty fifo, so a full one has            *)
(* tail = head + length, which every operation has to undo.                *)
(*                                                                         *)
(* A null pointer and a fifo that was reset behave alike (length 0, the    *)
(* first add allocates), and both are EMPTY.                               *)
(***************************************************************************)
EXTENDS Integers, Sequences, SequencesExt

CONSTANTS Values,        \* what a user puts in; 0 is the memset value
          MIN_ELTS,      \* the 32 of _clib_fifo_resize
          MAX_ELTS,      \* bound: a user keeps at most so many elements
          MAX_ADD        \* bound: elements of one call

VARIABLES fifo,      \* the vector with its header
          contents   \* history: what was put in and not taken out

vars == <<fifo, contents>>

EMPTY == [data |-> <<>>, head_index |-> 0, tail_index |-> 0]

-----------------------------------------------------------------------------
(* The vector is a sequence; the code's index i is position i + 1.         *)
FifoLen(f) == Len(f.data)
At(f, i) == f.data[i + 1]

clib_fifo_elts(f) ==
  LET r == f.tail_index - f.head_index
  IN  IF r < 0 THEN r + FifoLen(f) ELSE r

clib_fifo_free_elts(f) == FifoLen(f) - clib_fifo_elts(f)

(* The two memcpys of _clib_fifo_resize: from the head to the end of the   *)
(* vector, and what is left from its start.                                *)
Copied(f) ==
  LET n == clib_fifo_elts(f)
      to_end == FifoLen(f) - f.head_index
  IN  IF f.head_index + n >= FifoLen(f)
      THEN SubSeq(f.data, f.head_index + 1, FifoLen(f)) \o SubSeq(f.data, 1, n - to_end)
      ELSE SubSeq(f.data, f.head_index + 1, f.head_index + n)

MaxPow2(n) == CHOOSE p \in {2^k : k \in 0 .. n} : n <= p /\ p < 2 * n

_clib_fifo_resize(f, n_elts) ==
  LET n_old == clib_fifo_elts(f)
      n_new == n_old + n_elts
      len == IF n_new < MIN_ELTS THEN MIN_ELTS ELSE MaxPow2(n_new)
  IN  [data |-> Copied(f) \o [i \in 1 .. len - n_old |-> 0],
       head_index |-> 0, tail_index |-> n_old]

_clib_fifo_validate(f, n_elts) ==
  IF clib_fifo_free_elts(f) < n_elts THEN _clib_fifo_resize(f, n_elts) ELSE f

\* Mutant: a fifo that becomes full is not marked.
TailNotMarked(f, n_elts) ==
  LET n == f.tail_index + n_elts
      l == FifoLen(f)
  IN  IF n >= l THEN n - l ELSE IF n < 0 THEN n + l ELSE n

(* The new tail of _clib_fifo_advance_tail, with n_elts of either sign.    *)
AdvancedTail(f, n_elts) ==
  LET n == f.tail_index + n_elts
      l == FifoLen(f)
  IN  IF clib_fifo_free_elts(f) = n_elts THEN f.head_index + l
      ELSE IF n >= l THEN n - l
      ELSE IF n < 0 THEN n + l
      ELSE n

_clib_fifo_advance_tail(f, n_elts) ==
  LET v == _clib_fifo_validate(f, n_elts)
  IN  [v EXCEPT !.tail_index = AdvancedTail(v, n_elts)]

(* tail_return: where the new elements go.                                 *)
TailReturned(f, n_elts) == _clib_fifo_validate(f, n_elts).tail_index

(* A full fifo is no longer full, whatever n_elts is (0 would empty it).   *)
clib_fifo_advance_head(f, n_elts) ==
  LET l == FifoLen(f)
      n == f.head_index + n_elts
      tail == IF f.tail_index = f.head_index + l THEN f.head_index ELSE f.tail_index
  IN  [f EXCEPT !.tail_index = tail,
                !.head_index = IF n >= l THEN n - l ELSE n]

(* The two memcpys of clib_fifo_add, to index i and, for what does not fit *)
(* there, to index 0.                                                      *)
Written(f, i, values) ==
  LET n == Len(values)
      n1 == IF i + n - FifoLen(f) < 0 THEN 0 ELSE i + n - FifoLen(f)
      n0 == n - n1
  IN  [f EXCEPT !.data = [k \in DOMAIN f.data |->
         IF k - 1 \in i .. i + n0 - 1 THEN values[k - i]
         ELSE IF k <= n1 THEN values[n0 + k]
         ELSE f.data[k]]]

clib_fifo_elt_index(f, i) ==
  LET result == f.head_index + i
  IN  IF result >= FifoLen(f) THEN result - FifoLen(f) ELSE result

clib_fifo_index_for_elt_index(f, ei) ==
  LET i == ei - f.head_index IN IF i < 0 THEN i + FifoLen(f) ELSE i

(* The elements in the order in which clib_fifo_foreach visits them.       *)
clib_fifo_foreach(f) ==
  LET step(i) == IF i + 1 >= FifoLen(f) THEN 0 ELSE i + 1
      visited[k \in 0 .. clib_fifo_elts(f)] ==
        IF k = 0 THEN f.head_index ELSE step(visited[k - 1])
  IN  [k \in 1 .. clib_fifo_elts(f) |-> At(f, visited[k - 1])]

-----------------------------------------------------------------------------
Init == fifo = EMPTY /\ contents = <<>>

(* clib_fifo_add1, clib_fifo_add2 (a pointer, through which the user       *)
(* writes) and clib_fifo_add.                                              *)
Add(values) ==
  /\ Len(contents) + Len(values) <= MAX_ELTS
  /\ LET n == Len(values)
     IN  fifo' = Written(_clib_fifo_advance_tail(fifo, n), TailReturned(fifo, n), values)
  /\ contents' = contents \o values

(* clib_fifo_advance_tail with a negative number drops the last elements.  *)
Drop(n) ==
  /\ n <= Len(contents)
  /\ fifo' = _clib_fifo_advance_tail(fifo, -n)
  /\ contents' = SubSeq(contents, 1, Len(contents) - n)

(* clib_fifo_sub1, clib_fifo_sub2 and clib_fifo_advance_head.              *)
Sub(n) ==
  /\ clib_fifo_elts(fifo) >= n
  /\ fifo' = clib_fifo_advance_head(fifo, n)
  /\ contents' = SubSeq(contents, n + 1, Len(contents))

(* clib_fifo_validate reserves room, clib_fifo_resize makes some anyway.   *)
Reserve(n) ==
  /\ Len(contents) + n <= MAX_ELTS
  /\ fifo' \in {_clib_fifo_validate(fifo, n), _clib_fifo_resize(fifo, n)}
  /\ UNCHANGED contents

(* clib_fifo_reset, and clib_fifo_free, which leaves a null pointer.       *)
clib_fifo_reset ==
  /\ fifo' = EMPTY
  /\ contents' = <<>>

Next ==
  \/ \E n \in 1 .. MAX_ADD : \E values \in [1 .. n -> Values] : Add(values)
  \/ \E n \in 1 .. MAX_ADD : Drop(n) \/ Sub(n) \/ Reserve(n)
  \/ clib_fifo_reset

Spec == Init /\ [][Next]_vars

-----------------------------------------------------------------------------
(* The fifo is a queue: clib_fifo_elts, clib_fifo_foreach and the index    *)
(* functions show exactly what was put in and not taken out, in order,     *)
(* wherever the ring wraps and whether or not it is full.                  *)
IsQueue ==
  /\ clib_fifo_elts(fifo) = Len(contents)
  /\ clib_fifo_foreach(fifo) = contents
  /\ \A i \in 0 .. Len(contents) - 1 :
       LET ei == clib_fifo_elt_index(fifo, i)
       IN  /\ ei \in 0 .. FifoLen(fifo) - 1
           /\ At(fifo, ei) = contents[i + 1]
           /\ clib_fifo_index_for_elt_index(fifo, ei) = i
=============================================================================
