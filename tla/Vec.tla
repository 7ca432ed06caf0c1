-------------------------------- MODULE Vec --------------------------------
(***************************************************************************)
(* Vectors (vec.h, vec.c, vec_bootstrap.h): a pointer to elements with a   *)
(* one-word header before them that holds the length.  The allocation may  *)
(* be longer than the vector, and a vector that grows inside it gets the   *)
(* words as they are.  Elements and the header have the size of one word,  *)
(* so that clib_mem_size counts words; ELT_BYTES tells what memset with a  *)
(* byte makes of an element.  The alignment and user header variants (_a,  *)
(* _h, _ha) only move the start of the allocation and are not told apart.  *)
(***************************************************************************)
EXTENDS Naturals, Integers, Sequences, SequencesExt

CONSTANTS Values,       \* the values users store
          Operands,     \* the vectors given to append, prepend, add, ...
          ELT_BYTES,    \* bytes of an element
          MAX_LEN,      \* bound on the length of the vector
          MAX_EXTRA     \* words clib_mem_alloc may give beyond the request

VARIABLES vec,          \* the vector: null, or its len and its memory
          contents,     \* the sequence the vector stands for
          shortened     \* its length has been lowered with words left behind

vars == <<vec, contents, shortened>>

Null == [null |-> TRUE, len |-> 0, mem |-> <<>>]

HEADER == 1

vec_len(v) == IF v.null THEN 0 ELSE v.len

\* What the user sees of the vector.
Elements(v) == SubSeq(v.mem, 1, vec_len(v))

Zeros(n) == [i \in 1..n |-> 0]

\* The words of a heap object allocated for n words: mheap_data_bytes, which
\* may be more than was asked for.
clib_mem_size(n) == n .. n + MAX_EXTRA

\* v.mem with the words from position at (from 0) on replaced by s.
Written(v, at, s) ==
    [v EXCEPT !.mem = [i \in 1..Len(@) |->
        IF i \in at + 1 .. at + Len(s) THEN s[i - at] ELSE @[i]]]

\* memset writes the byte c to every byte of n elements.
Memset(c, n) == [i \in 1..n |-> c * ((256 ^ ELT_BYTES - 1) \div 255)]

--------------------------------------------------------------------------
(* Growth.  The result of _vec_resize depends on the size the allocator    *)
(* gives, so it is the set of vectors it may return.                       *)

vec_resize_allocate_memory(v, increment, data_words) ==
    LET old_alloc == Len(v.mem) + HEADER
        new_alloc == Max({(old_alloc * 3) \div 2, data_words + HEADER})
    IN  IF v.null
        THEN {[null |-> FALSE, len |-> increment, mem |-> Zeros(s - HEADER)] :
                s \in clib_mem_size(data_words + HEADER)}
        ELSE IF data_words + HEADER <= old_alloc
             THEN {[v EXCEPT !.len = @ + increment]}
             ELSE {[null |-> FALSE, len |-> v.len + increment,
                    mem |-> v.mem \o Zeros(s - old_alloc)] :
                     s \in clib_mem_size(new_alloc)}

_vec_resize(v, increment, data_words) ==
    IF ~v.null /\ data_words + HEADER <= Len(v.mem) + HEADER
    THEN {[v EXCEPT !.len = @ + increment]}
    ELSE vec_resize_allocate_memory(v, increment, data_words)

\* The vector longer by n elements.
Grown(v, n) == _vec_resize(v, n, vec_len(v) + n)

\* The abstract value of n elements a grown vector did not have before:
\* zero, unless the length was lowered without clearing what it hid.
Fresh(v, n) == IF shortened THEN SubSeq(v.mem, v.len - n + 1, v.len) ELSE Zeros(n)

--------------------------------------------------------------------------
Init == vec = Null /\ contents = <<>> /\ shortened = FALSE

Room(n) == vec_len(vec) + n <= MAX_LEN

\* vec_resize and vec_add2: n more elements, for the caller to fill in.
vec_resize(n) ==
    /\ Room(n)
    /\ \E v \in Grown(vec, n) : vec' = v /\ contents' = contents \o Fresh(v, n)
    /\ UNCHANGED shortened

\* vec_alloc: room for n more elements, the length stays.
vec_alloc(n) ==
    /\ Room(n)
    /\ \E v \in Grown(vec, n) : vec' = [v EXCEPT !.len = vec_len(vec)]
    /\ UNCHANGED <<contents, shortened>>

\* vec_new: a vector of n zeroes in place of a null one.
vec_new(n) ==
    /\ vec.null
    /\ \E v \in _vec_resize(Null, n, n) : vec' = v
    /\ contents' = Zeros(n)
    /\ UNCHANGED shortened

vec_free == /\ ~vec.null
            /\ vec' = Null /\ contents' = <<>> /\ shortened' = FALSE

\* vec_dup: the copy replaces the original, which is freed.
vec_dup ==
    /\ \E v \in IF vec_len(vec) > 0 THEN Grown(Null, vec_len(vec)) ELSE {Null} :
         vec' = Written(v, 0, Elements(vec))
    /\ shortened' = FALSE
    /\ UNCHANGED contents

\* vec_clone: as long as the old vector, and zero.
vec_clone ==
    /\ \E v \in _vec_resize(Null, vec_len(vec), vec_len(vec)) : vec' = v
    /\ contents' = Zeros(Len(contents))
    /\ shortened' = FALSE

\* vec_validate and vec_validate_init_empty: index i exists afterwards.
vec_validate(i, init) ==
    LET new == [k \in 1 .. 1 + i - vec_len(vec) |-> init]
    IN  /\ i >= vec_len(vec)
        /\ \E v \in Grown(vec, 1 + i - vec_len(vec)) : vec' = Written(v, vec_len(vec), new)
        /\ contents' = contents \o new
        /\ UNCHANGED shortened

\* vec_add1 and vec_add.
vec_add(E) ==
    /\ Room(Len(E))
    /\ \E v \in Grown(vec, Len(E)) : vec' = Written(v, vec_len(vec), E)
    /\ contents' = contents \o E
    /\ UNCHANGED shortened

\* vec_pop and vec_pop2, which does nothing to an empty vector.  The word of
\* the last element keeps its value.
vec_pop ==
    /\ vec_len(vec) > 0
    /\ vec' = [vec EXCEPT !.len = @ - 1]
    /\ contents' = Front(contents)
    /\ shortened' = TRUE

\* vec_reset_length, and users who lower _vec_len themselves.
vec_reset_length ==
    /\ ~vec.null
    /\ \E n \in {0} \cup {k \in 1..vec.len : k = vec.len - 2} :
         /\ vec' = [vec EXCEPT !.len = n]
         /\ contents' = SubSeq(contents, 1, n)
    /\ shortened' = TRUE

\* The words of v from position m on, up to the old length l, moved n up.
MovedUp(v, l, n, m) == Written(v, m + n, SubSeq(v.mem, m + 1, l))

vec_insert_init_empty(n, m, init) ==
    /\ Room(n) /\ m <= vec_len(vec)
    /\ \E v \in Grown(vec, n) :
         vec' = Written(MovedUp(v, vec_len(vec), n, m), m, Memset(init, n))
    /\ contents' = SubSeq(contents, 1, m) \o Memset(init, n)
                     \o SubSeq(contents, m + 1, Len(contents))
    /\ UNCHANGED shortened

vec_insert_elts(E, m) ==
    /\ Room(Len(E)) /\ m <= vec_len(vec)
    /\ \E v \in Grown(vec, Len(E)) :
         vec' = Written(MovedUp(v, vec_len(vec), Len(E), m), m, E)
    /\ contents' = SubSeq(contents, 1, m) \o E \o SubSeq(contents, m + 1, Len(contents))
    /\ UNCHANGED shortened

LastNotCleared(v, l, n) == IF n = 0 THEN v ELSE Written(v, l - n, Zeros(n - 1))

\* The words that vec_delete leaves at the end, cleared.
Cleared(v, l, n) == Written(v, l - n, Zeros(n))

MovedDown(v, l, n, m) ==
    IF l - n - m > 0 THEN Written(v, m, SubSeq(v.mem, m + n + 1, l)) ELSE v

vec_delete(n, m) ==
    /\ ~vec.null /\ n + m <= vec.len
    /\ LET l == vec.len IN
         vec' = [Cleared(MovedDown(vec, l, n, m), l, n) EXCEPT !.len = l - n]
    /\ contents' = SubSeq(contents, 1, m) \o SubSeq(contents, m + n + 1, Len(contents))
    /\ UNCHANGED shortened

\* Appending a vector to itself reads v2 after v1 has moved: the macro names
\* the variable, so it reads the new memory.
vec_append(v2) ==
    /\ Room(Len(v2))
    /\ \E v \in Grown(vec, Len(v2)) : vec' = Written(v, vec_len(vec), v2)
    /\ contents' = contents \o v2
    /\ UNCHANGED shortened

vec_append_self ==
    /\ Room(vec_len(vec))
    /\ \E v \in Grown(vec, vec_len(vec)) :
         vec' = Written(v, vec_len(vec), SubSeq(v.mem, 1, vec_len(vec)))
    /\ contents' = contents \o contents
    /\ UNCHANGED shortened

vec_prepend(v2) ==
    /\ Room(Len(v2))
    /\ \E v \in Grown(vec, Len(v2)) :
         vec' = Written(MovedUp(v, vec_len(vec), Len(v2), 0), 0, v2)
    /\ contents' = v2 \o contents
    /\ UNCHANGED shortened

\* vec_zero and vec_set.
vec_set(val) ==
    /\ vec' = Written(vec, 0, [i \in 1..vec_len(vec) |-> val])
    /\ contents' = [i \in DOMAIN contents |-> val]
    /\ UNCHANGED shortened

\* vec_sort and vec_sort_with_function with the order of the integers.
vec_sort ==
    /\ vec' = Written(vec, 0, SortSeq(Elements(vec), <))
    /\ contents' = SortSeq(contents, <)
    /\ UNCHANGED shortened

vec_is_equal(v1, v2) == vec_len(v1) = vec_len(v2) /\ Elements(v1) = Elements(v2)

\* The sign of the first difference; lengths count only when both have elements.
vec_cmp(v1, v2) ==
    LET l     == Min({vec_len(v1), vec_len(v2)})
        diffs == {i \in 1..l : v1.mem[i] # v2.mem[i]}
        Sign(x) == IF x < 0 THEN -1 ELSE IF x > 0 THEN 1 ELSE 0
    IN  IF diffs # {} THEN Sign(v1.mem[Min(diffs)] - v2.mem[Min(diffs)])
        ELSE IF l > 0 THEN Sign(vec_len(v1) - vec_len(v2)) ELSE 0

Next ==
    \/ \E n \in 0..2 : vec_resize(n) \/ vec_alloc(n) \/ vec_new(n)
    \/ vec_free \/ vec_dup \/ vec_clone
    \/ \E i \in 0 .. MAX_LEN - 1, init \in Values \cup {0} : vec_validate(i, init)
    \/ \E E \in Operands : vec_add(E) \/ vec_append(E) \/ vec_prepend(E)
    \/ vec_pop \/ vec_reset_length \/ vec_append_self \/ vec_sort
    \/ \E n \in 0..2, m \in 0..MAX_LEN :
         vec_delete(n, m) \/ \E init \in 0..1 : vec_insert_init_empty(n, m, init)
    \/ \E E \in Operands, m \in 0..MAX_LEN : vec_insert_elts(E, m)
    \/ \E val \in Values \cup {0} : vec_set(val)

Spec == Init /\ [][Next]_vars

--------------------------------------------------------------------------
\* Through growth with and without a new allocation, insertion, deletion and
\* shortening, the vector shows exactly the sequence its operations stand
\* for; in particular elements that vec_resize or vec_add2 expose are zero
\* unless the user lowered the length himself, which is what vec_delete clears
\* its end for and what vec_resize_allocate_memory zeroes new memory for.
ShowsContents ==
    /\ Elements(vec) = contents
    /\ vec_is_equal(vec, [null |-> FALSE, len |-> Len(contents), mem |-> contents])
    /\ ~shortened => \A i \in vec_len(vec) + 1 .. Len(vec.mem) : vec.mem[i] = 0
    /\ \A o \in Operands :
         LET w == [null |-> FALSE, len |-> Len(o), mem |-> o] IN
           o # <<>> /\ contents # <<>> =>
             (vec_cmp(vec, w) = 0) = vec_is_equal(vec, w)
=============================================================================
