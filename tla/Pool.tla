-------------------------------- MODULE Pool --------------------------------
(***************************************************************************)
(* The pools of pool.h: a vector of objects of which some are free.  The   *)
(* free ones are recorded twice, in a bitmap (for iteration and to test an *)
(* object) and in a vector of indices (to find one to allocate); both are  *)
(* kept in step by pool_get and pool_put.  A null pointer is NULL.         *)
(***************************************************************************)
EXTENDS Integers, Sequences, FiniteSets, FiniteSetsExt, SequencesExt

CONSTANTS BITS,      \* BITS (uword)
          MAX_LEN    \* bound: the length of the vector

VARIABLES pool,      \* the vector's length and its header
          in_use     \* history: the objects that the user has

vars == <<pool, in_use>>

B == INSTANCE Bitmap
       WITH MAX_BITS <- MAX_LEN, Operands <- {}, bitmap <- pool.free_bitmap,
            members <- ToSet(pool.free_indices)

NULL == [len |-> 0, free_bitmap |-> <<>>, free_indices |-> <<>>]

-----------------------------------------------------------------------------
pool_elts(p) == p.len - Len(p.free_indices)
pool_is_free(p, i) == i < p.len => B!clib_bitmap_get(p.free_bitmap, i)

(* pool_get: the index that was freed last, or a new one at the end.       *)
NewIndex(p) == IF p.free_indices # <<>> THEN Last(p.free_indices) ELSE p.len

\* Mutant: the bitmap is left as it is.
GotByIndex(p) ==
  IF p.free_indices # <<>>
  THEN [p EXCEPT !.free_indices = Front(@)]
  ELSE [p EXCEPT !.len = @ + 1]

pool_get(p) ==
  IF p.free_indices # <<>>
  THEN [p EXCEPT !.free_bitmap = B!clib_bitmap_andnoti(@, NewIndex(p)),
                 !.free_indices = Front(@)]
  ELSE [p EXCEPT !.len = @ + 1]

pool_put(p, i) ==
  [p EXCEPT !.free_bitmap = B!clib_bitmap_ori(@, i), !.free_indices = Append(@, i)]

(* The vector is made to have element i, in use, and the bitmap its word.  *)
pool_validate_index(p, i) ==
  [p EXCEPT !.len = Max({@, i + 1}), !.free_bitmap = B!clib_bitmap_vec_validate(@, i \div BITS)]

(* The regions <<lo, hi>> of pool_foreach_region: hi is each free index in *)
(* turn and at last the length, lo one more than the hi before it.         *)
pool_foreach_region(p) ==
  LET his == B!clib_bitmap_foreach(p.free_bitmap) \o <<p.len>>
      los == [k \in DOMAIN his |-> IF k = 1 THEN 0 ELSE his[k - 1] + 1]
  IN  SelectSeq([k \in DOMAIN his |-> <<los[k], his[k]>>], LAMBDA r : r[2] > r[1])

pool_foreach(p) ==
  FlattenSeq([k \in DOMAIN pool_foreach_region(p) |->
    LET r == pool_foreach_region(p)[k] IN [j \in 1 .. r[2] - r[1] |-> r[1] + j - 1]])

pool_foreach_index(p) ==
  SelectSeq([i \in 1 .. p.len |-> i - 1], LAMBDA i : ~pool_is_free(p, i))

(* The next index that is not free, if there is one in the bitmap.         *)
pool_next_index(p, i) ==
  IF i + 1 < p.len THEN B!clib_bitmap_next_clear(p.free_bitmap, i + 1) ELSE B!NONE

-----------------------------------------------------------------------------
Init == pool = NULL /\ in_use = {}

Get ==
  /\ pool.free_indices # <<>> \/ pool.len < MAX_LEN
  /\ pool' = pool_get(pool)
  /\ in_use' = in_use \cup {NewIndex(pool)}

(* The assertions of pool_put are in its guard: a user frees what it has.  *)
Put ==
  \E i \in in_use :
    /\ pool' = pool_put(pool, i)
    /\ in_use' = in_use \ {i}

(* A user makes sure of an index that it does not know to be free.         *)
Validate ==
  \E i \in 0 .. MAX_LEN - 1 :
    /\ i >= pool.len \/ i \in in_use
    /\ pool' = pool_validate_index(pool, i)
    /\ in_use' = in_use \cup (pool.len .. i)

Free ==
  /\ pool' = NULL
  /\ in_use' = {}

Next == Get \/ Put \/ Validate \/ Free

Spec == Init /\ [][Next]_vars

-----------------------------------------------------------------------------
(* The two records of what is free agree, as pool_validate has it, and     *)
(* tell exactly what the user has not got: so nothing is handed out twice, *)
(* and the iterations visit every object in use, once and in order.        *)
RecordsAgree ==
  /\ B!StandsForSet
  /\ IsInjective(pool.free_indices)
  /\ ToSet(pool.free_indices) = (0 .. pool.len - 1) \ in_use
  /\ pool_elts(pool) = Cardinality(in_use)
  /\ \A i \in 0 .. MAX_LEN : pool_is_free(pool, i) <=> i \notin in_use
  /\ pool_foreach(pool) = SetToSortSeq(in_use, <)
  /\ pool_foreach_index(pool) = pool_foreach(pool)
  /\ \A i \in 0 .. pool.len - 2 :
       (\E j \in in_use : j > i /\ j < Len(pool.free_bitmap) * BITS) =>
         pool_next_index(pool, i) = Min({j \in in_use : j > i})
=============================================================================
