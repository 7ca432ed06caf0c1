------------------------------- MODULE Vhash --------------------------------
(***************************************************************************)
(* The vector hash of vhash.h and vhash.c: buckets of a few results with   *)
(* their keys, compared at once, and groups of overflow buckets for the    *)
(* keys that find their bucket full.  A result of 0 marks an empty place,  *)
(* so that users' results are kept one higher; keys are never cleared.     *)
(*                                                                         *)
(* Every operation is given a vector of keys, gathers and hashes them in   *)
(* stages of a pipeline, and takes them in order in its last stage.        *)
(***************************************************************************)
EXTENDS Integers, Sequences, FiniteSets, FiniteSetsExt, SequencesExt

CONSTANTS VectorKeys,         \* the keys, 1 to n
          HashOf,             \* their hashes: what the mix and finalize stages leave
          VhashResults,       \* results that users set
          N_RESULTS,          \* results in a bucket: CLIB_VECTOR_WORD_LEN (u32)
          N_OVERFLOW_BUCKETS, \* ARRAY_LEN (h->overflow_buckets)
          MAX_BUCKETS,        \* bound: buckets after resizing
          N_KEYS_PER_CALL     \* keys that vhash_resize asks to be moved in a call

VARIABLES vhash, set_results  \* history: the result of each key that is set

vars == <<vhash, set_results>>

Places == 0 .. N_RESULTS - 1
EMPTY == [result |-> 0, key |-> 0, hash |-> 0]

(* vhash_init: one bucket at least, all of it zero.  n_overflow, which    *)
(* only an assertion reads, is left out.                                  *)
vhash_init(n) ==
  [buckets |-> [b \in 0 .. n - 1 |-> [i \in Places |-> EMPTY]],
   overflow |-> [g \in 0 .. N_OVERFLOW_BUCKETS - 1 |->
                  [places |-> <<>>, free_indices |-> <<>>]],
   n_elts |-> 0]

n_buckets(h) == Cardinality(DOMAIN h.buckets)

(* What the gather, mix and finalize stages make of a key: the last of the *)
(* three words, as the others are not kept.                                *)
key_hash(key) == HashOf[key]

BucketOf(h, key) == (key_hash(key) \div N_RESULTS) % n_buckets(h)
GroupOf(h, key) == BucketOf(h, key) % N_OVERFLOW_BUCKETS

(* vhash_bucket_compare: the places with the key that are not empty.       *)
Match(places, key) == {i \in DOMAIN places : places[i].result # 0 /\ places[i].key = key}

(* vhash_merge_results.                                                    *)
Merged(places, key) ==
  IF Match(places, key) = {} THEN 0 ELSE places[CHOOSE i \in Match(places, key) : TRUE].result

IsFull(places) == \A i \in DOMAIN places : places[i].result # 0

vhash_get_overflow(h, key) == Merged(h.overflow[GroupOf(h, key)].places, key)

(* vhash_get_stage and each key of vhash_get_4_stage, less the 1.          *)
InternalResult(h, key) ==
  LET places == h.buckets[BucketOf(h, key)]
  IN  IF Match(places, key) = {} /\ IsFull(places)
      THEN vhash_get_overflow(h, key) ELSE Merged(places, key)

vhash_get(h, key) == InternalResult(h, key) - 1

-----------------------------------------------------------------------------
(* The first empty place at or after the one of the key's hash.            *)
FirstEmpty(places, key) ==
  LET Place(j) == (key_hash(key) + j) % N_RESULTS
  IN  Place(Min({j \in Places : places[Place(j)].result = 0}))

Entry(key, result) == [result |-> result, key |-> key, hash |-> key_hash(key)]

(* A key that is not in the overflow group takes a free place of it, from  *)
(* one more bucket if there is none; the places are numbered in the group. *)
vhash_set_overflow(h, key, result) ==
  LET g == GroupOf(h, key)
      ob == h.overflow[g]
      n == Len(ob.places)
      grown == IF ob.free_indices # <<>> THEN ob
               ELSE [ob EXCEPT !.places = @ \o [i \in 1 .. N_RESULTS |-> EMPTY],
                               !.free_indices = [i \in 1 .. N_RESULTS |-> n + i]]
  IN  [h EXCEPT !.overflow[g] = [grown EXCEPT !.places[Last(grown.free_indices)] = Entry(key, result),
                                              !.free_indices = Front(@)],
                !.n_elts = @ + 1]

(* vhash_set_stage of one key.  A key that is set already is looked for in *)
(* the overflow group too, but its result is written to the bucket.        *)
SetOne(h, key, result) ==
  LET b == BucketOf(h, key)
      places == h.buckets[b]
  IN  IF Match(places, key) # {}
      THEN [h EXCEPT !.buckets[b][CHOOSE i \in Match(places, key) : TRUE].result = result + 1]
      ELSE IF ~IsFull(places)
      THEN [h EXCEPT !.buckets[b][FirstEmpty(places, key)] = Entry(key, result + 1),
                     !.n_elts = @ + 1]
      ELSE vhash_set_overflow(h, key, result + 1)

(* vhash_non_empty_result_index asserts that the result is in the bucket.  *)
SetAsserts(h, key) ==
  InternalResult(h, key) # 0 => Match(h.buckets[BucketOf(h, key)], key) # {}

-----------------------------------------------------------------------------
(* set_overflow_result of 0 and free_overflow_bucket: the hash is inverted *)
(* so that it does not match again.                                        *)
FreedPlace(ob, i) ==
  [ob EXCEPT !.places[i].result = 0, !.places[i].hash = -1 - @,
             !.free_indices = Append(@, i)]

vhash_unset_overflow(h, key) ==
  LET g == GroupOf(h, key)
      match == Match(h.overflow[g].places, key)
  IN  IF match = {} THEN h
      ELSE [h EXCEPT !.overflow[g] = FreedPlace(@, CHOOSE i \in match : TRUE),
                     !.n_elts = @ - 1]

\* Mutant: nothing of the overflow group takes the place that was left.
NotRefilled(h, b, g) == h

(* The first overflow element of the same bucket takes the last empty      *)
(* place.                                                                  *)
vhash_unset_refill_from_overflow(h, b, g) ==
  LET ob == h.overflow[g]
      of_bucket == {i \in DOMAIN ob.places :
                      ob.places[i].result # 0
                        /\ (ob.places[i].hash \div N_RESULTS) % n_buckets(h) = b}
      i_refill == Max({i \in Places : h.buckets[b][i].result = 0})
  IN  IF of_bucket = {} THEN h
      ELSE [h EXCEPT !.buckets[b][i_refill] = ob.places[Min(of_bucket)],
                     !.overflow[g] = FreedPlace(@, Min(of_bucket))]

UnsetOne(h, key) ==
  LET b == BucketOf(h, key)
      places == h.buckets[b]
      cleared == [h EXCEPT !.buckets[b] = [i \in Places |->
                    IF i \in Match(places, key) THEN [@[i] EXCEPT !.result = 0] ELSE @[i]],
                           !.n_elts = @ - Cardinality(Match(places, key))]
  IN  CASE ~IsFull(places) -> cleared
        [] IsFull(places) /\ Match(places, key) # {} ->
             vhash_unset_refill_from_overflow(cleared, b, GroupOf(h, key))
        [] OTHER -> vhash_unset_overflow(cleared, key)

-----------------------------------------------------------------------------
(* vhash_main_op: the keys of a vector, one after the other.               *)
vhash_main_set(h, pairs) == FoldLeft(LAMBDA t, p : SetOne(t, p[1], p[2]), h, pairs)
vhash_main_unset(h, keys) == FoldLeft(UnsetOne, h, keys)

Taken(places) ==
  FoldLeft(LAMBDA s, i : IF places[i].result # 0
                         THEN Append(s, <<places[i].key, places[i].result - 1>>) ELSE s,
           <<>>, SetToSortSeq(DOMAIN places, <))

OverflowTaken(h) ==
  FoldLeft(LAMBDA s, g : s \o Taken(h.overflow[g - 1].places), <<>>,
           [g \in 1 .. N_OVERFLOW_BUCKETS |-> g])

(* The loop of vhash_resize_incremental over the buckets from i: once      *)
(* there are enough keys it returns the bucket it is at, not the next one. *)
RECURSIVE Collect(_, _, _)
Collect(old, i, pairs) ==
  IF i = n_buckets(old) THEN [pairs |-> pairs \o OverflowTaken(old), next |-> -1]
  ELSE LET more == pairs \o Taken(old.buckets[i])
       IN  IF Len(more) >= N_KEYS_PER_CALL THEN [pairs |-> more, next |-> i]
           ELSE Collect(old, i + 1, more)

vhash_resize_incremental(old, new, i) ==
  LET c == Collect(old, i, <<>>)
      to == IF i = 0 THEN vhash_init(2 * n_buckets(old)) ELSE new
  IN  [new |-> vhash_main_set(to, c.pairs), next |-> c.next]

RECURSIVE ResizeFrom(_, _, _)
ResizeFrom(old, new, i) ==
  LET r == vhash_resize_incremental(old, new, i)
  IN  IF r.next = -1 THEN r.new ELSE ResizeFrom(old, r.new, r.next)

vhash_resize(old) == ResizeFrom(old, old, 0)

-----------------------------------------------------------------------------
Init == vhash = vhash_init(1) /\ set_results = <<>>

Update(f, k, v) == [j \in DOMAIN f \cup {k} |-> IF j = k THEN v ELSE f[j]]
Without(f, ks) == [j \in DOMAIN f \ ks |-> f[j]]

(* Vectors of one and of two keys.                                         *)
Set ==
  \/ \E k \in VectorKeys, r \in VhashResults :
       /\ SetAsserts(vhash, k)
       /\ vhash' = vhash_main_set(vhash, <<<<k, r>>>>)
       /\ set_results' = Update(set_results, k, r)
  \/ \E k0, k1 \in VectorKeys, r \in VhashResults :
       /\ SetAsserts(vhash, k0) /\ SetAsserts(SetOne(vhash, k0, r), k1)
       /\ vhash' = vhash_main_set(vhash, <<<<k0, r>>, <<k1, r>>>>)
       /\ set_results' = Update(Update(set_results, k0, r), k1, r)

Unset ==
  \E k0, k1 \in VectorKeys :
    /\ vhash' = vhash_main_unset(vhash, IF k0 = k1 THEN <<k0>> ELSE <<k0, k1>>)
    /\ set_results' = Without(set_results, {k0, k1})

Resize ==
  /\ 2 * n_buckets(vhash) <= MAX_BUCKETS
  /\ vhash' = vhash_resize(vhash)
  /\ UNCHANGED set_results

Next == Set \/ Unset \/ Resize

Spec == Init /\ [][Next]_vars

-----------------------------------------------------------------------------
(* Every key is found with the result it was last set to and no other key  *)
(* is; an overflow group has a key only while the key's bucket is full,    *)
(* and its free places are the empty ones, each once.                      *)
FindsWhatWasSet ==
  /\ \A k \in VectorKeys :
       vhash_get(vhash, k) = IF k \in DOMAIN set_results THEN set_results[k] ELSE -1
  /\ vhash.n_elts = Cardinality(DOMAIN set_results)
  /\ \A g \in DOMAIN vhash.overflow :
       LET ob == vhash.overflow[g]
       IN  /\ IsInjective(ob.free_indices)
           /\ ToSet(ob.free_indices) = {i \in DOMAIN ob.places : ob.places[i].result = 0}
=============================================================================
