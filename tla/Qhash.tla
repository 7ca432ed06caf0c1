------------------------------- MODULE Qhash --------------------------------
(***************************************************************************)
(* The word hash of qhash.c: buckets of a fixed number of keys, with a     *)
(* hash.c table for the keys that find their bucket full.  The overflow    *)
(* table is asked only for full buckets, so a bucket must stay full while  *)
(* keys of it are there: unset moves one of them in.                       *)
(*                                                                         *)
(* Keys are set and unset in pairs, both buckets being read before either  *)
(* is written.  The index that is returned says where in the vector the    *)
(* user's data of the key is; here a user writes the key itself there.     *)
(***************************************************************************)
EXTENDS Integers, Sequences, FiniteSets, FiniteSetsExt, SequencesExt

CONSTANTS WordKeys,          \* the keys
          BucketOf,          \* the bucket of each key: what hash_mix32 computes
          N_BUCKETS,
          KEYS_PER_BUCKET,   \* QHASH_KEYS_PER_BUCKET
          SetKnownFirst      \* whether a pair may have a known key first, in
                             \* the bucket of the second one

VARIABLES qhash,             \* the table and the user's vector
          set_words          \* history: the keys that are set

vars == <<qhash, set_words>>

NONE == -1                   \* ~0
SIZE == N_BUCKETS * KEYS_PER_BUCKET
Slots(b) == b * KEYS_PER_BUCKET .. (b + 1) * KEYS_PER_BUCKET - 1
MaxOverflow == Cardinality(WordKeys)

(* _qhash_resize: the vector's elements are ~0.  The keys of slots that    *)
(* are not valid are whatever was in the memory.                           *)
_qhash_resize ==
  [n_elts |-> 0, hash_keys |-> [i \in 0 .. SIZE - 1 |-> NONE],
   valid |-> {}, overflow_hash |-> <<>>, overflow_counts |-> [b \in 0 .. N_BUCKETS - 1 |-> 0],
   overflow_free_indices |-> <<>>, v |-> [i \in 0 .. SIZE + MaxOverflow - 1 |-> NONE]]

(* qhash_hash_mix, masked to the size of the table. *)
Bucket(key) == BucketOf[key]

Valid(h, b) == h.valid \cap Slots(b)
ALL_VALID(b) == Slots(b)

(* qhash_search_bucket: the slot of a key, as a set.                       *)
Match(h, key) == {i \in Valid(h, Bucket(key)) : h.hash_keys[i] = key}

(* qhash_find_free: the first free slot of a bucket, if there is one.      *)
FindFree(b, valid) ==
  LET free == Slots(b) \ valid IN IF free = {} THEN {} ELSE {Min(free)}

The(s) == CHOOSE i \in s : TRUE

(* qhash_get, and each key of qhash_get_multiple.                          *)
qhash_get(h, key) ==
  IF Match(h, key) # {} THEN The(Match(h, key))
  ELSE IF Valid(h, Bucket(key)) = ALL_VALID(Bucket(key)) /\ key \in DOMAIN h.overflow_hash
  THEN h.overflow_hash[key] ELSE NONE

(* qhash_get_first_match of two keys: a key in a bucket before a key in    *)
(* the overflow table.                                                     *)
qhash_get_first_match(h, k0, k1) ==
  CASE Match(h, k0) # {} -> qhash_get(h, k0)
    [] Match(h, k0) = {} /\ Match(h, k1) # {} -> qhash_get(h, k1)
    [] OTHER -> IF qhash_get(h, k0) # NONE THEN qhash_get(h, k0) ELSE qhash_get(h, k1)

-----------------------------------------------------------------------------
Update(f, k, v) == [j \in DOMAIN f \cup {k} |-> IF j = k THEN v ELSE f[j]]
Without(f, k) == [j \in DOMAIN f \ {k} |-> f[j]]

(* qhash_set_overflow: a freed index, or the next one after the buckets.   *)
qhash_set_overflow(h, key) ==
  LET free == h.overflow_free_indices
      i == IF free # <<>> THEN Last(free) ELSE SIZE + Cardinality(DOMAIN h.overflow_hash)
  IN  IF key \in DOMAIN h.overflow_hash THEN h
      ELSE [h EXCEPT !.overflow_free_indices = IF free # <<>> THEN Front(@) ELSE @,
                     !.overflow_hash = Update(@, key, i),
                     !.overflow_counts[Bucket(key)] = @ + 1,
                     !.n_elts = @ + 1]

(* A key is put in its slot, with the bucket's valid slots as they were    *)
(* computed before, or into the overflow table.                            *)
PutKey(h, key, slot, valid) ==
  IF slot = {} THEN qhash_set_overflow(h, key)
  ELSE [h EXCEPT !.hash_keys[The(slot)] = key,
                 !.valid = (@ \ Slots(Bucket(key))) \cup valid \cup slot,
                 !.n_elts = IF Match(h, key) = {} THEN @ + 1 ELSE @]

FoundOrFree(match, free) == IF match # {} THEN match ELSE free

SetOne(h, key) ==
  LET b == Bucket(key)
      valid == Valid(h, b)
  IN  PutKey(h, key, FoundOrFree(Match(h, key), FindFree(b, valid)), valid)

(* The second key's slots are valid with the slot that was free for the    *)
(* first one, whether the first one takes it or not.                       *)
SetTwo(h, k0, k1) ==
  LET b0 == Bucket(k0)
      b1 == Bucket(k1)
      free0 == FindFree(b0, Valid(h, b0))
      valid1 == Valid(h, b1) \cup (IF b0 = b1 THEN free0 ELSE {})
      free1 == FindFree(b1, valid1)
      slot0 == FoundOrFree(Match(h, k0), free0)
      slot1 == FoundOrFree(Match(h, k1), free1)
  IN  PutKey(PutKey(h, k0, slot0, Valid(h, b0)), k1, slot1, valid1)

-----------------------------------------------------------------------------
(* qhash_unset_overflow.                                                   *)
qhash_unset_overflow(h, key) ==
  IF key \notin DOMAIN h.overflow_hash THEN h
  ELSE [h EXCEPT !.overflow_free_indices = Append(@, h.overflow_hash[key]),
                 !.overflow_hash = Without(@, key),
                 !.overflow_counts[Bucket(key)] = @ - 1,
                 !.n_elts = @ - 1]

(* The keys of a bucket that hash_foreach_pair may come upon first.        *)
InOverflow(h, b) == {k \in DOMAIN h.overflow_hash : Bucket(k) = b}

\* Mutant: the bucket is left with a free slot.
SlotFreed(h, slot, moved) == [h EXCEPT !.valid = @ \ {slot}]

(* A key of the overflow table takes the slot; the data of the two is      *)
(* swapped.                                                                *)
MovedIn(h, slot, moved) ==
  LET l == h.overflow_hash[moved]
  IN  [h EXCEPT !.hash_keys[slot] = moved,
                !.valid = @ \cup {slot},
                !.overflow_free_indices = Append(@, l),
                !.overflow_hash = Without(@, moved),
                !.overflow_counts[Bucket(moved)] = @ - 1,
                !.v[slot] = h.v[l], !.v[l] = h.v[slot]]

(* unset_slow_path and the fast paths: every table that may result, with   *)
(* the index that is returned.                                             *)
UnsetOne(h, key) ==
  LET b == Bucket(key)
      slot == The(Match(h, key))
      less == [h EXCEPT !.n_elts = @ - 1]
      full == Valid(h, b) = ALL_VALID(b)
  IN  IF Match(h, key) = {}
      THEN {[h |-> IF full THEN qhash_unset_overflow(h, key) ELSE h,
             index |-> IF full /\ key \in DOMAIN h.overflow_hash
                       THEN h.overflow_hash[key] ELSE NONE]}
      ELSE IF full /\ h.overflow_counts[b] > 0
      THEN {[h |-> MovedIn(less, slot, k), index |-> h.overflow_hash[k]] : k \in InOverflow(h, b)}
      ELSE {[h |-> [less EXCEPT !.valid = @ \ {slot}], index |-> slot]}

(* The user's data at an index that was returned.                          *)
Write(h, i, value) == IF i = NONE THEN h ELSE [h EXCEPT !.v[i] = value]

(* The second key is searched again after the first one is gone.           *)
UnsetTwo(h, k0, k1) ==
  UNION {{Write(Write(r1.h, r0.index, NONE), r1.index, NONE) : r1 \in UnsetOne(r0.h, k1)}
           : r0 \in UnsetOne(h, k0)}

-----------------------------------------------------------------------------
Init == qhash = _qhash_resize /\ set_words = {}

(* qhash_set, and qhash_set_multiple of two keys.                          *)
Set ==
  \/ \E k \in WordKeys :
       LET h == SetOne(qhash, k)
       IN  /\ qhash' = Write(h, qhash_get(h, k), k)
           /\ set_words' = set_words \cup {k}
  \/ \E k0, k1 \in WordKeys :
       LET h == SetTwo(qhash, k0, k1)
       IN  /\ k0 # k1
           /\ Bucket(k0) = Bucket(k1) /\ k0 \in set_words => SetKnownFirst
           /\ qhash' = Write(Write(h, qhash_get(h, k0), k0), qhash_get(h, k1), k1)
           /\ set_words' = set_words \cup {k0, k1}

(* qhash_unset, and qhash_unset_multiple of two keys; as in test_qhash.c   *)
(* the user then writes ~0 to the data.                                    *)
Unset ==
  \/ \E k \in WordKeys : \E r \in UnsetOne(qhash, k) :
       /\ qhash' = Write(r.h, r.index, NONE)
       /\ set_words' = set_words \ {k}
  \/ \E k0, k1 \in WordKeys : \E h \in UnsetTwo(qhash, k0, k1) :
       /\ k0 # k1
       /\ qhash' = h
       /\ set_words' = set_words \ {k0, k1}

Next == Set \/ Unset

Spec == Init /\ [][Next]_vars

-----------------------------------------------------------------------------
(* Every key that is set is found, at an index whose data is its own, and  *)
(* no other; the counts are those that test_qhash.c recomputes.            *)
FindsWhatWasSet ==
  /\ \A k \in WordKeys :
       IF k \in set_words
       THEN qhash_get(qhash, k) # NONE /\ qhash.v[qhash_get(qhash, k)] = k
       ELSE qhash_get(qhash, k) = NONE
  /\ \A k0, k1 \in WordKeys :
       IF {k0, k1} \cap set_words = {}
       THEN qhash_get_first_match(qhash, k0, k1) = NONE
       ELSE qhash_get_first_match(qhash, k0, k1) \in
              {qhash_get(qhash, k) : k \in {k0, k1} \cap set_words}
  /\ qhash.n_elts = Cardinality(set_words)
  /\ qhash.n_elts = Cardinality(qhash.valid) + Cardinality(DOMAIN qhash.overflow_hash)
  /\ \A b \in 0 .. N_BUCKETS - 1 : qhash.overflow_counts[b] = Cardinality(InOverflow(qhash, b))
=============================================================================
