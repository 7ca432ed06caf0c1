------------------------------- MODULE Mhash --------------------------------
(***************************************************************************)
(* The hash of keys in memory of mhash.c: the bytes of the keys are in a   *)
(* vector (keys of one size) or in a heap (strings), and the hash table    *)
(* holds their offsets.  mhash_set_mem must store the key before it can    *)
(* ask the table, and takes it back if the key was known.                  *)
(*                                                                         *)
(* The table is the set of pairs that module Hash shows it to be; a pair   *)
(* of an offset and a value is in the bucket of the key that was set, and  *)
(* found there by the key that is at its offset, as key_equal compares     *)
(* them.  Keys have buckets of their own.  Offset i is the i'th key of the *)
(* vector, or any free offset of the heap.                                 *)
(***************************************************************************)
EXTENDS Integers, Sequences, FiniteSets, FiniteSetsExt, SequencesExt

CONSTANTS MemKeys,    \* the keys
          MAX_OFFSETS, \* bound: the offsets of the heap
          MAX_FREE,   \* bound: the length of the vector of free offsets
          Values

VARIABLES mhash,      \* the table, the keys and the free offsets of the vector
          set_keys,   \* history: the values that were set, by key
          offset_of,  \* history: the offset that mhash_set returned for each key
          free_list   \* history: "sound"; an offset is "doubled" in the list of
                      \* free ones; one that has a key was given away, "reused"

vars == <<mhash, set_keys, offset_of, free_list>>

UNUSED == "UNUSED"

(* mhash_init for strings (keys in a heap) or for keys of a fixed size.    *)
mhash_init(is_heap) ==
  [is_heap |-> is_heap, key_vector_or_heap |-> <<>>, free_indices |-> <<>>, hash |-> {}]

(* hash_get_pair with mhash_key_equal: the pair in the key's bucket at     *)
(* whose offset the key is.                                                *)
mhash_get_pair(h, key) ==
  {p \in h.hash : p.bucket = key /\ h.key_vector_or_heap[p.offset] = key}

mhash_elts(h) == Cardinality(h.hash)

(* mhash_foreach.                                                          *)
mhash_foreach(h) == {<<h.key_vector_or_heap[p.offset], p.value>> : p \in h.hash}

-----------------------------------------------------------------------------
(* heap_alloc gives any free offset, the vector the offset that was freed  *)
(* last, or else it grows by one key.                                      *)
AllocatedOffsets(h) ==
  IF h.is_heap
  THEN {i \in 1 .. Min({Len(h.key_vector_or_heap) + 1, MAX_OFFSETS}) :
          i > Len(h.key_vector_or_heap) \/ h.key_vector_or_heap[i] = UNUSED}
  ELSE {IF h.free_indices # <<>> THEN Last(h.free_indices) ELSE Len(h.key_vector_or_heap) + 1}

StoredKey(h, i, key) ==
  LET keys == h.key_vector_or_heap
  IN  [h EXCEPT !.key_vector_or_heap =
                  IF i > Len(keys) THEN Append(keys, key) ELSE [keys EXCEPT ![i] = key],
                !.free_indices = IF @ = <<>> THEN @ ELSE Front(@)]

(* A heap forgets the key; the vector notes the offset, its key stays.     *)
FreedKey(h, i) ==
  IF h.is_heap THEN [h EXCEPT !.key_vector_or_heap[i] = UNUSED]
  ELSE [h EXCEPT !.free_indices = Append(@, i)]

\* Mutant: the end of the vector is cut although the duplicate was a free key.
AlwaysCut(h, stored, i) ==
  IF h.is_heap THEN FreedKey(stored, i)
  ELSE [stored EXCEPT !.key_vector_or_heap = Front(@)]

(* The duplicate of a known key is taken back.  A free offset of the       *)
(* vector is put back behind the place it was taken from, where it still   *)
(* is, and the list ends behind that: it has the offset twice.             *)
DuplicateRemoved(h, stored, i) ==
  IF h.is_heap THEN FreedKey(stored, i)
  ELSE IF h.free_indices # <<>> THEN [stored EXCEPT !.free_indices = Append(h.free_indices, i)]
  ELSE [stored EXCEPT !.key_vector_or_heap = Front(@)]

(* mhash_set_mem with offset i for the key, and the offset it returns: the *)
(* table is asked when the key is stored.                                  *)
Known(h, i, key) == mhash_get_pair(StoredKey(h, i, key), key)

mhash_set_mem(h, i, key, value) ==
  LET known == Known(h, i, key)
      p == CHOOSE q \in known : TRUE
      stored == StoredKey(h, i, key)
  IN  IF known = {}
      THEN [stored EXCEPT !.hash = @ \cup {[bucket |-> key, offset |-> i, value |-> value]}]
      ELSE [DuplicateRemoved(h, stored, i)
              EXCEPT !.hash = (@ \ {p}) \cup {[p EXCEPT !.value = value]}]

ReturnedOffset(h, i, key) ==
  LET known == Known(h, i, key) IN IF known = {} THEN i ELSE (CHOOSE q \in known : TRUE).offset

mhash_unset(h, key) ==
  LET known == mhash_get_pair(h, key)
      p == CHOOSE q \in known : TRUE
  IN  IF known = {} THEN h ELSE [FreedKey(h, p.offset) EXCEPT !.hash = @ \ {p}]

-----------------------------------------------------------------------------
Init ==
  /\ mhash \in {mhash_init(is_heap) : is_heap \in BOOLEAN}
  /\ set_keys = <<>> /\ offset_of = <<>> /\ free_list = "sound"

Used(h) == {p.offset : p \in h.hash}

(* What a call with offset i for the key makes of the list of free ones.   *)
FreeListAfter(h, i, key) ==
  IF i \in Used(h) THEN "reused"
  ELSE IF ~h.is_heap /\ h.free_indices # <<>> /\ Known(h, i, key) # {} THEN "doubled"
  ELSE free_list

(* Bound: the list of free offsets.  The model goes no further once a key  *)
(* has been overwritten.                                                   *)
MayGoOn == Len(mhash.free_indices) < MAX_FREE /\ free_list # "reused"

Update(f, k, v) == [j \in DOMAIN f \cup {k} |-> IF j = k THEN v ELSE f[j]]

Set ==
  \E key \in MemKeys, value \in Values, i \in AllocatedOffsets(mhash) :
    /\ MayGoOn
    /\ mhash' = mhash_set_mem(mhash, i, key, value)
    /\ free_list' = FreeListAfter(mhash, i, key)
    /\ set_keys' = Update(set_keys, key, value)
    /\ offset_of' = IF key \in DOMAIN set_keys THEN offset_of
                    ELSE Update(offset_of, key, ReturnedOffset(mhash, i, key))

(* mhash_unset, and mhash_unset_key with the key found at its offset.      *)
Unset ==
  \E key \in MemKeys :
    /\ MayGoOn
    /\ mhash' = mhash_unset(mhash, key)
    /\ set_keys' = [j \in DOMAIN set_keys \ {key} |-> set_keys[j]]
    /\ offset_of' = [j \in DOMAIN offset_of \ {key} |-> offset_of[j]]
    /\ UNCHANGED free_list

Free ==
  /\ mhash' = mhash_init(mhash.is_heap)
  /\ set_keys' = <<>> /\ offset_of' = <<>> /\ free_list' = "sound"

Next == Set \/ Unset \/ Free

Spec == Init /\ [][Next]_vars

-----------------------------------------------------------------------------
(* mhash_get finds exactly what was set, at the offset that was returned   *)
(* when the key was new, and no key's memory is lost: every offset is in   *)
(* the table or free, and until a known key is set while an offset of the  *)
(* vector is free, only one of them and once.  The exception: after that   *)
(* the offset is in the list of free ones twice (mhash.c:303), and once it *)
(* has been given to a second key the first one is overwritten; nothing is *)
(* said of a table after that.  The list of a heap stays sound.            *)
FindsWhatWasSet ==
  LET keys == mhash.key_vector_or_heap
      free == IF mhash.is_heap THEN {i \in DOMAIN keys : keys[i] = UNUSED}
              ELSE ToSet(mhash.free_indices)
  IN  /\ mhash.is_heap => free_list = "sound"
      /\ free_list = "sound" => Used(mhash) \cap free = {} /\ IsInjective(mhash.free_indices)
      /\ free_list # "reused" =>
           /\ Used(mhash) \cup free = DOMAIN keys
           /\ mhash_elts(mhash) = Cardinality(DOMAIN set_keys)
           /\ mhash_foreach(mhash) = {<<k, set_keys[k]>> : k \in DOMAIN set_keys}
           /\ \A k \in DOMAIN set_keys :
                {p.offset : p \in mhash_get_pair(mhash, k)} = {offset_of[k]}
=============================================================================
