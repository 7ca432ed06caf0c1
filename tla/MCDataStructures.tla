-------------------------- MODULE MCDataStructures --------------------------
(***************************************************************************)
(* The data structures that only one thread at a time uses: the mheap of   *)
(* mheap.c (module Mheap), the heap of vector elements of heap.c (module   *)
(* Heap) and the hash table of hash.c (module Hash).  They share nothing: a *)
(* behaviour is a behaviour of one of them, and the others stay as they    *)
(* were created.                                                           *)
(***************************************************************************)
EXTENDS Mheap

CONSTANTS max_len, MaxObjects, Requests, HEAP_LOG2_SMALL_BINS, HEAP_N_BINS
CONSTANTS UserPairs, KeySum, MIN_CAPACITY, SHRINK_ELTS, NewSizes, UserFlags

VARIABLES structure,    \* the data structure in use
          hp, objects,  \* the variables of module Heap
          ht, hn, set_pairs, set_flags, returned, stable  \* and of module Hash

H == INSTANCE Heap WITH live <- objects
T == INSTANCE Hash

heap_vars == <<hp, objects>>
hash_vars == <<ht, hn, set_pairs, set_flags, returned, stable>>
all_vars == <<structure, vars, heap_vars, hash_vars>>

(* No object at all, one of a bin of its own, one of a bin for two sizes,  *)
(* and an aligned one, with fragments before and after it.                 *)
MCRequests == {<<0, 0>>, <<1, 0>>, <<4, 0>>, <<2, 3>>}

(* Three of the four keys meet in every table of up to four buckets.       *)
MCKeySum == <<0, 4, 8, 1>>
MCUserPairs == {<<1, 0>>, <<2, 0>>, <<2, 1>>, <<3, 0>>, <<4, 0>>}
MCUserFlags == {{"HASH_FLAG_NO_AUTO_SHRINK"}}

MCInit ==
  /\ structure \in {"mheap", "heap", "hash"}
  /\ Init /\ (structure # "mheap" => small_object_cache)
  /\ H!Init /\ (structure # "heap" => hp.elt_bytes = 4)
  /\ T!Init

MCNext ==
  \/ structure = "mheap" /\ Next /\ UNCHANGED <<structure, heap_vars, hash_vars>>
  \/ structure = "heap" /\ H!Next /\ UNCHANGED <<structure, vars, hash_vars>>
  \/ structure = "hash" /\ T!Next /\ UNCHANGED <<structure, vars, heap_vars>>

MCSpec == MCInit /\ [][MCNext]_all_vars

-----------------------------------------------------------------------------
(* The properties of module Mheap, ValidateHolds, PutNeverPanics,          *)
(* ObjectsAsAsked and RefusedOnlyWhenFull, are its own: they hold of the   *)
(* initial heap too.                                                       *)

(* The properties of module Heap.                                          *)

(* heap_validate finds nothing wrong after any sequence of allocations and *)
(* deallocations: the chain of elements, the free lists with the indices   *)
(* stored in free data, and the counters agree.                            *)
HeapValidateHolds == structure = "heap" => H!TypeOK /\ H!ValidateHolds

(* An object keeps its offset, is aligned and exactly as long as asked     *)
(* for, and no free index is written over its data.                        *)
HeapObjectsAsAllocated == structure = "heap" => H!ObjectsAsAllocated

(* _heap_alloc extends the vector only if no free element, in any bin, is  *)
(* as large as what it searched for.                                       *)
HeapExtendsOnlyWhenNothingFits == H!ExtendsOnlyWhenNothingFits

(* The properties of module Hash.                                          *)

(* Through collisions, deletions and resizes _hash_get finds exactly what  *)
(* the user has set: every key is in the table once, in a direct bucket or *)
(* in an array with room for all the pairs of an indirect one.             *)
HashLookupFindsWhatWasSet == structure = "hash" => T!LookupFindsWhatWasSet /\ T!BucketsValid

(* hash_next's own flags are set while it iterates, whatever is resized    *)
(* meanwhile, and are gone when it has come to the end.                    *)
HashFlagsRestored == structure = "hash" => T!FlagsRestored

(* hash_next returns every pair that stays in the table, and none twice,   *)
(* while other pairs are added.                                            *)
HashNextReturnsEveryPair == T!NextReturnsEveryPair
=============================================================================
