-------------------------------- MODULE Mheap --------------------------------
(***************************************************************************)
(* The allocator of mheap.c: a heap that grows inside one vector, with     *)
(* boundary tags between the objects, free lists by size and a cache of    *)
(* small objects that are free for the user and allocated for the heap.    *)
(*                                                                         *)
(* Offsets and sizes are in bytes as in the code, n_user_data in u32 words.*)
(* An element is named by the offset of its user data (its "uoffset"); elt *)
(* holds the tags that are in memory, and a tag that is overwritten by     *)
(* user data leaves its domain.  The calls to clib_mem_vm_map and          *)
(* clib_mem_vm_unmap change nothing: without MAP_ANONYMOUS and with no     *)
(* file their mmap fails, and mheap.c ignores the result.                  *)
(***************************************************************************)
EXTENDS Integers, Sequences, FiniteSets, FiniteSetsExt, Functions

CONSTANTS max_size,         \* h->max_size
          Sizes,            \* the user sizes that are asked for
          Aligns,           \* the alignments that are asked for
          AlignOffsets,     \* the alignment offsets that are asked for
          LOG2_N_SMALL_OBJECT_BINS,
          CACHE_BINS,       \* bins below this one are cached (255 in mheap.c)
          CACHE_SIZE        \* elements of the small object cache

MHEAP_USER_DATA_WORD_BYTES == 4
MHEAP_ELT_OVERHEAD_BYTES == 8
MHEAP_MIN_USER_DATA_BYTES == MHEAP_ELT_OVERHEAD_BYTES
SizeofElt == MHEAP_ELT_OVERHEAD_BYTES + MHEAP_MIN_USER_DATA_BYTES
MHEAP_N_SMALL_OBJECT_BINS == 2 ^ LOG2_N_SMALL_OBJECT_BINS

NONE == -1                  \* the offset ~0
INVALID == 2147483647       \* MHEAP_N_USER_DATA_INVALID
UNSET == -2                 \* memory that nobody has written

(* There are bins for up to 2^31 bytes.  Only bins of a single size are    *)
(* cached: any element of such a bin serves a request for the bin.         *)
ASSUME SizeAssumption ==
  /\ max_size \in 1 .. INVALID /\ max_size % MHEAP_USER_DATA_WORD_BYTES = 0
  /\ Sizes \subseteq 0 .. INVALID /\ Aligns \subseteq 0 .. INVALID
  /\ AlignOffsets \subseteq Nat
ASSUME BinAssumption ==
  /\ LOG2_N_SMALL_OBJECT_BINS \in 0 .. 31
  /\ CACHE_BINS \in 0 .. MHEAP_N_SMALL_OBJECT_BINS
  /\ CACHE_SIZE \in Nat \ {0}

VARIABLES
  len,                      \* _vec_len (v)
  elt,                      \* the boundary tags, by uoffset
  link,                     \* free_elt of the free elements, by uoffset
  first,                    \* first_free_elt_uoffset_by_bin
  n_elts,                   \* h->n_elts
  bins, offsets,            \* small_object_cache: bin + 1, zero if unused
  replacement_index,
  small_object_cache,       \* MHEAP_FLAG_SMALL_OBJECT_CACHE
  live                      \* history: the request behind each object

lists == <<elt, link, first>>
cache == <<bins, offsets, replacement_index>>
vars == <<len, elt, link, first, n_elts, bins, offsets, replacement_index,
          small_object_cache, live>>

-----------------------------------------------------------------------------
(* Arithmetic of clib.h                                                    *)

max_log2(x) == CHOOSE i \in 0 .. 31 : 2 ^ i >= x /\ (i = 0 \/ 2 ^ (i - 1) < x)
max_pow2(x) == 2 ^ max_log2(x)
Truncate(x, a) == (x \div a) * a
round_pow2(x, a) == Truncate(x + a - 1, a)

user_data_size_to_bin_index(n) ==
  LET bytes == Max({n, MHEAP_MIN_USER_DATA_BYTES})
      words == round_pow2(bytes, MHEAP_USER_DATA_WORD_BYTES)
                 \div MHEAP_USER_DATA_WORD_BYTES
      small == words - MHEAP_MIN_USER_DATA_BYTES \div MHEAP_USER_DATA_WORD_BYTES
      large == MHEAP_N_SMALL_OBJECT_BINS + max_log2(bytes)
                 - LOG2_N_SMALL_OBJECT_BINS
  IN IF small < MHEAP_N_SMALL_OBJECT_BINS THEN small ELSE large

N_BINS == MHEAP_N_SMALL_OBJECT_BINS + 32 - LOG2_N_SMALL_OBJECT_BINS
Bins == 0 .. N_BINS - 1
Offsets == {o \in MHEAP_ELT_OVERHEAD_BYTES .. Max({max_size, MHEAP_ELT_OVERHEAD_BYTES}) :
              o % MHEAP_USER_DATA_WORD_BYTES = 0}

-----------------------------------------------------------------------------
(* Boundary tags.  H is [elt, link, first]: the tags and the free lists    *)
(* between two assignments of a call.                                      *)

mheap_elt_data_bytes(H, o) == H.elt[o].n_user_data * MHEAP_USER_DATA_WORD_BYTES
mheap_next_elt(H, o) == o + mheap_elt_data_bytes(H, o) + MHEAP_ELT_OVERHEAD_BYTES
mheap_prev_elt(H, o) ==
  o - H.elt[o].prev_n_user_data * MHEAP_USER_DATA_WORD_BYTES
    - MHEAP_ELT_OVERHEAD_BYTES

FreshElt == [prev_n_user_data |-> UNSET, prev_is_free |-> FALSE,
             n_user_data |-> UNSET, is_free |-> FALSE]
EltAt(H, o) == IF o \in DOMAIN H.elt THEN H.elt[o] ELSE FreshElt

(* Mutant: the next tag's back pointer is not written.                     *)
ForwardSizeOnly(H, o, n, is_free) ==
  LET next == o + n + MHEAP_ELT_OVERHEAD_BYTES
      w == n \div MHEAP_USER_DATA_WORD_BYTES
      tags == {x \in DOMAIN H.elt : x <= o \/ x >= next} \union {next}
  IN [H EXCEPT !.elt =
        [x \in tags |->
          CASE x = o -> [H.elt[o] EXCEPT !.n_user_data = w, !.is_free = is_free]
            [] x = next -> [EltAt(H, next) EXCEPT !.prev_is_free = is_free]
            [] OTHER -> H.elt[x]]]

(* The size goes into the element's own tag and into the next one.         *)
mheap_elt_set_size(H, o, n, is_free) ==
  LET next == o + n + MHEAP_ELT_OVERHEAD_BYTES
      w == n \div MHEAP_USER_DATA_WORD_BYTES
      tags == {x \in DOMAIN H.elt : x <= o \/ x >= next} \union {next}
  IN [H EXCEPT !.elt =
        [x \in tags |->
          CASE x = o -> [H.elt[o] EXCEPT !.n_user_data = w, !.is_free = is_free]
            [] x = next -> [EltAt(H, next) EXCEPT !.prev_n_user_data = w,
                                                  !.prev_is_free = is_free]
            [] OTHER -> H.elt[x]]]

set_free_elt(H, o, n) ==
  LET b == user_data_size_to_bin_index(n)
      f == H.first[b]
      head == [next |-> f, prev |-> NONE]
  IN [H EXCEPT !.first[b] = o,
               !.link = [x \in DOMAIN H.link \union {o} |->
                           CASE x = o -> head
                             [] x = f -> [H.link[f] EXCEPT !.prev = o]
                             [] OTHER -> H.link[x]]]

new_free_elt(H, o, n) == set_free_elt(mheap_elt_set_size(H, o, n, TRUE), o, n)

remove_free_elt(H, o, b) ==
  LET no == H.link[o].next
      po == H.link[o].prev
  IN [H EXCEPT !.first[b] = IF po = NONE THEN no ELSE @,
               !.link = [x \in DOMAIN H.link \ {o} |->
                          [next |-> IF x = po THEN no ELSE H.link[x].next,
                           prev |-> IF x = no THEN po ELSE H.link[x].prev]]]
remove_free_elt2(H, o) ==
  remove_free_elt(H, o, user_data_size_to_bin_index(mheap_elt_data_bytes(H, o)))

Now == [elt |-> elt, link |-> link, first |-> first]
Become(H) == elt' = H.elt /\ link' = H.link /\ first' = H.first

-----------------------------------------------------------------------------
(* Allocation                                                              *)

(* The elements of a free list, in the order of their next_uoffsets.       *)
ListFrom[o \in DOMAIN link] ==
  IF link[o].next = NONE THEN <<o>> ELSE <<o>> \o ListFrom[link[o].next]

FreeList(b) == IF first[b] = NONE THEN << >> ELSE ListFrom[first[b]]

LowFragmentOK(o0, f0) ==
  o0 <= f0 \/ o0 - f0 - MHEAP_ELT_OVERHEAD_BYTES >= MHEAP_MIN_USER_DATA_BYTES

(* The offset at which an object of n bytes would go in the free block     *)
(* f0 .. f1: at the end, aligned, below it only where the fragment before  *)
(* it can be an element.                                                   *)
Place(f0, f1, n, align, align_offset) ==
  LET end == Truncate(f1 - n, align) - align_offset
      up == IF end >= f0 THEN end ELSE f0 + ((end - f0) % align)
  IN IF LowFragmentOK(up, f0) THEN up ELSE f0 - ((f0 - up) % align)

Fits(o, n, align, align_offset) ==
  LET f1 == o + mheap_elt_data_bytes(Now, o)
      o0 == Place(o, f1, n, align, align_offset)
  IN mheap_elt_data_bytes(Now, o) >= n /\ o0 >= o /\ o0 + n <= f1

(* mheap_get_search_free_bin, from "found" on: the free element f is cut   *)
(* into a free part, the object and another free part.                     *)
Cut(f, n, align, align_offset) ==
  LET f1 == f + mheap_elt_data_bytes(Now, f)
      o0 == Place(f, f1, n, align, align_offset)
      lo == IF o0 # f THEN o0 - f - MHEAP_ELT_OVERHEAD_BYTES ELSE 0
      rest == f1 - o0 - n - MHEAP_ELT_OVERHEAD_BYTES
      hi == IF rest < MHEAP_MIN_USER_DATA_BYTES THEN 0 ELSE rest
      size == IF hi = 0 THEN f1 - o0 ELSE n
      uo == o0 + size + MHEAP_ELT_OVERHEAD_BYTES
      taken == remove_free_elt2(Now, f)
      below == IF lo > 0 THEN new_free_elt(taken, f, lo) ELSE taken
      object == mheap_elt_set_size(below, o0, size, FALSE)
  IN [offset |-> o0,
      heap |-> IF hi > 0 THEN new_free_elt(object, uo, hi) ELSE object]

(* Mutant: the search starts one bin too high.                             *)
LargerBins(n) == {b \in Bins : b > user_data_size_to_bin_index(n)}

(* The bins that mheap_get_search_free_list looks through for n bytes.     *)
SearchedBins(n) == {b \in Bins : b >= user_data_size_to_bin_index(n)}

(* First fit, from the bin of the requested size upwards.                  *)
SearchFreeList(n, align, align_offset) ==
  LET fitting(b) == {k \in DOMAIN FreeList(b) : Fits(FreeList(b)[k], n, align, align_offset)}
      found == {b \in SearchedBins(n) : fitting(b) # {}}
  IN IF found = {} THEN NONE ELSE FreeList(Min(found))[Min(fitting(Min(found)))]

(* Mutant: a cached object serves a request with an alignment.             *)
AnyCached(n, align, align_offset) ==
  LET b == user_data_size_to_bin_index(n)
      mask == {i \in DOMAIN bins : bins[i] = b + 1}
  IN IF small_object_cache /\ b < CACHE_BINS /\ mask # {} THEN Min(mask) ELSE NONE

Cached(n, align, align_offset) ==
  LET b == user_data_size_to_bin_index(n)
      mask == {i \in DOMAIN bins : bins[i] = b + 1}
  IN IF /\ small_object_cache
        /\ b < CACHE_BINS
        /\ align = MHEAP_USER_DATA_WORD_BYTES /\ align_offset = 0
        /\ mask # {}
     THEN Min(mask) ELSE NONE

(* The end of the heap: the tag that follows the last element becomes the  *)
(* tag of the object, or of a free fragment before an aligned object.      *)
ExtendFrom == IF len = 0 THEN MHEAP_ELT_OVERHEAD_BYTES ELSE len
ExtendOffset(align, align_offset) ==
  LET f0 == ExtendFrom
      o0 == round_pow2(f0, align) - align_offset
  IN Min({o \in {o0 + k * align : k \in 0 .. SizeofElt + MHEAP_ELT_OVERHEAD_BYTES} :
            o = f0 \/ o - f0 - MHEAP_ELT_OVERHEAD_BYTES >= SizeofElt})
ExtendEnd(n, align, align_offset) ==
  ExtendOffset(align, align_offset) + n + MHEAP_ELT_OVERHEAD_BYTES

FirstElt(H) ==
  IF len = 0
  THEN LET e == MHEAP_ELT_OVERHEAD_BYTES
       IN [H EXCEPT !.elt = [x \in {e} |->
             [EltAt(H, e) EXCEPT !.prev_n_user_data = INVALID]]]
  ELSE H

Extended(n, align, align_offset) ==
  LET f0 == ExtendFrom
      o0 == ExtendOffset(align, align_offset)
      f1 == ExtendEnd(n, align, align_offset)
      below == IF o0 # f0
               THEN new_free_elt(FirstElt(Now), f0,
                                 o0 - f0 - MHEAP_ELT_OVERHEAD_BYTES)
               ELSE FirstElt(Now)
      object == mheap_elt_set_size(below, o0, n, FALSE)
  IN [object EXCEPT !.elt[f1].n_user_data = INVALID]

(* Mutant: the tag behind the object is not counted.                       *)
RoomForData(n, align, align_offset) ==
  len < max_size /\ ExtendEnd(n, align, align_offset) - MHEAP_ELT_OVERHEAD_BYTES <= max_size

Room(n, align, align_offset) ==
  len < max_size /\ ExtendEnd(n, align, align_offset) <= max_size

(* The requests that mheap_get_aligned works with.                         *)
NormalRequest(size, a, ao) ==
  LET align == max_pow2(Max({a, MHEAP_USER_DATA_WORD_BYTES}))
  IN [n |-> round_pow2(Max({size, MHEAP_MIN_USER_DATA_BYTES}),
                       MHEAP_USER_DATA_WORD_BYTES),
      align |-> align, align_offset |-> ao % align]

Got(r, o) ==
  /\ n_elts' = n_elts + 1
  /\ live' = [x \in DOMAIN live \union {o} |-> IF x = o THEN r ELSE live[x]]
  /\ UNCHANGED small_object_cache

NotGot == UNCHANGED <<n_elts, live, small_object_cache>>

(* align_offset is no multiple of the word size: nothing is allocated.     *)
GetMisaligned(r) ==
  /\ r.align_offset % MHEAP_USER_DATA_WORD_BYTES # 0
  /\ NotGot
  /\ UNCHANGED <<len, lists, cache>>

GetCached(r) ==
  LET i == Cached(r.n, r.align, r.align_offset) IN
  /\ r.align_offset % MHEAP_USER_DATA_WORD_BYTES = 0
  /\ i # NONE
  /\ bins' = [bins EXCEPT ![i] = 0]
  /\ Got(r, offsets[i])
  /\ UNCHANGED <<len, lists, offsets, replacement_index>>

GetFromFreeList(r) ==
  LET f == SearchFreeList(r.n, r.align, r.align_offset) IN
  /\ r.align_offset % MHEAP_USER_DATA_WORD_BYTES = 0
  /\ Cached(r.n, r.align, r.align_offset) = NONE
  /\ f # NONE
  /\ LET cut == Cut(f, r.n, r.align, r.align_offset)
     IN Become(cut.heap) /\ Got(r, cut.offset)
  /\ UNCHANGED <<len, cache>>

GetByExtending(r) ==
  /\ r.align_offset % MHEAP_USER_DATA_WORD_BYTES = 0
  /\ Cached(r.n, r.align, r.align_offset) = NONE
  /\ SearchFreeList(r.n, r.align, r.align_offset) = NONE
  /\ Room(r.n, r.align, r.align_offset)
  /\ len' = ExtendEnd(r.n, r.align, r.align_offset)
  /\ Become(Extended(r.n, r.align, r.align_offset))
  /\ Got(r, ExtendOffset(r.align, r.align_offset))
  /\ UNCHANGED cache

Refused(r) ==
  /\ r.align_offset % MHEAP_USER_DATA_WORD_BYTES = 0
  /\ Cached(r.n, r.align, r.align_offset) = NONE
  /\ SearchFreeList(r.n, r.align, r.align_offset) = NONE
  /\ ~ Room(r.n, r.align, r.align_offset)

(* The heap cannot grow that far.  Its first element is made all the same. *)
GetFails(r) ==
  /\ Refused(r)
  /\ len' = IF len < max_size THEN ExtendFrom ELSE len
  /\ Become(FirstElt(Now))
  /\ NotGot
  /\ UNCHANGED cache

mheap_get_aligned(size, a, ao) ==
  LET r == NormalRequest(size, a, ao)
  IN \/ GetMisaligned(r)
     \/ GetCached(r)
     \/ GetFromFreeList(r)
     \/ GetByExtending(r)
     \/ GetFails(r)

-----------------------------------------------------------------------------
(* Deallocation                                                            *)

(* The last element goes, with a free element before it: its tag becomes   *)
(* the last one, and a heap without elements starts anew.                  *)
FreeLast(o) ==
  LET prev_is_free == elt[o].prev_is_free
      e == IF prev_is_free THEN mheap_prev_elt(Now, o) ELSE o
      H == IF prev_is_free THEN remove_free_elt2(Now, e) ELSE Now
      kept == Restrict(H.elt, {x \in DOMAIN H.elt : x <= e})
  IN IF elt[e].prev_n_user_data = INVALID
     THEN [len |-> 0, heap |-> [H EXCEPT !.elt = kept]]
     ELSE [len |-> e,
           heap |-> [H EXCEPT !.elt = [kept EXCEPT ![e].n_user_data = INVALID]]]

(* Mutant: a free element before the freed one stays on its own.           *)
CombinedWithNext(o) ==
  LET n == mheap_next_elt(Now, o)
      f1 == IF elt[n].is_free THEN n + mheap_elt_data_bytes(Now, n)
            ELSE o + mheap_elt_data_bytes(Now, o)
      nonext == IF elt[n].is_free THEN remove_free_elt2(Now, n) ELSE Now
  IN new_free_elt(nonext, o, f1 - o)

(* The element becomes free, combined with its free neighbours.            *)
Combined(o) ==
  LET n == mheap_next_elt(Now, o)
      f0 == IF elt[o].prev_is_free THEN mheap_prev_elt(Now, o) ELSE o
      f1 == IF elt[n].is_free THEN n + mheap_elt_data_bytes(Now, n)
            ELSE o + mheap_elt_data_bytes(Now, o)
      noprev == IF elt[o].prev_is_free THEN remove_free_elt2(Now, f0) ELSE Now
      nonext == IF elt[n].is_free THEN remove_free_elt2(noprev, n) ELSE noprev
  IN new_free_elt(nonext, f0, f1 - f0)

IsLast(o) == elt[mheap_next_elt(Now, o)].n_user_data = INVALID

Free(o) ==
  IF IsLast(o)
  THEN len' = FreeLast(o).len /\ Become(FreeLast(o).heap)
  ELSE Become(Combined(o)) /\ UNCHANGED len

FreeSlots == {i \in DOMAIN bins : bins[i] = 0}

PutInto(o, i) ==
  /\ bins' = [bins EXCEPT ![i] = 1 + user_data_size_to_bin_index(mheap_elt_data_bytes(Now, o))]
  /\ offsets' = [offsets EXCEPT ![i] = o]

GoesToCache(o) ==
  /\ small_object_cache
  /\ user_data_size_to_bin_index(mheap_elt_data_bytes(Now, o)) < CACHE_BINS

Put(o) ==
  /\ n_elts' = n_elts - 1
  /\ live' = Restrict(live, DOMAIN live \ {o})
  /\ UNCHANGED small_object_cache

PutCached(o) ==
  /\ GoesToCache(o) /\ FreeSlots # {}
  /\ PutInto(o, Min(FreeSlots))
  /\ Put(o)
  /\ UNCHANGED <<len, lists, replacement_index>>

(* Cyclic replacement: the object that was in the cache is freed.          *)
PutReplacing(o) ==
  /\ GoesToCache(o) /\ FreeSlots = {}
  /\ PutInto(o, replacement_index)
  /\ replacement_index' = (replacement_index + 1) % CACHE_SIZE
  /\ Free(offsets[replacement_index])
  /\ Put(o)

PutFreed(o) ==
  /\ ~ GoesToCache(o)
  /\ Free(o)
  /\ Put(o)
  /\ UNCHANGED cache

mheap_put(o) == PutCached(o) \/ PutReplacing(o) \/ PutFreed(o)

-----------------------------------------------------------------------------
(* mheap_alloc (0, size): the memory comes from mmap and holds zeros.      *)
Init ==
  /\ len = 0
  /\ elt = [o \in {MHEAP_ELT_OVERHEAD_BYTES} |-> FreshElt]
  /\ link = << >>
  /\ first = [b \in Bins |-> NONE]
  /\ n_elts = 0
  /\ bins = [i \in 0 .. CACHE_SIZE - 1 |-> 0]
  /\ offsets = [i \in 0 .. CACHE_SIZE - 1 |-> 0]
  /\ replacement_index = 0
  /\ small_object_cache \in BOOLEAN
  /\ live = << >>

Get == \E size \in Sizes, a \in Aligns, ao \in AlignOffsets :
         mheap_get_aligned(size, a, ao)
PutOne == \E o \in DOMAIN live : mheap_put(o)
Next == Get \/ PutOne
Spec == Init /\ [][Next]_vars

-----------------------------------------------------------------------------
(* The elements that mheap_validate walks: up to the tag that ends them.   *)
Elements ==
  IF len = 0 THEN {} ELSE {o \in DOMAIN elt : elt[o].n_user_data # INVALID}
CachedObjects == {offsets[i] : i \in {j \in DOMAIN bins : bins[j] # 0}}
FreeElements == {o \in Elements : elt[o].is_free}
DataBytesFrom[o \in DOMAIN elt] ==
  IF elt[o].n_user_data = INVALID THEN 0
  ELSE mheap_elt_data_bytes(Now, o) + DataBytesFrom[mheap_next_elt(Now, o)]
OnFreeLists == UNION {Range(FreeList(b)) : b \in Bins}

(* Every field of the heap header and of the tags has a value of its type. *)
TypeOK ==
  /\ len \in Offsets \union {0}
  /\ DOMAIN elt \subseteq Offsets
  /\ DOMAIN link \subseteq DOMAIN elt
  /\ \A o \in DOMAIN link : link[o].next \in Offsets \union {NONE}
                         /\ link[o].prev \in Offsets \union {NONE}
  /\ first \in [Bins -> Offsets \union {NONE}]
  /\ n_elts \in Nat
  /\ \A i \in 0 .. CACHE_SIZE - 1 :
       /\ bins[i] \in 0 .. CACHE_BINS
       /\ offsets[i] \in Offsets \union {0}
  /\ replacement_index \in 0 .. CACHE_SIZE - 1

(* The free lists hold exactly the free elements, each in the bin of its   *)
(* size, and are linked both ways.                                         *)
ListsAgree ==
  /\ OnFreeLists = FreeElements
  /\ \A b \in Bins : \A k \in DOMAIN FreeList(b) :
       LET o == FreeList(b)[k] IN
       /\ elt[o].is_free /\ elt[mheap_next_elt(Now, o)].prev_is_free
       /\ user_data_size_to_bin_index(mheap_elt_data_bytes(Now, o)) = b
       /\ link[o].prev = IF k = 1 THEN NONE ELSE FreeList(b)[k - 1]

(* Cached objects are allocated and in the bin of their size.              *)
CacheAgrees ==
  \A i \in DOMAIN bins : bins[i] # 0 =>
    /\ ~ elt[offsets[i]].is_free
    /\ user_data_size_to_bin_index(mheap_elt_data_bytes(Now, offsets[i])) = bins[i] - 1

(* Tags agree with their neighbours; no two free elements are adjacent.    *)
TagsAgree ==
  \A o \in Elements :
    /\ elt[o].n_user_data # UNSET
    /\ mheap_elt_data_bytes(Now, o) >= MHEAP_MIN_USER_DATA_BYTES
    /\ mheap_next_elt(Now, o) \in DOMAIN elt
    /\ elt[o].is_free = elt[mheap_next_elt(Now, o)].prev_is_free
    /\ ~ (elt[o].prev_is_free /\ elt[o].is_free)

(* An element is the user's, free or in the cache: none is lost.           *)
ElementsCounted ==
  Cardinality(Elements) = n_elts + Cardinality(FreeElements)
                            + Cardinality({i \in DOMAIN bins : bins[i] # 0})

(* The elements and their tags, and the tag at the end, fill the vector.   *)
BytesCounted ==
  DataBytesFrom[MHEAP_ELT_OVERHEAD_BYTES]
    + (Cardinality(Elements) + 1) * MHEAP_ELT_OVERHEAD_BYTES = len

(* mheap_validate finds nothing wrong between two calls: fields have their *)
(* types, tags, free lists and cache agree, and elements and bytes add up, *)
(* in every heap that has an element.  (A first request that does not fit  *)
(* leaves a heap of one tag that was never filled in.)                     *)
ValidateHolds ==
  /\ TypeOK
  /\ len > MHEAP_ELT_OVERHEAD_BYTES =>
       ListsAgree /\ CacheAgrees /\ TagsAgree /\ ElementsCounted /\ BytesCounted

(* None of mheap_put's three os_panic calls is reached for an object that  *)
(* the user has, nor for the one that it pushes out of the cache.          *)
PutNeverPanics ==
  \A o \in DOMAIN live \union CachedObjects :
    LET n == mheap_next_elt(Now, o) IN
    /\ n \in DOMAIN elt
    /\ elt[o].n_user_data = elt[n].prev_n_user_data
    /\ elt[o].is_free = elt[n].prev_is_free
    /\ ~ elt[o].is_free

(* Every object the user has is one allocated element of the heap, as long *)
(* and as aligned as it was asked for, whatever was freed, combined, cut   *)
(* and cached since; no cached object is one of them.                      *)
ObjectsAsAsked ==
  /\ \A o \in DOMAIN live :
       /\ o \in Elements /\ ~ elt[o].is_free
       /\ mheap_elt_data_bytes(Now, o) >= live[o].n
       /\ (o + live[o].align_offset) % live[o].align = 0
  /\ CachedObjects \intersect DOMAIN live = {}
  /\ Cardinality(CachedObjects) = Cardinality({i \in DOMAIN bins : bins[i] # 0})
  /\ n_elts = Cardinality(DOMAIN live)

(* A request without alignment is refused only when no free element is     *)
(* large enough, no cached object has its size and the heap's end has no   *)
(* room: combining on free makes the search of the bins complete.          *)
RefusedOnlyWhenFull ==
  \A size \in Sizes :
    LET r == NormalRequest(size, 0, 0) IN
    Refused(r) =>
      /\ \A o \in FreeElements : mheap_elt_data_bytes(Now, o) < r.n
      /\ \A o \in CachedObjects :
           \/ mheap_elt_data_bytes(Now, o) # r.n
           \/ user_data_size_to_bin_index(r.n) >= CACHE_BINS
      /\ ExtendFrom + r.n + MHEAP_ELT_OVERHEAD_BYTES > max_size
=============================================================================
