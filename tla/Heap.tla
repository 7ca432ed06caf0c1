-------------------------------- MODULE Heap --------------------------------
(***************************************************************************)
(* The heap of vector elements of heap.c: objects are ranges of a vector,  *)
(* described by elements that are chained in the order of their offsets.   *)
(* A free element is also on the free list of its size's bin, and its      *)
(* place there (its free index) is written into the free data itself, or,  *)
(* when a vector element is smaller than a u32, into a vector of its own.  *)
(*                                                                         *)
(* Everything here is sequential, so that the heap is one record hp, and   *)
(* each function of the code is an operator from record to record.         *)
(* Elements, bins and places on a free list are numbered from 1, and next  *)
(* and prev are indices and not differences of indices; an element that is *)
(* its own neighbour ends the chain, as a difference of 0 does.            *)
(***************************************************************************)
EXTENDS Integers, Sequences, FiniteSets, FiniteSetsExt,
        SequencesExt, TLC

CONSTANTS max_len,          \* h->max_len, never 0 here
          MaxObjects,       \* bound: the objects that are live at once
          Requests,         \* the pairs of a size and an alignment asked for
          HEAP_LOG2_SMALL_BINS,
          HEAP_N_BINS

HEAP_SMALL_BINS == 2 ^ HEAP_LOG2_SMALL_BINS

(* The bins must be enough for the last one to hold one power of two only: *)
(*    max_len <= 2 ^ (HEAP_N_BINS - HEAP_SMALL_BINS + HEAP_LOG2_SMALL_BINS) *)
(* as they are in heap.c, where the last one's sizes exceed a u32.          *)

ELT_SIZES == {1, 4}         \* elt_bytes below and from sizeof (u32)

VARIABLES
  hp,     \* the header and the data of the heap
  live    \* history: the objects of the user, by handle

vars == <<hp, live>>

-----------------------------------------------------------------------------
(* Sizes and bins.                                                         *)

max_log2(x) == CHOOSE l \in 0 .. x : 2 ^ l >= x /\ (l = 0 \/ 2 ^ (l - 1) < x)
max_pow2(x) == 2 ^ max_log2(x)
RoundUp(x, a) == ((x + a - 1) \div a) * a

size_to_bin(size) ==
  LET bin == HEAP_SMALL_BINS + max_log2(size) - HEAP_LOG2_SMALL_BINS
  IN  IF size <= HEAP_SMALL_BINS THEN size
      ELSE IF bin > HEAP_N_BINS THEN HEAP_N_BINS ELSE bin

heap_offset(h, e) == h.elts[e].offset
heap_is_free(h, e) == h.elts[e].free
heap_next(h, e) == h.elts[e].next
heap_prev(h, e) == h.elts[e].prev

heap_elt_size(h, e) ==
  (IF heap_next(h, e) # e THEN heap_offset(h, heap_next(h, e)) ELSE h.len)
    - heap_offset(h, e)

-----------------------------------------------------------------------------
(* The chain of elements.                                                  *)

(* The free index of e is in the data at its offset, or at e in            *)
(* small_free_elt_free_index.                                              *)
FreeIndexPlace(h, e) == IF h.elt_bytes >= 4 THEN heap_offset(h, e) ELSE e

(* The index of an element that is no longer free is forgotten: nobody     *)
(* reads it before it is written again.                                    *)
Forget(h, places) ==
  [h EXCEPT !.free_index = [o \in DOMAIN @ \ places |-> @[o]]]

SetNext(h, e, n) == [h EXCEPT !.elts[e].next = n]
SetPrev(h, e, p) == [h EXCEPT !.elts[e].prev = p]
SetUsed(h, e, o) == [h EXCEPT !.elts[e].offset = o, !.elts[e].free = FALSE]

\* Mutant: the tail keeps naming the element that is deleted.
UnlinkKeepTail(h, e) ==
  LET p == heap_prev(h, e)
      n == heap_next(h, e)
  IN  IF p = e THEN [SetPrev(h, n, n) EXCEPT !.head = n]
      ELSE IF n = e THEN SetNext(h, p, p)
      ELSE SetPrev(SetNext(h, p, n), n, p)

Unlink(h, e) ==
  LET p == heap_prev(h, e)
      n == heap_next(h, e)
  IN  IF p = e THEN [SetPrev(h, n, n) EXCEPT !.head = n]
      ELSE IF n = e THEN [SetNext(h, p, p) EXCEPT !.tail = p]
      ELSE SetPrev(SetNext(h, p, n), n, p)

(* A deleted element is not read before it is written again, so that its   *)
(* fields may be those of a new one.                                       *)
NewFields(e) == [offset |-> 0, free |-> FALSE, next |-> e, prev |-> e]

elt_delete(h, e) ==
  LET u == Unlink(Forget(h, {FreeIndexPlace(h, e)}), e)
  IN  IF e < Len(h.elts)
        THEN [u EXCEPT !.free_elts = Append(@, e), !.elts[e] = NewFields(e)]
        ELSE [u EXCEPT !.elts = Front(@)]

elt_insert_before(h, e, new) ==
  LET p == heap_prev(h, e)
  IN  IF p = e
        THEN [SetNext(SetPrev(SetPrev(h, new, new), e, new), new, e)
                EXCEPT !.head = new]
        ELSE SetNext(SetPrev(SetNext(SetPrev(h, new, p), new, e), e, new),
                     p, new)

elt_insert_after(h, e, new) ==
  LET n == heap_next(h, e)
  IN  IF n = e
        THEN [SetNext(SetPrev(SetNext(h, new, new), new, e), e, new)
                EXCEPT !.tail = new]
        ELSE SetPrev(SetNext(SetNext(SetPrev(h, new, e), new, n), e, new),
                     n, new)

(* elt_new takes the latest index of free_elts, or a new one at the end of *)
(* elts.  Every user of a new element writes its links and its offset.     *)
NewElt(h) == IF h.free_elts # <<>> THEN Last(h.free_elts) ELSE Len(h.elts) + 1

elt_new(h) ==
  LET e == NewElt(h)
  IN  IF h.free_elts # <<>>
        THEN [h EXCEPT !.free_elts = Front(@)]
        ELSE [h EXCEPT !.elts = Append(@, NewFields(e))]

-----------------------------------------------------------------------------
(* Free lists.                                                             *)

(* vec_validate: a vector of n elements at least, new ones being zero.     *)
Validated(v, n, zero) ==
  IF n <= Len(v) THEN v ELSE v \o [i \in 1 .. n - Len(v) |-> zero]

set_free_elt(h, e, fi) ==
  [h EXCEPT !.elts[e].free = TRUE,
            !.free_index = (FreeIndexPlace(h, e) :> fi) @@ @]

get_free_elt(h, e) == h.free_index[FreeIndexPlace(h, e)]

FreeBin(h, e) == size_to_bin(heap_elt_size(h, e))

(* An element goes to the end of bin b's list.                             *)
AddFree(h, b, e) ==
  LET lists == Validated(h.free_lists, b, <<>>)
  IN  set_free_elt([h EXCEPT !.free_lists = [lists EXCEPT ![b] = Append(@, e)]],
                   e, Len(lists[b]) + 1)

\* Mutant: the element that fills the gap keeps its old free index.
RemoveWithoutIndex(h, b, i) ==
  LET l == Len(h.free_lists[b])
  IN  [h EXCEPT !.free_lists[b] = Front([@ EXCEPT ![i] = h.free_lists[b][l]])]

remove_free_block(h, b, i) ==
  LET l == Len(h.free_lists[b])
      t == h.free_lists[b][l]
      cut == [h EXCEPT !.free_lists[b] = Front([@ EXCEPT ![i] = t])]
  IN  IF i < l THEN set_free_elt(cut, t, i) ELSE cut

(* The places of bin b's list whose elements are large enough.             *)
Fits(h, b, size) ==
  {l \in 1 .. Len(h.free_lists[b]) :
     heap_elt_size(h, h.free_lists[b][l]) >= size}

\* Mutant: the search begins with the bin after the size's own.
NextBinsWithFit(h, size) ==
  {b \in size_to_bin(size) + 1 .. Len(h.free_lists) : Fits(h, b, size) # {}}

BinsWithFit(h, size) ==
  {b \in size_to_bin(size) .. Len(h.free_lists) : Fits(h, b, size) # {}}

(* search_free_list: the latest element that fits in the first bin with    *)
(* one.  The object is cut from the end of the free element f, or is f.    *)
SearchedElt(h, f, size) == IF heap_elt_size(h, f) = size THEN f ELSE NewElt(h)

Found(h, size) ==
  LET b == CHOOSE b \in BinsWithFit(h, size) :
             \A c \in BinsWithFit(h, size) : b <= c
      l == CHOOSE l \in Fits(h, b, size) : \A m \in Fits(h, b, size) : m <= l
  IN  [bin |-> b, place |-> l, elt |-> h.free_lists[b][l]]

search_free_list(h, size) ==
  LET w == Found(h, size)
      f == w.elt
      s == heap_elt_size(h, f) - size
      u == SearchedElt(h, f, size)
      cut == SetUsed(elt_insert_after(elt_new(h), f, u),
                     u, heap_offset(h, f) + s)
      fb == size_to_bin(s)
      used == Forget(SetUsed(h, f, heap_offset(h, f)), {FreeIndexPlace(h, f)})
  IN  IF s = 0 THEN remove_free_block(used, w.bin, w.place)
      ELSE IF fb = w.bin THEN cut
      ELSE remove_free_block(AddFree(cut, fb, f), w.bin, w.place)

-----------------------------------------------------------------------------
(* Freeing.                                                                *)

(* combine_free_blocks: the free elements fs, two or three neighbours, are *)
(* replaced by one.  It is the one of them that is in the bin of the whole *)
(* already, or a new element in front of them.                             *)
combine_free_blocks(h, fs) ==
  LET total == FoldSeq(LAMBDA e, t : heap_elt_size(h, e) + t, 0, fs)
      b == size_to_bin(total)
      kept == SelectSeq(fs, LAMBDA e : FreeBin(h, e) = b)
      lists == Validated(h.free_lists, b, <<>>)
      g == IF kept # <<>> THEN Head(kept) ELSE NewElt(h)
      gi == IF kept # <<>> THEN get_free_elt(h, g) ELSE Len(lists[b]) + 1
      added == elt_insert_before(
                 [elt_new(h) EXCEPT !.free_lists =
                                      [lists EXCEPT ![b] = Append(@, g)]],
                 fs[1], g)
      Drop(k, e) ==
        elt_delete(remove_free_block(k, FreeBin(k, e), get_free_elt(k, e)), e)
      dropped == FoldLeft(Drop, IF kept # <<>> THEN h ELSE added,
                          SelectSeq(fs, LAMBDA e : e # g))
      old == IF kept # <<>> THEN {FreeIndexPlace(h, g)} ELSE {}
      whole == SetUsed(Forget(dropped, old), g, heap_offset(h, fs[1]))
  IN  set_free_elt(whole, g, gi)

dealloc_elt(h, e) ==
  LET f == AddFree(h, FreeBin(h, e), e)
      p == heap_prev(f, e)
      n == heap_next(f, e)
      fs == (IF p # e /\ heap_is_free(f, p) THEN <<p>> ELSE <<>>)
              \o <<e>>
              \o (IF n # e /\ heap_is_free(f, n) THEN <<n>> ELSE <<>>)
  IN  IF Len(fs) > 1 THEN combine_free_blocks(f, fs) ELSE f

-----------------------------------------------------------------------------
(* Allocation.                                                             *)

Alignment(align) == IF align <= 1 THEN 1 ELSE max_pow2(align)
AlignSize(size, align) == size + Alignment(align) - 1

(* The object at the end of the vector, which grows.                       *)
Extended(h, size) ==
  LET e == NewElt(h)
      grown == SetUsed(elt_new([h EXCEPT !.len = @ + size]), e, h.len)
  IN  elt_insert_after(grown, IF h.elts = <<>> THEN e ELSE h.tail, e)

(* The fragments before and after the aligned object are freed.            *)
FreedBefore(h, e, new) ==
  LET old == heap_offset(h, e)
      b == NewElt(h)
      cut == SetUsed(elt_new(SetUsed(h, e, new)), b, old)
  IN  IF new = old THEN h ELSE dealloc_elt(elt_insert_before(cut, e, b), b)

FreedAfter(h, e, end, cut_end) ==
  LET a == NewElt(h)
      cut == SetUsed(elt_new(h), a, end)
  IN  IF end = cut_end THEN h ELSE dealloc_elt(elt_insert_after(cut, e, a), a)

\* Mutant: the fragment after the object stays part of it.
FragmentBeforeFreed(h, e, size, align, align_size) ==
  FreedBefore(h, e, RoundUp(heap_offset(h, e), Alignment(align)))

FragmentsFreed(h, e, size, align, align_size) ==
  LET new == RoundUp(heap_offset(h, e), Alignment(align))
  IN  FreedAfter(FreedBefore(h, e, new), e,
                 new + size, heap_offset(h, e) + align_size)

(* The user of object e writes to all of its data.                         *)
UserWrites(h, e) ==
  Forget(h, IF h.elt_bytes < 4 THEN {}
            ELSE heap_offset(h, e) ..
                   heap_offset(h, e) + heap_elt_size(h, e) - 1)

(* The object e of h becomes the user's.                                   *)
Allocated(h, e, size, align) ==
  /\ hp' = [UserWrites(h, e) EXCEPT !.used_count = @ + 1]
  /\ live' = [i \in DOMAIN live \cup {e} |->
                IF i = e THEN [offset |-> heap_offset(h, e),
                               size |-> size, align |-> align]
                         ELSE live[i]]

_heap_alloc(size, align) ==
  /\ size # 0
  /\ LET align_size == AlignSize(size, align)
         hit == BinsWithFit(hp, align_size) # {}
         e == IF hit THEN SearchedElt(hp, Found(hp, align_size).elt, align_size)
                     ELSE NewElt(hp)
         h == IF hit THEN search_free_list(hp, align_size)
                     ELSE Extended(hp, align_size)
     IN  /\ Cardinality(DOMAIN live) < MaxObjects
         /\ hit \/ hp.len + align_size <= max_len
         /\ Allocated(IF Alignment(align) = 1 THEN h
                      ELSE FragmentsFreed(h, e, size, align, align_size),
                      e, size, align)

(* The request is refused: the handle is ~0 and nothing has changed.       *)
HeapAllocFails(size, align) ==
  /\ \/ size = 0
     \/ /\ size # 0
        /\ BinsWithFit(hp, AlignSize(size, align)) = {}
        /\ hp.len + AlignSize(size, align) > max_len
  /\ UNCHANGED vars

heap_dealloc(handle) ==
  /\ hp' = dealloc_elt([hp EXCEPT !.used_count = @ - 1], handle)
  /\ live' = [i \in DOMAIN live \ {handle} |-> live[i]]

EmptyHeap(bytes) ==
  [elts |-> <<>>, free_index |-> <<>>, free_elts |-> <<>>,
   free_lists |-> <<>>, head |-> 1, tail |-> 1, used_count |-> 0,
   elt_bytes |-> bytes, len |-> 0]

(* heap_free: the user has to create the heap and set its max_len again.   *)
_heap_free ==
  /\ hp' = EmptyHeap(hp.elt_bytes)
  /\ live' = <<>>

Init ==
  /\ \E bytes \in ELT_SIZES : hp = EmptyHeap(bytes)
  /\ live = <<>>

Next ==
  \/ \E r \in Requests : _heap_alloc(r[1], r[2]) \/ HeapAllocFails(r[1], r[2])
  \/ \E handle \in DOMAIN live : heap_dealloc(handle)
  \/ _heap_free

Spec == Init /\ [][Next]_vars

-----------------------------------------------------------------------------
(* Properties.                                                             *)

Indices == 1 .. Len(hp.elts)
Chained == Indices \ ToSet(hp.free_elts)
FreeElts == {e \in Chained : heap_is_free(hp, e)}

(* Every field is in its range: indices are those of elts, offsets those   *)
(* of the vector, and the vector is no longer than max_len.                *)
TypeOK ==
  /\ hp.len \in 0 .. max_len
  /\ hp.elt_bytes \in ELT_SIZES
  /\ hp.used_count \in Nat
  /\ \A e \in Indices : hp.elts[e] \in [offset : 0 .. max_len, free : BOOLEAN,
                                        next : Nat, prev : Nat]
  /\ hp.elts # <<>> => {hp.head, hp.tail} \subseteq Chained
  /\ \A e \in Chained : {heap_next(hp, e), heap_prev(hp, e)} \subseteq Chained
  /\ ToSet(hp.free_elts) \subseteq Indices
  /\ Len(hp.free_lists) <= HEAP_N_BINS
  /\ \A b \in DOMAIN hp.free_lists :
       ToSet(hp.free_lists[b]) \subseteq FreeElts
  /\ DOMAIN hp.free_index \subseteq
       IF hp.elt_bytes >= 4 THEN 0 .. hp.len - 1 ELSE Indices

(* The chain leads from the start of the vector to its end without gaps or *)
(* overlaps, and no two neighbours are free.                               *)
ChainValid ==
  hp.elts # <<>> =>
    /\ heap_prev(hp, hp.head) = hp.head /\ heap_offset(hp, hp.head) = 0
    /\ heap_next(hp, hp.tail) = hp.tail
    /\ \A e \in Chained :
         LET n == heap_next(hp, e)
         IN  /\ heap_elt_size(hp, e) > 0
             /\ n = e => e = hp.tail
             /\ heap_prev(hp, e) = e => e = hp.head
             /\ n # e => /\ heap_prev(hp, n) = e
                         /\ ~ (heap_is_free(hp, e) /\ heap_is_free(hp, n))

(* Every free element is where its free index says, on the list of its     *)
(* size's bin, and the lists hold nothing else.                            *)
FreeListsValid ==
  /\ \A e \in FreeElts :
       LET fb == FreeBin(hp, e)
           fi == get_free_elt(hp, e)
       IN  /\ fb \in DOMAIN hp.free_lists
           /\ fi \in DOMAIN hp.free_lists[fb]
           /\ hp.free_lists[fb][fi] = e
  /\ FoldSeq(LAMBDA l, n : Len(l) + n, 0, hp.free_lists)
       = Cardinality(FreeElts)

(* heap_validate finds nothing wrong after any sequence of allocations and *)
(* deallocations, aligned or not, with the free indices in the data or in  *)
(* their own vector: the chain, the free lists and the counters agree.     *)
ValidateHolds ==
  /\ ChainValid
  /\ FreeListsValid
  /\ hp.used_count = Cardinality(DOMAIN live)
  /\ Chained = DOMAIN live \cup FreeElts

(* Whatever is allocated and freed around it, an object keeps its offset,  *)
(* is aligned and exactly as long as asked for (_heap_alloc frees the      *)
(* fragments), and no free index is written over its data.                 *)
ObjectsAsAllocated ==
  \A e \in DOMAIN live :
    LET o == live[e]
    IN  /\ e \in Chained /\ ~ heap_is_free(hp, e)
        /\ heap_offset(hp, e) = o.offset
        /\ heap_elt_size(hp, e) = o.size
        /\ o.offset % Alignment(o.align) = 0
        /\ hp.elt_bytes >= 4 =>
             (o.offset .. o.offset + o.size - 1) \cap DOMAIN hp.free_index = {}

(* _heap_alloc extends the vector only if no free element would have been  *)
(* large enough, whatever bin it is in: the extension is what it searched  *)
(* for.                                                                    *)
ExtendsOnlyWhenNothingFits ==
  [][ hp'.len > hp.len =>
        \A e \in FreeElts : heap_elt_size(hp, e) < hp'.len - hp.len ]_vars
=============================================================================
