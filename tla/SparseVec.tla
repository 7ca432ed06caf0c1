----------------------------- MODULE SparseVec ------------------------------
(***************************************************************************)
(* The sparse vectors of sparse_vec.h: a bitmap tells which indices have   *)
(* an element, and the element's place in the vector is the number of      *)
(* members before it, counted word by word in member_counts.  Place 0 is   *)
(* for indices that have no element.  Words are sets of bits.              *)
(***************************************************************************)
EXTENDS Integers, Sequences, FiniteSets, SequencesExt

CONSTANTS BITS,      \* BITS (uword)
          WORDS,     \* words of the bitmap: 1 << (sparse_index_bits - log2 (BITS))
          Values     \* what a user writes to an element

VARIABLES sv,        \* the vector and its header
          set_elts   \* history: the elements a user has written, by index

vars == <<sv, set_elts>>

Indices == 0 .. BITS * WORDS - 1
INVALID == 0

sparse_vec_new ==
  [elts |-> <<INVALID>>, is_member_bitmap |-> [i \in 0 .. WORDS - 1 |-> {}],
   member_counts |-> [i \in 0 .. WORDS - 1 |-> 0]]

WordOf(si) == si \div BITS
BitOf(si) == si % BITS
IsMember(v, si) == BitOf(si) \in v.is_member_bitmap[WordOf(si)]

(* d of sparse_vec_index_internal: the members before this one.            *)
PlaceBefore(v, si) ==
  v.member_counts[WordOf(si)]
    + Cardinality({b \in v.is_member_bitmap[WordOf(si)] : b < BitOf(si)})

sparse_vec_index(v, si) == IF IsMember(v, si) THEN 1 + PlaceBefore(v, si) ELSE INVALID

(* sparse_vec_index2 guesses that at most one bit is before each and       *)
(* corrects both when one guess was wrong.                                 *)
sparse_vec_index2(v, si0, si1) ==
  LET before(si) == {b \in v.is_member_bitmap[WordOf(si)] : b < BitOf(si)}
      guess(si) == IF before(si) # {} THEN 1 ELSE 0
      corrected == \E si \in {si0, si1} : Cardinality(before(si)) > 1
      d(si) == v.member_counts[WordOf(si)] + guess(si)
                 + IF corrected THEN Cardinality(before(si)) - guess(si) ELSE 0
      i(si) == IF IsMember(v, si) THEN 1 + d(si) ELSE INVALID
  IN  <<i(si0), i(si1)>>

\* Mutant: the members of the words after it are not counted.
NotCounted(v, si) ==
  IF IsMember(v, si) THEN v
  ELSE [v EXCEPT !.elts = InsertAt(@, PlaceBefore(v, si) + 2, 0),
                 !.is_member_bitmap[WordOf(si)] = @ \cup {BitOf(si)}]

(* sparse_vec_validate: room is made for a new member, and the members of  *)
(* the words after it are counted.                                         *)
sparse_vec_validate(v, si) ==
  IF IsMember(v, si) THEN v
  ELSE [elts |-> InsertAt(v.elts, PlaceBefore(v, si) + 2, 0),
        is_member_bitmap |-> [v.is_member_bitmap EXCEPT ![WordOf(si)] = @ \cup {BitOf(si)}],
        member_counts |-> [i \in DOMAIN v.member_counts |->
          IF i > WordOf(si) THEN v.member_counts[i] + 1 ELSE v.member_counts[i]]]

Init == sv = sparse_vec_new /\ set_elts = <<>>

(* A user writes to the element that sparse_vec_validate returns.          *)
Write ==
  \E si \in Indices, value \in Values :
    LET v == sparse_vec_validate(sv, si)
    IN  /\ sv' = [v EXCEPT !.elts[PlaceBefore(v, si) + 2] = value]
        /\ set_elts' = [j \in DOMAIN set_elts \cup {si} |-> IF j = si THEN value ELSE set_elts[j]]

Free ==
  /\ sv' = sparse_vec_new
  /\ set_elts' = <<>>

Next == Write \/ Free

Spec == Init /\ [][Next]_vars

-----------------------------------------------------------------------------
(* Whatever is inserted before it, an index leads to the element that was  *)
(* written for it, or to the invalid one; looking up two indices at once   *)
(* gives the same as one by one.                                           *)
FindsWhatWasSet ==
  /\ Len(sv.elts) = 1 + Cardinality(DOMAIN set_elts)
  /\ \A si \in Indices :
       IF si \in DOMAIN set_elts
       THEN sparse_vec_index(sv, si) # INVALID /\ sv.elts[sparse_vec_index(sv, si) + 1] = set_elts[si]
       ELSE sparse_vec_index(sv, si) = INVALID
  /\ \A si0, si1 \in Indices :
       sparse_vec_index2(sv, si0, si1) = <<sparse_vec_index(sv, si0), sparse_vec_index(sv, si1)>>
=============================================================================
