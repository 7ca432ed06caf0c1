------------------------------- MODULE Bitmap -------------------------------
(***************************************************************************)
(* The bitmaps of bitmap.h: a vector of words that stands for a set of     *)
(* numbers, with the bits past its end implied to be zero.  A word is the  *)
(* set of its bits, 0 to BITS - 1; a null pointer is the empty vector.     *)
(***************************************************************************)
EXTENDS Integers, Sequences, FiniteSets, FiniteSetsExt, SequencesExt

CONSTANTS BITS,       \* BITS (uword)
          MAX_BITS,   \* bound: the bits that a user sets
          Operands    \* the second operands of and, andnot, or and xor

VARIABLES bitmap,     \* the vector of words
          members     \* history: the set that it stands for

vars == <<bitmap, members>>

Ones == 0 .. BITS - 1
NONE == -1            \* the ~0 that the code returns

-----------------------------------------------------------------------------
(* Words.                                                                  *)
pow2_mask(n) == 0 .. n - 1
Shl(w, n) == {b + n : b \in w} \cap Ones
Shr(w, n) == {b - n : b \in w} \cap Ones
log2_first_set(w) == Min(w)

(* Vectors of words: the code's index i is position i + 1.                 *)
Word(a, i) == a[i + 1]
InBitmap(a, i) == i < Len(a)
clib_bitmap_vec_validate(a, i) ==
  a \o [k \in 1 .. (IF i < Len(a) THEN 0 ELSE i + 1 - Len(a)) |-> {}]

_clib_bitmap_remove_trailing_zeros(a) ==
  SubSeq(a, 1, Max({0} \cup {k \in DOMAIN a : a[k] # {}}))

clib_bitmap_is_zero(a) == \A k \in DOMAIN a : a[k] = {}

(* Bitmaps of different lengths are not equal, zeros or not.               *)
clib_bitmap_is_equal(a, b) == a = b

clib_bitmap_alloc(n_bits) == [k \in 1 .. (n_bits + BITS - 1) \div BITS |-> {}]
clib_bitmap_zero(a) == [k \in DOMAIN a |-> {}]

-----------------------------------------------------------------------------
(* Single bits.                                                            *)
ClearedBit(w, i, value) == (w \ {i % BITS}) \cup (IF value THEN {i % BITS} ELSE {})

clib_bitmap_set_no_check(a, i, value) ==
  [a EXCEPT ![i \div BITS + 1] = ClearedBit(@, i, value)]

\* Mutant: the zeros at the end are removed when the first word is zero.
SetAndTrimAll(a, i, value) ==
  IF ~value /\ ~InBitmap(a, i \div BITS) THEN a
  ELSE LET s == clib_bitmap_set_no_check(clib_bitmap_vec_validate(a, i \div BITS), i, value)
       IN  IF Word(s, i \div BITS) = {} THEN SubSeq(s, 1, i \div BITS) ELSE s

clib_bitmap_set(a, i, value) ==
  IF ~value /\ ~InBitmap(a, i \div BITS) THEN a
  ELSE LET s == clib_bitmap_set_no_check(clib_bitmap_vec_validate(a, i \div BITS), i, value)
       IN  IF Word(s, i \div BITS) = {} THEN _clib_bitmap_remove_trailing_zeros(s) ELSE s

clib_bitmap_get(a, i) == InBitmap(a, i \div BITS) /\ i % BITS \in Word(a, i \div BITS)

-----------------------------------------------------------------------------
(* Several bits.                                                           *)

(* Whether there is one among n bits of a word: the bits themselves are    *)
(* not returned.                                                           *)
clib_bitmap_get_multiple_no_check(a, i, n) ==
  Shr(Word(a, i \div BITS), i % BITS) \cap pow2_mask(n) # {}

clib_bitmap_get_multiple(a, i, n) ==
  LET i0 == i \div BITS
      i1 == i % BITS
      first == IF InBitmap(a, i0)
               THEN Shr(Word(a, i0), i1) \cap (IF n < BITS THEN pow2_mask(n) ELSE Ones)
               ELSE {}
      second == IF i1 + n > BITS /\ InBitmap(a, i0 + 1)
                THEN Shl(Word(a, i0 + 1) \cap pow2_mask(n - (BITS - i1)), BITS - i1)
                ELSE {}
  IN  first \cup second

(* Zeros may be left at the end.                                           *)
clib_bitmap_set_multiple(a, i, value, n) ==
  LET i0 == i \div BITS
      i1 == i % BITS
      v == clib_bitmap_vec_validate(a, (i + n) \div BITS)
      m == IF n < BITS THEN pow2_mask(n) ELSE Ones
      low == [v EXCEPT ![i0 + 1] = (@ \ Shl(m, i1)) \cup Shl(value \cap m, i1)]
  IN  IF i1 + n > BITS /\ InBitmap(v, i0 + 1)
      THEN [low EXCEPT ![i0 + 2] = (@ \ pow2_mask(n - (BITS - i1)))
                                     \cup Shr(value \cap m, BITS - i1)]
      ELSE low

(* The first word, the words between, and what is left in the last one.    *)
(* If there are words between, what is left is counted from the end of the *)
(* first word and its mask is made by a shift by more than a word, which C *)
(* leaves open; x86 takes the count modulo the word, which is right.       *)
clib_bitmap_set_region(a, i, value, n) ==
  LET a0 == i \div BITS
      a1 == i % BITS
      b0 == (i + n) \div BITS
      v == clib_bitmap_vec_validate(a, b0)
      Changed(w, mask) == IF value THEN w \cup mask ELSE w \ mask
      first == Shl(IF n < BITS THEN pow2_mask(n) ELSE Ones, a1)
      last == pow2_mask((n - (BITS - a1)) % BITS)
  IN  [k \in DOMAIN v |->
         CASE k - 1 = a0 -> Changed(v[k], first)
           [] k - 1 > a0 /\ k - 1 < b0 -> Changed({}, Ones)
           [] k - 1 > a0 /\ k - 1 = b0 -> Changed(v[k], last)
           [] OTHER -> v[k]]

-----------------------------------------------------------------------------
(* The functions of two bitmaps, and of one bitmap and a bit number.  Only *)
(* "or" leaves zeros at the end.                                           *)
ALU(name, w, b) ==
  CASE name = "and" -> w \cap b
    [] name = "andnot" -> w \ b
    [] name = "or" -> w \cup b
    [] name = "xor" -> (w \ b) \cup (b \ w)

AluNames == {"and", "andnot", "or", "xor"}

clib_bitmap_alu(name, a, b) ==
  LET v == IF Len(b) > 0 THEN clib_bitmap_vec_validate(a, Len(b) - 1) ELSE a
      r == [k \in DOMAIN v |-> ALU(name, v[k], IF k <= Len(b) THEN b[k] ELSE {})]
  IN  IF name = "or" THEN r ELSE _clib_bitmap_remove_trailing_zeros(r)

(* andi, andnoti, ori and xori: only one word is looked at.                *)
clib_bitmap_alui(name, a, i) ==
  LET r == [clib_bitmap_vec_validate(a, i \div BITS)
              EXCEPT ![i \div BITS + 1] = ALU(name, @, {i % BITS})]
  IN  IF name # "or" /\ Word(r, i \div BITS) = {}
      THEN _clib_bitmap_remove_trailing_zeros(r) ELSE r

clib_bitmap_andnoti(a, i) == clib_bitmap_alui("andnot", a, i)
clib_bitmap_ori(a, i) == clib_bitmap_alui("or", a, i)

(* Any words, with the bits past n_bits - 1 cleared.                       *)
clib_bitmap_random(n_bits) ==
  IF n_bits = 0 THEN {<<>>}
  ELSE LET i0 == (n_bits - 1) \div BITS
           i1 == (n_bits - 1) % BITS
       IN  {w \in [1 .. i0 + 1 -> SUBSET Ones] : w[i0 + 1] \subseteq pow2_mask(i1 + 1)}

-----------------------------------------------------------------------------
(* Searches.                                                               *)
FirstIn(a, from, Candidates(_)) ==
  LET found == {k \in from .. Len(a) - 1 : Candidates(Word(a, k)) # {}}
  IN  IF found = {} THEN NONE
      ELSE Min(found) * BITS + log2_first_set(Candidates(Word(a, Min(found))))

Same(w) == w
Complement(w) == Ones \ w

clib_bitmap_first_set(a) == FirstIn(a, 0, Same)

clib_bitmap_first_clear(a) ==
  LET i == FirstIn(a, 0, Complement) IN IF i = NONE THEN Len(a) * BITS ELSE i

clib_bitmap_count_set_bits(a) == MapThenSumSet(LAMBDA k : Cardinality(a[k]), DOMAIN a)

clib_bitmap_next_set(a, i) ==
  IF ~InBitmap(a, i \div BITS) THEN NONE
  ELSE LET i0 == i \div BITS
           t == Shl(Shr(Word(a, i0), i % BITS), i % BITS)
       IN  IF t # {} THEN log2_first_set(t) + i0 * BITS ELSE FirstIn(a, i0 + 1, Same)

(* When every bit from i on is set, i is returned.                         *)
clib_bitmap_next_clear(a, i) ==
  IF ~InBitmap(a, i \div BITS) THEN i
  ELSE LET i0 == i \div BITS
           t == Shl(Shr(Complement(Word(a, i0)), i % BITS), i % BITS)
           later == FirstIn(a, i0 + 1, Complement)
       IN  IF t # {} THEN log2_first_set(t) + i0 * BITS
           ELSE IF later # NONE THEN later ELSE i

(* The bits in the order in which clib_bitmap_foreach visits them.         *)
clib_bitmap_foreach(a) ==
  FlattenSeq([k \in DOMAIN a |->
    SetToSortSeq({(k - 1) * BITS + b : b \in a[k]}, <)])

-----------------------------------------------------------------------------
Init == bitmap = <<>> /\ members = {}

ChangeBit ==
  \E i \in 0 .. MAX_BITS - 1, value \in BOOLEAN :
    /\ \/ bitmap' = clib_bitmap_set(bitmap, i, value)
       \/ InBitmap(bitmap, i \div BITS) /\ bitmap' = clib_bitmap_set_no_check(bitmap, i, value)
    /\ members' = IF value THEN members \cup {i} ELSE members \ {i}

ChangeMultiple ==
  \E n \in 0 .. BITS : \E i \in 0 .. MAX_BITS - n, value \in SUBSET Ones :
    LET bits == {i + b : b \in value \cap pow2_mask(n)}
    IN  /\ bitmap' = clib_bitmap_set_multiple(bitmap, i, value, n)
        /\ members' = (members \ (i .. i + n - 1)) \cup bits

ChangeRegion ==
  \E i \in 0 .. MAX_BITS - 1, value \in BOOLEAN :
    \E n \in 1 .. MAX_BITS - i :
      /\ bitmap' = clib_bitmap_set_region(bitmap, i, value, n)
      /\ members' = IF value THEN members \cup (i .. i + n - 1) ELSE members \ (i .. i + n - 1)

MembersOf(a) == UNION {{(k - 1) * BITS + b : b \in a[k]} : k \in DOMAIN a}

Combine ==
  \E name \in AluNames :
    \/ \E b \in Operands :
         /\ bitmap' = clib_bitmap_alu(name, bitmap, b)
         /\ members' = ALU(name, members, MembersOf(b))
    \/ \E i \in 0 .. MAX_BITS - 1 :
         /\ bitmap' = clib_bitmap_alui(name, bitmap, i)
         \* andi clears the other bits of one word only
         /\ members' = IF name = "and"
                       THEN {b \in members : b \div BITS = i \div BITS => b = i}
                       ELSE ALU(name, members, {i})

New ==
  \/ \E n \in 0 .. MAX_BITS :
       \/ bitmap' = clib_bitmap_alloc(n) /\ members' = {}
       \/ bitmap' \in clib_bitmap_random(n) /\ members' = MembersOf(bitmap')
  \/ bitmap' = clib_bitmap_zero(bitmap) /\ members' = {}

Next == ChangeBit \/ ChangeMultiple \/ ChangeRegion \/ Combine \/ New

Spec == Init /\ [][Next]_vars

-----------------------------------------------------------------------------
(* Whatever was done to a bitmap, and however many zero words it carries,  *)
(* its functions answer for the set that it stands for.  Of next_clear     *)
(* this holds where some bit of the vector from i on is clear.             *)
StandsForSet ==
  LET clear == (0 .. Len(bitmap) * BITS) \ members
  IN  /\ \A i \in 0 .. MAX_BITS + BITS : clib_bitmap_get(bitmap, i) <=> i \in members
      /\ clib_bitmap_count_set_bits(bitmap) = Cardinality(members)
      /\ clib_bitmap_is_zero(bitmap) <=> members = {}
      /\ clib_bitmap_first_set(bitmap) = Min(members \cup IF members = {} THEN {NONE} ELSE {})
      /\ clib_bitmap_first_clear(bitmap) = Min(clear)
      /\ clib_bitmap_foreach(bitmap) = SetToSortSeq(members, <)
      /\ \A i \in 0 .. Len(bitmap) * BITS - 1 :
           LET next == {b \in members : b >= i}
               next_clear == {b \in clear : b >= i /\ b < Len(bitmap) * BITS}
           IN  /\ clib_bitmap_next_set(bitmap, i) = IF next = {} THEN NONE ELSE Min(next)
               /\ next_clear # {} => clib_bitmap_next_clear(bitmap, i) = Min(next_clear)
      /\ \A n \in 0 .. BITS : \A i \in 0 .. MAX_BITS - n :
           clib_bitmap_get_multiple(bitmap, i, n) = {b - i : b \in members \cap (i .. i + n - 1)}
      /\ \A n \in 1 .. BITS : \A i \in 0 .. Len(bitmap) * BITS - 1 :
           (i % BITS) + n <= BITS =>
             (clib_bitmap_get_multiple_no_check(bitmap, i, n) <=> members \cap (i .. i + n - 1) # {})
      /\ \A b \in Operands : clib_bitmap_is_equal(bitmap, b) => members = MembersOf(b)
=============================================================================
