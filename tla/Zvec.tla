-------------------------------- MODULE Zvec --------------------------------
(***************************************************************************)
(* The compressed vectors of zvec.c.  A coding is a word 2^c_0 + ... +     *)
(* 2^c_n; here it is the set of the c_i.  Numbers below 2^c_0 are written  *)
(* with c_0 bits after a 1, the next 2^c_1 numbers with c_1 bits after a 0 *)
(* and a 1, and so on; the last class needs no 1.  The coding is chosen so *)
(* that the values of a histogram take the fewest bits.                    *)
(*                                                                         *)
(* Codes are sequences of bits, the lowest first.  The special coding 0,   *)
(* which writes whole words, is left out.                                  *)
(***************************************************************************)
EXTENDS Integers, Sequences, FiniteSets, FiniteSetsExt, SequencesExt

CONSTANTS Histograms,        \* the counts of the values 0, 1, 2, ...
          MAX_DATA           \* bound: values in a vector

VARIABLES histogram, coding, \* what the coding was chosen for, and the coding
          is_signed,         \* the data's type
          zvec,              \* the bits
          encoded,           \* history: the data that was encoded
          decoded            \* [data, zvec_n_bits]: what was decoded so far

vars == <<histogram, coding, is_signed, zvec, encoded, decoded>>

Number(C) == SumSet({2^c : c \in C})

(* -1, -2, ... are written as 1, 3, ...; zvec_unsigned_to_signed takes 1   *)
(* for 0 and 3 for -1.                                                     *)
zvec_signed_to_unsigned(s) == IF s < 0 THEN -(2 * s + 1) ELSE 2 * s
zvec_unsigned_to_signed(u) == IF u % 2 = 1 THEN -(u \div 2) ELSE u \div 2

get_data(x) == IF is_signed THEN zvec_signed_to_unsigned(x) ELSE x
put_data(u) == IF is_signed THEN zvec_unsigned_to_signed(u) ELSE u

Bits(x, n) == [k \in 1 .. n |-> (x \div 2^(k - 1)) % 2]
Value(z, n) == FoldLeft(LAMBDA x, k : x + z[k] * 2^(k - 1), 0, [k \in 1 .. n |-> k])

\* Mutant: the 1 is written in the last class too.
AlwaysEnded(C) == <<1>>

(* explicit_end: all classes but the last one end with a 1.                *)
EndBit(C) == IF Cardinality(C) = 1 THEN <<>> ELSE <<1>>

RECURSIVE zvec_encode(_, _)
zvec_encode(C, data) ==
  LET c == Min(C)
  IN  IF data < 2^c \/ C = {c} THEN EndBit(C) \o Bits(data, c)
      ELSE <<0>> \o zvec_encode(C \ {c}, data - 2^c)

(* The value and the number of bits it took.                               *)
RECURSIVE zvec_decode(_, _)
zvec_decode(C, z) ==
  LET c == Min(C)
      More(r) == [v |-> 2^c + r.v, n |-> 1 + r.n]
  IN  IF C = {c} THEN [v |-> Value(z, c), n |-> c]
      ELSE IF z[1] = 1 THEN [v |-> Value(Tail(z), c), n |-> c + 1]
      ELSE More(zvec_decode(C \ {c}, Tail(z)))

(* The most bits a value takes: as many as a code of zeros.                *)
coding_max_n_bits(C) == Cardinality(C) - 1 + Max(C)

-----------------------------------------------------------------------------
(* counts: how many values of the histogram are less than n.               *)
CountBelow(h, n) == FoldLeft(LAMBDA s, k : s + h[k], 0, [k \in 1 .. Min({n, Len(h)}) |-> k])

(* The loop of zvec_coding_bits over the classes; it ends at the first one *)
(* that no value is in.                                                    *)
RECURSIVE BitsFrom(_, _, _, _)
BitsFrom(h, C, i, n_type_bits) ==
  LET b == Min(C)
      count == CountBelow(h, i + 2^b) - CountBelow(h, i)
      type_bits == IF C = {b} THEN n_type_bits - 1 ELSE n_type_bits
  IN  IF C = {} \/ count = 0 THEN 0
      ELSE count * (type_bits + b) + BitsFrom(h, C \ {b}, i + 2^b, n_type_bits + 1)

zvec_coding_bits(h, C) == BitsFrom(h, C, 0, 1)

(* The exponents of a number, and the codings that are tried: large enough *)
(* for the histogram, less than max_coding and of at most eight bits.      *)
Exponents(n) == {c \in 0 .. 10 : (n \div 2^c) % 2 = 1}
max_coding(h) == Min({p \in {2^k : k \in 0 .. 10} : p >= 2 * Len(h)})
Codings(h) ==
  {C \in {Exponents(n) : n \in Len(h) .. max_coding(h) - 1} : Cardinality(C) <= 8}

(* Codings are tried by their number of bits and then in order, and one is *)
(* taken if it is better than all before it.                               *)
TriedBefore(C, D) ==
  \/ Cardinality(C) < Cardinality(D)
  \/ Cardinality(C) = Cardinality(D) /\ Number(C) < Number(D)

_zvec_coding_from_histogram(h) ==
  LET AmongBest(best) == CHOOSE C \in best : \A D \in best \ {C} : TriedBefore(C, D)
      Best(bits) == AmongBest({C \in DOMAIN bits : \A D \in DOMAIN bits : bits[C] <= bits[D]})
  IN  Best([C \in Codings(h) |-> zvec_coding_bits(h, C)])

-----------------------------------------------------------------------------
Init ==
  /\ histogram \in Histograms
  /\ coding = _zvec_coding_from_histogram(histogram)
  /\ is_signed \in BOOLEAN
  /\ zvec = <<>> /\ encoded = <<>> /\ decoded = [data |-> <<>>, n_bits |-> 0]

(* What the assertion of zvec_encode admits.                               *)
Data == IF is_signed THEN {x \in -8 .. 8 : zvec_signed_to_unsigned(x) < Number(coding)}
        ELSE 0 .. Number(coding) - 1

(* zvec_encode_inline appends the code with clib_bitmap_set_multiple.      *)
Encode ==
  \E x \in Data :
    /\ Len(encoded) < MAX_DATA
    /\ encoded' = Append(encoded, x)
    /\ zvec' = zvec \o zvec_encode(coding, get_data(x))
    /\ UNCHANGED <<histogram, coding, is_signed, decoded>>

(* clib_bitmap_get_multiple: bits that are not in the vector are zero.     *)
GetMultiple(i, n) == [k \in 1 .. n |-> IF i + k \in DOMAIN zvec THEN zvec[i + k] ELSE 0]

Decode ==
  LET After(r) == [data |-> Append(decoded.data, put_data(r.v)), n_bits |-> decoded.n_bits + r.n]
  IN  /\ Len(decoded.data) < Len(encoded)
      /\ decoded' = After(zvec_decode(coding, GetMultiple(decoded.n_bits, coding_max_n_bits(coding))))
      /\ UNCHANGED <<histogram, coding, is_signed, zvec, encoded>>

Next == Encode \/ Decode

Spec == Init /\ [][Next]_vars

-----------------------------------------------------------------------------
(* Bits of all the histogram's values, each encoded.                       *)
BitsUsed(C) ==
  FoldLeft(LAMBDA s, k : s + histogram[k] * Len(zvec_encode(C, k - 1)), 0,
           [k \in DOMAIN histogram |-> k])

(* No code is the beginning of another: a decoder that is given the bits   *)
(* after the last code gets back the data that are not negative, at the    *)
(* places where they were written.  Of negative data, on which the two     *)
(* conversions disagree (zvec.h:124-141), only the places are right.  The  *)
(* coding is the best of all that can write the histogram's values, and    *)
(* min_coding_bits is what it takes.                                       *)
DecodesWhatWasEncoded ==
  /\ \A k \in DOMAIN decoded.data : encoded[k] >= 0 => decoded.data[k] = encoded[k]
  /\ Len(decoded.data) = Len(encoded) => decoded.n_bits = Len(zvec)
  /\ zvec = <<>> =>
       /\ zvec_coding_bits(histogram, coding) = BitsUsed(coding)
       /\ \A n \in Len(histogram) .. 2 * Len(histogram) : BitsUsed(Exponents(n)) >= BitsUsed(coding)
=============================================================================
