--------------------------- MODULE SmpFifoProofs ---------------------------
(***************************************************************************)
(* A clib_smp_fifo_t with at most two writers and at most two readers is   *)
(* correct for every size from two elements on and wherever its indices    *)
(* wrap: FifoInv is an inductive invariant of SmpFifo, the assertions of   *)
(* smp_fifo.h and exclusive use of the elements follow from it, and the    *)
(* fifo implements SlotQueue.                                              *)
(***************************************************************************)
EXTENDS SmpFifo, FiniteSetTheorems, SequenceTheorems, ArithmeticTheorems, TLAPS

AtMostTwo(S) == \A a, b, c \in S : a = b \/ b = c \/ a = c

(* The index i as a number of elements since the start at index f, and the *)
(* slot of the k'th of these elements.                                     *)
Since(f, i) == Wrap(i - f)
SlotAt(f, k) == (f + k) % max_n_elts

Writing(w) == pc[w] \in {"write_mark", "write_data", "write_done"}
Reading(r) == pc[r] \in {"read_mark", "read_done"}
Claiming(w) == pc[w] \in {"check_full", "write_state", "write_cas"}
Fetching(r) == pc[r] \in {"check_empty", "read_state", "read_cas"}

TypeInv ==
  /\ TypeOK
  /\ \A w \in Writers : pc[w] \in WriterPCs
  /\ \A r \in Readers : pc[r] \in ReaderPCs

(* Elements written or being written by w.                                 *)
Share(w) == serial[w] + (IF Writing(w) THEN 1 ELSE 0)

(* As many elements as fit are in the fifo, no index has gone all the way  *)
(* round since the start, and what a CPU remembers is not ahead.           *)
IndexInv(f) ==
  /\ Since(f, read_index) <= Since(f, write_index)
  /\ Since(f, write_index) <= Since(f, read_index) + max_n_elts
  /\ \A v, w \in Writers :
       Writers \subseteq {v, w} => Since(f, write_index) <= Share(v) + Share(w)
  /\ \A w \in Writers : Writing(w) => serial[w] < MaxSerial
  /\ \A w \in Writers : Claiming(w) =>
       serial[w] < MaxSerial /\ Since(f, index0[w]) <= Since(f, write_index)
  /\ \A r \in Readers : Fetching(r) => Since(f, index0[r]) <= Since(f, read_index)

(* The element of a writer is in the fifo, the one of a reader is not and  *)
(* its place has not been claimed again.                                   *)
UseInv(f) ==
  /\ \A w \in Writers : Writing(w) =>
       /\ Since(f, read_index) <= Since(f, index0[w])
       /\ Since(f, index0[w]) < Since(f, write_index)
  /\ \A r \in Readers : Reading(r) =>
       /\ Since(f, index0[r]) < Since(f, read_index)
       /\ Since(f, write_index) <= Since(f, index0[r]) + max_n_elts
  /\ \A v, w \in Writers : Writing(v) /\ Writing(w) /\ index0[v] = index0[w] => v = w
  /\ \A q, r \in Readers : Reading(q) /\ Reading(r) /\ index0[q] = index0[r] => q = r

(* The footers say how far the CPU is that uses the element; without one   *)
(* it is done in the fifo and free outside.                                *)
StateInv(f) ==
  /\ \A w \in Writers :
       /\ pc[w] = "write_mark" => state[MySlot(w)] = FREE
       /\ pc[w] \in {"write_data", "write_done"} => state[MySlot(w)] = WRITE_ALLOC
  /\ \A r \in Readers :
       /\ pc[r] = "read_mark" => state[MySlot(r)] = WRITE_DONE
       /\ pc[r] = "read_done" => state[MySlot(r)] = READ_FETCH
  /\ \A k \in Since(f, read_index) .. Since(f, write_index) - 1 :
       (\A w \in Writers : Writing(w) => Since(f, index0[w]) # k)
         => state[SlotAt(f, k)] = WRITE_DONE
  /\ \A k \in Since(f, write_index) - max_n_elts .. Since(f, read_index) - 1 :
       (\A r \in Readers : Reading(r) => Since(f, index0[r]) # k)
         => state[SlotAt(f, k)] = FREE

(* What a CPU has seen while the index it remembers is still the index:    *)
(* before its swap the element is there and nobody uses it; before it      *)
(* looks at the state, that state is not one about to be marked.           *)
WriterSeen(f, w) ==
  /\ pc[w] = "write_cas" /\ index0[w] = write_index =>
       /\ Since(f, write_index) < Since(f, read_index) + max_n_elts
       /\ state[MySlot(w)] = FREE
       /\ \A r \in Readers : Reading(r) =>
            Since(f, index0[r]) # Since(f, write_index) - max_n_elts
  /\ pc[w] = "write_state" /\ index0[w] = write_index =>
       \A v \in Writers : pc[v] = "write_mark" =>
         Since(f, index0[v]) # Since(f, write_index) - max_n_elts
ReaderSeen(f, r) ==
  /\ pc[r] = "read_cas" /\ index0[r] = read_index =>
       /\ Since(f, read_index) < Since(f, write_index)
       /\ state[MySlot(r)] = WRITE_DONE
       /\ \A w \in Writers : Writing(w) => index0[w] # read_index
  /\ pc[r] = "read_state" /\ index0[r] = read_index =>
       \A q \in Readers : pc[q] = "read_mark" =>
         Since(f, index0[q]) # Since(f, read_index) - max_n_elts

(* A CPU whose index has been passed was passed by the other one, whose    *)
(* element, if it still has one, is therefore the latest.                  *)
WriterPassed(f, w) ==
  Claiming(w) /\ index0[w] # write_index =>
    \A v \in Writers : Writing(v) => Since(f, index0[v]) = Since(f, write_index) - 1
ReaderPassed(f, r) ==
  Fetching(r) /\ index0[r] # read_index =>
    \A q \in Readers : Reading(q) => Since(f, index0[q]) = Since(f, read_index) - 1

SeenInv(f) ==
  /\ \A w \in Writers : WriterSeen(f, w) /\ WriterPassed(f, w)
  /\ \A r \in Readers : ReaderSeen(f, r) /\ ReaderPassed(f, r)

(* What is in the elements, and who claimed those that are being written.  *)
DataInv(f) ==
  /\ \A w \in Writers : Writing(w) => claimer[MySlot(w)] = w
  /\ \A w \in Writers : pc[w] = "write_done" => data[MySlot(w)] = Element(w, serial[w])
  /\ \A r \in Readers : Reading(r) => data[MySlot(r)] \in Elements
  /\ \A k \in Since(f, read_index) .. Since(f, write_index) - 1 :
       state[SlotAt(f, k)] = WRITE_DONE => data[SlotAt(f, k)] \in Elements

FifoInvAt(f) ==
  /\ TypeInv /\ IndexInv(f) /\ UseInv(f) /\ StateInv(f) /\ SeenInv(f) /\ DataInv(f)
FifoInv == \E f \in FirstIndices : FifoInvAt(f)

-----------------------------------------------------------------------------
(* Indices relative to the start.                                          *)
Span == 2 ^ IndexBits

LEMMA RangeType ==
  /\ Span \in Nat \ {0} /\ max_n_elts \in Nat \ {0}
  /\ Indices = 0 .. Span - 1 /\ Slots = 0 .. max_n_elts - 1
  /\ \A i : Wrap(i) = i % Span
BY PowersOfTwo DEF Span, Indices, Slots, max_n_elts_less_one, Wrap

LEMMA WrapNear ==
  ASSUME NEW x \in Int, -Span <= x, x < 2 * Span
  PROVE  Wrap(x) = IF x < 0 THEN x + Span ELSE IF x < Span THEN x ELSE x - Span
<1>1. Span \in Nat \ {0}
  BY RangeType
<1>2. Wrap(x) = x % Span
  BY RangeType
<1>3. /\ 0 <= x /\ x < Span => x % Span = x
      /\ -Span <= x /\ x < 0 => x % Span = x + Span
      /\ Span <= x /\ x < 2 * Span => x % Span = x - Span
  BY <1>1, ModNear, Zenon
<1> QED BY <1>1, <1>2, <1>3

LEMMA SinceType ==
  ASSUME NEW f \in Indices, NEW i \in Indices
  PROVE  /\ Since(f, i) \in Nat /\ Since(f, i) < Span
         /\ Since(f, i) = IF f <= i THEN i - f ELSE i - f + Span
<1>1. f \in 0 .. Span - 1 /\ i \in 0 .. Span - 1 /\ Span \in Nat
  BY RangeType
<1> DEFINE x == i - f
<1>2. x \in Int /\ -Span <= x /\ x < Span /\ x < 2 * Span
  BY <1>1
<1> HIDE DEF x
<1>3. Wrap(x) = IF x < 0 THEN x + Span ELSE IF x < Span THEN x ELSE x - Span
  BY <1>2, WrapNear, Zenon
<1> QED BY <1>1, <1>2, <1>3 DEF Since, x

LEMMA SinceInjective ==
  ASSUME NEW f \in Indices, NEW i \in Indices, NEW j \in Indices
  PROVE  Since(f, i) = Since(f, j) => i = j
<1>1. f \in 0 .. Span - 1 /\ i \in 0 .. Span - 1 /\ j \in 0 .. Span - 1 /\ Span \in Nat
  BY RangeType
<1>2. Since(f, i) = IF f <= i THEN i - f ELSE i - f + Span
  BY SinceType
<1>3. Since(f, j) = IF f <= j THEN j - f ELSE j - f + Span
  BY SinceType
<1> QED BY <1>1, <1>2, <1>3

LEMMA SinceStart == ASSUME NEW f \in Indices PROVE Since(f, f) = 0
<1>1. f \in 0 .. Span - 1 /\ Span \in Nat
  BY RangeType
<1>2. Since(f, f) = IF f <= f THEN f - f ELSE f - f + Span
  BY SinceType
<1> QED BY <1>1, <1>2

(* An index that is advanced in 32 bits, short of a full turn.             *)
LEMMA SinceStep ==
  ASSUME NEW f \in Indices, NEW i \in Indices, Since(f, i) + 1 < Span
  PROVE  Wrap(i + 1) \in Indices /\ Since(f, Wrap(i + 1)) = Since(f, i) + 1
<1>0. f \in 0 .. Span - 1 /\ i \in 0 .. Span - 1 /\ Span \in Nat \ {0} /\ i + 1 \in Int
  BY RangeType
<1>1. Wrap(i + 1) = IF i + 1 = Span THEN 0 ELSE i + 1
  <2> DEFINE x == i + 1
  <2>1. x \in Int /\ -Span <= x /\ x < 2 * Span /\ 0 <= x /\ x <= Span
    BY <1>0
  <2> HIDE DEF x
  <2>2. Wrap(x) = IF x < 0 THEN x + Span ELSE IF x < Span THEN x ELSE x - Span
    BY <2>1, WrapNear, Zenon
  <2> QED BY <1>0, <2>1, <2>2 DEF x
<1>2. Wrap(i + 1) \in 0 .. Span - 1
  BY <1>0, <1>1
<1>3. Wrap(i + 1) \in Indices
  BY <1>2, RangeType
<1>4. Since(f, i) = IF f <= i THEN i - f ELSE i - f + Span
  BY SinceType
<1>5. Since(f, Wrap(i + 1))
        = IF f <= Wrap(i + 1) THEN Wrap(i + 1) - f ELSE Wrap(i + 1) - f + Span
  BY <1>3, SinceType
<1> QED BY <1>0, <1>1, <1>3, <1>4, <1>5

(* The unsigned difference of two indices.                                 *)
LEMMA SinceDistance ==
  ASSUME NEW f \in Indices, NEW i \in Indices, NEW j \in Indices
  PROVE  /\ Since(f, j) <= Since(f, i) => Wrap(i - j) = Since(f, i) - Since(f, j)
         /\ Wrap(i - j) = 0 => i = j
<1>0. f \in 0 .. Span - 1 /\ i \in 0 .. Span - 1 /\ j \in 0 .. Span - 1 /\ Span \in Nat
  BY RangeType
<1>1. Wrap(i - j) = IF j <= i THEN i - j ELSE i - j + Span
  BY SinceType DEF Since
<1>2. Since(f, i) = IF f <= i THEN i - f ELSE i - f + Span
  BY SinceType
<1>3. Since(f, j) = IF f <= j THEN j - f ELSE j - f + Span
  BY SinceType
<1> QED BY <1>0, <1>1, <1>2, <1>3

(* Elements of the ring.                                                   *)
LEMMA SlotAtType ==
  ASSUME NEW f \in Indices, NEW k \in Int
  PROVE  SlotAt(f, k) \in Slots /\ SlotAt(f, k + max_n_elts) = SlotAt(f, k)
<1>1. f + k \in Int /\ f + (k + max_n_elts) = (f + k) + max_n_elts
  BY RangeType
<1>2. (f + k) % max_n_elts \in Slots
  BY <1>1, RangeType, DivMod
<1>3. ((f + k) + max_n_elts) % max_n_elts = (f + k) % max_n_elts
  BY <1>1, RangeType, ModPlus
<1> QED BY <1>1, <1>2, <1>3 DEF SlotAt

LEMMA SlotAtApart ==
  ASSUME NEW f \in Indices, NEW j \in Int, NEW k \in Int,
         j # k, j < k + max_n_elts, k < j + max_n_elts
  PROVE  SlotAt(f, j) # SlotAt(f, k)
<1> DEFINE a == f + j
           b == f + k
<1>1. f \in Int /\ max_n_elts \in Nat \ {0}
  BY RangeType
<1>2. a \in Int /\ b \in Int /\ a # b /\ a < b + max_n_elts /\ b < a + max_n_elts
  BY <1>1
<1> HIDE DEF a, b
<1>3. a < b => a % max_n_elts # b % max_n_elts
  BY <1>1, <1>2, ModApart, Zenon
<1>4. b < a => b % max_n_elts # a % max_n_elts
  BY <1>1, <1>2, ModApart, Zenon
<1>5. a % max_n_elts # b % max_n_elts
  BY <1>2, <1>3, <1>4
<1> QED BY <1>5 DEF SlotAt, a, b

(* The slot does not change where the index wraps.                         *)
LEMMA SlotOfAny ==
  ASSUME NEW f \in Indices, NEW i \in Indices, NEW k \in Int
  PROVE  SlotOf(i + k) = SlotAt(f, Since(f, i) + k)
<1> DEFINE q == Span \div max_n_elts
           x == i + k
<1>0. f \in 0 .. Span - 1 /\ i \in 0 .. Span - 1 /\ Span \in Nat /\ max_n_elts \in Nat \ {0}
  BY RangeType
<1>1. Span = max_n_elts * q + (Span % max_n_elts) /\ q \in Int
  <2>1. Span \in Int
    BY <1>0
  <2>2. /\ Span = max_n_elts * (Span \div max_n_elts) + (Span % max_n_elts)
        /\ Span \div max_n_elts \in Int
    BY <1>0, <2>1, DivMod, Zenon
  <2> QED BY <2>2
<1>2. Span % max_n_elts = 0
  BY PowersOfTwo DEF Span
<1>3. Since(f, i) = IF f <= i THEN i - f ELSE i - f + Span
  BY SinceType
<1>4. x \in Int /\ Span = max_n_elts * q
  BY <1>0, <1>1, <1>2
<1> HIDE DEF q
<1>5. CASE f <= i
  <2>1. f + (Since(f, i) + k) = i + k
    BY <1>0, <1>3, <1>5
  <2> QED BY <2>1 DEF SlotOf, SlotAt
<1>6. CASE i < f
  <2>1. f + (Since(f, i) + k) = x + Span
    BY <1>0, <1>3, <1>6
  <2> HIDE DEF x
  <2>2. (x + max_n_elts * q) % max_n_elts = x % max_n_elts
    BY <1>0, <1>1, <1>4, ModShift
  <2> QED BY <2>1, <2>2, <1>4 DEF SlotOf, SlotAt, x
<1> QED BY <1>0, <1>5, <1>6

LEMMA SlotOfIndex ==
  ASSUME NEW f \in Indices, NEW i \in Indices
  PROVE  SlotOf(i) = SlotAt(f, Since(f, i)) /\ SlotOf(i) \in Slots
<1>1. SlotOf(i + 0) = SlotAt(f, Since(f, i) + 0)
  BY SlotOfAny
<1>2. i \in Int /\ Since(f, i) \in Int
  BY SinceType, RangeType
<1>3. i + 0 = i /\ Since(f, i) + 0 = Since(f, i)
  BY <1>2
<1> QED BY <1>1, <1>2, <1>3, SlotAtType

-----------------------------------------------------------------------------
(* What the invariant says about the places of CPUs and elements.          *)
CPUs == Writers \cup Readers

LEMMA Places ==
  ASSUME NEW f \in FirstIndices, TypeInv
  PROVE  /\ f \in Indices /\ max_n_elts \in Nat \ {0}
         /\ Since(f, write_index) \in Nat /\ Since(f, write_index) < Span
         /\ Since(f, read_index) \in Nat
         /\ \A c \in CPUs :
              /\ Since(f, index0[c]) \in Nat
              /\ MySlot(c) = SlotAt(f, Since(f, index0[c])) /\ MySlot(c) \in Slots
              /\ Since(f, index0[c]) = Since(f, write_index) => index0[c] = write_index
              /\ Since(f, index0[c]) = Since(f, read_index) => index0[c] = read_index
              /\ \A d \in CPUs :
                   Since(f, index0[c]) = Since(f, index0[d]) => index0[c] = index0[d]
<1>1. f \in Indices
  BY SmpFifoAssumption
<1>2. write_index \in Indices /\ read_index \in Indices /\ \A c \in CPUs : index0[c] \in Indices
  BY DEF TypeInv, TypeOK, CPUs
<1>3. \A i \in Indices : /\ Since(f, i) \in Nat /\ Since(f, i) < Span
                         /\ SlotOf(i) = SlotAt(f, Since(f, i)) /\ SlotOf(i) \in Slots
  BY <1>1, SinceType, SlotOfIndex
<1>4. \A i, j \in Indices : Since(f, i) = Since(f, j) => i = j
  BY <1>1, SinceInjective
<1>5. max_n_elts \in Nat \ {0}
  BY RangeType
<1> QED BY <1>1, <1>2, <1>3, <1>4, <1>5 DEF MySlot

(* An element in use is one of the last that fit, so that no other of      *)
(* these shares its slot.                                                  *)
LEMMA OtherSlots ==
  ASSUME NEW f \in FirstIndices, TypeInv, IndexInv(f), UseInv(f),
         NEW c \in CPUs, UsesSlot(c)
  PROVE  /\ Since(f, index0[c]) \in Since(f, write_index) - max_n_elts .. Since(f, write_index) - 1
         /\ \A k \in Since(f, write_index) - max_n_elts .. Since(f, write_index) - 1 :
              k # Since(f, index0[c]) => SlotAt(f, k) # MySlot(c)
         /\ Since(f, index0[c]) # Since(f, write_index) - max_n_elts
              => SlotAt(f, Since(f, write_index)) # MySlot(c)
<1> DEFINE W == Since(f, write_index)
           R == Since(f, read_index)
           I == Since(f, index0[c])
           N == max_n_elts
<1>1. W \in Nat /\ R \in Nat /\ I \in Nat /\ N \in Nat \ {0} /\ f \in Indices
      /\ MySlot(c) = SlotAt(f, I)
  BY Places
<1>2. R <= W /\ W <= R + N
  BY DEF IndexInv
<1>3. (R <= I /\ I < W) \/ (I < R /\ W <= I + N)
  BY DEF UsesSlot, UseInv, Writing, Reading
<1> HIDE DEF W, R, I, N
<1>4. I \in W - N .. W - 1
  BY <1>1, <1>2, <1>3
<1>5. ASSUME NEW k \in Int, k # I, k < I + N, I < k + N
      PROVE  SlotAt(f, k) # SlotAt(f, I)
  <2>1. I \in Int
    BY <1>1
  <2> QED BY <1>1, <1>5, <2>1, SlotAtApart, Zenon DEF N
<1>6. ASSUME NEW k \in W - N .. W - 1, k # I
      PROVE  SlotAt(f, k) # SlotAt(f, I)
  <2>1. k \in Int /\ k < I + N /\ I < k + N
    BY <1>1, <1>4
  <2> QED BY <2>1, <1>5, <1>6
<1>7. ASSUME I # W - N
      PROVE  SlotAt(f, W) # SlotAt(f, I)
  <2>1. W \in Int /\ W # I /\ W < I + N /\ I < W + N
    BY <1>1, <1>4, <1>7
  <2> QED BY <2>1, <1>5
<1> QED BY <1>1, <1>4, <1>6, <1>7 DEF W, R, I, N

(* No index goes all the way round.                                        *)
LEMMA RoomToAdvance ==
  ASSUME AtMostTwo(Writers), NEW f \in FirstIndices, TypeInv, IndexInv(f),
         NEW w \in Writers
  PROVE  Since(f, write_index) + 1 < Span
<1>1. PICK v \in Writers : Writers \subseteq {v, w}
  BY DEF AtMostTwo
<1>2. Share(v) \in Nat /\ Share(w) \in Nat /\ Share(v) <= MaxSerial /\ Share(w) <= MaxSerial
  BY SmpFifoAssumption DEF TypeInv, TypeOK, Share, IndexInv
<1>3. Since(f, write_index) <= Share(v) + Share(w)
  BY <1>1 DEF IndexInv
<1>4. Cardinality(Writers) \in Nat /\ Cardinality(Writers) # 0
  BY SmpFifoAssumption, FS_CardinalityType, FS_EmptySet
<1>5. 2 * Cardinality(Writers) * MaxSerial + max_n_elts < Span /\ MaxSerial \in Nat
  BY SmpFifoAssumption DEF Span
<1>6. Span \in Nat /\ max_n_elts \in Nat \ {0} /\ Since(f, write_index) \in Nat
  BY RangeType, Places
<1> DEFINE n == Cardinality(Writers)
<1> HIDE DEF n
<1>7. 2 * MaxSerial <= 2 * n * MaxSerial
  <2>1. n \in Nat \ {0} /\ MaxSerial \in Nat
    BY <1>4, <1>5 DEF n
  <2> DEFINE p == n - 1
  <2>2. p \in Nat /\ n = p + 1
    BY <2>1
  <2> HIDE DEF p
  <2>3. p * MaxSerial \in Nat
    BY <2>1, <2>2
  <2>4. 2 * (p + 1) * MaxSerial = 2 * (p * MaxSerial) + 2 * MaxSerial
    BY <2>1, <2>2
  <2> QED BY <2>1, <2>2, <2>3, <2>4
<1> DEFINE t == 2 * n * MaxSerial
<1>8. t \in Int /\ 2 * MaxSerial <= t
  BY <1>4, <1>5, <1>7 DEF n
<1>9. t + max_n_elts < Span
  BY <1>5 DEF n
<1> HIDE DEF t
<1> QED BY <1>2, <1>3, <1>5, <1>6, <1>8, <1>9

-----------------------------------------------------------------------------
(* Types.                                                                  *)
LEMMA WrapType == \A i \in Indices : Wrap(i + 1) \in Indices
<1> SUFFICES ASSUME NEW i \in Indices PROVE Wrap(i + 1) \in Indices
  OBVIOUS
<1> DEFINE x == i + 1
<1>1. x \in Int /\ Span \in Nat \ {0}
  BY RangeType
<1> HIDE DEF x
<1>2. x % Span \in 0 .. Span - 1
  BY <1>1, DivMod, Zenon
<1> QED BY <1>2, RangeType DEF x

LEMMA WriterTypes ==
  ASSUME TypeInv, NEW f, IndexInv(f), NEW w \in Writers, WriteStep(w)
  PROVE  TypeInv'
<1> USE SmpFifoAssumption DEF TypeInv, TypeOK, Goto, Keep, Return, Mark, WriterPCs, ReaderPCs,
                 States, FREE, WRITE_ALLOC, WRITE_DONE, READ_FETCH
<1>z. 0 \in Indices
  BY RangeType
<1>1. CASE WriteAlloc(w)
  BY <1>1 DEF WriteAlloc
<1>2. CASE CheckFull(w)
  BY <1>z, <1>2 DEF CheckFull
<1>3. CASE WriteState(w)
  BY <1>z, <1>3 DEF WriteState
<1>4. CASE WriteSwap(w)
  <2>1. Wrap(index0[w] + 1) \in Indices
    BY WrapType
  <2> QED BY <2>1, <1>4 DEF WriteSwap
<1>5. CASE WriteMark(w)
  BY <1>5 DEF WriteMark
<1>6. CASE WriteData(w)
  <2>1. serial[w] \in 0 .. MaxSerial - 1
    BY <1>6 DEF WriteData, IndexInv, Writing
  <2>2. Element(w, serial[w]) \in Elements
    BY <2>1 DEF Element, Elements
  <2> QED BY <2>2, <1>6 DEF WriteData
<1>7. CASE WriteDone(w)
  <2>1. serial[w] + 1 \in 0 .. MaxSerial
    BY <1>7 DEF WriteDone, IndexInv, Writing
  <2> QED BY <2>1, <1>z, <1>7 DEF WriteDone
<1> QED BY <1>1, <1>2, <1>3, <1>4, <1>5, <1>6, <1>7 DEF WriteStep

LEMMA ReaderTypes ==
  ASSUME TypeInv, NEW r \in Readers, ReadStep(r)
  PROVE  TypeInv'
<1> USE SmpFifoAssumption DEF TypeInv, TypeOK, Goto, Keep, Return, Mark, WriterPCs, ReaderPCs,
                 States, FREE, WRITE_ALLOC, WRITE_DONE, READ_FETCH
<1>z. 0 \in Indices
  BY RangeType
<1>1. CASE ReadFetch(r)
  BY <1>1 DEF ReadFetch
<1>2. CASE CheckEmpty(r)
  BY <1>z, <1>2 DEF CheckEmpty
<1>3. CASE ReadState(r)
  BY <1>z, <1>3 DEF ReadState
<1>4. CASE ReadSwap(r)
  <2>1. Wrap(index0[r] + 1) \in Indices
    BY WrapType
  <2> QED BY <2>1, <1>4 DEF ReadSwap
<1>5. CASE ReadMark(r)
  BY <1>5 DEF ReadMark
<1>6. CASE ReadDone(r)
  BY <1>z, <1>6 DEF ReadDone
<1> QED BY <1>1, <1>2, <1>3, <1>4, <1>5, <1>6 DEF ReadStep

-----------------------------------------------------------------------------
(* Most steps only change what one CPU that uses no element remembers.     *)
Quiet(c) ==
  /\ UNCHANGED <<write_index, read_index, state, data, serial, claimer>>
  /\ \A d \in CPUs \ {c} : pc'[d] = pc[d] /\ index0'[d] = index0[d]
  /\ ~UsesSlot(c) /\ ~UsesSlot(c)'

LEMMA QuietKeeps ==
  ASSUME NEW f \in FirstIndices, FifoInvAt(f), TypeInv', NEW c \in CPUs, Quiet(c)
  PROVE  /\ UseInv(f)' /\ StateInv(f)' /\ DataInv(f)'
         /\ \A w \in Writers \ {c} : (WriterSeen(f, w) /\ WriterPassed(f, w))'
         /\ \A r \in Readers \ {c} : (ReaderSeen(f, r) /\ ReaderPassed(f, r))'
         /\ (/\ \A w \in Writers : c = w /\ Claiming(w)' =>
                  serial[w] < MaxSerial /\ Since(f, index0[w])' <= Since(f, write_index)
             /\ \A r \in Readers : c = r /\ Fetching(r)' =>
                  Since(f, index0[r])' <= Since(f, read_index))
            => IndexInv(f)'
<1> USE DEF FifoInvAt
<1>1. UNCHANGED <<write_index, read_index, state, data, serial, claimer>>
  BY DEF Quiet
<1>2. \A w \in Writers : /\ Writing(w)' <=> Writing(w)
                         /\ Writing(w) => pc'[w] = pc[w] /\ index0'[w] = index0[w] /\ MySlot(w)' = MySlot(w)
                         /\ Writing(w) => Since(f, index0[w])' = Since(f, index0[w])
                         /\ pc'[w] = "write_mark" <=> pc[w] = "write_mark"
                         /\ pc[w] = "write_mark" => Writing(w)
  BY SmpFifoAssumption DEF Quiet, UsesSlot, Writing, CPUs, MySlot, Since
<1>3. \A r \in Readers : /\ Reading(r)' <=> Reading(r)
                         /\ Reading(r) => pc'[r] = pc[r] /\ index0'[r] = index0[r] /\ MySlot(r)' = MySlot(r)
                         /\ Reading(r) => Since(f, index0[r])' = Since(f, index0[r])
                         /\ pc'[r] = "read_mark" <=> pc[r] = "read_mark"
                         /\ pc[r] = "read_mark" => Reading(r)
  BY SmpFifoAssumption DEF Quiet, UsesSlot, Reading, CPUs, MySlot, Since
<1>0. /\ Since(f, write_index)' = Since(f, write_index)
      /\ Since(f, read_index)' = Since(f, read_index)
  BY <1>1 DEF Since
<1>4. UseInv(f)'
  BY <1>1, <1>2, <1>3 DEF UseInv, Since
<1>5. StateInv(f)'
  BY <1>1, <1>2, <1>3 DEF StateInv, Since, SlotAt, Writing, Reading
<1>6. DataInv(f)'
  BY <1>1, <1>2, <1>3 DEF DataInv, Since, SlotAt, Writing, Reading
<1>7. ASSUME NEW w \in Writers \ {c}
      PROVE  (WriterSeen(f, w) /\ WriterPassed(f, w))'
  <2>1. pc'[w] = pc[w] /\ index0'[w] = index0[w] /\ MySlot(w)' = MySlot(w)
    BY DEF Quiet, CPUs, MySlot
  <2>2. WriterSeen(f, w) /\ WriterPassed(f, w)
    BY DEF SeenInv
  <2>3. WriterPassed(f, w)'
    BY <1>1, <1>2, <2>1, <2>2 DEF WriterPassed, Claiming, Since
  <2>4. WriterSeen(f, w)'
    BY <1>0, <1>1, <1>2, <1>3, <2>1, <2>2 DEF WriterSeen
  <2> QED BY <2>3, <2>4
<1>8. ASSUME NEW r \in Readers \ {c}
      PROVE  (ReaderSeen(f, r) /\ ReaderPassed(f, r))'
  <2>1. pc'[r] = pc[r] /\ index0'[r] = index0[r] /\ MySlot(r)' = MySlot(r)
    BY DEF Quiet, CPUs, MySlot
  <2>2. ReaderSeen(f, r) /\ ReaderPassed(f, r)
    BY DEF SeenInv
  <2>3. ReaderPassed(f, r)'
    BY <1>1, <1>3, <2>1, <2>2 DEF ReaderPassed, Fetching, Since
  <2>4. ReaderSeen(f, r)'
    BY <1>0, <1>1, <1>2, <1>3, <2>1, <2>2 DEF ReaderSeen
  <2> QED BY <2>3, <2>4
<1>9. ASSUME \A w \in Writers : c = w /\ Claiming(w)' =>
               serial[w] < MaxSerial /\ Since(f, index0[w])' <= Since(f, write_index),
             \A r \in Readers : c = r /\ Fetching(r)' =>
               Since(f, index0[r])' <= Since(f, read_index)
      PROVE  IndexInv(f)'
  <2>1. \A w \in Writers \ {c} : pc'[w] = pc[w] /\ index0'[w] = index0[w]
    BY DEF Quiet, CPUs
  <2>2. \A r \in Readers \ {c} : pc'[r] = pc[r] /\ index0'[r] = index0[r]
    BY DEF Quiet, CPUs
  <2>3. \A w \in Writers : Share(w)' = Share(w)
    BY <1>1, <1>2 DEF Share
  <2>4. \A w \in Writers : Claiming(w)' =>
          serial'[w] < MaxSerial /\ Since(f, index0[w])' <= Since(f, write_index)'
    BY <1>1, <2>1, <1>9 DEF IndexInv, Since, Claiming
  <2>5. \A r \in Readers : Fetching(r)' => Since(f, index0[r])' <= Since(f, read_index)'
    BY <1>1, <2>2, <1>9 DEF IndexInv, Since, Fetching
  <2> QED BY <1>1, <1>2, <2>3, <2>4, <2>5 DEF IndexInv, Since
<1> QED BY <1>4, <1>5, <1>6, <1>7, <1>8, <1>9

(* A writer that has not claimed an element yet takes a step.              *)
LEMMA WriterQuiet ==
  ASSUME NEW f \in FirstIndices, FifoInvAt(f), TypeInv', NEW w \in Writers, Quiet(w),
         Claiming(w)' => serial[w] < MaxSerial /\ Since(f, index0[w])' <= Since(f, write_index),
         WriterSeen(f, w)', WriterPassed(f, w)'
  PROVE  FifoInvAt(f)'
<1>1. w \in CPUs /\ w \notin Readers
  BY SmpFifoAssumption DEF CPUs
<1>2. /\ UseInv(f)' /\ StateInv(f)' /\ DataInv(f)' /\ IndexInv(f)'
      /\ \A v \in Writers \ {w} : (WriterSeen(f, v) /\ WriterPassed(f, v))'
      /\ \A r \in Readers \ {w} : (ReaderSeen(f, r) /\ ReaderPassed(f, r))'
  BY <1>1, QuietKeeps
<1> QED BY <1>1, <1>2 DEF FifoInvAt, SeenInv

LEMMA ReaderQuiet ==
  ASSUME NEW f \in FirstIndices, FifoInvAt(f), TypeInv', NEW r \in Readers, Quiet(r),
         Fetching(r)' => Since(f, index0[r])' <= Since(f, read_index),
         ReaderSeen(f, r)', ReaderPassed(f, r)'
  PROVE  FifoInvAt(f)'
<1>1. r \in CPUs /\ r \notin Writers
  BY SmpFifoAssumption DEF CPUs
<1>2. /\ UseInv(f)' /\ StateInv(f)' /\ DataInv(f)' /\ IndexInv(f)'
      /\ \A v \in Writers \ {r} : (WriterSeen(f, v) /\ WriterPassed(f, v))'
      /\ \A q \in Readers \ {r} : (ReaderSeen(f, q) /\ ReaderPassed(f, q))'
  BY <1>1, QuietKeeps
<1> QED BY <1>1, <1>2 DEF FifoInvAt, SeenInv

LEMMA WriteAllocStep ==
  ASSUME NEW f \in FirstIndices, FifoInvAt(f), TypeInv', NEW w \in Writers, WriteAlloc(w)
  PROVE  FifoInvAt(f)'
<1>1. TypeInv
  BY DEF FifoInvAt
<1>2. /\ pc[w] = "idle" /\ serial[w] < MaxSerial
      /\ pc'[w] = "check_full" /\ index0'[w] = write_index
      /\ write_index' = write_index
  BY <1>1 DEF WriteAlloc, Goto, Keep, TypeInv, TypeOK
<1>3. Quiet(w)
  BY <1>1, <1>2, SmpFifoAssumption
    DEF WriteAlloc, Goto, Keep, TypeInv, TypeOK, Quiet, UsesSlot, CPUs
<1>4. Since(f, index0[w])' <= Since(f, write_index)
  BY <1>1, <1>2, Places DEF Since
<1>5. WriterSeen(f, w)' /\ WriterPassed(f, w)'
  BY <1>2 DEF WriterSeen, WriterPassed
<1> QED BY <1>2, <1>3, <1>4, <1>5, WriterQuiet

(* The fifo is not full: no other writer is a whole turn behind.           *)
LEMMA CheckFullStep ==
  ASSUME NEW f \in FirstIndices, FifoInvAt(f), TypeInv', NEW w \in Writers, CheckFull(w)
  PROVE  FifoInvAt(f)'
<1>1. TypeInv /\ IndexInv(f) /\ UseInv(f) /\ WriterPassed(f, w)
  BY DEF FifoInvAt, SeenInv
<1>2. /\ pc[w] = "check_full"
      /\ \/ pc'[w] = "idle"
         \/ pc'[w] = "write_state" /\ index0'[w] = index0[w] /\ ~Full(index0[w])
      /\ write_index' = write_index /\ read_index' = read_index
  BY <1>1 DEF CheckFull, Goto, Return, Keep, TypeInv, TypeOK
<1>3. Quiet(w)
  BY <1>1, <1>2, SmpFifoAssumption
    DEF CheckFull, Goto, Keep, Return, TypeInv, TypeOK, Quiet, UsesSlot, CPUs
<1>4. Claiming(w)' => serial[w] < MaxSerial /\ Since(f, index0[w])' <= Since(f, write_index)
  BY <1>1, <1>2 DEF Since, Claiming, IndexInv
<1>5. \A v \in Writers : Writing(v)' = Writing(v) /\ (Writing(v) => index0'[v] = index0[v])
                         /\ (pc'[v] = "write_mark" => Writing(v))
  BY <1>3, SmpFifoAssumption DEF Quiet, UsesSlot, Writing, CPUs
<1>6. WriterPassed(f, w)'
  BY <1>1, <1>2, <1>5 DEF WriterPassed, Claiming, Since
<1>7. WriterSeen(f, w)'
  <2>1. ASSUME pc'[w] = "write_state", index0'[w] = write_index', NEW v \in Writers, Writing(v)
        PROVE  Since(f, index0[v]) # Since(f, write_index) - max_n_elts
    <3>1. Wrap(write_index - read_index) <= max_n_elts - 1
      <4>1. ~(Wrap(write_index - read_index) > max_n_elts_less_one)
        BY <2>1, <1>2 DEF Full
      <4>2. write_index \in Indices /\ read_index \in Indices
        BY <1>1 DEF TypeInv, TypeOK
      <4>3. Wrap(write_index - read_index) \in Nat
        BY <4>2, SinceType DEF Since
      <4> QED BY <4>1, <4>3, RangeType DEF max_n_elts_less_one
    <3>2. Wrap(write_index - read_index) = Since(f, write_index) - Since(f, read_index)
      BY <1>1, Places, SinceDistance DEF IndexInv, TypeInv, TypeOK
    <3>3. Since(f, read_index) <= Since(f, index0[v]) /\ v \in CPUs
      BY <1>1, <2>1 DEF UseInv, CPUs
    <3> QED BY <1>1, <3>1, <3>2, <3>3, Places
  <2> QED BY <1>2, <1>5, <2>1 DEF WriterSeen, Since
<1> QED BY <1>3, <1>4, <1>6, <1>7, WriterQuiet

(* A free element that no writer is about to mark is outside the fifo, and *)
(* nobody uses it.                                                         *)
LEMMA WriteStateStep ==
  ASSUME NEW f \in FirstIndices, FifoInvAt(f), TypeInv', NEW w \in Writers, WriteState(w)
  PROVE  FifoInvAt(f)'
<1>1. /\ TypeInv /\ IndexInv(f) /\ UseInv(f) /\ StateInv(f)
      /\ WriterSeen(f, w) /\ WriterPassed(f, w)
  BY DEF FifoInvAt, SeenInv
<1>2. /\ pc[w] = "write_state"
      /\ \/ pc'[w] = "idle"
         \/ pc'[w] = "write_cas" /\ index0'[w] = index0[w] /\ state[MySlot(w)] = FREE
      /\ write_index' = write_index /\ read_index' = read_index /\ state' = state
  BY <1>1 DEF WriteState, MayWrite, Goto, Return, Keep, TypeInv, TypeOK
<1>3. Quiet(w)
  BY <1>1, <1>2, SmpFifoAssumption
    DEF WriteState, Goto, Keep, Return, TypeInv, TypeOK, Quiet, UsesSlot, CPUs
<1>4. Claiming(w)' => serial[w] < MaxSerial /\ Since(f, index0[w])' <= Since(f, write_index)
  BY <1>1, <1>2 DEF Since, Claiming, IndexInv
<1>5. \A v \in Writers : Writing(v)' = Writing(v) /\ (Writing(v) => index0'[v] = index0[v])
  BY <1>3, SmpFifoAssumption DEF Quiet, UsesSlot, Writing, CPUs
<1>6. \A r \in Readers : Reading(r)' = Reading(r) /\ (Reading(r) => index0'[r] = index0[r])
  BY <1>3, SmpFifoAssumption DEF Quiet, UsesSlot, Reading, CPUs
<1>7. WriterPassed(f, w)'
  BY <1>1, <1>2, <1>5 DEF WriterPassed, Claiming, Since
<1>8. WriterSeen(f, w)'
  <2> SUFFICES ASSUME pc'[w] = "write_cas", index0'[w] = write_index'
               PROVE  /\ Since(f, write_index) < Since(f, read_index) + max_n_elts
                      /\ state[MySlot(w)] = FREE
                      /\ \A r \in Readers : Reading(r) =>
                           Since(f, index0[r]) # Since(f, write_index) - max_n_elts
    BY <1>2, <1>6 DEF WriterSeen, MySlot, Since
  <2> DEFINE W == Since(f, write_index)
             R == Since(f, read_index)
             N == max_n_elts
  <2>1. index0[w] = write_index /\ state[MySlot(w)] = FREE
    BY <1>2
  <2>2. /\ W \in Nat /\ R \in Nat /\ N \in Nat \ {0} /\ f \in Indices
        /\ \A c \in CPUs : Since(f, index0[c]) \in Nat /\ MySlot(c) = SlotAt(f, Since(f, index0[c]))
        /\ w \in CPUs
    BY <1>1, Places DEF CPUs
  <2>3. R <= W /\ W <= R + N
    BY <1>1 DEF IndexInv
  <2>4. SlotAt(f, W - N) = MySlot(w)
    <3> DEFINE k == W - N
    <3>1. k \in Int /\ k + N = W
      BY <2>2
    <3> HIDE DEF k
    <3>2. SlotAt(f, k + max_n_elts) = SlotAt(f, k)
      BY <3>1, <2>2, SlotAtType, Zenon
    <3> QED BY <3>1, <3>2, <2>1, <2>2 DEF k
  <2>5. \A v \in Writers : pc[v] = "write_mark" => Since(f, index0[v]) # W - N
    BY <1>1, <1>2, <2>1 DEF WriterSeen
  <2>6. ASSUME NEW c \in CPUs, UsesSlot(c)
        PROVE  Since(f, index0[c]) # W - N
    <3> SUFFICES ASSUME Since(f, index0[c]) = W - N
                 PROVE  FALSE
      OBVIOUS
    <3>1. state[MySlot(c)] = FREE
      BY <2>1, <2>2, <2>4
    <3> QED BY <1>1, <3>1, <2>5, <2>6
          DEF UsesSlot, StateInv, FREE, WRITE_ALLOC, WRITE_DONE, READ_FETCH
  <2>7. W # R + N
    <3> SUFFICES ASSUME W = R + N PROVE FALSE
      OBVIOUS
    <3>1. R \in R .. W - 1 /\ R = W - N
      BY <2>2
    <3>2. \A v \in Writers : Writing(v) => Since(f, index0[v]) # R
      BY <2>6, <3>1 DEF UsesSlot, Writing, CPUs
    <3>3. state[SlotAt(f, R)] = WRITE_DONE
      BY <1>1, <3>1, <3>2 DEF StateInv
    <3> QED BY <2>1, <2>4, <3>1, <3>3 DEF FREE, WRITE_DONE
  <2>8. \A r \in Readers : Reading(r) => Since(f, index0[r]) # W - N
    BY <2>6 DEF UsesSlot, Reading, CPUs
  <2>9. W < R + N
    BY <2>2, <2>3, <2>7
  <2> QED BY <2>1, <2>8, <2>9
<1> QED BY <1>3, <1>4, <1>7, <1>8, WriterQuiet

(* The swap fails: the other writer claimed the element before this one,   *)
(* and of a ring of two or more that is not the next.                      *)
LEMMA WriteSwapFails ==
  ASSUME max_n_elts >= 2, NEW f \in FirstIndices, FifoInvAt(f), TypeInv',
         NEW w \in Writers, WriteSwap(w), write_index # index0[w]
  PROVE  FifoInvAt(f)'
<1>1. TypeInv /\ IndexInv(f) /\ UseInv(f) /\ WriterPassed(f, w)
  BY DEF FifoInvAt, SeenInv
<1>2. /\ pc[w] = "write_cas"
      /\ pc'[w] = "write_state" /\ index0'[w] = write_index
      /\ write_index' = write_index /\ read_index' = read_index
  BY <1>1 DEF WriteSwap, Goto, Keep, TypeInv, TypeOK
<1>3. Quiet(w)
  BY <1>1, <1>2, SmpFifoAssumption
    DEF WriteSwap, Goto, Keep, TypeInv, TypeOK, Quiet, UsesSlot, CPUs
<1>4. serial[w] < MaxSerial /\ Since(f, index0[w])' <= Since(f, write_index)
  BY <1>1, <1>2, Places DEF Since, Claiming, IndexInv
<1>5. \A v \in Writers : (pc'[v] = "write_mark" => Writing(v)) /\ (Writing(v) => index0'[v] = index0[v])
  BY <1>3, SmpFifoAssumption DEF Quiet, UsesSlot, Writing, CPUs
<1>6. \A v \in Writers : Writing(v) => Since(f, index0[v]) = Since(f, write_index) - 1
  BY <1>1, <1>2 DEF WriterPassed, Claiming
<1>7. Since(f, write_index) - 1 # Since(f, write_index) - max_n_elts
  BY <1>1, Places
<1>8. WriterSeen(f, w)' /\ WriterPassed(f, w)'
  BY <1>2, <1>5, <1>6, <1>7 DEF WriterSeen, WriterPassed, Since
<1> QED BY <1>3, <1>4, <1>8, WriterQuiet

LEMMA ReadFetchStep ==
  ASSUME NEW f \in FirstIndices, FifoInvAt(f), TypeInv', NEW r \in Readers, ReadFetch(r)
  PROVE  FifoInvAt(f)'
<1>1. TypeInv
  BY DEF FifoInvAt
<1>2. /\ pc[r] = "idle" /\ pc'[r] = "check_empty" /\ index0'[r] = read_index
      /\ read_index' = read_index
  BY <1>1 DEF ReadFetch, Goto, Keep, TypeInv, TypeOK
<1>3. Quiet(r)
  BY <1>1, <1>2, SmpFifoAssumption
    DEF ReadFetch, Goto, Keep, TypeInv, TypeOK, Quiet, UsesSlot, CPUs
<1>4. Since(f, index0[r])' <= Since(f, read_index)
  BY <1>1, <1>2, Places DEF Since
<1>5. ReaderSeen(f, r)' /\ ReaderPassed(f, r)'
  BY <1>2 DEF ReaderSeen, ReaderPassed
<1> QED BY <1>3, <1>4, <1>5, ReaderQuiet

(* The fifo is not empty: no other reader is a whole turn behind.          *)
LEMMA CheckEmptyStep ==
  ASSUME NEW f \in FirstIndices, FifoInvAt(f), TypeInv', NEW r \in Readers, CheckEmpty(r)
  PROVE  FifoInvAt(f)'
<1>1. TypeInv /\ IndexInv(f) /\ UseInv(f) /\ ReaderPassed(f, r)
  BY DEF FifoInvAt, SeenInv
<1>2. /\ pc[r] = "check_empty"
      /\ \/ pc'[r] = "idle"
         \/ pc'[r] = "read_state" /\ index0'[r] = index0[r] /\ Wrap(write_index - index0[r]) # 0
      /\ write_index' = write_index /\ read_index' = read_index
  BY <1>1 DEF CheckEmpty, Goto, Return, Keep, TypeInv, TypeOK
<1>3. Quiet(r)
  BY <1>1, <1>2, SmpFifoAssumption
    DEF CheckEmpty, Goto, Keep, Return, TypeInv, TypeOK, Quiet, UsesSlot, CPUs
<1>4. Fetching(r)' => Since(f, index0[r])' <= Since(f, read_index)
  BY <1>1, <1>2 DEF Since, Fetching, IndexInv
<1>5. \A q \in Readers : Reading(q)' = Reading(q) /\ (Reading(q) => index0'[q] = index0[q])
                         /\ (pc'[q] = "read_mark" => Reading(q))
  BY <1>3, SmpFifoAssumption DEF Quiet, UsesSlot, Reading, CPUs
<1>6. ReaderPassed(f, r)'
  BY <1>1, <1>2, <1>5 DEF ReaderPassed, Fetching, Since
<1>7. ReaderSeen(f, r)'
  <2>1. ASSUME pc'[r] = "read_state", index0'[r] = read_index', NEW q \in Readers, Reading(q)
        PROVE  Since(f, index0[q]) # Since(f, read_index) - max_n_elts
    <3>1. Wrap(write_index - read_index) # 0
      BY <1>2, <2>1
    <3>2. Wrap(write_index - read_index) = Since(f, write_index) - Since(f, read_index)
      BY <1>1, Places, SinceDistance DEF IndexInv, TypeInv, TypeOK
    <3>3. /\ Since(f, write_index) <= Since(f, index0[q]) + max_n_elts /\ q \in CPUs
          /\ Since(f, read_index) <= Since(f, write_index)
      BY <1>1, <2>1 DEF UseInv, CPUs, IndexInv
    <3> QED BY <1>1, <3>1, <3>2, <3>3, Places
  <2> QED BY <1>2, <1>5, <2>1 DEF ReaderSeen, Since
<1> QED BY <1>3, <1>4, <1>6, <1>7, ReaderQuiet

(* A finished element that no reader is about to mark is in the fifo, and  *)
(* nobody uses it.                                                         *)
LEMMA ReadStateStep ==
  ASSUME NEW f \in FirstIndices, FifoInvAt(f), TypeInv', NEW r \in Readers, ReadState(r)
  PROVE  FifoInvAt(f)'
<1>1. /\ TypeInv /\ IndexInv(f) /\ UseInv(f) /\ StateInv(f)
      /\ ReaderSeen(f, r) /\ ReaderPassed(f, r)
  BY DEF FifoInvAt, SeenInv
<1>2. /\ pc[r] = "read_state"
      /\ \/ pc'[r] = "idle"
         \/ pc'[r] = "read_cas" /\ index0'[r] = index0[r] /\ state[MySlot(r)] = WRITE_DONE
      /\ write_index' = write_index /\ read_index' = read_index /\ state' = state
  BY <1>1 DEF ReadState, MayRead, Goto, Return, Keep, TypeInv, TypeOK
<1>3. Quiet(r)
  BY <1>1, <1>2, SmpFifoAssumption
    DEF ReadState, Goto, Keep, Return, TypeInv, TypeOK, Quiet, UsesSlot, CPUs
<1>4. Fetching(r)' => Since(f, index0[r])' <= Since(f, read_index)
  BY <1>1, <1>2 DEF Since, Fetching, IndexInv
<1>5. \A w \in Writers : Writing(w)' = Writing(w) /\ (Writing(w) => index0'[w] = index0[w])
  BY <1>3, SmpFifoAssumption DEF Quiet, UsesSlot, Writing, CPUs
<1>6. \A q \in Readers : Reading(q)' = Reading(q) /\ (Reading(q) => index0'[q] = index0[q])
  BY <1>3, SmpFifoAssumption DEF Quiet, UsesSlot, Reading, CPUs
<1>7. ReaderPassed(f, r)'
  BY <1>1, <1>2, <1>6 DEF ReaderPassed, Fetching, Since
<1>8. ReaderSeen(f, r)'
  <2> SUFFICES ASSUME pc'[r] = "read_cas", index0'[r] = read_index'
               PROVE  /\ Since(f, read_index) < Since(f, write_index)
                      /\ state[MySlot(r)] = WRITE_DONE
                      /\ \A w \in Writers : Writing(w) => index0[w] # read_index
    BY <1>2, <1>5 DEF ReaderSeen, MySlot, Since
  <2> DEFINE W == Since(f, write_index)
             R == Since(f, read_index)
             N == max_n_elts
  <2>1. index0[r] = read_index /\ state[MySlot(r)] = WRITE_DONE
    BY <1>2
  <2>2. /\ W \in Nat /\ R \in Nat /\ N \in Nat \ {0} /\ f \in Indices
        /\ \A c \in CPUs : Since(f, index0[c]) \in Nat /\ MySlot(c) = SlotAt(f, Since(f, index0[c]))
        /\ r \in CPUs
    BY <1>1, Places DEF CPUs
  <2>3. R <= W
    BY <1>1 DEF IndexInv
  <2>4. SlotAt(f, R - N) = MySlot(r)
    <3> DEFINE k == R - N
    <3>1. k \in Int /\ k + N = R
      BY <2>2
    <3> HIDE DEF k
    <3>2. SlotAt(f, k + max_n_elts) = SlotAt(f, k)
      BY <3>1, <2>2, SlotAtType, Zenon
    <3> QED BY <3>1, <3>2, <2>1, <2>2 DEF k
  <2>5. \A q \in Readers : pc[q] = "read_mark" => Since(f, index0[q]) # R - N
    BY <1>1, <1>2, <2>1 DEF ReaderSeen
  <2>6. W # R
    <3> SUFFICES ASSUME W = R PROVE FALSE
      OBVIOUS
    <3>1. R - N \in W - N .. R - 1
      BY <2>2
    <3>2. ASSUME NEW q \in Readers, Reading(q)
          PROVE  Since(f, index0[q]) # R - N
      <4> SUFFICES ASSUME Since(f, index0[q]) = R - N
                   PROVE  FALSE
        OBVIOUS
      <4>1. state[MySlot(q)] = WRITE_DONE
        BY <2>1, <2>2, <2>4 DEF CPUs
      <4> QED BY <1>1, <4>1, <2>5, <3>2 DEF Reading, StateInv, WRITE_DONE, READ_FETCH
    <3>3. state[SlotAt(f, R - N)] = FREE
      BY <1>1, <3>1, <3>2 DEF StateInv
    <3> QED BY <2>1, <2>4, <3>3 DEF FREE, WRITE_DONE
  <2>7. \A w \in Writers : Writing(w) => index0[w] # read_index
    BY <1>1, <2>1 DEF StateInv, Writing, MySlot, FREE, WRITE_ALLOC, WRITE_DONE
  <2>8. R < W
    BY <2>2, <2>3, <2>6
  <2> QED BY <2>1, <2>7, <2>8
<1> QED BY <1>3, <1>4, <1>7, <1>8, ReaderQuiet

(* The swap fails: the other reader took the element before this one.      *)
LEMMA ReadSwapFails ==
  ASSUME max_n_elts >= 2, NEW f \in FirstIndices, FifoInvAt(f), TypeInv',
         NEW r \in Readers, ReadSwap(r), read_index # index0[r]
  PROVE  FifoInvAt(f)'
<1>1. TypeInv /\ ReaderPassed(f, r)
  BY DEF FifoInvAt, SeenInv
<1>2. /\ pc[r] = "read_cas"
      /\ pc'[r] = "read_state" /\ index0'[r] = read_index
      /\ write_index' = write_index /\ read_index' = read_index
  BY <1>1 DEF ReadSwap, Goto, Keep, TypeInv, TypeOK
<1>3. Quiet(r)
  BY <1>1, <1>2, SmpFifoAssumption
    DEF ReadSwap, Goto, Keep, TypeInv, TypeOK, Quiet, UsesSlot, CPUs
<1>4. Since(f, index0[r])' <= Since(f, read_index)
  BY <1>1, <1>2, Places DEF Since
<1>5. \A q \in Readers : (pc'[q] = "read_mark" => Reading(q)) /\ (Reading(q) => index0'[q] = index0[q])
  BY <1>3, SmpFifoAssumption DEF Quiet, UsesSlot, Reading, CPUs
<1>6. \A q \in Readers : Reading(q) => Since(f, index0[q]) = Since(f, read_index) - 1
  BY <1>1, <1>2 DEF ReaderPassed, Fetching
<1>7. Since(f, read_index) - 1 # Since(f, read_index) - max_n_elts
  BY <1>1, Places
<1>8. ReaderSeen(f, r)' /\ ReaderPassed(f, r)'
  BY <1>2, <1>5, <1>6, <1>7 DEF ReaderSeen, ReaderPassed, Since
<1> QED BY <1>3, <1>4, <1>8, ReaderQuiet

-----------------------------------------------------------------------------
(* The writer claims the element at the write index.                       *)
LEMMA WriteSwapStep ==
  ASSUME AtMostTwo(Writers), NEW f \in FirstIndices, FifoInvAt(f), TypeInv',
         NEW w \in Writers, WriteSwap(w), write_index = index0[w]
  PROVE  FifoInvAt(f)'
<1> DEFINE W == Since(f, write_index)
           R == Since(f, read_index)
           I(c) == Since(f, index0[c])
           N == max_n_elts
<1>1. /\ TypeInv /\ IndexInv(f) /\ UseInv(f) /\ StateInv(f) /\ SeenInv(f) /\ DataInv(f)
  BY DEF FifoInvAt
<1>2. /\ pc[w] = "write_cas" /\ pc'[w] = "write_mark"
      /\ \A c \in CPUs \ {w} : pc'[c] = pc[c]
      /\ write_index' = Wrap(write_index + 1)
      /\ claimer' = [claimer EXCEPT ![MySlot(w)] = w]
      /\ UNCHANGED <<read_index, index0, state, data, serial>>
  BY <1>1 DEF WriteSwap, Goto, TypeInv, TypeOK, CPUs
<1>3. /\ f \in Indices /\ N \in Nat \ {0} /\ W \in Nat /\ R \in Nat
      /\ \A c \in CPUs : I(c) \in Nat /\ MySlot(c) = SlotAt(f, I(c)) /\ MySlot(c) \in Slots
  BY <1>1, Places
<1>4. W' = W + 1 /\ R' = R /\ (\A c : I(c)' = I(c) /\ MySlot(c)' = MySlot(c))
  <2>1. W + 1 < Span
    BY <1>1, RoomToAdvance
  <2>2. write_index \in Indices
    BY <1>1 DEF TypeInv, TypeOK
  <2>3. Since(f, Wrap(write_index + 1)) = W + 1
    BY <2>1, <2>2, <1>3, SinceStep
  <2> QED BY <1>2, <2>3 DEF Since, MySlot
<1>5. /\ W < R + N /\ state[MySlot(w)] = FREE
      /\ \A r \in Readers : Reading(r) => I(r) # W - N
  BY <1>1, <1>2 DEF SeenInv, WriterSeen
<1>6. /\ I(w) = W /\ w \in CPUs /\ w \notin Readers /\ Writing(w)' /\ ~Writing(w) /\ ~Claiming(w)'
      /\ \A v \in Writers \ {w} : /\ Writing(v)' <=> Writing(v)
                                  /\ Claiming(v)' <=> Claiming(v)
                                  /\ pc'[v] = pc[v]
      /\ \A r \in Readers : /\ Reading(r)' <=> Reading(r)
                            /\ Fetching(r)' <=> Fetching(r)
                            /\ pc'[r] = pc[r]
  BY <1>2, SmpFifoAssumption DEF Writing, Claiming, Reading, Fetching, CPUs
<1>7. R <= W /\ W <= R + N
  BY <1>1 DEF IndexInv
<1>8. IndexInv(f)'
  <2>1. ASSUME NEW u \in Writers, NEW v \in Writers, Writers \subseteq {u, v}
        PROVE  W + 1 <= Share(u)' + Share(v)'
    <3>1. Share(w)' = Share(w) + 1 /\ \A x \in Writers \ {w} : Share(x)' = Share(x)
      BY <1>1, <1>2, <1>6 DEF Share, TypeInv, TypeOK
    <3>2. \A x \in Writers : Share(x) \in Nat
      BY <1>1 DEF Share, TypeInv, TypeOK
    <3>3. W <= Share(u) + Share(v)
      BY <1>1, <2>1 DEF IndexInv
    <3> QED BY <1>3, <2>1, <3>1, <3>2, <3>3
  <2>2. serial[w] < MaxSerial
    BY <1>1, <1>2 DEF IndexInv, Claiming
  <2>3. \A v \in Writers : I(v) \in Nat
    BY <1>3 DEF CPUs
  <2>4. \A v \in Writers : Writing(v)' => serial'[v] < MaxSerial
    BY <1>1, <1>2, <1>6, <2>2 DEF IndexInv
  <2>5. \A v \in Writers : Claiming(v)' => serial'[v] < MaxSerial /\ I(v)' <= W'
    BY <1>1, <1>2, <1>3, <1>4, <1>6, <2>3 DEF IndexInv
  <2>6. \A r \in Readers : Fetching(r)' => I(r)' <= R'
    BY <1>1, <1>4, <1>6 DEF IndexInv
  <2>7. R' <= W' /\ W' <= R' + N
    BY <1>3, <1>4, <1>5, <1>7
  <2>8. \A u, v \in Writers : Writers \subseteq {u, v} => W' <= Share(u)' + Share(v)'
    BY <1>4, <2>1
  <2> QED BY <2>4, <2>5, <2>6, <2>7, <2>8 DEF IndexInv
<1>9. UseInv(f)'
  <2>1. ASSUME NEW v \in Writers, Writing(v)'
        PROVE  R' <= I(v)' /\ I(v)' < W' /\ (v # w => I(v)' < W)
    <3>1. CASE v = w
      BY <1>3, <1>4, <1>6, <1>7, <3>1
    <3>2. CASE v # w
      <4>1. R <= I(v) /\ I(v) < W /\ v \in CPUs
        BY <1>1, <1>6, <2>1, <3>2 DEF UseInv, CPUs
      <4> QED BY <1>3, <1>4, <4>1
    <3> QED BY <3>1, <3>2
  <2>2. ASSUME NEW r \in Readers, Reading(r)'
        PROVE  I(r)' < R' /\ W' <= I(r)' + N
    <3>1. I(r) < R /\ W <= I(r) + N /\ r \in CPUs /\ I(r) # W - N
      BY <1>1, <1>5, <1>6, <2>2 DEF UseInv, CPUs
    <3> QED BY <1>3, <1>4, <3>1
  <2>3. ASSUME NEW u \in Writers, NEW v \in Writers, Writing(u)', Writing(v)', index0'[u] = index0'[v]
        PROVE  u = v
    <3>1. I(u)' = I(v)' /\ I(w)' = W /\ u \in CPUs /\ v \in CPUs
      BY <2>3, <1>4, <1>6 DEF CPUs
    <3>2. u # w => I(u)' < W
      BY <2>1, <2>3
    <3>3. v # w => I(v)' < W
      BY <2>1, <2>3
    <3>4. u # w /\ v # w => u = v
      BY <1>1, <1>2, <1>6, <2>3 DEF UseInv
    <3> QED BY <1>3, <1>4, <3>1, <3>2, <3>3, <3>4
  <2>4. \A q, r \in Readers : Reading(q)' /\ Reading(r)' /\ index0'[q] = index0'[r] => q = r
    BY <1>1, <1>2, <1>6 DEF UseInv
  <2> QED BY <2>1, <2>2, <2>3, <2>4 DEF UseInv
<1>10. StateInv(f)'
  <2>1. \A v \in Writers :
         /\ pc'[v] = "write_mark" => state'[MySlot(v)'] = FREE
         /\ pc'[v] \in {"write_data", "write_done"} => state'[MySlot(v)'] = WRITE_ALLOC
    BY <1>1, <1>2, <1>4, <1>5, <1>6 DEF StateInv
  <2>2. \A r \in Readers :
         /\ pc'[r] = "read_mark" => state'[MySlot(r)'] = WRITE_DONE
         /\ pc'[r] = "read_done" => state'[MySlot(r)'] = READ_FETCH
    BY <1>1, <1>2, <1>4, <1>6 DEF StateInv
  <2>3. ASSUME NEW k \in R' .. W' - 1, \A v \in Writers : Writing(v)' => I(v)' # k
        PROVE  state'[SlotAt(f, k)] = WRITE_DONE
    <3>1. k # W
      BY <1>3, <1>4, <1>6, <2>3
    <3>2. k \in R .. W - 1
      BY <1>3, <1>4, <3>1
    <3>3. \A v \in Writers : Writing(v) => I(v) # k
      BY <2>3, <1>4, <1>6
    <3> QED BY <1>1, <1>2, <3>2, <3>3 DEF StateInv
  <2>4. ASSUME NEW k \in W' - N .. R' - 1, \A r \in Readers : Reading(r)' => I(r)' # k
        PROVE  state'[SlotAt(f, k)] = FREE
    <3>1. k \in W - N .. R - 1
      BY <1>3, <1>4
    <3>2. \A r \in Readers : Reading(r) => I(r) # k
      BY <2>4, <1>4, <1>6
    <3> QED BY <1>1, <1>2, <3>1, <3>2 DEF StateInv
  <2> QED BY <2>1, <2>2, <2>3, <2>4 DEF StateInv, SlotAt
<1>11. SeenInv(f)'
  <2>1. ASSUME NEW v \in Writers
        PROVE  WriterSeen(f, v)' /\ WriterPassed(f, v)'
    <3>1. Claiming(v)' => index0'[v] # write_index'
      <4>1. Claiming(v)' => I(v) <= W /\ v \in CPUs
        BY <1>1, <1>6 DEF IndexInv, CPUs
      <4>2. Claiming(v)' => I(v)' # W'
        BY <1>3, <1>4, <4>1
      <4> QED BY <4>2
    <3>2. WriterSeen(f, v)'
      BY <3>1 DEF WriterSeen, Claiming
    <3>3. ASSUME Claiming(v)', NEW u \in Writers, Writing(u)'
          PROVE  I(u)' = W' - 1
      <4>1. u # v /\ v # w
        BY <3>3, <1>6 DEF Claiming, Writing
      <4>2. u = w
        BY <4>1 DEF AtMostTwo
      <4> QED BY <1>3, <1>4, <1>6, <4>2
    <3>4. WriterPassed(f, v)'
      BY <3>3 DEF WriterPassed
    <3> QED BY <3>2, <3>4
  <2>2. ASSUME NEW r \in Readers
        PROVE  ReaderSeen(f, r)' /\ ReaderPassed(f, r)'
    <3>1. ReaderSeen(f, r) /\ ReaderPassed(f, r)
      BY <1>1 DEF SeenInv
    <3>2. ReaderPassed(f, r)'
      BY <1>2, <1>4, <1>6, <3>1 DEF ReaderPassed
    <3>3. ASSUME pc'[r] = "read_cas", index0'[r] = read_index'
          PROVE  /\ R' < W' /\ state'[MySlot(r)'] = WRITE_DONE
                 /\ \A v \in Writers : Writing(v)' => index0'[v] # read_index'
      <4>1. R < W /\ state[MySlot(r)] = WRITE_DONE /\ \A v \in Writers : Writing(v) => index0[v] # read_index
        BY <1>2, <1>6, <3>1, <3>3 DEF ReaderSeen
      <4>2. index0[w] # read_index
        BY <4>1, <1>3
      <4> QED BY <1>2, <1>3, <1>4, <1>6, <4>1, <4>2
    <3>4. ASSUME pc'[r] = "read_state", index0'[r] = read_index', NEW q \in Readers, pc'[q] = "read_mark"
          PROVE  I(q)' # R' - N
      BY <1>2, <1>4, <1>6, <3>1, <3>4 DEF ReaderSeen
    <3> QED BY <3>2, <3>3, <3>4 DEF ReaderSeen
  <2> QED BY <2>1, <2>2 DEF SeenInv
<1>12. DataInv(f)'
  <2>1. ASSUME NEW v \in Writers, Writing(v)'
        PROVE  claimer'[MySlot(v)'] = v
    <3>1. CASE v = w
      BY <1>1, <1>2, <1>3, <1>4, <1>6, <3>1 DEF TypeInv, TypeOK
    <3>2. CASE v # w
      <4>1. UsesSlot(v) /\ v \in CPUs /\ Writing(v)
        BY <1>6, <2>1, <3>2 DEF UsesSlot, CPUs, Writing
      <4>2. I(v) # W - N
        BY <1>1, <1>3, <1>5, <4>1 DEF UseInv
      <4>3. SlotAt(f, W) # MySlot(v)
        BY <1>1, <4>1, <4>2, OtherSlots
      <4>4. MySlot(w) # MySlot(v) /\ claimer[MySlot(v)] = v /\ MySlot(v) \in Slots
        BY <1>1, <1>3, <1>6, <4>1, <4>3 DEF DataInv
      <4> QED BY <1>1, <1>2, <1>4, <4>4 DEF TypeInv, TypeOK
    <3> QED BY <3>1, <3>2
  <2>2. ASSUME NEW v \in Writers, pc'[v] = "write_done"
        PROVE  data'[MySlot(v)'] = Element(v, serial'[v])
    BY <1>1, <1>2, <1>4, <1>6, <2>2 DEF DataInv
  <2>3. ASSUME NEW r \in Readers, Reading(r)'
        PROVE  data'[MySlot(r)'] \in Elements
    BY <1>1, <1>2, <1>4, <1>6, <2>3 DEF DataInv
  <2>4. ASSUME NEW k \in R' .. W' - 1, state'[SlotAt(f, k)] = WRITE_DONE
        PROVE  data'[SlotAt(f, k)] \in Elements
    <3>1. k # W
      BY <1>2, <1>3, <1>5, <1>6, <2>4 DEF FREE, WRITE_DONE
    <3>2. k \in R .. W - 1
      BY <1>3, <1>4, <3>1
    <3> QED BY <1>1, <1>2, <2>4, <3>2 DEF DataInv
  <2> QED BY <2>1, <2>2, <2>3, <2>4 DEF DataInv, SlotAt
<1> QED BY <1>8, <1>9, <1>10, <1>11, <1>12 DEF FifoInvAt

-----------------------------------------------------------------------------
(* A CPU that uses an element changes that element only, and perhaps gives *)
(* it up.                                                                  *)
InSlot(c) ==
  /\ UsesSlot(c)
  /\ \/ UsesSlot(c)' /\ index0'[c] = index0[c] /\ pc'[c] \notin {"write_mark", "read_mark"}
     \/ pc'[c] = "idle"
  /\ \A d \in CPUs \ {c} : pc'[d] = pc[d] /\ index0'[d] = index0[d]
  /\ \A s \in Slots \ {MySlot(c)} : state'[s] = state[s] /\ data'[s] = data[s]
  /\ \A w \in Writers : Share(w)' = Share(w) /\ (w # c \/ UsesSlot(c)' => serial'[w] = serial[w])
  /\ UNCHANGED <<write_index, read_index, claimer>>

(* How far its owner is with it, as the footer says.                       *)
WriterMarks(w) ==
  /\ Writing(w)' => state'[MySlot(w)] = WRITE_ALLOC
  /\ ~Writing(w)' => state'[MySlot(w)] = WRITE_DONE /\ data'[MySlot(w)] \in Elements
  /\ pc'[w] = "write_done" => data'[MySlot(w)] = Element(w, serial'[w])
ReaderMarks(r) ==
  /\ Reading(r)' => state'[MySlot(r)] = READ_FETCH /\ data'[MySlot(r)] \in Elements
  /\ ~Reading(r)' => state'[MySlot(r)] = FREE

LEMMA InSlotKeeps ==
  ASSUME NEW f \in FirstIndices, FifoInvAt(f), TypeInv', NEW c \in CPUs, InSlot(c),
         c \in Writers => WriterMarks(c), c \in Readers => ReaderMarks(c)
  PROVE  FifoInvAt(f)'
<1> DEFINE W == Since(f, write_index)
           R == Since(f, read_index)
           I(d) == Since(f, index0[d])
           N == max_n_elts
<1>1. /\ TypeInv /\ IndexInv(f) /\ UseInv(f) /\ StateInv(f) /\ SeenInv(f) /\ DataInv(f)
  BY DEF FifoInvAt
<1>2. W' = W /\ R' = R /\ \A k : SlotAt(f, k)' = SlotAt(f, k)
  BY DEF InSlot, Since, SlotAt
<1>3. /\ f \in Indices /\ N \in Nat \ {0} /\ W \in Nat /\ R \in Nat /\ R <= W /\ W <= R + N
      /\ \A d \in CPUs : I(d) \in Nat /\ MySlot(d) = SlotAt(f, I(d)) /\ MySlot(d) \in Slots
  BY <1>1, Places DEF IndexInv
<1>4. \A k \in Int : SlotAt(f, k) \in Slots
  BY <1>3, SlotAtType
<1>5. \A w \in Writers :
        /\ UsesSlot(w) <=> Writing(w)
        /\ UsesSlot(w)' <=> Writing(w)'
        /\ Writing(w)' => Writing(w) /\ index0'[w] = index0[w] /\ I(w)' = I(w) /\ MySlot(w)' = MySlot(w)
        /\ w # c /\ Writing(w) => Writing(w)'
        /\ w # c => pc'[w] = pc[w] /\ index0'[w] = index0[w] /\ I(w)' = I(w) /\ MySlot(w)' = MySlot(w)
                    /\ serial'[w] = serial[w]
        /\ Claiming(w)' => w # c /\ Claiming(w)
        /\ pc'[w] = "write_mark" => w # c /\ pc[w] = "write_mark"
        /\ Share(w)' = Share(w)
  BY SmpFifoAssumption DEF InSlot, UsesSlot, Writing, Claiming, CPUs, Since, MySlot
<1>6. \A r \in Readers :
        /\ UsesSlot(r) <=> Reading(r)
        /\ UsesSlot(r)' <=> Reading(r)'
        /\ Reading(r)' => Reading(r) /\ index0'[r] = index0[r] /\ I(r)' = I(r) /\ MySlot(r)' = MySlot(r)
        /\ r # c /\ Reading(r) => Reading(r)'
        /\ r # c => pc'[r] = pc[r] /\ index0'[r] = index0[r] /\ I(r)' = I(r) /\ MySlot(r)' = MySlot(r)
        /\ Fetching(r)' => r # c /\ Fetching(r)
        /\ pc'[r] = "read_mark" => r # c /\ pc[r] = "read_mark"
  BY SmpFifoAssumption DEF InSlot, UsesSlot, Reading, Fetching, CPUs, Since, MySlot
<1>7. /\ I(c) \in W - N .. W - 1
      /\ \A k \in W - N .. W - 1 : k # I(c) => SlotAt(f, k) # MySlot(c)
      /\ I(c) # W - N => SlotAt(f, W) # MySlot(c)
  BY <1>1, OtherSlots DEF InSlot
<1>8. \A k \in W - N .. W - 1 : k # I(c) =>
        state'[SlotAt(f, k)] = state[SlotAt(f, k)] /\ data'[SlotAt(f, k)] = data[SlotAt(f, k)]
  BY <1>3, <1>4, <1>7 DEF InSlot
<1>9. \A d \in CPUs : d # c /\ UsesSlot(d) =>
        /\ I(d) # I(c) /\ I(d) \in W - N .. W - 1
        /\ state'[MySlot(d)] = state[MySlot(d)] /\ data'[MySlot(d)] = data[MySlot(d)]
  <2> SUFFICES ASSUME NEW d \in CPUs, d # c, UsesSlot(d)
               PROVE  I(d) # I(c) /\ I(d) \in W - N .. W - 1
    BY <1>3, <1>8
  <2>1. I(d) \in W - N .. W - 1
    BY <1>1, OtherSlots
  <2>2. I(d) = I(c) => index0[d] = index0[c]
    BY <1>1, Places
  <2>3. UsesSlot(c)
    BY DEF InSlot
  <2>4. CASE c \in Writers /\ d \in Writers
    BY <1>1, <1>5, <2>1, <2>2, <2>3, <2>4 DEF UseInv
  <2>5. CASE c \in Readers /\ d \in Readers
    BY <1>1, <1>6, <2>1, <2>2, <2>3, <2>5 DEF UseInv
  <2>6. CASE c \in Writers /\ d \in Readers
    <3>1. R <= I(c) /\ I(d) < R
      BY <1>1, <1>5, <1>6, <2>3, <2>6 DEF UseInv
    <3> QED BY <1>3, <2>1, <3>1
  <2>7. CASE c \in Readers /\ d \in Writers
    <3>1. R <= I(d) /\ I(c) < R
      BY <1>1, <1>5, <1>6, <2>3, <2>7 DEF UseInv
    <3> QED BY <1>3, <2>1, <3>1
  <2> QED BY <2>1, <2>4, <2>5, <2>6, <2>7 DEF CPUs
<1>10. IndexInv(f)'
  <2>1. \A w \in Writers : Writing(w)' => serial'[w] < MaxSerial
    <3>1. \A w \in Writers : Writing(w)' => serial'[w] = serial[w]
      BY <1>5 DEF InSlot
    <3> QED BY <1>1, <1>5, <3>1 DEF IndexInv
  <2>2. \A w \in Writers : Claiming(w)' => serial'[w] < MaxSerial /\ I(w)' <= W'
    BY <1>1, <1>2, <1>5 DEF IndexInv
  <2>3. \A r \in Readers : Fetching(r)' => I(r)' <= R'
    BY <1>1, <1>2, <1>6 DEF IndexInv
  <2>4. \A v, w \in Writers : Writers \subseteq {v, w} => W' <= Share(v)' + Share(w)'
    BY <1>1, <1>2, <1>5 DEF IndexInv
  <2> QED BY <1>2, <1>3, <2>1, <2>2, <2>3, <2>4 DEF IndexInv
<1>11. UseInv(f)'
  BY <1>1, <1>2, <1>5, <1>6 DEF UseInv
<1>12. StateInv(f)'
  <2>1. ASSUME NEW w \in Writers
        PROVE  /\ pc'[w] = "write_mark" => state'[MySlot(w)'] = FREE
               /\ pc'[w] \in {"write_data", "write_done"} => state'[MySlot(w)'] = WRITE_ALLOC
    <3>1. CASE w = c
      BY <1>5, <3>1 DEF WriterMarks, Writing
    <3>2. CASE w # c
      <4>1. Writing(w) => state'[MySlot(w)'] = state[MySlot(w)]
        BY <1>5, <1>9, <3>2 DEF CPUs
      <4> QED BY <1>1, <1>5, <3>2, <4>1 DEF StateInv, Writing
    <3> QED BY <3>1, <3>2
  <2>2. ASSUME NEW r \in Readers
        PROVE  /\ pc'[r] = "read_mark" => state'[MySlot(r)'] = WRITE_DONE
               /\ pc'[r] = "read_done" => state'[MySlot(r)'] = READ_FETCH
    <3>1. CASE r = c
      BY <1>6, <3>1 DEF ReaderMarks, Reading
    <3>2. CASE r # c
      <4>1. Reading(r) => state'[MySlot(r)'] = state[MySlot(r)]
        BY <1>6, <1>9, <3>2 DEF CPUs
      <4> QED BY <1>1, <1>6, <3>2, <4>1 DEF StateInv, Reading
    <3> QED BY <3>1, <3>2
  <2>3. ASSUME NEW k \in R .. W - 1, \A w \in Writers : Writing(w)' => I(w)' # k
        PROVE  state'[SlotAt(f, k)] = WRITE_DONE
    <3>1. k \in W - N .. W - 1
      BY <1>3
    <3>2. CASE k = I(c)
      <4>1. c \in Writers
        BY <1>1, <1>3, <1>6, <3>2 DEF InSlot, UseInv, CPUs
      <4>2. ~Writing(c)'
        BY <1>5, <2>3, <3>2, <4>1
      <4> QED BY <1>3, <3>2, <4>1, <4>2 DEF WriterMarks
    <3>3. CASE k # I(c)
      <4>1. \A w \in Writers : Writing(w) => I(w) # k
        BY <1>5, <2>3, <3>3
      <4>2. state[SlotAt(f, k)] = WRITE_DONE
        BY <1>1, <2>3, <4>1 DEF StateInv
      <4> QED BY <1>8, <3>1, <3>3, <4>2
    <3> QED BY <3>2, <3>3
  <2>4. ASSUME NEW k \in W - N .. R - 1, \A r \in Readers : Reading(r)' => I(r)' # k
        PROVE  state'[SlotAt(f, k)] = FREE
    <3>1. k \in W - N .. W - 1
      BY <1>3
    <3>2. CASE k = I(c)
      <4>1. c \in Readers
        BY <1>1, <1>3, <1>5, <3>2 DEF InSlot, UseInv, CPUs
      <4>2. ~Reading(c)'
        BY <1>6, <2>4, <3>2, <4>1
      <4> QED BY <1>3, <3>2, <4>1, <4>2 DEF ReaderMarks
    <3>3. CASE k # I(c)
      <4>1. \A r \in Readers : Reading(r) => I(r) # k
        BY <1>6, <2>4, <3>3
      <4>2. state[SlotAt(f, k)] = FREE
        BY <1>1, <2>4, <4>1 DEF StateInv
      <4> QED BY <1>8, <3>1, <3>3, <4>2
    <3> QED BY <3>2, <3>3
  <2> QED BY <1>2, <2>1, <2>2, <2>3, <2>4 DEF StateInv
<1>13. SeenInv(f)'
  <2>1. ASSUME NEW w \in Writers
        PROVE  WriterSeen(f, w)' /\ WriterPassed(f, w)'
    <3>0. WriterSeen(f, w) /\ WriterPassed(f, w) /\ write_index' = write_index /\ w \in CPUs
      BY <1>1 DEF SeenInv, InSlot, CPUs
    <3>1. WriterPassed(f, w)'
      BY <1>2, <1>5, <3>0 DEF WriterPassed
    <3>2. ASSUME pc'[w] = "write_cas", index0'[w] = write_index'
          PROVE  /\ W' < R' + N /\ state'[MySlot(w)'] = FREE
                 /\ \A r \in Readers : Reading(r)' => I(r)' # W' - N
      <4>1. w # c
        BY <3>2, <1>5 DEF Claiming
      <4>2. /\ W < R + N /\ state[MySlot(w)] = FREE /\ index0[w] = write_index
            /\ \A r \in Readers : Reading(r) => I(r) # W - N
        BY <1>5, <3>0, <3>2, <4>1 DEF WriterSeen
      <4>3. I(c) # W - N
        BY <1>1, <1>3, <1>5, <1>6, <4>2 DEF InSlot, UseInv, CPUs
      <4>4. MySlot(w) = SlotAt(f, W) /\ MySlot(w) # MySlot(c) /\ MySlot(w) \in Slots
        BY <1>3, <1>7, <3>0, <4>2, <4>3
      <4>5. state'[MySlot(w)] = state[MySlot(w)]
        BY <4>4 DEF InSlot
      <4> QED BY <1>2, <1>5, <1>6, <4>1, <4>2, <4>5
    <3>3. ASSUME pc'[w] = "write_state", index0'[w] = write_index',
                 NEW v \in Writers, pc'[v] = "write_mark"
          PROVE  I(v)' # W' - N
      <4>1. w # c
        BY <3>3, <1>5 DEF Claiming
      <4> QED BY <1>2, <1>5, <3>0, <3>3, <4>1 DEF WriterSeen
    <3> QED BY <3>1, <3>2, <3>3 DEF WriterSeen
  <2>2. ASSUME NEW r \in Readers
        PROVE  ReaderSeen(f, r)' /\ ReaderPassed(f, r)'
    <3>0. ReaderSeen(f, r) /\ ReaderPassed(f, r) /\ read_index' = read_index /\ r \in CPUs
      BY <1>1 DEF SeenInv, InSlot, CPUs
    <3>1. ReaderPassed(f, r)'
      BY <1>2, <1>6, <3>0 DEF ReaderPassed
    <3>2. ASSUME pc'[r] = "read_cas", index0'[r] = read_index'
          PROVE  /\ R' < W' /\ state'[MySlot(r)'] = WRITE_DONE
                 /\ \A w \in Writers : Writing(w)' => index0'[w] # read_index'
      <4>1. r # c
        BY <3>2, <1>6 DEF Fetching
      <4>2. /\ R < W /\ state[MySlot(r)] = WRITE_DONE /\ index0[r] = read_index
            /\ \A w \in Writers : Writing(w) => index0[w] # read_index
        BY <1>6, <3>0, <3>2, <4>1 DEF ReaderSeen
      <4>3. I(c) # R
        <5>1. c \in Readers => I(c) # R
          BY <1>1, <1>3, <1>6 DEF InSlot, UseInv
        <5>2. c \in Writers => index0[c] # read_index
          BY <4>2, <1>5 DEF InSlot
        <5>3. I(c) = R => index0[c] = read_index
          BY <1>1, Places
        <5> QED BY <5>1, <5>2, <5>3 DEF CPUs
      <4>4. R \in W - N .. W - 1 /\ MySlot(r) = SlotAt(f, R)
        BY <1>3, <3>0, <4>2
      <4>5. state'[MySlot(r)] = state[MySlot(r)]
        BY <1>8, <4>3, <4>4
      <4> QED BY <1>2, <1>5, <1>6, <3>0, <4>1, <4>2, <4>5
    <3>3. ASSUME pc'[r] = "read_state", index0'[r] = read_index',
                 NEW q \in Readers, pc'[q] = "read_mark"
          PROVE  I(q)' # R' - N
      <4>1. r # c
        BY <3>3, <1>6 DEF Fetching
      <4> QED BY <1>2, <1>6, <3>0, <3>3, <4>1 DEF ReaderSeen
    <3> QED BY <3>1, <3>2, <3>3 DEF ReaderSeen
  <2> QED BY <2>1, <2>2 DEF SeenInv
<1>14. DataInv(f)'
  <2>1. \A w \in Writers : Writing(w)' => claimer'[MySlot(w)'] = w
    BY <1>1, <1>5 DEF InSlot, DataInv
  <2>2. ASSUME NEW w \in Writers, pc'[w] = "write_done"
        PROVE  data'[MySlot(w)'] = Element(w, serial'[w])
    <3>1. Writing(w)'
      BY <2>2 DEF Writing
    <3>2. CASE w = c
      BY <1>5, <2>2, <3>1, <3>2 DEF WriterMarks
    <3>3. CASE w # c
      <4>1. data'[MySlot(w)'] = data[MySlot(w)]
        BY <1>5, <1>9, <3>1, <3>3 DEF CPUs
      <4> QED BY <1>1, <1>5, <2>2, <3>3, <4>1 DEF DataInv
    <3> QED BY <3>2, <3>3
  <2>3. ASSUME NEW r \in Readers, Reading(r)'
        PROVE  data'[MySlot(r)'] \in Elements
    <3>1. CASE r = c
      BY <1>6, <2>3, <3>1 DEF ReaderMarks
    <3>2. CASE r # c
      <4>1. data'[MySlot(r)'] = data[MySlot(r)]
        BY <1>6, <1>9, <2>3, <3>2 DEF CPUs
      <4> QED BY <1>1, <1>6, <2>3, <4>1 DEF DataInv
    <3> QED BY <3>1, <3>2
  <2>4. ASSUME NEW k \in R .. W - 1, state'[SlotAt(f, k)] = WRITE_DONE
        PROVE  data'[SlotAt(f, k)] \in Elements
    <3>1. k \in W - N .. W - 1
      BY <1>3
    <3>2. CASE k = I(c)
      <4>1. c \in Writers
        BY <1>1, <1>3, <1>6, <3>2 DEF InSlot, UseInv, CPUs
      <4> QED BY <1>3, <2>4, <3>2, <4>1 DEF WriterMarks, WRITE_ALLOC, WRITE_DONE
    <3>3. CASE k # I(c)
      <4>1. state[SlotAt(f, k)] = WRITE_DONE
        BY <1>8, <2>4, <3>1, <3>3
      <4>2. data[SlotAt(f, k)] \in Elements
        BY <1>1, <2>4, <4>1 DEF DataInv
      <4> QED BY <1>8, <3>1, <3>3, <4>2
    <3> QED BY <3>2, <3>3
  <2> QED BY <1>2, <2>1, <2>2, <2>3, <2>4 DEF DataInv
<1> QED BY <1>10, <1>11, <1>12, <1>13, <1>14 DEF FifoInvAt

LEMMA WriteMarkStep ==
  ASSUME NEW f \in FirstIndices, FifoInvAt(f), TypeInv', NEW w \in Writers, WriteMark(w)
  PROVE  FifoInvAt(f)'
<1>1. TypeInv /\ w \in CPUs /\ w \notin Readers
  BY SmpFifoAssumption DEF FifoInvAt, CPUs
<1>2. /\ pc[w] = "write_mark" /\ pc'[w] = "write_data"
      /\ state'[MySlot(w)] = WRITE_ALLOC
      /\ UNCHANGED <<index0, data, serial>>
  BY <1>1, Places DEF WriteMark, Mark, Goto, TypeInv, TypeOK
<1>3. InSlot(w)
  <2>1. \A s \in Slots \ {MySlot(w)} : state'[s] = state[s] /\ data'[s] = data[s]
    BY <1>1 DEF WriteMark, Mark, TypeInv, TypeOK
  <2>2. \A d \in CPUs \ {w} : pc'[d] = pc[d] /\ index0'[d] = index0[d]
    BY <1>1 DEF WriteMark, Goto, TypeInv, TypeOK, CPUs
  <2>3. \A v \in Writers : Share(v)' = Share(v)
    BY <1>2, <2>2 DEF Share, Writing, CPUs
  <2> QED BY <1>2, <2>1, <2>2, <2>3 DEF InSlot, UsesSlot, WriteMark
<1>4. WriterMarks(w)
  BY <1>2 DEF WriterMarks, Writing
<1> QED BY <1>1, <1>3, <1>4, InSlotKeeps

LEMMA WriteDataStep ==
  ASSUME NEW f \in FirstIndices, FifoInvAt(f), TypeInv', NEW w \in Writers, WriteData(w)
  PROVE  FifoInvAt(f)'
<1>1. TypeInv /\ StateInv(f) /\ w \in CPUs /\ w \notin Readers
  BY SmpFifoAssumption DEF FifoInvAt, CPUs
<1>2. /\ pc[w] = "write_data" /\ pc'[w] = "write_done"
      /\ data'[MySlot(w)] = Element(w, serial[w])
      /\ UNCHANGED <<index0, state, serial>>
  BY <1>1, Places DEF WriteData, Goto, TypeInv, TypeOK
<1>3. InSlot(w)
  <2>1. \A s \in Slots \ {MySlot(w)} : state'[s] = state[s] /\ data'[s] = data[s]
    BY <1>1 DEF WriteData, TypeInv, TypeOK
  <2>2. \A d \in CPUs \ {w} : pc'[d] = pc[d] /\ index0'[d] = index0[d]
    BY <1>1 DEF WriteData, Goto, TypeInv, TypeOK, CPUs
  <2>3. \A v \in Writers : Share(v)' = Share(v)
    BY <1>2, <2>2 DEF Share, Writing, CPUs
  <2> QED BY <1>2, <2>1, <2>2, <2>3 DEF InSlot, UsesSlot, WriteData
<1>4. state[MySlot(w)] = WRITE_ALLOC
  BY <1>1, <1>2 DEF StateInv
<1>5. WriterMarks(w)
  BY <1>2, <1>4 DEF WriterMarks, Writing
<1> QED BY <1>1, <1>3, <1>5, InSlotKeeps

LEMMA WriteDoneStep ==
  ASSUME NEW f \in FirstIndices, FifoInvAt(f), TypeInv', NEW w \in Writers, WriteDone(w)
  PROVE  FifoInvAt(f)'
<1>1. TypeInv /\ IndexInv(f) /\ DataInv(f) /\ w \in CPUs /\ w \notin Readers
  BY SmpFifoAssumption DEF FifoInvAt, CPUs
<1>2. /\ pc[w] = "write_done" /\ pc'[w] = "idle"
      /\ state'[MySlot(w)] = WRITE_DONE
      /\ serial'[w] = serial[w] + 1 /\ \A v \in Writers \ {w} : serial'[v] = serial[v]
      /\ data' = data
  BY <1>1, Places DEF WriteDone, Mark, Return, Goto, TypeInv, TypeOK
<1>3. InSlot(w)
  <2>1. \A s \in Slots \ {MySlot(w)} : state'[s] = state[s] /\ data'[s] = data[s]
    BY <1>1 DEF WriteDone, Mark, TypeInv, TypeOK
  <2>2. \A d \in CPUs \ {w} : pc'[d] = pc[d] /\ index0'[d] = index0[d]
    BY <1>1 DEF WriteDone, Return, Goto, Keep, TypeInv, TypeOK, CPUs
  <2>3. \A v \in Writers : Share(v)' = Share(v)
    <3>1. Share(w)' = Share(w)
      BY <1>1, <1>2 DEF Share, Writing, TypeInv, TypeOK
    <3>2. \A v \in Writers \ {w} : Share(v)' = Share(v)
      BY <1>2, <2>2 DEF Share, Writing, CPUs
    <3> QED BY <3>1, <3>2
  <2> QED BY <1>1, <1>2, <2>1, <2>2, <2>3 DEF InSlot, UsesSlot, WriteDone
<1>4. Element(w, serial[w]) \in Elements
  <2>1. serial[w] \in 0 .. MaxSerial - 1
    BY <1>1, <1>2, SmpFifoAssumption DEF IndexInv, Writing, TypeInv, TypeOK
  <2> QED BY <2>1 DEF Element, Elements
<1>5. data[MySlot(w)] = Element(w, serial[w])
  BY <1>1, <1>2 DEF DataInv
<1>6. WriterMarks(w)
  BY <1>2, <1>4, <1>5 DEF WriterMarks, Writing
<1> QED BY <1>1, <1>3, <1>6, InSlotKeeps

LEMMA ReadMarkStep ==
  ASSUME NEW f \in FirstIndices, FifoInvAt(f), TypeInv', NEW r \in Readers, ReadMark(r)
  PROVE  FifoInvAt(f)'
<1>1. TypeInv /\ DataInv(f) /\ r \in CPUs /\ r \notin Writers
  BY SmpFifoAssumption DEF FifoInvAt, CPUs
<1>2. /\ pc[r] = "read_mark" /\ pc'[r] = "read_done"
      /\ state'[MySlot(r)] = READ_FETCH
      /\ UNCHANGED <<index0, data, serial>>
  BY <1>1, Places DEF ReadMark, Mark, Goto, TypeInv, TypeOK
<1>3. InSlot(r)
  <2>1. \A s \in Slots \ {MySlot(r)} : state'[s] = state[s] /\ data'[s] = data[s]
    BY <1>1 DEF ReadMark, Mark, TypeInv, TypeOK
  <2>2. \A d \in CPUs \ {r} : pc'[d] = pc[d] /\ index0'[d] = index0[d]
    BY <1>1 DEF ReadMark, Goto, TypeInv, TypeOK, CPUs
  <2>3. \A v \in Writers : Share(v)' = Share(v)
    BY <1>1, <1>2, <2>2 DEF Share, Writing, CPUs
  <2> QED BY <1>2, <2>1, <2>2, <2>3 DEF InSlot, UsesSlot, ReadMark
<1>4. data[MySlot(r)] \in Elements
  BY <1>1, <1>2 DEF DataInv, Reading
<1>5. ReaderMarks(r)
  BY <1>2, <1>4 DEF ReaderMarks, Reading
<1> QED BY <1>1, <1>3, <1>5, InSlotKeeps

LEMMA ReadDoneStep ==
  ASSUME NEW f \in FirstIndices, FifoInvAt(f), TypeInv', NEW r \in Readers, ReadDone(r)
  PROVE  FifoInvAt(f)'
<1>1. TypeInv /\ r \in CPUs /\ r \notin Writers
  BY SmpFifoAssumption DEF FifoInvAt, CPUs
<1>2. /\ pc[r] = "read_done" /\ pc'[r] = "idle"
      /\ state'[MySlot(r)] = FREE
      /\ UNCHANGED <<data, serial>>
  BY <1>1, Places DEF ReadDone, Mark, Return, Goto, TypeInv, TypeOK
<1>3. InSlot(r)
  <2>1. \A s \in Slots \ {MySlot(r)} : state'[s] = state[s] /\ data'[s] = data[s]
    BY <1>1 DEF ReadDone, Mark, TypeInv, TypeOK
  <2>2. \A d \in CPUs \ {r} : pc'[d] = pc[d] /\ index0'[d] = index0[d]
    BY <1>1 DEF ReadDone, Return, Goto, Keep, TypeInv, TypeOK, CPUs
  <2>3. \A v \in Writers : Share(v)' = Share(v)
    BY <1>1, <1>2, <2>2 DEF Share, Writing, CPUs
  <2> QED BY <1>2, <2>1, <2>2, <2>3 DEF InSlot, UsesSlot, ReadDone
<1>4. ReaderMarks(r)
  BY <1>2 DEF ReaderMarks, Reading
<1> QED BY <1>1, <1>3, <1>4, InSlotKeeps

-----------------------------------------------------------------------------
(* The reader takes the element at the read index.                         *)
LEMMA ReadSwapStep ==
  ASSUME AtMostTwo(Readers), NEW f \in FirstIndices, FifoInvAt(f), TypeInv',
         NEW r \in Readers, ReadSwap(r), read_index = index0[r]
  PROVE  FifoInvAt(f)'
<1> DEFINE W == Since(f, write_index)
           R == Since(f, read_index)
           I(c) == Since(f, index0[c])
           N == max_n_elts
<1>1. /\ TypeInv /\ IndexInv(f) /\ UseInv(f) /\ StateInv(f) /\ SeenInv(f) /\ DataInv(f)
  BY DEF FifoInvAt
<1>2. /\ pc[r] = "read_cas" /\ pc'[r] = "read_mark"
      /\ \A c \in CPUs \ {r} : pc'[c] = pc[c]
      /\ read_index' = Wrap(read_index + 1)
      /\ UNCHANGED <<write_index, index0, state, data, serial, claimer>>
  BY <1>1 DEF ReadSwap, Goto, TypeInv, TypeOK, CPUs
<1>3. /\ f \in Indices /\ N \in Nat \ {0} /\ W \in Nat /\ R \in Nat /\ W < Span
      /\ \A c \in CPUs : /\ I(c) \in Nat /\ MySlot(c) = SlotAt(f, I(c)) /\ MySlot(c) \in Slots
                         /\ I(c) = R => index0[c] = read_index
  BY <1>1, Places
<1>4. /\ R < W /\ state[MySlot(r)] = WRITE_DONE
      /\ \A w \in Writers : Writing(w) => index0[w] # read_index
  BY <1>1, <1>2 DEF SeenInv, ReaderSeen
<1>5. R' = R + 1 /\ W' = W /\ (\A c : I(c)' = I(c) /\ MySlot(c)' = MySlot(c))
  <2>1. R + 1 < Span
    BY <1>3, <1>4, RangeType
  <2>2. read_index \in Indices
    BY <1>1 DEF TypeInv, TypeOK
  <2>3. Since(f, Wrap(read_index + 1)) = R + 1
    BY <2>1, <2>2, <1>3, SinceStep
  <2> QED BY <1>2, <2>3 DEF Since, MySlot
<1>6. /\ I(r) = R /\ r \in CPUs /\ Reading(r)' /\ ~Reading(r) /\ ~Fetching(r)'
      /\ \A w \in Writers : /\ Writing(w)' <=> Writing(w)
                            /\ Claiming(w)' <=> Claiming(w)
                            /\ pc'[w] = pc[w]
      /\ \A q \in Readers \ {r} : /\ Reading(q)' <=> Reading(q)
                                  /\ Fetching(q)' <=> Fetching(q)
                                  /\ pc'[q] = pc[q]
  BY <1>2, SmpFifoAssumption DEF Writing, Claiming, Reading, Fetching, CPUs
<1>7. R <= W /\ W <= R + N
  BY <1>1 DEF IndexInv
<1>8. IndexInv(f)'
  <2>1. \A w \in Writers : Share(w)' = Share(w)
    BY <1>2, <1>6 DEF Share
  <2>2. \A w \in Writers : Writing(w)' => serial'[w] < MaxSerial
    BY <1>1, <1>2, <1>6 DEF IndexInv
  <2>3. \A w \in Writers : Claiming(w)' => serial'[w] < MaxSerial /\ I(w)' <= W'
    BY <1>1, <1>2, <1>5, <1>6 DEF IndexInv
  <2>4. ASSUME NEW q \in Readers, Fetching(q)'
        PROVE  I(q)' <= R'
    <3>1. I(q) <= R /\ q \in CPUs
      BY <1>1, <1>6, <2>4 DEF IndexInv, CPUs
    <3> QED BY <1>3, <1>5, <3>1
  <2>5. R' <= W' /\ W' <= R' + N
    BY <1>3, <1>4, <1>5, <1>7
  <2>6. \A v, w \in Writers : Writers \subseteq {v, w} => W' <= Share(v)' + Share(w)'
    BY <1>1, <1>5, <2>1 DEF IndexInv
  <2> QED BY <2>2, <2>3, <2>4, <2>5, <2>6 DEF IndexInv
<1>9. UseInv(f)'
  <2>1. ASSUME NEW w \in Writers, Writing(w)'
        PROVE  R' <= I(w)' /\ I(w)' < W'
    <3>1. R <= I(w) /\ I(w) < W /\ w \in CPUs /\ index0[w] # read_index
      BY <1>1, <1>4, <1>6, <2>1 DEF UseInv, CPUs
    <3>2. I(w) # R
      BY <1>3, <3>1
    <3> QED BY <1>3, <1>5, <3>1, <3>2
  <2>2. ASSUME NEW q \in Readers, Reading(q)'
        PROVE  I(q)' < R' /\ W' <= I(q)' + N /\ (q # r => I(q) < R)
    <3>1. CASE q = r
      BY <1>3, <1>5, <1>6, <1>7, <3>1
    <3>2. CASE q # r
      <4>1. I(q) < R /\ W <= I(q) + N /\ q \in CPUs
        BY <1>1, <1>6, <2>2, <3>2 DEF UseInv, CPUs
      <4> QED BY <1>3, <1>5, <4>1
    <3> QED BY <3>1, <3>2
  <2>3. ASSUME NEW p \in Readers, NEW q \in Readers, Reading(p)', Reading(q)', index0'[p] = index0'[q]
        PROVE  p = q
    <3>1. I(p) = I(q) /\ I(r) = R /\ p \in CPUs /\ q \in CPUs
      BY <1>2, <1>6, <2>3 DEF CPUs, Since
    <3>2. p # r => I(p) < R
      BY <2>2, <2>3
    <3>3. q # r => I(q) < R
      BY <2>2, <2>3
    <3>4. p # r /\ q # r => p = q
      BY <1>1, <1>2, <1>6, <2>3 DEF UseInv
    <3> QED BY <1>3, <3>1, <3>2, <3>3, <3>4
  <2>4. \A v, w \in Writers : Writing(v)' /\ Writing(w)' /\ index0'[v] = index0'[w] => v = w
    BY <1>1, <1>2, <1>6 DEF UseInv
  <2> QED BY <2>1, <2>2, <2>3, <2>4 DEF UseInv
<1>10. StateInv(f)'
  <2>1. \A w \in Writers :
         /\ pc'[w] = "write_mark" => state'[MySlot(w)'] = FREE
         /\ pc'[w] \in {"write_data", "write_done"} => state'[MySlot(w)'] = WRITE_ALLOC
    BY <1>1, <1>2, <1>5, <1>6 DEF StateInv
  <2>2. \A q \in Readers :
         /\ pc'[q] = "read_mark" => state'[MySlot(q)'] = WRITE_DONE
         /\ pc'[q] = "read_done" => state'[MySlot(q)'] = READ_FETCH
    BY <1>1, <1>2, <1>4, <1>5, <1>6 DEF StateInv
  <2>3. ASSUME NEW k \in R' .. W' - 1, \A w \in Writers : Writing(w)' => I(w)' # k
        PROVE  state'[SlotAt(f, k)] = WRITE_DONE
    <3>1. k \in R .. W - 1
      BY <1>3, <1>5
    <3>2. \A w \in Writers : Writing(w) => I(w) # k
      BY <2>3, <1>5, <1>6
    <3> QED BY <1>1, <1>2, <3>1, <3>2 DEF StateInv
  <2>4. ASSUME NEW k \in W' - N .. R' - 1, \A q \in Readers : Reading(q)' => I(q)' # k
        PROVE  state'[SlotAt(f, k)] = FREE
    <3>1. k # R
      BY <1>3, <1>5, <1>6, <2>4
    <3>2. k \in W - N .. R - 1
      BY <1>3, <1>5, <3>1
    <3>3. \A q \in Readers : Reading(q) => I(q) # k
      BY <2>4, <1>5, <1>6
    <3> QED BY <1>1, <1>2, <3>2, <3>3 DEF StateInv
  <2> QED BY <2>1, <2>2, <2>3, <2>4 DEF StateInv, SlotAt
<1>11. SeenInv(f)'
  <2>1. ASSUME NEW w \in Writers
        PROVE  WriterSeen(f, w)' /\ WriterPassed(f, w)'
    <3>1. WriterSeen(f, w) /\ WriterPassed(f, w)
      BY <1>1 DEF SeenInv
    <3>2. WriterPassed(f, w)'
      BY <1>2, <1>5, <1>6, <3>1 DEF WriterPassed
    <3>3. ASSUME pc'[w] = "write_cas", index0'[w] = write_index'
          PROVE  /\ W' < R' + N /\ state'[MySlot(w)'] = FREE
                 /\ \A q \in Readers : Reading(q)' => I(q)' # W' - N
      <4>1. W < R + N /\ state[MySlot(w)] = FREE /\ \A q \in Readers : Reading(q) => I(q) # W - N
        BY <1>2, <1>6, <3>1, <3>3 DEF WriterSeen
      <4>2. I(r) # W - N
        BY <1>3, <1>6, <4>1
      <4> QED BY <1>2, <1>3, <1>5, <1>6, <4>1, <4>2
    <3>4. ASSUME pc'[w] = "write_state", index0'[w] = write_index', NEW v \in Writers, pc'[v] = "write_mark"
          PROVE  I(v)' # W' - N
      BY <1>2, <1>5, <1>6, <3>1, <3>4 DEF WriterSeen
    <3> QED BY <3>2, <3>3, <3>4 DEF WriterSeen
  <2>2. ASSUME NEW q \in Readers
        PROVE  ReaderSeen(f, q)' /\ ReaderPassed(f, q)'
    <3>1. Fetching(q)' => index0'[q] # read_index'
      <4>1. Fetching(q)' => I(q) <= R /\ q \in CPUs
        BY <1>1, <1>6 DEF IndexInv, CPUs
      <4>2. Fetching(q)' => I(q)' # R'
        BY <1>3, <1>5, <4>1
      <4> QED BY <4>2
    <3>2. ReaderSeen(f, q)'
      BY <3>1 DEF ReaderSeen, Fetching
    <3>3. ASSUME Fetching(q)', NEW p \in Readers, Reading(p)'
          PROVE  I(p)' = R' - 1
      <4>1. p # q /\ q # r
        BY <3>3, <1>6 DEF Fetching, Reading
      <4>2. p = r
        BY <4>1 DEF AtMostTwo
      <4> QED BY <1>3, <1>5, <1>6, <4>2
    <3>4. ReaderPassed(f, q)'
      BY <3>3 DEF ReaderPassed
    <3> QED BY <3>2, <3>4
  <2> QED BY <2>1, <2>2 DEF SeenInv
<1>12. DataInv(f)'
  <2>1. \A w \in Writers : Writing(w)' => claimer'[MySlot(w)'] = w
    BY <1>1, <1>2, <1>5, <1>6 DEF DataInv
  <2>2. \A w \in Writers : pc'[w] = "write_done" => data'[MySlot(w)'] = Element(w, serial'[w])
    BY <1>1, <1>2, <1>5, <1>6 DEF DataInv
  <2>3. data[MySlot(r)] \in Elements
    <3>1. R \in R .. W - 1 /\ MySlot(r) = SlotAt(f, R)
      BY <1>3, <1>4, <1>6
    <3> QED BY <1>1, <1>4, <3>1 DEF DataInv
  <2>4. \A q \in Readers : Reading(q)' => data'[MySlot(q)'] \in Elements
    BY <1>1, <1>2, <1>5, <1>6, <2>3 DEF DataInv
  <2>5. ASSUME NEW k \in R' .. W' - 1, state'[SlotAt(f, k)] = WRITE_DONE
        PROVE  data'[SlotAt(f, k)] \in Elements
    <3>1. k \in R .. W - 1
      BY <1>3, <1>5
    <3> QED BY <1>1, <1>2, <2>5, <3>1 DEF DataInv
  <2> QED BY <2>1, <2>2, <2>4, <2>5 DEF DataInv, SlotAt
<1> QED BY <1>8, <1>9, <1>10, <1>11, <1>12 DEF FifoInvAt

-----------------------------------------------------------------------------
(* The invariant holds at the start, and every step keeps it.              *)
LEMMA FifoInvInit == Init => FifoInv
<1> SUFFICES ASSUME Init PROVE FifoInv
  OBVIOUS
<1> DEFINE f == write_index
<1>1. f \in FirstIndices /\ f \in Indices /\ read_index = f
  BY SmpFifoAssumption DEF Init
<1>2. \A c \in CPUs : pc[c] = "idle"
  BY DEF Init, CPUs
<1>3. 0 \in Indices /\ max_n_elts \in Nat \ {0}
  BY RangeType
<1>4. TypeInv
  BY <1>1, <1>3, SmpFifoAssumption
    DEF Init, TypeInv, TypeOK, WriterPCs, ReaderPCs, States
<1>5. Since(f, write_index) = 0 /\ Since(f, read_index) = 0
  BY <1>1, SinceStart
<1> HIDE DEF f
<1>6. IndexInv(f)
  <2>1. \A w \in Writers : Share(w) = 0 /\ ~Writing(w) /\ ~Claiming(w)
    BY <1>2 DEF Init, Share, Writing, Claiming, CPUs
  <2>2. \A r \in Readers : ~Fetching(r)
    BY <1>2 DEF Fetching, CPUs
  <2> QED BY <1>3, <1>5, <2>1, <2>2 DEF IndexInv
<1>7. UseInv(f) /\ SeenInv(f)
  BY <1>2 DEF UseInv, SeenInv, WriterSeen, ReaderSeen, WriterPassed, ReaderPassed,
              Writing, Reading, Claiming, Fetching, CPUs
<1>8. StateInv(f)
  <2>1. \A k \in Int : state[SlotAt(f, k)] = FREE
    BY <1>1, SlotAtType DEF Init
  <2>2. \A k \in 0 - max_n_elts .. 0 - 1 : k \in Int
    BY <1>3
  <2> QED BY <1>2, <1>5, <2>1, <2>2 DEF StateInv, CPUs
<1>9. DataInv(f)
  BY <1>2, <1>5 DEF DataInv, Writing, Reading, CPUs
<1> QED BY <1>1, <1>4, <1>6, <1>7, <1>8, <1>9 DEF FifoInv, FifoInvAt

LEMMA FifoInvStep ==
  ASSUME AtMostTwo(Writers), AtMostTwo(Readers), max_n_elts >= 2,
         NEW f \in FirstIndices, FifoInvAt(f), [Next]_vars
  PROVE  FifoInvAt(f)'
<1>1. CASE UNCHANGED vars
  BY <1>1 DEF vars, FifoInvAt, TypeInv, TypeOK, IndexInv, UseInv, StateInv, SeenInv, DataInv,
     WriterSeen, ReaderSeen, WriterPassed, ReaderPassed, Writing, Reading, Claiming, Fetching,
     Share, MySlot, Since, SlotAt
<1>2. ASSUME NEW w \in Writers, WriteStep(w)
      PROVE  FifoInvAt(f)'
  <2>1. TypeInv'
    BY <1>2, WriterTypes DEF FifoInvAt
  <2> QED BY <1>2, <2>1, WriteAllocStep, CheckFullStep, WriteStateStep, WriteSwapFails,
             WriteSwapStep, WriteMarkStep, WriteDataStep, WriteDoneStep DEF WriteStep
<1>3. ASSUME NEW r \in Readers, ReadStep(r)
      PROVE  FifoInvAt(f)'
  <2>1. TypeInv'
    BY <1>3, ReaderTypes DEF FifoInvAt
  <2> QED BY <1>3, <2>1, ReadFetchStep, CheckEmptyStep, ReadStateStep, ReadSwapFails,
             ReadSwapStep, ReadMarkStep, ReadDoneStep DEF ReadStep
<1> QED BY <1>1, <1>2, <1>3 DEF Next

(* FifoInv is an inductive invariant of the fifo: for every size from two  *)
(* elements on, every width of the indices and every start, however the    *)
(* accesses of two writers and two readers interleave.                     *)
THEOREM FifoInvariant ==
  ASSUME AtMostTwo(Writers), AtMostTwo(Readers), max_n_elts >= 2
  PROVE  Spec => []FifoInv
<1>1. FifoInv /\ [Next]_vars => FifoInv'
  BY FifoInvStep DEF FifoInv
<1> QED BY <1>1, FifoInvInit, PTL DEF Spec

-----------------------------------------------------------------------------
(* What follows from the invariant.                                        *)

(* smp_fifo.h, with two writers and two readers: the fields and footers    *)
(* keep their types, also across the wrap of the indices.                  *)
THEOREM FifoTypeOK ==
  ASSUME AtMostTwo(Writers), AtMostTwo(Readers), max_n_elts >= 2
  PROVE  Spec => []TypeOK
<1>1. FifoInv => TypeOK
  BY DEF FifoInv, FifoInvAt, TypeInv
<1> QED BY <1>1, FifoInvariant, PTL

(* The number of elements between the indices.                             *)
LEMMA ElementCount ==
  ASSUME NEW f \in FirstIndices, TypeInv, IndexInv(f)
  PROVE  /\ n_elts = Since(f, write_index) - Since(f, read_index)
         /\ n_elts \in Nat /\ n_elts <= max_n_elts
<1>1. /\ Since(f, write_index) \in Nat /\ Since(f, read_index) \in Nat
      /\ max_n_elts \in Nat /\ f \in Indices
  BY Places
<1>2. write_index \in Indices /\ read_index \in Indices
  BY DEF TypeInv, TypeOK
<1>3. /\ Since(f, read_index) <= Since(f, write_index)
      /\ Since(f, write_index) <= Since(f, read_index) + max_n_elts
  BY DEF IndexInv
<1>4. n_elts = Since(f, write_index) - Since(f, read_index)
  BY <1>1, <1>2, <1>3, SinceDistance DEF n_elts
<1> QED BY <1>1, <1>3, <1>4

(* The ASSERTs of clib_smp_fifo_write_alloc, write_done, read_fetch and    *)
(* read_done never fail.                                                   *)
THEOREM FifoAssertionsHold ==
  ASSUME AtMostTwo(Writers), AtMostTwo(Readers), max_n_elts >= 2
  PROVE  Spec => []AssertionsHold
<1>1. FifoInv => AssertionsHold
  <2> SUFFICES ASSUME NEW f \in FirstIndices, FifoInvAt(f)
               PROVE  AssertionsHold
    BY DEF FifoInv
  <2>1. n_elts <= max_n_elts_less_one + 1
    BY ElementCount, RangeType DEF FifoInvAt, max_n_elts_less_one
  <2> QED BY <2>1 DEF FifoInvAt, StateInv, AssertionsHold
<1> QED BY <1>1, FifoInvariant, PTL

(* No two CPUs ever use the same element.                                  *)
LEMMA UsersApart ==
  ASSUME NEW f \in FirstIndices, FifoInvAt(f)
  PROVE  ExclusiveUse
<1> SUFFICES ASSUME NEW c \in CPUs, NEW d \in CPUs, c # d, UsesSlot(c), UsesSlot(d)
             PROVE  MySlot(c) # MySlot(d)
  BY DEF ExclusiveUse, CPUs
<1> DEFINE I(e) == Since(f, index0[e])
<1>1. TypeInv /\ IndexInv(f) /\ UseInv(f)
  BY DEF FifoInvAt
<1>2. /\ Since(f, read_index) \in Nat /\ I(c) \in Nat /\ I(d) \in Nat
      /\ I(c) = I(d) => index0[c] = index0[d]
  BY <1>1, Places
<1>3. I(c) # I(d)
  <2>1. CASE c \in Writers /\ d \in Writers
    BY <1>1, <1>2, <2>1, SmpFifoAssumption DEF UseInv, UsesSlot, Writing
  <2>2. CASE c \in Readers /\ d \in Readers
    BY <1>1, <1>2, <2>2, SmpFifoAssumption DEF UseInv, UsesSlot, Reading
  <2>3. CASE c \in Writers /\ d \in Readers
    <3>1. Since(f, read_index) <= I(c) /\ I(d) < Since(f, read_index)
      BY <1>1, <2>3, SmpFifoAssumption DEF UseInv, UsesSlot, Writing, Reading
    <3> QED BY <1>2, <3>1
  <2>4. CASE c \in Readers /\ d \in Writers
    <3>1. Since(f, read_index) <= I(d) /\ I(c) < Since(f, read_index)
      BY <1>1, <2>4, SmpFifoAssumption DEF UseInv, UsesSlot, Writing, Reading
    <3> QED BY <1>2, <3>1
  <2> QED BY <2>1, <2>2, <2>3, <2>4 DEF CPUs
<1>4. I(d) \in Since(f, write_index) - max_n_elts .. Since(f, write_index) - 1
  BY <1>1, OtherSlots
<1>5. SlotAt(f, I(d)) # MySlot(c)
  BY <1>1, <1>3, <1>4, OtherSlots
<1> QED BY <1>1, <1>5, Places

(* Between its swap and its write_done or read_done a CPU has its element  *)
(* to itself.                                                              *)
THEOREM FifoExclusiveUse ==
  ASSUME AtMostTwo(Writers), AtMostTwo(Readers), max_n_elts >= 2
  PROVE  Spec => []ExclusiveUse
<1>1. FifoInv => ExclusiveUse
  BY UsersApart DEF FifoInv
<1> QED BY <1>1, FifoInvariant, PTL

-----------------------------------------------------------------------------
(* The fifo implements SlotQueue: the places between the indices are its   *)
(* queue.                                                                  *)
Queued == [tx_cpu : Writers, serial : 0 .. MaxSerial, done : BOOLEAN]

LEMMA SequenceOfPlaces ==
  ASSUME NEW S, NEW n \in Nat, NEW q \in [1 .. n -> S]
  PROVE  q \in Seq(S) /\ Len(q) = n
OBVIOUS

LEMMA PublishedElement ==
  ASSUME NEW q \in Queued
  PROVE  [q EXCEPT !.done = TRUE] = [tx_cpu |-> q.tx_cpu, serial |-> q.serial, done |-> TRUE]
<1> DEFINE e == [q EXCEPT !.done = TRUE]
<1>1. e \in Queued
  BY DEF Queued
<1>2. e.tx_cpu = q.tx_cpu /\ e.serial = q.serial /\ e.done = TRUE
  BY DEF Queued
<1> HIDE DEF e
<1>3. e = [tx_cpu |-> e.tx_cpu, serial |-> e.serial, done |-> e.done]
  BY <1>1 DEF Queued
<1>4. e = [tx_cpu |-> q.tx_cpu, serial |-> q.serial, done |-> TRUE]
  BY <1>2, <1>3
<1> QED BY <1>4 DEF e

(* An element between the indices that is not done has a writer.           *)
LEMMA PendingHasWriter ==
  ASSUME NEW f \in FirstIndices, FifoInvAt(f),
         NEW k \in Since(f, read_index) .. Since(f, write_index) - 1,
         state[SlotAt(f, k)] # WRITE_DONE
  PROVE  /\ claimer[SlotAt(f, k)] \in Writers /\ Writing(claimer[SlotAt(f, k)])
         /\ Since(f, index0[claimer[SlotAt(f, k)]]) = k
<1>1. PICK w \in Writers : Writing(w) /\ Since(f, index0[w]) = k
  BY DEF FifoInvAt, StateInv
<1>2. MySlot(w) = SlotAt(f, k)
  BY <1>1, Places DEF FifoInvAt, CPUs
<1>3. claimer[MySlot(w)] = w
  BY <1>1 DEF FifoInvAt, DataInv
<1> QED BY <1>1, <1>2, <1>3

QueueFacts(f) ==
  /\ n_elts = Since(f, write_index) - Since(f, read_index) /\ n_elts \in Nat
  /\ \A i \in 1 .. n_elts :
       /\ Since(f, read_index) + (i - 1) \in Since(f, read_index) .. Since(f, write_index) - 1
       /\ Queue[i] = QueuedIn(SlotAt(f, Since(f, read_index) + (i - 1)))
       /\ Queue[i] \in Queued
  /\ Queue \in Seq(Queued) /\ Len(Queue) = n_elts /\ DOMAIN Queue = 1 .. n_elts

LEMMA QueueType == \A f \in FirstIndices : FifoInvAt(f) => QueueFacts(f)
<1> SUFFICES ASSUME NEW f \in FirstIndices, FifoInvAt(f)
             PROVE  QueueFacts(f)
  OBVIOUS
<1> DEFINE W == Since(f, write_index)
           R == Since(f, read_index)
<1>1. TypeInv /\ IndexInv(f) /\ DataInv(f) /\ f \in Indices /\ read_index \in Indices
  BY SmpFifoAssumption DEF FifoInvAt, TypeInv, TypeOK
<1>2. n_elts = W - R /\ n_elts \in Nat /\ W \in Nat /\ R \in Nat
  BY <1>1, ElementCount, Places
<1>3. ASSUME NEW i \in 1 .. n_elts
      PROVE  /\ R + (i - 1) \in R .. W - 1
             /\ Queue[i] = QueuedIn(SlotAt(f, R + (i - 1)))
             /\ Queue[i] \in Queued
  <2> DEFINE j == i - 1
             s == SlotAt(f, R + j)
  <2>1. j \in Int /\ R + j \in R .. W - 1
    BY <1>2
  <2>2. Queue[i] = QueuedIn(SlotOf(read_index + j))
    BY DEF Queue
  <2> HIDE DEF j
  <2>3. SlotOf(read_index + j) = s
    BY <1>1, <2>1, SlotOfAny
  <2>4. QueuedIn(s) \in Queued
    <3>1. CASE state[s] = WRITE_DONE
      <4>1. data[s] \in Elements
        BY <1>1, <2>1, <3>1 DEF DataInv
      <4>2. data[s].tx_cpu \in Writers /\ data[s].serial \in 0 .. MaxSerial
        BY <4>1, SmpFifoAssumption DEF Elements
      <4> QED BY <3>1, <4>2 DEF QueuedIn, Queued
    <3>2. CASE state[s] # WRITE_DONE
      <4>1. claimer[s] \in Writers
        BY <2>1, <3>2, PendingHasWriter
      <4>2. serial[claimer[s]] \in 0 .. MaxSerial
        BY <1>1, <4>1 DEF TypeInv, TypeOK
      <4> QED BY <3>2, <4>1, <4>2 DEF QueuedIn, Queued
    <3> QED BY <3>1, <3>2
  <2> QED BY <2>1, <2>2, <2>3, <2>4 DEF j
<1>4. Queue \in [1 .. n_elts -> Queued]
  BY <1>3 DEF Queue
<1>5. Queue \in Seq(Queued) /\ Len(Queue) = n_elts
  BY <1>2, <1>4, SequenceOfPlaces
<1> QED BY <1>2, <1>3, <1>4, <1>5 DEF QueueFacts

LEMMA QueueTypeNext == \A f \in FirstIndices : FifoInvAt(f)' => QueueFacts(f)'
<1>1. (\A f \in FirstIndices : FifoInvAt(f) => QueueFacts(f))'
  BY QueueType, PTL
<1> QED BY <1>1

(* A step that changes neither the indices nor what the places between     *)
(* them stand for does not change the queue.                               *)
LEMMA QueueKept ==
  ASSUME NEW f \in FirstIndices, FifoInvAt(f), FifoInvAt(f)',
         UNCHANGED <<write_index, read_index>>,
         \A k \in Since(f, read_index) .. Since(f, write_index) - 1 :
           QueuedIn(SlotAt(f, k))' = QueuedIn(SlotAt(f, k))
  PROVE  Queue' = Queue
<1>1. n_elts' = n_elts
  BY DEF n_elts
<1>2. /\ Since(f, read_index)' = Since(f, read_index)
      /\ \A k : SlotAt(f, k)' = SlotAt(f, k)
  BY DEF Since, SlotAt
<1>3. \A i \in 1 .. n_elts : Queue[i] = QueuedIn(SlotAt(f, Since(f, read_index) + (i - 1)))
                             /\ Since(f, read_index) + (i - 1)
                                  \in Since(f, read_index) .. Since(f, write_index) - 1
  BY QueueType DEF QueueFacts
<1>4. \A i \in 1 .. n_elts' : Queue'[i] = QueuedIn(SlotAt(f, Since(f, read_index) + (i - 1)))'
  BY QueueTypeNext DEF QueueFacts
<1>5. \A i \in 1 .. n_elts : Queue'[i] = Queue[i]
  BY <1>1, <1>2, <1>3, <1>4
<1> QED BY <1>1, <1>5 DEF Queue

LEMMA HoldingKept ==
  ASSUME \A r \in Readers :
           /\ UsesSlot(r)' <=> UsesSlot(r)
           /\ UsesSlot(r) => index0'[r] = index0[r] /\ data'[MySlot(r)] = data[MySlot(r)]
  PROVE  Holding' = Holding
BY DEF Holding, MySlot

LEMMA QuietStutters ==
  ASSUME NEW c \in CPUs, Quiet(c)
  PROVE  UNCHANGED Abstract!queueVars
<1>1. Queue' = Queue
  BY DEF Quiet, Queue, n_elts, QueuedIn
<1>2. \A r \in Readers :
        /\ UsesSlot(r)' <=> UsesSlot(r)
        /\ UsesSlot(r) => index0'[r] = index0[r] /\ data'[MySlot(r)] = data[MySlot(r)]
  BY SmpFifoAssumption DEF Quiet, UsesSlot, CPUs
<1> QED BY <1>1, <1>2, HoldingKept DEF Quiet, Abstract!queueVars

(* The element a CPU uses, and the others.                                 *)
LEMMA UserPlace ==
  ASSUME NEW f \in FirstIndices, FifoInvAt(f), NEW c \in CPUs, UsesSlot(c)
  PROVE  /\ MySlot(c) = SlotAt(f, Since(f, index0[c])) /\ MySlot(c) \in Slots
         /\ \A k \in Since(f, read_index) .. Since(f, write_index) - 1 :
              /\ k # Since(f, index0[c]) => SlotAt(f, k) # MySlot(c)
              /\ SlotAt(f, k) \in Slots
         /\ c \in Writers =>
              Since(f, index0[c]) \in Since(f, read_index) .. Since(f, write_index) - 1
         /\ c \in Readers =>
              \A k \in Since(f, read_index) .. Since(f, write_index) - 1 : SlotAt(f, k) # MySlot(c)
         /\ \A d \in CPUs : d # c /\ UsesSlot(d) => MySlot(d) # MySlot(c)
<1> DEFINE W == Since(f, write_index)
           R == Since(f, read_index)
           I == Since(f, index0[c])
<1>1. TypeInv /\ IndexInv(f) /\ UseInv(f)
  BY DEF FifoInvAt
<1>2. /\ W \in Nat /\ R \in Nat /\ I \in Nat /\ R <= W /\ W <= R + max_n_elts
      /\ max_n_elts \in Nat /\ f \in Indices /\ MySlot(c) = SlotAt(f, I) /\ MySlot(c) \in Slots
  BY <1>1, Places DEF IndexInv
<1>3. \A k \in W - max_n_elts .. W - 1 : k # I => SlotAt(f, k) # MySlot(c)
  BY <1>1, OtherSlots
<1>4. \A k \in R .. W - 1 : k \in W - max_n_elts .. W - 1 /\ k \in Int
  BY <1>2
<1>5. \A k \in R .. W - 1 : SlotAt(f, k) \in Slots
  BY <1>2, <1>4, SlotAtType
<1>6. c \in Writers => I \in R .. W - 1
  BY <1>1, <1>2, SmpFifoAssumption DEF UseInv, UsesSlot, Writing
<1>7. c \in Readers => \A k \in R .. W - 1 : k # I
  <2>1. c \in Readers => I < R
    BY <1>1, SmpFifoAssumption DEF UseInv, UsesSlot, Reading
  <2> QED BY <1>2, <2>1
<1>8. \A d \in CPUs : d # c /\ UsesSlot(d) => MySlot(d) # MySlot(c)
  BY UsersApart DEF ExclusiveUse, CPUs
<1> QED BY <1>2, <1>3, <1>4, <1>5, <1>6, <1>7, <1>8

(* Marking an element, and filling it in, is not seen.                     *)
LEMMA WriteMarkStutters ==
  ASSUME NEW f \in FirstIndices, FifoInvAt(f), FifoInvAt(f)', NEW w \in Writers, WriteMark(w)
  PROVE  UNCHANGED Abstract!queueVars
<1>1. w \in CPUs /\ UsesSlot(w) /\ state[MySlot(w)] # WRITE_DONE
  BY DEF WriteMark, UsesSlot, CPUs, FifoInvAt, StateInv, FREE, WRITE_DONE
<1>2. state' = [state EXCEPT ![MySlot(w)] = WRITE_ALLOC] /\ state \in [Slots -> States]
  BY DEF WriteMark, Mark, FifoInvAt, TypeInv, TypeOK
<1>3. \A s \in Slots : state'[s] = WRITE_DONE <=> state[s] = WRITE_DONE
  BY <1>1, <1>2 DEF WRITE_ALLOC, WRITE_DONE
<1>4. Queue' = Queue
  <2>1. \A k \in Since(f, read_index) .. Since(f, write_index) - 1 :
          QueuedIn(SlotAt(f, k))' = QueuedIn(SlotAt(f, k))
    BY <1>1, <1>3, UserPlace DEF WriteMark, QueuedIn, SlotAt
  <2> QED BY <2>1, QueueKept DEF WriteMark
<1>5. Holding' = Holding
  <2>1. \A r \in Readers : pc'[r] = pc[r]
    BY SmpFifoAssumption DEF WriteMark, Goto, FifoInvAt, TypeInv, TypeOK
  <2> QED BY <2>1, SmpFifoAssumption, HoldingKept DEF WriteMark, UsesSlot
<1> QED BY <1>4, <1>5 DEF WriteMark, Abstract!queueVars

LEMMA WriteDataStutters ==
  ASSUME NEW f \in FirstIndices, FifoInvAt(f), FifoInvAt(f)', NEW w \in Writers, WriteData(w)
  PROVE  UNCHANGED Abstract!queueVars
<1>1. w \in CPUs /\ w \notin Readers /\ UsesSlot(w) /\ state[MySlot(w)] # WRITE_DONE
  BY SmpFifoAssumption DEF WriteData, UsesSlot, CPUs, FifoInvAt, StateInv, WRITE_ALLOC, WRITE_DONE
<1>2. \A s \in Slots : s # MySlot(w) => data'[s] = data[s]
  BY DEF WriteData, FifoInvAt, TypeInv, TypeOK
<1>3. Queue' = Queue
  <2>0. ASSUME NEW s \in Slots
        PROVE  QueuedIn(s)' = QueuedIn(s)
    <3>1. UNCHANGED <<state, claimer, serial>>
      BY DEF WriteData
    <3>2. CASE s = MySlot(w)
      BY <1>1, <3>1, <3>2 DEF QueuedIn
    <3>3. CASE s # MySlot(w)
      BY <1>2, <3>1, <3>3 DEF QueuedIn
    <3> QED BY <3>2, <3>3
  <2>1. \A k \in Since(f, read_index) .. Since(f, write_index) - 1 :
          QueuedIn(SlotAt(f, k))' = QueuedIn(SlotAt(f, k))
    BY <1>1, <2>0, UserPlace DEF SlotAt
  <2> QED BY <2>1, QueueKept DEF WriteData
<1>4. Holding' = Holding
  <2>1. \A r \in Readers : pc'[r] = pc[r]
    BY SmpFifoAssumption DEF WriteData, Goto, FifoInvAt, TypeInv, TypeOK
  <2>2. \A r \in Readers : UsesSlot(r) => MySlot(r) # MySlot(w) /\ MySlot(r) \in Slots
    BY <1>1, UserPlace DEF CPUs
  <2> QED BY <1>2, <2>1, <2>2, SmpFifoAssumption, HoldingKept DEF WriteData, UsesSlot
<1> QED BY <1>3, <1>4 DEF WriteData, Abstract!queueVars

LEMMA ReadMarkStutters ==
  ASSUME NEW f \in FirstIndices, FifoInvAt(f), FifoInvAt(f)', NEW r \in Readers, ReadMark(r)
  PROVE  UNCHANGED Abstract!queueVars
<1>1. r \in CPUs /\ r \notin Writers /\ UsesSlot(r)
  BY SmpFifoAssumption DEF ReadMark, UsesSlot, CPUs
<1>2. \A s \in Slots : s # MySlot(r) => state'[s] = state[s]
  BY DEF ReadMark, Mark, FifoInvAt, TypeInv, TypeOK
<1>3. Queue' = Queue
  <2>1. \A k \in Since(f, read_index) .. Since(f, write_index) - 1 :
          QueuedIn(SlotAt(f, k))' = QueuedIn(SlotAt(f, k))
    BY <1>1, <1>2, UserPlace DEF ReadMark, QueuedIn, SlotAt
  <2> QED BY <2>1, QueueKept DEF ReadMark
<1>4. Holding' = Holding
  <2>1. \A q \in Readers : UsesSlot(q)' <=> UsesSlot(q)
    BY SmpFifoAssumption DEF ReadMark, Goto, UsesSlot, FifoInvAt, TypeInv, TypeOK
  <2> QED BY <2>1, HoldingKept DEF ReadMark
<1> QED BY <1>3, <1>4 DEF ReadMark, Abstract!queueVars

(* read_done gives the place back.                                         *)
LEMMA ReadDoneGivesBack ==
  ASSUME NEW f \in FirstIndices, FifoInvAt(f), FifoInvAt(f)', NEW r \in Readers, ReadDone(r)
  PROVE  Abstract!GiveBack(r)
<1>1. r \in CPUs /\ r \notin Writers /\ UsesSlot(r)
  BY SmpFifoAssumption DEF ReadDone, UsesSlot, CPUs
<1>2. \A s \in Slots : s # MySlot(r) => state'[s] = state[s]
  BY DEF ReadDone, Mark, FifoInvAt, TypeInv, TypeOK
<1>3. Queue' = Queue
  <2>1. \A k \in Since(f, read_index) .. Since(f, write_index) - 1 :
          QueuedIn(SlotAt(f, k))' = QueuedIn(SlotAt(f, k))
    BY <1>1, <1>2, UserPlace DEF ReadDone, QueuedIn, SlotAt
  <2> QED BY <2>1, QueueKept DEF ReadDone
<1>4. Holding[r] # Nothing
  <2>1. data[MySlot(r)] \in Elements
    BY DEF ReadDone, Reading, FifoInvAt, DataInv
  <2>2. Holding[r] = [tx_cpu |-> data[MySlot(r)].tx_cpu, serial |-> data[MySlot(r)].serial, done |-> TRUE]
    BY <1>1 DEF Holding
  <2>3. data[MySlot(r)].tx_cpu \in Writers /\ data[MySlot(r)].serial \in 0 .. MaxSerial
    BY <2>1, SmpFifoAssumption DEF Elements
  <2>4. Holding[r] \in [tx_cpu : Writers, serial : 0 .. MaxSerial, done : BOOLEAN]
    BY <2>2, <2>3
  <2> QED BY <2>4, NothingAssumption
<1>5. Holding' = [Holding EXCEPT ![r] = Nothing]
  <2>1. ~UsesSlot(r)'
    BY SmpFifoAssumption DEF ReadDone, Return, Goto, UsesSlot, FifoInvAt, TypeInv, TypeOK
  <2>2. \A q \in Readers : q # r => (UsesSlot(q)' <=> UsesSlot(q)) /\ index0'[q] = index0[q]
    BY SmpFifoAssumption DEF ReadDone, Return, Goto, Keep, UsesSlot, FifoInvAt, TypeInv, TypeOK
  <2>3. data' = data
    BY DEF ReadDone
  <2> QED BY <2>1, <2>2, <2>3 DEF Holding, MySlot
<1> QED BY <1>3, <1>4, <1>5 DEF ReadDone, Abstract!GiveBack

(* A successful swap of the write index reserves a place: the readers that *)
(* still use elements use different ones, none of them the place claimed.  *)
LEMMA WriteSwapReserves ==
  ASSUME NEW f \in FirstIndices, FifoInvAt(f), FifoInvAt(f)',
         Since(f, write_index)' = Since(f, write_index) + 1,
         NEW w \in Writers, WriteSwap(w), write_index = index0[w]
  PROVE  Abstract!Reserve(w)
<1> DEFINE W == Since(f, write_index)
           R == Since(f, read_index)
           N == max_n_elts
           elt == [tx_cpu |-> w, serial |-> serial[w], done |-> FALSE]
<1>1. TypeInv /\ IndexInv(f) /\ UseInv(f) /\ SeenInv(f) /\ w \in CPUs /\ w \notin Readers
  BY SmpFifoAssumption DEF FifoInvAt, CPUs
<1>2. /\ pc[w] = "write_cas" /\ ~Writing(w)
      /\ claimer' = [claimer EXCEPT ![MySlot(w)] = w]
      /\ \A r \in Readers : pc'[r] = pc[r]
      /\ UNCHANGED <<read_index, index0, state, data, serial>>
  BY <1>1 DEF WriteSwap, Goto, TypeInv, TypeOK, Writing
<1>3. /\ W \in Nat /\ R \in Nat /\ N \in Nat \ {0} /\ f \in Indices
      /\ MySlot(w) = SlotAt(f, W) /\ MySlot(w) \in Slots
      /\ \A c \in CPUs : Since(f, index0[c]) \in Nat
  BY <1>1, Places
<1>4. /\ R <= W /\ W < R + N /\ state[MySlot(w)] = FREE
      /\ \A r \in Readers : Reading(r) => Since(f, index0[r]) # W - N
  BY <1>1, <1>2 DEF SeenInv, WriterSeen, IndexInv
<1>5. /\ n_elts = W - R /\ n_elts \in Nat /\ n_elts' = n_elts + 1
      /\ Queue \in Seq(Queued) /\ Len(Queue) = n_elts /\ DOMAIN Queue = 1 .. n_elts
      /\ \A i \in 1 .. n_elts : R + (i - 1) \in R .. W - 1
                                /\ Queue[i] = QueuedIn(SlotAt(f, R + (i - 1)))
      /\ R' = R /\ (\A k : SlotAt(f, k)' = SlotAt(f, k))
      /\ Queue' \in Seq(Queued) /\ Len(Queue') = n_elts'
      /\ \A i \in 1 .. n_elts' : Queue'[i] = QueuedIn(SlotAt(f, R + (i - 1)))'
  <2>1. QueueFacts(f) /\ QueueFacts(f)'
    BY QueueType, QueueTypeNext
  <2>2. R' = R /\ (\A k : SlotAt(f, k)' = SlotAt(f, k))
    BY <1>2 DEF Since, SlotAt
  <2>3. n_elts = W - R /\ n_elts' = W' - R'
    BY <2>1 DEF QueueFacts
  <2>4. n_elts' = n_elts + 1
    BY <1>3, <2>2, <2>3
  <2> QED BY <2>1, <2>2, <2>4 DEF QueueFacts
<1>6. Len(Queue) + Cardinality(Abstract!Held) < N
  <2> DEFINE U == {r \in Readers : Reading(r)}
             T == W - N + 1 .. R - 1
             p == [r \in U |-> Since(f, index0[r])]
  <2>1. \A r \in U : r \in CPUs /\ Since(f, index0[r]) \in T
    <3> SUFFICES ASSUME NEW r \in U PROVE r \in CPUs /\ Since(f, index0[r]) \in T
      OBVIOUS
    <3>1. r \in CPUs /\ Since(f, index0[r]) < R /\ W <= Since(f, index0[r]) + N
          /\ Since(f, index0[r]) # W - N
      BY <1>1, <1>4 DEF UseInv, CPUs
    <3> QED BY <1>3, <3>1
  <2>2. \A q, r \in U : p[q] = p[r] => q = r
    BY <1>1, <2>1, Places DEF UseInv
  <2>3. p \in Injection(U, T)
    <3> HIDE DEF U, T
    <3>1. p \in [U -> T]
      BY <2>1
    <3> QED BY <2>2, <3>1 DEF Injection, IsInjective
  <2>4. IsFiniteSet(T) /\ Cardinality(T) = R - 1 - (W - N)
    <3>1. W - N + 1 \in Int /\ R - 1 \in Int /\ W - N + 1 <= R
      BY <1>3, <1>4
    <3>2. IsFiniteSet(T) /\ Cardinality(T) = IF W - N + 1 > R - 1 THEN 0 ELSE R - 1 - (W - N + 1) + 1
      BY <3>1, FS_Interval
    <3> QED BY <1>3, <3>1, <3>2
  <2>5. IsFiniteSet(U) /\ Cardinality(U) <= Cardinality(T)
    BY <2>3, <2>4, FS_Injection
  <2>6. Abstract!Held \subseteq U
    BY SmpFifoAssumption DEF Abstract!Held, Holding, UsesSlot, Reading
  <2>7. Cardinality(Abstract!Held) <= Cardinality(U)
        /\ Cardinality(Abstract!Held) \in Nat /\ Cardinality(U) \in Nat
    <3> HIDE DEF U
    <3>1. Abstract!Held \in SUBSET U
      BY <2>6
    <3>2. IsFiniteSet(Abstract!Held) /\ Cardinality(Abstract!Held) <= Cardinality(U)
      BY <2>5, <3>1, FS_Subset
    <3> QED BY <2>5, <3>2, FS_CardinalityType
  <2> HIDE DEF U, T
  <2> QED BY <1>3, <1>5, <2>4, <2>5, <2>7
<1>7. ASSUME NEW i \in DOMAIN Queue
      PROVE  ~Abstract!PendingAt(w, i)
  <2> DEFINE s == SlotAt(f, R + (i - 1))
  <2>1. Queue[i] = QueuedIn(s) /\ R + (i - 1) \in R .. W - 1
    BY <1>5
  <2>2. CASE state[s] = WRITE_DONE
    BY <2>1, <2>2 DEF QueuedIn, Abstract!PendingAt
  <2>3. CASE state[s] # WRITE_DONE
    <3>1. Writing(claimer[s])
      BY <2>1, <2>3, PendingHasWriter
    <3> QED BY <1>2, <2>1, <2>3, <3>1 DEF QueuedIn, Abstract!PendingAt
  <2> QED BY <2>2, <2>3
<1>8. Queue' = Append(Queue, elt)
  <2>1. elt \in Queued
    BY <1>1 DEF TypeInv, TypeOK, Queued
  <2>2. /\ Append(Queue, elt) \in Seq(Queued) /\ Len(Append(Queue, elt)) = n_elts + 1
        /\ \A i \in 1 .. n_elts : Append(Queue, elt)[i] = Queue[i]
        /\ Append(Queue, elt)[n_elts + 1] = elt
    BY <1>5, <2>1, AppendProperties
  <2>3. \A k \in R .. W - 1 : SlotAt(f, k) # MySlot(w) /\ SlotAt(f, k) \in Slots
    <3> SUFFICES ASSUME NEW k \in R .. W - 1
                 PROVE  SlotAt(f, k) # SlotAt(f, W) /\ SlotAt(f, k) \in Slots
      BY <1>3
    <3>1. k \in Int /\ W \in Int /\ k # W /\ k < W + max_n_elts /\ W < k + max_n_elts
      BY <1>3, <1>4
    <3> QED BY <1>3, <3>1, SlotAtApart, SlotAtType
  <2>4. claimer \in [Slots -> Writers \cup {Nothing}]
    BY <1>1 DEF TypeInv, TypeOK
  <2>5. \A k \in R .. W - 1 : QueuedIn(SlotAt(f, k))' = QueuedIn(SlotAt(f, k))
    BY <1>2, <2>3, <2>4 DEF QueuedIn, SlotAt
  <2>6. \A i \in 1 .. n_elts : Queue'[i] = Queue[i]
    <3> SUFFICES ASSUME NEW i \in 1 .. n_elts PROVE Queue'[i] = Queue[i]
      OBVIOUS
    <3>1. i \in 1 .. n_elts'
      BY <1>5
    <3> QED BY <1>5, <2>5, <3>1
  <2>7. Queue'[n_elts + 1] = elt
    <3>0. PICK k \in Nat : k = W
      BY <1>3
    <3>1. n_elts + 1 \in 1 .. n_elts' /\ R + ((n_elts + 1) - 1) = k
      BY <1>3, <1>5, <3>0
    <3>2. Queue'[n_elts + 1] = QueuedIn(SlotAt(f, k))'
      BY <1>5, <3>1
    <3>3. claimer'[SlotAt(f, k)] = w /\ state'[SlotAt(f, k)] # WRITE_DONE
      BY <1>2, <1>3, <1>4, <2>4, <3>0 DEF FREE, WRITE_DONE
    <3> QED BY <1>2, <3>2, <3>3 DEF QueuedIn, SlotAt
  <2>8. Len(Queue') = n_elts + 1 /\ \A i \in 1 .. n_elts + 1 : Queue'[i] = Append(Queue, elt)[i]
    <3>1. \A i \in 1 .. n_elts + 1 : i \in 1 .. n_elts \/ i = n_elts + 1
      BY <1>5
    <3> QED BY <1>5, <2>2, <2>6, <2>7, <3>1
  <2> QED BY <1>5, <2>2, <2>8, SeqEqual
<1>9. Holding' = Holding
  <2>1. \A r \in Readers : UsesSlot(r)' <=> UsesSlot(r)
    BY <1>2, SmpFifoAssumption DEF UsesSlot
  <2> QED BY <1>2, <2>1, HoldingKept
<1>10. Abstract!Cardinality(Abstract!Held) = Cardinality(Abstract!Held)
  BY DEF Abstract!Cardinality, Cardinality
<1> QED BY <1>2, <1>6, <1>7, <1>8, <1>9, <1>10 DEF Abstract!Reserve

(* write_done publishes the element of its writer, wherever it is in the   *)
(* queue by then.                                                          *)
LEMMA WriteDonePublishes ==
  ASSUME NEW f \in FirstIndices, FifoInvAt(f), FifoInvAt(f)', NEW w \in Writers, WriteDone(w)
  PROVE  Abstract!Publish(w)
<1> DEFINE W == Since(f, write_index)
           R == Since(f, read_index)
           I == Since(f, index0[w])
           p == I - R + 1
<1>1. /\ TypeInv /\ DataInv(f) /\ StateInv(f) /\ w \in CPUs /\ w \notin Readers /\ UsesSlot(w)
  BY SmpFifoAssumption DEF FifoInvAt, CPUs, WriteDone, UsesSlot
<1>2. /\ pc[w] = "write_done" /\ Writing(w)
      /\ state' = [state EXCEPT ![MySlot(w)] = WRITE_DONE] /\ state \in [Slots -> States]
      /\ serial' = [serial EXCEPT ![w] = @ + 1] /\ serial \in [Writers -> 0 .. MaxSerial]
      /\ \A r \in Readers : pc'[r] = pc[r] /\ index0'[r] = index0[r]
      /\ UNCHANGED <<write_index, read_index, data, claimer>>
  BY <1>1 DEF WriteDone, Mark, Return, Goto, Keep, TypeInv, TypeOK, Writing
<1>3. /\ MySlot(w) = SlotAt(f, I) /\ MySlot(w) \in Slots /\ I \in R .. W - 1
      /\ \A k \in R .. W - 1 : (k # I => SlotAt(f, k) # MySlot(w)) /\ SlotAt(f, k) \in Slots
  BY <1>1, UserPlace
<1>4. /\ W \in Nat /\ R \in Nat /\ n_elts = W - R /\ n_elts' = n_elts
      /\ Queue \in Seq(Queued) /\ Len(Queue) = n_elts /\ DOMAIN Queue = 1 .. n_elts
      /\ \A i \in 1 .. n_elts : /\ R + (i - 1) \in R .. W - 1
                                /\ Queue[i] = QueuedIn(SlotAt(f, R + (i - 1)))
                                /\ Queue[i] \in Queued
      /\ R' = R /\ (\A k : SlotAt(f, k)' = SlotAt(f, k))
      /\ Queue' \in Seq(Queued) /\ Len(Queue') = n_elts
      /\ \A i \in 1 .. n_elts : Queue'[i] = QueuedIn(SlotAt(f, R + (i - 1)))'
  <2>1. QueueFacts(f) /\ QueueFacts(f)'
    BY QueueType, QueueTypeNext
  <2>2. R' = R /\ n_elts' = n_elts /\ (\A k : SlotAt(f, k)' = SlotAt(f, k))
    BY <1>2 DEF Since, SlotAt, n_elts
  <2>3. W \in Nat /\ R \in Nat
    BY <1>1, Places
  <2> QED BY <2>1, <2>2, <2>3 DEF QueueFacts
<1>5. p \in 1 .. n_elts /\ R + (p - 1) = I
  BY <1>3, <1>4
<1>6. /\ state[MySlot(w)] # WRITE_DONE /\ claimer[MySlot(w)] = w
      /\ data[MySlot(w)] = Element(w, serial[w])
  BY <1>1, <1>2 DEF StateInv, DataInv, WRITE_ALLOC, WRITE_DONE
<1>7. Queue[p] = [tx_cpu |-> w, serial |-> serial[w], done |-> FALSE]
  BY <1>3, <1>4, <1>5, <1>6 DEF QueuedIn
<1>8. Queue'[p] = [tx_cpu |-> w, serial |-> serial[w], done |-> TRUE]
  <2>0. PICK k \in Int : k = I
    BY <1>3, <1>4
  <2>1. Queue'[p] = QueuedIn(SlotAt(f, k))'
    BY <1>4, <1>5, <2>0
  <2>2. state'[SlotAt(f, k)] = WRITE_DONE /\ data'[SlotAt(f, k)] = Element(w, serial[w])
    BY <1>2, <1>3, <1>6, <2>0
  <2>3. QueuedIn(SlotAt(f, k))' = [tx_cpu |-> w, serial |-> serial[w], done |-> TRUE]
    BY <1>4, <2>2 DEF QueuedIn, Element
  <2> QED BY <2>1, <2>3
<1>9. ASSUME NEW i \in 1 .. n_elts, i # p
      PROVE  Queue'[i] = Queue[i]
  <2>1. PICK k \in R .. W - 1 : k = R + (i - 1) /\ k # I
    BY <1>3, <1>4, <1>9
  <2>2. Queue[i] = QueuedIn(SlotAt(f, k)) /\ Queue'[i] = QueuedIn(SlotAt(f, k))'
    BY <1>4, <2>1
  <2>3. SlotAt(f, k) # MySlot(w) /\ SlotAt(f, k) \in Slots /\ SlotAt(f, k)' = SlotAt(f, k)
    BY <1>3, <1>4, <2>1
  <2>4. state'[SlotAt(f, k)] = state[SlotAt(f, k)]
    BY <1>2, <2>3
  <2>5. CASE state[SlotAt(f, k)] = WRITE_DONE
    BY <1>2, <2>2, <2>3, <2>4, <2>5 DEF QueuedIn
  <2>6. CASE state[SlotAt(f, k)] # WRITE_DONE
    <3>1. claimer[SlotAt(f, k)] \in Writers /\ Since(f, index0[claimer[SlotAt(f, k)]]) = k
      BY <2>1, <2>6, PendingHasWriter
    <3>2. claimer[SlotAt(f, k)] # w
      BY <2>1, <3>1
    <3>3. serial'[claimer[SlotAt(f, k)]] = serial[claimer[SlotAt(f, k)]]
      BY <1>2, <3>1, <3>2
    <3> QED BY <1>2, <2>2, <2>3, <2>4, <2>6, <3>3 DEF QueuedIn
  <2> QED BY <2>5, <2>6
<1>10. Queue' = [Queue EXCEPT ![p].done = TRUE]
  <2> DEFINE e == [tx_cpu |-> w, serial |-> serial[w], done |-> TRUE]
  <2>1. [Queue[p] EXCEPT !.done = TRUE] = e
    <3>1. Queue[p] \in Queued /\ Queue[p].tx_cpu = w /\ Queue[p].serial = serial[w]
      BY <1>4, <1>5, <1>7
    <3> HIDE DEF p
    <3>2. [Queue[p] EXCEPT !.done = TRUE]
            = [tx_cpu |-> Queue[p].tx_cpu, serial |-> Queue[p].serial, done |-> TRUE]
      BY <3>1, PublishedElement
    <3> QED BY <3>1, <3>2
  <2>2. e \in Queued
    BY <1>2 DEF Queued
  <2> HIDE DEF e, p
  <2>3. [Queue EXCEPT ![p] = e] \in Seq(Queued) /\ Len([Queue EXCEPT ![p] = e]) = n_elts
        /\ \A i \in 1 .. n_elts : [Queue EXCEPT ![p] = e][i] = IF i = p THEN e ELSE Queue[i]
    BY <1>4, <1>5, <2>2, ExceptSeq
  <2>4. \A i \in 1 .. n_elts : Queue'[i] = [Queue EXCEPT ![p] = e][i]
    BY <1>8, <1>9, <2>3 DEF e
  <2>5. Queue' = [Queue EXCEPT ![p] = e]
    BY <1>4, <2>3, <2>4, SeqEqual
  <2> QED BY <2>1, <2>5
<1>11. Holding' = Holding
  <2>1. \A r \in Readers : UsesSlot(r)' <=> UsesSlot(r)
    BY <1>2, SmpFifoAssumption DEF UsesSlot
  <2> QED BY <1>2, <2>1, HoldingKept
<1>12. Abstract!PendingAt(w, p) /\ p \in DOMAIN Queue
  BY <1>4, <1>5, <1>7 DEF Abstract!PendingAt
<1> HIDE DEF p
<1> QED BY <1>2, <1>10, <1>11, <1>12 DEF Abstract!Publish

(* A successful swap of the read index takes the first element.            *)
LEMMA ReadSwapTakes ==
  ASSUME NEW f \in FirstIndices, FifoInvAt(f), FifoInvAt(f)',
         Since(f, read_index)' = Since(f, read_index) + 1,
         NEW r \in Readers, ReadSwap(r), read_index = index0[r]
  PROVE  Abstract!Take(r)
<1> DEFINE W == Since(f, write_index)
           R == Since(f, read_index)
<1>1. TypeInv /\ SeenInv(f) /\ r \in CPUs /\ r \notin Writers
  BY SmpFifoAssumption DEF FifoInvAt, CPUs
<1>2. /\ pc[r] = "read_cas" /\ ~UsesSlot(r) /\ UsesSlot(r)'
      /\ \A q \in Readers : q # r => (UsesSlot(q)' <=> UsesSlot(q))
      /\ UNCHANGED <<write_index, index0, state, data, serial, claimer>>
  BY <1>1, SmpFifoAssumption DEF ReadSwap, Goto, TypeInv, TypeOK, UsesSlot
<1>3. R < W /\ state[MySlot(r)] = WRITE_DONE
  BY <1>1, <1>2 DEF SeenInv, ReaderSeen
<1>4. /\ W \in Nat /\ R \in Nat /\ MySlot(r) = SlotAt(f, R)
      /\ n_elts = W - R /\ n_elts' = n_elts - 1 /\ n_elts \in Nat /\ n_elts >= 1
      /\ Queue \in Seq(Queued) /\ Len(Queue) = n_elts
      /\ \A i \in 1 .. n_elts : Queue[i] = QueuedIn(SlotAt(f, R + (i - 1)))
      /\ Queue' \in Seq(Queued) /\ Len(Queue') = n_elts - 1
      /\ \A i \in 1 .. n_elts - 1 : Queue'[i] = QueuedIn(SlotAt(f, R + 1 + (i - 1)))
  <2>1. QueueFacts(f) /\ QueueFacts(f)'
    BY QueueType, QueueTypeNext
  <2>2. R' = R + 1 /\ W' = W
    BY <1>2 DEF Since
  <2>3. W \in Nat /\ R \in Nat /\ MySlot(r) = SlotAt(f, R)
    BY <1>1, Places
  <2>4. n_elts = W - R /\ n_elts' = W' - R' /\ n_elts \in Nat
    BY <2>1 DEF QueueFacts
  <2>5. n_elts' = n_elts - 1 /\ n_elts >= 1
    BY <1>3, <2>2, <2>3, <2>4
  <2>6. \A i \in 1 .. n_elts' : Queue'[i] = QueuedIn(SlotAt(f, R' + (i - 1)))
    <3>1. \A i \in 1 .. n_elts' : Queue'[i] = QueuedIn(SlotAt(f, R + (i - 1)))'
      BY <2>1 DEF QueueFacts
    <3> QED BY <1>2, <3>1 DEF QueuedIn, SlotAt
  <2> QED BY <2>1, <2>2, <2>3, <2>4, <2>5, <2>6 DEF QueueFacts
<1>5. Queue # <<>> /\ Head(Queue) = QueuedIn(MySlot(r)) /\ Head(Queue).done
  <2>1. Queue # <<>>
    BY <1>4
  <2>2. Head(Queue) = Queue[1] /\ R + (1 - 1) = R
    BY <1>4
  <2>3. Head(Queue) = QueuedIn(MySlot(r))
    BY <1>4, <2>2
  <2> QED BY <1>3, <2>1, <2>3 DEF QueuedIn
<1>6. Queue' = Tail(Queue)
  <2>1. Tail(Queue) \in Seq(Queued) /\ Len(Tail(Queue)) = n_elts - 1
        /\ \A i \in 1 .. n_elts - 1 : Tail(Queue)[i] = Queue[i + 1]
    BY <1>4, <1>5, HeadTailProperties
  <2>2. ASSUME NEW i \in 1 .. n_elts - 1
        PROVE  Queue'[i] = Tail(Queue)[i]
    <3>1. R \in Nat /\ n_elts \in Nat /\ i \in Int
      BY <1>4
    <3>2. i + 1 \in 1 .. n_elts /\ R + ((i + 1) - 1) = R + 1 + (i - 1)
      BY ONLY <2>2, <3>1
    <3> QED BY <1>4, <2>1, <3>2
  <2> QED BY <1>4, <2>1, <2>2, SeqEqual
<1>7. Holding[r] = Nothing
  BY <1>2 DEF Holding
<1>8. Holding' = [Holding EXCEPT ![r] = Head(Queue)]
  BY <1>2, <1>3, <1>5 DEF Holding, MySlot, QueuedIn
<1> QED BY <1>2, <1>5, <1>6, <1>7, <1>8 DEF Abstract!Take

(* Writers and readers see a queue of capacity max_n_elts: elements come   *)
(* out in the order in which their places were claimed, each one once,     *)
(* unchanged since its write_done and until its read_done.                 *)
THEOREM FifoImplementsSlotQueue ==
  ASSUME AtMostTwo(Writers), AtMostTwo(Readers), max_n_elts >= 2
  PROVE  Spec => ImplementsSlotQueue
<1>1. Init => Abstract!Init
  <2> SUFFICES ASSUME Init PROVE Abstract!Init
    OBVIOUS
  <2>1. n_elts = 0
    <3>1. write_index \in Indices /\ read_index = write_index
      BY SmpFifoAssumption DEF Init
    <3> QED BY <3>1, SinceStart DEF n_elts, Since
  <2>2. Queue = <<>>
    BY <2>1 DEF Queue
  <2>3. Holding = [r \in Readers |-> Nothing]
    BY SmpFifoAssumption DEF Init, Holding, UsesSlot
  <2> QED BY <2>2, <2>3 DEF Init, Abstract!Init
<1>2. FifoInv /\ [Next]_vars => [Abstract!Next]_Abstract!queueVars
  <2> SUFFICES ASSUME NEW f \in FirstIndices, FifoInvAt(f), [Next]_vars
               PROVE  [Abstract!Next]_Abstract!queueVars
    BY DEF FifoInv
  <2>1. FifoInvAt(f)'
    BY FifoInvStep
  <2>2. TypeInv /\ IndexInv(f) /\ SeenInv(f)
    BY DEF FifoInvAt
  <2>3. CASE UNCHANGED vars
    BY <2>3 DEF vars, Abstract!queueVars, Queue, Holding, n_elts, QueuedIn, UsesSlot, MySlot
  <2>4. ASSUME NEW w \in Writers, WriteAlloc(w) \/ CheckFull(w) \/ WriteState(w)
                                  \/ (WriteSwap(w) /\ write_index # index0[w])
        PROVE  UNCHANGED Abstract!queueVars
    <3>1. Quiet(w) /\ w \in CPUs
      BY <2>2, <2>4, SmpFifoAssumption
        DEF WriteAlloc, CheckFull, WriteState, WriteSwap, Goto, Keep, Return, TypeInv, TypeOK,
            Quiet, UsesSlot, CPUs
    <3> QED BY <3>1, QuietStutters
  <2>5. ASSUME NEW r \in Readers, ReadFetch(r) \/ CheckEmpty(r) \/ ReadState(r)
                                  \/ (ReadSwap(r) /\ read_index # index0[r])
        PROVE  UNCHANGED Abstract!queueVars
    <3>1. Quiet(r) /\ r \in CPUs
      BY <2>2, <2>5, SmpFifoAssumption
        DEF ReadFetch, CheckEmpty, ReadState, ReadSwap, Goto, Keep, Return, TypeInv, TypeOK,
            Quiet, UsesSlot, CPUs
    <3> QED BY <3>1, QuietStutters
  <2>6. ASSUME NEW w \in Writers, WriteSwap(w), write_index = index0[w]
        PROVE  Abstract!Next
    <3>1. f \in Indices /\ write_index \in Indices /\ Since(f, write_index) + 1 < Span
      BY <2>2, SmpFifoAssumption, RoomToAdvance DEF TypeInv, TypeOK
    <3>2. write_index' = Wrap(write_index + 1)
      BY <2>6 DEF WriteSwap
    <3>3. Since(f, write_index)' = Since(f, write_index) + 1
      BY <3>1, <3>2, SinceStep DEF Since
    <3> QED BY <2>1, <2>6, <3>3, WriteSwapReserves DEF Abstract!Next
  <2>7. ASSUME NEW r \in Readers, ReadSwap(r), read_index = index0[r]
        PROVE  Abstract!Next
    <3>1. Since(f, read_index) < Since(f, write_index)
      BY <2>2, <2>7 DEF SeenInv, ReaderSeen, ReadSwap
    <3>2. f \in Indices /\ read_index \in Indices
      BY <2>2, SmpFifoAssumption DEF TypeInv, TypeOK
    <3>3. Since(f, read_index) + 1 < Span
      BY <2>2, <3>1, Places, RangeType
    <3>4. read_index' = Wrap(read_index + 1)
      BY <2>7 DEF ReadSwap
    <3>5. Since(f, read_index)' = Since(f, read_index) + 1
      BY <3>2, <3>3, <3>4, SinceStep DEF Since
    <3> QED BY <2>1, <2>7, <3>5, ReadSwapTakes DEF Abstract!Next
  <2>8. ASSUME NEW w \in Writers, WriteStep(w)
        PROVE  [Abstract!Next]_Abstract!queueVars
    BY <2>1, <2>4, <2>6, <2>8, WriteMarkStutters, WriteDataStutters, WriteDonePublishes
      DEF WriteStep, Abstract!Next
  <2>9. ASSUME NEW r \in Readers, ReadStep(r)
        PROVE  [Abstract!Next]_Abstract!queueVars
    BY <2>1, <2>5, <2>7, <2>9, ReadMarkStutters, ReadDoneGivesBack DEF ReadStep, Abstract!Next
  <2> QED BY <2>3, <2>8, <2>9 DEF Next
<1> QED BY <1>1, <1>2, FifoInvariant, PTL DEF Spec, ImplementsSlotQueue, Abstract!Spec
=============================================================================
