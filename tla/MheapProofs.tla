---------------------------- MODULE MheapProofs ----------------------------
(***************************************************************************)
(* The memory allocator keeps its boundary tags and free lists right for   *)
(* every heap size, every request and every number of bins: what mheap_put *)
(* relies on when it follows a tag, and what mheap_get_aligned promises.   *)
(***************************************************************************)
EXTENDS Mheap, ArithmeticTheorems, FiniteSetTheorems, SequenceTheorems

USE DEF MHEAP_USER_DATA_WORD_BYTES, MHEAP_ELT_OVERHEAD_BYTES, MHEAP_MIN_USER_DATA_BYTES

(* The powers of two of the bins.                                          *)
LEMMA PowersOf2 ==
  ASSUME NEW i \in 0 .. 31
  PROVE  /\ 2 ^ i \in Nat \ {0}
         /\ 2 ^ i < 4 \/ (2 ^ i) % 4 = 0
         /\ 2 ^ i <= 2 ^ 31
         /\ \A j \in 0 .. 31 : i < j => 2 ^ i < 2 ^ j

<1> DEFINE p == [j \in 0 .. 31 |-> 2 ^ j]
<1>1. \A j \in 0 .. 31 : p[j] = 2 ^ j
  BY Zenon
<1>2. p[0] = 1 /\ p[1] = 2 /\ p[2] = 4 /\ p[3] = 8 /\ p[4] = 16 /\ p[5] = 32 /\ p[6] = 64 /\ p[7] = 128 /\ p[8] = 256 /\ p[9] = 512 /\ p[10] = 1024 /\ p[11] = 2048 /\ p[12] = 4096 /\ p[13] = 8192 /\ p[14] = 16384 /\ p[15] = 32768 /\ p[16] = 65536 /\ p[17] = 131072 /\ p[18] = 262144 /\ p[19] = 524288 /\ p[20] = 1048576 /\ p[21] = 2097152 /\ p[22] = 4194304 /\ p[23] = 8388608 /\ p[24] = 16777216 /\ p[25] = 33554432 /\ p[26] = 67108864 /\ p[27] = 134217728 /\ p[28] = 268435456 /\ p[29] = 536870912 /\ p[30] = 1073741824 /\ p[31] = 2147483648
  OBVIOUS
<1> HIDE DEF p
<1>3. \A j \in 0 .. 31 : p[j] \in Nat \ {0} /\ (p[j] < 4 \/ p[j] % 4 = 0)
  BY <1>2
<1>4. \A j, k \in 0 .. 31 : j < k => p[j] < p[k]
  BY <1>2
<1>5. \A j \in 0 .. 31 : p[j] <= 2 ^ 31
  BY <1>2
<1>6. p[i] = 2 ^ i
  BY <1>1, Zenon
<1>7. ASSUME NEW j \in 0 .. 31, i < j PROVE 2 ^ i < 2 ^ j
  <2>1. p[j] = 2 ^ j
    BY <1>1, Zenon
  <2>2. p[i] < p[j]
    BY <1>4, <1>7
  <2> QED BY <2>1, <2>2, <1>6, Zenon
<1>8. /\ 2 ^ i \in Nat \ {0} /\ (2 ^ i < 4 \/ (2 ^ i) % 4 = 0) /\ 2 ^ i <= 2 ^ 31
  <2>1. /\ p[i] \in Nat \ {0} /\ (p[i] < 4 \/ p[i] % 4 = 0) /\ p[i] <= 2 ^ 31
    BY <1>3, <1>5
  <2> QED BY <2>1, <1>6, Zenon
<1> QED BY <1>7, <1>8, Zenon

(* The most that the bins are made for.                                    *)
MaxBytes == 2 ^ 31

LEMMA Limits ==
  /\ MaxBytes \in Nat /\ MaxBytes % 4 = 0 /\ MaxBytes > 8
  /\ INVALID \in Nat /\ INVALID + 1 = MaxBytes
BY DEF MaxBytes, INVALID

LEMMA SmallBins ==
  /\ MHEAP_N_SMALL_OBJECT_BINS \in Nat \ {0}
  /\ MHEAP_N_SMALL_OBJECT_BINS = 2 ^ LOG2_N_SMALL_OBJECT_BINS
  /\ LOG2_N_SMALL_OBJECT_BINS \in 0 .. 31
BY BinAssumption, PowersOf2 DEF MHEAP_N_SMALL_OBJECT_BINS

(* max_log2 is the least exponent whose power is large enough.             *)
LEMMA MaxLog2 ==
  ASSUME NEW x \in 1 .. MaxBytes
  PROVE  /\ max_log2(x) \in 0 .. 31
         /\ 2 ^ max_log2(x) >= x
         /\ \A i \in 0 .. 31 : 2 ^ i >= x => max_log2(x) <= i
<1> DEFINE T == {i \in 0 .. 31 : 2 ^ i >= x}
<1>1. T \in SUBSET Nat /\ 31 \in T
  BY DEF MaxBytes
<1>2. PICK i \in T : \A j \in T : i <= j
  BY <1>1, LeastNumber
<1>3. i \in 0 .. 31 /\ 2 ^ i >= x /\ (i = 0 \/ 2 ^ (i - 1) < x)
  <2>1. i # 0 => i - 1 \in 0 .. 31 /\ i - 1 \notin T
    BY <1>2
  <2>2. i # 0 => 2 ^ (i - 1) \in Nat
    BY <2>1, PowersOf2
  <2> QED BY <1>2, <2>1, <2>2, Limits
<1>4. /\ max_log2(x) \in 0 .. 31 /\ 2 ^ max_log2(x) >= x
      /\ max_log2(x) = 0 \/ 2 ^ (max_log2(x) - 1) < x
  BY <1>3 DEF max_log2
<1>5. ASSUME NEW j \in 0 .. 31, 2 ^ j >= x, j < max_log2(x) PROVE FALSE
  <2> DEFINE k == max_log2(x) - 1
  <2>1. k \in 0 .. 31 /\ 2 ^ k < x /\ j <= k
    BY <1>4, <1>5
  <2>2. 2 ^ k \in Nat /\ 2 ^ j \in Nat /\ (j < k => 2 ^ j < 2 ^ k)
    BY <2>1, PowersOf2
  <2>3. CASE j = k
    BY <2>1, <2>3, <1>5, Limits
  <2>4. CASE j < k
    BY <2>1, <2>2, <2>4, <1>5, Limits
  <2> QED BY <2>1, <2>3, <2>4
<1> QED BY <1>4, <1>5

LEMMA MaxOfTwo ==
  ASSUME NEW a \in Int, NEW b \in Int
  PROVE  Max({a, b}) = IF a >= b THEN a ELSE b
BY DEF Max

(* The bin of a size: a bin of its own for a small one, and above them the *)
(* bins of the powers of two.                                              *)
Words(n) == (Max({n, 8}) + 3) \div 4

LEMMA BinOf ==
  ASSUME NEW n \in 0 .. MaxBytes
  PROVE  LET b == user_data_size_to_bin_index(n)
             N == MHEAP_N_SMALL_OBJECT_BINS
             L == LOG2_N_SMALL_OBJECT_BINS
         IN  /\ Words(n) \in Nat
             /\ Max({n, 8}) \in 8 .. MaxBytes
             /\ Words(n) - 2 < N => b = Words(n) - 2
             /\ Words(n) - 2 >= N => b = N + max_log2(Max({n, 8})) - L
             /\ Words(n) - 2 >= N => max_log2(Max({n, 8})) \in L + 1 .. 31
             /\ b \in Bins
<1> DEFINE m == Max({n, 8})
           N == MHEAP_N_SMALL_OBJECT_BINS
           L == LOG2_N_SMALL_OBJECT_BINS
           w == round_pow2(m, 4) \div 4
<1>1. m \in 8 .. MaxBytes /\ m = IF n >= 8 THEN n ELSE 8
  BY MaxOfTwo, Limits
<1> HIDE DEF m
<1>2. w = (m + 3) \div 4 /\ w \in Nat /\ w >= 2 /\ 4 * w <= m + 3
  BY <1>1 DEF round_pow2, Truncate
<1>3. user_data_size_to_bin_index(n) = IF w - 2 < N THEN w - 2 ELSE N + max_log2(m) - L
  BY DEF user_data_size_to_bin_index, m
<1> HIDE DEF w
<1>4. w - 2 >= N => max_log2(m) \in L + 1 .. 31
  <2> SUFFICES ASSUME w - 2 >= N PROVE max_log2(m) \in L + 1 .. 31
    OBVIOUS
  <2>1. max_log2(m) \in 0 .. 31 /\ 2 ^ max_log2(m) >= m
    BY <1>1, MaxLog2
  <2>2. N < m /\ N \in Nat /\ N = 2 ^ L /\ L \in 0 .. 31
    BY <1>1, <1>2, SmallBins
  <2>3. ASSUME max_log2(m) <= L PROVE FALSE
    <3> DEFINE a == max_log2(m)
    <3>1. a \in 0 .. 31 /\ L \in 0 .. 31 /\ a <= L
      BY <2>1, <2>2, <2>3
    <3> HIDE DEF a
    <3>2. 2 ^ a \in Nat /\ (a < L => 2 ^ a < 2 ^ L)
      BY <3>1, PowersOf2
    <3>3. CASE a = L
      BY <3>3, <2>1, <2>2, <1>1, Limits DEF a
    <3>4. CASE a < L
      BY <3>2, <3>4, <2>1, <2>2, <1>1, Limits DEF a
    <3> QED BY <3>1, <3>3, <3>4
  <2> QED BY <2>1, <2>2, <2>3
<1>5. user_data_size_to_bin_index(n) \in Bins
  BY <1>2, <1>3, <1>4, SmallBins DEF Bins, N_BINS
<1>6. w = Words(n)
  BY <1>2 DEF Words, m
<1>7. m = Max({n, 8})
  BY DEF m
<1> HIDE DEF N, L
<1>8. /\ w - 2 < N => user_data_size_to_bin_index(n) = w - 2
      /\ w - 2 >= N => user_data_size_to_bin_index(n) = N + max_log2(m) - L
  BY <1>2, <1>3, SmallBins DEF N
<1> USE DEF N, L
<1> QED BY <1>1, <1>2, <1>4, <1>5, <1>6, <1>7, <1>8

(* A larger size has no smaller bin.                                       *)
LEMMA BinMonotone ==
  ASSUME NEW n \in 0 .. MaxBytes, NEW k \in 0 .. MaxBytes, n <= k
  PROVE  user_data_size_to_bin_index(n) <= user_data_size_to_bin_index(k)
<1> DEFINE mn == Max({n, 8})  mk == Max({k, 8})
           N == MHEAP_N_SMALL_OBJECT_BINS
           L == LOG2_N_SMALL_OBJECT_BINS
<1>1. mn \in 8 .. MaxBytes /\ mk \in 8 .. MaxBytes /\ mn <= mk
  BY MaxOfTwo, Limits
<1>2. Words(n) \in Nat /\ Words(k) \in Nat /\ Words(n) <= Words(k)
  BY <1>1 DEF Words
<1> HIDE DEF mn, mk
<1>3. max_log2(mn) \in 0 .. 31 /\ max_log2(mk) \in 0 .. 31 /\ max_log2(mn) <= max_log2(mk)
  <2>1. max_log2(mn) \in 0 .. 31 /\ max_log2(mk) \in 0 .. 31 /\ 2 ^ max_log2(mk) >= mk
    BY <1>1, MaxLog2
  <2>2. 2 ^ max_log2(mk) \in Nat
    BY <2>1, PowersOf2
  <2>3. 2 ^ max_log2(mk) >= mn
    BY <2>1, <2>2, <1>1
  <2>4. \A i \in 0 .. 31 : 2 ^ i >= mn => max_log2(mn) <= i
    <3>1. mn \in 1 .. MaxBytes
      BY <1>1, Limits
    <3> QED BY <3>1, MaxLog2, Zenon
  <2> QED BY <2>1, <2>3, <2>4
<1> DEFINE bn == user_data_size_to_bin_index(n)  bk == user_data_size_to_bin_index(k)
<1>4. /\ Words(n) - 2 < N => bn = Words(n) - 2
      /\ Words(n) - 2 >= N => bn = N + max_log2(mn) - L
  BY BinOf DEF mn
<1>5. /\ Words(k) - 2 < N => bk = Words(k) - 2
      /\ Words(k) - 2 >= N => bk = N + max_log2(mk) - L /\ max_log2(mk) \in L + 1 .. 31
  BY BinOf DEF mk
<1> HIDE DEF bn, bk
<1>6. N \in Nat /\ L \in 0 .. 31
  BY SmallBins
<1>7. bn <= bk
  BY <1>2, <1>3, <1>4, <1>5, <1>6
<1> QED BY <1>7 DEF bn, bk

(* A bin of a single size.                                                 *)
LEMMA SmallBinOneSize ==
  ASSUME NEW n \in 8 .. MaxBytes, NEW k \in 8 .. MaxBytes, n % 4 = 0, k % 4 = 0,
         user_data_size_to_bin_index(n) = user_data_size_to_bin_index(k),
         user_data_size_to_bin_index(n) < MHEAP_N_SMALL_OBJECT_BINS
  PROVE  n = k
<1> DEFINE N == MHEAP_N_SMALL_OBJECT_BINS
           L == LOG2_N_SMALL_OBJECT_BINS
           bn == user_data_size_to_bin_index(n)  bk == user_data_size_to_bin_index(k)
<1> n \in 0 .. MaxBytes /\ k \in 0 .. MaxBytes
  BY Limits
<1>1. Max({n, 8}) = n /\ Max({k, 8}) = k
  BY MaxOfTwo, Limits
<1>2. 4 * Words(n) = n /\ 4 * Words(k) = k /\ Words(n) \in Nat /\ Words(k) \in Nat
  BY <1>1 DEF Words
<1>3. N \in Nat /\ L \in 0 .. 31
  BY SmallBins
<1>4. Words(n) - 2 < N => bn = Words(n) - 2
  BY BinOf
<1>5. Words(n) - 2 >= N => bn = N + max_log2(n) - L /\ max_log2(n) \in L + 1 .. 31
  BY BinOf, <1>1
<1>6. Words(k) - 2 < N => bk = Words(k) - 2
  BY BinOf
<1>7. Words(k) - 2 >= N => bk = N + max_log2(k) - L /\ max_log2(k) \in L + 1 .. 31
  BY BinOf, <1>1
<1>8. bn = bk /\ bn < N
  OBVIOUS
<1> HIDE DEF bn, bk
<1> QED BY <1>2, <1>3, <1>4, <1>5, <1>6, <1>7, <1>8

-----------------------------------------------------------------------------
(* Boundary tags.                                                          *)
Tag == [prev_n_user_data : Int, prev_is_free : BOOLEAN,
        n_user_data : Int, is_free : BOOLEAN]
Addresses == {o \in Nat : o >= 8 /\ o % 4 = 0}

(* The tags that are in memory; nothing is before the first element.       *)
Tagged(e) ==
  /\ e \in [DOMAIN e -> Tag] /\ DOMAIN e \subseteq Addresses
  /\ 8 \in DOMAIN e /\ ~ e[8].prev_is_free

(* The tag at x leads to the next one, which leads back; of the two        *)
(* elements before and behind the tag at most one is free.                 *)
NextOf(e, x) == x + e[x].n_user_data * 4 + 8
Fine(e, x) ==
  /\ e[x].n_user_data \in Nat /\ e[x].n_user_data >= 2
  /\ NextOf(e, x) \in DOMAIN e
  /\ \A z \in DOMAIN e : z <= x \/ NextOf(e, x) <= z
  /\ e[NextOf(e, x)].prev_n_user_data = e[x].n_user_data
  /\ e[NextOf(e, x)].prev_is_free = e[x].is_free
  /\ ~ (e[x].prev_is_free /\ e[x].is_free)

(* The tags are right up to o, and from o to the last one.                 *)
UpTo(e, o) == o \in DOMAIN e /\ \A x \in DOMAIN e : x < o => Fine(e, x)
Onward(e, o, last) ==
  /\ o \in DOMAIN e /\ last \in DOMAIN e
  /\ \A x \in DOMAIN e : x <= last /\ (o <= x /\ x < last => Fine(e, x))

IsHeap(H) == H = [elt |-> H.elt, link |-> H.link, first |-> H.first]

(* The two halves of a tag are written separately.                         *)
Ahead(t, w, free) == [t EXCEPT !.n_user_data = w, !.is_free = free]
Behind(t, w, free) == [t EXCEPT !.prev_n_user_data = w, !.prev_is_free = free]

LEMMA TagWritten ==
  ASSUME NEW t \in Tag, NEW w \in Int, NEW free \in BOOLEAN
  PROVE  /\ LET u == Ahead(t, w, free)
            IN  /\ u \in Tag /\ u.n_user_data = w /\ u.is_free = free
                /\ u.prev_n_user_data = t.prev_n_user_data
                /\ u.prev_is_free = t.prev_is_free
         /\ LET v == Behind(t, w, free)
            IN  /\ v \in Tag /\ v.prev_n_user_data = w /\ v.prev_is_free = free
                /\ v.n_user_data = t.n_user_data /\ v.is_free = t.is_free
BY DEF Tag, Ahead, Behind

(* What mheap_elt_set_size writes.                                         *)
LEMMA SetSizeWrites ==
  ASSUME NEW H, IsHeap(H), Tagged(H.elt), NEW o \in DOMAIN H.elt,
         NEW n \in Nat, n >= 8, n % 4 = 0, NEW free \in BOOLEAN
  PROVE  LET G == mheap_elt_set_size(H, o, n, free)
             nx == o + n + 8
         IN  /\ IsHeap(G) /\ G.link = H.link /\ G.first = H.first
             /\ DOMAIN G.elt = {x \in DOMAIN H.elt : x <= o \/ x >= nx} \cup {nx}
             /\ Tagged(G.elt)
             /\ 4 * G.elt[o].n_user_data = n /\ G.elt[o].n_user_data \in Nat
             /\ G.elt[o].is_free = free
             /\ G.elt[o].prev_n_user_data = H.elt[o].prev_n_user_data
             /\ G.elt[o].prev_is_free = H.elt[o].prev_is_free
             /\ G.elt[nx].prev_n_user_data = G.elt[o].n_user_data
             /\ G.elt[nx].prev_is_free = free
             /\ nx \in DOMAIN H.elt => /\ G.elt[nx].n_user_data = H.elt[nx].n_user_data
                                       /\ G.elt[nx].is_free = H.elt[nx].is_free
             /\ \A x \in DOMAIN G.elt : x # o /\ x # nx => G.elt[x] = H.elt[x]
<1> DEFINE G == mheap_elt_set_size(H, o, n, free)
           nx == o + n + 8
           w == n \div 4
           tags == {x \in DOMAIN H.elt : x <= o \/ x >= nx} \cup {nx}
           E == [x \in tags |->
                   CASE x = o -> Ahead(H.elt[o], w, free)
                     [] x = nx -> Behind(EltAt(H, nx), w, free)
                     [] OTHER -> H.elt[x]]
<1>1. G = [H EXCEPT !.elt = E]
  BY DEF mheap_elt_set_size, Ahead, Behind
<1>2. IsHeap(G) /\ G.link = H.link /\ G.first = H.first /\ G.elt = E
  BY <1>1 DEF IsHeap
<1>3. /\ o \in Addresses /\ nx \in Addresses /\ nx > o /\ w \in Nat /\ 4 * w = n
      /\ nx > 8 /\ o <= nx /\ o # nx /\ o \in Nat
  BY DEF Tagged, Addresses
<1>4. o \in tags /\ nx \in tags /\ tags \subseteq Addresses /\ 8 \in tags
  BY <1>3 DEF Tagged, Addresses
<1>5. \A x \in tags : x \in DOMAIN H.elt \/ x = nx
  OBVIOUS
<1>6. H.elt[o] \in Tag /\ EltAt(H, nx) \in Tag
  BY DEF Tagged, EltAt, FreshElt, Tag, UNSET
<1>7. nx \in DOMAIN H.elt => EltAt(H, nx) = H.elt[nx]
  BY DEF EltAt
<1>8. E[o] = Ahead(H.elt[o], w, free)
  BY <1>3, <1>4
<1>9. E[nx] = Behind(EltAt(H, nx), w, free)
  BY <1>3, <1>4
<1>10. \A x \in tags : x # o /\ x # nx => E[x] = H.elt[x]
  OBVIOUS
<1>11. DOMAIN E = tags
  OBVIOUS
<1>3a. w \in Int
  BY <1>3
<1> HIDE DEF E, tags, nx, w, G
<1>12. /\ E[o].n_user_data = w /\ E[o].is_free = free
       /\ E[o].prev_n_user_data = H.elt[o].prev_n_user_data
       /\ E[o].prev_is_free = H.elt[o].prev_is_free /\ E[o] \in Tag
  BY <1>3a, <1>6, <1>8, TagWritten
<1>13. /\ E[nx].prev_n_user_data = w /\ E[nx].prev_is_free = free /\ E[nx] \in Tag
       /\ E[nx].n_user_data = EltAt(H, nx).n_user_data
       /\ E[nx].is_free = EltAt(H, nx).is_free
  BY <1>3a, <1>6, <1>9, TagWritten
<1>14. \A x \in tags : E[x] \in Tag
  <2> SUFFICES ASSUME NEW x \in tags, x # o, x # nx PROVE E[x] \in Tag
    BY <1>12, <1>13
  <2> QED BY <1>5, <1>10 DEF Tagged
<1>15. ~ E[8].prev_is_free
  <2>1. 8 # nx
    BY <1>3
  <2>2. CASE o = 8
    BY <2>2, <1>12 DEF Tagged
  <2>3. CASE o # 8
    BY <2>1, <2>3, <1>4, <1>10 DEF Tagged
  <2> QED BY <2>2, <2>3
<1>16. Tagged(E)
  <2>1. E \in [DOMAIN E -> Tag]
    BY <1>11, <1>14 DEF E
  <2> QED BY <2>1, <1>4, <1>11, <1>15 DEF Tagged
<1>17. nx \in DOMAIN H.elt => /\ E[nx].n_user_data = H.elt[nx].n_user_data
                              /\ E[nx].is_free = H.elt[nx].is_free
  BY <1>7, <1>13
<1>18. E[nx].prev_n_user_data = E[o].n_user_data /\ 4 * E[o].n_user_data = n
       /\ E[o].n_user_data \in Nat
  BY <1>3, <1>12, <1>13
<1> QED BY <1>2, <1>10, <1>11, <1>12, <1>13, <1>16, <1>17, <1>18 DEF G, tags, nx

(* Writing a size makes the tags right up to the next tag.                 *)
LEMMA SetSizeUpTo ==
  ASSUME NEW H, IsHeap(H), Tagged(H.elt), NEW o \in DOMAIN H.elt,
         NEW n \in Nat, n >= 8, n % 4 = 0, NEW free \in BOOLEAN,
         UpTo(H.elt, o), ~ (free /\ H.elt[o].prev_is_free)
  PROVE  UpTo(mheap_elt_set_size(H, o, n, free).elt, o + n + 8)
<1> DEFINE e == H.elt
           g == mheap_elt_set_size(H, o, n, free).elt
           nx == o + n + 8
<1>1. /\ DOMAIN g = {x \in DOMAIN e : x <= o \/ x >= nx} \cup {nx}
      /\ 4 * g[o].n_user_data = n /\ g[o].n_user_data \in Nat /\ g[o].is_free = free
      /\ g[o].prev_n_user_data = e[o].prev_n_user_data
      /\ g[o].prev_is_free = e[o].prev_is_free
      /\ g[nx].prev_n_user_data = g[o].n_user_data /\ g[nx].prev_is_free = free
      /\ \A x \in DOMAIN g : x # o /\ x # nx => g[x] = e[x]
  BY SetSizeWrites
<1>2. /\ DOMAIN e \subseteq Nat /\ UpTo(e, o) /\ o \in DOMAIN e
      /\ ~ (free /\ e[o].prev_is_free)
  BY DEF Tagged, Addresses
<1> HIDE DEF g, e
<1>3. o \in Nat /\ nx \in Nat /\ o < nx /\ o \in DOMAIN g /\ nx \in DOMAIN g /\ DOMAIN g \subseteq Nat
  BY <1>1, <1>2
<1>4. ASSUME NEW x \in DOMAIN g, x < o PROVE Fine(g, x)
  <2>1. x \in Nat /\ x \in DOMAIN e /\ g[x] = e[x] /\ Fine(e, x)
    BY <1>1, <1>2, <1>3, <1>4 DEF UpTo
  <2>2. NextOf(g, x) = NextOf(e, x) /\ NextOf(e, x) <= o /\ NextOf(e, x) \in DOMAIN e
    BY <2>1, <1>2, <1>4 DEF Fine, NextOf
  <2> DEFINE y == NextOf(e, x)
  <2> HIDE DEF y
  <2>3. /\ y \in DOMAIN g /\ g[y].prev_n_user_data = e[y].prev_n_user_data
        /\ g[y].prev_is_free = e[y].prev_is_free
    <3>1. CASE y = o
      BY <3>1, <1>1, <1>3
    <3>2. CASE y # o
      BY <3>2, <2>2, <1>1, <1>2, <1>3 DEF y
    <3> QED BY <3>1, <3>2
  <2>4. \A z \in DOMAIN g : z <= x \/ y <= z
    <3> SUFFICES ASSUME NEW z \in DOMAIN g, z \notin DOMAIN e PROVE y <= z
      BY <2>1 DEF Fine, y
    <3> QED BY <1>1, <1>2, <1>3, <2>2 DEF y
  <2> QED BY <2>1, <2>2, <2>3, <2>4 DEF Fine, y
<1>5. Fine(g, o)
  <2>1. NextOf(g, o) = nx
    BY <1>1, <1>3 DEF NextOf
  <2>2. \A z \in DOMAIN g : z <= o \/ nx <= z
    BY <1>1, <1>2, <1>3
  <2> QED BY <2>1, <2>2, <1>1, <1>2, <1>3 DEF Fine
<1>6. \A x \in DOMAIN g : x < nx => Fine(g, x)
  BY <1>1, <1>2, <1>3, <1>4, <1>5
<1> QED BY <1>3, <1>6 DEF UpTo, g

(* The tags behind stay right, if the element now ends where they begin,   *)
(* or before them in a block without tags.                                 *)
LEMMA SetSizeOnward ==
  ASSUME NEW H, IsHeap(H), Tagged(H.elt), NEW o \in DOMAIN H.elt,
         NEW n \in Nat, n >= 8, n % 4 = 0, NEW free \in BOOLEAN,
         NEW nx \in Nat, NEW last, Onward(H.elt, nx, last), o < nx,
         \/ /\ o + n + 8 = nx
            /\ free /\ nx < last => ~ H.elt[nx].is_free
         \/ /\ o + n + 8 < nx
            /\ \A z \in DOMAIN H.elt : z <= o \/ nx <= z
  PROVE  LET g == mheap_elt_set_size(H, o, n, free).elt
         IN  /\ Onward(g, nx, last)
             /\ \A z \in DOMAIN g : z <= o + n + 8 \/ nx <= z \/ o + n + 8 = nx
<1> DEFINE e == H.elt
           g == mheap_elt_set_size(H, o, n, free).elt
           m == o + n + 8
<1>1. /\ DOMAIN g = {x \in DOMAIN e : x <= o \/ x >= m} \cup {m}
      /\ g[m].prev_is_free = free
      /\ m \in DOMAIN e => /\ g[m].n_user_data = e[m].n_user_data
                           /\ g[m].is_free = e[m].is_free
      /\ \A x \in DOMAIN g : x # o /\ x # m => g[x] = e[x]
  BY SetSizeWrites
<1>2. /\ DOMAIN e \subseteq Nat /\ Onward(e, nx, last) /\ o \in DOMAIN e
      /\ \/ m = nx /\ (free /\ nx < last => ~ e[nx].is_free)
         \/ m < nx /\ \A z \in DOMAIN e : z <= o \/ nx <= z
  BY DEF Tagged, Addresses
<1> HIDE DEF g, e
<1>3. /\ o \in Nat /\ m \in Nat /\ o < m /\ DOMAIN g \subseteq Nat
      /\ last \in Nat /\ nx <= last /\ nx \in DOMAIN g /\ last \in DOMAIN g
  BY <1>1, <1>2 DEF Onward
<1>4. ASSUME NEW x \in DOMAIN g PROVE x <= last
  BY <1>1, <1>2, <1>3 DEF Onward
<1>5. ASSUME NEW x \in DOMAIN g, nx <= x, x < last PROVE Fine(g, x)
  <2>1. x \in Nat /\ x \in DOMAIN e /\ Fine(e, x) /\ m <= x
    BY <1>1, <1>2, <1>3, <1>5 DEF Onward
  <2>2. /\ g[x].n_user_data = e[x].n_user_data /\ g[x].is_free = e[x].is_free
        /\ ~ (g[x].prev_is_free /\ g[x].is_free)
    <3>1. CASE x = m
      BY <3>1, <2>1, <1>1, <1>2, <1>3, <1>5
    <3>2. CASE x # m
      BY <3>2, <2>1, <1>1, <1>3 DEF Fine
    <3> QED BY <3>1, <3>2
  <2> DEFINE y == NextOf(e, x)
  <2>3. NextOf(g, x) = y /\ y \in DOMAIN e /\ y \in Nat /\ x < y /\ m < y
    BY <2>1, <2>2, <1>2, <1>3 DEF Fine, NextOf
  <2>4. /\ e[y].prev_n_user_data = e[x].n_user_data /\ e[y].prev_is_free = e[x].is_free
        /\ \A z \in DOMAIN e : z <= x \/ y <= z
        /\ e[x].n_user_data \in Nat /\ e[x].n_user_data >= 2
    BY <2>1 DEF Fine
  <2> HIDE DEF y
  <2>5. y \in DOMAIN g /\ g[y] = e[y]
    BY <2>3, <1>1, <1>3
  <2>6. \A z \in DOMAIN g : z <= x \/ y <= z
    BY <2>1, <2>4, <1>1
  <2> QED BY <2>2, <2>3, <2>4, <2>5, <2>6 DEF Fine
<1>6. \A z \in DOMAIN g : z <= m \/ nx <= z \/ m = nx
  BY <1>1, <1>2, <1>3
<1>7. Onward(g, nx, last)
  BY <1>3, <1>4, <1>5 DEF Onward
<1> QED BY <1>6, <1>7 DEF g

-----------------------------------------------------------------------------
(* Free lists.  bn gives the bin of each element on a list.                *)

(* The links of an element and its neighbours agree, and the first element *)
(* of a bin is the one without a predecessor.                              *)
Linked(l, f, bn, o) ==
  /\ bn[o] \in Bins
  /\ l[o].next # NONE =>
       /\ l[o].next \in DOMAIN l /\ l[l[o].next].prev = o /\ bn[l[o].next] = bn[o]
  /\ l[o].prev # NONE =>
       /\ l[o].prev \in DOMAIN l /\ l[l[o].prev].next = o /\ bn[l[o].prev] = bn[o]
  /\ l[o].prev = NONE <=> f[bn[o]] = o

(* No list comes back to where it was: ranks fall along the links.         *)
Ranked(l, rank, K) ==
  /\ rank \in [DOMAIN l -> 0 .. K]
  /\ \A o \in DOMAIN l : l[o].next # NONE => rank[l[o].next] < rank[o]

Listed(l, f, bn) ==
  /\ l \in [DOMAIN l -> [next : Int, prev : Int]] /\ DOMAIN l \subseteq Nat
  /\ f \in [Bins -> Int]
  /\ \A o \in DOMAIN l : Linked(l, f, bn, o)
  /\ \A b \in Bins : f[b] # NONE => f[b] \in DOMAIN l /\ bn[f[b]] = b
  /\ \E K \in Nat : \E rank : Ranked(l, rank, K)

(* remove_free_elt unlinks an element.                                     *)
LEMMA RemoveUnlinks ==
  ASSUME NEW H, IsHeap(H), NEW bn, Listed(H.link, H.first, bn), NEW o \in DOMAIN H.link
  PROVE  LET G == remove_free_elt(H, o, bn[o])
         IN  /\ IsHeap(G) /\ G.elt = H.elt /\ DOMAIN G.link = DOMAIN H.link \ {o}
             /\ Listed(G.link, G.first, bn)
<1> DEFINE G == remove_free_elt(H, o, bn[o])
           l == H.link  f == H.first
           no == l[o].next  po == l[o].prev
           k == [x \in DOMAIN l \ {o} |-> [next |-> IF x = po THEN no ELSE l[x].next,
                                           prev |-> IF x = no THEN po ELSE l[x].prev]]
           h == [f EXCEPT ![bn[o]] = IF po = NONE THEN no ELSE @]
<1>1. G = [H EXCEPT !.first = h, !.link = k]
  BY DEF remove_free_elt, IsHeap
<1>2. IsHeap(G) /\ G.elt = H.elt /\ G.link = k /\ G.first = h
  BY <1>1 DEF IsHeap
<1>3. /\ l \in [DOMAIN l -> [next : Int, prev : Int]] /\ DOMAIN l \subseteq Nat
      /\ f \in [Bins -> Int] /\ o \in DOMAIN l /\ NONE \in Int /\ NONE \notin Nat
      /\ \A x \in DOMAIN l : Linked(l, f, bn, x)
      /\ \A b \in Bins : f[b] # NONE => f[b] \in DOMAIN l /\ bn[f[b]] = b
  BY DEF Listed, NONE
<1>4a. PICK K \in Nat : \E r : Ranked(l, r, K)
  BY DEF Listed
<1>4. PICK rank : K \in Nat /\ Ranked(l, rank, K)
  BY <1>4a
<1> HIDE DEF l, f, G
<1>5. no \in Int /\ po \in Int /\ bn[o] \in Bins
  BY <1>3 DEF Linked
<1>6. /\ DOMAIN k = DOMAIN l \ {o} /\ k \in [DOMAIN k -> [next : Int, prev : Int]]
      /\ \A x \in DOMAIN k : /\ k[x].next = IF x = po THEN no ELSE l[x].next
                             /\ k[x].prev = IF x = no THEN po ELSE l[x].prev
  BY <1>3, <1>5
<1>7. /\ h \in [Bins -> Int]
      /\ \A b \in Bins : h[b] = IF b = bn[o] /\ po = NONE THEN no ELSE f[b]
  BY <1>3, <1>5
<1> HIDE DEF k, h, no, po
<1>8. /\ no # NONE => no \in DOMAIN l /\ l[no].prev = o /\ bn[no] = bn[o]
      /\ po # NONE => po \in DOMAIN l /\ l[po].next = o /\ bn[po] = bn[o]
      /\ po = NONE <=> f[bn[o]] = o
  BY <1>3 DEF Linked, no, po
<1>9. /\ rank \in [DOMAIN l -> 0 .. K]
      /\ \A x \in DOMAIN l : l[x].next # NONE => rank[l[x].next] < rank[x]
  BY <1>4 DEF Ranked
<1>10. no # o /\ po # o
  <2>1. no # o
    BY <1>3, <1>8, <1>9 DEF no
  <2>2. po # o
    BY <1>3, <1>8, <1>9 DEF no
  <2> QED BY <2>1, <2>2
<1>11. ASSUME NEW x \in DOMAIN k PROVE Linked(k, h, bn, x)
  <2>1. /\ x \in DOMAIN l /\ x # o /\ x # NONE /\ bn[x] \in Bins
        /\ k[x].next = IF x = po THEN no ELSE l[x].next
        /\ k[x].prev = IF x = no THEN po ELSE l[x].prev
    BY <1>3, <1>6 DEF Linked
  <2>2. /\ l[x].next # NONE =>
             l[x].next \in DOMAIN l /\ l[l[x].next].prev = x /\ bn[l[x].next] = bn[x]
        /\ l[x].prev # NONE =>
             l[x].prev \in DOMAIN l /\ l[l[x].prev].next = x /\ bn[l[x].prev] = bn[x]
        /\ l[x].prev = NONE <=> f[bn[x]] = x
    BY <1>3, <2>1 DEF Linked
  <2>3. /\ l[x].next = o <=> x = po
        /\ l[x].prev = o <=> x = no
    BY <1>3, <1>8, <2>1, <2>2 DEF no, po
  <2>4. k[x].next # NONE =>
          k[x].next \in DOMAIN k /\ k[k[x].next].prev = x /\ bn[k[x].next] = bn[x]
    <3>1. CASE x = po
      <4>1. k[x].next = no
        BY <2>1, <3>1
      <4>2. no # NONE => no \in DOMAIN k /\ k[no].prev = po
        BY <1>6, <1>8, <1>10
      <4> QED BY <4>1, <4>2, <3>1, <1>8, <2>1
    <3>2. CASE x # po
      <4> DEFINE y == l[x].next
      <4>1. k[x].next = y /\ y # o
        BY <2>1, <2>3, <3>2
      <4>2. y # NONE => y \in DOMAIN k /\ bn[y] = bn[x] /\ l[y].prev = x
        BY <4>1, <2>2, <1>6
      <4>3. y # NONE => y # no
        BY <4>2, <1>8, <2>1
      <4> HIDE DEF y
      <4> QED BY <4>1, <4>2, <4>3, <1>6
    <3> QED BY <3>1, <3>2
  <2>5. k[x].prev # NONE =>
          k[x].prev \in DOMAIN k /\ k[k[x].prev].next = x /\ bn[k[x].prev] = bn[x]
    <3>1. CASE x = no
      <4>1. k[x].prev = po
        BY <2>1, <3>1
      <4>2. po # NONE => po \in DOMAIN k /\ k[po].next = no
        BY <1>6, <1>8, <1>10
      <4> QED BY <4>1, <4>2, <3>1, <1>8, <2>1
    <3>2. CASE x # no
      <4> DEFINE y == l[x].prev
      <4>1. k[x].prev = y /\ y # o
        BY <2>1, <2>3, <3>2
      <4>2. y # NONE => y \in DOMAIN k /\ bn[y] = bn[x] /\ l[y].next = x
        BY <4>1, <2>2, <1>6
      <4>3. y # NONE => y # po
        BY <4>2, <1>8, <2>1
      <4> HIDE DEF y
      <4> QED BY <4>1, <4>2, <4>3, <1>6
    <3> QED BY <3>1, <3>2
  <2>6. k[x].prev = NONE <=> h[bn[x]] = x
    <3>1. h[bn[x]] = IF bn[x] = bn[o] /\ po = NONE THEN no ELSE f[bn[x]]
      BY <1>7, <2>1
    <3>2. CASE x = no
      BY <3>1, <3>2, <2>1, <2>2, <1>3, <1>8
    <3>3. CASE x # no
      BY <3>1, <3>3, <2>1, <2>2, <1>3, <1>8
    <3> QED BY <3>2, <3>3
  <2> QED BY <2>1, <2>4, <2>5, <2>6 DEF Linked
<1>12. ASSUME NEW b \in Bins, h[b] # NONE PROVE h[b] \in DOMAIN k /\ bn[h[b]] = b
  <2>1. CASE b = bn[o] /\ po = NONE
    BY <2>1, <1>6, <1>7, <1>8, <1>10, <1>12
  <2>2. CASE ~ (b = bn[o] /\ po = NONE)
    <3>1. h[b] = f[b] /\ f[b] \in DOMAIN l /\ bn[f[b]] = b
      BY <2>2, <1>3, <1>7, <1>12
    <3>2. f[b] # o
      BY <3>1, <2>2, <1>8
    <3> QED BY <3>1, <3>2, <1>6
  <2> QED BY <2>1, <2>2
<1>13. Ranked(k, [x \in DOMAIN k |-> rank[x]], K)
  <2> DEFINE r == [x \in DOMAIN k |-> rank[x]]
  <2>1. r \in [DOMAIN k -> 0 .. K] /\ \A x \in DOMAIN k : r[x] = rank[x]
    BY <1>6, <1>9
  <2> HIDE DEF r
  <2>2. ASSUME NEW x \in DOMAIN k, k[x].next # NONE PROVE r[k[x].next] < r[x]
    <3>1. k[x].next \in DOMAIN k
      BY <1>11, <2>2 DEF Linked
    <3>2. rank[x] \in Nat /\ rank[o] \in Nat /\ rank[k[x].next] \in Nat
      BY <3>1, <1>3, <1>6, <1>9
    <3>3. rank[k[x].next] < rank[x]
      <4>1. CASE x = po
        <5>1. k[x].next = no /\ no # NONE
          BY <4>1, <1>6, <2>2
        <5>2. rank[no] < rank[o]
          BY <5>1, <1>3, <1>9 DEF no
        <5>3. rank[o] < rank[po]
          BY <4>1, <1>3, <1>6, <1>8, <1>9
        <5> QED BY <4>1, <5>1, <5>2, <5>3, <3>2
      <4>2. CASE x # po
        BY <4>2, <1>6, <1>9, <2>2
      <4> QED BY <4>1, <4>2
    <3> QED BY <3>1, <3>3, <2>1
  <2> QED BY <2>1, <2>2 DEF Ranked, r
<1>14. Listed(k, h, bn)
  <2>1. \E r : Ranked(k, r, K)
    BY <1>13
  <2> QED BY <2>1, <1>3, <1>4, <1>6, <1>7, <1>11, <1>12 DEF Listed
<1> QED BY <1>2, <1>6, <1>14 DEF G, l

(* set_free_elt puts an element in front of its bin's list.                *)
LEMMA AddLinks ==
  ASSUME NEW H, IsHeap(H), NEW bn, Listed(H.link, H.first, bn),
         NEW o \in Nat, o \notin DOMAIN H.link, NEW n,
         NEW bm, bm[o] = user_data_size_to_bin_index(n), bm[o] \in Bins,
         \A x \in DOMAIN H.link : bm[x] = bn[x]
  PROVE  LET G == set_free_elt(H, o, n)
         IN  /\ IsHeap(G) /\ G.elt = H.elt /\ DOMAIN G.link = DOMAIN H.link \cup {o}
             /\ Listed(G.link, G.first, bm)
<1> DEFINE G == set_free_elt(H, o, n)
           b == bm[o]
           l == H.link  f == H.first
           fo == f[b]
           k == [x \in DOMAIN l \cup {o} |->
                   CASE x = o -> [next |-> fo, prev |-> NONE]
                     [] x = fo -> [l[fo] EXCEPT !.prev = o]
                     [] OTHER -> l[x]]
           h == [f EXCEPT ![b] = o]
<1>1. G = [H EXCEPT !.first = h, !.link = k]
  BY DEF set_free_elt
<1>2. IsHeap(G) /\ G.elt = H.elt /\ G.link = k /\ G.first = h
  BY <1>1 DEF IsHeap
<1>3. /\ l \in [DOMAIN l -> [next : Int, prev : Int]] /\ DOMAIN l \subseteq Nat
      /\ f \in [Bins -> Int] /\ o \notin DOMAIN l /\ NONE \in Int /\ NONE \notin Nat
      /\ \A x \in DOMAIN l : Linked(l, f, bn, x)
      /\ \A c \in Bins : f[c] # NONE => f[c] \in DOMAIN l /\ bn[f[c]] = c
      /\ b \in Bins /\ \A x \in DOMAIN l : bm[x] = bn[x]
  BY DEF Listed, NONE
<1>4a. PICK K \in Nat : \E r : Ranked(l, r, K)
  BY DEF Listed
<1>4. PICK rank : K \in Nat /\ Ranked(l, rank, K)
  BY <1>4a
<1> HIDE DEF l, f, G
<1>5. /\ fo \in Int /\ fo # o
      /\ fo # NONE => fo \in DOMAIN l /\ bm[fo] = b /\ l[fo].prev = NONE
  BY <1>3 DEF Linked
<1> HIDE DEF fo
<1>6. /\ DOMAIN k = DOMAIN l \cup {o}
      /\ k[o].next = fo /\ k[o].prev = NONE
      /\ \A x \in DOMAIN l : k[x].next = l[x].next /\ k[x].prev = IF x = fo THEN o ELSE l[x].prev
      /\ k \in [DOMAIN k -> [next : Int, prev : Int]]
  <2>1. k[o] = [next |-> fo, prev |-> NONE]
    BY <1>5
  <2>2. ASSUME NEW x \in DOMAIN l
        PROVE  /\ k[x].next = l[x].next /\ k[x].prev = IF x = fo THEN o ELSE l[x].prev
               /\ k[x] \in [next : Int, prev : Int]
    <3>1. x # o /\ l[x] \in [next : Int, prev : Int]
      BY <1>3
    <3>2. k[x] = IF x = fo THEN [l[x] EXCEPT !.prev = o] ELSE l[x]
      BY <3>1
    <3> HIDE DEF k
    <3> QED BY <3>1, <3>2
  <2>3. DOMAIN k = DOMAIN l \cup {o}
    OBVIOUS
  <2>4. \A x \in DOMAIN k : k[x] \in [next : Int, prev : Int]
    BY <2>1, <2>2, <2>3, <1>3, <1>5
  <2>5. k \in [DOMAIN k -> [next : Int, prev : Int]]
    BY <2>3, <2>4
  <2> HIDE DEF k
  <2> QED BY <2>1, <2>2, <2>3, <2>5
<1>7. h \in [Bins -> Int] /\ \A c \in Bins : h[c] = IF c = b THEN o ELSE f[c]
  BY <1>3
<1> HIDE DEF k, h
<1>8. Linked(k, h, bm, o)
  <2>1. fo # NONE => fo \in DOMAIN k /\ k[fo].prev = o /\ bm[fo] = bm[o]
    BY <1>5, <1>6
  <2> QED BY <2>1, <1>3, <1>6, <1>7 DEF Linked
<1>9. ASSUME NEW x \in DOMAIN l PROVE Linked(k, h, bm, x)
  <2>1. /\ x # o /\ x # NONE /\ bm[x] \in Bins /\ bm[x] = bn[x]
        /\ k[x].next = l[x].next /\ k[x].prev = IF x = fo THEN o ELSE l[x].prev
        /\ l[x].next \in Int /\ l[x].prev \in Int
    BY <1>3, <1>6 DEF Linked
  <2>2. /\ l[x].next # NONE =>
             l[x].next \in DOMAIN l /\ l[l[x].next].prev = x /\ bm[l[x].next] = bm[x]
        /\ l[x].prev # NONE =>
             l[x].prev \in DOMAIN l /\ l[l[x].prev].next = x /\ bm[l[x].prev] = bm[x]
        /\ l[x].prev = NONE <=> f[bm[x]] = x
    BY <1>3, <2>1 DEF Linked
  <2>3. k[x].next # NONE =>
          k[x].next \in DOMAIN k /\ k[k[x].next].prev = x /\ bm[k[x].next] = bm[x]
    <3> DEFINE y == l[x].next
    <3>1. y # NONE => y \in DOMAIN l /\ bm[y] = bm[x] /\ l[y].prev = x /\ y # fo
      BY <2>1, <2>2, <1>5
    <3>2. k[x].next = y
      BY <2>1
    <3> HIDE DEF y
    <3> QED BY <3>1, <3>2, <1>6
  <2>4. k[x].prev # NONE =>
          k[x].prev \in DOMAIN k /\ k[k[x].prev].next = x /\ bm[k[x].prev] = bm[x]
    <3>1. CASE x = fo
      BY <3>1, <2>1, <1>3, <1>5, <1>6
    <3>2. CASE x # fo
      <4> DEFINE y == l[x].prev
      <4>1. y # NONE => y \in DOMAIN l /\ bm[y] = bm[x] /\ l[y].next = x
        BY <2>2
      <4>2. k[x].prev = y
        BY <2>1, <3>2
      <4> HIDE DEF y
      <4> QED BY <4>1, <4>2, <1>6
    <3> QED BY <3>1, <3>2
  <2>5. k[x].prev = NONE <=> h[bm[x]] = x
    <3>1. h[bm[x]] = IF bm[x] = b THEN o ELSE f[bm[x]]
      BY <1>7, <2>1
    <3>2. CASE x = fo
      BY <3>1, <3>2, <2>1, <1>3, <1>5
    <3>3. CASE x # fo
      BY <3>1, <3>3, <2>1, <2>2, <1>3 DEF fo
    <3> QED BY <3>2, <3>3
  <2> QED BY <2>1, <2>3, <2>4, <2>5 DEF Linked
<1>10. ASSUME NEW c \in Bins, h[c] # NONE PROVE h[c] \in DOMAIN k /\ bm[h[c]] = c
  <2>1. CASE c = b
    BY <2>1, <1>6, <1>7
  <2>2. CASE c # b
    BY <2>2, <1>3, <1>6, <1>7, <1>10
  <2> QED BY <2>1, <2>2
<1>11. Ranked(k, [x \in DOMAIN k |-> IF x = o THEN K + 1 ELSE rank[x]], K + 1)
  <2> DEFINE r == [x \in DOMAIN k |-> IF x = o THEN K + 1 ELSE rank[x]]
  <2>1. /\ rank \in [DOMAIN l -> 0 .. K]
        /\ \A x \in DOMAIN l : l[x].next # NONE => rank[l[x].next] < rank[x]
    BY <1>4 DEF Ranked
  <2>2. /\ r[o] = K + 1 /\ \A x \in DOMAIN l : r[x] = rank[x] /\ r[x] \in 0 .. K
        /\ r \in [DOMAIN k -> 0 .. K + 1]
    BY <2>1, <1>3, <1>4, <1>6
  <2> HIDE DEF r
  <2>3. ASSUME NEW x \in DOMAIN k, k[x].next # NONE PROVE r[k[x].next] < r[x]
    <3>1. CASE x = o
      BY <3>1, <2>2, <2>3, <1>4, <1>5, <1>6
    <3>2. CASE x # o
      <4>1. x \in DOMAIN l /\ k[x].next = l[x].next
        BY <3>2, <1>6
      <4>2. l[x].next \in DOMAIN l
        BY <4>1, <2>3, <1>3 DEF Linked
      <4> QED BY <4>1, <4>2, <2>1, <2>2, <2>3
    <3> QED BY <3>1, <3>2
  <2> QED BY <2>2, <2>3 DEF Ranked, r
<1>12. Listed(k, h, bm)
  <2>1. \E r : Ranked(k, r, K + 1)
    BY <1>11
  <2>2. \A x \in DOMAIN k : Linked(k, h, bm, x)
    BY <1>6, <1>8, <1>9
  <2>3. K + 1 \in Nat /\ DOMAIN k \subseteq Nat
    BY <1>3, <1>4, <1>6
  <2> QED BY <2>1, <2>2, <2>3, <1>6, <1>7, <1>10 DEF Listed
<1> QED BY <1>2, <1>6, <1>12 DEF G, l

(* Only the bins of listed elements matter.                                *)
LEMMA ListedAlike ==
  ASSUME NEW l, NEW f, NEW bn, Listed(l, f, bn),
         NEW bm, \A x \in DOMAIN l : bm[x] = bn[x]
  PROVE  Listed(l, f, bm)
<1>1. \A x \in DOMAIN l : Linked(l, f, bn, x)
  BY DEF Listed
<1>2. \A x \in DOMAIN l : Linked(l, f, bm, x)
  BY <1>1 DEF Linked
<1> QED BY <1>2 DEF Listed

(* Since ranks fall along the links, following them ends.                  *)
LEMMA ListsEnd ==
  ASSUME NEW bn, Listed(link, first, bn)
  PROVE  /\ ListFrom = [o \in DOMAIN link |->
              IF link[o].next = NONE THEN <<o>> ELSE <<o>> \o ListFrom[link[o].next]]
         /\ ListFrom \in [DOMAIN link -> Seq(DOMAIN link)]
<1> DEFINE d == DOMAIN link
           At(f, o) == IF link[o].next = NONE THEN <<o>> ELSE <<o>> \o f[link[o].next]
<1>1a. PICK K \in Nat : \E r : Ranked(link, r, K)
  BY DEF Listed
<1>1. PICK rank : K \in Nat /\ Ranked(link, rank, K)
  BY <1>1a
<1>2. /\ rank \in [d -> 0 .. K]
      /\ \A o \in d : link[o].next # NONE => link[o].next \in d /\ rank[link[o].next] < rank[o]
  BY <1>1 DEF Ranked, Listed, Linked
<1> DEFINE Low(j) == {o \in d : rank[o] < j}
           Solves(f, j) == f \in [Low(j) -> Seq(d)] /\ \A o \in Low(j) : f[o] = At(f, o)
           S == {j \in Nat : \E f : Solves(f, j)}
<1>3. 0 \in S
  <2>1. Low(0) = {}
    BY <1>2
  <2>2. Solves([o \in {} |-> <<>>], 0)
    BY <2>1
  <2> HIDE DEF Solves
  <2> QED BY <2>2
<1>4. ASSUME NEW j \in Nat, j \in S PROVE j + 1 \in S
  <2>1. PICK f : Solves(f, j)
    BY <1>4
  <2>2. f \in [Low(j) -> Seq(d)] /\ \A o \in Low(j) : f[o] = At(f, o)
    BY <2>1
  <2> DEFINE g == [o \in Low(j + 1) |-> At(f, o)]
  <2>3. \A o \in Low(j + 1) : link[o].next # NONE => link[o].next \in Low(j)
    BY <1>1, <1>2
  <2>4. \A o \in Low(j) : o \in Low(j + 1)
    BY <1>1, <1>2
  <2>5. \A o \in Low(j + 1) : At(f, o) \in Seq(d)
    <3> SUFFICES ASSUME NEW o \in Low(j + 1) PROVE At(f, o) \in Seq(d)
      OBVIOUS
    <3>1. <<o>> \in Seq(d)
      OBVIOUS
    <3>2. CASE link[o].next = NONE
      BY <3>1, <3>2
    <3>3. CASE link[o].next # NONE
      <4>1. f[link[o].next] \in Seq(d)
        BY <3>3, <2>2, <2>3
      <4> QED BY <4>1, <3>1, <3>3, ConcatProperties
    <3> QED BY <3>2, <3>3
  <2>6. g \in [Low(j + 1) -> Seq(d)] /\ \A o \in Low(j + 1) : g[o] = At(f, o)
    <3> HIDE DEF Low, At
    <3> QED BY <2>5
  <2>7. ASSUME NEW o \in Low(j + 1) PROVE g[o] = At(g, o)
    <3>1. CASE link[o].next = NONE
      BY <3>1, <2>6
    <3>2. CASE link[o].next # NONE
      <4> DEFINE y == link[o].next
      <4>1. y \in Low(j) /\ y \in Low(j + 1)
        BY <3>2, <2>3, <2>4
      <4>2. f[y] = At(f, y) /\ g[y] = At(f, y)
        BY <4>1, <2>2, <2>6
      <4>3. g[y] = f[y]
        BY <4>2
      <4> HIDE DEF g, Low
      <4> QED BY <4>3, <3>2, <2>6
    <3> QED BY <3>1, <3>2
  <2> HIDE DEF g, At
  <2>8. Solves(g, j + 1)
    BY <2>6, <2>7
  <2> HIDE DEF Solves
  <2> QED BY <2>8
<1>5. K + 1 \in S
  <2> HIDE DEF S
  <2> QED BY <1>1, <1>3, <1>4, NumbersByInduction
<1>6. PICK f : Solves(f, K + 1)
  BY <1>5
<1>7. Low(K + 1) = d
  BY <1>1, <1>2
<1>8. f = [o \in d |-> At(f, o)]
  <2>1. f \in [d -> Seq(d)] /\ \A o \in d : f[o] = At(f, o)
    BY <1>6, <1>7
  <2> HIDE DEF At
  <2> QED BY <2>1
<1>9. ListFrom = [o \in d |-> At(ListFrom, o)]
  BY <1>8, Zenon DEF ListFrom
<1> HIDE DEF ListFrom
<1> DEFINE T == {j \in Nat : \A o \in Low(j) : ListFrom[o] \in Seq(d)}
<1>10. 0 \in T
  BY <1>2
<1>11. ASSUME NEW j \in Nat, j \in T PROVE j + 1 \in T
  <2> SUFFICES ASSUME NEW o \in Low(j + 1) PROVE ListFrom[o] \in Seq(d)
    OBVIOUS
  <2>1. ListFrom[o] = At(ListFrom, o)
    BY <1>9
  <2>2. CASE link[o].next = NONE
    BY <2>1, <2>2
  <2>3. CASE link[o].next # NONE
    <3>1. link[o].next \in Low(j)
      BY <2>3, <1>1, <1>2
    <3>2. ListFrom[link[o].next] \in Seq(d)
      BY <3>1, <1>11
    <3>3. <<o>> \in Seq(d)
      OBVIOUS
    <3> QED BY <2>1, <2>3, <3>2, <3>3, ConcatProperties
  <2> QED BY <2>2, <2>3
<1>12. K + 1 \in T
  <2> HIDE DEF T
  <2> QED BY <1>1, <1>10, <1>11, NumbersByInduction
<1>13. \A o \in d : ListFrom[o] \in Seq(d)
  BY <1>7, <1>12
<1>14. ListFrom \in [d -> Seq(d)]
  <2> HIDE DEF At
  <2> QED BY <1>9, <1>13
<1> QED BY <1>9, <1>14

(* A bin's list has free elements only, and every one of the bin.          *)
LEMMA FreeListHas ==
  ASSUME NEW bn, Listed(link, first, bn)
  PROVE  /\ \A b \in Bins : FreeList(b) \in Seq(DOMAIN link)
         /\ \A o \in DOMAIN link : \E k \in DOMAIN FreeList(bn[o]) : FreeList(bn[o])[k] = o
<1> DEFINE d == DOMAIN link
           Has(s, o) == \E k \in DOMAIN s : s[k] = o
<1>1. /\ ListFrom \in [d -> Seq(d)]
      /\ \A o \in d : ListFrom[o] = IF link[o].next = NONE THEN <<o>>
                                    ELSE <<o>> \o ListFrom[link[o].next]
  BY ListsEnd
<1>2. /\ \A o \in d : Linked(link, first, bn, o)
      /\ \A b \in Bins : first[b] # NONE => first[b] \in d /\ bn[first[b]] = b
      /\ d \subseteq Nat /\ NONE \notin Nat
  BY DEF Listed, NONE
<1>3. \A b \in Bins : FreeList(b) \in Seq(d)
  <2> SUFFICES ASSUME NEW b \in Bins PROVE FreeList(b) \in Seq(d)
    OBVIOUS
  <2>1. CASE first[b] = NONE
    <3>1. << >> \in Seq(d)
      OBVIOUS
    <3> QED BY <2>1, <3>1 DEF FreeList
  <2>2. CASE first[b] # NONE
    <3>1. ListFrom[first[b]] \in Seq(d)
      <4> HIDE DEF ListFrom
      <4> QED BY <2>2, <1>1, <1>2
    <3> HIDE DEF ListFrom
    <3> QED BY <2>2, <3>1 DEF FreeList
  <2> QED BY <2>1, <2>2
<1>4a. PICK K \in Nat : \E r : Ranked(link, r, K)
  BY DEF Listed
<1>4. PICK rank : K \in Nat /\ Ranked(link, rank, K)
  BY <1>4a
<1>5. /\ rank \in [d -> 0 .. K]
      /\ \A o \in d : link[o].next # NONE => rank[link[o].next] < rank[o]
  BY <1>4 DEF Ranked
<1>6. ASSUME NEW o \in d PROVE Has(ListFrom[o], o)
  <2>1. CASE link[o].next = NONE
    <3>1. ListFrom[o] = <<o>>
      BY <2>1, <1>1
    <3>2. 1 \in DOMAIN <<o>> /\ <<o>>[1] = o
      OBVIOUS
    <3> QED BY <3>1, <3>2
  <2>2. CASE link[o].next # NONE
    <3> DEFINE s == ListFrom[link[o].next]  t == <<o>>
    <3>a. link[o].next \in d
      BY <2>2, <1>2 DEF Linked
    <3>b. s \in Seq(d)
      BY <3>a, <1>1
    <3>c. ListFrom[o] = t \o s
      BY <2>2, <1>1
    <3>d. t \in Seq(d) /\ Len(t) = 1 /\ t[1] = o
      OBVIOUS
    <3>1. s \in Seq(d) /\ ListFrom[o] = t \o s /\ t \in Seq(d) /\ Len(t) = 1 /\ t[1] = o
      BY <3>b, <3>c, <3>d
    <3> HIDE DEF s, t
    <3>2. 1 \in DOMAIN (t \o s) /\ (t \o s)[1] = o
      BY <3>1, ConcatProperties, LenProperties
    <3> QED BY <3>1, <3>2
  <2> QED BY <2>1, <2>2
<1>7. ASSUME NEW o \in d, NEW p \in d, link[p].next = o, NEW x, Has(ListFrom[o], x)
      PROVE  Has(ListFrom[p], x)
  <2> DEFINE s == ListFrom[o]  t == <<p>>
  <2>a. s \in Seq(d)
    BY <1>1
  <2>b. link[p].next # NONE
    BY <1>2, <1>7
  <2>c. ListFrom[p] = t \o s
    BY <2>b, <1>1, <1>7
  <2>d. t \in Seq(d) /\ Len(t) = 1
    OBVIOUS
  <2>1. s \in Seq(d) /\ ListFrom[p] = t \o s /\ t \in Seq(d) /\ Len(t) = 1
    BY <2>a, <2>c, <2>d
  <2>2. PICK k \in DOMAIN s : s[k] = x
    BY <1>7
  <2> HIDE DEF s, t
  <2>3. k \in 1 .. Len(s) /\ Len(s) \in Nat
    BY <2>1, <2>2, LenProperties
  <2>e. /\ t \o s \in Seq(d) /\ Len(t \o s) = Len(t) + Len(s)
        /\ \A i \in 1 .. Len(t) + Len(s) :
             (t \o s)[i] = IF i <= Len(t) THEN t[i] ELSE s[i - Len(t)]
    BY <2>1, ConcatProperties
  <2>f. k + 1 \in 1 .. Len(t) + Len(s) /\ ~ (k + 1 <= Len(t)) /\ k + 1 - Len(t) = k
    BY <2>1, <2>3
  <2>4. /\ t \o s \in Seq(d) /\ Len(t \o s) = 1 + Len(s)
        /\ (t \o s)[k + 1] = s[k]
    BY <2>1, <2>e, <2>f
  <2>5. k + 1 \in DOMAIN (t \o s)
    BY <2>3, <2>4, LenProperties
  <2> QED BY <2>1, <2>2, <2>4, <2>5
<1> HIDE DEF Has
<1> DEFINE T == {j \in Nat : \A o \in d : \A x : rank[o] + j >= K /\ Has(ListFrom[o], x)
                                => Has(FreeList(bn[o]), x)}
<1>8. ASSUME NEW j \in Nat,
             \A o \in d : \A x : rank[o] >= K + 1 - j /\ Has(ListFrom[o], x)
                                   => Has(FreeList(bn[o]), x)
      PROVE  j \in T
  <2> SUFFICES ASSUME NEW o \in d, NEW x, rank[o] + j >= K, Has(ListFrom[o], x)
               PROVE  Has(FreeList(bn[o]), x)
    OBVIOUS
  <2>1. Linked(link, first, bn, o)
    BY <1>2
  <2>2. CASE link[o].prev = NONE
    <3>1. first[bn[o]] = o
      BY <2>1, <2>2 DEF Linked
    <3> QED BY <3>1, <1>2 DEF FreeList
  <2>3. CASE link[o].prev # NONE
    <3> DEFINE p == link[o].prev
    <3>1. p \in d /\ link[p].next = o /\ bn[p] = bn[o]
      BY <2>1, <2>3 DEF Linked
    <3>2. rank[o] < rank[p] /\ rank[o] \in Nat /\ rank[p] \in Nat
      BY <3>1, <1>2, <1>5
    <3>3. Has(ListFrom[p], x)
      BY <3>1, <1>7
    <3>4. rank[p] >= K + 1 - j
      BY <3>2, <1>4
    <3> QED BY <3>1, <3>3, <3>4, <1>8
  <2> QED BY <2>2, <2>3
<1>9. \A j \in Nat : j \in T
  <2>1. 0 \in T
    <3>1. \A o \in d : ~ (rank[o] >= K + 1 - 0)
      BY <1>4, <1>5
    <3> QED BY <3>1, <1>8
  <2>2. ASSUME NEW j \in Nat, j \in T PROVE j + 1 \in T
    <3>1. \A o \in d : rank[o] >= K + 1 - (j + 1) => rank[o] + j >= K
      BY <1>4, <1>5
    <3>2. \A o \in d : \A x : rank[o] >= K + 1 - (j + 1) /\ Has(ListFrom[o], x)
                                => Has(FreeList(bn[o]), x)
      BY <3>1, <2>2
    <3> QED BY <3>2, <1>8
  <2> HIDE DEF T
  <2> QED BY <2>1, <2>2, NumbersByInduction
<1>10. ASSUME NEW o \in d PROVE Has(FreeList(bn[o]), o)
  <2>1. rank[o] + K >= K
    BY <1>4, <1>5
  <2>2. K \in T
    <3> HIDE DEF T
    <3> QED BY <1>4, <1>9
  <2>3. Has(ListFrom[o], o)
    BY <1>6
  <2> QED BY <2>1, <2>2, <2>3
<1> QED BY <1>3, <1>10 DEF Has

-----------------------------------------------------------------------------
(* The heap between two assignments of a call.                             *)
BinAt(e) == [x \in DOMAIN e |-> user_data_size_to_bin_index(e[x].n_user_data * 4)]

(* A heap that ends with the tag at last: the tags up to there are right   *)
(* and the lists have the free elements.                                   *)
Ended(H, last) ==
  /\ IsHeap(H) /\ Tagged(H.elt)
  /\ UpTo(H.elt, last) /\ \A x \in DOMAIN H.elt : x <= last
  /\ Listed(H.link, H.first, BinAt(H.elt))
  /\ DOMAIN H.link = {x \in DOMAIN H.elt : x < last /\ H.elt[x].is_free}

(* Between two calls the last element is allocated.                        *)
Whole(H, last) == Ended(H, last) /\ ~ H.elt[last].prev_is_free

(* The same heap while the block from the tag a to the tag b is no element.*)
Hole(H, a, b, last) ==
  /\ IsHeap(H) /\ Tagged(H.elt)
  /\ UpTo(H.elt, a) /\ a < b /\ b < last /\ Onward(H.elt, b, last)
  /\ ~ H.elt[last].prev_is_free
  /\ Listed(H.link, H.first, BinAt(H.elt))
  /\ DOMAIN H.link = {x \in DOMAIN H.elt : (x < a \/ b <= x) /\ x < last /\ H.elt[x].is_free}

(* The elements outside a .. b are in G what they are in H.                *)
Same(H, G, a, b) ==
  /\ G.elt[8].prev_n_user_data = H.elt[8].prev_n_user_data
  /\ \A x \in DOMAIN H.elt : x < a \/ b <= x =>
       /\ x \in DOMAIN G.elt /\ G.elt[x].n_user_data = H.elt[x].n_user_data
       /\ G.elt[x].is_free = H.elt[x].is_free

(* An element is written: as a free one on its list, or as an allocated one.*)
Written(H, o, n, free) ==
  IF free THEN new_free_elt(H, o, n) ELSE mheap_elt_set_size(H, o, n, FALSE)

LEMMA WrittenHeap ==
  ASSUME NEW H, IsHeap(H), Tagged(H.elt), NEW o \in DOMAIN H.elt,
         NEW n \in 8 .. MaxBytes, n % 4 = 0, NEW free \in BOOLEAN,
         Listed(H.link, H.first, BinAt(H.elt)), DOMAIN H.link \subseteq DOMAIN H.elt,
         \A x \in DOMAIN H.link : x < o \/ o + n + 8 <= x
  PROVE  LET G == Written(H, o, n, free)
         IN  /\ IsHeap(G) /\ G.elt = mheap_elt_set_size(H, o, n, free).elt
             /\ Tagged(G.elt)
             /\ Listed(G.link, G.first, BinAt(G.elt))
             /\ DOMAIN G.link = DOMAIN H.link \cup (IF free THEN {o} ELSE {})
             /\ Same(H, G, o, o + n + 8)
<1> DEFINE S == mheap_elt_set_size(H, o, n, free)
           G == Written(H, o, n, free)
           nx == o + n + 8
<1>1. n \in Nat /\ n >= 8 /\ o \in Nat /\ nx \in Nat /\ nx > o /\ nx > 8
  BY Limits DEF Tagged, Addresses
<1>2. /\ IsHeap(S) /\ S.link = H.link /\ S.first = H.first
      /\ DOMAIN S.elt = {x \in DOMAIN H.elt : x <= o \/ x >= nx} \cup {nx}
      /\ Tagged(S.elt)
      /\ 4 * S.elt[o].n_user_data = n /\ S.elt[o].n_user_data \in Nat
      /\ S.elt[o].prev_n_user_data = H.elt[o].prev_n_user_data
      /\ nx \in DOMAIN H.elt => /\ S.elt[nx].n_user_data = H.elt[nx].n_user_data
                                /\ S.elt[nx].is_free = H.elt[nx].is_free
      /\ \A x \in DOMAIN S.elt : x # o /\ x # nx => S.elt[x] = H.elt[x]
  BY <1>1, SetSizeWrites
<1> HIDE DEF S
<1>3. DOMAIN H.elt \subseteq Nat /\ 8 \in DOMAIN H.elt
  BY DEF Tagged, Addresses
<1>4. Same(H, S, o, nx)
  <2>1. S.elt[8].prev_n_user_data = H.elt[8].prev_n_user_data
    <3>1. CASE o = 8
      BY <3>1, <1>2
    <3>2. CASE o # 8
      <4>1. 8 # nx /\ 8 \in DOMAIN S.elt
        BY <1>1, <1>2 DEF Tagged
      <4> QED BY <3>2, <4>1, <1>2
    <3> QED BY <3>1, <3>2
  <2>2. ASSUME NEW x \in DOMAIN H.elt, x < o \/ nx <= x
        PROVE  /\ x \in DOMAIN S.elt /\ S.elt[x].n_user_data = H.elt[x].n_user_data
               /\ S.elt[x].is_free = H.elt[x].is_free
    <3>1. x \in DOMAIN S.elt /\ x # o
      BY <2>2, <1>1, <1>2, <1>3
    <3>2. CASE x = nx
      BY <3>1, <3>2, <1>2
    <3>3. CASE x # nx
      BY <3>1, <3>3, <1>2
    <3> QED BY <3>2, <3>3
  <2> QED BY <2>1, <2>2 DEF Same
<1>5. \A x \in DOMAIN H.link : x # o /\ BinAt(S.elt)[x] = BinAt(H.elt)[x]
  <2> SUFFICES ASSUME NEW x \in DOMAIN H.link
               PROVE  x # o /\ BinAt(S.elt)[x] = BinAt(H.elt)[x]
    OBVIOUS
  <2>1. x \in DOMAIN H.elt /\ (x < o \/ nx <= x)
    OBVIOUS
  <2>2. x \in DOMAIN S.elt /\ S.elt[x].n_user_data = H.elt[x].n_user_data
    BY <2>1, <1>4 DEF Same
  <2>3. x # o
    BY <2>1, <1>1, <1>3
  <2> QED BY <2>1, <2>2, <2>3 DEF BinAt
<1>6. Listed(S.link, S.first, BinAt(S.elt))
  BY <1>2, <1>5, ListedAlike
<1>7. CASE ~ free
  <2>1. G = S
    BY <1>7 DEF Written, S
  <2> HIDE DEF G
  <2> QED BY <1>7, <2>1, <1>2, <1>4, <1>6 DEF S, G
<1>8. CASE free
  <2>1. G = set_free_elt(S, o, n)
    BY <1>8 DEF Written, S, new_free_elt
  <2>2. o \in DOMAIN S.elt /\ o \notin DOMAIN S.link
    BY <1>1, <1>2, <1>5
  <2>3. BinAt(S.elt)[o] = user_data_size_to_bin_index(n)
    <3>1. S.elt[o].n_user_data * 4 = n
      BY <1>2
    <3> QED BY <2>2, <3>1 DEF BinAt
  <2>4. user_data_size_to_bin_index(n) \in Bins
    <3>1. n \in 0 .. MaxBytes
      BY <1>1, Limits
    <3> QED BY <3>1, BinOf
  <2>5. /\ IsHeap(G) /\ G.elt = S.elt /\ DOMAIN G.link = DOMAIN S.link \cup {o}
        /\ Listed(G.link, G.first, BinAt(S.elt))
    <3> DEFINE bm == BinAt(S.elt)
    <3>1. bm[o] = user_data_size_to_bin_index(n) /\ bm[o] \in Bins
      BY <2>3, <2>4
    <3>2. Listed(S.link, S.first, bm)
      BY <1>6
    <3> HIDE DEF bm
    <3>3. /\ IsHeap(G) /\ G.elt = S.elt /\ DOMAIN G.link = DOMAIN S.link \cup {o}
          /\ Listed(G.link, G.first, bm)
      BY <1>1, <1>2, <2>1, <2>2, <3>1, <3>2, AddLinks
    <3> QED BY <3>3 DEF bm
  <2> HIDE DEF G
  <2>6. Same(H, G, o, nx)
    BY <1>4, <2>5 DEF Same
  <2>7. Listed(G.link, G.first, BinAt(G.elt)) /\ Tagged(G.elt)
    BY <2>5, <1>2
  <2>8. DOMAIN G.link = DOMAIN H.link \cup {o}
    BY <2>5, <1>2
  <2>9. G.elt = mheap_elt_set_size(H, o, n, free).elt
    BY <2>5 DEF S
  <2> QED BY <1>8, <2>5, <2>6, <2>7, <2>8, <2>9 DEF G
<1> QED BY <1>7, <1>8

(* An element leaves its list.                                             *)
LEMMA RemovedHeap ==
  ASSUME NEW H, IsHeap(H), Listed(H.link, H.first, BinAt(H.elt)), NEW o \in DOMAIN H.link,
         o \in DOMAIN H.elt
  PROVE  LET G == remove_free_elt2(H, o)
         IN  /\ IsHeap(G) /\ G.elt = H.elt /\ DOMAIN G.link = DOMAIN H.link \ {o}
             /\ Listed(G.link, G.first, BinAt(G.elt))
<1> DEFINE bn == BinAt(H.elt)  G == remove_free_elt(H, o, bn[o])
<1>1. remove_free_elt2(H, o) = G
  BY DEF remove_free_elt2, mheap_elt_data_bytes, BinAt
<1>2. Listed(H.link, H.first, bn)
  OBVIOUS
<1> HIDE DEF bn
<1>3. /\ IsHeap(G) /\ G.elt = H.elt /\ DOMAIN G.link = DOMAIN H.link \ {o}
      /\ Listed(G.link, G.first, bn)
  BY <1>2, RemoveUnlinks
<1> HIDE DEF G
<1> QED BY <1>1, <1>3 DEF bn

(* No tag is within a block.                                               *)
Bare(H, a, b) == \A z \in DOMAIN H.elt : z <= a \/ b <= z

(* A block becomes one element.                                            *)
LEMMA Filled ==
  ASSUME NEW H, NEW a, NEW b, NEW last, Hole(H, a, b, last),
         NEW n \in 8 .. MaxBytes, n % 4 = 0, a + n + 8 = b, NEW free \in BOOLEAN,
         free => ~ H.elt[a].prev_is_free /\ ~ H.elt[b].is_free
  PROVE  LET G == Written(H, a, n, free)
         IN  /\ Whole(G, last) /\ Same(H, G, a, b)
             /\ a \in DOMAIN G.elt /\ 4 * G.elt[a].n_user_data = n /\ G.elt[a].is_free = free
<1> DEFINE e == H.elt  S == mheap_elt_set_size(H, a, n, free)  g == S.elt
           G == Written(H, a, n, free)
<1>1. /\ IsHeap(H) /\ Tagged(e) /\ UpTo(e, a) /\ a < b /\ b < last /\ Onward(e, b, last)
      /\ ~ e[last].prev_is_free /\ Listed(H.link, H.first, BinAt(H.elt))
      /\ DOMAIN H.link = {x \in DOMAIN e : (x < a \/ b <= x) /\ x < last /\ e[x].is_free}
  BY DEF Hole
<1>2. /\ a \in DOMAIN e /\ b \in DOMAIN e /\ last \in DOMAIN e /\ DOMAIN e \subseteq Nat
      /\ a \in Nat /\ b \in Nat /\ last \in Nat /\ n \in Nat /\ n >= 8
      /\ \A x \in DOMAIN e : x <= last
  BY <1>1, Limits DEF UpTo, Onward, Tagged, Addresses
<1>3. /\ DOMAIN g = {x \in DOMAIN e : x <= a \/ x >= b} \cup {b}
      /\ 4 * g[a].n_user_data = n /\ g[a].is_free = free
      /\ g[b].is_free = e[b].is_free
      /\ \A x \in DOMAIN g : x # a /\ x # b => g[x] = e[x]
  <2> DEFINE m == a + n + 8
  <2>1. /\ DOMAIN g = {x \in DOMAIN e : x <= a \/ x >= m} \cup {m}
        /\ 4 * g[a].n_user_data = n /\ g[a].is_free = free
        /\ m \in DOMAIN e => g[m].is_free = e[m].is_free
        /\ \A x \in DOMAIN g : x # a /\ x # m => g[x] = e[x]
    BY <1>1, <1>2, SetSizeWrites
  <2>2. m = b
    OBVIOUS
  <2> HIDE DEF g, e, m
  <2> QED BY <2>1, <2>2, <1>2
<1>4. UpTo(g, b)
  BY <1>1, <1>2, SetSizeUpTo
<1>5. Onward(g, b, last)
  BY <1>1, <1>2, SetSizeOnward
<1>6. /\ IsHeap(G) /\ G.elt = g /\ Tagged(g) /\ Listed(G.link, G.first, BinAt(G.elt))
      /\ DOMAIN G.link = DOMAIN H.link \cup (IF free THEN {a} ELSE {})
      /\ Same(H, G, a, b)
  BY <1>1, <1>2, WrittenHeap
<1> HIDE DEF g, G, e
<1>7. UpTo(g, last) /\ \A x \in DOMAIN g : x <= last
  <2>1. DOMAIN g \subseteq Nat /\ last \in DOMAIN g
    BY <1>2, <1>3, <1>5 DEF Onward
  <2>2. \A x \in DOMAIN g : x < last => Fine(g, x)
    BY <2>1, <1>2, <1>4, <1>5 DEF UpTo, Onward
  <2> QED BY <2>1, <2>2, <1>5 DEF UpTo, Onward
<1>8. ~ g[last].prev_is_free
  BY <1>1, <1>2, <1>3, <1>5 DEF Onward
<1>9. a \in DOMAIN g
  BY <1>2, <1>3
<1>10. DOMAIN G.link = {x \in DOMAIN g : x < last /\ g[x].is_free}
  <2>1. ASSUME NEW x PROVE x \in DOMAIN G.link <=> x \in DOMAIN g /\ x < last /\ g[x].is_free
    <3>1. CASE x = a
      BY <3>1, <1>1, <1>2, <1>3, <1>6, <1>9
    <3>2. CASE x # a
      <4>1. x \in DOMAIN G.link <=> x \in DOMAIN e /\ (x < a \/ b <= x) /\ x < last /\ e[x].is_free
        BY <3>2, <1>1, <1>6
      <4>2. x \in DOMAIN g <=> x \in DOMAIN e /\ (x < a \/ b <= x)
        BY <3>2, <1>2, <1>3
      <4>3. x \in DOMAIN g => g[x].is_free = e[x].is_free
        BY <3>2, <1>3
      <4> QED BY <4>1, <4>2, <4>3
    <3> QED BY <3>1, <3>2
  <2> QED BY <2>1
<1>11. Whole(G, last)
  BY <1>6, <1>7, <1>8, <1>10 DEF Whole, Ended
<1> QED BY <1>3, <1>6, <1>9, <1>11 DEF G

(* The beginning of a block becomes an element.                            *)
LEMMA SplitOff ==
  ASSUME NEW H, NEW a, NEW b, NEW last, Hole(H, a, b, last), Bare(H, a, b),
         NEW n \in 8 .. MaxBytes, n % 4 = 0, a + n + 8 < b, NEW free \in BOOLEAN,
         free => ~ H.elt[a].prev_is_free
  PROVE  LET G == Written(H, a, n, free)
             m == a + n + 8
         IN  /\ Hole(G, m, b, last) /\ Bare(G, m, b) /\ Same(H, G, a, b)
             /\ a \in DOMAIN G.elt /\ 4 * G.elt[a].n_user_data = n /\ G.elt[a].is_free = free
             /\ G.elt[m].prev_is_free = free
<1> DEFINE e == H.elt  S == mheap_elt_set_size(H, a, n, free)  g == S.elt
           G == Written(H, a, n, free)
           m == a + n + 8
<1>1. /\ IsHeap(H) /\ Tagged(e) /\ UpTo(e, a) /\ a < b /\ b < last /\ Onward(e, b, last)
      /\ ~ e[last].prev_is_free /\ Listed(H.link, H.first, BinAt(H.elt))
      /\ DOMAIN H.link = {x \in DOMAIN e : (x < a \/ b <= x) /\ x < last /\ e[x].is_free}
      /\ \A z \in DOMAIN e : z <= a \/ b <= z
  BY DEF Hole, Bare
<1>2. /\ a \in DOMAIN e /\ b \in DOMAIN e /\ last \in DOMAIN e /\ DOMAIN e \subseteq Nat
      /\ a \in Nat /\ b \in Nat /\ last \in Nat /\ n \in Nat /\ n >= 8 /\ m \in Nat /\ m < b
      /\ a < m
  BY <1>1, Limits DEF UpTo, Onward, Tagged, Addresses
<1>3. /\ DOMAIN g = {x \in DOMAIN e : x <= a \/ x >= m} \cup {m}
      /\ 4 * g[a].n_user_data = n /\ g[a].is_free = free /\ g[m].prev_is_free = free
      /\ \A x \in DOMAIN g : x # a /\ x # m => g[x] = e[x]
  BY <1>1, <1>2, SetSizeWrites
<1>4. UpTo(g, m)
  BY <1>1, <1>2, SetSizeUpTo
<1>5. Onward(g, b, last) /\ \A z \in DOMAIN g : z <= m \/ b <= z \/ m = b
  BY <1>1, <1>2, SetSizeOnward
<1>6. /\ IsHeap(G) /\ G.elt = g /\ Tagged(g) /\ Listed(G.link, G.first, BinAt(G.elt))
      /\ DOMAIN G.link = DOMAIN H.link \cup (IF free THEN {a} ELSE {})
      /\ Same(H, G, a, m)
  <2>1. \A x \in DOMAIN H.link : x < a \/ m <= x
    BY <1>1, <1>2
  <2> QED BY <2>1, <1>1, <1>2, WrittenHeap
<1> HIDE DEF g, G, e, m
<1>7. ~ g[last].prev_is_free
  BY <1>1, <1>2, <1>3, <1>5 DEF Onward
<1>8. a \in DOMAIN g
  BY <1>2, <1>3
<1>9. DOMAIN G.link = {x \in DOMAIN g : (x < m \/ b <= x) /\ x < last /\ g[x].is_free}
  <2>1. ASSUME NEW x
        PROVE  x \in DOMAIN G.link <=> x \in DOMAIN g /\ (x < m \/ b <= x) /\ x < last /\ g[x].is_free
    <3>1. CASE x = a
      BY <3>1, <1>1, <1>2, <1>3, <1>6, <1>8
    <3>2. CASE x # a
      <4>1. x \in DOMAIN G.link <=> x \in DOMAIN e /\ (x < a \/ b <= x) /\ x < last /\ e[x].is_free
        BY <3>2, <1>1, <1>6
      <4>2. x \in DOMAIN g /\ (x < m \/ b <= x) <=> x \in DOMAIN e /\ (x < a \/ b <= x)
        BY <3>2, <1>1, <1>2, <1>3
      <4>3. x \in DOMAIN g /\ (x < m \/ b <= x) => g[x].is_free = e[x].is_free
        BY <3>2, <1>2, <1>3
      <4> QED BY <4>1, <4>2, <4>3
    <3> QED BY <3>1, <3>2
  <2> QED BY <2>1
<1>10. Hole(G, m, b, last) /\ Bare(G, m, b)
  BY <1>1, <1>2, <1>4, <1>5, <1>6, <1>7, <1>9 DEF Hole, Bare
<1>11. Same(H, G, a, b)
  BY <1>2, <1>6 DEF Same, e
<1> QED BY <1>3, <1>6, <1>8, <1>10, <1>11 DEF G, m

(* An element is written at the end of the heap.                           *)
LEMMA Grown ==
  ASSUME NEW H, NEW last, Ended(H, last),
         NEW n \in 8 .. MaxBytes, n % 4 = 0, NEW free \in BOOLEAN,
         free => ~ H.elt[last].prev_is_free
  PROVE  LET G == Written(H, last, n, free)
             nx == last + n + 8
         IN  /\ Ended(G, nx) /\ Same(H, G, last, nx)
             /\ last \in DOMAIN G.elt /\ 4 * G.elt[last].n_user_data = n
             /\ G.elt[last].is_free = free /\ G.elt[nx].prev_is_free = free
<1> DEFINE e == H.elt  S == mheap_elt_set_size(H, last, n, free)  g == S.elt
           G == Written(H, last, n, free)
           nx == last + n + 8
<1>1. /\ IsHeap(H) /\ Tagged(e) /\ UpTo(e, last) /\ \A x \in DOMAIN e : x <= last
      /\ Listed(H.link, H.first, BinAt(H.elt))
      /\ DOMAIN H.link = {x \in DOMAIN e : x < last /\ e[x].is_free}
  BY DEF Ended
<1>2. /\ last \in DOMAIN e /\ DOMAIN e \subseteq Nat
      /\ last \in Nat /\ n \in Nat /\ n >= 8 /\ nx \in Nat /\ last < nx
  BY <1>1, Limits DEF UpTo, Tagged, Addresses
<1>3. /\ DOMAIN g = {x \in DOMAIN e : x <= last \/ x >= nx} \cup {nx}
      /\ 4 * g[last].n_user_data = n /\ g[last].is_free = free /\ g[nx].prev_is_free = free
      /\ \A x \in DOMAIN g : x # last /\ x # nx => g[x] = e[x]
  BY <1>1, <1>2, SetSizeWrites
<1>4. UpTo(g, nx)
  BY <1>1, <1>2, SetSizeUpTo
<1>5. /\ IsHeap(G) /\ G.elt = g /\ Tagged(g) /\ Listed(G.link, G.first, BinAt(G.elt))
      /\ DOMAIN G.link = DOMAIN H.link \cup (IF free THEN {last} ELSE {})
      /\ Same(H, G, last, nx)
  BY <1>1, <1>2, WrittenHeap
<1> HIDE DEF g, G, e, nx
<1>6. last \in DOMAIN g /\ \A x \in DOMAIN g : x <= nx
  BY <1>1, <1>2, <1>3
<1>7. DOMAIN G.link = {x \in DOMAIN g : x < nx /\ g[x].is_free}
  <2>1. ASSUME NEW x PROVE x \in DOMAIN G.link <=> x \in DOMAIN g /\ x < nx /\ g[x].is_free
    <3>1. CASE x = last
      BY <3>1, <1>1, <1>2, <1>3, <1>5, <1>6
    <3>2. CASE x # last
      <4>1. x \in DOMAIN G.link <=> x \in DOMAIN e /\ x < last /\ e[x].is_free
        BY <3>2, <1>1, <1>5
      <4>2. x \in DOMAIN g /\ x < nx <=> x \in DOMAIN e /\ x < last
        BY <3>2, <1>1, <1>2, <1>3
      <4>3. x \in DOMAIN g /\ x < nx => g[x].is_free = e[x].is_free
        BY <3>2, <1>2, <1>3
      <4> QED BY <4>1, <4>2, <4>3
    <3> QED BY <3>1, <3>2
  <2> QED BY <2>1
<1>8. Ended(G, nx)
  BY <1>4, <1>5, <1>6, <1>7 DEF Ended
<1> QED BY <1>3, <1>5, <1>6, <1>8 DEF G, nx

(* An allocated element that is not the last one is made a block.          *)
LEMMA OpenHeld ==
  ASSUME NEW H, NEW last, Whole(H, last), NEW o \in DOMAIN H.elt, o < last,
         ~ H.elt[o].is_free, NextOf(H.elt, o) # last
  PROVE  Hole(H, o, NextOf(H.elt, o), last) /\ Bare(H, o, NextOf(H.elt, o))
<1> DEFINE e == H.elt  b == NextOf(H.elt, o)
<1>1. /\ IsHeap(H) /\ Tagged(e) /\ UpTo(e, last) /\ \A x \in DOMAIN e : x <= last
      /\ ~ e[last].prev_is_free /\ Listed(H.link, H.first, BinAt(H.elt))
      /\ DOMAIN H.link = {x \in DOMAIN e : x < last /\ e[x].is_free}
  BY DEF Whole, Ended
<1>2. /\ last \in DOMAIN e /\ DOMAIN e \subseteq Nat /\ Fine(e, o)
  BY <1>1 DEF UpTo, Tagged, Addresses
<1>3. /\ b \in DOMAIN e /\ o < b /\ \A z \in DOMAIN e : z <= o \/ b <= z
  BY <1>2 DEF Fine, NextOf
<1> HIDE DEF e, b
<1>4. b < last
  BY <1>1, <1>2, <1>3 DEF b, e
<1>5. UpTo(e, o) /\ Onward(e, b, last)
  BY <1>1, <1>2, <1>3 DEF UpTo, Onward, e
<1>6. DOMAIN H.link = {x \in DOMAIN e : (x < o \/ b <= x) /\ x < last /\ e[x].is_free}
  <2>1. \A x \in DOMAIN e : x < last /\ e[x].is_free => x < o \/ b <= x
    BY <1>2, <1>3 DEF e
  <2> QED BY <2>1, <1>1
<1>7. Hole(H, o, b, last)
  BY <1>1, <1>3, <1>4, <1>5, <1>6 DEF Hole, e
<1> QED BY <1>3, <1>7 DEF Bare, e, b

(* A free element is made a block.                                         *)
LEMMA OpenFree ==
  ASSUME NEW H, NEW last, Whole(H, last), NEW f \in DOMAIN H.link
  PROVE  LET G == remove_free_elt2(H, f)
             b == NextOf(H.elt, f)
         IN  /\ G.elt = H.elt /\ Hole(G, f, b, last) /\ Bare(G, f, b)
             /\ ~ H.elt[f].prev_is_free /\ ~ H.elt[b].is_free
<1> DEFINE e == H.elt  b == NextOf(H.elt, f)  G == remove_free_elt2(H, f)
<1>1. /\ IsHeap(H) /\ Tagged(e) /\ UpTo(e, last) /\ \A x \in DOMAIN e : x <= last
      /\ ~ e[last].prev_is_free /\ Listed(H.link, H.first, BinAt(H.elt))
      /\ DOMAIN H.link = {x \in DOMAIN e : x < last /\ e[x].is_free}
  BY DEF Whole, Ended
<1>2. /\ last \in DOMAIN e /\ DOMAIN e \subseteq Nat
      /\ f \in DOMAIN e /\ f < last /\ e[f].is_free /\ Fine(e, f)
  BY <1>1 DEF UpTo, Tagged, Addresses
<1>3. /\ b \in DOMAIN e /\ f < b /\ \A z \in DOMAIN e : z <= f \/ b <= z
      /\ e[b].prev_is_free /\ ~ e[f].prev_is_free
  BY <1>2 DEF Fine, NextOf
<1>4. IsHeap(G) /\ G.elt = H.elt /\ DOMAIN G.link = DOMAIN H.link \ {f}
      /\ Listed(G.link, G.first, BinAt(G.elt))
  BY <1>1, <1>2, RemovedHeap
<1> HIDE DEF e, b, G
<1>5. b < last
  BY <1>1, <1>2, <1>3
<1>6. UpTo(e, f) /\ Onward(e, b, last)
  BY <1>1, <1>2, <1>3 DEF UpTo, Onward
<1>7. DOMAIN G.link = {x \in DOMAIN e : (x < f \/ b <= x) /\ x < last /\ e[x].is_free}
  <2>1. \A x \in DOMAIN e : x # f <=> x < f \/ b <= x
    BY <1>2, <1>3
  <2>2. DOMAIN G.link = {x \in DOMAIN e : x < last /\ e[x].is_free} \ {f}
    BY <1>1, <1>4
  <2> QED BY <2>1, <2>2
<1>8. ~ e[b].is_free
  <2>1. Fine(e, b)
    BY <1>1, <1>3, <1>5 DEF UpTo
  <2> QED BY <2>1, <1>3 DEF Fine
<1>9. Hole(G, f, b, last) /\ Bare(G, f, b)
  <2>1. G.elt = e
    BY <1>4 DEF e
  <2> QED BY <2>1, <1>1, <1>3, <1>4, <1>5, <1>6, <1>7 DEF Hole, Bare
<1> QED BY <1>3, <1>4, <1>8, <1>9 DEF e, b, G

(* The free element before a block joins it.                               *)
LEMMA JoinPrev ==
  ASSUME NEW H, NEW a, NEW b, NEW last, Hole(H, a, b, last),
         NEW p \in DOMAIN H.link, p < a, NextOf(H.elt, p) = a
  PROVE  LET G == remove_free_elt2(H, p)
         IN  G.elt = H.elt /\ Hole(G, p, b, last)
<1> DEFINE e == H.elt  G == remove_free_elt2(H, p)
<1>1. /\ IsHeap(H) /\ Tagged(e) /\ UpTo(e, a) /\ a < b /\ b < last /\ Onward(e, b, last)
      /\ ~ e[last].prev_is_free /\ Listed(H.link, H.first, BinAt(H.elt))
      /\ DOMAIN H.link = {x \in DOMAIN e : (x < a \/ b <= x) /\ x < last /\ e[x].is_free}
  BY DEF Hole
<1>2. /\ a \in DOMAIN e /\ b \in DOMAIN e /\ last \in DOMAIN e /\ DOMAIN e \subseteq Nat
      /\ p \in DOMAIN e /\ Fine(e, p)
  BY <1>1 DEF UpTo, Onward, Tagged, Addresses
<1>3. \A z \in DOMAIN e : z <= p \/ a <= z
  BY <1>2 DEF Fine
<1>4. IsHeap(G) /\ G.elt = H.elt /\ DOMAIN G.link = DOMAIN H.link \ {p}
      /\ Listed(G.link, G.first, BinAt(G.elt))
  BY <1>1, <1>2, RemovedHeap
<1> HIDE DEF e, G
<1>5. UpTo(e, p) /\ p < b
  BY <1>1, <1>2 DEF UpTo
<1>6. DOMAIN G.link = {x \in DOMAIN e : (x < p \/ b <= x) /\ x < last /\ e[x].is_free}
  <2>1. \A x \in DOMAIN e : (x < a \/ b <= x) /\ x # p <=> x < p \/ b <= x
    BY <1>1, <1>2, <1>3
  <2>2. DOMAIN G.link = {x \in DOMAIN e : (x < a \/ b <= x) /\ x < last /\ e[x].is_free} \ {p}
    BY <1>1, <1>4
  <2> QED BY <2>1, <2>2
<1>7. Hole(G, p, b, last)
  <2>1. G.elt = e
    BY <1>4 DEF e
  <2> QED BY <2>1, <1>1, <1>4, <1>5, <1>6 DEF Hole
<1> QED BY <1>4, <1>7 DEF e, G

(* The free element behind a block joins it.                               *)
LEMMA JoinNext ==
  ASSUME NEW H, NEW a, NEW b, NEW last, Hole(H, a, b, last), H.elt[b].is_free
  PROVE  LET G == remove_free_elt2(H, b)
             c == NextOf(H.elt, b)
         IN  /\ G.elt = H.elt /\ Hole(G, a, c, last) /\ b < c
             /\ ~ H.elt[c].is_free
<1> DEFINE e == H.elt  G == remove_free_elt2(H, b)  c == NextOf(H.elt, b)
<1>1. /\ IsHeap(H) /\ Tagged(e) /\ UpTo(e, a) /\ a < b /\ b < last /\ Onward(e, b, last)
      /\ ~ e[last].prev_is_free /\ Listed(H.link, H.first, BinAt(H.elt))
      /\ DOMAIN H.link = {x \in DOMAIN e : (x < a \/ b <= x) /\ x < last /\ e[x].is_free}
  BY DEF Hole
<1>2. /\ a \in DOMAIN e /\ b \in DOMAIN e /\ last \in DOMAIN e /\ DOMAIN e \subseteq Nat
      /\ \A x \in DOMAIN e : x <= last
  BY <1>1 DEF UpTo, Onward, Tagged, Addresses
<1>3. Fine(e, b)
  BY <1>1, <1>2 DEF Onward
<1>4. /\ c \in DOMAIN e /\ b < c /\ (\A z \in DOMAIN e : z <= b \/ c <= z)
      /\ e[c].prev_is_free
  BY <1>2, <1>3 DEF Fine, NextOf
<1>5. b \in DOMAIN H.link
  BY <1>1, <1>2
<1>6. IsHeap(G) /\ G.elt = H.elt /\ DOMAIN G.link = DOMAIN H.link \ {b}
      /\ Listed(G.link, G.first, BinAt(G.elt))
  BY <1>1, <1>2, <1>5, RemovedHeap
<1> HIDE DEF e, G, c
<1>7. c < last /\ a < c
  BY <1>1, <1>2, <1>4
<1>8. Onward(e, c, last)
  BY <1>1, <1>2, <1>4 DEF Onward
<1>9. DOMAIN G.link = {x \in DOMAIN e : (x < a \/ c <= x) /\ x < last /\ e[x].is_free}
  <2>1. \A x \in DOMAIN e : (x < a \/ b <= x) /\ x # b <=> x < a \/ c <= x
    BY <1>1, <1>2, <1>4
  <2>2. DOMAIN G.link = {x \in DOMAIN e : (x < a \/ b <= x) /\ x < last /\ e[x].is_free} \ {b}
    BY <1>1, <1>6
  <2> QED BY <2>1, <2>2
<1>10. ~ e[c].is_free
  <2>1. Fine(e, c)
    BY <1>2, <1>4, <1>7, <1>8 DEF Onward
  <2> QED BY <2>1, <1>4 DEF Fine
<1>11. Hole(G, a, c, last)
  <2>1. G.elt = e
    BY <1>6 DEF e
  <2> QED BY <2>1, <1>1, <1>6, <1>7, <1>8, <1>9 DEF Hole
<1> QED BY <1>4, <1>6, <1>10, <1>11 DEF e, G, c

-----------------------------------------------------------------------------
(* The elements between which a call works.                                *)

(* Every tag but the first has an element before it.                       *)
LEMMA PrevElt ==
  ASSUME NEW e, Tagged(e), NEW o, UpTo(e, o), o # 8
  PROVE  \E p \in DOMAIN e : /\ p < o /\ Fine(e, p) /\ NextOf(e, p) = o
                             /\ p = o - e[o].prev_n_user_data * 4 - 8
                             /\ \A z \in DOMAIN e : z <= p \/ o <= z
<1>1. o \in DOMAIN e /\ DOMAIN e \subseteq Nat /\ 8 \in DOMAIN e /\ 8 < o /\ o \in Nat
  BY DEF Tagged, Addresses, UpTo
<1> DEFINE T == {d \in Nat : d # 0 /\ d <= o /\ o - d \in DOMAIN e}
<1>2. o - 8 \in T
  BY <1>1
<1>3. PICK d \in T : \A c \in T : d <= c
  <2>1. T \in SUBSET Nat /\ T # {}
    BY <1>2
  <2> HIDE DEF T
  <2> QED BY <2>1, LeastNumber
<1> DEFINE p == o - d
<1>4. p \in DOMAIN e /\ p < o /\ p \in Nat
  BY <1>1, <1>3
<1>5. \A z \in DOMAIN e : z <= p \/ o <= z
  <2> SUFFICES ASSUME NEW z \in DOMAIN e, z < o PROVE z <= p
    BY <1>1, <1>4
  <2>1. o - z \in T
    BY <1>1
  <2>2. d <= o - z
    BY <2>1, <1>3
  <2> QED BY <2>2, <1>1, <1>3
<1> HIDE DEF p
<1>6. Fine(e, p)
  BY <1>4 DEF UpTo
<1>7. NextOf(e, p) \in DOMAIN e /\ p < NextOf(e, p) /\ NextOf(e, p) <= o
  BY <1>1, <1>4, <1>6 DEF Fine, NextOf
<1>8. NextOf(e, p) = o
  BY <1>1, <1>4, <1>5, <1>7
<1>9. p = o - e[o].prev_n_user_data * 4 - 8
  BY <1>1, <1>4, <1>6, <1>8 DEF Fine, NextOf
<1> QED BY <1>4, <1>5, <1>6, <1>8, <1>9

(* Between two calls the heap is whole up to its length l.  A heap that    *)
(* has no element keeps the first tag of an earlier one, whose element, if *)
(* it was free, had another one behind it.                                 *)
EndOf(l) == IF l = 0 THEN 8 ELSE l
HeapOK(H, l) ==
  /\ l \in Nat /\ (l <= max_size \/ l = 8) /\ (l = 0 \/ l >= 8)
  /\ Whole(H, EndOf(l))
  /\ l # 0 => H.elt[8].prev_n_user_data = INVALID
  /\ l > 8 => H.elt[l].n_user_data = INVALID
  /\ l <= 8 /\ H.elt[8].is_free => 16 + 4 * H.elt[8].n_user_data <= max_size

(* The elements in use, for the user or for the cache.                     *)
HeldIn(H, l) == {o \in DOMAIN H.elt : o < l /\ ~ H.elt[o].is_free}
Keeps(H, G, l, S) ==
  \A x \in S : x \in HeldIn(G, l) /\ G.elt[x].n_user_data = H.elt[x].n_user_data

(* The tags of a heap name its elements: only the first one has no element *)
(* before it, only the last one is no element.                             *)
LEMMA ElementTags ==
  ASSUME NEW H, NEW l, HeapOK(H, l), NEW o \in DOMAIN H.elt, o < l
  PROVE  /\ o \in Nat /\ o >= 8 /\ o % 4 = 0 /\ l > 8 /\ l <= max_size /\ max_size < MaxBytes
         /\ Fine(H.elt, o) /\ NextOf(H.elt, o) \in DOMAIN H.elt
         /\ o + 16 <= NextOf(H.elt, o) /\ NextOf(H.elt, o) <= l
         /\ H.elt[o].n_user_data \in Nat /\ H.elt[o].n_user_data # INVALID
         /\ 4 * H.elt[o].n_user_data \in 8 .. MaxBytes
         /\ H.elt[NextOf(H.elt, o)].n_user_data = INVALID <=> NextOf(H.elt, o) = l
         /\ H.elt[o].prev_n_user_data = INVALID <=> o = 8
<1> DEFINE e == H.elt  y == NextOf(H.elt, o)
<1>1. /\ Tagged(e) /\ UpTo(e, EndOf(l)) /\ \A x \in DOMAIN e : x <= EndOf(l)
      /\ l \in Nat /\ (l <= max_size \/ l = 8) /\ (l = 0 \/ l >= 8)
      /\ l # 0 => e[8].prev_n_user_data = INVALID
      /\ l > 8 => e[l].n_user_data = INVALID
  BY DEF HeapOK, Whole, Ended
<1>2. /\ DOMAIN e \subseteq Nat /\ o \in Nat /\ o >= 8 /\ o % 4 = 0 /\ l > 8 /\ EndOf(l) = l
      /\ l \in DOMAIN e /\ l <= max_size
  BY <1>1 DEF Tagged, Addresses, EndOf, UpTo
<1>3. max_size \in Nat /\ max_size <= INVALID /\ max_size < MaxBytes /\ INVALID \in Nat
      /\ INVALID + 1 = MaxBytes /\ MaxBytes \in Nat
  BY SizeAssumption, Limits
<1> HIDE DEF e, y
<1>4. ASSUME NEW x \in DOMAIN e, x < l
      PROVE  /\ Fine(e, x) /\ NextOf(e, x) \in DOMAIN e /\ NextOf(e, x) <= l
             /\ x + 16 <= NextOf(e, x) /\ e[x].n_user_data \in Nat /\ e[x].n_user_data # INVALID
             /\ 4 * e[x].n_user_data \in 8 .. MaxBytes
  <2>1. Fine(e, x) /\ x \in Nat
    BY <1>1, <1>2, <1>4 DEF UpTo
  <2>2. /\ NextOf(e, x) \in DOMAIN e /\ NextOf(e, x) <= l
        /\ e[x].n_user_data \in Nat /\ e[x].n_user_data >= 2
    BY <2>1, <1>1, <1>2 DEF Fine
  <2>3. NextOf(e, x) = x + 4 * e[x].n_user_data + 8
    BY <2>2 DEF NextOf
  <2> QED BY <2>1, <2>2, <2>3, <1>2, <1>3
<1>5. e[y].n_user_data = INVALID <=> y = l
  <2>1. y \in DOMAIN e /\ y <= l /\ y \in Nat
    BY <1>2, <1>4 DEF y, e
  <2> QED BY <2>1, <1>1, <1>2, <1>4
<1>6. e[o].prev_n_user_data = INVALID <=> o = 8
  <2> SUFFICES ASSUME o # 8 PROVE e[o].prev_n_user_data # INVALID
    BY <1>1, <1>2
  <2>1. UpTo(e, o) /\ Tagged(e)
    BY <1>1, <1>2 DEF UpTo, e
  <2>2. PICK p \in DOMAIN e : p < o /\ NextOf(e, p) = o /\ Fine(e, p)
    BY <2>1, PrevElt
  <2>3. e[o].prev_n_user_data = e[p].n_user_data
    BY <2>2 DEF Fine
  <2>4. p < l
    BY <2>2, <1>2
  <2> QED BY <2>2, <2>3, <2>4, <1>4
<1>7. o \in DOMAIN e
  BY DEF e
<1> QED BY <1>2, <1>3, <1>4, <1>5, <1>6, <1>7 DEF e, y

-----------------------------------------------------------------------------
(* The heap gets shorter: the tag at e becomes the last one.               *)
Chop(H, e, t) ==
  [H EXCEPT !.elt = [x \in {y \in DOMAIN H.elt : y <= e} |-> IF x = e THEN t ELSE H.elt[x]]]

LEMMA Chopped ==
  ASSUME NEW H, NEW e, IsHeap(H), Tagged(H.elt), UpTo(H.elt, e), ~ H.elt[e].prev_is_free,
         Listed(H.link, H.first, BinAt(H.elt)),
         DOMAIN H.link = {x \in DOMAIN H.elt : x < e /\ H.elt[x].is_free},
         NEW t \in Tag, t.prev_n_user_data = H.elt[e].prev_n_user_data,
         t.prev_is_free = H.elt[e].prev_is_free
  PROVE  LET G == Chop(H, e, t)
         IN  /\ Whole(G, e) /\ G.elt[e] = t /\ G.elt[8].prev_n_user_data = H.elt[8].prev_n_user_data
             /\ \A x \in DOMAIN H.elt : x < e => x \in DOMAIN G.elt /\ G.elt[x] = H.elt[x]
             /\ DOMAIN G.elt \subseteq DOMAIN H.elt
<1> DEFINE h == H.elt
           g == [x \in {y \in DOMAIN h : y <= e} |-> IF x = e THEN t ELSE h[x]]
           G == Chop(H, e, t)
<1>1. IsHeap(G) /\ G.elt = g /\ G.link = H.link /\ G.first = H.first
  BY DEF IsHeap, Chop
<1>2. /\ e \in DOMAIN h /\ DOMAIN h \subseteq Nat /\ e \in Nat /\ 8 \in DOMAIN h /\ 8 <= e
      /\ DOMAIN h \subseteq Addresses /\ h \in [DOMAIN h -> Tag] /\ ~ h[8].prev_is_free
  BY DEF UpTo, Tagged, Addresses
<1>3. /\ DOMAIN g = {y \in DOMAIN h : y <= e} /\ g[e] = t
      /\ \A x \in DOMAIN h : x < e => x \in DOMAIN g /\ g[x] = h[x]
      /\ \A x \in DOMAIN g : x # e => g[x] = h[x]
  BY <1>2
<1>4. /\ \A x \in DOMAIN g : /\ g[x].prev_n_user_data = h[x].prev_n_user_data
                             /\ g[x].prev_is_free = h[x].prev_is_free
      /\ g \in [DOMAIN g -> Tag]
  <2>1. \A x \in DOMAIN g : g[x] \in Tag
    BY <1>2, <1>3
  <2>2. g \in [DOMAIN g -> Tag]
    BY <2>1
  <2> HIDE DEF g
  <2> QED BY <2>2, <1>3
<1> HIDE DEF g, G
<1>5. Tagged(g)
  BY <1>2, <1>3, <1>4 DEF Tagged
<1>6. UpTo(g, e)
  <2>1. ASSUME NEW x \in DOMAIN g, x < e PROVE Fine(g, x)
    <3>1. x \in DOMAIN h /\ g[x] = h[x] /\ Fine(h, x) /\ x \in Nat
      BY <2>1, <1>2, <1>3 DEF UpTo
    <3> DEFINE y == NextOf(h, x)
    <3>2. NextOf(g, x) = y /\ y \in DOMAIN h /\ y <= e
      BY <3>1, <2>1, <1>2 DEF Fine, NextOf
    <3>3. /\ e \in DOMAIN h /\ h[y].prev_n_user_data = h[x].n_user_data
          /\ h[y].prev_is_free = h[x].is_free
          /\ \A z \in DOMAIN h : z <= x \/ y <= z
      BY <3>1, <1>2 DEF Fine
    <3> HIDE DEF y
    <3>4. y \in DOMAIN g
      BY <3>2, <1>3
    <3> QED BY <3>1, <3>2, <3>3, <3>4, <1>3, <1>4 DEF Fine
  <2> QED BY <2>1, <1>2, <1>3 DEF UpTo
<1>7. DOMAIN H.link = {x \in DOMAIN g : x < e /\ g[x].is_free}
  BY <1>2, <1>3
<1>8. Listed(G.link, G.first, BinAt(G.elt))
  <2>1. \A x \in DOMAIN H.link : BinAt(g)[x] = BinAt(h)[x]
    <3> SUFFICES ASSUME NEW x \in DOMAIN H.link PROVE BinAt(g)[x] = BinAt(h)[x]
      OBVIOUS
    <3>1. x \in DOMAIN g /\ x \in DOMAIN h /\ g[x] = h[x]
      BY <1>2, <1>3, <1>7
    <3> QED BY <3>1 DEF BinAt
  <2>2. Listed(H.link, H.first, BinAt(h))
    OBVIOUS
  <2> HIDE DEF h
  <2> QED BY <2>1, <2>2, <1>1, ListedAlike
<1>9. Whole(G, e)
  <2>1. ~ g[e].prev_is_free /\ \A x \in DOMAIN g : x <= e
    BY <1>3
  <2> QED BY <2>1, <1>1, <1>5, <1>6, <1>7, <1>8 DEF Whole, Ended
<1>10. g[8].prev_n_user_data = h[8].prev_n_user_data
  BY <1>2, <1>3, <1>4
<1> QED BY <1>1, <1>3, <1>9, <1>10 DEF G

LEMMA NowIs == IsHeap(Now) /\ Now.elt = elt /\ Now.link = link /\ Now.first = first
BY DEF Now, IsHeap

LEMMA NextElt ==
  ASSUME NEW o
  PROVE  /\ mheap_next_elt(Now, o) = NextOf(elt, o)
         /\ mheap_elt_data_bytes(Now, o) = elt[o].n_user_data * 4
BY NowIs DEF mheap_next_elt, mheap_elt_data_bytes, NextOf

(* A heap has no other tags than those that follow each other from the     *)
(* first one.                                                              *)
LEMMA OnlyThese ==
  ASSUME NEW g, Tagged(g), NEW last, UpTo(g, last), NEW S, S \subseteq DOMAIN g, 8 \in S,
         \A x \in S : x < last => NextOf(g, x) \in S
  PROVE  \A y \in DOMAIN g : y <= last => y \in S
<1> SUFFICES ASSUME NEW y \in DOMAIN g, y <= last, y \notin S PROVE FALSE
  OBVIOUS
<1> DEFINE T == {d \in Nat : y - d \in S}
<1>1. DOMAIN g \subseteq Nat /\ \A x \in DOMAIN g : x >= 8
  BY DEF Tagged, Addresses
<1>2. y - 8 \in T
  BY <1>1
<1>3. PICK d \in T : \A k \in T : d <= k
  <2>1. T \in SUBSET Nat /\ T # {}
    BY <1>2
  <2> HIDE DEF T
  <2> QED BY <2>1, LeastNumber
<1> DEFINE x == y - d
<1>4. x \in S /\ d \in Nat
  BY <1>3
<1>5. x \in DOMAIN g /\ x \in Nat /\ y \in Nat /\ last \in Nat /\ x < y /\ x < last
  BY <1>1, <1>4 DEF UpTo
<1>6. Fine(g, x)
  BY <1>5 DEF UpTo
<1> DEFINE z == NextOf(g, x)
<1>7. x < z /\ z <= y /\ z \in Nat
  <2>1. g[x].n_user_data \in Nat /\ (y <= x \/ z <= y)
    BY <1>6 DEF Fine
  <2>2. x < z /\ z \in Nat
    BY <2>1, <1>5 DEF NextOf
  <2> HIDE DEF z
  <2> QED BY <2>1, <2>2, <1>5
<1>8. z \in S
  BY <1>4, <1>5
<1> HIDE DEF z
<1>9. y - z \in T /\ y - z < d
  <2>1. y - z \in Nat /\ y - (y - z) = z /\ y - z < d
    BY <1>4, <1>5, <1>7
  <2> QED BY <2>1, <1>8
<1> QED BY <1>3, <1>4, <1>9, <1>5, <1>7

(* The last element is freed.                                              *)
LEMMA FreedLast ==
  ASSUME HeapOK(Now, len), NEW o \in HeldIn(Now, len), IsLast(o)
  PROVE  LET F == FreeLast(o)
         IN  /\ HeapOK(F.heap, F.len) /\ IsHeap(F.heap)
             /\ Keeps(Now, F.heap, F.len, HeldIn(Now, len) \ {o})
             /\ HeldIn(F.heap, F.len) \subseteq HeldIn(Now, len) \ {o}
<1> DEFINE P == elt[o].prev_is_free
           p == mheap_prev_elt(Now, o)
           e == IF P THEN p ELSE o
           H == IF P THEN remove_free_elt2(Now, e) ELSE Now
           F == FreeLast(o)
<1>1. o \in DOMAIN elt /\ o < len /\ ~ elt[o].is_free
  BY NowIs DEF HeldIn
<1>2. /\ o \in Nat /\ o >= 8 /\ len > 8 /\ len <= max_size /\ Fine(elt, o)
      /\ NextOf(elt, o) = len
  BY <1>1, NowIs, ElementTags, NextElt DEF IsLast
<1>3. /\ Tagged(elt) /\ UpTo(elt, len) /\ Listed(link, first, BinAt(elt))
      /\ DOMAIN link = {x \in DOMAIN elt : x < len /\ elt[x].is_free}
      /\ len \in Nat /\ elt[8].prev_n_user_data = INVALID /\ EndOf(len) = len
  BY <1>2, NowIs DEF HeapOK, Whole, Ended, EndOf
<1>4. DOMAIN elt \subseteq Nat /\ UpTo(elt, o) /\ \A z \in DOMAIN elt : z <= o \/ len <= z
  BY <1>1, <1>2, <1>3 DEF UpTo, Tagged, Addresses, Fine
<1>5. P => /\ p \in DOMAIN elt /\ p < o /\ NextOf(elt, p) = o /\ Fine(elt, p)
           /\ elt[p].is_free /\ \A z \in DOMAIN elt : z <= p \/ o <= z
  <2> SUFFICES ASSUME P
               PROVE  /\ p \in DOMAIN elt /\ p < o /\ NextOf(elt, p) = o /\ Fine(elt, p)
                      /\ elt[p].is_free /\ \A z \in DOMAIN elt : z <= p \/ o <= z
    OBVIOUS
  <2>1. o # 8
    BY <1>3 DEF Tagged
  <2>2. PICK q \in DOMAIN elt : /\ q < o /\ Fine(elt, q) /\ NextOf(elt, q) = o
                                /\ q = o - elt[o].prev_n_user_data * 4 - 8
                                /\ \A z \in DOMAIN elt : z <= q \/ o <= z
    BY <2>1, <1>3, <1>4, PrevElt
  <2>3. q = p
    BY <2>2, NowIs DEF mheap_prev_elt
  <2>4. elt[q].is_free
    BY <2>2 DEF Fine
  <2> HIDE DEF p
  <2> QED BY <2>2, <2>3, <2>4
<1> HIDE DEF p
<1>6. /\ e \in DOMAIN elt /\ e <= o /\ UpTo(elt, e) /\ ~ elt[e].prev_is_free
      /\ \A x \in DOMAIN elt : x < len /\ x # e /\ x # o => x < e
      /\ IsHeap(H) /\ H.elt = elt /\ Listed(H.link, H.first, BinAt(elt))
      /\ DOMAIN H.link = {x \in DOMAIN elt : x < e /\ elt[x].is_free}
      /\ elt[e].is_free => P
  <2>1. CASE P
    <3>1. e = p /\ p \in Nat /\ p <= o /\ ~ elt[p].prev_is_free /\ UpTo(elt, p)
      BY <2>1, <1>4, <1>5 DEF Fine, UpTo
    <3>2. \A x \in DOMAIN elt : x < len /\ x # p /\ x # o => x < p
      BY <3>1, <2>1, <1>2, <1>3, <1>4, <1>5
    <3>3. p \in DOMAIN link
      BY <2>1, <1>1, <1>2, <1>3, <1>4, <1>5
    <3>4. H = remove_free_elt2(Now, p)
      BY <2>1
    <3>5. /\ IsHeap(H) /\ H.elt = elt /\ DOMAIN H.link = DOMAIN link \ {p}
          /\ Listed(H.link, H.first, BinAt(elt))
      BY <2>1, <3>3, <3>4, <1>3, <1>5, NowIs, RemovedHeap
    <3> HIDE DEF H, e
    <3>6. DOMAIN H.link = {x \in DOMAIN elt : x < p /\ elt[x].is_free}
      BY <3>1, <3>2, <3>5, <1>1, <1>2, <1>3, <1>4
    <3> QED BY <2>1, <3>1, <3>2, <3>5, <3>6, <1>5
  <2>2. CASE ~ P
    <3>1. e = o /\ H = Now
      BY <2>2
    <3>2. \A x \in DOMAIN elt : x < len /\ x # o => x < o
      BY <1>2, <1>3, <1>4
    <3> HIDE DEF H, e
    <3>3. DOMAIN H.link = {x \in DOMAIN elt : x < o /\ elt[x].is_free}
      BY <3>1, <3>2, <1>1, <1>2, <1>3, <1>4, NowIs
    <3> QED BY <2>2, <3>1, <3>2, <3>3, <1>1, <1>2, <1>3, <1>4, NowIs
  <2> QED BY <2>1, <2>2
<1> DEFINE kept == Restrict(H.elt, {x \in DOMAIN H.elt : x <= e})
           t == [elt[e] EXCEPT !.n_user_data = INVALID]
<1>7. F = IF elt[e].prev_n_user_data = INVALID
          THEN [len |-> 0, heap |-> [H EXCEPT !.elt = kept]]
          ELSE [len |-> e, heap |-> [H EXCEPT !.elt = [kept EXCEPT ![e].n_user_data = INVALID]]]
  BY DEF FreeLast, p
<1> HIDE DEF H, e, F
<1>8. kept = [x \in {y \in DOMAIN H.elt : y <= e} |-> H.elt[x]]
  BY DEF Restrict
<1>9. e \in Nat /\ e >= 8 /\ e < len /\ elt[e] \in Tag /\ INVALID \in Int
  BY <1>1, <1>2, <1>3, <1>4, <1>6, Limits DEF Tagged, Addresses
<1>10. elt[e].prev_n_user_data = INVALID <=> e = 8
  BY <1>6, <1>9, NowIs, ElementTags
<1>11. CASE e = 8
  <2>1. kept = [x \in {y \in DOMAIN H.elt : y <= e} |-> IF x = e THEN elt[e] ELSE H.elt[x]]
    BY <1>6, <1>8
  <2>2. F.len = 0 /\ F.heap = Chop(H, e, elt[e])
    BY <1>7, <1>10, <1>11, <2>1 DEF Chop
  <2>3. Whole(F.heap, 8) /\ F.heap.elt[8] = elt[8]
    BY <2>2, <1>3, <1>6, <1>9, <1>11, Chopped
  <2>4. elt[8].is_free => 16 + 4 * elt[8].n_user_data <= max_size
    <3> SUFFICES ASSUME elt[8].is_free PROVE 16 + 4 * elt[8].n_user_data <= max_size
      OBVIOUS
    <3>1. NextOf(elt, 8) = o /\ elt[8].n_user_data \in Nat
      BY <1>5, <1>6, <1>11 DEF e, Fine
    <3>2. max_size \in Nat
      BY SizeAssumption, Limits
    <3> QED BY <3>1, <3>2, <1>1, <1>2, <1>3 DEF NextOf
  <2>5. HeapOK(F.heap, F.len)
    <3>1. 0 <= max_size
      BY SizeAssumption, Limits
    <3> QED BY <2>2, <2>3, <2>4, <3>1 DEF HeapOK, EndOf
  <2>6. HeldIn(Now, len) \ {o} = {}
    <3> SUFFICES ASSUME NEW x \in HeldIn(Now, len) \ {o} PROVE FALSE
      OBVIOUS
    <3>1. x \in DOMAIN elt /\ x < len /\ ~ elt[x].is_free /\ x # o
      BY NowIs DEF HeldIn
    <3>2. x # e
      BY <3>1, <1>5 DEF e
    <3>3. x < 8
      BY <3>1, <3>2, <1>6, <1>11
    <3>4. x \in Addresses
      BY <3>1, <1>3 DEF Tagged
    <3> QED BY <3>3, <3>4 DEF Addresses
  <2>7. IsHeap(F.heap)
    BY <2>3 DEF Whole, Ended
  <2>8. HeldIn(F.heap, F.len) = {}
    <3>1. DOMAIN F.heap.elt \subseteq Addresses
      BY <2>3 DEF Whole, Ended, Tagged
    <3> QED BY <3>1, <2>2 DEF HeldIn, Addresses
  <2> QED BY <2>5, <2>6, <2>7, <2>8 DEF F, Keeps
<1>12. CASE e # 8
  <2>1. [kept EXCEPT ![e].n_user_data = INVALID]
          = [x \in {y \in DOMAIN H.elt : y <= e} |-> IF x = e THEN t ELSE H.elt[x]]
    BY <1>6, <1>8, <1>9
  <2>2. F.len = e /\ F.heap = Chop(H, e, t)
    BY <1>7, <1>10, <1>12, <2>1 DEF Chop
  <2>3. /\ t \in Tag /\ t.prev_n_user_data = elt[e].prev_n_user_data
        /\ t.prev_is_free = elt[e].prev_is_free /\ t.n_user_data = INVALID
    BY <1>9 DEF Tag
  <2> HIDE DEF t
  <2>4. /\ Whole(F.heap, e) /\ F.heap.elt[e] = t
        /\ F.heap.elt[8].prev_n_user_data = elt[8].prev_n_user_data
        /\ \A x \in DOMAIN elt : x < e => x \in DOMAIN F.heap.elt /\ F.heap.elt[x] = elt[x]
        /\ DOMAIN F.heap.elt \subseteq DOMAIN elt
    BY <2>2, <2>3, <1>3, <1>6, <1>9, Chopped
  <2>5. HeapOK(F.heap, F.len)
    <3>1. e <= max_size /\ EndOf(e) = e /\ e > 8
      BY <1>2, <1>3, <1>9, <1>12, SizeAssumption, Limits DEF EndOf
    <3> QED BY <2>2, <2>3, <2>4, <3>1, <1>3, <1>9 DEF HeapOK
  <2>6. Keeps(Now, F.heap, F.len, HeldIn(Now, len) \ {o})
    <3> SUFFICES ASSUME NEW x \in HeldIn(Now, len) \ {o}
                 PROVE  x \in HeldIn(F.heap, F.len) /\ F.heap.elt[x].n_user_data = Now.elt[x].n_user_data
      BY DEF Keeps
    <3>1. x \in DOMAIN elt /\ x < len /\ ~ elt[x].is_free /\ x # o
      BY NowIs DEF HeldIn
    <3>2. x # e
      BY <3>1, <1>5 DEF e
    <3>3. x < e
      BY <3>1, <3>2, <1>6
    <3> QED BY <3>1, <3>3, <2>2, <2>4, NowIs DEF HeldIn
  <2>7. IsHeap(F.heap)
    BY <2>4 DEF Whole, Ended
  <2>8. HeldIn(F.heap, F.len) \subseteq HeldIn(Now, len) \ {o}
    <3> SUFFICES ASSUME NEW x \in HeldIn(F.heap, F.len) PROVE x \in HeldIn(Now, len) \ {o}
      OBVIOUS
    <3>1. x \in DOMAIN elt /\ x < e /\ ~ elt[x].is_free
      BY <2>2, <2>4 DEF HeldIn
    <3>2. x \in Nat /\ x < len /\ x # o
      BY <3>1, <1>2, <1>3, <1>4, <1>6, <1>9
    <3> QED BY <3>1, <3>2, NowIs DEF HeldIn
  <2> QED BY <2>5, <2>6, <2>7, <2>8 DEF F
<1> QED BY <1>11, <1>12

(* An element that is not the last one is freed and combined with its free *)
(* neighbours.                                                             *)
LEMMA FreedWithin ==
  ASSUME HeapOK(Now, len), NEW o \in HeldIn(Now, len), ~ IsLast(o)
  PROVE  LET F == Combined(o)
         IN  /\ HeapOK(F, len) /\ IsHeap(F)
             /\ Keeps(Now, F, len, HeldIn(Now, len) \ {o})
             /\ HeldIn(F, len) \subseteq HeldIn(Now, len) \ {o}
<1> DEFINE P == elt[o].prev_is_free
           p == mheap_prev_elt(Now, o)
           n == NextOf(elt, o)
           N == elt[n].is_free
           f0 == IF P THEN p ELSE o
           f1 == IF N THEN n + elt[n].n_user_data * 4 ELSE o + elt[o].n_user_data * 4
           noprev == IF P THEN remove_free_elt2(Now, f0) ELSE Now
           nonext == IF N THEN remove_free_elt2(noprev, n) ELSE noprev
           F == Combined(o)
           c == f1 + 8
<1>1. o \in DOMAIN elt /\ o < len /\ ~ elt[o].is_free
  BY NowIs DEF HeldIn
<1>2. /\ o \in Nat /\ o >= 8 /\ o % 4 = 0 /\ len > 8 /\ len <= max_size /\ max_size < MaxBytes
      /\ Fine(elt, o) /\ n \in DOMAIN elt /\ o + 16 <= n /\ n <= len /\ n # len
      /\ elt[o].n_user_data \in Nat
  BY <1>1, NowIs, ElementTags, NextElt DEF IsLast
<1>3. /\ Whole(Now, len) /\ Tagged(elt) /\ UpTo(elt, len)
      /\ DOMAIN link = {x \in DOMAIN elt : x < len /\ elt[x].is_free}
      /\ len \in Nat /\ elt[8].prev_n_user_data = INVALID /\ elt[len].n_user_data = INVALID
      /\ EndOf(len) = len /\ len \in DOMAIN elt
  BY <1>2, NowIs DEF HeapOK, Whole, Ended, EndOf, UpTo
<1>4. /\ DOMAIN elt \subseteq Nat /\ DOMAIN elt \subseteq Addresses /\ UpTo(elt, o)
      /\ \A z \in DOMAIN elt : z <= o \/ n <= z
  BY <1>1, <1>2, <1>3 DEF UpTo, Tagged, Addresses, Fine
<1>5. P => /\ p \in DOMAIN elt /\ p < o /\ NextOf(elt, p) = o /\ Fine(elt, p)
           /\ elt[p].is_free /\ \A z \in DOMAIN elt : z <= p \/ o <= z
  <2> SUFFICES ASSUME P
               PROVE  /\ p \in DOMAIN elt /\ p < o /\ NextOf(elt, p) = o /\ Fine(elt, p)
                      /\ elt[p].is_free /\ \A z \in DOMAIN elt : z <= p \/ o <= z
    OBVIOUS
  <2>1. o # 8
    BY <1>3 DEF Tagged
  <2>2. PICK q \in DOMAIN elt : /\ q < o /\ Fine(elt, q) /\ NextOf(elt, q) = o
                                /\ q = o - elt[o].prev_n_user_data * 4 - 8
                                /\ \A z \in DOMAIN elt : z <= q \/ o <= z
    BY <2>1, <1>3, <1>4, PrevElt
  <2>3. q = p
    BY <2>2, NowIs DEF mheap_prev_elt
  <2>4. elt[q].is_free
    BY <2>2 DEF Fine
  <2> HIDE DEF p
  <2> QED BY <2>2, <2>3, <2>4
<1>6. F = Written(nonext, f0, f1 - f0, TRUE)
  BY NextElt DEF Combined, Written
<1> HIDE DEF p, n, F
<1>7. Hole(Now, o, n, len)
  BY <1>1, <1>2, <1>3, NowIs, OpenHeld DEF n
<1>8. /\ Hole(noprev, f0, n, len) /\ noprev.elt = elt /\ ~ elt[f0].prev_is_free
      /\ f0 \in DOMAIN elt /\ f0 <= o
      /\ \A x \in DOMAIN elt : ~ elt[x].is_free /\ x # o => x < f0 \/ n <= x
  <2>1. CASE P
    <3>1. p \in DOMAIN link /\ p \in Nat
      BY <2>1, <1>1, <1>2, <1>3, <1>4, <1>5
    <3>2. f0 = p /\ noprev = remove_free_elt2(Now, p)
      BY <2>1
    <3>3. noprev.elt = elt /\ Hole(noprev, p, n, len)
      BY <2>1, <3>1, <3>2, <1>5, <1>7, NowIs, JoinPrev
    <3>4. ~ elt[p].prev_is_free
      BY <2>1, <1>5 DEF Fine
    <3>5. \A x \in DOMAIN elt : ~ elt[x].is_free /\ x # o => x < p \/ n <= x
      BY <2>1, <3>1, <1>2, <1>4, <1>5
    <3> HIDE DEF f0, noprev
    <3> QED BY <2>1, <3>1, <3>2, <3>3, <3>4, <3>5, <1>2, <1>5
  <2>2. CASE ~ P
    <3>1. f0 = o /\ noprev = Now
      BY <2>2
    <3>2. \A x \in DOMAIN elt : ~ elt[x].is_free /\ x # o => x < o \/ n <= x
      BY <1>2, <1>4
    <3> HIDE DEF f0, noprev
    <3> QED BY <2>2, <3>1, <3>2, <1>1, <1>2, <1>7, NowIs
  <2> QED BY <2>1, <2>2
<1> HIDE DEF f0, noprev
<1>9. /\ Hole(nonext, f0, c, len) /\ nonext.elt = elt /\ ~ elt[c].is_free
      /\ c \in DOMAIN elt /\ n <= c /\ c < len
      /\ \A x \in DOMAIN elt : ~ elt[x].is_free /\ x # o => x < f0 \/ c <= x
  <2>1. CASE N
    <3>1. c = NextOf(elt, n) /\ nonext = remove_free_elt2(noprev, n)
      BY <2>1 DEF NextOf
    <3> HIDE DEF c, nonext
    <3>2. nonext.elt = elt /\ Hole(nonext, f0, c, len) /\ n < c /\ ~ elt[c].is_free
      BY <2>1, <3>1, <1>8, JoinNext
    <3>3. c \in DOMAIN elt /\ c < len
      BY <3>2 DEF Hole, Onward
    <3>4. n < len /\ n \in Nat /\ c \in Nat
      BY <3>3, <1>2, <1>3, <1>4
    <3>5. \A z \in DOMAIN elt : z <= n \/ c <= z
      <4>1. Fine(elt, n)
        BY <3>4, <1>2, <1>3 DEF UpTo
      <4> QED BY <4>1, <3>1 DEF Fine
    <3>6. \A x \in DOMAIN elt : ~ elt[x].is_free /\ x # o => x < f0 \/ c <= x
      BY <2>1, <3>4, <3>5, <1>4, <1>8
    <3> QED BY <3>2, <3>3, <3>4, <3>6
  <2>2. CASE ~ N
    <3>1. c = n /\ nonext = noprev
      BY <2>2, <1>2 DEF n, NextOf
    <3>2. n < len
      BY <1>2, <1>3, <1>4
    <3> HIDE DEF c, nonext
    <3> QED BY <2>2, <3>1, <3>2, <1>2, <1>4, <1>8
  <2> QED BY <2>1, <2>2
<1>10. /\ c \in Nat /\ c % 4 = 0 /\ f0 \in Nat /\ f0 % 4 = 0 /\ f0 >= 8
       /\ f1 - f0 = c - f0 - 8 /\ f1 \in Int
  <2>1. f1 \in Int
    <3>1. CASE N
      <4>1. n < len /\ n \in Nat
        BY <1>2, <1>3, <1>4
      <4>2. elt[n].n_user_data \in Nat
        BY <4>1, <1>2, <1>3 DEF UpTo, Fine
      <4> QED BY <3>1, <4>1, <4>2
    <3>2. CASE ~ N
      BY <3>2, <1>2
    <3> QED BY <3>1, <3>2
  <2>2. f0 \in Addresses /\ c \in Addresses
    BY <1>4, <1>8, <1>9
  <2> HIDE DEF f1
  <2> QED BY <2>1, <2>2 DEF Addresses
<1> DEFINE k == f1 - f0
<1>11. k \in 8 .. MaxBytes /\ k % 4 = 0 /\ f0 + k + 8 = c
  <2>1. k = c - f0 - 8 /\ c \in Nat /\ f0 \in Nat /\ c % 4 = 0 /\ f0 % 4 = 0 /\ f0 >= 8
    BY <1>10
  <2>2. n <= c /\ c < len /\ len <= max_size /\ max_size < MaxBytes /\ f0 <= o /\ o + 16 <= n
        /\ o \in Nat /\ n \in Nat /\ len \in Nat
    BY <1>2, <1>3, <1>4, <1>8, <1>9
  <2>3. MaxBytes \in Nat /\ max_size \in Nat
    BY Limits, SizeAssumption
  <2> HIDE DEF k, c
  <2> QED BY <2>1, <2>2, <2>3
<1> HIDE DEF nonext, c, k
<1>12. /\ Whole(F, len) /\ Same(nonext, F, f0, c)
       /\ f0 \in DOMAIN F.elt /\ 4 * F.elt[f0].n_user_data = k /\ F.elt[f0].is_free
  <2> DEFINE yes == TRUE
  <2>1. F = Written(nonext, f0, k, yes)
    BY <1>6 DEF k
  <2>2. yes \in BOOLEAN /\ yes
    OBVIOUS
  <2> HIDE DEF yes
  <2>3. /\ Whole(F, len) /\ Same(nonext, F, f0, c)
        /\ f0 \in DOMAIN F.elt /\ 4 * F.elt[f0].n_user_data = k /\ F.elt[f0].is_free = yes
    <3>1. yes => ~ nonext.elt[f0].prev_is_free /\ ~ nonext.elt[c].is_free
      BY <1>8, <1>9
    <3>2. Hole(nonext, f0, c, len)
      BY <1>9
    <3>3. k \in 8 .. MaxBytes /\ k % 4 = 0 /\ f0 + k + 8 = c /\ yes \in BOOLEAN
      BY <1>11, <2>2
    <3>4. /\ Whole(Written(nonext, f0, k, yes), len)
          /\ Same(nonext, Written(nonext, f0, k, yes), f0, c)
          /\ f0 \in DOMAIN Written(nonext, f0, k, yes).elt
          /\ 4 * Written(nonext, f0, k, yes).elt[f0].n_user_data = k
          /\ Written(nonext, f0, k, yes).elt[f0].is_free = yes
      BY <3>1, <3>2, <3>3, Filled
    <3> QED BY <2>1, <3>4
  <2> QED BY <2>2, <2>3
<1>13. HeapOK(F, len)
  <2>1. F.elt[8].prev_n_user_data = INVALID
    BY <1>3, <1>9, <1>12 DEF Same
  <2>2. F.elt[len].n_user_data = INVALID
    <3>1. c <= len
      BY <1>3, <1>9, <1>10
    <3> QED BY <3>1, <1>3, <1>9, <1>12 DEF Same
  <2> QED BY <2>1, <2>2, <1>2, <1>3, <1>12 DEF HeapOK
<1>14. Keeps(Now, F, len, HeldIn(Now, len) \ {o})
  <2> SUFFICES ASSUME NEW x \in HeldIn(Now, len) \ {o}
               PROVE  x \in HeldIn(F, len) /\ F.elt[x].n_user_data = Now.elt[x].n_user_data
    BY DEF Keeps
  <2>1. x \in DOMAIN elt /\ x < len /\ ~ elt[x].is_free /\ x # o
    BY NowIs DEF HeldIn
  <2>2. x < f0 \/ c <= x
    BY <2>1, <1>9
  <2> QED BY <2>1, <2>2, <1>9, <1>12, NowIs DEF HeldIn, Same
<1>15. IsHeap(F) /\ Tagged(F.elt) /\ UpTo(F.elt, len)
  BY <1>12 DEF Whole, Ended
<1>16. HeldIn(F, len) \subseteq HeldIn(Now, len) \ {o}
  <2> DEFINE S == {f0} \cup {x \in DOMAIN elt : x < f0 \/ c <= x}
  <2>1. \A x \in DOMAIN elt : x < f0 \/ c <= x =>
          /\ x \in DOMAIN F.elt /\ F.elt[x].n_user_data = elt[x].n_user_data
          /\ F.elt[x].is_free = elt[x].is_free
    BY <1>9, <1>12 DEF Same
  <2>2. S \subseteq DOMAIN F.elt /\ 8 \in S
    <3>1. 8 \in DOMAIN elt
      BY <1>3 DEF Tagged
    <3> QED BY <3>1, <2>1, <1>10, <1>12
  <2>3. ASSUME NEW x \in S, x < len PROVE NextOf(F.elt, x) \in S
    <3>1. CASE x = f0
      <4>1. NextOf(F.elt, x) = c
        <5>1. F.elt[f0].n_user_data \in Int
          BY <1>12, <1>15 DEF Tagged, Tag
        <5> QED BY <5>1, <3>1, <1>10, <1>11, <1>12 DEF NextOf
      <4> QED BY <4>1, <1>9, <1>10
    <3>2. CASE x # f0
      <4>1. x \in DOMAIN elt /\ (x < f0 \/ c <= x) /\ x \in Nat
        BY <3>2, <1>4
      <4> DEFINE z == NextOf(elt, x)
      <4>2. /\ Fine(elt, x) /\ NextOf(F.elt, x) = z
        BY <4>1, <2>1, <2>3, <1>3 DEF UpTo, NextOf
      <4>3. z \in DOMAIN elt /\ (f0 <= x \/ z <= f0) /\ x <= z /\ z \in Nat
        BY <4>1, <4>2, <1>4, <1>8 DEF Fine, NextOf
      <4> HIDE DEF z
      <4>4. z = f0 \/ z < f0 \/ c <= z
        BY <4>1, <4>3, <1>10
      <4> QED BY <4>2, <4>3, <4>4
    <3> QED BY <3>1, <3>2
  <2>4. \A y \in DOMAIN F.elt : y <= len => y \in S
    <3> HIDE DEF S
    <3> QED BY <2>2, <2>3, <1>15, OnlyThese
  <2> SUFFICES ASSUME NEW y \in HeldIn(F, len) PROVE y \in HeldIn(Now, len) \ {o}
    OBVIOUS
  <2>5. y \in DOMAIN F.elt /\ y < len /\ ~ F.elt[y].is_free
    BY DEF HeldIn
  <2>6. y \in S /\ y # f0
    <3>1. y \in Nat
      BY <2>5, <1>15 DEF Tagged, Addresses
    <3> QED BY <3>1, <2>4, <2>5, <1>3, <1>12
  <2>7. y \in DOMAIN elt /\ (y < f0 \/ c <= y) /\ ~ elt[y].is_free /\ y \in Nat
    BY <2>1, <2>5, <2>6, <1>4
  <2>8. y # o
    <3>1. n <= c /\ o < n /\ f0 <= o /\ n \in Nat
      BY <1>2, <1>4, <1>8, <1>9
    <3> QED BY <3>1, <2>7, <1>2, <1>10
  <2> QED BY <2>5, <2>7, <2>8, NowIs DEF HeldIn
<1> QED BY <1>13, <1>14, <1>15, <1>16 DEF F

-----------------------------------------------------------------------------
(* Requests and where they are placed.                                     *)
LEMMA MinOf ==
  ASSUME NEW S \in SUBSET Nat, S # {}
  PROVE  Min(S) \in S /\ \A y \in S : Min(S) <= y
<1>1. \E x \in S : \A y \in S : x <= y
  BY LeastNumber
<1> QED BY <1>1 DEF Min

LEMMA Multiples ==
  ASSUME NEW A \in Nat \ {0}, A % 4 = 0, NEW q \in Int
  PROVE  A * q \in Int /\ (A * q) % 4 = 0 /\ (A * q) % A = 0
<1>1. A \div 4 \in Int /\ A = 4 * (A \div 4)
  OBVIOUS
<1> DEFINE w == A \div 4
<1> HIDE DEF w
<1>2. w \in Int /\ A = 4 * w
  BY <1>1 DEF w
<1>3. w * q \in Int /\ A * q = 4 * (w * q)
  BY <1>2
<1>4. (4 * (w * q) + 0) % 4 = 0
  BY <1>3, ModUnique
<1>5. (A * q + 0) % A = 0
  BY ModUnique
<1>6. A * q \in Int /\ A * q + 0 = A * q /\ 4 * (w * q) + 0 = 4 * (w * q)
  BY <1>3
<1> QED BY <1>3, <1>4, <1>5, <1>6

(* What mheap_get_aligned works with: whole words and a power of two.      *)
IsRequest(n, align, align_offset) ==
  /\ n \in 8 .. MaxBytes /\ n % 4 = 0
  /\ align \in Nat \ {0} /\ align >= 4 /\ align % 4 = 0
  /\ align_offset \in 0 .. align - 1

LEMMA Requests ==
  ASSUME NEW size \in 0 .. INVALID, NEW a \in 0 .. INVALID, NEW ao \in Nat
  PROVE  LET r == NormalRequest(size, a, ao)
         IN  /\ IsRequest(r.n, r.align, r.align_offset)
             /\ a = 0 /\ ao = 0 => r.align = 4 /\ r.align_offset = 0
<1> DEFINE r == NormalRequest(size, a, ao)
           m == Max({size, 8})  k == Max({a, 4})  A == 2 ^ max_log2(k)
<1>1. m \in 8 .. MaxBytes - 1 \/ m = 8
  BY MaxOfTwo, Limits
<1>2. k \in 4 .. MaxBytes /\ (a = 0 => k = 4)
  BY MaxOfTwo, Limits
<1>3. r.n = round_pow2(m, 4) /\ r.align = A /\ r.align_offset = ao % A
  BY DEF NormalRequest, max_pow2
<1> HIDE DEF m, k, r
<1>4. r.n \in 8 .. MaxBytes /\ r.n % 4 = 0
  <2>1. r.n = ((m + 3) \div 4) * 4
    BY <1>1, <1>3, Limits DEF round_pow2, Truncate
  <2> QED BY <2>1, <1>1, Limits
<1>5. max_log2(k) \in 0 .. 31 /\ A >= k
  <2>1. k \in 1 .. MaxBytes
    BY <1>2, Limits
  <2> QED BY <2>1, MaxLog2
<1>6. A \in Nat \ {0} /\ A >= 4 /\ A % 4 = 0
  <2>1. A \in Nat \ {0} /\ (A < 4 \/ A % 4 = 0)
    BY <1>5, PowersOf2
  <2> HIDE DEF A
  <2> QED BY <2>1, <1>2, <1>5, Limits
<1>7. a = 0 => A = 4
  <2> SUFFICES ASSUME a = 0 PROVE A = 4
    OBVIOUS
  <2>1. 4 \in 1 .. MaxBytes
    BY Limits
  <2>2. \A i \in 0 .. 31 : 2 ^ i >= 4 => max_log2(4) <= i
    BY <2>1, MaxLog2, Zenon
  <2>3. 2 \in 0 .. 31 /\ 2 ^ 2 >= 4
    OBVIOUS
  <2>4. max_log2(4) <= 2
    BY <2>2, <2>3
  <2>5. max_log2(4) \in 0 .. 31 /\ 2 ^ max_log2(4) >= 4
    BY <1>2, <1>5
  <2> DEFINE l == max_log2(4)
  <2>6. l = 0 \/ l = 1 \/ l = 2
    BY <2>4, <2>5
  <2>7. 2 ^ 0 = 1 /\ 2 ^ 1 = 2 /\ 2 ^ 2 = 4
    OBVIOUS
  <2>a. 2 ^ l >= 4
    BY <2>5
  <2> HIDE DEF l
  <2>8. l # 0 /\ l # 1
    <3>1. l = 0 => 2 ^ 0 >= 4
      BY <2>a, Zenon
    <3>2. l = 1 => 2 ^ 1 >= 4
      BY <2>a, Zenon
    <3> QED BY <3>1, <3>2
  <2>9. l = 2
    BY <2>6, <2>8
  <2>10. A = 2 ^ l
    BY <1>2 DEF l
  <2>11. A = 2 ^ 2
    BY <2>9, <2>10, Zenon
  <2> QED BY <2>7, <2>11
<1> HIDE DEF A
<1>8. ao % A \in 0 .. A - 1 /\ (ao = 0 /\ A = 4 => ao % A = 0)
  <2>1. ao \in Int
    OBVIOUS
  <2>2. ao % A \in 0 .. A - 1
    BY <2>1, <1>6, DivMod
  <2>3. 0 % 4 = 0
    OBVIOUS
  <2> QED BY <2>2, <2>3
<1> QED BY <1>3, <1>4, <1>6, <1>7, <1>8 DEF IsRequest, r

(* The place of an object is aligned, and leaves room for a free element   *)
(* before it.                                                              *)
LEMMA Placed ==
  ASSUME NEW f \in Nat, NEW f1 \in Int, NEW n \in Int, NEW A \in Nat \ {0}, A % 4 = 0,
         NEW ao \in Nat, ao % 4 = 0
  PROVE  LET o0 == Place(f, f1, n, A, ao)
         IN  /\ o0 \in Int /\ o0 % 4 = 0 /\ (o0 + ao) % A = 0
             /\ o0 >= f => o0 = f \/ o0 >= f + 16
<1> DEFINE end == Truncate(f1 - n, A) - ao
           up == IF end >= f THEN end ELSE f + ((end - f) % A)
           o0 == IF LowFragmentOK(up, f) THEN up ELSE f - ((f - up) % A)
<1>1. Place(f, f1, n, A, ao) = o0
  BY DEF Place
<1>2. PICK q \in Int : end = A * q - ao
  <2>1. (f1 - n) \div A \in Int
    BY DivMod
  <2>2. end = A * ((f1 - n) \div A) - ao
    BY <2>1 DEF Truncate
  <2> HIDE DEF end
  <2> QED BY <2>1, <2>2
<1> HIDE DEF end
<1>3. end \in Int
  BY <1>2
<1>4. PICK u \in Int : up = A * u - ao
  <2>1. CASE end >= f
    BY <2>1, <1>2
  <2>2. CASE ~ (end >= f)
    <3> DEFINE v == (end - f) \div A  s == (end - f) % A
    <3>1. v \in Int /\ end - f = A * v + s /\ s \in Int
      BY <1>3, DivMod
    <3> HIDE DEF v, s
    <3>2. up = f + s
      BY <2>2 DEF s
    <3> HIDE DEF up
    <3>3. up = A * (q - v) - ao
      BY <3>1, <3>2, <1>2
    <3> QED BY <3>1, <3>3
  <2> QED BY <2>1, <2>2
<1> HIDE DEF up
<1>5. up \in Int
  BY <1>4
<1>6. PICK w \in Int : o0 = A * w - ao
  <2>1. CASE LowFragmentOK(up, f)
    BY <2>1, <1>4
  <2>2. CASE ~ LowFragmentOK(up, f)
    <3> DEFINE v == (f - up) \div A  s == (f - up) % A
    <3>1. v \in Int /\ f - up = A * v + s /\ s \in Int
      BY <1>5, DivMod
    <3> HIDE DEF v, s
    <3>2. o0 = f - s
      BY <2>2 DEF s
    <3> HIDE DEF o0
    <3>3. o0 = A * (u + v) - ao
      BY <3>1, <3>2, <1>4
    <3> QED BY <3>1, <3>3
  <2> QED BY <2>1, <2>2
<1>7. o0 >= f => o0 = f \/ o0 >= f + 16
  <2>1. CASE LowFragmentOK(up, f)
    BY <2>1, <1>5 DEF LowFragmentOK
  <2>2. CASE ~ LowFragmentOK(up, f)
    <3> DEFINE s == (f - up) % A
    <3>1. s \in Nat
      BY <1>5, DivMod
    <3>2. o0 = f - s
      BY <2>2
    <3> HIDE DEF s, o0
    <3> QED BY <3>1, <3>2
  <2> QED BY <2>1, <2>2
<1> HIDE DEF o0
<1>8. A * w \in Int /\ (A * w) % 4 = 0 /\ (A * w) % A = 0
  BY Multiples
<1>9. o0 \in Int /\ o0 % 4 = 0 /\ o0 + ao = A * w
  BY <1>6, <1>8
<1> QED BY <1>1, <1>7, <1>8, <1>9

(* Without an alignment the place is within the free element, whenever it  *)
(* is large enough.                                                        *)
LEMMA PlacedWords ==
  ASSUME NEW f \in Nat, NEW f1 \in Nat, NEW n \in Nat, f % 4 = 0, f1 % 4 = 0, n % 4 = 0,
         f + n <= f1
  PROVE  LET o0 == Place(f, f1, n, 4, 0)
         IN  o0 >= f /\ o0 + n <= f1
<1> DEFINE end == Truncate(f1 - n, 4) - 0
           up == IF end >= f THEN end ELSE f + ((end - f) % 4)
           o0 == IF LowFragmentOK(up, f) THEN up ELSE f - ((f - up) % 4)
<1>1. Place(f, f1, n, 4, 0) = o0
  BY DEF Place
<1>2. end = f1 - n
  BY DEF Truncate
<1> HIDE DEF end
<1>3. up = f1 - n
  BY <1>2
<1> HIDE DEF up
<1>4. o0 = f1 - n \/ o0 = f
  BY <1>3
<1> HIDE DEF o0
<1> QED BY <1>1, <1>4

(* The end of the heap: the object is there, or behind a free element.     *)
LEMMA ExtendPlaced ==
  ASSUME HeapOK(Now, len), NEW n, NEW A, NEW ao, IsRequest(n, A, ao), ao % 4 = 0
  PROVE  LET f0 == ExtendFrom
             o0 == ExtendOffset(A, ao)
         IN  /\ f0 = EndOf(len) /\ f0 \in Nat /\ f0 >= 8 /\ f0 % 4 = 0 /\ f0 <= INVALID
             /\ o0 \in Nat /\ (o0 = f0 \/ o0 >= f0 + 24) /\ o0 % 4 = 0 /\ (o0 + ao) % A = 0
             /\ A = 4 /\ ao = 0 => o0 = f0
<1> DEFINE f0 == ExtendFrom
           b == round_pow2(f0, A) - ao
           C == {o \in {b + k * A : k \in 0 .. 24} : o = f0 \/ o - f0 - 8 >= 16}
<1>1. f0 = EndOf(len) /\ f0 \in Nat /\ f0 >= 8 /\ f0 % 4 = 0 /\ f0 <= INVALID
  <2>1. f0 = EndOf(len)
    BY DEF ExtendFrom, EndOf
  <2>2. f0 \in Addresses
    BY <2>1, NowIs DEF HeapOK, Whole, Ended, Tagged, UpTo
  <2>3. f0 <= max_size \/ f0 = 8
    BY <2>1 DEF HeapOK, EndOf
  <2>4. max_size \in Nat /\ max_size <= INVALID /\ INVALID >= 8 /\ INVALID \in Nat
    BY SizeAssumption, Limits
  <2> HIDE DEF f0
  <2> QED BY <2>1, <2>2, <2>3, <2>4 DEF Addresses
<1>2. ExtendOffset(A, ao) = Min(C)
  BY DEF ExtendOffset, SizeofElt
<1> HIDE DEF f0
<1>3. A \in Nat \ {0} /\ A >= 4 /\ A % 4 = 0 /\ ao \in 0 .. A - 1
  BY DEF IsRequest
<1> DEFINE q == (f0 + A - 1) \div A  s == (f0 + A - 1) % A
<1>4. q \in Int /\ b = A * q - ao /\ f0 + A - 1 = A * q + s /\ s \in 0 .. A - 1
  <2>1. f0 + A - 1 \in Int
    BY <1>1, <1>3
  <2>2. b = q * A - ao
    BY DEF round_pow2, Truncate
  <2>3. q \in Int /\ f0 + A - 1 = A * q + s /\ s \in 0 .. A - 1
    BY <2>1, <1>3, DivMod
  <2> HIDE DEF q, s, b
  <2> QED BY <2>2, <2>3, <1>3
<1>a. A = 4 /\ ao = 0 => b = f0
  BY <1>1 DEF round_pow2, Truncate
<1> HIDE DEF q, s, b
<1>5. b \in Int /\ b >= f0 - A /\ A * q \in Int
  BY <1>1, <1>3, <1>4
<1>6. b + 24 * A \in C
  BY <1>1, <1>3, <1>5
<1>7. C \in SUBSET Nat
  BY <1>1, <1>3, <1>5
<1> DEFINE o0 == Min(C)
<1>8. o0 \in C /\ \A y \in C : o0 <= y
  <2> HIDE DEF C
  <2> QED BY <1>6, <1>7, MinOf
<1> HIDE DEF o0
<1>9. PICK k \in 0 .. 24 : o0 = b + k * A
  BY <1>8
<1>10. o0 \in Nat /\ (o0 = f0 \/ o0 >= f0 + 24)
  BY <1>1, <1>7, <1>8
<1>11. o0 + ao = A * (q + k)
  <2>1. o0 = A * q - ao + k * A
    BY <1>4, <1>9
  <2> QED BY <2>1, <1>3, <1>4
<1>12. A * (q + k) \in Int /\ (A * (q + k)) % 4 = 0 /\ (A * (q + k)) % A = 0
  <2> DEFINE j == q + k
  <2>1. j \in Int
    BY <1>4
  <2> HIDE DEF j
  <2>2. A * j \in Int /\ (A * j) % 4 = 0 /\ (A * j) % A = 0
    BY <2>1, <1>3, Multiples
  <2> QED BY <2>2 DEF j
<1>13. o0 % 4 = 0 /\ (o0 + ao) % A = 0
  <2>1. (o0 + ao) % 4 = 0 /\ (o0 + ao) % A = 0
    BY <1>11, <1>12
  <2> QED BY <2>1, <1>3, <1>10
<1>14. A = 4 /\ ao = 0 => o0 = f0
  <2> SUFFICES ASSUME A = 4, ao = 0 PROVE o0 = f0
    OBVIOUS
  <2>1. b + 0 * A = f0
    BY <1>a, <1>1
  <2>2. f0 \in C
    BY <2>1, <1>1
  <2>3. o0 <= f0
    <3> HIDE DEF C
    <3> QED BY <2>2, <1>8
  <2> QED BY <2>3, <1>1, <1>10
<1> QED BY <1>1, <1>2, <1>10, <1>13, <1>14 DEF f0, o0

(* The search finds a free element of the heap in which the object fits,   *)
(* and finds none only when no element of the searched bins serves.        *)
LEMMA Searched ==
  ASSUME HeapOK(Now, len), NEW n, NEW A, NEW ao
  PROVE  LET f == SearchFreeList(n, A, ao)
         IN  /\ f # NONE => f \in DOMAIN link /\ Fits(f, n, A, ao)
             /\ f = NONE => \A x \in DOMAIN link :
                              BinAt(elt)[x] \in SearchedBins(n) => ~ Fits(x, n, A, ao)
<1> DEFINE fitting(b) == {k \in DOMAIN FreeList(b) : Fits(FreeList(b)[k], n, A, ao)}
           found == {b \in SearchedBins(n) : fitting(b) # {}}
           f == SearchFreeList(n, A, ao)
<1>1. f = IF found = {} THEN NONE ELSE FreeList(Min(found))[Min(fitting(Min(found)))]
  BY DEF SearchFreeList
<1>2. Listed(link, first, BinAt(elt)) /\ DOMAIN link \subseteq Nat /\ NONE \notin Nat
  BY NowIs DEF HeapOK, Whole, Ended, Listed, NONE
<1>3. /\ \A b \in Bins : FreeList(b) \in Seq(DOMAIN link)
      /\ \A o \in DOMAIN link : \E k \in DOMAIN FreeList(BinAt(elt)[o]) :
            FreeList(BinAt(elt)[o])[k] = o
  BY <1>2, FreeListHas
<1>4. Bins \subseteq Nat
  BY SmallBins DEF Bins
<1>5. SearchedBins(n) \subseteq Bins
  BY DEF SearchedBins
<1> HIDE DEF f
<1>6. ASSUME found # {} PROVE f \in DOMAIN link /\ Fits(f, n, A, ao)
  <2> DEFINE b == Min(found)
  <2>1. b \in found
    <3>1. found \in SUBSET Nat
      BY <1>4, <1>5
    <3> HIDE DEF found
    <3> QED BY <3>1, <1>6, MinOf
  <2>2. b \in Bins /\ fitting(b) # {}
    BY <2>1, <1>5
  <2> HIDE DEF b
  <2>3. FreeList(b) \in Seq(DOMAIN link)
    BY <2>2, <1>3
  <2> DEFINE s == FreeList(b)  k == Min(fitting(b))
  <2>4. DOMAIN s = 1 .. Len(s) /\ Len(s) \in Nat /\ \A i \in DOMAIN s : s[i] \in DOMAIN link
    <3> HIDE DEF s
    <3>1. s \in Seq(DOMAIN link)
      BY <2>3 DEF s
    <3> QED BY <3>1, LenProperties, ElementOfSeq
  <2>5. fitting(b) \in SUBSET Nat
    <3>1. fitting(b) \subseteq DOMAIN s
      OBVIOUS
    <3> HIDE DEF s
    <3> QED BY <3>1, <2>4
  <2>6. k \in fitting(b)
    <3> HIDE DEF fitting
    <3> QED BY <2>2, <2>5, MinOf
  <2>7. k \in DOMAIN s /\ Fits(s[k], n, A, ao)
    BY <2>6
  <2>8. f = s[k]
    BY <1>1, <1>6 DEF b
  <2> HIDE DEF s, k
  <2> QED BY <2>4, <2>7, <2>8
<1>7. ASSUME found = {}, NEW x \in DOMAIN link, BinAt(elt)[x] \in SearchedBins(n)
      PROVE  ~ Fits(x, n, A, ao)
  <2> DEFINE c == BinAt(elt)[x]
  <2> HIDE DEF c
  <2>1. PICK k \in DOMAIN FreeList(c) : FreeList(c)[k] = x
    BY <1>3 DEF c
  <2>2. c \in SearchedBins(n) /\ c \notin found
    BY <1>7 DEF c
  <2> QED BY <2>1, <2>2
<1> HIDE DEF found
<1>8. CASE found = {}
  BY <1>1, <1>7, <1>8 DEF f
<1>9. CASE found # {}
  BY <1>2, <1>6, <1>9 DEF f
<1> QED BY <1>8, <1>9

-----------------------------------------------------------------------------
(* The heap after each kind of allocation.                                 *)

(* An object is new in the heap: held, of at least n bytes, aligned.       *)
NewObject(G, l, o, n, align, align_offset) ==
  /\ o \in HeldIn(G, l) /\ o \notin HeldIn(Now, len)
  /\ 4 * G.elt[o].n_user_data >= n
  /\ (o + align_offset) % align = 0

(* A free element is cut.                                                  *)
LEMMA CutHeap ==
  ASSUME HeapOK(Now, len), NEW f \in DOMAIN link, NEW n, NEW A, NEW ao,
         IsRequest(n, A, ao), ao % 4 = 0, Fits(f, n, A, ao)
  PROVE  LET C == Cut(f, n, A, ao)
         IN  /\ HeapOK(C.heap, len) /\ IsHeap(C.heap)
             /\ Keeps(Now, C.heap, len, HeldIn(Now, len))
             /\ NewObject(C.heap, len, C.offset, n, A, ao)
             /\ HeldIn(C.heap, len) \subseteq HeldIn(Now, len) \cup {C.offset}
<1> DEFINE f1 == f + mheap_elt_data_bytes(Now, f)
           nx == NextOf(elt, f)
           o0 == Place(f, f1, n, A, ao)
           lo == IF o0 # f THEN o0 - f - 8 ELSE 0
           rest == f1 - o0 - n - 8
           hi == IF rest < 8 THEN 0 ELSE rest
           size == IF hi = 0 THEN f1 - o0 ELSE n
           uo == o0 + size + 8
           taken == remove_free_elt2(Now, f)
           below == IF lo > 0 THEN new_free_elt(taken, f, lo) ELSE taken
           object == mheap_elt_set_size(below, o0, size, FALSE)
           G == IF hi > 0 THEN new_free_elt(object, uo, hi) ELSE object
           C == Cut(f, n, A, ao)
<1>1. C = [offset |-> o0, heap |-> G]
  BY DEF Cut
<1>2. o0 >= f /\ o0 + n <= f1
  BY DEF Fits
<1>a. f1 = f + elt[f].n_user_data * 4
  BY NextElt
<1> HIDE DEF C, f1
<1>3. /\ n \in 8 .. MaxBytes /\ n % 4 = 0 /\ A \in Nat \ {0} /\ A % 4 = 0 /\ ao \in Nat
      /\ n \in Nat /\ n >= 8
  BY Limits DEF IsRequest
<1>4. /\ f \in DOMAIN elt /\ f < len /\ elt[f].is_free /\ Whole(Now, EndOf(len))
      /\ len \in Nat /\ DOMAIN elt \subseteq Addresses
  <2>1. /\ f \in DOMAIN elt /\ f < EndOf(len) /\ elt[f].is_free /\ Whole(Now, EndOf(len))
        /\ len \in Nat /\ DOMAIN elt \subseteq Addresses
    BY NowIs DEF HeapOK, Whole, Ended, Tagged
  <2>2. f < len
    BY <2>1 DEF EndOf, Addresses
  <2> QED BY <2>1, <2>2
<1>5. /\ f \in Nat /\ f >= 8 /\ f % 4 = 0 /\ len > 8 /\ len <= max_size /\ max_size < MaxBytes
      /\ nx \in DOMAIN elt /\ nx <= len /\ elt[f].n_user_data \in Nat
      /\ nx = f1 + 8 /\ f1 \in Nat /\ f1 % 4 = 0 /\ nx \in Nat /\ EndOf(len) = len
  <2>1. /\ f \in Nat /\ f >= 8 /\ f % 4 = 0 /\ len > 8 /\ len <= max_size /\ max_size < MaxBytes
        /\ nx \in DOMAIN elt /\ nx <= len /\ elt[f].n_user_data \in Nat
    BY <1>4, NowIs, ElementTags
  <2> QED BY <2>1, <1>4, <1>a DEF NextOf, EndOf
<1>6. /\ len # 0 => elt[8].prev_n_user_data = INVALID
      /\ elt[len].n_user_data = INVALID /\ len \in DOMAIN elt
  BY <1>4, <1>5, NowIs DEF HeapOK, Whole, Ended, UpTo
<1>7. /\ taken.elt = elt /\ Hole(taken, f, nx, len) /\ Bare(taken, f, nx)
      /\ ~ elt[f].prev_is_free /\ ~ elt[nx].is_free
  BY <1>4, <1>5, NowIs, OpenFree
<1>8. /\ o0 \in Int /\ o0 % 4 = 0 /\ (o0 + ao) % A = 0 /\ (o0 = f \/ o0 >= f + 16)
  <2>1. f1 \in Int /\ n \in Int
    BY <1>3, <1>5
  <2>2. /\ o0 \in Int /\ o0 % 4 = 0 /\ (o0 + ao) % A = 0
        /\ o0 >= f => o0 = f \/ o0 >= f + 16
    BY <2>1, <1>3, <1>5, Placed
  <2> HIDE DEF o0
  <2> QED BY <2>2, <1>2
<1>9. MaxBytes \in Nat /\ max_size \in Nat /\ o0 \in Nat /\ o0 < nx /\ nx < MaxBytes
  <2>1. MaxBytes \in Nat /\ max_size \in Nat
    BY Limits, SizeAssumption
  <2> HIDE DEF o0, nx
  <2>2. o0 \in Nat
    BY <1>5, <1>8
  <2>3. o0 < nx
    BY <2>2, <1>2, <1>3, <1>5
  <2>4. nx < MaxBytes
    BY <2>1, <1>4, <1>5
  <2> QED BY <2>1, <2>2, <2>3, <2>4
<1> HIDE DEF o0, nx, taken
<1> DEFINE no == FALSE
<1>b. no \in BOOLEAN /\ ~ no
  OBVIOUS
<1> DEFINE yes == TRUE
<1>c. yes \in BOOLEAN /\ yes
  OBVIOUS
<1>10. /\ Hole(below, o0, nx, len) /\ Bare(below, o0, nx) /\ Same(taken, below, f, nx)
       /\ o0 # f => /\ f \in DOMAIN below.elt /\ below.elt[f].is_free
                    /\ f + 4 * below.elt[f].n_user_data + 8 = o0
  <2>1. CASE o0 = f
    <3>1. below = taken
      BY <2>1
    <3> HIDE DEF below
    <3> QED BY <2>1, <3>1, <1>7 DEF Same
  <2>2. CASE o0 # f
    <3> DEFINE k == o0 - f - 8
    <3>1. k \in 8 .. MaxBytes /\ k % 4 = 0 /\ f + k + 8 = o0 /\ k > 0
      BY <2>2, <1>5, <1>8, <1>9
    <3>2. lo = k
      BY <2>2
    <3> HIDE DEF k, lo
    <3>3. below = Written(taken, f, k, yes)
      BY <3>1, <3>2 DEF Written
    <3>4. f + k + 8 < nx
      BY <3>1, <1>9
    <3> HIDE DEF yes
    <3>5. /\ Hole(Written(taken, f, k, yes), f + k + 8, nx, len)
          /\ Bare(Written(taken, f, k, yes), f + k + 8, nx)
          /\ Same(taken, Written(taken, f, k, yes), f, nx)
          /\ f \in DOMAIN Written(taken, f, k, yes).elt
          /\ 4 * Written(taken, f, k, yes).elt[f].n_user_data = k
          /\ Written(taken, f, k, yes).elt[f].is_free = yes
      <4>1. /\ yes => ~ taken.elt[f].prev_is_free
            /\ Hole(taken, f, nx, len) /\ Bare(taken, f, nx) /\ yes \in BOOLEAN
        BY <1>7, <1>c
      <4> QED BY <3>1, <3>4, <4>1, SplitOff
    <3> HIDE DEF below
    <3> QED BY <3>1, <3>3, <3>5, <1>c
  <2> QED BY <2>1, <2>2
<1> HIDE DEF below
<1>11. ~ below.elt[nx].is_free
  <2>1. nx \in DOMAIN taken.elt /\ ~ taken.elt[nx].is_free /\ nx >= nx
    BY <1>5, <1>7, <1>9
  <2>2. below.elt[nx].is_free = taken.elt[nx].is_free
    BY <2>1, <1>10 DEF Same
  <2> QED BY <2>1, <2>2
<1>12. /\ Whole(G, len) /\ Same(below, G, o0, nx)
       /\ o0 \in DOMAIN G.elt /\ 4 * G.elt[o0].n_user_data >= n /\ ~ G.elt[o0].is_free
       /\ LET z == o0 + 4 * G.elt[o0].n_user_data + 8
          IN  \/ z = nx
              \/ /\ o0 < z /\ z < nx /\ z \in DOMAIN G.elt /\ G.elt[z].is_free
                 /\ z + 4 * G.elt[z].n_user_data + 8 = nx
  <2>1. CASE rest < 8
    <3> DEFINE k == f1 - o0
    <3>1. hi = 0 /\ size = k /\ ~ (hi > 0)
      BY <2>1
    <3>2. k \in 8 .. MaxBytes /\ k % 4 = 0 /\ o0 + k + 8 = nx /\ k >= n
      BY <1>2, <1>3, <1>5, <1>8, <1>9
    <3> HIDE DEF k, hi, size
    <3>3. G = Written(below, o0, k, no)
      BY <3>1 DEF Written
    <3> HIDE DEF G, no
    <3>4. /\ Whole(G, len) /\ Same(below, G, o0, nx) /\ o0 \in DOMAIN G.elt
          /\ 4 * G.elt[o0].n_user_data = k /\ G.elt[o0].is_free = no
      BY <3>2, <3>3, <1>b, <1>10, Filled
    <3> QED BY <3>2, <3>4, <1>b
  <2>2. CASE ~ (rest < 8)
    <3> DEFINE m == o0 + n + 8
    <3>1. rest \in Int
      BY <1>3, <1>5, <1>9
    <3>2. hi = rest /\ hi > 0 /\ size = n /\ uo = m
      BY <2>2, <3>1
    <3>3. rest \in 8 .. MaxBytes /\ rest % 4 = 0 /\ m + rest + 8 = nx /\ m < nx /\ o0 < m
          /\ m \in Nat
      BY <2>2, <1>3, <1>5, <1>8, <1>9
    <3> HIDE DEF hi, size, uo, rest
    <3> DEFINE O == Written(below, o0, n, no)
    <3>4. object = O /\ G = Written(O, m, rest, TRUE)
      BY <3>2 DEF Written
    <3>a. G = Written(O, m, rest, yes)
      BY <3>4
    <3> HIDE DEF G, object, no, yes
    <3>5. /\ Hole(O, m, nx, len) /\ Same(below, O, o0, nx) /\ o0 \in DOMAIN O.elt
          /\ 4 * O.elt[o0].n_user_data = n /\ O.elt[o0].is_free = no
          /\ O.elt[m].prev_is_free = no
      BY <3>3, <1>3, <1>b, <1>10, SplitOff
    <3> HIDE DEF O, m
    <3>6. nx \in DOMAIN below.elt
      BY <1>10 DEF Hole, Onward
    <3>7. ~ O.elt[nx].is_free
      BY <3>5, <3>6, <1>5, <1>11 DEF Same
    <3>8. /\ Whole(G, len) /\ Same(O, G, m, nx)
          /\ m \in DOMAIN G.elt /\ 4 * G.elt[m].n_user_data = rest /\ G.elt[m].is_free = yes
      <4>1. yes => ~ O.elt[m].prev_is_free /\ ~ O.elt[nx].is_free
        BY <3>5, <3>7, <1>b
      <4>2. Hole(O, m, nx, len) /\ yes \in BOOLEAN
        BY <3>5, <1>c
      <4> QED BY <3>3, <3>a, <4>1, <4>2, Filled
    <3>9. \A x \in DOMAIN below.elt : x < o0 => x < m
      <4>1. DOMAIN below.elt \subseteq Nat
        BY <1>10 DEF Hole, Tagged, Addresses
      <4> QED BY <4>1, <3>3, <1>9
    <3>10. Same(below, G, o0, nx)
      BY <3>5, <3>8, <3>9 DEF Same
    <3>11. /\ o0 \in DOMAIN G.elt /\ G.elt[o0].n_user_data = O.elt[o0].n_user_data
           /\ G.elt[o0].is_free = no
      BY <3>3, <3>5, <3>8 DEF Same
    <3>12. m = o0 + 4 * G.elt[o0].n_user_data + 8
      <4>1. m = o0 + n + 8 /\ 4 * G.elt[o0].n_user_data = n
        BY <3>5, <3>11 DEF m
      <4>2. G.elt[o0].n_user_data \in Int
        BY <3>8, <3>11 DEF Whole, Ended, Tagged, Tag
      <4> QED BY <4>1, <4>2, <1>3, <1>9
    <3>13. /\ o0 \in DOMAIN G.elt /\ 4 * G.elt[o0].n_user_data >= n /\ ~ G.elt[o0].is_free
           /\ o0 < m /\ m < nx /\ m \in DOMAIN G.elt /\ G.elt[m].is_free
           /\ m + 4 * G.elt[m].n_user_data + 8 = nx
      BY <3>3, <3>5, <3>8, <3>11, <1>3, <1>b, <1>c
    <3> HIDE DEF m
    <3> QED BY <3>8, <3>10, <3>12, <3>13, Zenon
  <2> QED BY <2>1, <2>2, Zenon
<1> HIDE DEF G
<1>13. Same(Now, G, f, nx)
  <2>1. DOMAIN elt \subseteq Nat
    BY <1>4 DEF Addresses
  <2>2. \A x \in DOMAIN elt : x < f => x < o0
    BY <2>1, <1>2, <1>5, <1>9
  <2> QED BY <2>2, <1>7, <1>10, <1>12, NowIs DEF Same
<1>14. HeapOK(G, len)
  <2>1. G.elt[8].prev_n_user_data = INVALID /\ G.elt[len].n_user_data = INVALID
    BY <1>5, <1>6, <1>13, NowIs DEF Same
  <2>2. ~ (len <= 8)
    BY <1>4, <1>5
  <2> QED BY <2>1, <2>2, <1>4, <1>5, <1>12 DEF HeapOK
<1>15. ASSUME NEW x \in DOMAIN elt PROVE x < f \/ nx <= x \/ x = f
  <2>1. x \in Nat
    BY <1>4 DEF Addresses
  <2> QED BY <2>1, <1>5, <1>7 DEF Bare
<1>16. Keeps(Now, G, len, HeldIn(Now, len))
  <2> SUFFICES ASSUME NEW x \in HeldIn(Now, len)
               PROVE  x \in HeldIn(G, len) /\ G.elt[x].n_user_data = Now.elt[x].n_user_data
    BY DEF Keeps
  <2>1. x \in DOMAIN elt /\ x < len /\ ~ elt[x].is_free /\ x # f
    BY <1>4, NowIs DEF HeldIn
  <2> QED BY <2>1, <1>13, <1>15, NowIs DEF HeldIn, Same
<1>17. NewObject(G, len, o0, n, A, ao)
  <2>1. o0 \notin HeldIn(Now, len)
    <3> SUFFICES ASSUME o0 \in HeldIn(Now, len) PROVE FALSE
      OBVIOUS
    <3>1. o0 \in DOMAIN elt /\ ~ elt[o0].is_free
      BY NowIs DEF HeldIn
    <3> QED BY <3>1, <1>2, <1>4, <1>5, <1>9, <1>15
  <2>2. o0 < len
    BY <1>4, <1>5, <1>9
  <2> QED BY <2>1, <2>2, <1>8, <1>12 DEF NewObject, HeldIn
<1>18. IsHeap(G) /\ Tagged(G.elt) /\ UpTo(G.elt, len)
  BY <1>12 DEF Whole, Ended
<1>19. HeldIn(G, len) \subseteq HeldIn(Now, len) \cup {o0}
  <2> DEFINE z == o0 + 4 * G.elt[o0].n_user_data + 8
             U == {x \in DOMAIN elt : x < f \/ nx <= x}
             S == U \cup {f, o0} \cup ({z} \ {nx})
  <2>1. \A x \in U : /\ x \in DOMAIN G.elt /\ G.elt[x].n_user_data = elt[x].n_user_data
                     /\ G.elt[x].is_free = elt[x].is_free
    BY <1>13, NowIs DEF Same
  <2>2. /\ \/ z = nx
           \/ /\ z # nx /\ z \in DOMAIN G.elt /\ G.elt[z].is_free
              /\ z + 4 * G.elt[z].n_user_data + 8 = nx
        /\ o0 \in DOMAIN G.elt /\ nx \in U
    BY <1>5, <1>9, <1>12
  <2>3. f = o0 \/ (/\ f \in DOMAIN G.elt /\ G.elt[f].is_free
                   /\ f + 4 * G.elt[f].n_user_data + 8 = o0)
    <3> SUFFICES ASSUME f # o0
                 PROVE  /\ f \in DOMAIN G.elt /\ G.elt[f].is_free
                        /\ f + 4 * G.elt[f].n_user_data + 8 = o0
      OBVIOUS
    <3>1. f < o0
      BY <1>2, <1>5, <1>9
    <3>2. /\ f \in DOMAIN G.elt /\ G.elt[f].n_user_data = below.elt[f].n_user_data
          /\ G.elt[f].is_free = below.elt[f].is_free
      BY <3>1, <1>10, <1>12 DEF Same
    <3> QED BY <3>2, <1>10
  <2> HIDE DEF z
  <2>4. S \subseteq DOMAIN G.elt /\ 8 \in S
    <3>1. 8 \in DOMAIN elt
      BY NowIs, <1>4 DEF Whole, Ended, Tagged
    <3>2. 8 < f \/ 8 = f
      BY <1>5
    <3>3. S \subseteq DOMAIN G.elt
      BY <2>1, <2>2, <2>3
    <3> QED BY <3>1, <3>2, <3>3
  <2>5. ASSUME NEW x \in S, x < len PROVE NextOf(G.elt, x) \in S
    <3>1. x \in DOMAIN G.elt /\ NextOf(G.elt, x) = x + 4 * G.elt[x].n_user_data + 8
      <4>1. x \in DOMAIN G.elt
        BY <2>4
      <4>2. G.elt[x].n_user_data \in Int
        BY <4>1, <1>18 DEF Tagged, Tag
      <4> QED BY <4>1, <4>2 DEF NextOf
    <3>2. CASE x \in U
      <4> DEFINE w == NextOf(elt, x)
      <4>1. /\ x \in DOMAIN elt /\ (x < f \/ nx <= x) /\ x \in Nat
            /\ NextOf(G.elt, x) = w
        BY <3>2, <2>1, <1>4 DEF Addresses, NextOf
      <4>2. Fine(elt, x)
        BY <4>1, <2>5, <1>4, <1>5, NowIs DEF Whole, Ended, UpTo
      <4>3. w \in DOMAIN elt /\ (f <= x \/ w <= f) /\ x <= w /\ w \in Nat
        BY <4>1, <4>2, <1>4 DEF Fine, NextOf, Addresses
      <4> HIDE DEF w
      <4>4. w = f \/ w < f \/ nx <= w
        BY <4>1, <4>3, <1>5
      <4> QED BY <4>1, <4>3, <4>4
    <3>3. CASE x = o0
      <4>1. NextOf(G.elt, x) = z
        BY <3>1, <3>3 DEF z
      <4> QED BY <4>1, <2>2
    <3>4. CASE x = f /\ x # o0
      <4>1. NextOf(G.elt, x) = o0
        BY <3>1, <3>4, <2>3
      <4> QED BY <4>1
    <3>5. CASE x = z /\ z # nx
      <4>1. NextOf(G.elt, x) = nx
        BY <3>1, <3>5, <2>2
      <4> QED BY <4>1, <2>2
    <3> QED BY <3>2, <3>3, <3>4, <3>5
  <2>6. \A y \in DOMAIN G.elt : y <= len => y \in S
    <3> HIDE DEF S
    <3> QED BY <2>4, <2>5, <1>18, OnlyThese
  <2> SUFFICES ASSUME NEW y \in HeldIn(G, len), y # o0 PROVE y \in HeldIn(Now, len)
    OBVIOUS
  <2>7. y \in DOMAIN G.elt /\ y < len /\ ~ G.elt[y].is_free /\ y \in Nat
    BY <1>18 DEF HeldIn, Tagged, Addresses
  <2>8. y \in U
    <3>1. y \in S
      BY <2>6, <2>7, <1>4
    <3> QED BY <3>1, <2>2, <2>3, <2>7
  <2>9. y \in DOMAIN elt /\ ~ elt[y].is_free
    BY <2>1, <2>7, <2>8
  <2> QED BY <2>7, <2>9, NowIs DEF HeldIn
<1> QED BY <1>1, <1>14, <1>16, <1>17, <1>18, <1>19 DEF C

(* The first tag of a heap is made.                                        *)
LEMMA FirstHeap ==
  ASSUME HeapOK(Now, len)
  PROVE  LET F == FirstElt(Now)
         IN  /\ IsHeap(F) /\ Whole(F, EndOf(len)) /\ F.elt[8].prev_n_user_data = INVALID
             /\ Keeps(Now, F, len, HeldIn(Now, len))
             /\ \A x \in HeldIn(Now, len) : x \in DOMAIN F.elt
                  /\ F.elt[x].n_user_data = elt[x].n_user_data /\ ~ F.elt[x].is_free
             /\ \A x \in DOMAIN F.elt : x < EndOf(len) =>
                  x \in DOMAIN elt /\ x < len /\ F.elt[x].is_free = elt[x].is_free
             /\ HeapOK(F, EndOf(len))
<1> DEFINE F == FirstElt(Now)
<1>1. /\ len \in Nat /\ (len <= max_size \/ len = 8) /\ (len = 0 \/ len >= 8)
      /\ Whole(Now, EndOf(len))
      /\ len # 0 => elt[8].prev_n_user_data = INVALID
      /\ len > 8 => elt[len].n_user_data = INVALID
      /\ len <= 8 /\ elt[8].is_free => 16 + 4 * elt[8].n_user_data <= max_size
  BY NowIs DEF HeapOK
<1>2. CASE len # 0
  <2>1. F = Now /\ EndOf(len) = len
    BY <1>2 DEF FirstElt, EndOf
  <2>2. Keeps(Now, Now, len, HeldIn(Now, len))
    BY DEF Keeps
  <2>3. \A x \in HeldIn(Now, len) : x \in DOMAIN Now.elt
                  /\ Now.elt[x].n_user_data = elt[x].n_user_data /\ ~ Now.elt[x].is_free
    BY NowIs DEF HeldIn
  <2> QED BY <2>1, <2>2, <2>3, <1>1, <1>2, NowIs
<1>3. CASE len = 0
  <2> DEFINE t == [elt[8] EXCEPT !.prev_n_user_data = INVALID]
             g == [x \in {8} |-> t]
  <2>1. /\ Tagged(elt) /\ Listed(link, first, BinAt(elt))
        /\ DOMAIN link = {x \in DOMAIN elt : x < 8 /\ elt[x].is_free}
        /\ EndOf(len) = 8
    BY <1>1, <1>3, NowIs DEF Whole, Ended, EndOf
  <2>2. 8 \in DOMAIN elt /\ elt[8] \in Tag /\ ~ elt[8].prev_is_free /\ INVALID \in Int
    BY <2>1, Limits DEF Tagged
  <2>3. F = [Now EXCEPT !.elt = g]
    BY <2>2, <1>3, NowIs DEF FirstElt, EltAt
  <2>4. IsHeap(F) /\ F.elt = g /\ F.link = link /\ F.first = first
    BY <2>3, NowIs DEF IsHeap
  <2>5. /\ t \in Tag /\ ~ t.prev_is_free /\ t.prev_n_user_data = INVALID
        /\ t.n_user_data = elt[8].n_user_data /\ t.is_free = elt[8].is_free
    BY <2>2 DEF Tag
  <2> HIDE DEF t, F
  <2>6. DOMAIN g = {8} /\ g[8] = t /\ g \in [{8} -> Tag]
    BY <2>5
  <2> HIDE DEF g
  <2>7. Tagged(g)
    BY <2>5, <2>6 DEF Tagged, Addresses
  <2>8. UpTo(g, 8) /\ \A x \in DOMAIN g : x <= 8
    BY <2>6 DEF UpTo
  <2>9. DOMAIN link = {}
    BY <2>1 DEF Tagged, Addresses
  <2>10. Listed(F.link, F.first, BinAt(F.elt))
    BY <2>1, <2>4, <2>9, ListedAlike
  <2>11. DOMAIN F.link = {x \in DOMAIN g : x < 8 /\ g[x].is_free}
    BY <2>4, <2>6, <2>9
  <2>12. Whole(F, 8)
    BY <2>4, <2>5, <2>6, <2>7, <2>8, <2>10, <2>11 DEF Whole, Ended
  <2>13. HeldIn(Now, len) = {}
    BY <2>1, <1>3, NowIs DEF HeldIn, Tagged, Addresses
  <2>14. HeapOK(F, 8)
    <3>1. EndOf(8) = 8
      BY DEF EndOf
    <3> QED BY <3>1, <2>4, <2>5, <2>6, <2>12, <1>1, <1>3 DEF HeapOK
  <2>15. F.elt[8].prev_n_user_data = INVALID
    BY <2>4, <2>5, <2>6
  <2>16. \A x \in DOMAIN F.elt : ~ (x < EndOf(len))
    BY <2>1, <2>4, <2>6
  <2> QED BY <2>1, <2>4, <2>12, <2>13, <2>14, <2>15, <2>16 DEF F, Keeps
<1> QED BY <1>2, <1>3

(* The heap is extended.                                                   *)
LEMMA ExtendedHeap ==
  ASSUME HeapOK(Now, len), NEW n, NEW A, NEW ao,
         IsRequest(n, A, ao), ao % 4 = 0, Room(n, A, ao)
  PROVE  LET G == Extended(n, A, ao)
             l == ExtendEnd(n, A, ao)
         IN  /\ HeapOK(G, l) /\ IsHeap(G)
             /\ Keeps(Now, G, l, HeldIn(Now, len))
             /\ NewObject(G, l, ExtendOffset(A, ao), n, A, ao)
             /\ HeldIn(G, l) \subseteq HeldIn(Now, len) \cup {ExtendOffset(A, ao)}
<1> DEFINE f0 == ExtendFrom
           o0 == ExtendOffset(A, ao)
           f1 == ExtendEnd(n, A, ao)
           F == FirstElt(Now)
           k == o0 - f0 - 8
           below == IF o0 # f0 THEN new_free_elt(F, f0, k) ELSE F
           object == mheap_elt_set_size(below, o0, n, FALSE)
           G == Extended(n, A, ao)
<1>1. G = [object EXCEPT !.elt[f1].n_user_data = INVALID]
  BY DEF Extended
<1>2. /\ f0 = EndOf(len) /\ f0 \in Nat /\ f0 >= 8 /\ f0 % 4 = 0
      /\ o0 \in Nat /\ (o0 = f0 \/ o0 >= f0 + 24) /\ o0 % 4 = 0 /\ (o0 + ao) % A = 0
  BY ExtendPlaced
<1>3. n \in 8 .. MaxBytes /\ n % 4 = 0 /\ n \in Nat /\ n >= 8 /\ MaxBytes \in Nat
  BY Limits DEF IsRequest
<1>4. f1 = o0 + n + 8 /\ f1 <= max_size /\ max_size \in Nat /\ max_size < MaxBytes
  BY SizeAssumption, Limits DEF ExtendEnd, Room
<1>5. /\ IsHeap(F) /\ Whole(F, f0) /\ F.elt[8].prev_n_user_data = INVALID
      /\ \A x \in HeldIn(Now, len) : x \in DOMAIN F.elt
           /\ F.elt[x].n_user_data = elt[x].n_user_data /\ ~ F.elt[x].is_free
      /\ \A x \in DOMAIN F.elt : x < f0 =>
           x \in DOMAIN elt /\ x < len /\ F.elt[x].is_free = elt[x].is_free
  BY <1>2, FirstHeap
<1>6. /\ HeldIn(Now, len) \subseteq Nat /\ \A x \in HeldIn(Now, len) : x < f0
      /\ len <= f0 /\ len \in Nat
  BY <1>2, NowIs DEF HeldIn, HeapOK, Whole, Ended, Tagged, Addresses, EndOf
<1> DEFINE no == FALSE
<1>7. no \in BOOLEAN /\ ~ no
  OBVIOUS
<1>8. object = Written(below, o0, n, no)
  BY DEF Written
<1> DEFINE yes == TRUE
<1>a. yes \in BOOLEAN /\ yes
  OBVIOUS
<1> HIDE DEF F, G, f0, o0, f1, no
<1>9. /\ Ended(below, o0) /\ below.elt[8].prev_n_user_data = INVALID
      /\ \A x \in HeldIn(Now, len) : x \in DOMAIN below.elt
           /\ below.elt[x].n_user_data = elt[x].n_user_data /\ ~ below.elt[x].is_free
      /\ \A x \in DOMAIN F.elt : x < f0 =>
           /\ x \in DOMAIN below.elt /\ below.elt[x].n_user_data = F.elt[x].n_user_data
           /\ below.elt[x].is_free = F.elt[x].is_free
      /\ o0 # f0 => /\ f0 \in DOMAIN below.elt /\ below.elt[f0].is_free
                    /\ f0 + 4 * below.elt[f0].n_user_data + 8 = o0
  <2>1. CASE o0 = f0
    <3>1. below = F
      BY <2>1
    <3> HIDE DEF below
    <3> QED BY <2>1, <3>1, <1>5 DEF Whole
  <2>2. CASE o0 # f0
    <3>1. k \in 8 .. MaxBytes /\ k % 4 = 0 /\ f0 + k + 8 = o0
      BY <2>2, <1>2, <1>3, <1>4
    <3> HIDE DEF k
    <3>2. below = Written(F, f0, k, yes)
      BY <2>2 DEF Written
    <3> HIDE DEF below, yes
    <3>3. /\ Ended(below, f0 + k + 8) /\ Same(F, below, f0, f0 + k + 8)
          /\ f0 \in DOMAIN below.elt /\ 4 * below.elt[f0].n_user_data = k
          /\ below.elt[f0].is_free = yes
      <4>1. Ended(F, f0) /\ (yes => ~ F.elt[f0].prev_is_free) /\ yes \in BOOLEAN
        BY <1>5, <1>a DEF Whole
      <4> QED BY <3>1, <3>2, <4>1, Grown
    <3>4. Ended(below, o0) /\ Same(F, below, f0, o0)
      BY <3>1, <3>3
    <3>5. f0 + 4 * below.elt[f0].n_user_data + 8 = o0
      <4>1. below.elt[f0].n_user_data \in Int
        BY <3>3 DEF Ended, Tagged, Tag
      <4> QED BY <4>1, <3>1, <3>3
    <3> QED BY <3>3, <3>4, <3>5, <1>5, <1>6, <1>a DEF Same
  <2> QED BY <2>1, <2>2
<1> HIDE DEF below, object
<1>10. /\ Ended(object, f1) /\ Same(below, object, o0, f1)
       /\ o0 \in DOMAIN object.elt /\ 4 * object.elt[o0].n_user_data = n
       /\ ~ object.elt[o0].is_free /\ ~ object.elt[f1].prev_is_free
  <2> DEFINE m == o0 + n + 8
  <2>1. /\ Ended(object, m) /\ Same(below, object, o0, m)
        /\ o0 \in DOMAIN object.elt /\ 4 * object.elt[o0].n_user_data = n
        /\ object.elt[o0].is_free = no /\ object.elt[m].prev_is_free = no
    BY <1>3, <1>7, <1>8, <1>9, Grown
  <2>2. m = f1
    BY <1>4
  <2> HIDE DEF m
  <2> QED BY <2>1, <2>2, <1>7
<1>11. /\ IsHeap(object) /\ Tagged(object.elt) /\ UpTo(object.elt, f1)
       /\ \A x \in DOMAIN object.elt : x <= f1
       /\ Listed(object.link, object.first, BinAt(object.elt))
       /\ DOMAIN object.link = {x \in DOMAIN object.elt : x < f1 /\ object.elt[x].is_free}
       /\ f1 \in DOMAIN object.elt
  BY <1>10 DEF Ended, UpTo
<1> DEFINE t == [object.elt[f1] EXCEPT !.n_user_data = INVALID]
           e == [object.elt EXCEPT ![f1] = t]
<1>12. G = Chop(object, f1, t)
  <2>1. object.elt \in [DOMAIN object.elt -> Tag]
    BY <1>11 DEF Tagged
  <2>2. {y \in DOMAIN object.elt : y <= f1} = DOMAIN object.elt
    BY <1>11
  <2>3. e = [x \in {y \in DOMAIN object.elt : y <= f1} |-> IF x = f1 THEN t ELSE object.elt[x]]
    <3> HIDE DEF t
    <3> QED BY <2>1, <2>2, <1>11
  <2>4. G = [object EXCEPT !.elt = e]
    BY <1>1, <1>11 DEF IsHeap
  <2> QED BY <2>3, <2>4 DEF Chop
<1>13. /\ t \in Tag /\ t.prev_n_user_data = object.elt[f1].prev_n_user_data
       /\ t.prev_is_free = object.elt[f1].prev_is_free /\ t.n_user_data = INVALID
  <2>1. object.elt[f1] \in Tag /\ INVALID \in Int
    BY <1>11, Limits DEF Tagged
  <2> QED BY <2>1 DEF Tag
<1> HIDE DEF t, e
<1>14. /\ Whole(G, f1) /\ G.elt[f1] = t
       /\ G.elt[8].prev_n_user_data = object.elt[8].prev_n_user_data
       /\ \A x \in DOMAIN object.elt : x < f1 => x \in DOMAIN G.elt /\ G.elt[x] = object.elt[x]
  BY <1>10, <1>11, <1>12, <1>13, Chopped
<1>15. f1 \in Nat /\ f1 > 8 /\ EndOf(f1) = f1 /\ o0 < f1 /\ f0 <= o0
  BY <1>2, <1>3, <1>4 DEF EndOf
<1>16. HeapOK(G, f1)
  <2>1. G.elt[8].prev_n_user_data = INVALID /\ G.elt[f1].n_user_data = INVALID
    BY <1>9, <1>10, <1>13, <1>14 DEF Same
  <2> QED BY <2>1, <1>4, <1>14, <1>15 DEF HeapOK
<1>17. Keeps(Now, G, f1, HeldIn(Now, len))
  <2> SUFFICES ASSUME NEW x \in HeldIn(Now, len)
               PROVE  x \in HeldIn(G, f1) /\ G.elt[x].n_user_data = Now.elt[x].n_user_data
    BY DEF Keeps
  <2>1. x \in Nat /\ x < f0 /\ x < o0 /\ x < f1
    BY <1>2, <1>6, <1>15
  <2>2. x \in DOMAIN object.elt /\ object.elt[x].n_user_data = elt[x].n_user_data
        /\ ~ object.elt[x].is_free
    BY <2>1, <1>9, <1>10 DEF Same
  <2> QED BY <2>1, <2>2, <1>14, NowIs DEF HeldIn
<1>18. NewObject(G, f1, o0, n, A, ao)
  <2>1. o0 \notin HeldIn(Now, len)
    BY <1>2, <1>6, <1>15
  <2>2. o0 \in DOMAIN G.elt /\ G.elt[o0] = object.elt[o0]
    BY <1>10, <1>14, <1>15
  <2>3. 4 * G.elt[o0].n_user_data >= n
    BY <2>2, <1>3, <1>10
  <2> QED BY <2>1, <2>2, <2>3, <1>2, <1>10, <1>15 DEF NewObject, HeldIn
<1>19. IsHeap(G) /\ Tagged(G.elt) /\ UpTo(G.elt, f1)
  BY <1>14 DEF Whole, Ended
<1>20. HeldIn(G, f1) \subseteq HeldIn(Now, len) \cup {o0}
  <2> DEFINE U == {x \in DOMAIN F.elt : x < f0}
             S == U \cup {f0, o0, f1}
  <2>1. \A x \in U : /\ x \in DOMAIN G.elt /\ G.elt[x].n_user_data = F.elt[x].n_user_data
                     /\ G.elt[x].is_free = F.elt[x].is_free
    <3> SUFFICES ASSUME NEW x \in U
                 PROVE  /\ x \in DOMAIN G.elt /\ G.elt[x].n_user_data = F.elt[x].n_user_data
                        /\ G.elt[x].is_free = F.elt[x].is_free
      OBVIOUS
    <3>1. x < o0 /\ x < f1
      <4>1. x \in Nat /\ x < f0
        BY <1>5 DEF Whole, Ended, Tagged, Addresses
      <4> QED BY <4>1, <1>2, <1>15
    <3>2. /\ x \in DOMAIN object.elt /\ object.elt[x].n_user_data = F.elt[x].n_user_data
          /\ object.elt[x].is_free = F.elt[x].is_free
      BY <3>1, <1>9, <1>10 DEF Same
    <3> QED BY <3>1, <3>2, <1>14
  <2>2. /\ o0 \in DOMAIN G.elt /\ o0 + 4 * G.elt[o0].n_user_data + 8 = f1
        /\ f1 \in DOMAIN G.elt
    <3>1. o0 \in DOMAIN G.elt /\ G.elt[o0] = object.elt[o0] /\ 4 * object.elt[o0].n_user_data = n
      BY <1>10, <1>14, <1>15
    <3>2. G.elt[o0].n_user_data \in Int
      BY <3>1, <1>19 DEF Tagged, Tag
    <3> QED BY <3>1, <3>2, <1>2, <1>3, <1>4, <1>19 DEF UpTo
  <2>3. f0 = o0 \/ (/\ f0 \in DOMAIN G.elt /\ G.elt[f0].is_free
                    /\ f0 + 4 * G.elt[f0].n_user_data + 8 = o0)
    <3> SUFFICES ASSUME f0 # o0
                 PROVE  /\ f0 \in DOMAIN G.elt /\ G.elt[f0].is_free
                        /\ f0 + 4 * G.elt[f0].n_user_data + 8 = o0
      OBVIOUS
    <3>1. f0 < o0 /\ f0 < f1
      BY <1>2, <1>15
    <3>2. /\ f0 \in DOMAIN object.elt /\ object.elt[f0].n_user_data = below.elt[f0].n_user_data
          /\ object.elt[f0].is_free = below.elt[f0].is_free
      BY <3>1, <1>9, <1>10 DEF Same
    <3>3. f0 \in DOMAIN G.elt /\ G.elt[f0] = object.elt[f0]
      BY <3>1, <3>2, <1>14
    <3> QED BY <3>2, <3>3, <1>9
  <2>4. S \subseteq DOMAIN G.elt /\ 8 \in S
    <3>1. 8 \in DOMAIN F.elt
      BY <1>5 DEF Whole, Ended, Tagged
    <3>2. 8 < f0 \/ 8 = f0
      BY <1>2
    <3> QED BY <3>1, <3>2, <2>1, <2>2, <2>3
  <2>5. ASSUME NEW x \in S, x < f1 PROVE NextOf(G.elt, x) \in S
    <3>1. x \in DOMAIN G.elt /\ NextOf(G.elt, x) = x + 4 * G.elt[x].n_user_data + 8
      <4>1. x \in DOMAIN G.elt
        BY <2>4
      <4>2. G.elt[x].n_user_data \in Int
        BY <4>1, <1>19 DEF Tagged, Tag
      <4> QED BY <4>1, <4>2 DEF NextOf
    <3>2. CASE x \in U
      <4> DEFINE w == NextOf(F.elt, x)
      <4>1. x \in DOMAIN F.elt /\ x < f0 /\ NextOf(G.elt, x) = w
        BY <3>2, <2>1 DEF NextOf
      <4>2. Fine(F.elt, x) /\ f0 \in DOMAIN F.elt /\ DOMAIN F.elt \subseteq Nat
        BY <4>1, <1>5 DEF Whole, Ended, UpTo, Tagged, Addresses
      <4>3. w \in DOMAIN F.elt /\ w \in Nat /\ (f0 <= x \/ w <= f0) /\ x \in Nat
        BY <4>1, <4>2 DEF Fine
      <4> HIDE DEF w
      <4>4. w = f0 \/ w < f0
        BY <4>1, <4>3, <1>2
      <4> QED BY <4>1, <4>3, <4>4
    <3>3. CASE x = o0
      <4>1. NextOf(G.elt, x) = f1
        BY <3>1, <3>3, <2>2
      <4> QED BY <4>1
    <3>4. CASE x = f0 /\ x # o0
      <4>1. NextOf(G.elt, x) = o0
        BY <3>1, <3>4, <2>3
      <4> QED BY <4>1
    <3>5. x # f1
      BY <2>5, <1>15
    <3> QED BY <3>2, <3>3, <3>4, <3>5
  <2>6. \A y \in DOMAIN G.elt : y <= f1 => y \in S
    <3> HIDE DEF S
    <3> QED BY <2>4, <2>5, <1>19, OnlyThese
  <2> SUFFICES ASSUME NEW y \in HeldIn(G, f1), y # o0 PROVE y \in HeldIn(Now, len)
    OBVIOUS
  <2>7. y \in DOMAIN G.elt /\ y < f1 /\ ~ G.elt[y].is_free /\ y \in Nat
    BY <1>19 DEF HeldIn, Tagged, Addresses
  <2>8. y \in U
    <3>1. y \in S /\ y # f1
      BY <2>6, <2>7, <1>15
    <3> QED BY <3>1, <2>3, <2>7
  <2>9. y \in DOMAIN elt /\ y < len /\ ~ elt[y].is_free
    BY <2>1, <2>7, <2>8, <1>5
  <2> QED BY <2>9, NowIs DEF HeldIn
<1> QED BY <1>16, <1>17, <1>18, <1>19, <1>20 DEF G, f1, o0

-----------------------------------------------------------------------------
(* The objects and the cache, in a heap H of length l.                     *)

(* Each object is a held element, as long and as aligned as asked for.     *)
ObjectsIn(H, l, lv) ==
  /\ DOMAIN lv \subseteq HeldIn(H, l)
  /\ \A o \in DOMAIN lv : /\ 4 * H.elt[o].n_user_data >= lv[o].n
                          /\ (o + lv[o].align_offset) % lv[o].align = 0

(* Each cached object is a held element that the user does not have, in    *)
(* one slot only, under the bin of its size.                               *)
Slots == 0 .. CACHE_SIZE - 1
CacheIn(H, l, lv, bs, os) ==
  /\ bs \in [Slots -> 0 .. CACHE_BINS] /\ os \in [Slots -> Int]
  /\ \A i \in Slots : bs[i] # 0 => /\ os[i] \in HeldIn(H, l) /\ os[i] \notin DOMAIN lv
                                   /\ bs[i] = 1 + BinAt(H.elt)[os[i]]
  /\ \A i, j \in Slots : bs[i] # 0 /\ bs[j] # 0 /\ os[i] = os[j] => i = j

With(lv, o, r) == [x \in DOMAIN lv \cup {o} |-> IF x = o THEN r ELSE lv[x]]
Without(lv, o) == [x \in DOMAIN lv \ {o} |-> lv[x]]

LEMMA ObjectsKept ==
  ASSUME NEW H, NEW l, NEW lv, ObjectsIn(H, l, lv), NEW G, NEW m, NEW S,
         Keeps(H, G, m, S), DOMAIN lv \subseteq S
  PROVE  ObjectsIn(G, m, lv)
BY DEF ObjectsIn, Keeps

LEMMA ObjectsWith ==
  ASSUME NEW H, NEW l, NEW lv, ObjectsIn(H, l, lv), NEW o \in HeldIn(H, l), NEW r,
         4 * H.elt[o].n_user_data >= r.n, (o + r.align_offset) % r.align = 0
  PROVE  ObjectsIn(H, l, With(lv, o, r))
<1> DEFINE w == With(lv, o, r)
<1>1. DOMAIN w = DOMAIN lv \cup {o} /\ w[o] = r /\ \A x \in DOMAIN lv : x # o => w[x] = lv[x]
  BY DEF With
<1> HIDE DEF w
<1>2. ObjectsIn(H, l, w)
  BY <1>1 DEF ObjectsIn
<1> QED BY <1>2 DEF w

LEMMA ObjectsWithout ==
  ASSUME NEW H, NEW l, NEW lv, ObjectsIn(H, l, lv), NEW o
  PROVE  ObjectsIn(H, l, Without(lv, o))
<1> DEFINE w == Without(lv, o)
<1>1. DOMAIN w = DOMAIN lv \ {o} /\ \A x \in DOMAIN w : w[x] = lv[x]
  BY DEF Without
<1> HIDE DEF w
<1>2. ObjectsIn(H, l, w)
  BY <1>1 DEF ObjectsIn
<1> QED BY <1>2 DEF w

LEMMA CacheKept ==
  ASSUME NEW H, NEW l, NEW lv, NEW bs, NEW os, CacheIn(H, l, lv, bs, os),
         NEW G, NEW m, NEW S, Keeps(H, G, m, S), \A i \in Slots : bs[i] # 0 => os[i] \in S
  PROVE  CacheIn(G, m, lv, bs, os)
<1>1. ASSUME NEW i \in Slots, bs[i] # 0
      PROVE  os[i] \in HeldIn(G, m) /\ BinAt(G.elt)[os[i]] = BinAt(H.elt)[os[i]]
  <2> DEFINE o == os[i]
  <2>1. o \in HeldIn(H, l) /\ o \in HeldIn(G, m) /\ G.elt[o].n_user_data = H.elt[o].n_user_data
    BY <1>1 DEF CacheIn, Keeps
  <2>2. o \in DOMAIN G.elt /\ o \in DOMAIN H.elt
    BY <2>1 DEF HeldIn
  <2> HIDE DEF o
  <2>3. BinAt(G.elt)[o] = BinAt(H.elt)[o]
    BY <2>1, <2>2 DEF BinAt
  <2> QED BY <2>1, <2>3 DEF o
<1> HIDE DEF Slots
<1> QED BY <1>1 DEF CacheIn

(* The user gets an object that is not in the cache, or gives one back.    *)
LEMMA CacheAlike ==
  ASSUME NEW H, NEW l, NEW lv, NEW bs, NEW os, CacheIn(H, l, lv, bs, os),
         NEW lw, \A i \in Slots : bs[i] # 0 => os[i] \notin DOMAIN lw
  PROVE  CacheIn(H, l, lw, bs, os)
BY DEF CacheIn

(* A slot is emptied.                                                      *)
LEMMA CacheTaken ==
  ASSUME NEW H, NEW l, NEW lv, NEW bs, NEW os, CacheIn(H, l, lv, bs, os), NEW i \in Slots
  PROVE  CacheIn(H, l, lv, [bs EXCEPT ![i] = 0], os)
<1> DEFINE b == [bs EXCEPT ![i] = 0]
<1>0. 0 \in 0 .. CACHE_BINS
  BY BinAssumption, SmallBins
<1>1. b \in [Slots -> 0 .. CACHE_BINS] /\ \A j \in Slots : b[j] # 0 => b[j] = bs[j]
  BY <1>0 DEF CacheIn
<1> HIDE DEF b
<1>2. CacheIn(H, l, lv, b, os)
  BY <1>1 DEF CacheIn
<1> QED BY <1>2 DEF b

(* A slot is filled.                                                       *)
LEMMA CacheFilled ==
  ASSUME NEW H, NEW l, NEW lv, NEW bs, NEW os, CacheIn(H, l, lv, bs, os), NEW i \in Slots,
         NEW o \in HeldIn(H, l), o \in Int, o \notin DOMAIN lv,
         \A j \in Slots : j # i /\ bs[j] # 0 => os[j] # o,
         NEW k, k = BinAt(H.elt)[o], 1 + k \in 1 .. CACHE_BINS
  PROVE  CacheIn(H, l, lv, [bs EXCEPT ![i] = 1 + k], [os EXCEPT ![i] = o])
<1> DEFINE b == [bs EXCEPT ![i] = 1 + k]  t == [os EXCEPT ![i] = o]
<1>0. 1 + k \in 0 .. CACHE_BINS
  BY BinAssumption, SmallBins
<1>1. /\ b \in [Slots -> 0 .. CACHE_BINS] /\ t \in [Slots -> Int]
      /\ b[i] = 1 + k /\ t[i] = o
      /\ \A j \in Slots : j # i => b[j] = bs[j] /\ t[j] = os[j]
  BY <1>0 DEF CacheIn
<1> HIDE DEF b, t
<1>2. ASSUME NEW j \in Slots, b[j] # 0
      PROVE  t[j] \in HeldIn(H, l) /\ t[j] \notin DOMAIN lv /\ b[j] = 1 + BinAt(H.elt)[t[j]]
  BY <1>1, <1>2 DEF CacheIn
<1>3. \A j, m \in Slots : b[j] # 0 /\ b[m] # 0 /\ t[j] = t[m] => j = m
  BY <1>1 DEF CacheIn
<1>4. CacheIn(H, l, lv, b, t)
  BY <1>1, <1>2, <1>3 DEF CacheIn
<1> QED BY <1>4 DEF b, t

-----------------------------------------------------------------------------
(* The inductive invariant.                                                *)
Counted ==
  /\ IsFiniteSet(DOMAIN live) /\ n_elts = Cardinality(DOMAIN live)
  /\ replacement_index \in Slots
  /\ small_object_cache \/ \A i \in Slots : bins[i] = 0

(* Every held element is the user's or in the cache: none is lost.  A slot *)
(* that is not used keeps an offset of the past.                           *)
NoneLost == HeldIn(Now, len) \subseteq DOMAIN live \cup CachedObjects
SlotOffsets == \A i \in Slots : offsets[i] \in Offsets \cup {0}

AllocatorInv ==
  /\ HeapOK(Now, len)
  /\ ObjectsIn(Now, len, live)
  /\ CacheIn(Now, len, live, bins, offsets)
  /\ Counted
  /\ NoneLost
  /\ SlotOffsets

(* What a call makes of the heap is the next state's heap.                 *)
LEMMA BecomeIs ==
  ASSUME NEW G, IsHeap(G), Become(G)
  PROVE  Now' = G
BY DEF Become, Now, IsHeap

LEMMA FreedHeap ==
  ASSUME HeapOK(Now, len), NEW o \in HeldIn(Now, len), Free(o)
  PROVE  /\ HeapOK(Now', len') /\ Keeps(Now, Now', len', HeldIn(Now, len) \ {o})
         /\ HeldIn(Now', len') \subseteq HeldIn(Now, len) \ {o}
<1>1. CASE IsLast(o)
  <2> DEFINE F == FreeLast(o)
  <2>1. /\ HeapOK(F.heap, F.len) /\ IsHeap(F.heap)
        /\ Keeps(Now, F.heap, F.len, HeldIn(Now, len) \ {o})
        /\ HeldIn(F.heap, F.len) \subseteq HeldIn(Now, len) \ {o}
    BY <1>1, FreedLast
  <2>2. len' = F.len /\ Become(F.heap)
    BY <1>1 DEF Free
  <2> HIDE DEF F
  <2>3. Now' = F.heap
    BY <2>1, <2>2, BecomeIs
  <2> QED BY <2>1, <2>2, <2>3
<1>2. CASE ~ IsLast(o)
  <2> DEFINE F == Combined(o)
  <2>1. /\ HeapOK(F, len) /\ IsHeap(F) /\ Keeps(Now, F, len, HeldIn(Now, len) \ {o})
        /\ HeldIn(F, len) \subseteq HeldIn(Now, len) \ {o}
    BY <1>2, FreedWithin
  <2>2. len' = len /\ Become(F)
    BY <1>2 DEF Free
  <2> HIDE DEF F
  <2>3. Now' = F
    BY <2>1, <2>2, BecomeIs
  <2> QED BY <2>1, <2>2, <2>3
<1> QED BY <1>1, <1>2

(* The initial heap.                                                       *)
LEMMA AllocatorInit == Init => AllocatorInv
<1> SUFFICES ASSUME Init PROVE AllocatorInv
  OBVIOUS
<1>1. /\ len = 0 /\ elt = [o \in {8} |-> FreshElt] /\ link = << >>
      /\ first = [b \in Bins |-> NONE] /\ n_elts = 0
      /\ bins = [i \in Slots |-> 0] /\ offsets = [i \in Slots |-> 0]
      /\ replacement_index = 0 /\ live = << >>
  BY DEF Init, Slots
<1>2. DOMAIN link = {} /\ DOMAIN live = {}
  BY <1>1
<1>3. /\ FreshElt \in Tag /\ ~ FreshElt.prev_is_free /\ ~ FreshElt.is_free
  BY DEF FreshElt, Tag, UNSET
<1>4. DOMAIN elt = {8} /\ elt[8] = FreshElt /\ elt \in [{8} -> Tag]
  BY <1>1, <1>3
<1>5. Tagged(elt)
  BY <1>3, <1>4 DEF Tagged, Addresses
<1>6. UpTo(elt, 8) /\ \A x \in DOMAIN elt : x <= 8
  BY <1>4 DEF UpTo
<1>7. Listed(link, first, BinAt(elt))
  <2>1. link \in [DOMAIN link -> [next : Int, prev : Int]]
    BY <1>1, <1>2
  <2>2. first \in [Bins -> Int] /\ \A b \in Bins : first[b] = NONE
    BY <1>1 DEF NONE
  <2>3. Ranked(link, link, 0)
    <3>1. link \in [DOMAIN link -> 0 .. 0]
      BY <1>1, <1>2
    <3> QED BY <3>1, <1>2 DEF Ranked
  <2>4. \E K \in Nat : \E rank : Ranked(link, rank, K)
    BY <2>3
  <2> QED BY <2>1, <2>2, <2>4, <1>2 DEF Listed
<1>8. DOMAIN link = {x \in DOMAIN elt : x < 8 /\ elt[x].is_free}
  BY <1>2, <1>4
<1>9. Whole(Now, 8)
  BY <1>3, <1>4, <1>5, <1>6, <1>7, <1>8, NowIs DEF Whole, Ended
<1>10. HeapOK(Now, len)
  <2>1. 0 <= max_size /\ EndOf(0) = 8
    BY SizeAssumption, Limits DEF EndOf
  <2> QED BY <2>1, <1>1, <1>3, <1>4, <1>9, NowIs DEF HeapOK
<1>11. ObjectsIn(Now, len, live)
  BY <1>2 DEF ObjectsIn
<1>12. 0 \in 0 .. CACHE_BINS /\ 0 \in Slots
  BY BinAssumption, SmallBins DEF Slots
<1>13. CacheIn(Now, len, live, bins, offsets)
  <2>1. bins \in [Slots -> 0 .. CACHE_BINS] /\ offsets \in [Slots -> Int]
        /\ \A i \in Slots : bins[i] = 0
    BY <1>1, <1>12
  <2> QED BY <2>1 DEF CacheIn
<1>14. Counted
  BY <1>1, <1>2, <1>12, FS_EmptySet DEF Counted
<1>15. NoneLost
  BY <1>1, <1>4, NowIs DEF NoneLost, HeldIn
<1>16. SlotOffsets
  BY <1>1 DEF SlotOffsets
<1> QED BY <1>10, <1>11, <1>13, <1>14, <1>15, <1>16 DEF AllocatorInv

(* The cached objects are those of the used slots.                         *)
LEMMA CachedIn ==
  ASSUME CacheIn(Now, len, live, bins, offsets)
  PROVE  CachedObjects = {offsets[i] : i \in {j \in Slots : bins[j] # 0}}
<1>1. DOMAIN bins = Slots
  BY DEF CacheIn
<1> QED BY <1>1 DEF CachedObjects

(* An object of the heap becomes the user's.                               *)
LEMMA GotCounts ==
  ASSUME Counted, NEW o, o \notin DOMAIN live, NEW r, Got(r, o), UNCHANGED <<bins, replacement_index>>
  PROVE  Counted' /\ live' = With(live, o, r)
<1>1. live' = With(live, o, r) /\ n_elts' = n_elts + 1 /\ small_object_cache' = small_object_cache
  BY DEF Got, With
<1>2. DOMAIN live' = DOMAIN live \cup {o}
  BY <1>1 DEF With
<1>3. /\ IsFiniteSet(DOMAIN live \cup {o})
      /\ Cardinality(DOMAIN live \cup {o}) = Cardinality(DOMAIN live) + 1
  BY FS_AddElement DEF Counted
<1> QED BY <1>1, <1>2, <1>3 DEF Counted

LEMMA GotNew ==
  ASSUME AllocatorInv, HeapOK(Now', len'), Keeps(Now, Now', len', HeldIn(Now, len)),
         NEW r, NEW o, NewObject(Now', len', o, r.n, r.align, r.align_offset), Got(r, o),
         HeldIn(Now', len') \subseteq HeldIn(Now, len) \cup {o},
         UNCHANGED cache
  PROVE  AllocatorInv'
<1>1. /\ ObjectsIn(Now, len, live) /\ CacheIn(Now, len, live, bins, offsets) /\ Counted
      /\ NoneLost /\ SlotOffsets
  BY DEF AllocatorInv
<1>2. /\ o \in HeldIn(Now', len') /\ o \notin HeldIn(Now, len)
      /\ 4 * Now'.elt[o].n_user_data >= r.n /\ (o + r.align_offset) % r.align = 0
  BY DEF NewObject
<1>3. bins' = bins /\ offsets' = offsets /\ replacement_index' = replacement_index
  BY DEF cache
<1>4. DOMAIN live \subseteq HeldIn(Now, len)
      /\ \A i \in Slots : bins[i] # 0 => offsets[i] \in HeldIn(Now, len) /\ offsets[i] \notin DOMAIN live
  BY <1>1 DEF ObjectsIn, CacheIn
<1>5. Counted' /\ live' = With(live, o, r)
  <2>1. o \notin DOMAIN live
    BY <1>2, <1>4
  <2> QED BY <2>1, <1>1, <1>3, GotCounts
<1>6. ObjectsIn(Now', len', live')
  <2>1. ObjectsIn(Now', len', live)
    BY <1>1, <1>4, ObjectsKept
  <2>2. ObjectsIn(Now', len', With(live, o, r))
    BY <2>1, <1>2, ObjectsWith
  <2> QED BY <2>2, <1>5
<1>7. CacheIn(Now', len', live', bins', offsets')
  <2>1. CacheIn(Now', len', live, bins, offsets)
    BY <1>1, <1>4, CacheKept
  <2>2. DOMAIN With(live, o, r) = DOMAIN live \cup {o}
    BY DEF With
  <2>3. \A i \in Slots : bins[i] # 0 => offsets[i] \notin DOMAIN With(live, o, r)
    BY <2>2, <1>2, <1>4
  <2>4. CacheIn(Now', len', With(live, o, r), bins, offsets)
    BY <2>1, <2>3, CacheAlike
  <2> QED BY <2>4, <1>3, <1>5
<1>8. NoneLost'
  <2>1. DOMAIN live' = DOMAIN live \cup {o}
    BY <1>5 DEF With
  <2>2. CachedObjects' = CachedObjects
    BY <1>3 DEF CachedObjects
  <2> QED BY <2>1, <2>2, <1>1 DEF NoneLost
<1>9. SlotOffsets'
  BY <1>1, <1>3 DEF SlotOffsets
<1> QED BY <1>5, <1>6, <1>7, <1>8, <1>9 DEF AllocatorInv

-----------------------------------------------------------------------------
(* Every call keeps the invariant.                                         *)

(* A cached object has exactly the size of its bin.                        *)
LEMMA StepGetCached ==
  ASSUME AllocatorInv, NEW r, IsRequest(r.n, r.align, r.align_offset), GetCached(r)
  PROVE  AllocatorInv'
<1> DEFINE i == Cached(r.n, r.align, r.align_offset)
           b == user_data_size_to_bin_index(r.n)
           mask == {j \in DOMAIN bins : bins[j] = b + 1}
           o == offsets[i]
<1>1. /\ HeapOK(Now, len) /\ ObjectsIn(Now, len, live)
      /\ CacheIn(Now, len, live, bins, offsets) /\ Counted /\ NoneLost /\ SlotOffsets
  BY DEF AllocatorInv
<1>2. /\ i # NONE /\ bins' = [bins EXCEPT ![i] = 0] /\ Got(r, o)
      /\ UNCHANGED <<len, elt, link, first, offsets, replacement_index>>
  BY DEF GetCached, lists
<1>3. b < CACHE_BINS /\ r.align = 4 /\ r.align_offset = 0 /\ mask # {} /\ i = Min(mask)
  BY <1>2 DEF Cached
<1>4. bins \in [Slots -> 0 .. CACHE_BINS] /\ offsets \in [Slots -> Int] /\ Slots \subseteq Nat
  BY <1>1 DEF CacheIn, Slots
<1>5. b \in Nat
  <2>1. r.n \in 0 .. MaxBytes
    BY Limits DEF IsRequest
  <2>2. b \in Bins
    BY <2>1, BinOf
  <2> QED BY <2>2 DEF Bins
<1>6. i \in Slots /\ bins[i] = b + 1 /\ bins[i] # 0
  <2>1. mask \in SUBSET Nat /\ mask \subseteq Slots
    BY <1>4
  <2>2. i \in mask
    <3> HIDE DEF mask, i
    <3> QED BY <2>1, <1>3, MinOf
  <2> HIDE DEF i, b
  <2> QED BY <2>1, <2>2, <1>5
<1> HIDE DEF i, o
<1>7. /\ o \in HeldIn(Now, len) /\ o \notin DOMAIN live /\ BinAt(elt)[o] = b
      /\ \A j \in Slots : bins[j] # 0 /\ j # i => offsets[j] # o
  <2>1. o \in HeldIn(Now, len) /\ o \notin DOMAIN live /\ bins[i] = 1 + BinAt(elt)[o]
    BY <1>1, <1>6, NowIs DEF CacheIn, o
  <2>2. \A j \in Slots : bins[j] # 0 /\ j # i => offsets[j] # o
    BY <1>1, <1>6 DEF CacheIn, o
  <2>3. BinAt(elt)[o] \in Int
    <3>1. o \in DOMAIN elt /\ o < len
      BY <2>1, NowIs DEF HeldIn
    <3>2. 4 * elt[o].n_user_data \in 8 .. MaxBytes /\ elt[o].n_user_data \in Nat
      BY <3>1, <1>1, NowIs, ElementTags
    <3>3. elt[o].n_user_data * 4 \in 0 .. MaxBytes
      BY <3>2, Limits
    <3>4. user_data_size_to_bin_index(elt[o].n_user_data * 4) \in Bins
      BY <3>3, BinOf
    <3>5. BinAt(elt)[o] \in Bins
      BY <3>1, <3>4 DEF BinAt
    <3> QED BY <3>5 DEF Bins
  <2> HIDE DEF b
  <2> QED BY <2>1, <2>2, <2>3, <1>5, <1>6
<1>8. o \in DOMAIN elt /\ o < len
  BY <1>7, NowIs DEF HeldIn
<1>9. /\ o \in Nat /\ o % 4 = 0 /\ elt[o].n_user_data \in Nat
      /\ 4 * elt[o].n_user_data \in 8 .. MaxBytes
  BY <1>1, <1>8, NowIs, ElementTags
<1>10. 4 * elt[o].n_user_data = r.n
  <2> DEFINE k == 4 * elt[o].n_user_data
  <2>1. user_data_size_to_bin_index(k) = b
    <3>1. BinAt(elt)[o] = user_data_size_to_bin_index(elt[o].n_user_data * 4)
      BY <1>8 DEF BinAt
    <3>2. elt[o].n_user_data * 4 = k
      BY <1>9
    <3> QED BY <3>1, <3>2, <1>7
  <2>2. r.n \in 8 .. MaxBytes /\ r.n % 4 = 0
    BY DEF IsRequest
  <2>3. k \in 8 .. MaxBytes /\ k % 4 = 0
    BY <1>9
  <2>4. b < MHEAP_N_SMALL_OBJECT_BINS
    BY <1>3, <1>5, BinAssumption, SmallBins
  <2> HIDE DEF k
  <2>5. k = r.n
    BY <2>1, <2>2, <2>3, <2>4, SmallBinOneSize
  <2> QED BY <2>5 DEF k
<1>11. Now' = Now /\ len' = len
  BY <1>2 DEF Now
<1>12. Counted' /\ live' = With(live, o, r)
  <2>1. live' = With(live, o, r) /\ n_elts' = n_elts + 1 /\ small_object_cache' = small_object_cache
    BY <1>2 DEF Got, With
  <2>2. DOMAIN live' = DOMAIN live \cup {o}
    BY <2>1 DEF With
  <2>3. /\ IsFiniteSet(DOMAIN live \cup {o})
        /\ Cardinality(DOMAIN live \cup {o}) = Cardinality(DOMAIN live) + 1
    BY <1>1, <1>7, FS_AddElement DEF Counted
  <2>4. \A j \in Slots : bins[j] = 0 => bins'[j] = 0
    BY <1>2, <1>4
  <2> QED BY <2>1, <2>2, <2>3, <2>4, <1>1, <1>2 DEF Counted
<1>13. ObjectsIn(Now, len, With(live, o, r))
  <2>1. 4 * Now.elt[o].n_user_data >= r.n /\ (o + r.align_offset) % r.align = 0
    <3>1. r.align = 4 /\ r.align_offset = 0
      BY <1>3, Zenon
    <3>2. o + 0 = o /\ o % 4 = 0
      BY <1>9
    <3>3. (o + r.align_offset) % r.align = 0
      BY <3>1, <3>2, Zenon
    <3>4. Now.elt[o].n_user_data = elt[o].n_user_data
      BY NowIs, Zenon
    <3>5. 4 * Now.elt[o].n_user_data = r.n
      BY <3>4, <1>10, Zenon
    <3>6. r.n \in Int
      BY <1>9, <1>10
    <3> QED BY <3>3, <3>5, <3>6
  <2> QED BY <2>1, <1>1, <1>7, ObjectsWith
<1>14. CacheIn(Now, len, With(live, o, r), bins', offsets)
  <2>1. CacheIn(Now, len, live, bins', offsets)
    BY <1>1, <1>2, <1>6, CacheTaken
  <2>2. DOMAIN With(live, o, r) = DOMAIN live \cup {o}
    BY DEF With
  <2>3. \A j \in Slots : bins'[j] # 0 => offsets[j] \notin DOMAIN With(live, o, r)
    <3> SUFFICES ASSUME NEW j \in Slots, bins'[j] # 0
                 PROVE  offsets[j] \notin DOMAIN With(live, o, r)
      OBVIOUS
    <3>1. j # i /\ bins[j] # 0
      BY <1>2, <1>4, <1>6
    <3>2. offsets[j] # o /\ offsets[j] \notin DOMAIN live
      BY <3>1, <1>1, <1>7 DEF CacheIn
    <3> QED BY <3>2, <2>2
  <2> QED BY <2>1, <2>3, CacheAlike
<1>15. NoneLost'
  <2>1. DOMAIN live' = DOMAIN live \cup {o}
    BY <1>12 DEF With
  <2>2. CachedObjects \subseteq CachedObjects' \cup {o}
    <3> SUFFICES ASSUME NEW j \in Slots, bins[j] # 0, offsets[j] # o
                 PROVE  offsets[j] \in CachedObjects'
      BY <1>1, CachedIn
    <3>1. j # i /\ j \in DOMAIN bins' /\ bins'[j] # 0 /\ offsets'[j] = offsets[j]
      BY <1>2, <1>4 DEF o
    <3> QED BY <3>1 DEF CachedObjects
  <2>3. HeldIn(Now', len') = HeldIn(Now, len)
    BY <1>11
  <2> QED BY <2>1, <2>2, <2>3, <1>1 DEF NoneLost
<1>16. SlotOffsets'
  BY <1>1, <1>2 DEF SlotOffsets
<1> QED BY <1>1, <1>2, <1>11, <1>12, <1>13, <1>14, <1>15, <1>16 DEF AllocatorInv

LEMMA StepGet ==
  ASSUME AllocatorInv, NEW size \in Sizes, NEW a \in Aligns, NEW ao \in AlignOffsets,
         mheap_get_aligned(size, a, ao)
  PROVE  AllocatorInv'
<1> DEFINE r == NormalRequest(size, a, ao)
           n == r.n  A == r.align  of == r.align_offset
<1>1. HeapOK(Now, len) /\ IsRequest(n, A, of)
  <2>1. size \in 0 .. INVALID /\ a \in 0 .. INVALID /\ ao \in Nat
    BY SizeAssumption
  <2> QED BY <2>1, Requests DEF AllocatorInv
<1>2. \/ GetMisaligned(r) \/ GetCached(r) \/ GetFromFreeList(r) \/ GetByExtending(r) \/ GetFails(r)
  BY DEF mheap_get_aligned
<1> HIDE DEF r
<1>3. CASE GetMisaligned(r)
  <2>1. /\ Now' = Now /\ len' = len /\ n_elts' = n_elts /\ live' = live
        /\ small_object_cache' = small_object_cache /\ bins' = bins /\ offsets' = offsets
        /\ replacement_index' = replacement_index
    BY <1>3 DEF GetMisaligned, NotGot, lists, cache, Now
  <2> QED BY <2>1 DEF AllocatorInv, Counted, NoneLost, SlotOffsets, CachedObjects
<1>4. CASE GetCached(r)
  BY <1>1, <1>4, StepGetCached
<1>5. CASE GetFromFreeList(r)
  <2> DEFINE f == SearchFreeList(n, A, of)
             C == Cut(f, n, A, of)
  <2>1. /\ of % 4 = 0 /\ f # NONE /\ Become(C.heap) /\ Got(r, C.offset) /\ len' = len
        /\ UNCHANGED cache
    BY <1>5 DEF GetFromFreeList
  <2>2. f \in DOMAIN link /\ Fits(f, n, A, of)
    BY <2>1, <1>1, Searched
  <2> HIDE DEF f
  <2>3. /\ HeapOK(C.heap, len) /\ IsHeap(C.heap)
        /\ Keeps(Now, C.heap, len, HeldIn(Now, len))
        /\ NewObject(C.heap, len, C.offset, n, A, of)
        /\ HeldIn(C.heap, len) \subseteq HeldIn(Now, len) \cup {C.offset}
    BY <2>1, <2>2, <1>1, CutHeap
  <2> HIDE DEF C
  <2>4. Now' = C.heap
    BY <2>1, <2>3, BecomeIs
  <2> QED BY <2>1, <2>3, <2>4, GotNew
<1>6. CASE GetByExtending(r)
  <2> DEFINE G == Extended(n, A, of)  l == ExtendEnd(n, A, of)  o == ExtendOffset(A, of)
  <2>1. /\ of % 4 = 0 /\ Room(n, A, of) /\ len' = l /\ Become(G) /\ Got(r, o)
        /\ UNCHANGED cache
    BY <1>6 DEF GetByExtending
  <2>2. /\ HeapOK(G, l) /\ IsHeap(G) /\ Keeps(Now, G, l, HeldIn(Now, len))
        /\ NewObject(G, l, o, n, A, of) /\ HeldIn(G, l) \subseteq HeldIn(Now, len) \cup {o}
    BY <2>1, <1>1, ExtendedHeap
  <2> HIDE DEF G, l, o
  <2>3. Now' = G
    BY <2>1, <2>2, BecomeIs
  <2> QED BY <2>1, <2>2, <2>3, GotNew
<1>7. CASE GetFails(r)
  <2> DEFINE F == FirstElt(Now)
  <2>1. /\ len' = (IF len < max_size THEN ExtendFrom ELSE len) /\ Become(F)
        /\ UNCHANGED <<n_elts, live, small_object_cache, bins, offsets, replacement_index>>
    BY <1>7 DEF GetFails, NotGot, cache
  <2>2. /\ IsHeap(F) /\ Whole(F, EndOf(len)) /\ HeapOK(F, EndOf(len))
        /\ \A x \in HeldIn(Now, len) : x \in DOMAIN F.elt
             /\ F.elt[x].n_user_data = elt[x].n_user_data /\ ~ F.elt[x].is_free
        /\ \A x \in DOMAIN F.elt : x < EndOf(len) =>
             x \in DOMAIN elt /\ x < len /\ F.elt[x].is_free = elt[x].is_free
    BY <1>1, FirstHeap
  <2>3. Now' = F
    BY <2>1, <2>2, BecomeIs
  <2>4. len' = EndOf(len) /\ len \in Nat /\ len <= EndOf(len)
    <3>1. len \in Nat /\ 0 < max_size
      BY <1>1, SizeAssumption DEF HeapOK
    <3> QED BY <3>1, <2>1 DEF ExtendFrom, EndOf
  <2> HIDE DEF F
  <2>5. Keeps(Now, Now', len', HeldIn(Now, len))
    <3>1. HeldIn(Now, len) \subseteq Nat /\ \A x \in HeldIn(Now, len) : x < len
      BY <1>1, NowIs DEF HeldIn, HeapOK, Whole, Ended, Tagged, Addresses
    <3>2. \A x \in HeldIn(Now, len) : x < len'
      BY <3>1, <2>4 DEF EndOf
    <3> QED BY <3>2, <2>2, <2>3, NowIs DEF Keeps, HeldIn
  <2>6. /\ ObjectsIn(Now, len, live) /\ CacheIn(Now, len, live, bins, offsets) /\ Counted
        /\ NoneLost /\ SlotOffsets
    BY DEF AllocatorInv
  <2>7. DOMAIN live \subseteq HeldIn(Now, len)
        /\ \A i \in Slots : bins[i] # 0 => offsets[i] \in HeldIn(Now, len)
    BY <2>6 DEF ObjectsIn, CacheIn
  <2>8. ObjectsIn(Now', len', live)
    BY <2>5, <2>6, <2>7, ObjectsKept
  <2>9. CacheIn(Now', len', live, bins, offsets)
    BY <2>5, <2>6, <2>7, CacheKept
  <2>10. HeapOK(Now', len')
    BY <2>2, <2>3, <2>4
  <2>11. Counted'
    BY <2>1, <2>6 DEF Counted
  <2>12. NoneLost'
    <3>1. HeldIn(Now', len') \subseteq HeldIn(Now, len)
      BY <2>2, <2>3, <2>4, NowIs DEF HeldIn
    <3> QED BY <3>1, <2>1, <2>6 DEF NoneLost, CachedObjects
  <2>13. SlotOffsets'
    BY <2>1, <2>6 DEF SlotOffsets
  <2> QED BY <2>1, <2>8, <2>9, <2>10, <2>11, <2>12, <2>13 DEF AllocatorInv
<1> QED BY <1>2, <1>3, <1>4, <1>5, <1>6, <1>7

(* An object of the user's goes.                                           *)
LEMMA PutCounts ==
  ASSUME Counted, NEW o \in DOMAIN live, Put(o)
  PROVE  /\ live' = Without(live, o) /\ DOMAIN live' = DOMAIN live \ {o}
         /\ IsFiniteSet(DOMAIN live') /\ n_elts' = Cardinality(DOMAIN live')
         /\ small_object_cache' = small_object_cache
<1>1. live' = Without(live, o) /\ n_elts' = n_elts - 1 /\ small_object_cache' = small_object_cache
  BY DEF Put, Restrict, Without
<1>2. DOMAIN live' = DOMAIN live \ {o}
  BY <1>1 DEF Without
<1>3. /\ IsFiniteSet(DOMAIN live \ {o})
      /\ Cardinality(DOMAIN live \ {o}) = Cardinality(DOMAIN live) - 1
  BY FS_RemoveElement DEF Counted
<1> QED BY <1>1, <1>2, <1>3 DEF Counted

(* The offset of an element.                                               *)
LEMMA HeldOffsets ==
  ASSUME NEW H, NEW l, HeapOK(H, l), NEW o \in DOMAIN H.elt, o < l
  PROVE  o \in Offsets
<1> DEFINE M == Max({max_size, MHEAP_ELT_OVERHEAD_BYTES})
<1>1. o \in Nat /\ o >= 8 /\ o % 4 = 0 /\ o <= max_size
  <2>1. o \in Nat /\ o >= 8 /\ o % 4 = 0 /\ l <= max_size
    BY ElementTags
  <2>2. l \in Nat /\ max_size \in Int
    BY SizeAssumption DEF HeapOK
  <2> QED BY <2>1, <2>2
<1>2. max_size \in Int /\ M = IF max_size <= 8 THEN 8 ELSE max_size
  BY SizeAssumption, MaxOfTwo
<1> HIDE DEF M
<1>3. o \in 8 .. M
  BY <1>1, <1>2
<1> QED BY <1>1, <1>3 DEF Offsets, M

(* It goes into slot i, in a heap where it is still held.                  *)
LEMMA PutSlot ==
  ASSUME AllocatorInv, NEW o \in DOMAIN live, NEW i \in Slots, PutInto(o, i), GoesToCache(o)
  PROVE  /\ CacheIn(Now, len, Without(live, o), bins', offsets')
         /\ offsets'[i] = o /\ bins' \in [Slots -> 0 .. CACHE_BINS] /\ bins'[i] # 0
         /\ SlotOffsets'
         /\ \A j \in Slots : j # i => bins'[j] = bins[j] /\ offsets'[j] = offsets[j]
<1> DEFINE k == user_data_size_to_bin_index(mheap_elt_data_bytes(Now, o))
<1>1. /\ HeapOK(Now, len) /\ ObjectsIn(Now, len, live)
      /\ CacheIn(Now, len, live, bins, offsets)
  BY DEF AllocatorInv
<1>2. /\ bins' = [bins EXCEPT ![i] = 1 + k] /\ offsets' = [offsets EXCEPT ![i] = o]
      /\ k < CACHE_BINS
  BY DEF PutInto, GoesToCache
<1>3. o \in HeldIn(Now, len) /\ o \in DOMAIN elt /\ o < len
  BY <1>1, NowIs DEF ObjectsIn, HeldIn
<1>4. o \in Nat /\ elt[o].n_user_data \in Nat /\ 4 * elt[o].n_user_data \in 8 .. MaxBytes
  BY <1>1, <1>3, NowIs, ElementTags
<1>5. mheap_elt_data_bytes(Now, o) = elt[o].n_user_data * 4
  BY NextElt
<1>6. k = BinAt(Now.elt)[o] /\ k \in Nat
  <2>1. elt[o].n_user_data * 4 \in 0 .. MaxBytes
    BY <1>4, Limits
  <2>2. user_data_size_to_bin_index(elt[o].n_user_data * 4) \in Bins
    BY <2>1, BinOf
  <2>3. k \in Bins
    BY <2>2, <1>5
  <2>4. k = BinAt(elt)[o]
    BY <1>3, <1>5 DEF BinAt
  <2> HIDE DEF k
  <2> QED BY <2>3, <2>4, NowIs DEF Bins
<1> HIDE DEF k
<1>7. 1 + k \in 1 .. CACHE_BINS
  BY <1>2, <1>6, BinAssumption, SmallBins
<1>8. DOMAIN Without(live, o) = DOMAIN live \ {o}
  BY DEF Without
<1>9. CacheIn(Now, len, Without(live, o), bins, offsets)
  <2>1. \A j \in Slots : bins[j] # 0 => offsets[j] \notin DOMAIN Without(live, o)
    BY <1>1, <1>8 DEF CacheIn
  <2> QED BY <2>1, <1>1, CacheAlike
<1>10. \A j \in Slots : j # i /\ bins[j] # 0 => offsets[j] # o
  BY <1>1 DEF CacheIn
<1>11. CacheIn(Now, len, Without(live, o), bins', offsets')
  <2>1. o \in Int /\ o \notin DOMAIN Without(live, o)
    BY <1>4, <1>8
  <2>2. CacheIn(Now, len, Without(live, o), [bins EXCEPT ![i] = 1 + k], [offsets EXCEPT ![i] = o])
    BY <2>1, <1>3, <1>6, <1>7, <1>9, <1>10, CacheFilled
  <2> QED BY <2>2, <1>2
<1>12. bins \in [Slots -> 0 .. CACHE_BINS] /\ offsets \in [Slots -> Int]
  BY <1>1 DEF CacheIn
<1>13. /\ offsets'[i] = o
       /\ \A j \in Slots : j # i => bins'[j] = bins[j] /\ offsets'[j] = offsets[j]
  BY <1>2, <1>12
<1>14. bins' \in [Slots -> 0 .. CACHE_BINS] /\ bins'[i] # 0
  BY <1>2, <1>7, <1>11, <1>12 DEF CacheIn
<1>15. SlotOffsets'
  <2>1. o \in Offsets
    BY <1>1, <1>3, NowIs, HeldOffsets
  <2> QED BY <2>1, <1>13 DEF AllocatorInv, SlotOffsets
<1> QED BY <1>11, <1>13, <1>14, <1>15

LEMMA StepPut ==
  ASSUME AllocatorInv, NEW o \in DOMAIN live, mheap_put(o)
  PROVE  AllocatorInv'
<1>1. /\ HeapOK(Now, len) /\ ObjectsIn(Now, len, live)
      /\ CacheIn(Now, len, live, bins, offsets) /\ Counted /\ NoneLost /\ SlotOffsets
  BY DEF AllocatorInv
<1>2. o \in HeldIn(Now, len) /\ DOMAIN live \subseteq HeldIn(Now, len)
  BY <1>1 DEF ObjectsIn
<1>3. bins \in [Slots -> 0 .. CACHE_BINS] /\ Slots \subseteq Nat
  BY <1>1 DEF CacheIn, Slots
<1>4. Put(o)
  BY DEF mheap_put, PutCached, PutReplacing, PutFreed
<1>5. /\ live' = Without(live, o) /\ DOMAIN live' = DOMAIN live \ {o}
      /\ IsFiniteSet(DOMAIN live') /\ n_elts' = Cardinality(DOMAIN live')
      /\ small_object_cache' = small_object_cache
  BY <1>1, <1>4, PutCounts
<1>6. ObjectsIn(Now, len, live')
  BY <1>1, <1>5, ObjectsWithout
<1>7. CASE PutCached(o)
  <2> DEFINE i == Min(FreeSlots)
  <2>1. /\ GoesToCache(o) /\ FreeSlots # {} /\ PutInto(o, i)
        /\ UNCHANGED <<len, elt, link, first, replacement_index>>
    BY <1>7 DEF PutCached, lists
  <2>2. i \in Slots
    <3>1. FreeSlots \in SUBSET Nat /\ FreeSlots \subseteq Slots
      BY <1>3 DEF FreeSlots
    <3> QED BY <3>1, <2>1, MinOf
  <2> HIDE DEF i
  <2>3. /\ CacheIn(Now, len, live', bins', offsets') /\ SlotOffsets'
        /\ offsets'[i] = o /\ bins'[i] # 0 /\ DOMAIN bins' = Slots
        /\ \A j \in Slots : j # i => bins'[j] = bins[j] /\ offsets'[j] = offsets[j]
    BY <2>1, <2>2, <1>5, PutSlot
  <2>4. Now' = Now
    BY <2>1 DEF Now
  <2>5. Counted'
    BY <2>1, <1>1, <1>5 DEF Counted, GoesToCache
  <2>6. bins[i] = 0
    <3>1. FreeSlots \in SUBSET Nat
      BY <1>3 DEF FreeSlots
    <3>2. i \in FreeSlots
      BY <3>1, <2>1, MinOf DEF i
    <3> QED BY <3>2 DEF FreeSlots
  <2>7. NoneLost'
    <3>1. o \in CachedObjects'
      BY <2>2, <2>3 DEF CachedObjects
    <3>2. CachedObjects \subseteq CachedObjects'
      <4> SUFFICES ASSUME NEW j \in Slots, bins[j] # 0 PROVE offsets[j] \in CachedObjects'
        BY <1>1, CachedIn
      <4>1. bins'[j] # 0 /\ offsets'[j] = offsets[j]
        BY <2>3, <2>6
      <4> QED BY <4>1, <2>3 DEF CachedObjects
    <3>3. HeldIn(Now', len') = HeldIn(Now, len)
      BY <2>1, <2>4
    <3> QED BY <3>1, <3>2, <3>3, <1>1, <1>5 DEF NoneLost
  <2> QED BY <2>1, <2>3, <2>4, <2>5, <2>7, <1>1, <1>6 DEF AllocatorInv
<1>8. CASE PutReplacing(o)
  <2> DEFINE i == replacement_index  x == offsets[i]
  <2>1. /\ GoesToCache(o) /\ FreeSlots = {} /\ PutInto(o, i) /\ Free(x)
        /\ replacement_index' = (replacement_index + 1) % CACHE_SIZE
    BY <1>8 DEF PutReplacing
  <2>2. i \in Slots
    BY <1>1 DEF Counted
  <2>3. bins[i] # 0
    BY <2>1, <2>2, <1>3 DEF FreeSlots
  <2>4. x \in HeldIn(Now, len) /\ x \notin DOMAIN live
        /\ \A j \in Slots : j # i /\ bins[j] # 0 => offsets[j] # x /\ offsets[j] \in HeldIn(Now, len)
    BY <2>2, <2>3, <1>1 DEF CacheIn
  <2> HIDE DEF i, x
  <2>5. /\ HeapOK(Now', len') /\ Keeps(Now, Now', len', HeldIn(Now, len) \ {x})
        /\ HeldIn(Now', len') \subseteq HeldIn(Now, len) \ {x}
    BY <2>1, <2>4, <1>1, FreedHeap
  <2>6. /\ CacheIn(Now, len, live', bins', offsets') /\ offsets'[i] = o
        /\ SlotOffsets' /\ bins'[i] # 0 /\ DOMAIN bins' = Slots
        /\ \A j \in Slots : j # i => bins'[j] = bins[j] /\ offsets'[j] = offsets[j]
    BY <2>1, <2>2, <1>5, PutSlot
  <2>7. \A j \in Slots : bins'[j] # 0 => offsets'[j] \in HeldIn(Now, len) \ {x}
    <3> SUFFICES ASSUME NEW j \in Slots, bins'[j] # 0
                 PROVE  offsets'[j] \in HeldIn(Now, len) \ {x}
      OBVIOUS
    <3>1. CASE j = i
      BY <3>1, <2>4, <2>6, <1>2
    <3>2. CASE j # i
      BY <3>2, <2>4, <2>6
    <3> QED BY <3>1, <3>2
  <2>8. CacheIn(Now', len', live', bins', offsets')
    BY <2>5, <2>6, <2>7, CacheKept
  <2>9. ObjectsIn(Now', len', live')
    <3>1. DOMAIN live' \subseteq HeldIn(Now, len) \ {x}
      BY <2>4, <1>2, <1>5
    <3> QED BY <3>1, <2>5, <1>6, ObjectsKept
  <2>10. Counted'
    <3>1. replacement_index' \in Slots
      <4>1. CACHE_SIZE \in Nat \ {0} /\ replacement_index + 1 \in Int
        BY <1>1, BinAssumption DEF Counted, Slots
      <4>2. (replacement_index + 1) % CACHE_SIZE \in 0 .. CACHE_SIZE - 1
        BY <4>1, DivMod
      <4> QED BY <4>2, <2>1 DEF Slots
    <3> QED BY <3>1, <2>1, <1>5 DEF Counted, GoesToCache
  <2>11. NoneLost'
    <3>1. o \in CachedObjects'
      BY <2>2, <2>6 DEF CachedObjects
    <3>2. CachedObjects \subseteq CachedObjects' \cup {x}
      <4> SUFFICES ASSUME NEW j \in Slots, bins[j] # 0, offsets[j] # x
                   PROVE  offsets[j] \in CachedObjects'
        BY <1>1, CachedIn
      <4>1. bins'[j] # 0 /\ offsets'[j] = offsets[j]
        BY <2>6 DEF x
      <4> QED BY <4>1, <2>6 DEF CachedObjects
    <3> QED BY <3>1, <3>2, <2>5, <1>1, <1>5 DEF NoneLost
  <2> QED BY <2>5, <2>6, <2>8, <2>9, <2>10, <2>11 DEF AllocatorInv
<1>9. CASE PutFreed(o)
  <2>1. Free(o) /\ UNCHANGED <<bins, offsets, replacement_index>>
    BY <1>9 DEF PutFreed, cache
  <2>2. /\ HeapOK(Now', len') /\ Keeps(Now, Now', len', HeldIn(Now, len) \ {o})
        /\ HeldIn(Now', len') \subseteq HeldIn(Now, len) \ {o}
    BY <2>1, <1>1, <1>2, FreedHeap
  <2>3. ObjectsIn(Now', len', live')
    <3>1. DOMAIN live' \subseteq HeldIn(Now, len) \ {o}
      BY <1>2, <1>5
    <3> QED BY <3>1, <2>2, <1>6, ObjectsKept
  <2>4. \A j \in Slots : bins[j] # 0 =>
          offsets[j] \in HeldIn(Now, len) \ {o} /\ offsets[j] \notin DOMAIN live'
    BY <1>1, <1>5 DEF CacheIn
  <2>5. CacheIn(Now', len', live', bins, offsets)
    <3>1. CacheIn(Now, len, live', bins, offsets)
      BY <2>4, <1>1, CacheAlike
    <3> QED BY <3>1, <2>2, <2>4, CacheKept
  <2>6. Counted'
    BY <2>1, <1>1, <1>5 DEF Counted
  <2>7. NoneLost'
    <3>1. CachedObjects' = CachedObjects
      BY <2>1 DEF CachedObjects
    <3> QED BY <3>1, <2>2, <1>1, <1>5 DEF NoneLost
  <2>8. SlotOffsets'
    BY <2>1, <1>1 DEF SlotOffsets
  <2> QED BY <2>1, <2>2, <2>3, <2>5, <2>6, <2>7, <2>8 DEF AllocatorInv
<1> QED BY <1>7, <1>8, <1>9 DEF mheap_put

(* The invariant holds in every reachable state: the tags, the free lists, *)
(* the objects and the cache agree between any two calls of mheap_get_     *)
(* aligned and mheap_put.                                                  *)
THEOREM AllocatorInvariant == Spec => []AllocatorInv
<1>1. Init => AllocatorInv
  BY AllocatorInit
<1>2. AllocatorInv /\ [Next]_vars => AllocatorInv'
  <2> SUFFICES ASSUME AllocatorInv, [Next]_vars PROVE AllocatorInv'
    OBVIOUS
  <2>1. CASE Get
    BY <2>1, StepGet DEF Get
  <2>2. CASE PutOne
    BY <2>2, StepPut DEF PutOne
  <2>3. CASE UNCHANGED vars
    <3>1. /\ Now' = Now /\ len' = len /\ live' = live /\ bins' = bins /\ offsets' = offsets
          /\ n_elts' = n_elts /\ replacement_index' = replacement_index
          /\ small_object_cache' = small_object_cache
      BY <2>3 DEF vars, Now
    <3> QED BY <3>1 DEF AllocatorInv, Counted, NoneLost, SlotOffsets, CachedObjects
  <2> QED BY <2>1, <2>2, <2>3 DEF Next
<1> QED BY <1>1, <1>2, PTL DEF Spec

-----------------------------------------------------------------------------
(* What the invariant says of the properties.                              *)

(* The objects of the user and of the cache are held elements.             *)
LEMMA ObjectsHeld ==
  ASSUME AllocatorInv
  PROVE  /\ DOMAIN bins = Slots
         /\ DOMAIN live \cup CachedObjects \subseteq HeldIn(Now, len)
         /\ CachedObjects \cap DOMAIN live = {}
<1>1. /\ ObjectsIn(Now, len, live) /\ CacheIn(Now, len, live, bins, offsets)
  BY DEF AllocatorInv
<1>2. DOMAIN bins = Slots
  BY <1>1 DEF CacheIn
<1>3. \A i \in Slots : bins[i] # 0 => offsets[i] \in HeldIn(Now, len) /\ offsets[i] \notin DOMAIN live
  BY <1>1 DEF CacheIn
<1>4. DOMAIN live \subseteq HeldIn(Now, len)
  BY <1>1 DEF ObjectsIn
<1> QED BY <1>2, <1>3, <1>4 DEF CachedObjects

LEMMA HeldTags ==
  ASSUME AllocatorInv, NEW o \in HeldIn(Now, len)
  PROVE  /\ o \in DOMAIN elt /\ o \in Nat /\ o < len /\ ~ elt[o].is_free /\ Fine(elt, o)
         /\ elt[o].n_user_data \in Nat /\ elt[o].n_user_data # INVALID
         /\ 4 * elt[o].n_user_data \in 8 .. MaxBytes
         /\ mheap_elt_data_bytes(Now, o) = 4 * elt[o].n_user_data
<1>1. HeapOK(Now, len) /\ o \in DOMAIN elt /\ o < len /\ ~ elt[o].is_free
  BY NowIs DEF AllocatorInv, HeldIn
<1>2. /\ o \in Nat /\ Fine(elt, o) /\ elt[o].n_user_data \in Nat /\ elt[o].n_user_data # INVALID
      /\ 4 * elt[o].n_user_data \in 8 .. MaxBytes
  BY <1>1, NowIs, ElementTags
<1>3. mheap_elt_data_bytes(Now, o) = 4 * elt[o].n_user_data
  BY <1>2, NextElt
<1> QED BY <1>1, <1>2, <1>3

(* mheap_put never reaches one of its os_panic calls: the object it frees, *)
(* the user's or the one it pushes out of the small object cache, has a    *)
(* tag that agrees with the next one, and is not free.                     *)
THEOREM PutsNeverPanic == Spec => []PutNeverPanics
<1>1. AllocatorInv => PutNeverPanics
  <2> SUFFICES ASSUME AllocatorInv, NEW o \in DOMAIN live \cup CachedObjects
               PROVE  LET n == mheap_next_elt(Now, o) IN
                      /\ n \in DOMAIN elt
                      /\ elt[o].n_user_data = elt[n].prev_n_user_data
                      /\ elt[o].is_free = elt[n].prev_is_free
                      /\ ~ elt[o].is_free
    BY DEF PutNeverPanics
  <2>1. Fine(elt, o) /\ ~ elt[o].is_free
    BY ObjectsHeld, HeldTags
  <2> QED BY <2>1, NextElt DEF Fine
<1> QED BY <1>1, AllocatorInvariant, PTL

(* Distinct slots of the cache hold distinct objects.                      *)
LEMMA CacheCounts ==
  ASSUME AllocatorInv
  PROVE  Cardinality(CachedObjects) = Cardinality({i \in DOMAIN bins : bins[i] # 0})
<1> DEFINE used == {i \in DOMAIN bins : bins[i] # 0}
           f == [i \in used |-> offsets[i]]
<1>1. used \subseteq Slots /\ IsFiniteSet(used)
  <2>1. used \subseteq Slots
    BY ObjectsHeld
  <2>2. IsFiniteSet(Slots)
    BY FS_Interval, BinAssumption DEF Slots
  <2> HIDE DEF used
  <2> QED BY <2>1, <2>2, FS_Subset
<1>2. \A i, j \in used : offsets[i] = offsets[j] => i = j
  BY <1>1 DEF AllocatorInv, CacheIn
<1>3. CachedObjects = {offsets[i] : i \in used}
  BY DEF CachedObjects
<1> HIDE DEF used
<1>4. f \in Surjection(used, CachedObjects) /\ f \in Injection(used, CachedObjects)
  BY <1>2, <1>3 DEF Surjection, Injection, IsInjective
<1> HIDE DEF f
<1>5. Cardinality(CachedObjects) = Cardinality(used)
  BY <1>1, <1>4, FS_Surjection
<1> QED BY <1>5 DEF used

(* Every object that mheap_get_aligned gave out stays one allocated        *)
(* element of the heap, as long and as aligned as it was asked for, until  *)
(* mheap_put takes it; the cache holds other elements, each once.          *)
THEOREM ObjectsStayAsAsked == Spec => []ObjectsAsAsked
<1>1. AllocatorInv => ObjectsAsAsked
  <2> SUFFICES ASSUME AllocatorInv PROVE ObjectsAsAsked
    OBVIOUS
  <2>1. ASSUME NEW o \in DOMAIN live
        PROVE  /\ o \in Elements /\ ~ elt[o].is_free
               /\ mheap_elt_data_bytes(Now, o) >= live[o].n
               /\ (o + live[o].align_offset) % live[o].align = 0
    <3>1. /\ o \in DOMAIN elt /\ o \in Nat /\ o < len /\ ~ elt[o].is_free
          /\ elt[o].n_user_data # INVALID
          /\ mheap_elt_data_bytes(Now, o) = 4 * elt[o].n_user_data
      BY <2>1, ObjectsHeld, HeldTags
    <3>2. 4 * elt[o].n_user_data >= live[o].n /\ (o + live[o].align_offset) % live[o].align = 0
      BY <2>1, NowIs DEF AllocatorInv, ObjectsIn
    <3>3. o \in Elements
      BY <3>1 DEF Elements
    <3> QED BY <3>1, <3>2, <3>3
  <2>2. CachedObjects \cap DOMAIN live = {}
    BY ObjectsHeld
  <2>3. n_elts = Cardinality(DOMAIN live)
    BY DEF AllocatorInv, Counted
  <2> QED BY <2>1, <2>2, <2>3, CacheCounts DEF ObjectsAsAsked
<1> QED BY <1>1, AllocatorInvariant, PTL

(* A refused request without alignment, piece by piece: no free element,   *)
(* no cached object and no room at the end would have served it.           *)
LEMMA NoneLargeEnough ==
  ASSUME AllocatorInv, NEW n, IsRequest(n, 4, 0),
         SearchFreeList(n, 4, 0) = NONE, ~ Room(n, 4, 0)
  PROVE  /\ \A o \in FreeElements : mheap_elt_data_bytes(Now, o) < n
         /\ ExtendFrom + n + MHEAP_ELT_OVERHEAD_BYTES > max_size
<1>1. HeapOK(Now, len)
  BY DEF AllocatorInv
<1>2. /\ ExtendFrom = EndOf(len) /\ EndOf(len) \in Nat /\ EndOf(len) >= 8
      /\ ExtendOffset(4, 0) = ExtendFrom
  BY <1>1, ExtendPlaced
<1>3. /\ n \in 8 .. MaxBytes /\ n \in Nat /\ n >= 8 /\ n % 4 = 0
      /\ max_size \in Nat /\ len \in Nat /\ max_size > 0
  BY <1>1, SizeAssumption, Limits DEF IsRequest, HeapOK
<1>4. EndOf(len) + n + 8 > max_size
  BY <1>2, <1>3 DEF Room, ExtendEnd, EndOf
<1>5. ASSUME NEW o \in FreeElements, mheap_elt_data_bytes(Now, o) >= n
      PROVE  FALSE
  <2>1. /\ len # 0 /\ o \in DOMAIN elt /\ elt[o].n_user_data # INVALID /\ elt[o].is_free
        /\ mheap_elt_data_bytes(Now, o) = elt[o].n_user_data * 4
    BY NextElt DEF FreeElements, Elements
  <2>2. /\ Tagged(elt) /\ o \in Nat /\ o >= 8 /\ o <= EndOf(len) /\ EndOf(len) = len
        /\ elt[o].n_user_data \in Int
        /\ DOMAIN link = {x \in DOMAIN elt : x < EndOf(len) /\ elt[x].is_free}
        /\ len >= 8 /\ (len > 8 => elt[len].n_user_data = INVALID)
        /\ (len <= 8 /\ elt[8].is_free => 16 + 4 * elt[8].n_user_data <= max_size)
    <3>1. Tagged(elt) /\ o <= EndOf(len) /\ EndOf(len) = len
          /\ DOMAIN link = {x \in DOMAIN elt : x < EndOf(len) /\ elt[x].is_free}
          /\ (len = 0 \/ len >= 8) /\ (len > 8 => elt[len].n_user_data = INVALID)
          /\ (len <= 8 /\ elt[8].is_free => 16 + 4 * elt[8].n_user_data <= max_size)
      <4>1. /\ Whole(Now, EndOf(len)) /\ (len = 0 \/ len >= 8) /\ EndOf(len) = len
            /\ (len > 8 => elt[len].n_user_data = INVALID)
            /\ (len <= 8 /\ elt[8].is_free => 16 + 4 * elt[8].n_user_data <= max_size)
        BY <1>1, <2>1, NowIs DEF HeapOK, EndOf
      <4> QED BY <4>1, <2>1, NowIs DEF Whole, Ended
    <3>2. o \in Nat /\ o >= 8 /\ elt[o].n_user_data \in Int
      BY <3>1, <2>1 DEF Tagged, Addresses, Tag
    <3> QED BY <3>1, <3>2, <2>1
  <2>3. CASE len = 8
    <3>1. o = 8
      BY <2>2, <2>3
    <3> QED BY <3>1, <2>1, <2>2, <2>3, <1>3, <1>4, <1>5
  <2>4. CASE len # 8
    <3>1. o < len /\ o \in DOMAIN link
      BY <2>1, <2>2, <2>4, <1>3
    <3>2. o % 4 = 0 /\ 4 * elt[o].n_user_data \in 8 .. MaxBytes
      BY <3>1, <2>1, <1>1, NowIs, ElementTags
    <3> DEFINE k == elt[o].n_user_data * 4
    <3>3. k \in 8 .. MaxBytes /\ k % 4 = 0 /\ k >= n /\ mheap_elt_data_bytes(Now, o) = k
      BY <3>2, <2>1, <2>2, <1>5
    <3>4. BinAt(elt)[o] = user_data_size_to_bin_index(k)
      BY <2>1 DEF BinAt
    <3> HIDE DEF k
    <3>5. n \in 0 .. MaxBytes /\ k \in 0 .. MaxBytes /\ n <= k
      BY <3>3, <1>3
    <3>6. user_data_size_to_bin_index(n) <= user_data_size_to_bin_index(k)
          /\ user_data_size_to_bin_index(k) \in Bins
      BY <3>5, BinMonotone, BinOf
    <3>7. user_data_size_to_bin_index(n) \in Int /\ user_data_size_to_bin_index(k) \in Int
      <4>1. Bins \subseteq Int
        BY SmallBins DEF Bins
      <4> QED BY <4>1, <3>5, BinOf
    <3>8. BinAt(elt)[o] \in SearchedBins(n)
      BY <3>4, <3>6, <3>7 DEF SearchedBins
    <3>9. ~ Fits(o, n, 4, 0)
      BY <3>1, <3>8, <1>1, Searched
    <3>10. o + k \in Nat /\ (o + k) % 4 = 0 /\ o + n <= o + k
      BY <3>2, <3>3, <3>5, <2>2, <1>3
    <3>11. Place(o, o + k, n, 4, 0) >= o /\ Place(o, o + k, n, 4, 0) + n <= o + k
      BY <3>10, <3>2, <2>2, <1>3, PlacedWords
    <3> QED BY <3>3, <3>9, <3>11 DEF Fits
  <2> QED BY <2>3, <2>4
<1>6. \A o \in FreeElements : mheap_elt_data_bytes(Now, o) < n
  <2> SUFFICES ASSUME NEW o \in FreeElements PROVE mheap_elt_data_bytes(Now, o) < n
    OBVIOUS
  <2>1. o \in DOMAIN elt /\ Tagged(elt)
    BY <1>1, NowIs DEF FreeElements, Elements, HeapOK, Whole, Ended
  <2>2. elt[o].n_user_data \in Int /\ mheap_elt_data_bytes(Now, o) = elt[o].n_user_data * 4
    BY <2>1, NextElt DEF Tagged, Tag
  <2> QED BY <2>2, <1>3, <1>5
<1> QED BY <1>2, <1>4, <1>6

LEMMA NoneCached ==
  ASSUME AllocatorInv, NEW n, IsRequest(n, 4, 0), Cached(n, 4, 0) = NONE
  PROVE  \A o \in CachedObjects : \/ mheap_elt_data_bytes(Now, o) # n
                                  \/ user_data_size_to_bin_index(n) >= CACHE_BINS
<1> SUFFICES ASSUME NEW o \in CachedObjects, mheap_elt_data_bytes(Now, o) = n,
                    ~ (user_data_size_to_bin_index(n) >= CACHE_BINS)
             PROVE  FALSE
  OBVIOUS
<1> DEFINE b == user_data_size_to_bin_index(n)
           mask == {i \in DOMAIN bins : bins[i] = b + 1}
<1>1. PICK i \in Slots : bins[i] # 0 /\ o = offsets[i] /\ i \in DOMAIN bins
  BY ObjectsHeld DEF CachedObjects
<1>2. /\ bins[i] = 1 + BinAt(elt)[o] /\ o \in HeldIn(Now, len)
      /\ bins[i] \in 0 .. CACHE_BINS
  BY <1>1, NowIs DEF AllocatorInv, CacheIn
<1>3. o \in DOMAIN elt /\ elt[o].n_user_data \in Nat /\ n = elt[o].n_user_data * 4
  BY <1>2, HeldTags
<1>4. BinAt(elt)[o] = b
  BY <1>3 DEF BinAt
<1>5. b \in Int /\ CACHE_BINS \in Int
  <2>1. Bins \subseteq Int
    BY SmallBins DEF Bins
  <2>2. n \in 0 .. MaxBytes
    BY Limits DEF IsRequest
  <2>3. CACHE_BINS \in Int
    BY SmallBins, BinAssumption
  <2> QED BY <2>1, <2>2, <2>3, BinOf
<1>6. i \in mask
  BY <1>1, <1>2, <1>4, <1>5
<1>7. small_object_cache
  BY <1>1 DEF AllocatorInv, Counted
<1>8. mask \subseteq Nat
  BY ObjectsHeld DEF Slots
<1>9. b < CACHE_BINS
  BY <1>5
<1> HIDE DEF mask
<1>10. Min(mask) \in Nat
  BY <1>6, <1>8, MinOf
<1>11. Cached(n, 4, 0) = Min(mask)
  <2>1. mask # {}
    BY <1>6
  <2> QED BY <2>1, <1>7, <1>9 DEF Cached, mask
<1> QED BY <1>10, <1>11 DEF NONE

(* mheap_get refuses a request without alignment only when it must: no     *)
(* free element is large enough, no cached object has its size and the end *)
(* of the heap has no room.  First fit over the bins of the size and above *)
(* misses no element, since freed neighbours are always combined.          *)
THEOREM RefusalsOnlyWhenFull == Spec => []RefusedOnlyWhenFull
<1>1. AllocatorInv => RefusedOnlyWhenFull
  <2> SUFFICES ASSUME AllocatorInv, NEW size \in Sizes
               PROVE  LET r == NormalRequest(size, 0, 0) IN
                      Refused(r) =>
                        /\ \A o \in FreeElements : mheap_elt_data_bytes(Now, o) < r.n
                        /\ \A o \in CachedObjects :
                             \/ mheap_elt_data_bytes(Now, o) # r.n
                             \/ user_data_size_to_bin_index(r.n) >= CACHE_BINS
                        /\ ExtendFrom + r.n + MHEAP_ELT_OVERHEAD_BYTES > max_size
    BY DEF RefusedOnlyWhenFull
  <2> DEFINE r == NormalRequest(size, 0, 0)  n == r.n
  <2>1. IsRequest(n, 4, 0) /\ r.align = 4 /\ r.align_offset = 0
    <3>1. size \in 0 .. INVALID /\ 0 \in 0 .. INVALID /\ 0 \in Nat
      BY SizeAssumption, Limits
    <3> QED BY <3>1, Requests
  <2> HIDE DEF r
  <2>2. SUFFICES ASSUME Refused(r)
                 PROVE  /\ \A o \in FreeElements : mheap_elt_data_bytes(Now, o) < n
                        /\ \A o \in CachedObjects :
                             \/ mheap_elt_data_bytes(Now, o) # n
                             \/ user_data_size_to_bin_index(n) >= CACHE_BINS
                        /\ ExtendFrom + n + MHEAP_ELT_OVERHEAD_BYTES > max_size
    BY DEF r
  <2>3. SearchFreeList(n, 4, 0) = NONE /\ ~ Room(n, 4, 0) /\ Cached(n, 4, 0) = NONE
    BY <2>1, <2>2 DEF Refused
  <2> HIDE DEF n
  <2> QED BY <2>1, <2>3, NoneLargeEnough, NoneCached
<1> QED BY <1>1, AllocatorInvariant, PTL

-----------------------------------------------------------------------------
(* What mheap_validate checks.                                             *)

(* The elements that it walks.                                             *)
LEMMA TheElements ==
  ASSUME AllocatorInv, len > MHEAP_ELT_OVERHEAD_BYTES
  PROVE  /\ Elements = {o \in DOMAIN elt : o < len} /\ len \in DOMAIN elt
         /\ Elements = HeldIn(Now, len) \cup DOMAIN link
         /\ HeldIn(Now, len) \cap DOMAIN link = {}
         /\ FreeElements = DOMAIN link
         /\ IsFiniteSet(Elements)
         /\ Listed(link, first, BinAt(elt))
<1>1. HeapOK(Now, len) /\ len \in Nat /\ len > 8 /\ EndOf(len) = len
  BY DEF AllocatorInv, HeapOK, EndOf
<1>2. /\ Tagged(elt) /\ UpTo(elt, len) /\ \A x \in DOMAIN elt : x <= len
      /\ Listed(link, first, BinAt(elt))
      /\ DOMAIN link = {x \in DOMAIN elt : x < len /\ elt[x].is_free}
      /\ elt[len].n_user_data = INVALID
  BY <1>1, NowIs DEF HeapOK, Whole, Ended
<1>3. len \in DOMAIN elt /\ DOMAIN elt \subseteq Nat
  BY <1>2 DEF UpTo, Tagged, Addresses
<1>4. \A o \in DOMAIN elt : o < len => elt[o].n_user_data # INVALID
  BY <1>1, NowIs, ElementTags
<1>5. Elements = {o \in DOMAIN elt : o < len}
  BY <1>1, <1>2, <1>3, <1>4 DEF Elements
<1>6. HeldIn(Now, len) = {o \in DOMAIN elt : o < len /\ ~ elt[o].is_free}
  BY NowIs DEF HeldIn
<1>7. IsFiniteSet(Elements)
  <2>1. \A o \in Elements : o \in 0 .. len
    BY <1>1, <1>3, <1>5
  <2>2. IsFiniteSet(0 .. len)
    BY <1>1, FS_Interval
  <2>3. Elements \subseteq 0 .. len
    BY <2>1
  <2> QED BY <2>2, <2>3, FS_Subset
<1>8. FreeElements = DOMAIN link
  BY <1>2, <1>5 DEF FreeElements
<1> QED BY <1>2, <1>3, <1>5, <1>6, <1>7, <1>8

(* Types.                                                                  *)
LEMMA Typed ==
  ASSUME AllocatorInv
  PROVE  TypeOK
<1> DEFINE M == Max({max_size, MHEAP_ELT_OVERHEAD_BYTES})
<1>1. HeapOK(Now, len) /\ CacheIn(Now, len, live, bins, offsets) /\ Counted /\ SlotOffsets
  BY DEF AllocatorInv
<1>2. /\ max_size \in Int /\ M = (IF max_size >= 8 THEN max_size ELSE 8)
      /\ Offsets = {o \in 8 .. M : o % 4 = 0}
  BY SizeAssumption, MaxOfTwo DEF Offsets
<1> HIDE DEF M
<1>3. /\ Tagged(elt) /\ UpTo(elt, EndOf(len)) /\ \A x \in DOMAIN elt : x <= EndOf(len)
      /\ Listed(link, first, BinAt(elt))
      /\ DOMAIN link = {x \in DOMAIN elt : x < EndOf(len) /\ elt[x].is_free}
      /\ len \in Nat /\ (len <= max_size \/ len = 8) /\ (len = 0 \/ len >= 8)
  BY <1>1, NowIs DEF HeapOK, Whole, Ended
<1>4. EndOf(len) \in DOMAIN elt /\ EndOf(len) \in 8 .. M /\ EndOf(len) = (IF len = 0 THEN 8 ELSE len)
  BY <1>2, <1>3 DEF EndOf, UpTo
<1>5. DOMAIN elt \subseteq Offsets
  <2> SUFFICES ASSUME NEW x \in DOMAIN elt PROVE x \in Offsets
    OBVIOUS
  <2>1. x \in Nat /\ x >= 8 /\ x % 4 = 0 /\ x <= EndOf(len)
    BY <1>3 DEF Tagged, Addresses
  <2>2. x \in 8 .. M
    <3>1. M \in Int
      BY <1>2
    <3>2. EndOf(len) <= M /\ EndOf(len) \in Int
      BY <3>1, <1>4
    <3> QED BY <2>1, <3>1, <3>2
  <2>3. x % 4 = 0
    BY <2>1
  <2> QED BY <2>2, <2>3, <1>2
<1>6. len \in Offsets \cup {0}
  BY <1>4, <1>5
<1>7. DOMAIN link \subseteq DOMAIN elt
  BY <1>3
<1>8. \A o \in DOMAIN link : link[o].next \in Offsets \cup {NONE} /\ link[o].prev \in Offsets \cup {NONE}
  BY <1>3, <1>5, <1>7 DEF Listed, Linked
<1>9. first \in [Bins -> Offsets \cup {NONE}]
  <2>1. \A b \in Bins : first[b] \in Offsets \cup {NONE}
    BY <1>3, <1>5, <1>7 DEF Listed
  <2> QED BY <2>1, <1>3 DEF Listed
<1>10. n_elts \in Nat
  BY <1>1, FS_CardinalityType DEF Counted
<1>11. \A i \in 0 .. CACHE_SIZE - 1 : bins[i] \in 0 .. CACHE_BINS /\ offsets[i] \in Offsets \cup {0}
  BY <1>1 DEF CacheIn, SlotOffsets, Slots
<1>12. replacement_index \in 0 .. CACHE_SIZE - 1
  BY <1>1 DEF Counted, Slots
<1> QED BY <1>5, <1>6, <1>7, <1>8, <1>9, <1>10, <1>11, <1>12 DEF TypeOK

(* A free list has the elements of its bin, and is linked backwards too.   *)
LEMMA FreeListLinked ==
  ASSUME NEW bn, Listed(link, first, bn), NEW b \in Bins, NEW k \in DOMAIN FreeList(b)
  PROVE  /\ FreeList(b)[k] \in DOMAIN link /\ bn[FreeList(b)[k]] = b
         /\ link[FreeList(b)[k]].prev = IF k = 1 THEN NONE ELSE FreeList(b)[k - 1]
<1> DEFINE d == DOMAIN link
           Chained(s, o) == /\ s \in Seq(d) /\ Len(s) >= 1 /\ s[1] = o
                            /\ \A i \in 1 .. Len(s) : bn[s[i]] = bn[o]
                            /\ \A i \in 2 .. Len(s) : link[s[i]].prev = s[i - 1]
<1>1. /\ ListFrom \in [d -> Seq(d)]
      /\ \A o \in d : ListFrom[o] = IF link[o].next = NONE THEN <<o>>
                                    ELSE <<o>> \o ListFrom[link[o].next]
  BY ListsEnd
<1> HIDE DEF ListFrom
<1>2. \A o \in d : Linked(link, first, bn, o)
  BY DEF Listed
<1>3a. PICK K \in Nat : \E r : Ranked(link, r, K)
  BY DEF Listed
<1>3. PICK rank : K \in Nat /\ Ranked(link, rank, K)
  BY <1>3a
<1>4. /\ rank \in [d -> 0 .. K]
      /\ \A o \in d : link[o].next # NONE => rank[link[o].next] < rank[o]
  BY <1>3 DEF Ranked
<1> DEFINE S == {j \in Nat : \A o \in d : rank[o] < j => Chained(ListFrom[o], o)}
<1>5. 0 \in S
  BY <1>4
<1>6. ASSUME NEW j \in Nat, j \in S PROVE j + 1 \in S
  <2> SUFFICES ASSUME NEW o \in d, rank[o] < j + 1 PROVE Chained(ListFrom[o], o)
    OBVIOUS
  <2>1. CASE link[o].next = NONE
    <3>1. ListFrom[o] = <<o>>
      BY <2>1, <1>1
    <3>2. Chained(<<o>>, o)
      <4>1. <<o>> \in Seq(d) /\ Len(<<o>>) = 1 /\ <<o>>[1] = o
        OBVIOUS
      <4> DEFINE s == <<o>>
      <4> HIDE DEF s
      <4>2. s \in Seq(d) /\ Len(s) = 1 /\ s[1] = o
        BY <4>1 DEF s
      <4>3. Chained(s, o)
        BY <4>2
      <4> QED BY <4>3 DEF s
    <3> HIDE DEF Chained
    <3> QED BY <3>1, <3>2
  <2>2. CASE link[o].next # NONE
    <3> DEFINE y == link[o].next  s == ListFrom[y]  t == <<o>>  u == t \o s
    <3>1. y \in d /\ link[y].prev = o /\ bn[y] = bn[o]
      BY <2>2, <1>2 DEF Linked
    <3>2. rank[y] < j
      BY <2>2, <3>1, <1>4
    <3>3. Chained(s, y)
      <4> HIDE DEF Chained, y
      <4> QED BY <3>1, <3>2, <1>6
    <3>4. ListFrom[o] = u
      BY <2>2, <1>1
    <3>5. t \in Seq(d) /\ Len(t) = 1 /\ t[1] = o
      OBVIOUS
    <3>6. /\ s \in Seq(d) /\ Len(s) \in Nat /\ Len(s) >= 1 /\ s[1] = y
          /\ \A i \in 1 .. Len(s) : bn[s[i]] = bn[y]
          /\ \A i \in 2 .. Len(s) : link[s[i]].prev = s[i - 1]
      BY <3>3, LenProperties
    <3> HIDE DEF s, t, y
    <3>7. /\ u \in Seq(d) /\ Len(u) = Len(t) + Len(s)
          /\ \A i \in 1 .. Len(t) + Len(s) :
               u[i] = IF i <= Len(t) THEN t[i] ELSE s[i - Len(t)]
      BY <3>5, <3>6, ConcatProperties
    <3> HIDE DEF u
    <3>8. /\ Len(u) = 1 + Len(s) /\ u[1] = o
          /\ \A i \in 2 .. Len(u) : u[i] = s[i - 1] /\ i - 1 \in 1 .. Len(s)
      BY <3>5, <3>6, <3>7
    <3>9. ASSUME NEW i \in 1 .. Len(u) PROVE bn[u[i]] = bn[o]
      <4>1. CASE i = 1
        BY <4>1, <3>8
      <4>2. CASE i # 1
        <5>1. i \in 2 .. Len(u)
          BY <4>2, <3>6, <3>8
        <5>2. u[i] = s[i - 1] /\ i - 1 \in 1 .. Len(s)
          BY <5>1, <3>8
        <5> QED BY <5>2, <3>1, <3>6
      <4> QED BY <4>1, <4>2
    <3>10. ASSUME NEW i \in 2 .. Len(u) PROVE link[u[i]].prev = u[i - 1]
      <4>1. u[i] = s[i - 1] /\ i - 1 \in 1 .. Len(s)
        BY <3>8
      <4>2. CASE i = 2
        <5>1. u[i] = y
          BY <4>1, <4>2, <3>6
        <5> QED BY <5>1, <4>2, <3>1, <3>8
      <4>3. CASE i # 2
        <5>1. i - 1 \in 2 .. Len(s) /\ i - 1 \in 2 .. Len(u)
          BY <4>1, <4>3, <3>6, <3>8
        <5>2. u[i - 1] = s[(i - 1) - 1]
          BY <5>1, <3>8
        <5>3. link[s[i - 1]].prev = s[(i - 1) - 1]
          BY <5>1, <3>6
        <5> QED BY <4>1, <5>2, <5>3
      <4> QED BY <4>2, <4>3
    <3>11. Chained(u, o)
      BY <3>6, <3>7, <3>8, <3>9, <3>10
    <3> HIDE DEF Chained
    <3> QED BY <3>4, <3>11
  <2> QED BY <2>1, <2>2
<1>7. K + 1 \in S
  <2> HIDE DEF S
  <2> QED BY <1>3, <1>5, <1>6, NumbersByInduction
<1> DEFINE h == first[b]
<1>8. h # NONE /\ FreeList(b) = ListFrom[h]
  <2>1. CASE h = NONE
    <3>1. FreeList(b) = << >>
      BY <2>1 DEF FreeList
    <3>2. DOMAIN << >> = {}
      OBVIOUS
    <3> QED BY <3>1, <3>2
  <2> QED BY <2>1 DEF FreeList
<1>9. h \in d /\ bn[h] = b
  BY <1>8 DEF Listed
<1>10. link[h].prev = NONE
  BY <1>2, <1>9 DEF Linked
<1>11. Chained(ListFrom[h], h)
  <2>1. rank[h] < K + 1
    BY <1>3, <1>4, <1>9
  <2> HIDE DEF Chained, h
  <2> QED BY <2>1, <1>7, <1>9
<1> DEFINE s == FreeList(b)
<1>12. /\ s \in Seq(d) /\ s[1] = h /\ \A i \in 1 .. Len(s) : bn[s[i]] = b
       /\ \A i \in 2 .. Len(s) : link[s[i]].prev = s[i - 1]
  BY <1>8, <1>9, <1>11
<1>13. k \in 1 .. Len(s) /\ Len(s) \in Nat
  BY <1>12, LenProperties
<1> HIDE DEF s, h
<1>14. s[k] \in d
  BY <1>12, <1>13, ElementOfSeq
<1>15. link[s[k]].prev = IF k = 1 THEN NONE ELSE s[k - 1]
  BY <1>10, <1>12, <1>13
<1> QED BY <1>12, <1>13, <1>14, <1>15 DEF s

(* Tags, lists and cache agree.                                            *)
LEMMA ListsDoAgree ==
  ASSUME AllocatorInv, len > MHEAP_ELT_OVERHEAD_BYTES
  PROVE  ListsAgree
<1> DEFINE bn == BinAt(elt)
<1>1. /\ FreeElements = DOMAIN link /\ Listed(link, first, bn)
      /\ Elements = {o \in DOMAIN elt : o < len} /\ DOMAIN link \subseteq Elements
  BY TheElements
<1>2. HeapOK(Now, len)
  BY DEF AllocatorInv
<1>3. \A o \in DOMAIN link : bn[o] = user_data_size_to_bin_index(mheap_elt_data_bytes(Now, o))
  BY <1>1, NextElt DEF BinAt
<1> HIDE DEF bn
<1>4. OnFreeLists = FreeElements
  <2>1. \A b \in Bins : FreeList(b) \in Seq(DOMAIN link)
    BY <1>1, FreeListHas
  <2>2. ASSUME NEW b \in Bins, NEW o \in Range(FreeList(b)) PROVE o \in DOMAIN link
    <3>1. PICK k \in DOMAIN FreeList(b) : FreeList(b)[k] = o
      BY <2>2 DEF Range
    <3> QED BY <3>1, <1>1, FreeListLinked
  <2>3. ASSUME NEW o \in DOMAIN link PROVE bn[o] \in Bins /\ o \in Range(FreeList(bn[o]))
    <3>1. bn[o] \in Bins
      BY <1>1 DEF Listed, Linked
    <3>2. \E k \in DOMAIN FreeList(bn[o]) : FreeList(bn[o])[k] = o
      BY <1>1, FreeListHas
    <3> QED BY <3>1, <3>2 DEF Range
  <2> QED BY <2>2, <2>3, <1>1 DEF OnFreeLists
<1>5. ASSUME NEW b \in Bins, NEW k \in DOMAIN FreeList(b)
      PROVE  LET o == FreeList(b)[k] IN
             /\ elt[o].is_free /\ elt[mheap_next_elt(Now, o)].prev_is_free
             /\ user_data_size_to_bin_index(mheap_elt_data_bytes(Now, o)) = b
             /\ link[o].prev = IF k = 1 THEN NONE ELSE FreeList(b)[k - 1]
  <2> DEFINE o == FreeList(b)[k]
  <2>1. /\ o \in DOMAIN link /\ bn[o] = b
        /\ link[o].prev = IF k = 1 THEN NONE ELSE FreeList(b)[k - 1]
    BY <1>1, FreeListLinked
  <2> HIDE DEF o
  <2>2. elt[o].is_free /\ o \in DOMAIN elt /\ o < len
    BY <2>1, <1>1 DEF FreeElements
  <2>3. Fine(elt, o)
    BY <2>2, <1>2, NowIs, ElementTags
  <2>4. elt[mheap_next_elt(Now, o)].prev_is_free
    BY <2>2, <2>3, NextElt DEF Fine
  <2> QED BY <2>1, <2>2, <2>4, <1>3 DEF o
<1> QED BY <1>4, <1>5 DEF ListsAgree

LEMMA CacheDoesAgree ==
  ASSUME AllocatorInv
  PROVE  CacheAgrees
<1> SUFFICES ASSUME NEW i \in DOMAIN bins, bins[i] # 0
             PROVE  /\ ~ elt[offsets[i]].is_free
                    /\ user_data_size_to_bin_index(mheap_elt_data_bytes(Now, offsets[i]))
                         = bins[i] - 1
  BY DEF CacheAgrees
<1> DEFINE o == offsets[i]
<1>1. i \in Slots
  BY ObjectsHeld
<1>2. o \in HeldIn(Now, len) /\ bins[i] = 1 + BinAt(elt)[o]
  BY <1>1, NowIs DEF AllocatorInv, CacheIn
<1> HIDE DEF o
<1>3. /\ o \in DOMAIN elt /\ ~ elt[o].is_free /\ elt[o].n_user_data \in Nat
      /\ 4 * elt[o].n_user_data \in 8 .. MaxBytes
      /\ mheap_elt_data_bytes(Now, o) = elt[o].n_user_data * 4
  BY <1>2, HeldTags, NextElt
<1> DEFINE k == elt[o].n_user_data * 4
<1>4. BinAt(elt)[o] = user_data_size_to_bin_index(k)
  BY <1>3 DEF BinAt
<1>5. k \in 0 .. MaxBytes
  BY <1>3, Limits
<1> HIDE DEF k
<1>6. user_data_size_to_bin_index(k) \in Int
  <2>1. Bins \subseteq Int
    BY SmallBins DEF Bins
  <2> QED BY <2>1, <1>5, BinOf
<1>7. user_data_size_to_bin_index(k) = bins[i] - 1
  BY <1>2, <1>4, <1>6
<1> QED BY <1>3, <1>7 DEF o, k

LEMMA TagsDoAgree ==
  ASSUME AllocatorInv, len > MHEAP_ELT_OVERHEAD_BYTES
  PROVE  TagsAgree
<1> SUFFICES ASSUME NEW o \in Elements
             PROVE  /\ elt[o].n_user_data # UNSET
                    /\ mheap_elt_data_bytes(Now, o) >= MHEAP_MIN_USER_DATA_BYTES
                    /\ mheap_next_elt(Now, o) \in DOMAIN elt
                    /\ elt[o].is_free = elt[mheap_next_elt(Now, o)].prev_is_free
                    /\ ~ (elt[o].prev_is_free /\ elt[o].is_free)
  BY DEF TagsAgree
<1>1. o \in DOMAIN elt /\ o < len
  BY TheElements
<1>2. Fine(elt, o) /\ elt[o].n_user_data \in Nat
  BY <1>1, NowIs, ElementTags DEF AllocatorInv
<1>3. elt[o].n_user_data # UNSET
  BY <1>2 DEF UNSET
<1>4. mheap_elt_data_bytes(Now, o) >= 8
  BY <1>2, NextElt DEF Fine
<1> QED BY <1>2, <1>3, <1>4, NextElt DEF Fine

(* The elements are the user's, the cache's and the free ones.             *)
LEMMA ElementsAreCounted ==
  ASSUME AllocatorInv, len > MHEAP_ELT_OVERHEAD_BYTES
  PROVE  ElementsCounted
<1> DEFINE held == HeldIn(Now, len)  mine == DOMAIN live
           used == {i \in DOMAIN bins : bins[i] # 0}
<1>1. /\ Elements = held \cup FreeElements /\ held \cap FreeElements = {}
      /\ IsFiniteSet(Elements)
  BY TheElements
<1>2. held = mine \cup CachedObjects /\ mine \cap CachedObjects = {}
  BY ObjectsHeld DEF AllocatorInv, NoneLost
<1>3. n_elts = Cardinality(mine) /\ Cardinality(CachedObjects) = Cardinality(used)
  BY CacheCounts DEF AllocatorInv, Counted
<1> HIDE DEF held, mine, used
<1>4. /\ IsFiniteSet(held) /\ IsFiniteSet(FreeElements)
      /\ IsFiniteSet(mine) /\ IsFiniteSet(CachedObjects)
  BY <1>1, <1>2, FS_Subset
<1>5. /\ Cardinality(held) \in Nat /\ Cardinality(FreeElements) \in Nat
      /\ Cardinality(mine) \in Nat /\ Cardinality(CachedObjects) \in Nat
      /\ Cardinality({}) = 0
  BY <1>4, FS_CardinalityType, FS_EmptySet
<1>6. Cardinality(Elements) = Cardinality(held) + Cardinality(FreeElements)
  <2>1. Cardinality(held \cup FreeElements) =
          Cardinality(held) + Cardinality(FreeElements) - Cardinality(held \cap FreeElements)
    BY <1>4, FS_Union
  <2>2. Cardinality(held \cap FreeElements) = 0
    BY <1>1, <1>5, Zenon
  <2>3. Cardinality(Elements) = Cardinality(held \cup FreeElements)
    BY <1>1, Zenon
  <2> QED BY <2>1, <2>2, <2>3, <1>5
<1>7. Cardinality(held) = Cardinality(mine) + Cardinality(CachedObjects)
  <2>1. Cardinality(mine \cup CachedObjects) =
          Cardinality(mine) + Cardinality(CachedObjects) - Cardinality(mine \cap CachedObjects)
    BY <1>4, FS_Union
  <2>2. Cardinality(mine \cap CachedObjects) = 0
    BY <1>2, <1>5, Zenon
  <2>3. Cardinality(held) = Cardinality(mine \cup CachedObjects)
    BY <1>2, Zenon
  <2> QED BY <2>1, <2>2, <2>3, <1>5
<1>8. Cardinality(Elements) = n_elts + Cardinality(FreeElements) + Cardinality(used)
  BY <1>3, <1>5, <1>6, <1>7
<1> QED BY <1>8 DEF ElementsCounted, used

(* The data bytes from an element on are what the tags from there on leave *)
(* of the vector.                                                          *)
LEMMA BytesAreCounted ==
  ASSUME AllocatorInv, len > MHEAP_ELT_OVERHEAD_BYTES
  PROVE  BytesCounted
<1> DEFINE d == DOMAIN elt
           From(o) == {x \in Elements : x >= o}
           f == [o \in d |-> len - o - 8 * Cardinality(From(o))]
           At(g, o) == IF elt[o].n_user_data = INVALID THEN 0
                       ELSE mheap_elt_data_bytes(Now, o) + g[mheap_next_elt(Now, o)]
<1>1. /\ Elements = {o \in d : o < len} /\ IsFiniteSet(Elements) /\ len \in d
  BY TheElements
<1>2. /\ HeapOK(Now, len) /\ len \in Nat /\ len > 8 /\ elt[len].n_user_data = INVALID
      /\ Tagged(elt) /\ \A x \in d : x <= len
  <2>1. HeapOK(Now, len)
    BY DEF AllocatorInv
  <2> QED BY <2>1, NowIs DEF HeapOK, Whole, Ended, EndOf
<1>3. d \subseteq Nat /\ 8 \in d /\ \A x \in d : x >= 8
  BY <1>2 DEF Tagged, Addresses
<1>4. ASSUME NEW o \in Elements
      PROVE  /\ o \in d /\ o \in Nat /\ o < len /\ elt[o].n_user_data \in Nat
             /\ elt[o].n_user_data # INVALID
             /\ mheap_next_elt(Now, o) \in d /\ mheap_next_elt(Now, o) > o
             /\ mheap_next_elt(Now, o) = o + elt[o].n_user_data * 4 + 8
             /\ mheap_elt_data_bytes(Now, o) = elt[o].n_user_data * 4
             /\ \A z \in d : z <= o \/ mheap_next_elt(Now, o) <= z
  <2>1. o \in d /\ o < len
    BY <1>1
  <2>2. o \in Nat /\ Fine(elt, o) /\ elt[o].n_user_data \in Nat /\ elt[o].n_user_data # INVALID
    BY <2>1, <1>2, NowIs, ElementTags
  <2> QED BY <2>1, <2>2, NextElt DEF Fine, NextOf
<1>5. \A o \in d : IsFiniteSet(From(o)) /\ Cardinality(From(o)) \in Nat
  <2> SUFFICES ASSUME NEW o \in d PROVE IsFiniteSet(From(o)) /\ Cardinality(From(o)) \in Nat
    OBVIOUS
  <2>1. From(o) \subseteq Elements
    OBVIOUS
  <2> HIDE DEF From
  <2>2. IsFiniteSet(From(o))
    BY <2>1, <1>1, FS_Subset
  <2> QED BY <2>2, FS_CardinalityType
<1>6. f[len] = 0
  <2>1. From(len) = {}
    BY <1>1, <1>2, <1>3
  <2>2. Cardinality(From(len)) = 0
    BY <2>1, FS_EmptySet, Zenon
  <2>3. f[len] = len - len - 8 * Cardinality(From(len))
    BY <1>1
  <2> HIDE DEF f, From
  <2> QED BY <2>2, <2>3, <1>2
<1>7. ASSUME NEW o \in Elements
      PROVE  f[o] = mheap_elt_data_bytes(Now, o) + f[mheap_next_elt(Now, o)]
  <2> DEFINE y == mheap_next_elt(Now, o)
  <2>1. /\ o \in d /\ o \in Nat /\ y \in d /\ y \in Nat /\ elt[o].n_user_data \in Nat
        /\ y = o + elt[o].n_user_data * 4 + 8
        /\ mheap_elt_data_bytes(Now, o) = elt[o].n_user_data * 4
    BY <1>3, <1>4
  <2>2. From(o) = From(y) \cup {o} /\ o \notin From(y)
    <3>1. o < y /\ \A z \in d : z <= o \/ y <= z
      BY <1>4
    <3> HIDE DEF y
    <3> QED BY <3>1, <2>1, <1>1, <1>3
  <2>3. Cardinality(From(o)) = Cardinality(From(y)) + 1
    <3>1. Cardinality(From(y) \cup {o}) = Cardinality(From(y)) + 1
      <4> HIDE DEF From, y
      <4> QED BY <2>1, <2>2, <1>5, FS_AddElement
    <3> HIDE DEF From, y
    <3> QED BY <3>1, <2>2
  <2>4. /\ f[o] = len - o - 8 * Cardinality(From(o))
        /\ f[y] = len - y - 8 * Cardinality(From(y))
    <3> HIDE DEF From, y
    <3> QED BY <2>1
  <2>5. Cardinality(From(y)) \in Nat
    BY <2>1, <1>5
  <2> HIDE DEF f, From, y
  <2>6. f[o] = mheap_elt_data_bytes(Now, o) + f[y]
    BY <2>1, <2>3, <2>4, <2>5, <1>2
  <2> QED BY <2>6 DEF y
<1>8. f = [o \in d |-> At(f, o)]
  <2>1. \A o \in d : o = len \/ o \in Elements
    BY <1>1, <1>2, <1>3
  <2>2. \A o \in d : f[o] = At(f, o)
    <3> SUFFICES ASSUME NEW o \in d PROVE f[o] = At(f, o)
      OBVIOUS
    <3> HIDE DEF f
    <3>1. CASE o = len
      BY <3>1, <1>2, <1>6
    <3>2. CASE o \in Elements
      BY <3>2, <1>4, <1>7
    <3> QED BY <2>1, <3>1, <3>2
  <2>3. DOMAIN f = d /\ f = [o \in d |-> f[o]]
    OBVIOUS
  <2> HIDE DEF f, At
  <2> QED BY <2>2, <2>3
<1> HIDE DEF f
<1>9. DataBytesFrom = [o \in d |-> At(DataBytesFrom, o)]
  BY <1>8 DEF DataBytesFrom
<1> HIDE DEF DataBytesFrom
<1>10. \A o \in d : DataBytesFrom[o] = f[o]
  <2> SUFFICES ASSUME NEW o \in d, DataBytesFrom[o] # f[o] PROVE FALSE
    OBVIOUS
  <2> DEFINE D == {k \in Nat : len - k \in d /\ DataBytesFrom[len - k] # f[len - k]}
  <2>1. len - o \in D
    <3>1. len - o \in Nat /\ len - (len - o) = o
      BY <1>2, <1>3
    <3> QED BY <3>1
  <2>2. PICK k \in D : \A j \in D : k <= j
    <3>1. D \in SUBSET Nat /\ D # {}
      BY <2>1
    <3> HIDE DEF D
    <3> QED BY <3>1, LeastNumber
  <2> DEFINE x == len - k
  <2>3. x \in d /\ k \in Nat /\ x \in Nat /\ DataBytesFrom[x] # f[x]
    BY <2>2, <1>3
  <2>4. x # len
    <3>1. DataBytesFrom[len] = 0
      BY <1>1, <1>2, <1>9
    <3> QED BY <3>1, <2>3, <1>6
  <2>5. x \in Elements
    BY <2>3, <2>4, <1>1, <1>2
  <2> DEFINE y == mheap_next_elt(Now, x)
  <2>6. y \in d /\ y > x /\ y <= len /\ y \in Nat /\ elt[x].n_user_data # INVALID
    BY <2>5, <1>2, <1>3, <1>4
  <2>7. DataBytesFrom[y] = f[y]
    <3>1. len - y \in Nat /\ len - (len - y) = y /\ len - y < k
      <4> HIDE DEF y
      <4> QED BY <2>3, <2>6, <1>2
    <3>2. len - y \notin D
      BY <3>1, <2>2
    <3> HIDE DEF y
    <3> QED BY <3>1, <3>2, <2>6
  <2>8. DataBytesFrom[x] = mheap_elt_data_bytes(Now, x) + DataBytesFrom[y]
    <3>1. DataBytesFrom[x] = At(DataBytesFrom, x)
      <4> HIDE DEF At, x
      <4> QED BY <2>3, <1>9, Zenon
    <3> HIDE DEF x
    <3> QED BY <3>1, <2>6
  <2>9. f[x] = mheap_elt_data_bytes(Now, x) + f[y]
    BY <2>5, <1>7
  <2> HIDE DEF x, y
  <2> QED BY <2>3, <2>7, <2>8, <2>9
<1>11. From(8) = Elements
  BY <1>1, <1>3
<1>12. f[8] = len - 8 - 8 * Cardinality(Elements) /\ Cardinality(Elements) \in Nat
  <2>1. Cardinality(From(8)) = Cardinality(Elements) /\ Cardinality(From(8)) \in Nat
    <3> HIDE DEF From
    <3> QED BY <1>3, <1>5, <1>11
  <2>2. f[8] = len - 8 - 8 * Cardinality(From(8))
    <3> HIDE DEF From
    <3> QED BY <1>3 DEF f
  <2> HIDE DEF From
  <2> QED BY <2>1, <2>2
<1>13. DataBytesFrom[8] = f[8]
  BY <1>3, <1>10
<1> HIDE DEF From, At
<1> QED BY <1>2, <1>12, <1>13 DEF BytesCounted

(* mheap_validate finds nothing wrong, whatever the user asked for and     *)
(* gave back before: the tags agree with their neighbours, the free lists  *)
(* are linked both ways and have exactly the free elements, no two of      *)
(* which are adjacent, the cache has allocated elements of its bins' sizes,*)
(* and elements and bytes add up to the heap.                              *)
THEOREM ValidateAlwaysHolds == Spec => []ValidateHolds
<1>1. AllocatorInv => ValidateHolds
  <2> SUFFICES ASSUME AllocatorInv PROVE ValidateHolds
    OBVIOUS
  <2>1. TypeOK
    BY Typed
  <2>2. ASSUME len > MHEAP_ELT_OVERHEAD_BYTES
        PROVE  ListsAgree /\ CacheAgrees /\ TagsAgree /\ ElementsCounted /\ BytesCounted
    BY <2>2, ListsDoAgree, CacheDoesAgree, TagsDoAgree, ElementsAreCounted, BytesAreCounted
  <2> QED BY <2>1, <2>2 DEF ValidateHolds
<1> QED BY <1>1, AllocatorInvariant, PTL
=============================================================================
