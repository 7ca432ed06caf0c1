------------------------------ MODULE Strings -------------------------------
(***************************************************************************)
(* The memory and string functions of standalone_string.c and string.c.    *)
(* They move, set, swap and compare whole words where the alignment of their arguments      *)
(* allows it, single bytes before and after, and look for the end of a     *)
(* string a word at a time.                                                *)
(*                                                                         *)
(* An access is <<d, s, w>>: the w bytes at s are read and, in one piece,  *)
(* written to d (or compared with those at d).  A function is the sequence *)
(* of its accesses.  A byte has BYTE_VALUES values, so that the arithmetic *)
(* of strlen8 on a word fits the integers of the model checker.            *)
(***************************************************************************)
EXTENDS Integers, Sequences, FiniteSets, FiniteSetsExt, SequencesExt

CONSTANTS N_BYTES,         \* the memory is 0 .. N_BYTES - 1
          Addresses,       \* the pointers that are given
          Counts,          \* the numbers of bytes or elements
          Memories,        \* what may be in memory when memcmp8 is called
          StringMemories,  \* and when a string function is
          BYTE_VALUES      \* 256

VARIABLES mem,             \* the bytes
          before,          \* history: the bytes before the call
          call             \* history: the call, with what it returned

vars == <<mem, before, call>>

WORD == 8                  \* sizeof (word) and sizeof (u64)
NULL == -1

-----------------------------------------------------------------------------
(* n units of w bytes, the lowest one first or last.                       *)
Up(d, s, n, w) == [k \in 1 .. n |-> <<d + w * (k - 1), s + w * (k - 1), w>>]
Down(d, s, n, w) == [k \in 1 .. n |-> <<d + w * (n - k), s + w * (n - k), w>>]

(* switch (c) with the cases 7 to 1: nothing for other values.             *)
Switch(d, s, c) == IF c \in 1 .. 7 THEN Down(d, s, c, 1) ELSE <<>>
Taken(c) == IF c \in 1 .. 7 THEN c ELSE 0

(* first_set (d ^ s) is the largest power of two that divides d - s.       *)
get_max_alignement(d, s) == Max({a \in {1, 2, 4, 8} : (d - s) % a = 0})

\* Mutant: the bytes since the last boundary.
SinceBoundary(d, a, count) == Min({d % a, count})

(* The bytes up to the next boundary: a of them when d is at one.          *)
UpToBoundary(d, a, count) == Min({a - (d % a), count})

(* Bytes up to a boundary, groups of four words, the other words from the  *)
(* last one down, and the bytes that are left.                             *)
memcpy8(d, s, count) ==
  LET a == get_max_alignement(d, s)
      c == UpToBoundary(d, a, count)
      d1 == d + Taken(c)
      s1 == s + Taken(c)
      q == (count - Taken(c)) \div a
      r == (count - Taken(c)) % a
      four == q - (q % 4)
  IN  Switch(d, s, c) \o Up(d1, s1, four, a)
        \o Down(d1 + a * four, s1 + a * four, q % 4, a)
        \o Switch(d1 + a * q, s1 + a * q, r)

(* From the beginning when the destination is below the source.            *)
MoveDown(d, s, count) ==
  LET a == get_max_alignement(d, s)
      c == IF d % a = 0 THEN 0 ELSE Min({a - (d % a), count})
      q == (count - c) \div a
  IN  Up(d, s, c, 1) \o Up(d + c, s + c, q, a)
        \o Up(d + c + a * q, s + c + a * q, (count - c) % a, 1)

(* From the end when it is above.                                          *)
MoveUp(d, s, count) ==
  LET a == get_max_alignement(d, s)
      c == Min({(d + count) % a, count})
      q == (count - c) \div a
      e == d + count - c - a * q
      t == s + count - c - a * q
  IN  Switch(d + count - c, s + count - c, c) \o Down(e, t, q, a)
        \o Switch(d, s, (count - c) % a)

\* Mutant: the direction of the copy is that of memcpy8.
MoveAsCopied(d, s, count) == memcpy8(d, s, count)

memmove8(d, s, count) ==
  IF d = s \/ count = 0 THEN <<>>
  ELSE IF d < s THEN MoveDown(d, s, count) ELSE MoveUp(d, s, count)

(* Pairs of words of every size for which both pointers are aligned, the   *)
(* largest first, and the last byte.                                       *)
clib_memswap(a, b, bytes) ==
  LET Pairs(x, w) ==
        LET p == a + x.done
            q == b + x.done
            n == IF p % w = 0 /\ q % w = 0 THEN 2 * ((bytes - x.done) \div (2 * w)) ELSE 0
        IN  [done |-> x.done + n * w, swaps |-> x.swaps \o Up(p, q, n, w)]
      x == FoldLeft(Pairs, [done |-> 0, swaps |-> <<>>], <<8, 4, 2, 1>>)
  IN  x.swaps \o Up(a + x.done, b + x.done, bytes - x.done, 1)

Copied(m, x) ==
  [b \in DOMAIN m |-> IF b \in x[1] .. x[1] + x[3] - 1 THEN m[b - x[1] + x[2]] ELSE m[b]]
Swapped(m, x) ==
  [b \in DOMAIN m |-> IF b \in x[1] .. x[1] + x[3] - 1 THEN m[b - x[1] + x[2]]
                      ELSE IF b \in x[2] .. x[2] + x[3] - 1 THEN m[b - x[2] + x[1]]
                      ELSE m[b]]
Done(m, accesses) == FoldLeft(Copied, m, accesses)

-----------------------------------------------------------------------------
(* Setting: n units of w bytes from p on.                                  *)
Set(p, n, w) == Up(p, p, n, w)

(* Four at a time, and the rest backwards.                                 *)
memset64(p, count) ==
  Set(p, count - (count % 4), 8)
    \o Down(p + 8 * (count - (count % 4)), p + 8 * (count - (count % 4)), count % 4, 8)

memset32(p, count) ==
  LET head == IF count > 0 /\ (p \div 4) % 2 = 1 THEN 1 ELSE 0
      left == count - head
      q == left \div 2
  IN  Set(p, head, 4) \o memset64(p + 4 * head, q)
        \o Set(p + 4 * head + 8 * q, left % 2, 4)

memset16(p, count) ==
  LET a == (p % 8) \div 2
      head == IF a = 0 THEN 0 ELSE Min({4 - a, count})
      left == count - head
      q == left \div 4
  IN  Down(p, p, head, 2) \o memset64(p + 2 * head, q)
        \o Down(p + 2 * head + 8 * q, p + 2 * head + 8 * q, left % 4, 2)

memset8(p, count) ==
  LET a == UpToBoundary(p, 8, count)
      left == count - Taken(a)
      q == left \div 8
      rest == p + Taken(a) + 8 * q
  IN  Switch(p, p, a) \o memset64(p + Taken(a), q) \o Switch(rest, rest, left % 8)

memset(p, count, w) ==
  CASE w = 1 -> memset8(p, count) [] w = 2 -> memset16(p, count)
    [] w = 4 -> memset32(p, count) [] w = 8 -> memset64(p, count)

(* The k'th byte of the value is -k.  A wider store has the value several  *)
(* times over, which multiplying it by 0x0101... makes of it.              *)
ValueByte(k, w) == -(k % w) - 1
Stored(m, x, w) ==
  [b \in DOMAIN m |-> IF b \in x[1] .. x[1] + x[3] - 1 THEN ValueByte(b - x[1], w) ELSE m[b]]

-----------------------------------------------------------------------------
(* Comparing: CMP_ONE looks at the bytes of the first unit that differs.   *)
memcmp8_accesses(d, s, count) ==
  LET a == get_max_alignement(d, s)
      c == UpToBoundary(d, a, count)
      q == (count - c) \div a
  IN  Up(d, s, c, 1) \o Up(d + c, s + c, q, a)
        \o Up(d + c + a * q, s + c + a * q, (count - c) % a, 1)

Differences(m, x) == {i \in 0 .. x[3] - 1 : m[x[1] + i] # m[x[2] + i]}

memcmp8(m, d, s, count) ==
  LET xs == memcmp8_accesses(d, s, count)
      units == {k \in DOMAIN xs : Differences(m, xs[k]) # {}}
      First(x) == m[x[1] + Min(Differences(m, x))] - m[x[2] + Min(Differences(m, x))]
  IN  IF units = {} THEN 0 ELSE First(xs[Min(units)])

(* The u64 at p, the lowest byte first.                                    *)
Word(m, p) == FoldLeft(LAMBDA x, k : BYTE_VALUES * x + m[p + 8 - k], 0, [k \in 1 .. 8 |-> k])

(* 0xfefe...feff: every byte but the lowest is two less than BYTE_VALUES.  *)
WORD_VALUES == BYTE_VALUES ^ 8
magic ==
  FoldLeft(LAMBDA x, k : BYTE_VALUES * x + BYTE_VALUES - (IF k = 8 THEN 1 ELSE 2), 0,
           [k \in 1 .. 8 |-> k])
LowBit(x, i) == (x \div BYTE_VALUES ^ i) % 2

\* Mutant: the carry out of the highest byte is not looked at.
NoCarry(x) ==
  LET res == (x + magic) % WORD_VALUES IN \E i \in 1 .. 7 : LowBit(x, i) = LowBit(res, i)

(* at_least_one_zero || res >= magic: a carry into byte i changes its      *)
(* lowest bit, so that x ^ ~res has a bit of lo_bits when one is missing.  *)
MayHaveZero(x) ==
  LET res == (x + magic) % WORD_VALUES
  IN  (\E i \in 1 .. 7 : LowBit(x, i) = LowBit(res, i)) \/ res >= magic

(* Bytes up to a boundary, then the bytes of words that may have a zero.   *)
strlen8(m, str) ==
  LET boundary == IF str % 8 = 0 THEN str ELSE str + 8 - (str % 8)
      words == {p \in boundary .. N_BYTES - 8 : p % 8 = 0 /\ MayHaveZero(Word(m, p))}
      bytes == (str .. boundary - 1) \cup UNION {p .. p + 7 : p \in words}
  IN  Min({p \in bytes : m[p] = 0}) - str

strcpy8(m, dest, src) == memcpy8(dest, src, strlen8(m, src) + 1)
strncpy8(m, dest, src, size) == memcpy8(dest, src, Min({strlen8(m, src) + 1, size}))

(* The bytes that end a comparison: different ones or a zero.              *)
Ends(m, s1, s2) ==
  {i \in 0 .. N_BYTES - 1 - Max({s1, s2}) : m[s1 + i] # m[s2 + i] \/ m[s1 + i] = 0}

strcmp8(m, s1, s2) ==
  IF s1 = s2 THEN 0
  ELSE LET i == Min(Ends(m, s1, s2)) IN m[s1 + i] - m[s2 + i]

\* Mutant: one byte more is compared.
OneByteMore(m, s1, s2, size) ==
  IF s1 = s2 \/ size = 0 THEN 0
  ELSE LET i == Min(Ends(m, s1, s2) \cup {size}) IN m[s1 + i] - m[s2 + i]

strncmp8(m, s1, s2, size) ==
  IF s1 = s2 \/ size = 0 THEN 0
  ELSE LET i == Min(Ends(m, s1, s2) \cup {size - 1}) IN m[s1 + i] - m[s2 + i]

(* No needle is found nowhere.                                             *)
strstr(m, haystack, needle) ==
  LET nlen == strlen8(m, needle)
      found == {i \in 0 .. strlen8(m, haystack) - nlen :
                  memcmp8(m, haystack + i, needle, nlen) = 0}
  IN  IF nlen = 0 \/ found = {} THEN NULL ELSE haystack + Min(found)

strchr(m, s, c) ==
  LET i == Min({j \in 0 .. N_BYTES - 1 - s : m[s + j] \in {c, 0}})
  IN  IF m[s + i] = c THEN s + i ELSE NULL

-----------------------------------------------------------------------------
Fits(p, n) == p + n <= N_BYTES
Apart(d, s, n) == d + n <= s \/ s + n <= d

(* Memory to move and set has a different value in every byte.             *)
Distinct == [b \in 0 .. N_BYTES - 1 |-> b]
NoCall == [f |-> "none"]

Init ==
  /\ mem \in {Distinct} \cup Memories \cup StringMemories
  /\ before = mem
  /\ call = NoCall

Calls(f, d, s, n, result) ==
  /\ call' = [f |-> f, d |-> d, s |-> s, n |-> n, result |-> result]
  /\ before' = mem

Copy == \E d, s \in Addresses, n \in Counts :
  /\ mem = Distinct /\ Fits(d, n) /\ Fits(s, n)
  /\ \/ Apart(d, s, n) /\ mem' = Done(mem, memcpy8(d, s, n)) /\ Calls("memcpy", d, s, n, d)
     \/ mem' = Done(mem, memmove8(d, s, n)) /\ Calls("memmove", d, s, n, d)
     \/ /\ Apart(d, s, n)
        /\ mem' = FoldLeft(Swapped, mem, clib_memswap(d, s, n))
        /\ Calls("memswap", d, s, n, d)

Fill == \E p \in Addresses, n \in Counts, w \in {1, 2, 4, 8} :
  /\ mem = Distinct /\ p % w = 0 /\ Fits(p, n * w)
  /\ mem' = FoldLeft(LAMBDA m, x : Stored(m, x, w), mem, memset(p, n, w))
  /\ Calls("memset", p, w, n, p)

Compare == \E d, s \in Addresses, n \in Counts :
  /\ mem \in Memories /\ Fits(d, n) /\ Fits(s, n)
  /\ Calls("memcmp", d, s, n, memcmp8(mem, d, s, n))
  /\ UNCHANGED mem

StringCall ==
  /\ mem \in StringMemories
  /\ \/ \E s \in Addresses : Calls("strlen", s, s, 0, strlen8(mem, s))
     \/ \E s1, s2 \in Addresses :
          \/ Calls("strcmp", s1, s2, 0, strcmp8(mem, s1, s2))
          \/ \E n \in Counts : Calls("strncmp", s1, s2, n, strncmp8(mem, s1, s2, n))
          \/ Calls("strstr", s1, s2, 0, strstr(mem, s1, s2))
     \/ \E s \in Addresses, c \in {0, 3} : Calls("strchr", s, s, c, strchr(mem, s, c))
  /\ UNCHANGED mem

StringCopy == \E s \in Addresses, n \in Counts :
  /\ mem \in StringMemories
  /\ \/ mem' = Done(mem, strcpy8(mem, 16, s)) /\ Calls("strcpy", 16, s, N_BYTES, 16)
     \/ mem' = Done(mem, strncpy8(mem, 16, s, n)) /\ Calls("strcpy", 16, s, n, 16)

Next == call = NoCall /\ (Copy \/ Fill \/ Compare \/ StringCall \/ StringCopy)

Spec == Init /\ [][Next]_vars

-----------------------------------------------------------------------------
(* What the functions are for, byte by byte.                               *)
StringAt(m, p) ==
  SubSeq([i \in 1 .. N_BYTES - p |-> m[p + i - 1]], 1,
         Min({i \in 0 .. N_BYTES - 1 - p : m[p + i] = 0}))
Truncated(s, n) == SubSeq(s, 1, Min({Len(s), n}))
At(s, i) == IF i <= Len(s) THEN s[i] ELSE 0
Difference(s, t) ==
  LET i == {j \in 1 .. Max({Len(s), Len(t)}) : At(s, j) # At(t, j)}
  IN  IF i = {} THEN 0 ELSE At(s, Min(i)) - At(t, Min(i))
Occurrences(s, t) == {i \in 0 .. Len(s) - Len(t) : SubSeq(s, i + 1, i + Len(t)) = t}

MovedAtOnce(d, s, n) == Copied(before, <<d, s, n>>)

Accesses(c) ==
  CASE c.f = "memcpy" -> memcpy8(c.d, c.s, c.n)
    [] c.f = "memmove" -> memmove8(c.d, c.s, c.n)
    [] c.f = "memswap" -> clib_memswap(c.d, c.s, c.n)
    [] c.f = "memcmp" -> memcmp8_accesses(c.d, c.s, c.n)
    [] c.f = "memset" -> memset(c.d, c.n, c.s)
    [] OTHER -> <<>>

(* The result is as though every byte were handled by itself and all the   *)
(* source read before the destination is written, for every alignment,     *)
(* overlap and length; every access is aligned, as TRUE_OR_SEGFAULT asks,  *)
(* and reads no byte that it was not given; the end of a string is found   *)
(* whatever is in the words before it.                                     *)
AsByteByByte ==
  LET c == call
      s1 == StringAt(before, c.d)
      s2 == StringAt(before, c.s)
  IN  /\ c.f \in {"memcpy", "memmove"} => mem = MovedAtOnce(c.d, c.s, c.n)
      /\ c.f = "memswap" => mem = Swapped(before, <<c.d, c.s, c.n>>)
      /\ c.f = "memset" =>
           mem = [b \in DOMAIN mem |-> IF b \in c.d .. c.d + c.n * c.s - 1
                                       THEN ValueByte(b - c.d, c.s) ELSE before[b]]
      /\ c.f = "memcmp" =>
           c.result = Difference([i \in 1 .. c.n |-> mem[c.d + i - 1]],
                                 [i \in 1 .. c.n |-> mem[c.s + i - 1]])
      /\ c.f = "strlen" => c.result = Len(s1)
      /\ c.f = "strcmp" => c.result = Difference(s1, s2)
      /\ c.f = "strncmp" => c.result = Difference(Truncated(s1, c.n), Truncated(s2, c.n))
      /\ c.f = "strstr" =>
           c.result = IF s2 = <<>> \/ Occurrences(s1, s2) = {} THEN NULL
                      ELSE c.d + Min(Occurrences(s1, s2))
      /\ c.f = "strchr" =>
           c.result = LET i == {j \in 0 .. Len(s1) : before[c.d + j] = c.n}
                      IN  IF i = {} THEN NULL ELSE c.d + Min(i)
      /\ c.f = "strcpy" => mem = MovedAtOnce(c.d, c.s, Min({Len(s2) + 1, c.n}))
      /\ c # NoCall => \A x \in ToSet(Accesses(c)) :
           /\ x[1] % x[3] = 0 /\ x[2] % x[3] = 0
           /\ c.f # "memset" => x[2] \in c.s .. c.s + c.n - x[3]
=============================================================================
