-------------------------------- MODULE Qsort --------------------------------
(***************************************************************************)
(* qsort.c: quicksort down to partitions of less than THRESH elements, and *)
(* an insertion sort of the whole array that does not look for the array's *)
(* beginning: it relies on the smallest element being in front.            *)
(*                                                                         *)
(* An element is the number that the comparison routine sees; places count *)
(* from zero.  A step is one round of the loop of qst, the search for the  *)
(* smallest element, or the insertion of one element.                      *)
(***************************************************************************)
EXTENDS Integers, Sequences, FiniteSets, FiniteSetsExt

CONSTANTS
    Arrays,    \* the sequences that are sorted
    THRESH,    \* least size of a partition that qst takes
    MTHRESH    \* least size of one whose median is taken

VARIABLES
    given,     \* history: the array as it was
    a,         \* the array
    n,         \* its size
    calls,     \* the partitions <<base, max>> that qst has yet to do
    phase,     \* "qst", "smallest", "insert" or "sorted"
    min,       \* the element that is inserted next
    escaped    \* the insertion looked before the first element

vars == <<given, a, n, calls, phase, min, escaped>>

Swap(b, i, j) == [b EXCEPT ![i] = b[j], ![j] = b[i]]

Init ==
    /\ \E s \in Arrays :
         /\ n = Len(s)
         /\ a = [i \in 0..Len(s) - 1 |-> s[i + 1]]
    /\ given = a
    /\ calls = IF n >= THRESH THEN <<<<0, n>>>> ELSE <<>>
    /\ phase = IF n <= 1 THEN "sorted" ELSE "qst"
    /\ min = 0 /\ escaped = FALSE

(* The middle element, or the median of the first, middle and last, which is
   then swapped into the middle. *)
Median(base, max, mid) ==
    LET Larger == IF a[base] > a[mid] THEN base ELSE mid
        Loser(j) == IF j = base THEN mid ELSE base
        OrLast(j) == IF a[j] < a[max - 1] THEN max - 1 ELSE j
    IN  IF a[Larger] > a[max - 1] THEN OrLast(Loser(Larger)) ELSE Larger

(* Partitioning: mid moves along with the discriminator. *)
RECURSIVE Partition(_, _, _, _)
Partition(b, i, j, mid) ==
    IF i < mid /\ b[i] <= b[mid] THEN Partition(b, i + 1, j, mid)
    ELSE IF j > mid /\ b[mid] <= b[j] THEN Partition(b, i, j - 1, mid)
    ELSE IF j > mid /\ i = mid THEN Partition(Swap(b, i, j), i + 1, j, j)
    ELSE IF j > mid THEN Partition(Swap(b, i, j), i + 1, j - 1, mid)
    ELSE IF i # mid THEN Partition(Swap(b, i, mid), i, j - 1, i)
    ELSE [a |-> b, mid |-> mid]

\* Mutant: the threshold of the median is taken for that of the insertion.
LargeForMedian(p) == IF p[2] - p[1] >= MTHRESH THEN <<p>> ELSE <<>>

(* A partition is done by qst only when it is large enough. *)
Large(p) == IF p[2] - p[1] >= THRESH THEN <<p>> ELSE <<>>

(* One round of qst: the smaller partition is done first, by recursion, and
   the loop goes on with the larger one. *)
Qst ==
    /\ phase = "qst" /\ calls # <<>>
    /\ LET base == Head(calls)[1]
           max == Head(calls)[2]
           Then(r) ==
             /\ a' = r.a
             /\ calls' = (IF r.mid - base <= max - (r.mid + 1)
                          THEN Large(<<base, r.mid>>) \o Large(<<r.mid + 1, max>>)
                          ELSE Large(<<r.mid + 1, max>>) \o Large(<<base, r.mid>>))
                         \o Tail(calls)
           From(mid) ==
             Then(Partition(IF max - base >= MTHRESH THEN Swap(a, mid, Median(base, max, mid))
                            ELSE a, base, max - 1, mid))
       IN  From(base + (max - base) \div 2)
    /\ UNCHANGED <<given, n, phase, min, escaped>>

(* The elements among which the smallest is looked for. *)
First == 0..(IF n >= THRESH THEN THRESH ELSE n) - 1

(* The smallest element goes to the front; of equal ones the first is taken. *)
Smallest ==
    /\ phase = "qst" /\ calls = <<>>
    /\ \E j \in First :
         /\ \A k \in First : a[j] < a[k] \/ (a[j] = a[k] /\ j <= k)
         /\ a' = Swap(a, 0, j)
    /\ phase' = "insert" /\ min' = 1
    /\ UNCHANGED <<given, n, calls, escaped>>

(* An element goes after the last one before it that is not larger. *)
Insert ==
    /\ phase = "insert" /\ min < n
    /\ LET places == {h \in 0..min - 1 : a[h] <= a[min]}
           Insertion(hi) == [i \in DOMAIN a |-> CASE i = hi -> a[min]
                                                  [] i \in hi + 1..min -> a[i - 1]
                                                  [] OTHER -> a[i]]
       IN  /\ escaped' = (places = {})
           /\ a' = IF places = {} THEN a ELSE Insertion(Max(places) + 1)
    /\ min' = min + 1
    /\ UNCHANGED <<given, n, calls, phase>>

Done ==
    /\ phase = "insert" /\ min = n
    /\ phase' = "sorted"
    /\ UNCHANGED <<given, a, n, calls, min, escaped>>

Next == Qst \/ Smallest \/ Insert \/ Done

Spec == Init /\ [][Next]_vars

-----------------------------------------------------------------------------
CountIn(b, x) == Cardinality({i \in DOMAIN b : b[i] = x})

(* The array ends up sorted, with the elements it had at every step; and the
   insertion never goes past the front, since "the smallest element ... must
   be in the first THRESH" after qst. *)
SortsInPlace ==
    /\ phase = "sorted" => \A i \in 1..n - 1 : a[i - 1] <= a[i]
    /\ \A i \in 0..n - 1 : CountIn(a, given[i]) = CountIn(given, given[i])
    /\ ~escaped
=============================================================================
