-------------------------------- MODULE Hash --------------------------------
(***************************************************************************)
(* The hash table of hash.c.  A bucket holds one pair in place (it is a    *)
(* "user" bucket), or the address of an array of pairs, or nothing; the    *)
(* table grows and shrinks by itself unless its flags say no, and          *)
(* hash_next, which iterates call by call, sets those flags for as long as *)
(* it is on its way.                                                       *)
(*                                                                         *)
(* The functions of the code that work on a table are operators from table *)
(* to table; a table that is a null pointer is NULL.                       *)
(***************************************************************************)
EXTENDS Integers, Sequences, FiniteSets, FiniteSetsExt, SequencesExt

CONSTANTS UserPairs,    \* the keys and values, <<key, value>>, that a user sets
          KeySum,       \* key_sum: the sum of each key
          MIN_CAPACITY, \* BITS (h->is_user[0])
          SHRINK_ELTS,  \* the 32 of _hash_unset
          NewSizes,     \* the sizes that a user gives to hash_resize
          UserFlags     \* the flags that a user may give to a new table

NULL == [capacity |-> 0]
Keys == {p[1] : p \in UserPairs}

NO_AUTO_GROW == "HASH_FLAG_NO_AUTO_GROW"
NO_AUTO_SHRINK == "HASH_FLAG_NO_AUTO_SHRINK"
HASH_NEXT_IN_PROGRESS == "HASH_FLAG_HASH_NEXT_IN_PROGRESS"

VARIABLES
  ht,         \* the table
  hn,         \* the hash_next_t of the iteration: i, j and the saved flags
  set_pairs,  \* history: the pairs the user has set, by key
  set_flags,  \* history: the flags the user has set
  returned,   \* history: the keys that this iteration has returned
  stable      \* history: the keys that are in the table since it began, or
              \* {} after an unset or a resize

vars == <<ht, hn, set_pairs, set_flags, returned, stable>>

-----------------------------------------------------------------------------
(* Buckets.  alloc is the number of pairs that fit in the indirect array.  *)

EmptyBucket == [is_user |-> FALSE, pairs |-> <<>>, alloc |-> 0]
Direct(pair) == [is_user |-> TRUE, pairs |-> <<pair>>, alloc |-> 0]
Pair(key, value) == [key |-> key, value |-> value]

BucketOf(t, key) == KeySum[key] % t.capacity

Place(b, key) ==
  LET found == {j \in DOMAIN b.pairs : b.pairs[j].key = key}
  IN  IF found = {} THEN 0 ELSE CHOOSE j \in found : \A k \in found : j <= k

\* Mutant: memory is extended one pair too late.
BucketSetLate(b, key, value) ==
  LET j == Place(b, key)
      n == Len(b.pairs) + 1
      added == Append(b.pairs, Pair(key, value))
  IN  IF j # 0 THEN [b EXCEPT !.pairs[j].value = value]
      ELSE IF n = 1 THEN Direct(Pair(key, value))
      ELSE [is_user |-> FALSE, pairs |-> added,
            alloc |-> IF b.is_user THEN 2
                      ELSE IF n - 1 > b.alloc THEN 2 * b.alloc ELSE b.alloc]

(* lookup with opcode SET, set_indirect_is_user and set_indirect: memory   *)
(* for two pairs at first, and twice as much when it is used up.           *)
BucketSet(b, key, value) ==
  LET j == Place(b, key)
      n == Len(b.pairs) + 1
      added == Append(b.pairs, Pair(key, value))
  IN  IF j # 0 THEN [b EXCEPT !.pairs[j].value = value]
      ELSE IF n = 1 THEN Direct(Pair(key, value))
      ELSE [is_user |-> FALSE, pairs |-> added,
            alloc |-> IF b.is_user THEN 2
                      ELSE IF n > b.alloc THEN 2 * b.alloc ELSE b.alloc]

\* Mutant: the last pair is not moved to the place of the deleted one.
BucketCut(b, j) ==
  LET n == Len(b.pairs)
  IN  IF b.is_user THEN EmptyBucket
      ELSE IF n = 2 THEN Direct(b.pairs[3 - j])
      ELSE [b EXCEPT !.pairs = Front(@)]

(* lookup with opcode UNSET, and unset_indirect: of two pairs the other    *)
(* one becomes direct, of more the last one takes the place.               *)
BucketUnset(b, j) ==
  LET n == Len(b.pairs)
  IN  IF b.is_user THEN EmptyBucket
      ELSE IF n = 2 THEN Direct(b.pairs[3 - j])
      ELSE [b EXCEPT !.pairs = Front([@ EXCEPT ![j] = b.pairs[n]])]

-----------------------------------------------------------------------------
(* Tables.                                                                 *)

PowerOf2AtLeast(n) == CHOOSE p \in {2^k : k \in 0 .. n} : n <= p /\ p < 2 * n

_hash_create(elts, flags) ==
  LET n == PowerOf2AtLeast(Max({elts, MIN_CAPACITY}))
  IN  [capacity |-> n, elts |-> 0, flags |-> flags,
       buckets |-> [i \in 1 .. n |-> EmptyBucket]]

Lookup(t, key) ==
  IF t = NULL THEN <<>>
  ELSE LET b == t.buckets[BucketOf(t, key) + 1]
           j == Place(b, key)
       IN  IF j = 0 THEN <<>> ELSE <<b.pairs[j].value>>

LookupSet(t, p) ==
  LET i == BucketOf(t, p.key) + 1
  IN  [t EXCEPT !.buckets[i] = BucketSet(@, p.key, p.value),
                !.elts = IF Lookup(t, p.key) = <<>> THEN @ + 1 ELSE @]

LookupUnset(t, key) ==
  LET i == BucketOf(t, key) + 1
  IN  IF Lookup(t, key) = <<>> THEN t
      ELSE [t EXCEPT !.buckets[i] = BucketUnset(@, Place(@, key)),
                     !.elts = @ - 1]

(* hash_foreach_pair visits the buckets in order.                          *)
PairsOf(t) ==
  IF t = NULL THEN <<>>
  ELSE FlattenSeq([i \in 1 .. t.capacity |-> t.buckets[i].pairs])

(* _hash_set3 and the hash_resize_internal it may call call each other.    *)
(* Unrolled: a set that finds the table too full doubles it, and the pairs *)
(* go into the new table with sets that may double it again, as they do    *)
(* when the table could not grow for a while; but such a set has only just *)
(* filled its table, and doubling that once makes room for its pairs.      *)
TooFull(t) ==
  NO_AUTO_GROW \notin t.flags /\ 4 * (t.elts + 1) > 3 * t.capacity

Rebuilt(t, size) ==
  FoldLeft(LookupSet, _hash_create(size, t.flags), PairsOf(t))

SetInNewTable(t, p) ==
  LET s == LookupSet(t, p)
  IN  IF TooFull(s) THEN Rebuilt(s, 2 * s.capacity) ELSE s

\* Mutant: the table that replaces the old one has no flags.
ResizedWithoutFlags(t, size) ==
  FoldLeft(SetInNewTable, _hash_create(size, {}), PairsOf(t))

hash_resize_internal(t, size) ==
  FoldLeft(SetInNewTable, _hash_create(size, t.flags), PairsOf(t))

SetAndGrow(t, p) ==
  LET s == LookupSet(t, p)
  IN  IF TooFull(s) THEN hash_resize_internal(s, 2 * s.capacity) ELSE s

MayShrink(t) ==
  /\ NO_AUTO_SHRINK \notin t.flags
  /\ t.elts > SHRINK_ELTS /\ 4 * (t.elts + 1) < t.capacity

UnsetAndShrink(t, key) ==
  LET u == LookupUnset(t, key)
  IN  IF MayShrink(u) THEN hash_resize_internal(u, u.capacity \div 2) ELSE u

-----------------------------------------------------------------------------
(* Operations.                                                             *)

InProgress == hn.i # 0 \/ hn.j # 0

_hash_set3(key, value) ==
  /\ ht' = SetAndGrow(IF ht = NULL THEN _hash_create(0, {}) ELSE ht,
                      Pair(key, value))
  /\ set_pairs' = [k \in DOMAIN set_pairs \cup {key} |->
                     IF k = key THEN value ELSE set_pairs[k]]
  /\ UNCHANGED <<hn, set_flags, returned, stable>>

_hash_unset(key) ==
  /\ ht # NULL
  /\ ht' = UnsetAndShrink(ht, key)
  /\ set_pairs' = [k \in DOMAIN set_pairs \ {key} |-> set_pairs[k]]
  /\ stable' = IF key \in DOMAIN set_pairs THEN {} ELSE stable
  /\ UNCHANGED <<hn, set_flags, returned>>

(* hash_resize of no table makes one that never shrinks, unlike the table  *)
(* that the first set makes.                                               *)
hash_resize(size) ==
  /\ ht' = IF ht = NULL THEN _hash_create(size, {NO_AUTO_SHRINK})
                        ELSE hash_resize_internal(ht, size)
  /\ set_flags' = IF ht = NULL THEN {NO_AUTO_SHRINK} ELSE set_flags
  /\ stable' = {}
  /\ UNCHANGED <<hn, set_pairs, returned>>

(* A user does not set flags in the middle of an iteration: its end would  *)
(* undo that.                                                              *)
hash_set_flags(flags) ==
  /\ ht # NULL /\ ~ InProgress
  /\ ht' = [ht EXCEPT !.flags = @ \cup flags]
  /\ set_flags' = set_flags \cup flags
  /\ UNCHANGED <<hn, set_pairs, returned, stable>>

(* hash_free, and hash_resize to no size at all, when nobody iterates.     *)
_hash_free ==
  /\ ht # NULL /\ ~ InProgress
  /\ ht' = NULL
  /\ set_pairs' = <<>> /\ set_flags' = {}
  /\ UNCHANGED <<hn, returned, stable>>

(* The buckets from i on that hash_next does not skip.                     *)
NotSkipped(t, i, j) ==
  {b \in i .. t.capacity - 1 :
     LET bucket == t.buckets[b + 1]
     IN  bucket.is_user \/ (IF b = i THEN j ELSE 0) < Len(bucket.pairs)}

\* Mutant: the table may grow while it is iterated.
FlagsWithGrow(t) ==
  IF InProgress THEN t.flags
  ELSE t.flags \cup {NO_AUTO_SHRINK, HASH_NEXT_IN_PROGRESS}

FlagsDuringNext(t) ==
  IF InProgress THEN t.flags
  ELSE t.flags \cup {NO_AUTO_GROW, NO_AUTO_SHRINK, HASH_NEXT_IN_PROGRESS}

(* hash_next returns a pair.  A direct pair ends its bucket, but leaves j  *)
(* as it is.                                                               *)
HashNextPair ==
  /\ ht # NULL /\ NotSkipped(ht, hn.i, hn.j) # {}
  /\ LET b == CHOOSE b \in NotSkipped(ht, hn.i, hn.j) :
                \A c \in NotSkipped(ht, hn.i, hn.j) : b <= c
         bucket == ht.buckets[b + 1]
         j == IF b = hn.i THEN hn.j ELSE 0
         saved == IF InProgress THEN hn.flags ELSE ht.flags
         pair == IF bucket.is_user THEN bucket.pairs[1]
                                   ELSE bucket.pairs[j + 1]
     IN  /\ hn' = IF bucket.is_user
                    THEN [i |-> b + 1, j |-> j, flags |-> saved]
                    ELSE [i |-> b, j |-> j + 1, flags |-> saved]
         /\ returned' = IF InProgress THEN Append(returned, pair.key)
                                      ELSE <<pair.key>>
         /\ ht' = [ht EXCEPT !.flags = FlagsDuringNext(ht)]
  /\ stable' = IF InProgress THEN stable ELSE DOMAIN set_pairs
  /\ UNCHANGED <<set_pairs, set_flags>>

(* hash_next has come to the end: the flags are restored.                  *)
HashNextEnd ==
  /\ ht # NULL /\ NotSkipped(ht, hn.i, hn.j) = {}
  /\ ht' = [ht EXCEPT !.flags = IF InProgress THEN hn.flags ELSE @]
  /\ hn' = [i |-> 0, j |-> 0, flags |-> {}]
  /\ returned' = <<>> /\ stable' = {}
  /\ UNCHANGED <<set_pairs, set_flags>>

Init ==
  /\ ht = NULL
  /\ hn = [i |-> 0, j |-> 0, flags |-> {}]
  /\ set_pairs = <<>> /\ set_flags = {}
  /\ returned = <<>> /\ stable = {}

Next ==
  \/ \E p \in UserPairs : _hash_set3(p[1], p[2])
  \/ \E key \in Keys : _hash_unset(key)
  \/ \E size \in NewSizes : hash_resize(size)
  \/ \E flags \in UserFlags : hash_set_flags(flags)
  \/ _hash_free
  \/ HashNextPair
  \/ HashNextEnd

Spec == Init /\ [][Next]_vars

-----------------------------------------------------------------------------
(* Properties.                                                             *)

(* Through collisions, deletions and resizes a lookup finds exactly what   *)
(* the user has set: _hash_get returns the latest value of a key that is   *)
(* set and nothing for another, and h->elts counts the keys.               *)
LookupFindsWhatWasSet ==
  /\ \A key \in Keys :
       Lookup(ht, key) = IF key \in DOMAIN set_pairs THEN <<set_pairs[key]>>
                                                     ELSE <<>>
  /\ ht # NULL => ht.elts = Cardinality(DOMAIN set_pairs)

(* hash_validate, and what the code takes for granted of its buckets: every *)
(* key is in the table once, a direct bucket has one pair, an indirect one *)
(* at least two, and they fit in the memory that was allocated for them.   *)
BucketsValid ==
  ht # NULL =>
    /\ Len(PairsOf(ht)) = ht.elts
    /\ Cardinality({p.key : p \in ToSet(PairsOf(ht))}) = ht.elts
    /\ \A i \in DOMAIN ht.buckets :
         LET b == ht.buckets[i]
         IN  IF b.is_user THEN Len(b.pairs) = 1
             ELSE Len(b.pairs) # 1 /\ Len(b.pairs) <= b.alloc

(* The user's flags are in force whenever no iteration is on its way, and  *)
(* a table that is being iterated neither grows nor shrinks by itself,     *)
(* also after a hash_resize in the middle of it.                           *)
FlagsRestored ==
  ht # NULL =>
    ht.flags = set_flags \cup
                 (IF InProgress
                    THEN {NO_AUTO_GROW, NO_AUTO_SHRINK, HASH_NEXT_IN_PROGRESS}
                    ELSE {})

(* An iteration with hash_next during which nothing is unset or resized    *)
(* returns every pair that was there when it began, and none twice, even   *)
(* if pairs are added to the buckets it is in.                             *)
NextReturnsEveryPair ==
  [][ HashNextEnd => stable \subseteq ToSet(returned)
                     /\ (stable # {} => IsInjective(returned)) ]_vars

=============================================================================
