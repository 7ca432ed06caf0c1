-------------------------------- MODULE Phash --------------------------------
(***************************************************************************)
(* The search for a perfect hash function, phash.c.  A seed gives every    *)
(* key a pair (a, b); when the pairs differ, a value val_b is looked for   *)
(* for each b so that the codes a ^ scramble[val_b] of all keys differ.    *)
(* augment finds a value for one b, if necessary by changing the values of *)
(* others along a path of its search tree, and apply makes the changes or  *)
(* takes them back when two codes meet after all.                          *)
(*                                                                         *)
(* The mixing of a seed and a key is a choice of the pair.  Keys are 1, 2, *)
(* ...; a pair is only chosen that is above the pair of the key before it, *)
(* since the names of the keys do not matter.                              *)
(***************************************************************************)
EXTENDS Integers, Sequences, FiniteSets, FiniteSetsExt, SequencesExt, Functions, Bitwise

CONSTANTS
    KeyCounts,     \* numbers of keys that a hash is looked for
    V_LIMIT,       \* values of val_b that are tried (256 without scramble)
    N_TRIES,       \* seeds that are tried before (a, b) gets more bits (2048)
    MAX_AB_BITS    \* bound on a_bits + b_bits

VARIABLES
    pm,            \* phash_main_t
    at,            \* "seed", "perfect", "failed" (perfect returned 0) or "done"
    n_tries_this_a_b,
    mapped         \* the bs that perfect has gone through

vars == <<pm, at, n_tries_this_a_b, mapped>>

NONE == -1

max_log2(n) == Min({k \in 0..30 : 2^k >= n})
min_log2(n) == Max({k \in 0..30 : 2^k <= n})

(***************************************************************************)
(* guess_initial_parameters: a_max, b_max and s_max for a number of keys;  *)
(* its fractions of s_max are compared in hundredths.                      *)
(***************************************************************************)

AtMost(n_keys, percent, s_max) == 100 * n_keys <= percent * s_max

(* The switch on s_bits; one key (s_bits = 0) falls through to the next case. *)
MinimalGuess(n_keys, is_fast, s_bits, s_max) ==
    LET few == 2 * n_keys <= s_max + s_max \div 4          \* 5/8
    IN  CASE s_bits <= 8 -> <<s_max \div 2, s_max \div 2>>
          [] s_bits \in 9..17 /\ is_fast -> <<s_max \div 2, s_max \div 4>>
          [] s_bits \in 9..17 /\ ~is_fast /\ s_max \div 4 < 4096 ->
               IF AtMost(n_keys, 52, s_max) THEN <<s_max \div 8, s_max \div 8>>
               ELSE <<s_max \div 4, s_max \div 4>>
          [] s_bits \in 9..17 /\ ~is_fast /\ s_max \div 4 >= 4096 ->
               <<CASE few -> s_max \div 8
                   [] ~few /\ AtMost(n_keys, 75, s_max) -> s_max \div 4
                   [] OTHER -> s_max \div 2, s_max \div 4>>
          [] s_bits = 18 /\ is_fast -> <<s_max \div 2, s_max \div 2>>
          [] s_bits = 18 /\ ~is_fast -> <<s_max \div 8, IF few THEN s_max \div 4 ELSE s_max \div 2>>
          [] s_bits \in 19..20 -> IF few THEN <<s_max \div 8, s_max \div 4>>
                                  ELSE <<s_max \div 2, s_max \div 2>>
          [] OTHER -> <<s_max \div 2, s_max \div 2>>

(* a_max stays 1 without PHASH_FLAG_MINIMAL. *)
NonMinimalGuess(n_keys, is_fast, s_max) ==
    LET small == IF s_max \div 4 <= 2^14
                 THEN CASE AtMost(n_keys, 56, s_max) -> s_max \div 32
                        [] ~AtMost(n_keys, 56, s_max) /\ AtMost(n_keys, 74, s_max) -> s_max \div 16
                        [] OTHER -> s_max \div 8
                 ELSE CASE AtMost(n_keys, 60, s_max) -> s_max \div 16
                        [] ~AtMost(n_keys, 60, s_max) /\ AtMost(n_keys, 80, s_max) -> s_max \div 8
                        [] OTHER -> s_max \div 4
    IN  <<1, Max({1, small, IF is_fast THEN s_max \div 8 ELSE 0})>>

guess_initial_parameters(n_keys, is_minimal, is_fast) ==
    LET Guess(s_bits, ab) == [s_bits |-> s_bits, a_max |-> ab[1], b_max |-> ab[2]]
        NonMinimal(s_bits) == Guess(s_bits, NonMinimalGuess(n_keys, is_fast, 2^s_bits))
        s == max_log2(n_keys)
    IN  IF is_minimal THEN Guess(s, MinimalGuess(n_keys, is_fast, s, 2^s))
        ELSE NonMinimal(IF is_fast /\ ~AtMost(n_keys, 80, 2^s) THEN s + 1 ELSE s)

(***************************************************************************)
(* scramble: a permutation of 0 .. 2^nbits - 1 that keeps 0.               *)
(***************************************************************************)

scramble_permute(x, nbits) ==
    LET Add(y, c) == (y + y * 2^c) % 2^nbits
        XorShift(y, c) == y ^^ (y \div 2^c)
        Round(y) == XorShift(Add(XorShift(Add(y, 1 + nbits \div 2), 1 + nbits \div 3),
                            1 + nbits \div 4), 1 + nbits \div 5)
    IN  FoldLeft(LAMBDA y, i : Round(y), x, [i \in 1..20 |-> i])

(* scramble_init *)
Scramble == [s_bits \in 0..4 |-> [i \in 0..V_LIMIT - 1 |-> scramble_permute(i, s_bits)]]

scramble(i) == Scramble[pm.s_bits][i]

-----------------------------------------------------------------------------
(* The part of phash_find_perfect_hash at new_s. *)
NewS(p) ==
    LET a_bits == IF p.b_bits = 0 THEN p.s_bits ELSE p.a_bits
        hash_max == IF p.is_minimal THEN p.n_keys ELSE 2^p.s_bits
    IN  [p EXCEPT !.a_bits = a_bits, !.hash_max = hash_max,
                  !.tabh = [h \in 0..hash_max - 1 |-> NONE]]

Init ==
    /\ \E n_keys \in KeyCounts, is_minimal, is_fast \in BOOLEAN :
         \E g \in {guess_initial_parameters(n_keys, is_minimal, is_fast)} :
           pm = NewS([n_keys |-> n_keys, is_minimal |-> is_minimal, is_fast |-> is_fast,
                      s_bits |-> g.s_bits, a_bits |-> min_log2(g.a_max),
                      b_bits |-> min_log2(g.b_max), hash_max |-> 0,
                      a |-> <<>>, b |-> <<>>, val_b |-> <<>>, water_b |-> <<>>, tabh |-> <<>>])
    /\ at = "seed" /\ n_tries_this_a_b = 0 /\ mapped = {}

Bs == 0..2^pm.b_bits - 1

(* What the mixing of a seed and the keys (init_keys_direct_u32 and the others)
   can give: as many different pairs as there are keys. *)
KeyPairs == kSubset(pm.n_keys, (0..2^pm.a_bits - 1) \X Bs)

(* init_tabb for a seed that gives the keys different pairs.  The keys of a b
   are then the ones with that b, in order. *)
Distinct ==
    \E pairs \in KeyPairs :
      \E s \in {SetToSortSeq(pairs, LAMBDA x, y : 64 * x[1] + x[2] < 64 * y[1] + y[2])} :
        /\ pm' = [pm EXCEPT !.a = [k \in 1..pm.n_keys |-> s[k][1]],
                            !.b = [k \in 1..pm.n_keys |-> s[k][2]],
                            !.val_b = [b \in Bs |-> 0], !.water_b = [b \in Bs |-> 0],
                            !.tabh = [h \in DOMAIN @ |-> NONE]]
        /\ at' = IF pm.b_bits = 0 THEN "done" ELSE "perfect"
        /\ mapped' = {}
        /\ UNCHANGED n_tries_this_a_b

SeedWorks == at = "seed" /\ pm.a_bits + pm.b_bits <= MAX_AB_BITS /\ Distinct

(* s_bits - want_minimal, where want_minimal is the flag, 8, and the difference
   is unsigned. *)
max_a_bits ==
    LET d == (pm.s_bits - IF pm.is_minimal THEN 8 ELSE 0) % 2^16
    IN  IF d < 1 THEN 1 ELSE d

MoreB(p) == [p EXCEPT !.b_bits = @ + 1]

(* Two keys have the same pair: another seed, or a pair of more bits.  The
   number of tries is not reset. *)
SeedCollides ==
    /\ at = "seed"
    /\ IF n_tries_this_a_b + 1 < N_TRIES
       THEN n_tries_this_a_b' = n_tries_this_a_b + 1 /\ UNCHANGED pm
       ELSE /\ pm.a_bits + pm.b_bits < MAX_AB_BITS
            /\ IF pm.a_bits < max_a_bits
               THEN pm' = [pm EXCEPT !.a_bits = @ + 1] /\ UNCHANGED n_tries_this_a_b
               ELSE IF pm.b_bits < pm.s_bits
               THEN pm' = MoreB(pm) /\ UNCHANGED n_tries_this_a_b
               ELSE pm' = NewS(pm) /\ n_tries_this_a_b' = 0
    /\ UNCHANGED <<at, mapped>>

(* perfect found no value for some b: increase_b. *)
PerfectFailed ==
    /\ at = "failed"
    /\ pm.a_bits + pm.b_bits <= MAX_AB_BITS
    /\ pm' = MoreB(pm)
    /\ at' = "seed"
    /\ UNCHANGED <<n_tries_this_a_b, mapped>>

(***************************************************************************)
(* perfect: t is the part of phash_main_t that augment changes, with tabq, *)
(* whose entry q is tabq[q + 1].                                           *)
(***************************************************************************)

KeysOf(b) == SelectSeq([k \in 1..pm.n_keys |-> k], LAMBDA k : pm.b[k] = b)

Hash(k, v) == pm.a[k] ^^ scramble(v)

\* Mutant: the codes the keys had before stay taken.
NotErased(t, b) == t.tabh

(* The old codes of the keys of b are taken out of tabh.  The code of a root,
   which has none yet, may be outside of tabh. *)
Erased(t, b) ==
    FoldLeft(LAMBDA tabh, k : IF /\ Hash(k, t.val_b[b]) \in DOMAIN tabh
                                 /\ tabh[Hash(k, t.val_b[b])] = k
                              THEN [tabh EXCEPT ![Hash(k, t.val_b[b])] = NONE] ELSE tabh,
             t.tabh, KeysOf(b))

(* The new ones are put in until one is taken: FALSE.  When changes are taken
   back nothing is looked at, and the root, which had no code, gets none. *)
Placed(tabh, b, v, rollback, is_root) ==
    FoldLeft(LAMBDA r, k :
               IF ~r.ok \/ (rollback /\ is_root) THEN r
               ELSE IF ~rollback /\ r.tabh[Hash(k, v)] # NONE THEN [r EXCEPT !.ok = FALSE]
               ELSE [r EXCEPT !.tabh[Hash(k, v)] = k],
             [tabh |-> tabh, ok |-> TRUE], KeysOf(b))

\* Mutant: after a collision the changes stay half made.
RECURSIVE ApplyOnce(_, _, _)
ApplyOnce(t, child, rollback) ==
    LET q == t.tabq[child + 1]
        Set(b, v, r) ==
          IF ~r.ok THEN [t |-> [t EXCEPT !.val_b[b] = v, !.tabh = r.tabh], ok |-> FALSE]
          ELSE ApplyOnce([t EXCEPT !.val_b[b] = v, !.tabh = r.tabh], q.parent_q, rollback)
        Change(b, v) == Set(b, v, Placed(Erased(t, b), b, v, rollback, q.parent_q = 0))
    IN  IF child = 0 THEN [t |-> t, ok |-> TRUE]
        ELSE Change(t.tabq[q.parent_q + 1].b_q, IF rollback THEN q.oldval_q ELSE q.newval_q)

(* apply from the queue's entry `child`; a collision takes back the whole path
   that begins at the last entry. *)
RECURSIVE apply(_, _, _)
apply(t, child, rollback) ==
    LET q == t.tabq[child + 1]
        Set(b, v, r) ==
          IF ~r.ok
          THEN [apply([t EXCEPT !.val_b[b] = v, !.tabh = r.tabh], Len(t.tabq) - 1, TRUE)
                  EXCEPT !.ok = FALSE]
          ELSE apply([t EXCEPT !.val_b[b] = v, !.tabh = r.tabh], q.parent_q, rollback)
        Change(b, v) == Set(b, v, Placed(Erased(t, b), b, v, rollback, q.parent_q = 0))
    IN  IF child = 0 THEN [t |-> t, ok |-> TRUE]
        ELSE Change(t.tabq[q.parent_q + 1].b_q, IF rollback THEN q.oldval_q ELSE q.newval_q)

(* The b whose keys are in the way of the keys of b with value v.  The code
   goes on when a second b is hit, and not when the first is hit again. *)
Child(t, b, v, high_water) ==
    LET Hit(r, hit) ==
          IF r.child # NONE
          THEN IF r.child = hit THEN [r EXCEPT !.ok = FALSE] ELSE r
          ELSE [r EXCEPT !.child = hit, !.ok = t.water_b[hit] # high_water]
        Look(r, hash) ==
          IF hash >= pm.hash_max THEN [r EXCEPT !.ok = FALSE]
          ELSE IF t.tabh[hash] = NONE THEN r
          ELSE Hit(r, pm.b[t.tabh[hash]])
    IN  FoldLeft(LAMBDA r, k : IF r.ok THEN Look(r, Hash(k, v)) ELSE r,
                 [child |-> NONE, ok |-> TRUE], KeysOf(b))

(* The search of augment from value v of entry q; the tree is the queue. *)
RECURSIVE Search(_, _, _, _)
Search(t, q, v, high_water) ==
    LET parent == t.tabq[q + 1].b_q
        Queued(c) ==
          [t EXCEPT !.water_b = IF c.child = NONE THEN @ ELSE [@ EXCEPT ![c.child] = high_water],
                    !.tabq = Append(@, [b_q |-> c.child, newval_q |-> v,
                                        oldval_q |-> t.val_b[parent], parent_q |-> q])]
        Applied(r) == IF r.ok THEN r
                      ELSE Search([r.t EXCEPT !.tabq = Front(@)], q, v + 1, high_water)
        Tried(c) ==
          IF ~c.ok THEN Search(t, q, v + 1, high_water)
          ELSE IF c.child # NONE THEN Search(Queued(c), q, v + 1, high_water)
          ELSE Applied(apply(Queued(c), Len(t.tabq), FALSE))
    IN  IF q = Len(t.tabq) \/ (pm.is_fast /\ ~pm.is_minimal /\ q = 1) THEN [t |-> t, ok |-> FALSE]
        ELSE IF v = V_LIMIT THEN Search(t, q + 1, 0, high_water)
        ELSE Tried(Child(t, parent, v, high_water))

augment(b_root, high_water) ==
    Search([val_b |-> pm.val_b, water_b |-> pm.water_b, tabh |-> pm.tabh,
            tabq |-> <<[b_q |-> b_root, newval_q |-> 0, oldval_q |-> 0, parent_q |-> 0]>>],
           0, 0, high_water)

(* The loop of perfect: the bs with most keys first, those with as many in any
   order (vec_sort is not stable). *)
Augment ==
    /\ at = "perfect" /\ mapped # Bs
    /\ \E b \in Bs \ mapped :
         /\ \A c \in Bs \ mapped : Len(KeysOf(c)) <= Len(KeysOf(b))
         /\ \E r \in {augment(b, Cardinality(mapped) + 1)} :
              /\ pm' = [pm EXCEPT !.val_b = r.t.val_b, !.water_b = r.t.water_b, !.tabh = r.t.tabh]
              /\ IF r.ok THEN mapped' = mapped \cup {b} /\ UNCHANGED at
                 ELSE at' = "failed" /\ UNCHANGED mapped
    /\ UNCHANGED n_tries_this_a_b

(* All bs have a value: the mapping table is made and working memory freed. *)
Found ==
    /\ at = "perfect" /\ mapped = Bs
    /\ at' = "done"
    /\ UNCHANGED <<pm, n_tries_this_a_b, mapped>>

Next == SeedWorks \/ SeedCollides \/ PerfectFailed \/ Augment \/ Found

Spec == Init /\ [][Next]_vars

-----------------------------------------------------------------------------
(* phash_hash_slow, without PHASH_FLAG_USE_SCRAMBLE: tab[b] is scrambled when
   it is made. *)
phash_hash_slow(k) == pm.a[k] ^^ scramble(pm.val_b[pm.b[k]])

phash_validate ==
    /\ \A k \in 1..pm.n_keys : phash_hash_slow(k) \in 0..pm.hash_max - 1
    /\ \A k, l \in 1..pm.n_keys : k # l => phash_hash_slow(k) # phash_hash_slow(l)

(* A hash that is found is perfect, "Verify that perfect hash is perfect", and
   minimal when asked for; and whatever changes were made along search paths
   and taken back, tabh is what the values of the bs say it is, no more and no
   less. *)
FoundHashIsPerfect ==
    /\ at = "done" => phash_validate
    /\ at \in {"perfect", "failed"} =>
         pm.tabh = [h \in 0..pm.hash_max - 1 |->
                      LET ks == {k \in 1..pm.n_keys : pm.b[k] \in mapped /\ phash_hash_slow(k) = h}
                      IN  IF ks = {} THEN NONE ELSE Max(ks)]
    /\ at \in {"perfect", "failed"} =>
         \A k, l \in 1..pm.n_keys : k # l /\ {pm.b[k], pm.b[l]} \subseteq mapped =>
             phash_hash_slow(k) # phash_hash_slow(l)
=============================================================================
