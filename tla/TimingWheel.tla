----------------------------- MODULE TimingWheel -----------------------------
(***************************************************************************)
(* The timing wheel of timing_wheel.c: levels of bins_per_wheel time bins, *)
(* level l for times at least bins_per_wheel + ... + bins_per_wheel^l bins *)
(* ahead.  An element holds its time relative to cpu_time_base in          *)
(* RelativeBits bits; later times wait in an overflow pool.  A deletion    *)
(* only marks the user data.                                               *)
(*                                                                         *)
(* A bin is a set: a user data has at most one element, since an insertion *)
(* after a deletion first removes the deleted element, and users insert    *)
(* user data that is not on the wheel.  Levels that were never used are    *)
(* empty levels here.                                                      *)
(***************************************************************************)
EXTENDS Integers, FiniteSets, FiniteSetsExt

CONSTANTS Users,                  \* the user data
          log2_clocks_per_bin,
          log2_bins_per_wheel,
          RelativeBits,           \* bits of cpu_time_relative_to_base (32)
          n_wheel_elt_time_bits,  \* 31
          StartTime,              \* current_cpu_time of timing_wheel_init
          MaxTime,                \* bound: the last time that is reached
          MaxAhead,               \* bound: how far ahead elements are inserted
          MaxAdvance,             \* bound: clocks of one timing_wheel_advance
          AskNext                 \* whether next_expiring_element_cpu_time is given

ASSUME WheelAssumption ==
  /\ log2_clocks_per_bin \in Nat /\ log2_bins_per_wheel \in Nat \ {0}
  /\ n_wheel_elt_time_bits \in log2_clocks_per_bin .. RelativeBits - 1
  /\ StartTime \in Nat \ {0} /\ MaxTime \in Nat
  /\ MaxAhead \in Nat /\ MaxAdvance \in Nat /\ AskNext \subseteq BOOLEAN

NONE == -1
bins_per_wheel == 2 ^ log2_bins_per_wheel
Wheel == 0 .. bins_per_wheel - 1
TimeIndex(t) == t \div 2 ^ log2_clocks_per_bin
Delta == 2 ^ n_wheel_elt_time_bits

(* The first distance, in bins, that belongs to a level.                   *)
LevelStart(l) == (bins_per_wheel ^ (l + 1) - bins_per_wheel) \div (bins_per_wheel - 1)
Levels == 0 .. Min({l \in 0 .. RelativeBits : LevelStart(l + 1) > 2 ^ RelativeBits})

VARIABLES
  levels,                 \* [level -> [wheel index -> set of elements]]
  overflow_pool,
  deleted_user_data_hash,
  current_time_index, cpu_time_base, time_index_next_cpu_time_base_update,
  cached_min_cpu_time_on_wheel,
  expired_user_data,      \* what the last call returned
  next_expiring,          \* the time that the last call returned, if asked to
  live                    \* history: when each user data is to expire

wheel == <<levels, overflow_pool, current_time_index, cpu_time_base,
           time_index_next_cpu_time_base_update>>
vars == <<levels, overflow_pool, deleted_user_data_hash, current_time_index,
          cpu_time_base, time_index_next_cpu_time_base_update,
          cached_min_cpu_time_on_wheel, expired_user_data, next_expiring, live>>

NoTime == 2 ^ 30          \* ~0: later than every time of the model

-----------------------------------------------------------------------------
(* Where an element goes.  W is the wheel between two steps of a call:     *)
(* [levels, overflow, now, base, update].                                  *)

get_level(dt) == CHOOSE l \in Levels : LevelStart(l) <= dt /\ dt < LevelStart(l + 1)


relative_time(dt) == (dt - LevelStart(get_level(dt))) \div bins_per_wheel ^ get_level(dt)

time_index_to_wheel_index(l, ti) == (ti \div bins_per_wheel ^ l) % bins_per_wheel
wheel_add(x) == x % bins_per_wheel
rtime_to_wheel_index(l, rtime, now) ==
  wheel_add(time_index_to_wheel_index(l, now) + rtime)

elt_cpu_time(W, e) == W.base + e.cpu_time_relative_to_base

(* One bit more than the field has (a mutant of FitsRelative).             *)
FitsOneBitMore(W, t) == t >= W.base /\ t - W.base < 2 ^ (RelativeBits + 1)

(* The difference is taken as an unsigned one.                             *)
FitsRelative(W, t) == t >= W.base /\ t - W.base < 2 ^ RelativeBits

timing_wheel_insert_helper(W, t, u) ==
  LET dt == TimeIndex(t) - W.now
      l == get_level(dt)
      wi == rtime_to_wheel_index(l, relative_time(dt), W.now)
  IN IF FitsRelative(W, t)
     THEN [W EXCEPT !.levels[l][wi] =
             @ \union {[user_data |-> u, cpu_time_relative_to_base |-> t - W.base]}]
     ELSE [W EXCEPT !.overflow = @ \union {[user_data |-> u, cpu_time |-> t]}]

(* Inserting a set of [user_data, cpu_time]: the order does not matter.    *)
InsertAll(W, S) ==
  FoldSet(LAMBDA e, X : timing_wheel_insert_helper(X, e.cpu_time, e.user_data), W, S)

Now == [levels |-> levels, overflow |-> overflow_pool, now |-> current_time_index,
        base |-> cpu_time_base, update |-> time_index_next_cpu_time_base_update]
Become(W) ==
  /\ levels' = W.levels
  /\ overflow_pool' = W.overflow
  /\ current_time_index' = W.now
  /\ cpu_time_base' = W.base
  /\ time_index_next_cpu_time_base_update' = W.update

-----------------------------------------------------------------------------
(* Insertion and deletion                                                  *)

(* A deleted element in the overflow pool survives (a mutant of Purged).   *)
LevelsPurged(W, u) ==
  [W EXCEPT !.levels = [l \in Levels |-> [wi \in Wheel |->
                          {e \in W.levels[l][wi] : e.user_data # u}]]]

Purged(W, u) ==
  [W EXCEPT !.levels = [l \in Levels |-> [wi \in Wheel |->
                          {e \in W.levels[l][wi] : e.user_data # u}]],
            !.overflow = {e \in @ : e.user_data # u}]

timing_wheel_insert(u, t) ==
  LET W == IF u \in deleted_user_data_hash THEN Purged(Now, u) ELSE Now
  IN /\ live[u] = NONE
     /\ Become(timing_wheel_insert_helper(W, t, u))
     /\ deleted_user_data_hash' = deleted_user_data_hash \ {u}
     /\ live' = [live EXCEPT ![u] = t]
     /\ expired_user_data' = {} /\ next_expiring' = NONE
     /\ UNCHANGED cached_min_cpu_time_on_wheel

timing_wheel_delete(u) ==
  /\ live[u] # NONE
  /\ deleted_user_data_hash' = deleted_user_data_hash \union {u}
  /\ live' = [live EXCEPT ![u] = NONE]
  /\ expired_user_data' = {} /\ next_expiring' = NONE
  /\ UNCHANGED <<wheel, cached_min_cpu_time_on_wheel>>

-----------------------------------------------------------------------------
(* Advancing                                                               *)

(* The wheel indices from c to a, going round.                             *)
Round(c, a) == {wheel_add(c + k) : k \in 0 .. wheel_add(a - c)}

(* Refilling starts behind the current bin (a mutant of RefilledBins).     *)
RefilledBinsButFirst(l, from, to) ==
  LET cti == from \div bins_per_wheel ^ (l + 1)
      ati == to \div bins_per_wheel ^ (l + 1)
  IN IF cti # ati /\ wheel_add(cti) # wheel_add(ati)
     THEN Round(wheel_add(cti), wheel_add(ati)) \ {wheel_add(cti)} ELSE {}

(* The bins of level l + 1 that refill_level empties: those of the times   *)
(* passed, unless the wheel has gone round to where it was.                *)
RefilledBins(l, from, to) ==
  LET cti == from \div bins_per_wheel ^ (l + 1)
      ati == to \div bins_per_wheel ^ (l + 1)
  IN IF cti # ati /\ wheel_add(cti) # wheel_add(ati)
     THEN Round(wheel_add(cti), wheel_add(ati)) ELSE {}

Refilled(from, to) ==
  UNION {levels[l + 1][wi] : <<l, wi>> \in
           {x \in (Levels \ {Max(Levels)}) \X Wheel : x[2] \in RefilledBins(x[1], from, to)}}

(* The bins that expire as they are: whole levels below the one of the     *)
(* advance, and on that one the bins up to its wheel index.                *)
ExpiredBins(l, from, to) ==
  LET al == get_level(to - from)
      awi == rtime_to_wheel_index(al, relative_time(to - from), from)
  IN CASE l < al -> Wheel
       [] l = al -> Round(time_index_to_wheel_index(l, from), awi)
       [] OTHER -> {}

(* advance_cpu_time_base: times become relative to a later base, and the   *)
(* overflow elements that fit now go on the wheel, unless they are late.   *)
Rebased(W) ==
  LET base == W.base + Delta
      older == [W EXCEPT
        !.base = base,
        !.update = @ + TimeIndex(Delta),
        !.levels = [l \in Levels |-> [wi \in Wheel |->
          {[e EXCEPT !.cpu_time_relative_to_base = @ - Delta] : e \in W.levels[l][wi]}]]]
      fit == {e \in W.overflow : FitsRelative(older, e.cpu_time)}
      late == {e \in fit : TimeIndex(e.cpu_time) < W.now}
  IN [wheel |-> InsertAll([older EXCEPT !.overflow = @ \ fit], fit \ late),
      late |-> {e.user_data : e \in late}]

advance_cpu_time_base(W) ==
  LET n == IF W.now < W.update THEN 0
           ELSE (W.now - W.update) \div TimeIndex(Delta) + 1
      after[i \in 0 .. n] ==
        IF i = 0 THEN [wheel |-> W, late |-> {}]
        ELSE LET r == Rebased(after[i - 1].wheel)
             IN [r EXCEPT !.late = @ \union after[i - 1].late]
  IN after[n]

NotDeleted(S) == S \ deleted_user_data_hash

(* The wheel after an advance to time index to, and what has expired.      *)
Advanced(to) ==
  LET from == current_time_index
      due(e) == TimeIndex(elt_cpu_time(Now, e)) <= to
      refilled == Refilled(from, to)
      emptied(l) == IF l = 0 THEN {} ELSE RefilledBins(l - 1, from, to)
      expired == UNION {levels[l][wi] : <<l, wi>> \in
                   {x \in Levels \X Wheel :
                      x[2] \in ExpiredBins(x[1], from, to) \ emptied(x[1])}}
      kept == [Now EXCEPT !.now = to,
                          !.levels = [l \in Levels |-> [wi \in Wheel |->
                            IF wi \in ExpiredBins(l, from, to) \union emptied(l)
                            THEN {} ELSE levels[l][wi]]]]
      pending == {[user_data |-> e.user_data, cpu_time |-> elt_cpu_time(Now, e)] :
                    e \in {x \in refilled : ~ due(x)}}
      rebased == advance_cpu_time_base(InsertAll(kept, pending))
  IN [wheel |-> rebased.wheel, late |-> NotDeleted(rebased.late),
      expired |-> NotDeleted({e.user_data : e \in expired \union {x \in refilled : due(x)}})]

(* timing_wheel_next_expiring_elt_time.                                    *)
FirstOccupied(W, l) ==
  LET wi0 == time_index_to_wheel_index(l, W.now)
      k == {i \in Wheel : W.levels[l][wheel_add(wi0 + i)] # {}}
  IN IF k = {} THEN NONE ELSE Min(k)
timing_wheel_next_expiring_elt_time(W) ==
  LET occupied == {l \in Levels : FirstOccupied(W, l) # NONE}
      l == Min(occupied)
      bin(li, i) == W.levels[li][wheel_add(time_index_to_wheel_index(li, W.now) + i)]
      found == bin(l, FirstOccupied(W, l))
      above == IF FirstOccupied(W, l) > 0 /\ l + 1 \in Levels THEN bin(l + 1, 0) ELSE {}
  IN IF occupied # {}
     THEN Min({elt_cpu_time(W, e) : e \in found \union above})
     ELSE Min({e.cpu_time : e \in W.overflow} \union {NoTime})

(* The element vector is passed to advance_cpu_time_base by value: late    *)
(* elements are lost when adding them moves the vector.                    *)
timing_wheel_advance(t, want_next, moved) ==
  LET A == Advanced(TimeIndex(t))
      out == A.expired \union (IF moved THEN {} ELSE A.late)
      min_t == IF out = {} /\ cached_min_cpu_time_on_wheel # 0
               THEN cached_min_cpu_time_on_wheel
               ELSE timing_wheel_next_expiring_elt_time(A.wheel)
  IN /\ TimeIndex(t) >= current_time_index
     /\ Become(A.wheel)
     /\ expired_user_data' = out
     /\ cached_min_cpu_time_on_wheel' =
          IF want_next THEN min_t ELSE cached_min_cpu_time_on_wheel
     /\ next_expiring' = IF want_next THEN min_t ELSE NONE
     /\ live' = [u \in Users |->
          IF live[u] # NONE /\ TimeIndex(live[u]) <= TimeIndex(t) THEN NONE ELSE live[u]]
     /\ UNCHANGED deleted_user_data_hash

-----------------------------------------------------------------------------
Init ==
  /\ levels = [l \in Levels |-> [wi \in Wheel |-> {}]]
  /\ overflow_pool = {}
  /\ deleted_user_data_hash = {}
  /\ current_time_index = TimeIndex(StartTime)
  /\ cpu_time_base = StartTime
  /\ time_index_next_cpu_time_base_update
       = TimeIndex(StartTime) + 2 ^ (n_wheel_elt_time_bits - log2_clocks_per_bin)
  /\ cached_min_cpu_time_on_wheel = 0
  /\ expired_user_data = {}
  /\ next_expiring = NONE
  /\ live = [u \in Users |-> NONE]

CurrentTime == current_time_index * 2 ^ log2_clocks_per_bin

Insert == \E u \in Users, t \in CurrentTime .. CurrentTime + MaxAhead :
            t >= StartTime /\ timing_wheel_insert(u, t)
Delete == \E u \in Users : timing_wheel_delete(u)
Advance == \E t \in CurrentTime .. CurrentTime + MaxAdvance,
              want_next \in AskNext, moved \in BOOLEAN :
             t <= MaxTime /\ t >= StartTime /\ timing_wheel_advance(t, want_next, moved)
Next == Insert \/ Delete \/ Advance
Spec == Init /\ [][Next]_vars

-----------------------------------------------------------------------------
OnWheel == UNION {levels[l][wi] : <<l, wi>> \in Levels \X Wheel}
Scheduled == {[user_data |-> e.user_data, cpu_time |-> elt_cpu_time(Now, e)] : e \in OnWheel}
               \union overflow_pool

(* Times relative to the base stay in the field of timing_wheel_elt_t.     *)
TypeOK ==
  /\ \A e \in OnWheel : e.user_data \in Users
                     /\ e.cpu_time_relative_to_base \in 0 .. 2 ^ RelativeBits - 1
  /\ \A e \in overflow_pool : e.user_data \in Users /\ e.cpu_time \in Nat
  /\ deleted_user_data_hash \subseteq Users
  /\ current_time_index \in Nat /\ cpu_time_base \in Nat
  /\ current_time_index < time_index_next_cpu_time_base_update
  /\ expired_user_data \subseteq Users

(* What validate_level asserts of the elements of a level: each is in the  *)
(* bin that its time asks for as seen from the current time, or beside it, *)
(* or has come so near that the level below would be asked for and would   *)
(* have to wrap.  With two bins a wheel this holds after every step.  With *)
(* four it does not: an element put on level 2, 20 bins ahead, is 19 bins  *)
(* ahead after the next bin, where level 1 is asked for and does not wrap. *)
validate_level(W, l) ==
  \A wi \in Wheel : \A e \in W.levels[l][wi] :
    LET dt == TimeIndex(elt_cpu_time(W, e)) - W.now
        e_li == get_level(dt)
        e_ti == relative_time(dt)
        e_wi == rtime_to_wheel_index(l, e_ti, W.now)
    IN  /\ dt >= 0
        /\ IF e_li = l - 1
           THEN e_ti + time_index_to_wheel_index(l - 1, W.now) >= bins_per_wheel
           ELSE e_li = l /\ (e_wi = wi \/ (l > 0 /\ wi \in {e_wi - 1, e_wi + 1}))

(* The time, in bins of level l, at which bin wi of the level is emptied   *)
(* next, and how many of these bins before its time an element may be.     *)
NextTurn(l, wi) ==
  LET now == current_time_index \div bins_per_wheel ^ l
  IN now + wheel_add(wi - now)
BinsBefore(l) == CASE l = 0 -> {0} [] l = 1 -> {1, 2} [] OTHER -> {1, 2, 3}

(* Every element is in the bin that its time asks for, whatever the wheel  *)
(* has: on level 0 the bin of its time, on a level above it one that comes *)
(* round before its time by the bins which the levels below make up for.   *)
InItsBin ==
  \A l \in Levels, wi \in Wheel : \A e \in levels[l][wi] :
    TimeIndex(elt_cpu_time(Now, e)) \div bins_per_wheel ^ l - NextTurn(l, wi) \in BinsBefore(l)

(* Every user data that waits has one element, with the time it was        *)
(* inserted with, however often it was moved between levels, rebased and   *)
(* taken out of the overflow pool; other elements are deleted ones.  An    *)
(* element is in the overflow pool only while its time does not fit.       *)
ScheduledAsInserted ==
  /\ InItsBin
  /\ \A e \in overflow_pool : ~FitsRelative(Now, e.cpu_time)
  /\ \A u \in Users : live[u] # NONE =>
       {e.cpu_time : e \in {x \in Scheduled : x.user_data = u}} = {live[u]}
  /\ \A e \in Scheduled : live[e.user_data] = NONE =>
       e.user_data \in deleted_user_data_hash
  /\ Cardinality({e.user_data : e \in Scheduled})
       = Cardinality(overflow_pool)
           + Cardinality({<<l, wi, e>> \in Levels \X Wheel \X OnWheel : e \in levels[l][wi]})

(* An advance returns exactly the user data whose time bin has been        *)
(* reached: nothing early, nothing late, nothing deleted.                  *)
ExpiresDue ==
  current_time_index' # current_time_index \/ expired_user_data' # {} =>
    expired_user_data' = {u \in Users : live[u] # NONE
                            /\ TimeIndex(live[u]) <= current_time_index'}
ExpiresWhenDue == [][ExpiresDue]_vars
=============================================================================
