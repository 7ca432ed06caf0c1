----------------------------- MODULE ElogProofs -----------------------------
(***************************************************************************)
(* What elog_peek_events shows, and what is left of the event at which     *)
(* logging was to end, for every number of writers, of types and of places *)
(* in the ring.                                                            *)
(***************************************************************************)
EXTENDS Elog, ArithmeticTheorems, FiniteSetTheorems, SequenceTheorems

Places == 0 .. RING_SIZE - 1
Steps == {"idle", "register", "add_type", "take", "header", "data"}

WriterStates == [at : Steps, type : Types \cup {NONE}, ti : Nat \cup {NONE},
                 ei : Places \cup {NONE}]

TypeInv ==
  /\ n_total_events \in Nat /\ disable_limit \in Nat
  /\ event_ring \in [Places -> [type : Nat, data : Types \cup {NONE}]]
  /\ event_types \in Seq(Types)
  /\ type_index \in [Types -> Nat]
  /\ smp_lock \in Writers \cup {NOBODY}
  /\ writer \in [Writers -> WriterStates]
  /\ \A w \in Writers : writer[w].at # "idle" => writer[w].type \in Types
  /\ \A w \in Writers : writer[w].at \in {"take", "header", "data"} => writer[w].ti \in Nat
  /\ \A w \in Writers : writer[w].at \in {"header", "data"} => writer[w].ei \in Places
  /\ taken \in Seq(Types) /\ Len(taken) = n_total_events

(* One writer at a time registers a type.                                  *)
LockInv == \A w \in Writers : writer[w].at = "add_type" <=> smp_lock = w

(* A type index stands for a type that is in the vector, or that the       *)
(* writer with the lock is about to put there.                             *)
Registering(t) == \E w \in Writers : writer[w].at = "add_type" /\ writer[w].type = t
Resolved(ti, t) ==
  \/ ti \in 1 .. Len(event_types) /\ event_types[ti] = t
  \/ ti = Len(event_types) + 1 /\ Registering(t)
IndexInv ==
  /\ \A t \in Types : type_index[t] # 0 => Resolved(type_index[t], t)
  /\ \A w \in Writers : writer[w].at \in {"take", "header", "data"} =>
       Resolved(writer[w].ti, writer[w].type)

(* The place of an event is in the hands of its writer alone, or written;  *)
(* or a slow writer still had it when it was taken again.                  *)
Holds(w, i) == writer[w].at \in {"header", "data"} /\ writer[w].ei = i
Written(i, t) == Resolved(event_ring[i].type, t) /\ event_ring[i].data = t
BeingWritten(w, i, t) ==
  /\ Holds(w, i) /\ writer[w].type = t
  /\ \A v \in Writers : Holds(v, i) => v = w
  /\ writer[w].at = "data" => event_ring[i].type = writer[w].ti
Shown(i, t) ==
  \/ i \in overlapped
  \/ \E w \in Writers : BeingWritten(w, i, t)
  \/ (\A w \in Writers : ~Holds(w, i)) /\ Written(i, t)
InRing(n) == n < n_total_events /\ n_total_events <= n + RING_SIZE
RingInv == \A n \in Nat : InRing(n) => Shown(n % RING_SIZE, taken[n + 1])

(* The writers that found the log enabled and have no number yet.          *)
Pending == {w \in Writers : writer[w].at \in {"register", "add_type", "take"}}
LimitInv == n_total_events + Cardinality(Pending) <= disable_limit + Cardinality(Writers)

ElogInv == TypeInv /\ LockInv /\ IndexInv /\ RingInv /\ LimitInv

-----------------------------------------------------------------------------
(* There are finitely many writers, and so pending ones.                   *)
LEMMA PendingCount ==
  /\ IsFiniteSet(Pending) /\ Cardinality(Pending) \in Nat
  /\ Cardinality(Writers) \in Nat /\ Cardinality(Pending) <= Cardinality(Writers)
<1>1. Pending \subseteq Writers
  BY DEF Pending
<1> QED BY <1>1, WritersAssumption, FS_Subset, FS_CardinalityType

(* An event's place in the ring.                                           *)
LEMMA PlaceOf == ASSUME NEW n \in Nat PROVE n % RING_SIZE \in Places
BY RingAssumption, DivMod DEF Places

(* elog_init establishes the invariant.                                    *)
LEMMA InitInv ==
  ASSUME Init
  PROVE  ElogInv
<1>1. UNLIMITED \in Nat
  BY PendingCount, EventsAssumption DEF UNLIMITED
<1>2. IDLE \in WriterStates /\ IDLE.at = "idle"
  BY DEF IDLE, WriterStates, Steps
<1>3. <<>> \in Seq(Types) /\ Len(<<>>) = 0
  BY EmptySeq
<1>4. TypeInv
  BY <1>1, <1>2, <1>3 DEF Init, TypeInv, Places
<1>5. LockInv
  BY <1>2, WritersAssumption DEF Init, LockInv
<1>6. IndexInv
  BY <1>2 DEF Init, IndexInv
<1>7. RingInv
  BY DEF Init, RingInv, InRing
<1>8. Pending = {}
  BY <1>2 DEF Init, Pending
<1>9. LimitInv
  BY <1>1, <1>8, FS_EmptySet, PendingCount DEF Init, LimitInv
<1> QED BY <1>4, <1>5, <1>6, <1>7, <1>9 DEF ElogInv

-----------------------------------------------------------------------------
(* A step of one writer, as far as the others are concerned.               *)
OnlyWriter(w) ==
  /\ writer' \in [Writers -> WriterStates]
  /\ \A v \in Writers : v # w => writer'[v] = writer[v]

(* As long as no type is added and nobody else gets the lock, indices go   *)
(* on standing for their types.                                            *)
LEMMA ResolvedKept ==
  ASSUME NEW w \in Writers, OnlyWriter(w), UNCHANGED event_types,
         writer[w].at # "add_type",
         NEW ti, NEW t, Resolved(ti, t)
  PROVE  Resolved(ti, t)'
<1>1. Registering(t) => Registering(t)'
  BY DEF Registering, OnlyWriter
<1> QED BY <1>1 DEF Resolved

(* A writer's step that holds no place, before and after, leaves what is   *)
(* shown as it is.                                                         *)
LEMMA ShownKept ==
  ASSUME NEW w \in Writers, OnlyWriter(w),
         \A ti, t : Resolved(ti, t) => Resolved(ti, t)',
         NEW i \in Places, NEW t, Shown(i, t),
         i \in overlapped => i \in overlapped',
         ~Holds(w, i), ~Holds(w, i)',
         event_ring'[i] = event_ring[i]
  PROVE  Shown(i, t)'
<1>1. CASE i \in overlapped
  BY <1>1 DEF Shown
<1>2. CASE \E v \in Writers : BeingWritten(v, i, t)
  <2>1. PICK v \in Writers : BeingWritten(v, i, t)
    BY <1>2
  <2>2. v # w /\ writer'[v] = writer[v]
    BY <2>1 DEF BeingWritten, OnlyWriter
  <2>3. \A u \in Writers : Holds(u, i)' => u = v
    BY <2>1 DEF BeingWritten, Holds, OnlyWriter
  <2>4. BeingWritten(v, i, t)'
    BY <2>1, <2>2, <2>3 DEF BeingWritten, Holds
  <2> QED BY <2>4 DEF Shown
<1>3. CASE (\A v \in Writers : ~Holds(v, i)) /\ Written(i, t)
  <2>1. \A v \in Writers : ~Holds(v, i)'
    BY <1>3 DEF Holds, OnlyWriter
  <2>2. Written(i, t)'
    BY <1>3 DEF Written
  <2> QED BY <2>1, <2>2 DEF Shown
<1> QED BY <1>1, <1>2, <1>3 DEF Shown

(* The ring is shown as before when a writer goes on that holds nothing.   *)
LEMMA RingKept ==
  ASSUME ElogInv, NEW w \in Writers, OnlyWriter(w),
         \A ti, t : Resolved(ti, t) => Resolved(ti, t)',
         writer[w].at \notin {"header", "data"}, writer'[w].at \notin {"header", "data"},
         UNCHANGED <<n_total_events, event_ring, taken, overlapped>>
  PROVE  RingInv'
<1> SUFFICES ASSUME NEW n \in Nat, InRing(n)
             PROVE  Shown(n % RING_SIZE, taken[n + 1])'
  BY DEF RingInv, InRing
<1> DEFINE i == n % RING_SIZE
<1>1. PICK t : t = taken[n + 1]
  OBVIOUS
<1>2. i \in Places /\ Shown(i, t)
  BY <1>1, PlaceOf DEF ElogInv, RingInv
<1>3. ~Holds(w, i) /\ ~Holds(w, i)'
  BY DEF Holds
<1> HIDE DEF i
<1>4. Shown(i, t)'
  BY <1>2, <1>3, ShownKept, Zenon
<1>5. taken'[n + 1] = t
  BY <1>1
<1> QED BY <1>4, <1>5 DEF i

-----------------------------------------------------------------------------
(* elog_event_data_inline finds the log enabled: one more event may come.  *)
LEMMA BeginKeeps ==
  ASSUME ElogInv, NEW w \in Writers, NEW t \in Types, Begin(w, t)
  PROVE  ElogInv'
<1> USE DEF ElogInv
<1> DEFINE new == [at |-> IF type_index[t] = 0 THEN "register" ELSE "take",
                   type |-> t, ti |-> type_index[t], ei |-> NONE]
<1>1. /\ writer[w].at = "idle" /\ n_total_events < disable_limit
      /\ writer' = [writer EXCEPT ![w] = new]
      /\ UNCHANGED <<n_total_events, disable_limit, event_ring, event_types, type_index,
                     smp_lock, taken, overlapped>>
  BY DEF Begin, elog_is_enabled, log, history
<1>2. new \in WriterStates /\ type_index[t] \in Nat
  BY DEF TypeInv, WriterStates, Steps
<1>3. OnlyWriter(w) /\ writer'[w] = new
  BY <1>1, <1>2 DEF TypeInv, OnlyWriter
<1>4. \A ti, x : Resolved(ti, x) => Resolved(ti, x)'
  BY <1>1, <1>3, ResolvedKept
<1>5. TypeInv'
  BY <1>1, <1>2, <1>3 DEF TypeInv, OnlyWriter
<1>6. LockInv'
  BY <1>1, <1>3 DEF TypeInv, LockInv, OnlyWriter
<1>7. IndexInv'
  BY <1>1, <1>3, <1>4 DEF IndexInv, OnlyWriter
<1>8. RingInv'
  BY <1>1, <1>3, <1>4, RingKept
<1>9. LimitInv'
  <2>1. Pending' = Pending \cup {w} /\ w \notin Pending
    BY <1>1, <1>3 DEF Pending, OnlyWriter
  <2>2. Cardinality(Pending') = Cardinality(Pending) + 1
    BY <2>1, PendingCount, FS_AddElement
  <2>3. Cardinality(Pending \cup {w}) <= Cardinality(Writers)
    <3>1. Pending \cup {w} \subseteq Writers
      BY DEF Pending
    <3> QED BY <3>1, WritersAssumption, FS_Subset
  <2> QED BY <1>1, <2>1, <2>2, <2>3, PendingCount DEF LimitInv, TypeInv
<1> QED BY <1>5, <1>6, <1>7, <1>8, <1>9

(* elog_event_type_register takes the lock; nobody else is adding a type.  *)
LEMMA RegisterLockKeeps ==
  ASSUME ElogInv, NEW w \in Writers, RegisterLock(w)
  PROVE  ElogInv'
<1> USE DEF ElogInv
<1>1. /\ writer[w].at = "register" /\ smp_lock = NOBODY /\ smp_lock' = w
      /\ writer' = [writer EXCEPT ![w].at = "add_type"]
      /\ type_index' = [type_index EXCEPT ![writer[w].type] = 1 + Len(event_types)]
      /\ UNCHANGED <<n_total_events, disable_limit, event_ring, event_types, taken, overlapped>>
  BY DEF RegisterLock, log, history
<1>2. /\ OnlyWriter(w) /\ writer'[w].at = "add_type"
      /\ writer'[w].type = writer[w].type /\ writer[w].type \in Types
  BY <1>1 DEF TypeInv, OnlyWriter, WriterStates, Steps
<1>3. \A ti, x : Resolved(ti, x) => Resolved(ti, x)'
  BY <1>1, <1>2, ResolvedKept
<1>4. TypeInv'
  <2>1. type_index' \in [Types -> Nat]
    BY <1>1, LenProperties DEF TypeInv
  <2> QED BY <1>1, <1>2, <2>1 DEF TypeInv, OnlyWriter
<1>5. LockInv'
  BY <1>1, <1>2, WritersAssumption DEF LockInv, OnlyWriter
<1>6. IndexInv'
  <2>1. Resolved(1 + Len(event_types), writer[w].type)'
    <3>1. Registering(writer[w].type)'
      BY <1>2 DEF Registering
    <3> QED BY <1>1, <1>2, <3>1, LenProperties DEF Resolved, TypeInv
  <2>2. \A x \in Types : type_index'[x] # 0 => Resolved(type_index[x], x)'
    BY <1>1, <1>2, <1>3, <2>1 DEF IndexInv, TypeInv
  <2> QED BY <1>1, <1>2, <1>3, <2>2 DEF IndexInv, OnlyWriter
<1>7. RingInv'
  BY <1>1, <1>2, <1>3, RingKept
<1>8. LimitInv'
  <2>1. Pending' = Pending
    BY <1>1, <1>2 DEF Pending, OnlyWriter
  <2> QED BY <1>1, <2>1 DEF LimitInv
<1> QED BY <1>4, <1>5, <1>6, <1>7, <1>8

(* vec_add1 puts the type where its index was said to be.                  *)
LEMMA RegisterAddKeeps ==
  ASSUME ElogInv, NEW w \in Writers, RegisterAdd(w)
  PROVE  ElogInv'
<1> USE DEF ElogInv
<1>1. /\ writer[w].at = "add_type" /\ smp_lock = w /\ smp_lock' = NOBODY
      /\ event_types' = Append(event_types, writer[w].type)
      /\ writer' = [writer EXCEPT ![w].at = "take", ![w].ti = 1 + Len(event_types)]
      /\ UNCHANGED <<n_total_events, disable_limit, event_ring, type_index, taken, overlapped>>
  BY DEF RegisterAdd, log, history, LockInv
<1>2. Len(event_types) \in Nat /\ writer[w].type \in Types
  BY <1>1, LenProperties DEF TypeInv
<1>3. /\ event_types' \in Seq(Types)
      /\ Len(event_types') = Len(event_types) + 1
      /\ \A k \in 1 .. Len(event_types) : event_types'[k] = event_types[k]
      /\ event_types'[Len(event_types) + 1] = writer[w].type
  BY <1>1, <1>2, AppendProperties DEF TypeInv
<1>4. /\ OnlyWriter(w) /\ writer'[w].at = "take"
      /\ writer'[w].type = writer[w].type /\ writer'[w].ti = 1 + Len(event_types)
  <2>1. PICK s : s = [writer[w] EXCEPT !.at = "take", !.ti = 1 + Len(event_types)]
    OBVIOUS
  <2>2. /\ s \in WriterStates /\ s.at = "take"
        /\ s.type = writer[w].type /\ s.ti = 1 + Len(event_types)
    <3>1. writer[w] \in WriterStates
      BY DEF TypeInv
    <3>2. 1 + Len(event_types) \in Nat
      BY <1>2
    <3> QED BY ONLY <2>1, <3>1, <3>2 DEF WriterStates, Steps
  <2>3. writer \in [Writers -> WriterStates] /\ writer' = [writer EXCEPT ![w] = s]
    BY <1>1, <2>1, Zenon DEF TypeInv
  <2> QED BY <2>2, <2>3 DEF OnlyWriter
<1>5. \A x : Registering(x) => x = writer[w].type
  BY <1>1 DEF Registering, LockInv
<1>6. \A ti, x : Resolved(ti, x) => Resolved(ti, x)'
  <2> SUFFICES ASSUME NEW ti, NEW x, Resolved(ti, x)
               PROVE  ti \in 1 .. Len(event_types') /\ event_types'[ti] = x
    BY DEF Resolved
  <2>1. CASE ti \in 1 .. Len(event_types) /\ event_types[ti] = x
    BY <2>1, <1>2, <1>3
  <2>2. CASE ti = Len(event_types) + 1 /\ Registering(x)
    BY <2>2, <1>2, <1>3, <1>5
  <2> QED BY <2>1, <2>2 DEF Resolved
<1>7. Resolved(1 + Len(event_types), writer[w].type)
  BY <1>1, <1>2 DEF Resolved, Registering
<1>8. TypeInv'
  BY <1>1, <1>2, <1>3, <1>4 DEF TypeInv, OnlyWriter
<1>9. LockInv'
  BY <1>1, <1>4, WritersAssumption DEF LockInv, OnlyWriter
<1>10. IndexInv'
  <2>1. Resolved(writer[w].ti, writer[w].type)'
    BY <1>2, <1>3, <1>4 DEF Resolved
  <2>2. \A v \in Writers : writer'[v].at \in {"take", "header", "data"} =>
          Resolved(writer[v].ti, writer[v].type)'
    BY <1>4, <1>6, <2>1 DEF IndexInv, OnlyWriter
  <2>3. \A x \in Types : type_index'[x] # 0 => Resolved(type_index[x], x)'
    BY <1>1, <1>6 DEF IndexInv
  <2> QED BY <2>2, <2>3 DEF IndexInv
<1>11. RingInv'
  BY <1>1, <1>4, <1>6, RingKept
<1>12. LimitInv'
  <2>1. Pending' = Pending
    BY <1>1, <1>4 DEF Pending, OnlyWriter
  <2> QED BY <1>1, <2>1 DEF LimitInv
<1> QED BY <1>8, <1>9, <1>10, <1>11, <1>12

-----------------------------------------------------------------------------
(* clib_smp_atomic_add gives the writer the place after the last one, which*)
(* it shares with a slow writer at most.                                   *)
LEMMA TakeNumberKeeps ==
  ASSUME ElogInv, NEW w \in Writers, TakeNumber(w)
  PROVE  ElogInv'
<1> USE DEF ElogInv
<1>1. PICK ei : ei = n_total_events % RING_SIZE
  OBVIOUS
<1>2. /\ writer[w].at = "take" /\ n_total_events' = n_total_events + 1
      /\ writer' = [writer EXCEPT ![w].at = "header", ![w].ei = ei]
      /\ taken' = Append(taken, writer[w].type)
      /\ overlapped' = IF ei \in HeldPlaces(w) THEN overlapped \cup {ei}
                       ELSE overlapped \ {ei}
      /\ UNCHANGED <<disable_limit, event_ring, event_types, type_index, smp_lock>>
  BY <1>1, Zenon DEF TakeNumber
<1>3. ei \in Places /\ n_total_events \in Nat
  BY <1>1, PlaceOf DEF TypeInv
<1>4. PICK s : s = [writer[w] EXCEPT !.at = "header", !.ei = ei]
  OBVIOUS
<1>5. /\ s \in WriterStates /\ s.at = "header" /\ s.ei = ei
      /\ s.type = writer[w].type /\ s.ti = writer[w].ti
  <2>1. writer[w] \in WriterStates
    BY DEF TypeInv
  <2> QED BY ONLY <1>3, <1>4, <2>1 DEF WriterStates, Steps
<1>6. OnlyWriter(w) /\ writer'[w] = s
  <2>1. writer \in [Writers -> WriterStates] /\ writer' = [writer EXCEPT ![w] = s]
    BY <1>2, <1>4, Zenon DEF TypeInv
  <2> QED BY <1>5, <2>1 DEF OnlyWriter
<1>7. \A ti, x : Resolved(ti, x) => Resolved(ti, x)'
  BY <1>2, <1>6, ResolvedKept
<1>8. /\ taken' \in Seq(Types)
      /\ Len(taken') = n_total_events + 1
      /\ \A k \in 1 .. n_total_events : taken'[k] = taken[k]
      /\ taken'[n_total_events + 1] = writer[w].type
      /\ writer[w].type \in Types
  BY <1>2, AppendProperties DEF TypeInv
<1>9. TypeInv'
  BY <1>2, <1>3, <1>5, <1>6, <1>8 DEF TypeInv, OnlyWriter
<1>10. LockInv'
  BY <1>2, <1>5, <1>6 DEF LockInv, OnlyWriter
<1>11. IndexInv'
  BY <1>2, <1>5, <1>6, <1>7 DEF IndexInv, OnlyWriter
<1>12. RingInv'
  <2> SUFFICES ASSUME NEW n \in Nat, InRing(n)'
               PROVE  Shown(n % RING_SIZE, taken[n + 1])'
    BY DEF RingInv
  <2>1. n <= n_total_events /\ n_total_events < n + RING_SIZE
    BY <1>2, <1>3, RingAssumption DEF InRing
  <2>2. CASE n = n_total_events
    <3>1. taken'[n + 1] = writer'[w].type /\ n % RING_SIZE = ei
      BY <2>2, <1>1, <1>5, <1>6, <1>8
    <3>2. ASSUME ei \notin overlapped'
          PROVE  \A v \in Writers : Holds(v, ei)' => v = w
      <4>1. ei \notin HeldPlaces(w)
        BY <1>2, <3>2
      <4> QED BY <4>1, <1>6 DEF HeldPlaces, Holds, OnlyWriter
    <3>3. Holds(w, ei)' /\ writer'[w].at # "data"
      BY <1>5, <1>6 DEF Holds
    <3>4. ei \notin overlapped' => BeingWritten(w, ei, writer[w].type)'
      BY <3>2, <3>3 DEF BeingWritten
    <3> QED BY <3>1, <3>4 DEF Shown
  <2>3. CASE n < n_total_events
    <3>1. PICK i : i = n % RING_SIZE
      OBVIOUS
    <3>2. PICK t : t = taken[n + 1]
      OBVIOUS
    <3>3. i \in Places /\ i # ei
      <4>1. n \in Int /\ n_total_events \in Int /\ RING_SIZE \in Nat \ {0}
        BY <1>3, RingAssumption
      <4>2. n % RING_SIZE # n_total_events % RING_SIZE
        BY <2>1, <2>3, <4>1, ModApart
      <4> QED BY <1>1, <3>1, <4>2, PlaceOf, Zenon
    <3>4. Shown(i, t)
      <4>1. InRing(n)
        BY <1>3, <2>1, <2>3, RingAssumption DEF InRing
      <4> QED BY <3>1, <3>2, <4>1, Zenon DEF RingInv
    <3>5. ~Holds(w, i) /\ ~Holds(w, i)' /\ (i \in overlapped => i \in overlapped')
      <4>1. i \in overlapped => i \in overlapped'
        BY <1>2, <3>3
      <4> QED BY <1>2, <1>5, <1>6, <3>3, <4>1 DEF Holds
    <3>6. event_ring'[i] = event_ring[i]
      BY <1>2
    <3>7. Shown(i, t)'
      BY <1>6, <1>7, <3>3, <3>4, <3>5, <3>6, ShownKept, Zenon
    <3>8. taken'[n + 1] = t
      <4>1. n + 1 \in 1 .. n_total_events
        BY <1>3, <2>3
      <4> QED BY <1>8, <3>2, <4>1
    <3> QED BY <3>1, <3>7, <3>8
  <2> QED BY <2>1, <2>2, <2>3, <1>3
<1>13. LimitInv'
  <2>1. Pending = Pending' \cup {w} /\ w \notin Pending'
    BY <1>2, <1>5, <1>6 DEF Pending, OnlyWriter
  <2>2. IsFiniteSet(Pending')
    BY <2>1, PendingCount, FS_Subset
  <2>3. Cardinality(Pending) = Cardinality(Pending') + 1 /\ Cardinality(Pending') \in Nat
    BY <2>1, <2>2, FS_AddElement, FS_CardinalityType
  <2> QED BY <1>2, <1>3, <2>3, PendingCount DEF LimitInv, TypeInv
<1> QED BY <1>9, <1>10, <1>11, <1>12, <1>13

(* The writer that goes on has a place, which it alone has if it is shown. *)
LEMMA HolderAlone ==
  ASSUME NEW w \in Writers, NEW i, NEW t, Holds(w, i), Shown(i, t), i \notin overlapped
  PROVE  BeingWritten(w, i, t)
BY DEF Shown, BeingWritten

(* The type index of the event is written.                                 *)
LEMMA WriteHeaderKeeps ==
  ASSUME ElogInv, NEW w \in Writers, WriteHeader(w)
  PROVE  ElogInv'
<1> USE DEF ElogInv
<1>1. PICK ei : ei = writer[w].ei
  OBVIOUS
<1>2. /\ writer[w].at = "header" /\ writer' = [writer EXCEPT ![w].at = "data"]
      /\ event_ring' = [event_ring EXCEPT ![ei].type = writer[w].ti]
      /\ UNCHANGED <<n_total_events, disable_limit, event_types, type_index, smp_lock,
                     taken, overlapped>>
  BY <1>1, Zenon DEF WriteHeader, history
<1>3. ei \in Places /\ writer[w].ti \in Nat
  BY <1>1, <1>2 DEF TypeInv
<1>4. /\ OnlyWriter(w) /\ writer'[w].at = "data" /\ writer'[w].ei = ei
      /\ writer'[w].type = writer[w].type /\ writer'[w].ti = writer[w].ti
  BY <1>1, <1>2 DEF TypeInv, OnlyWriter, WriterStates, Steps
<1>5. /\ event_ring' \in [Places -> [type : Nat, data : Types \cup {NONE}]]
      /\ event_ring'[ei].type = writer[w].ti
      /\ \A i \in Places : i # ei => event_ring'[i] = event_ring[i]
  BY <1>2, <1>3 DEF TypeInv
<1>6. \A ti, x : Resolved(ti, x) => Resolved(ti, x)'
  BY <1>2, <1>4, ResolvedKept
<1>7. TypeInv'
  BY <1>2, <1>3, <1>4, <1>5 DEF TypeInv, OnlyWriter
<1>8. LockInv'
  BY <1>2, <1>4 DEF LockInv, OnlyWriter
<1>9. IndexInv'
  BY <1>2, <1>4, <1>6 DEF IndexInv, OnlyWriter
<1>10. RingInv'
  <2> SUFFICES ASSUME NEW n \in Nat, InRing(n)
               PROVE  Shown(n % RING_SIZE, taken[n + 1])'
    BY <1>2 DEF RingInv, InRing
  <2>1. PICK i : i = n % RING_SIZE
    OBVIOUS
  <2>2. PICK t : t = taken[n + 1]
    OBVIOUS
  <2>3. i \in Places /\ Shown(i, t) /\ taken'[n + 1] = t
    BY <1>2, <2>1, <2>2, PlaceOf DEF RingInv
  <2>4. CASE i # ei
    <3>1. ~Holds(w, i) /\ ~Holds(w, i)' /\ (i \in overlapped => i \in overlapped')
      BY <1>1, <1>2, <1>4, <2>4 DEF Holds
    <3>2. Shown(i, t)'
      BY <1>4, <1>5, <1>6, <2>3, <2>4, <3>1, ShownKept, Zenon
    <3> QED BY <2>1, <2>3, <3>2
  <2>5. CASE i = ei /\ i \notin overlapped
    <3>1. BeingWritten(w, i, t)
      BY <1>1, <1>2, <2>3, <2>5, HolderAlone DEF Holds
    <3>2. \A v \in Writers : Holds(v, i)' => v = w
      BY <1>4, <3>1 DEF BeingWritten, Holds, OnlyWriter
    <3>3. BeingWritten(w, i, t)'
      BY <1>4, <1>5, <2>5, <3>1, <3>2 DEF BeingWritten, Holds
    <3> QED BY <2>1, <2>3, <3>3 DEF Shown
  <2>6. CASE i \in overlapped
    BY <1>2, <2>1, <2>6 DEF Shown
  <2> QED BY <2>4, <2>5, <2>6
<1>11. LimitInv'
  <2>1. Pending' = Pending
    BY <1>2, <1>4 DEF Pending, OnlyWriter
  <2> QED BY <1>2, <2>1 DEF LimitInv
<1> QED BY <1>7, <1>8, <1>9, <1>10, <1>11

(* The data of the event is written, and its place let go.                 *)
LEMMA WriteDataKeeps ==
  ASSUME ElogInv, NEW w \in Writers, WriteData(w)
  PROVE  ElogInv'
<1> USE DEF ElogInv
<1>1. PICK ei : ei = writer[w].ei
  OBVIOUS
<1>2. /\ writer[w].at = "data" /\ writer' = [writer EXCEPT ![w] = IDLE]
      /\ event_ring' = [event_ring EXCEPT ![ei].data = writer[w].type]
      /\ UNCHANGED <<n_total_events, disable_limit, event_types, type_index, smp_lock,
                     taken, overlapped>>
  BY <1>1, Zenon DEF WriteData, history
<1>3. ei \in Places /\ writer[w].type \in Types
  BY <1>1, <1>2 DEF TypeInv
<1>4. OnlyWriter(w) /\ writer'[w].at = "idle"
  <2>1. IDLE \in WriterStates /\ IDLE.at = "idle"
    BY DEF IDLE, WriterStates, Steps
  <2> QED BY <1>2, <2>1 DEF TypeInv, OnlyWriter
<1>5. /\ event_ring' \in [Places -> [type : Nat, data : Types \cup {NONE}]]
      /\ event_ring'[ei].data = writer[w].type
      /\ event_ring'[ei].type = event_ring[ei].type
      /\ \A i \in Places : i # ei => event_ring'[i] = event_ring[i]
  BY <1>2, <1>3 DEF TypeInv
<1>6. \A ti, x : Resolved(ti, x) => Resolved(ti, x)'
  BY <1>2, <1>4, ResolvedKept
<1>7. TypeInv'
  BY <1>2, <1>3, <1>4, <1>5 DEF TypeInv, OnlyWriter
<1>8. LockInv'
  BY <1>2, <1>4 DEF LockInv, OnlyWriter
<1>9. IndexInv'
  BY <1>2, <1>4, <1>6 DEF IndexInv, OnlyWriter
<1>10. RingInv'
  <2> SUFFICES ASSUME NEW n \in Nat, InRing(n)
               PROVE  Shown(n % RING_SIZE, taken[n + 1])'
    BY <1>2 DEF RingInv, InRing
  <2>1. PICK i : i = n % RING_SIZE
    OBVIOUS
  <2>2. PICK t : t = taken[n + 1]
    OBVIOUS
  <2>3. i \in Places /\ Shown(i, t) /\ taken'[n + 1] = t
    BY <1>2, <2>1, <2>2, PlaceOf DEF RingInv
  <2>4. CASE i # ei
    <3>1. ~Holds(w, i) /\ ~Holds(w, i)' /\ (i \in overlapped => i \in overlapped')
      BY <1>1, <1>2, <1>4, <2>4 DEF Holds
    <3>2. Shown(i, t)'
      BY <1>4, <1>5, <1>6, <2>3, <2>4, <3>1, ShownKept, Zenon
    <3> QED BY <2>1, <2>3, <3>2
  <2>5. CASE i = ei /\ i \notin overlapped
    <3>1. BeingWritten(w, i, t)
      BY <1>1, <1>2, <2>3, <2>5, HolderAlone DEF Holds
    <3>2. \A v \in Writers : ~Holds(v, i)'
      BY <1>4, <3>1 DEF BeingWritten, Holds, OnlyWriter
    <3>3. Resolved(event_ring[i].type, t)
      BY <1>2, <3>1 DEF BeingWritten, IndexInv
    <3>4. Written(i, t)'
      BY <1>5, <1>6, <2>5, <3>1, <3>3 DEF BeingWritten, Written
    <3> QED BY <2>1, <2>3, <3>2, <3>4 DEF Shown
  <2>6. CASE i \in overlapped
    BY <1>2, <2>1, <2>6 DEF Shown
  <2> QED BY <2>4, <2>5, <2>6
<1>11. LimitInv'
  <2>1. Pending' = Pending
    BY <1>2, <1>4 DEF Pending, OnlyWriter
  <2> QED BY <1>2, <2>1 DEF LimitInv
<1> QED BY <1>7, <1>8, <1>9, <1>10, <1>11

-----------------------------------------------------------------------------
(* Steps that leave the writers, the types and the lock alone.             *)
LEMMA ResolvedSame ==
  ASSUME UNCHANGED <<event_types, writer>>, NEW ti, NEW t
  PROVE  Resolved(ti, t)' <=> Resolved(ti, t)
BY DEF Resolved, Registering

(* elog_reset_buffer and elog_enable_disable empty the ring.               *)
LEMMA RestartKeeps ==
  ASSUME ElogInv, NEW limit \in Nat, Restart(limit)
  PROVE  ElogInv'
<1> USE DEF ElogInv, Restart
<1>1. <<>> \in Seq(Types) /\ Len(<<>>) = 0
  BY EmptySeq
<1>2. TypeInv'
  BY <1>1 DEF TypeInv
<1>3. LockInv'
  BY DEF LockInv
<1>4. IndexInv'
  BY ResolvedSame DEF IndexInv
<1>5. RingInv'
  BY DEF RingInv, InRing
<1>6. Pending' = Pending
  BY DEF Pending
<1>7. LimitInv'
  BY <1>6, PendingCount DEF LimitInv
<1> QED BY <1>2, <1>3, <1>4, <1>5, <1>7

(* elog_disable_after_events and elog_disable_trigger only set the limit.  *)
LEMMA SetLimitKeeps ==
  ASSUME ElogInv, NEW n \in Nat, SetLimit(n)
  PROVE  ElogInv'
<1> USE DEF ElogInv, SetLimit, LimitAfter
<1>1. TypeInv'
  BY DEF TypeInv
<1>2. LockInv'
  BY DEF LockInv
<1>3. IndexInv'
  BY ResolvedSame DEF IndexInv
<1>4. RingInv'
  <2>1. \A i, t : Shown(i, t)' <=> Shown(i, t)
    BY ResolvedSame DEF Shown, Written, BeingWritten, Holds
  <2> QED BY <2>1 DEF RingInv, InRing
<1>5. Pending' = Pending
  BY DEF Pending
<1>6. LimitInv'
  BY <1>5, PendingCount DEF LimitInv, TypeInv
<1> QED BY <1>1, <1>2, <1>3, <1>4, <1>6

(* Every step of writers and of whoever controls the log preserves the     *)
(* invariant.                                                              *)
LEMMA NextKeeps ==
  ASSUME ElogInv, [Next]_vars
  PROVE  ElogInv'
<1>1. CASE UNCHANGED vars
  <2>1. \A i, t : Shown(i, t)' <=> Shown(i, t)
    BY <1>1, ResolvedSame DEF vars, Shown, Written, BeingWritten, Holds
  <2>2. Pending' = Pending
    BY <1>1 DEF vars, Pending
  <2> QED BY <1>1, <2>1, <2>2, ResolvedSame
          DEF vars, ElogInv, TypeInv, LockInv, IndexInv, RingInv, InRing, LimitInv
<1>2. ASSUME NEW w \in Writers, Write(w)
      PROVE  ElogInv'
  BY <1>2, BeginKeeps, RegisterLockKeeps, RegisterAddKeeps, TakeNumberKeeps,
     WriteHeaderKeeps, WriteDataKeeps DEF Write
<1>3. CASE Control
  <2>1. 0 \in Nat /\ UNLIMITED \in Nat /\ AfterEvents \subseteq Nat /\ RING_SIZE \div 2 \in Nat
    BY PendingCount, EventsAssumption, RingAssumption DEF UNLIMITED
  <2>2. \/ \E limit \in Nat : Restart(limit)
        \/ \E n \in Nat : SetLimit(n)
    BY <1>3, <2>1 DEF Control, elog_reset_buffer, elog_enable_disable,
                    elog_disable_after_events, elog_disable_trigger
  <2> QED BY <2>2, RestartKeeps, SetLimitKeeps
<1> QED BY <1>1, <1>2, <1>3 DEF Next

(* The strengthened invariant holds in every state of a log.               *)
THEOREM ElogInvariant == Spec => []ElogInv
BY InitInv, NextKeeps, PTL DEF Spec

-----------------------------------------------------------------------------
(* elog_peek_events visits the places of the last events in their order.   *)
LEMMA PeekOrder ==
  ASSUME n_total_events \in Nat, NEW k \in 1 .. n_in_buffer
  PROVE  LET n == n_total_events - n_in_buffer + k - 1
         IN  n \in Nat /\ InRing(n) /\ PeekPlaces[k] = n % RING_SIZE
<1> DEFINE n == n_total_events - n_in_buffer + k - 1
<1>1. RING_SIZE \in Nat \ {0} /\ k \in Nat /\ n_in_buffer \in Nat /\ k - 1 \in Nat
      /\ k <= n_in_buffer
  BY RingAssumption DEF n_in_buffer
<1>2. PeekPlaces[k] = (lo + k - 1) % RING_SIZE
  BY DEF PeekPlaces
<1>3. CASE n_total_events <= RING_SIZE
  <2>1. n = k - 1 /\ lo = 0 /\ n_in_buffer = n_total_events
    BY <1>1, <1>3 DEF n_in_buffer, lo
  <2>2. lo + k - 1 = n /\ n \in Nat /\ InRing(n)
    BY <1>1, <1>3, <2>1 DEF InRing
  <2> QED BY <1>2, <2>2
<1>4. CASE n_total_events > RING_SIZE
  <2>1. PICK q, r : q = n_total_events \div RING_SIZE /\ r = n_total_events % RING_SIZE
    OBVIOUS
  <2>2. n_total_events = RING_SIZE * q + r /\ q \in Int /\ r \in 0 .. RING_SIZE - 1
    BY <1>1, <2>1, DivMod
  <2>3. n_in_buffer = RING_SIZE /\ lo = r
    BY <1>1, <1>4, <2>1 DEF n_in_buffer, lo
  <2>4. n = (r + k - 1) + RING_SIZE * (q - 1)
    BY <1>1, <2>2, <2>3
  <2>5. r + k - 1 \in Int /\ q - 1 \in Int
    BY <1>1, <2>2
  <2>6. n % RING_SIZE = (r + k - 1) % RING_SIZE
    BY <1>1, <2>4, <2>5, ModShift
  <2>7. n \in Nat /\ InRing(n)
    BY <1>1, <1>4, <2>3 DEF InRing
  <2> QED BY <1>2, <2>3, <2>6, <2>7
<1> QED BY <1>3, <1>4, <1>1

(* Between writers, elog_peek_events shows the last events in the order of *)
(* their numbers, each with an index that stands for its type and its own  *)
(* data, for any number of writers and any ring, except in places that     *)
(* were taken while a slow writer still had them.                          *)
THEOREM ElogShowsLastEvents == Spec => []PeekShowsLastEvents
<1>1. ASSUME ElogInv
      PROVE  PeekShowsLastEvents
  <2> SUFFICES ASSUME InFlight = {}, NEW k \in 1 .. n_in_buffer,
                      PeekPlaces[k] \notin overlapped
               PROVE  LET i == PeekPlaces[k]
                          type == taken[n_total_events - n_in_buffer + k]
                      IN  /\ event_ring[i].type \in DOMAIN event_types
                          /\ event_types[event_ring[i].type] = type
                          /\ event_ring[i].data = type
    BY Zenon DEF PeekShowsLastEvents
  <2> DEFINE n == n_total_events - n_in_buffer + k - 1
             i == PeekPlaces[k]
             type == taken[n_total_events - n_in_buffer + k]
  <2>1. n_total_events \in Nat /\ event_types \in Seq(Types)
    BY <1>1 DEF ElogInv, TypeInv
  <2>2. n \in Nat /\ InRing(n) /\ i = n % RING_SIZE
    BY <2>1, PeekOrder
  <2>3. n + 1 = n_total_events - n_in_buffer + k
    BY <2>1, RingAssumption DEF n_in_buffer
  <2>4. Shown(n % RING_SIZE, taken[n + 1])
    BY <1>1, <2>2 DEF ElogInv, RingInv
  <2>5. Shown(i, type)
    BY <2>2, <2>3, <2>4
  <2>6. \A w \in Writers : writer[w].at = "idle"
    BY DEF InFlight
  <2> HIDE DEF n, i, type
  <2>7. Written(i, type)
    BY <2>5, <2>6 DEF Shown, BeingWritten, Holds, i
  <2>8. ~Registering(type)
    BY <2>6 DEF Registering
  <2>9. /\ event_ring[i].type \in 1 .. Len(event_types)
        /\ event_types[event_ring[i].type] = type
        /\ event_ring[i].data = type
    BY <2>7, <2>8 DEF Written, Resolved
  <2>10. DOMAIN event_types = 1 .. Len(event_types)
    BY <2>1, LenProperties
  <2> QED BY <2>9, <2>10 DEF i, type
<1> QED BY <1>1, ElogInvariant, PTL

(* After a trigger that asks for at least one event, the last of them is   *)
(* begun by a writer while the log is enabled, so that one event less runs *)
(* past the limit than there are writers.                                  *)
OverrunInv ==
  /\ saved \in Int
  /\ saved # NONE => disable_limit >= saved + 1
  /\ saved # NONE /\ disable_limit > saved + 1 =>
       n_total_events + Cardinality(Pending) < disable_limit + Cardinality(Writers)

(* A step of a writer that has found the log enabled does not raise the    *)
(* number of events that have happened or are going to.                    *)
LEMMA WritersDoNotOverrun ==
  ASSUME ElogInv, OverrunInv, NEW w \in Writers,
         RegisterLock(w) \/ RegisterAdd(w) \/ TakeNumber(w) \/ WriteHeader(w) \/ WriteData(w)
  PROVE  OverrunInv'
<1>1. /\ n_total_events \in Nat /\ disable_limit \in Nat
      /\ writer \in [Writers -> WriterStates]
  BY DEF ElogInv, TypeInv
<1>2. UNCHANGED <<saved, disable_limit>>
  BY DEF RegisterLock, RegisterAdd, TakeNumber, WriteHeader, WriteData, log, history
<1>3. /\ \A v \in Writers : v # w => writer'[v] = writer[v]
      /\ writer'[w].at = "add_type" => writer[w].at = "register"
      /\ writer'[w].at = "take" => writer[w].at = "add_type"
      /\ writer'[w].at # "register"
  BY <1>1 DEF RegisterLock, RegisterAdd, TakeNumber, WriteHeader, WriteData, WriterStates, IDLE
<1>4. Pending' \subseteq Pending
  BY <1>3 DEF Pending
<1>5. CASE TakeNumber(w)
  <2>1. w \in Pending /\ w \notin Pending' /\ n_total_events' = n_total_events + 1
    <3>1. writer[w].at = "take" /\ n_total_events' = n_total_events + 1
      BY <1>5 DEF TakeNumber
    <3>2. writer'[w].at = "header"
      BY <1>1, <1>5 DEF TakeNumber, WriterStates
    <3> QED BY <3>1, <3>2 DEF Pending
  <2>2. Pending' \subseteq Pending \ {w}
    BY <1>4, <2>1
  <2>3. IsFiniteSet(Pending \ {w}) /\ Cardinality(Pending \ {w}) = Cardinality(Pending) - 1
    BY <2>1, PendingCount, FS_RemoveElement
  <2>4. Cardinality(Pending') \in Nat /\ Cardinality(Pending') <= Cardinality(Pending) - 1
    BY <2>2, <2>3, FS_Subset, FS_CardinalityType
  <2> QED BY <1>1, <1>2, <2>1, <2>4, PendingCount DEF OverrunInv, NONE
<1>6. CASE ~TakeNumber(w)
  <2>1. n_total_events' = n_total_events
    BY <1>6 DEF RegisterLock, RegisterAdd, WriteHeader, WriteData, log
  <2>2. Cardinality(Pending') \in Nat /\ Cardinality(Pending') <= Cardinality(Pending)
    BY <1>4, PendingCount, FS_Subset, FS_CardinalityType
  <2> QED BY <1>1, <1>2, <2>1, <2>2, PendingCount DEF OverrunInv, NONE
<1> QED BY <1>5, <1>6

(* Every step keeps the overrun below the number of writers.               *)
LEMMA OverrunKept ==
  ASSUME ElogInv, OverrunInv, [Next]_vars
  PROVE  OverrunInv'
<1>1. n_total_events \in Nat /\ disable_limit \in Nat /\ saved \in Int
  BY DEF ElogInv, TypeInv, OverrunInv
<1>2. Cardinality(Pending') \in Nat /\ Cardinality(Pending') <= Cardinality(Writers)
  <2>1. Pending' \subseteq Writers
    BY DEF Pending
  <2> QED BY <2>1, WritersAssumption, FS_Subset, FS_CardinalityType
<1>3. CASE UNCHANGED vars
  <2>1. Pending' = Pending
    BY <1>3 DEF vars, Pending
  <2> QED BY <1>3, <2>1 DEF vars, OverrunInv
<1>4. ASSUME NEW w \in Writers, NEW t \in Types, Begin(w, t)
      PROVE  OverrunInv'
  <2>1. /\ n_total_events < disable_limit
        /\ UNCHANGED <<n_total_events, disable_limit, saved>>
    BY <1>4 DEF Begin, elog_is_enabled, log, history
  <2> QED BY <1>1, <1>2, <2>1, PendingCount DEF OverrunInv
<1>5. ASSUME NEW w \in Writers, Write(w)
      PROVE  OverrunInv'
  BY <1>4, <1>5, WritersDoNotOverrun DEF Write
<1>6. ASSUME NEW limit, Restart(limit)
      PROVE  OverrunInv'
  BY <1>6 DEF Restart, OverrunInv, NONE
<1>7. ASSUME NEW n \in Nat, SetLimit(n)
      PROVE  OverrunInv'
  <2>1. /\ disable_limit' = n_total_events + n /\ saved' = n_total_events - 1
        /\ n_total_events' = n_total_events
    BY <1>7 DEF SetLimit, LimitAfter
  <2> QED BY <1>1, <1>2, <2>1, PendingCount DEF OverrunInv
<1>8. CASE Control
  <2>1. AfterEvents \subseteq Nat /\ RING_SIZE \div 2 \in Nat
    BY EventsAssumption, RingAssumption
  <2> QED BY <1>6, <1>7, <1>8, <2>1 DEF Control, elog_reset_buffer, elog_enable_disable,
                                    elog_disable_after_events, elog_disable_trigger
<1> QED BY <1>3, <1>5, <1>8 DEF Next

(* Writers that found the log enabled run past the limit by no more than   *)
(* their number, and by one less when at least one event was asked for.  So*)
(* the event before elog_disable_after_events or the trigger is still in a *)
(* ring with room for as many events more; with one writer this is what    *)
(* elog.h:173-176 promises.                                                *)
THEOREM ElogTriggerSavesEvent == Spec => []TriggerSavesEvent
<1>1. Init => OverrunInv
  BY DEF Init, OverrunInv, NONE
<1>2. ASSUME ElogInv, OverrunInv
      PROVE  TriggerSavesEvent
  <2>1. /\ n_total_events \in Nat /\ disable_limit \in Nat /\ saved \in Int
        /\ RING_SIZE \in Nat
    BY <1>2, RingAssumption DEF ElogInv, TypeInv, OverrunInv
  <2>2. n_total_events <= disable_limit + Cardinality(Writers)
    BY <1>2, <2>1, PendingCount DEF ElogInv, LimitInv
  <2>3. ASSUME saved # NONE, AskedFor # 0, AskedFor + Cardinality(Writers) <= RING_SIZE
        PROVE  n_total_events - saved <= RING_SIZE
    <3>1. disable_limit > saved + 1
      BY <1>2, <2>1, <2>3 DEF OverrunInv, AskedFor
    <3> QED BY <1>2, <2>1, <2>3, <3>1, PendingCount DEF OverrunInv, AskedFor
  <2>4. ASSUME AskedFor = 0, 1 + Cardinality(Writers) <= RING_SIZE
        PROVE  n_total_events - saved <= RING_SIZE
    BY <2>1, <2>2, <2>4, PendingCount DEF AskedFor
  <2> QED BY <2>1, <2>2, <2>3, <2>4, PendingCount DEF TriggerSavesEvent
<1> QED BY <1>1, <1>2, OverrunKept, ElogInvariant, PTL DEF Spec
=============================================================================
