-------------------------------- MODULE Elog --------------------------------
(***************************************************************************)
(* The event log of elog.h with several writers.  An event's number comes  *)
(* from an atomic counter, and the number gives its place in a ring; the   *)
(* writer fills the place in after that.  Whether the log is enabled is    *)
(* looked at before the counter is taken, and an event type is given its   *)
(* index, under the lock, by the first writers that find it without one.   *)
(*                                                                         *)
(* Time stamps and tracks, which are written with the type, are left out.  *)
(* A type's format stands for the type.                                    *)
(***************************************************************************)
EXTENDS Integers, Sequences, FiniteSets

CONSTANTS Writers,
          Types,             \* the static event types, each with its own format
          RING_SIZE,         \* event_ring_size, a power of 2
          AfterEvents,       \* the n that elog_disable_after_events is given
          MAX_EVENTS         \* bound: events in all

VARIABLES n_total_events, disable_limit,
          event_ring,        \* place -> the type index and the data in it
          event_types,       \* the formats that are registered
          type_index,        \* static type -> type_index_plus_one
          smp_lock,          \* the writer that has the lock, or NOBODY
          writer,            \* what each writer is doing
          taken,             \* history: the type of each event, by its number
          overlapped,        \* history: the places that a slow writer still
                             \* had when they were taken again
          saved,             \* history: the number of the event that a trigger
                             \* is to save, or NONE
          n_logged           \* history: the events in all

vars == <<n_total_events, disable_limit, event_ring, event_types, type_index,
          smp_lock, writer, taken, overlapped, saved, n_logged>>

NOBODY == "nobody"
NONE == -1

ASSUME WritersAssumption == IsFiniteSet(Writers) /\ NOBODY \notin Writers
ASSUME RingAssumption == RING_SIZE \in Nat \ {0}
ASSUME EventsAssumption == MAX_EVENTS \in Nat /\ AfterEvents \subseteq Nat

UNLIMITED == MAX_EVENTS + Cardinality(Writers)   \* ~0: not reached within the bound

IDLE == [at |-> "idle", type |-> NONE, ti |-> NONE, ei |-> NONE]

(* elog_init, with the places of the ring all zero.                        *)
Init ==
  /\ n_total_events = 0 /\ disable_limit = UNLIMITED
  /\ event_ring = [i \in 0 .. RING_SIZE - 1 |-> [type |-> 0, data |-> NONE]]
  /\ event_types = <<>>
  /\ type_index = [t \in Types |-> 0]
  /\ smp_lock = NOBODY
  /\ writer = [w \in Writers |-> IDLE]
  /\ taken = <<>> /\ overlapped = {} /\ saved = NONE /\ n_logged = 0

elog_is_enabled == n_total_events < disable_limit

log == <<n_total_events, disable_limit, event_ring>>
history == <<taken, overlapped, saved, n_logged>>

-----------------------------------------------------------------------------
(* elog_event_data_inline up to its test of the type index.  A log that is *)
(* disabled gives the dummy event, which changes nothing.                  *)
Begin(w, t) ==
  /\ writer[w].at = "idle"
  /\ elog_is_enabled
  /\ writer' = [writer EXCEPT ![w] =
       [at |-> IF type_index[t] = 0 THEN "register" ELSE "take",
        type |-> t, ti |-> type_index[t], ei |-> NONE]]
  /\ UNCHANGED <<log, event_types, type_index, smp_lock, history>>

(* elog_event_type_register: clib_smp_lock, and the index of the static    *)
(* type, which is written before the type is in the vector.                *)
RegisterLock(w) ==
  /\ writer[w].at = "register"
  /\ smp_lock = NOBODY
  /\ smp_lock' = w
  /\ type_index' = [type_index EXCEPT ![writer[w].type] = 1 + Len(event_types)]
  /\ writer' = [writer EXCEPT ![w].at = "add_type"]
  /\ UNCHANGED <<log, event_types, history>>

(* vec_add1, new_event_type and clib_smp_unlock; the index is returned.    *)
RegisterAdd(w) ==
  /\ writer[w].at = "add_type"
  /\ event_types' = Append(event_types, writer[w].type)
  /\ writer' = [writer EXCEPT ![w].at = "take", ![w].ti = 1 + Len(event_types)]
  /\ smp_lock' = NOBODY
  /\ UNCHANGED <<log, type_index, history>>

HeldPlaces(without) ==
  {writer[v].ei : v \in {u \in Writers \ {without} : writer[u].at \in {"header", "data"}}}

(* clib_smp_atomic_add.  In a build with assertions, type_index <          *)
(* vec_len (event_types) is asserted first (elog.h:221), and fails for a   *)
(* writer that read the index of a type which another writer is about to   *)
(* put in the vector; this is a build without them, where the event is     *)
(* logged all the same.                                                    *)
TakeNumber(w) ==
  LET ei == n_total_events % RING_SIZE
  IN  /\ writer[w].at = "take"
      /\ n_logged < MAX_EVENTS
      /\ n_logged' = n_logged + 1
      /\ n_total_events' = n_total_events + 1
      /\ writer' = [writer EXCEPT ![w].at = "header", ![w].ei = ei]
      /\ taken' = Append(taken, writer[w].type)
      /\ overlapped' = IF ei \in HeldPlaces(w) THEN overlapped \cup {ei}
                       ELSE overlapped \ {ei}
      /\ UNCHANGED <<disable_limit, event_ring, event_types, type_index, smp_lock, saved>>

WriteHeader(w) ==
  /\ writer[w].at = "header"
  /\ event_ring' = [event_ring EXCEPT ![writer[w].ei].type = writer[w].ti]
  /\ writer' = [writer EXCEPT ![w].at = "data"]
  /\ UNCHANGED <<n_total_events, disable_limit, event_types, type_index, smp_lock, history>>

(* The caller of elog_data fills in the data: here, the type's own.        *)
WriteData(w) ==
  /\ writer[w].at = "data"
  /\ event_ring' = [event_ring EXCEPT ![writer[w].ei].data = writer[w].type]
  /\ writer' = [writer EXCEPT ![w] = IDLE]
  /\ UNCHANGED <<n_total_events, disable_limit, event_types, type_index, smp_lock, history>>

-----------------------------------------------------------------------------
(* elog_reset_buffer and elog_enable_disable: the ring starts again.       *)
Restart(limit) ==
  /\ n_total_events' = 0
  /\ disable_limit' = limit
  /\ taken' = <<>> /\ overlapped' = HeldPlaces(NOBODY) /\ saved' = NONE
  /\ UNCHANGED <<event_ring, event_types, type_index, smp_lock, writer, n_logged>>

elog_reset_buffer == Restart(UNLIMITED)
elog_enable_disable == \E limit \in {0, UNLIMITED} : Restart(limit)

\* Mutant: the events are counted from the start of the log.
LimitOfAll(n) == n

LimitAfter(n) == n_total_events + n

SetLimit(n) ==
  /\ n_total_events > 0 /\ LimitAfter(n) <= MAX_EVENTS
  /\ disable_limit' = LimitAfter(n)
  /\ saved' = n_total_events - 1
  /\ UNCHANGED <<n_total_events, event_ring, event_types, type_index, smp_lock,
                 writer, taken, overlapped, n_logged>>

(* The last event is the one to save.                                      *)
elog_disable_after_events == \E n \in AfterEvents : SetLimit(n)
elog_disable_trigger == SetLimit(RING_SIZE \div 2)

Write(w) ==
  \/ \E t \in Types : Begin(w, t)
  \/ RegisterLock(w) \/ RegisterAdd(w)
  \/ TakeNumber(w) \/ WriteHeader(w) \/ WriteData(w)

Control ==
  \/ elog_reset_buffer \/ elog_enable_disable
  \/ elog_disable_after_events \/ elog_disable_trigger

Next == (\E w \in Writers : Write(w)) \/ Control

Spec == Init /\ [][Next]_vars

-----------------------------------------------------------------------------
(* elog_event_range and elog_peek_events: the places from the oldest on.   *)
n_in_buffer == IF n_total_events <= RING_SIZE THEN n_total_events ELSE RING_SIZE

\* Mutant: the ring is read from its start.
StartOfRing == 0

lo == IF n_total_events <= RING_SIZE THEN 0 ELSE n_total_events % RING_SIZE
PeekPlaces == [k \in 1 .. n_in_buffer |-> (lo + k - 1) % RING_SIZE]

InFlight == {w \in Writers : writer[w].at # "idle"}

(* With no writer in between, the events that are peeked at are the last   *)
(* ones in the order of their numbers, each with a type index that stands  *)
(* for its type and with its own data, unless a slow writer still had its  *)
(* place when it was taken again.                                          *)
PeekShowsLastEvents ==
  InFlight = {} =>
    \A k \in 1 .. n_in_buffer :
      LET i == PeekPlaces[k]
          type == taken[n_total_events - n_in_buffer + k]
      IN  i \notin overlapped =>
            /\ event_ring[i].type \in DOMAIN event_types
            /\ event_types[event_ring[i].type] = type
            /\ event_ring[i].data = type

(* The events that a trigger asked for after the one to save.              *)
AskedFor == disable_limit - (saved + 1)

(* Writers that found the log enabled run past the limit, by at most one   *)
(* event each.  So the event before a trigger is still in the ring when    *)
(* there is room in it for the N events that were asked for and for one of *)
(* each writer.  With one writer that is the promise of elog.h:173-176,    *)
(* "the event will not be lost as long as N < RING_SIZE"; with more it is  *)
(* less: two writers lose the event from a ring of 4 when N is 3.          *)
TriggerSavesEvent ==
  /\ n_total_events <= disable_limit + Cardinality(Writers)
  /\ saved # NONE /\ (IF AskedFor = 0 THEN 1 ELSE AskedFor) + Cardinality(Writers) <= RING_SIZE =>
       n_total_events - saved <= RING_SIZE
=============================================================================
