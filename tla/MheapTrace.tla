----------------------------- MODULE MheapTrace -----------------------------
(***************************************************************************)
(* The trace of an mheap: which callers have how many objects and bytes.   *)
(* A trace is an element of the vector traces; trace_by_callers is a hash  *)
(* whose keys are pointers to the callers in these elements, so that its   *)
(* keys change when the vector moves, and a key that is not changed points *)
(* to memory that has been freed.                                          *)
(*                                                                         *)
(* The allocator itself is module Mheap.  Here an object is an offset and  *)
(* a size, which is the same when it is got and when it is put.  Memory of *)
(* the trace itself is not among the objects: it is not traced.            *)
(***************************************************************************)
EXTENDS Integers, Sequences, FiniteSets, FiniteSetsExt, Functions, SequencesExt

CONSTANTS Offsets,         \* the places of objects
          ObjectSizes,
          Callers,         \* the call stacks
          Starts           \* where the vector of traces may be

NO_BACKTRACE == "none"     \* clib_backtrace returns 0
ZERO == "zero"             \* callers of a trace that was cleared

VARIABLES trace_flag,      \* MHEAP_FLAG_TRACE
          objects,         \* the allocated objects: offset to size
          start, traces,   \* tm->traces: where it is and what is in it
          trace_free_list,
          trace_by_callers,       \* pointer to index
          trace_index_by_offset,
          traced           \* history: who got the objects since tracing began

vars == <<trace_flag, objects, start, traces, trace_free_list, trace_by_callers,
          trace_index_by_offset, traced>>

NO_MEMORY == 0             \* the null pointer

Empty == [x \in {} |-> 0]

Init ==
  /\ trace_flag = FALSE /\ objects = Empty
  /\ start = NO_MEMORY /\ traces = <<>> /\ trace_free_list = <<>>
  /\ trace_by_callers = Empty /\ trace_index_by_offset = Empty
  /\ traced = Empty

-----------------------------------------------------------------------------
Without(f, x) == Restrict(f, DOMAIN f \ {x})
With(f, x, y) == [z \in DOMAIN f \cup {x} |-> IF z = x THEN y ELSE f[z]]

(* What a key points to: anything once the memory is no longer the         *)
(* vector's, and then not a call stack.                                    *)
CallersAt(p) == IF p - start \in 0 .. Len(traces) - 1 THEN traces[p - start + 1].callers ELSE ZERO
KeysOf(callers) == {p \in DOMAIN trace_by_callers : CallersAt(p) = callers}

\* Mutant: the keys stay as they are when the vector moves.
KeysKept(old, new) == trace_by_callers

(* hash_foreach_pair: p->key = tm->traces + (q - old_start).               *)
KeysMoved(old, new) ==
  [p \in {q - old + new : q \in DOMAIN trace_by_callers} |-> trace_by_callers[p - new + old]]

(* One more object for the trace at index i of ts.                         *)
Counted(ts, i, offset, size) ==
  [ts EXCEPT ![i + 1].n_allocations = @ + 1, ![i + 1].n_bytes = @ + size,
             ![i + 1].offset = offset]
NewTrace(callers) == [callers |-> callers, n_allocations |-> 0, n_bytes |-> 0, offset |-> 0]

KnownCallers(callers, offset, size) == \E p \in KeysOf(callers) :
  LET i == trace_by_callers[p]
  IN  /\ traces' = Counted(traces, i, offset, size)
      /\ trace_index_by_offset' = With(trace_index_by_offset, offset, i)
      /\ UNCHANGED <<start, trace_free_list, trace_by_callers>>

RecycledTrace(callers, offset, size) ==
  LET i == Last(trace_free_list)
  IN  /\ KeysOf(callers) = {} /\ trace_free_list # <<>>
      /\ trace_free_list' = Front(trace_free_list)
      /\ traces' = Counted([traces EXCEPT ![i + 1] = NewTrace(callers)], i, offset, size)
      /\ trace_by_callers' = With(trace_by_callers, start + i, i)
      /\ trace_index_by_offset' = With(trace_index_by_offset, offset, i)
      /\ UNCHANGED start

(* vec_add2 may move the vector.                                           *)
AddedTrace(callers, offset, size) ==
  LET i == Len(traces)
  IN  /\ KeysOf(callers) = {} /\ trace_free_list = <<>>
      /\ start' \in IF start = NO_MEMORY THEN Starts ELSE Starts \cup {start}
      /\ traces' = Counted(Append(traces, NewTrace(callers)), i, offset, size)
      /\ trace_by_callers' = With(KeysMoved(start, start'), start' + i, i)
      /\ trace_index_by_offset' = With(trace_index_by_offset, offset, i)
      /\ UNCHANGED trace_free_list

NotTraced ==
  UNCHANGED <<start, traces, trace_free_list, trace_by_callers, trace_index_by_offset, traced>>

(* The flag is off while the trace allocates for itself, and on again.     *)
mheap_get_trace(offset, size) == \E callers \in Callers \cup {NO_BACKTRACE} :
  \/ callers = NO_BACKTRACE /\ NotTraced
  \/ /\ callers # NO_BACKTRACE
     /\ \/ KnownCallers(callers, offset, size)
        \/ RecycledTrace(callers, offset, size)
        \/ AddedTrace(callers, offset, size)
     /\ traced' = With(traced, offset, callers)

mheap_get == \E offset \in Offsets \ DOMAIN objects, size \in ObjectSizes :
  /\ objects' = With(objects, offset, size)
  /\ IF trace_flag THEN mheap_get_trace(offset, size) ELSE NotTraced
  /\ UNCHANGED trace_flag

-----------------------------------------------------------------------------
\* Mutant: the callers stay in the hash with the cleared trace.
CallersKept(i) == trace_by_callers

(* hash_unset_mem (tm->trace_by_callers, t->callers).                      *)
CallersUnset(i) ==
  Restrict(trace_by_callers, DOMAIN trace_by_callers \ KeysOf(traces[i + 1].callers))

(* An object that was got before tracing began has no trace.               *)
mheap_put_trace(offset, size) ==
  IF offset \notin DOMAIN trace_index_by_offset THEN NotTraced
  ELSE LET i == trace_index_by_offset[offset]
           t == [traces[i + 1] EXCEPT !.n_allocations = @ - 1, !.n_bytes = @ - size]
           last == t.n_allocations = 0
       IN  /\ trace_index_by_offset' = Without(trace_index_by_offset, offset)
           /\ traces' = [traces EXCEPT ![i + 1] = IF last THEN NewTrace(ZERO) ELSE t]
           /\ trace_by_callers' = IF last THEN CallersUnset(i) ELSE trace_by_callers
           /\ trace_free_list' = IF last THEN Append(trace_free_list, i) ELSE trace_free_list
           /\ traced' = Without(traced, offset)
           /\ UNCHANGED start

mheap_put == \E offset \in DOMAIN objects :
  /\ objects' = Without(objects, offset)
  /\ IF trace_flag THEN mheap_put_trace(offset, objects[offset]) ELSE NotTraced
  /\ UNCHANGED trace_flag

mheap_trace_main_free ==
  /\ start' = NO_MEMORY /\ traces' = <<>> /\ trace_free_list' = <<>>
  /\ trace_by_callers' = Empty /\ trace_index_by_offset' = Empty
  /\ traced' = Empty

mheap_trace == \E enable \in BOOLEAN :
  /\ trace_flag' = enable
  /\ IF enable THEN NotTraced ELSE mheap_trace_main_free
  /\ UNCHANGED objects

Next == mheap_get \/ mheap_put \/ mheap_trace

Spec == Init /\ [][Next]_vars

-----------------------------------------------------------------------------
Got(callers) == {o \in DOMAIN traced : traced[o] = callers}
InUse == {i \in 0 .. Len(traces) - 1 : traces[i + 1].n_allocations # 0}

(* The traces say which callers have which objects: those in use have each *)
(* its own callers, with the number and the bytes of the objects they got  *)
(* and did not put; the others are on the free list, once each; the keys   *)
(* are pointers into the vector where it is now.                           *)
TracesAccountForObjects ==
  /\ trace_by_callers = [p \in {start + i : i \in InUse} |-> p - start]
  /\ {traces[i + 1].callers : i \in InUse} = Range(traced)
  /\ \A i \in InUse :
       LET t == traces[i + 1]
       IN  /\ t.n_allocations = Cardinality(Got(t.callers))
           /\ t.n_bytes = MapThenSumSet(LAMBDA o : objects[o], Got(t.callers))
           /\ \A o \in Got(t.callers) : trace_index_by_offset[o] = i
  /\ DOMAIN trace_index_by_offset = DOMAIN traced
  /\ Cardinality(InUse) = Cardinality(Range(traced))
  /\ IsInjective(trace_free_list)
  /\ ToSet(trace_free_list) = (0 .. Len(traces) - 1) \ InUse
=============================================================================
