------------------------------ MODULE SmpFifo ------------------------------
(***************************************************************************)
(* The multi-producer, multi-consumer ring of clib/smp_fifo.h: two free-   *)
(* running 32-bit indices advanced by compare-and-swap, and a state in the *)
(* footer of every element, written by plain stores, on which writers and  *)
(* readers of the same element rendezvous.                                 *)
(*                                                                         *)
(* Each access to an index or to a footer is an action of its own.         *)
(***************************************************************************)
EXTENDS Integers, FiniteSets

CONSTANTS
  Writers, Readers,   \* the CPUs that write to and read from this fifo
  log2_max_n_elts,    \* clib_smp_fifo_init: max_log2 (max_n_elts)
  IndexBits,          \* width of read_index and write_index (32 in the code)
  FirstIndices,       \* values of the indices at the start of a behaviour
  MaxSerial,          \* bound: elements each writer writes
  Nothing             \* no element

max_n_elts == 2 ^ log2_max_n_elts
max_n_elts_less_one == max_n_elts - 1
Indices == 0 .. 2 ^ IndexBits - 1

(* u32 arithmetic on indices.                                              *)
Wrap(i) == i % 2 ^ IndexBits

(* A behaviour is shorter than the range of an index, so that no CPU       *)
(* sleeps through 2^32 operations and finds the index it remembers again.  *)
ASSUME SmpFifoAssumption ==
  /\ IsFiniteSet(Writers) /\ IsFiniteSet(Readers) /\ Writers \cap Readers = {}
  /\ log2_max_n_elts \in Nat /\ IndexBits \in Nat /\ MaxSerial \in Nat
  /\ 2 * Cardinality(Writers) * MaxSerial + max_n_elts < 2 ^ IndexBits
  /\ FirstIndices \subseteq Indices

(* Of two powers of two the larger is a multiple of the smaller.           *)
ASSUME PowersOfTwo ==
  /\ max_n_elts \in Nat \ {0} /\ 2 ^ IndexBits \in Nat \ {0}
  /\ (2 ^ IndexBits) % max_n_elts = 0

(* Nothing is no element of the queue the fifo implements.                 *)
ASSUME NothingAssumption ==
  Nothing \notin [tx_cpu : Writers, serial : 0 .. MaxSerial, done : BOOLEAN]

(* clib_smp_fifo_data_state_t, with the magic number left out: only        *)
(* clib_smp_fifo_data_footer_set_state writes footers.                     *)
FREE == "free"
WRITE_ALLOC == "write_alloc"
WRITE_DONE == "write_done"
READ_FETCH == "read_fetch"
States == {FREE, WRITE_ALLOC, WRITE_DONE, READ_FETCH}

Slots == 0 .. max_n_elts_less_one
SlotOf(i) == i % max_n_elts

VARIABLES
  write_index, read_index,
  state,    \* footer of each element
  data,     \* the element itself: [tx_cpu, serial], as in test_smp.c
  pc,       \* next shared access of each CPU
  index0,   \* wi0 of a writer, ri0 of a reader
  serial,   \* write_serial_per_cpu: elements each writer has written
  claimer   \* history: the writer that last advanced write_index over a slot

vars == <<write_index, read_index, state, data, pc, index0, serial, claimer>>

WriterPCs == {"idle", "check_full", "write_state", "write_cas", "write_mark",
              "write_data", "write_done"}
ReaderPCs == {"idle", "check_empty", "read_state", "read_cas", "read_mark",
              "read_done"}

Element(w, n) == [tx_cpu |-> w, serial |-> n]
Elements == [tx_cpu : Writers, serial : 0 .. MaxSerial - 1]

-----------------------------------------------------------------------------
(* clib_smp_fifo_init, or any later moment when as many elements have been *)
(* read as have been written: all elements free, both indices the same.    *)
Init ==
  /\ write_index \in FirstIndices
  /\ read_index = write_index
  /\ state = [s \in Slots |-> FREE]
  /\ data = [s \in Slots |-> Nothing]
  /\ pc = [c \in Writers \cup Readers |-> "idle"]
  /\ index0 = [c \in Writers \cup Readers |-> 0]
  /\ serial = [w \in Writers |-> 0]
  /\ claimer = [s \in Slots |-> Nothing]

Goto(c, label) == pc' = [pc EXCEPT ![c] = label]
Keep(c, i) == index0' = [index0 EXCEPT ![c] = i]
MySlot(c) == SlotOf(index0[c])
Mark(c, s) == state' = [state EXCEPT ![MySlot(c)] = s]

(* A call returns; what it remembered of an index is dead.                 *)
Return(c) == Goto(c, "idle") /\ Keep(c, 0)

-----------------------------------------------------------------------------
(* clib_smp_fifo_write_alloc: read the write index ...                     *)
WriteAlloc(w) ==
  /\ pc[w] = "idle"
  /\ serial[w] < MaxSerial
  /\ Keep(w, write_index)
  /\ Goto(w, "check_full")
  /\ UNCHANGED <<write_index, read_index, state, data, serial, claimer>>

(* Mutant: one element too many fits.                                      *)
FullLate(i) == Wrap(i - read_index) > max_n_elts

(* "Fifo full?", in unsigned arithmetic.                                   *)
Full(i) == Wrap(i - read_index) > max_n_elts_less_one

(* ... then the read index, once per call.                                 *)
CheckFull(w) ==
  /\ pc[w] = "check_full"
  /\ IF Full(index0[w])
       THEN Return(w)
       ELSE Goto(w, "write_state") /\ UNCHANGED index0
  /\ UNCHANGED <<write_index, read_index, state, data, serial, claimer>>

(* Mutant: an element that is being read counts as free.                   *)
NotBeingWritten(w) == state[MySlot(w)] \in {FREE, READ_FETCH}

MayWrite(w) == state[MySlot(w)] = FREE

WriteState(w) ==
  /\ pc[w] = "write_state"
  /\ IF MayWrite(w)
       THEN Goto(w, "write_cas") /\ UNCHANGED index0
       ELSE Return(w)
  /\ UNCHANGED <<write_index, read_index, state, data, serial, claimer>>

(* "Other cpu wrote write index first: try again" starts over with the     *)
(* state of the next element, not with the fullness check.                 *)
WriteSwap(w) ==
  /\ pc[w] = "write_cas"
  /\ IF write_index = index0[w]
       THEN /\ write_index' = Wrap(index0[w] + 1)
            /\ claimer' = [claimer EXCEPT ![MySlot(w)] = w]
            /\ Goto(w, "write_mark")
            /\ UNCHANGED index0
       ELSE /\ Keep(w, write_index)
            /\ Goto(w, "write_state")
            /\ UNCHANGED <<write_index, claimer>>
  /\ UNCHANGED <<read_index, state, data, serial>>

WriteMark(w) ==
  /\ pc[w] = "write_mark"
  /\ Mark(w, WRITE_ALLOC)
  /\ Goto(w, "write_data")
  /\ UNCHANGED <<write_index, read_index, data, index0, serial, claimer>>

(* The caller (or clib_smp_fifo_memcpy) fills the element in.              *)
WriteData(w) ==
  /\ pc[w] = "write_data"
  /\ data' = [data EXCEPT ![MySlot(w)] = Element(w, serial[w])]
  /\ Goto(w, "write_done")
  /\ UNCHANGED <<write_index, read_index, state, index0, serial, claimer>>

(* clib_smp_fifo_write_done.                                               *)
WriteDone(w) ==
  /\ pc[w] = "write_done"
  /\ Mark(w, WRITE_DONE)
  /\ serial' = [serial EXCEPT ![w] = @ + 1]
  /\ Return(w)
  /\ UNCHANGED <<write_index, read_index, data, claimer>>

-----------------------------------------------------------------------------
(* clib_smp_fifo_read_fetch: read the read index ...                       *)
ReadFetch(r) ==
  /\ pc[r] = "idle"
  /\ Keep(r, read_index)
  /\ Goto(r, "check_empty")
  /\ UNCHANGED <<write_index, read_index, state, data, serial, claimer>>

(* "Fifo empty?"                                                           *)
CheckEmpty(r) ==
  /\ pc[r] = "check_empty"
  /\ IF Wrap(write_index - index0[r]) = 0
       THEN Return(r)
       ELSE Goto(r, "read_state") /\ UNCHANGED index0
  /\ UNCHANGED <<write_index, read_index, state, data, serial, claimer>>

MayRead(r) == state[MySlot(r)] = WRITE_DONE

ReadState(r) ==
  /\ pc[r] = "read_state"
  /\ IF MayRead(r)
       THEN Goto(r, "read_cas") /\ UNCHANGED index0
       ELSE Return(r)
  /\ UNCHANGED <<write_index, read_index, state, data, serial, claimer>>

ReadSwap(r) ==
  /\ pc[r] = "read_cas"
  /\ IF read_index = index0[r]
       THEN /\ read_index' = Wrap(index0[r] + 1)
            /\ Goto(r, "read_mark")
            /\ UNCHANGED index0
       ELSE /\ Keep(r, read_index)
            /\ Goto(r, "read_state")
            /\ UNCHANGED read_index
  /\ UNCHANGED <<write_index, state, data, serial, claimer>>

ReadMark(r) ==
  /\ pc[r] = "read_mark"
  /\ Mark(r, READ_FETCH)
  /\ Goto(r, "read_done")
  /\ UNCHANGED <<write_index, read_index, data, index0, serial, claimer>>

(* Mutant: the element is not given back.                                  *)
ReadNotDone(r) ==
  /\ pc[r] = "read_done"
  /\ Return(r)
  /\ UNCHANGED <<write_index, read_index, state, data, serial, claimer>>

(* clib_smp_fifo_read_done, after the caller has used the element.         *)
ReadDone(r) ==
  /\ pc[r] = "read_done"
  /\ Mark(r, FREE)
  /\ Return(r)
  /\ UNCHANGED <<write_index, read_index, data, serial, claimer>>

-----------------------------------------------------------------------------
WriteStep(w) ==
  \/ WriteAlloc(w) \/ CheckFull(w) \/ WriteState(w) \/ WriteSwap(w)
  \/ WriteMark(w) \/ WriteData(w) \/ WriteDone(w)

ReadStep(r) ==
  \/ ReadFetch(r) \/ CheckEmpty(r) \/ ReadState(r) \/ ReadSwap(r)
  \/ ReadMark(r) \/ ReadDone(r)

Next ==
  \/ \E w \in Writers : WriteStep(w)
  \/ \E r \in Readers : ReadStep(r)

Spec == Init /\ [][Next]_vars

(* test_smp_per_cpu_main: every CPU keeps running and polls, writers until *)
(* they have written everything, readers for as long as it takes.          *)
Fairness ==
  /\ \A w \in Writers : WF_vars(WriteStep(w))
  /\ \A r \in Readers : WF_vars(ReadStep(r))
FairSpec == Spec /\ Fairness

-----------------------------------------------------------------------------
(* Indices keep their width across the wrap, footers hold states of the    *)
(* protocol, and no writer writes more than its elements.                  *)
TypeOK ==
  /\ write_index \in Indices /\ read_index \in Indices
  /\ state \in [Slots -> States]
  /\ data \in [Slots -> Elements \cup {Nothing}]
  /\ pc \in [Writers \cup Readers -> WriterPCs \cup ReaderPCs]
  /\ index0 \in [Writers \cup Readers -> Indices]
  /\ serial \in [Writers -> 0 .. MaxSerial]
  /\ claimer \in [Slots -> Writers \cup {Nothing}]

(* clib_smp_fifo_n_elts.                                                   *)
n_elts == Wrap(write_index - read_index)

(* The ASSERTs of smp_fifo.h: never more elements than fit, and who ends   *)
(* the write or the read of an element finds it in the state it left it.   *)
AssertionsHold ==
  /\ n_elts <= max_n_elts_less_one + 1
  /\ \A w \in Writers : pc[w] = "write_done" => state[MySlot(w)] = WRITE_ALLOC
  /\ \A r \in Readers : pc[r] = "read_done" => state[MySlot(r)] = READ_FETCH

(* Between claiming an element and giving it up a CPU has it to itself,    *)
(* also while the footer does not say so yet.                              *)
UsesSlot(c) ==
  \/ c \in Writers /\ pc[c] \in {"write_mark", "write_data", "write_done"}
  \/ c \in Readers /\ pc[c] \in {"read_mark", "read_done"}
ExclusiveUse ==
  \A c, d \in Writers \cup Readers :
    c # d /\ UsesSlot(c) /\ UsesSlot(d) => MySlot(c) # MySlot(d)

(* The fifo is a SlotQueue of its elements between the indices.            *)
QueuedIn(s) ==
  IF state[s] = WRITE_DONE
    THEN [tx_cpu |-> data[s].tx_cpu, serial |-> data[s].serial, done |-> TRUE]
    ELSE [tx_cpu |-> claimer[s], serial |-> serial[claimer[s]], done |-> FALSE]

Queue == [i \in 1 .. n_elts |-> QueuedIn(SlotOf(read_index + (i - 1)))]

Holding ==
  [r \in Readers |->
     IF UsesSlot(r)
       THEN [tx_cpu |-> data[MySlot(r)].tx_cpu, serial |-> data[MySlot(r)].serial,
             done |-> TRUE]
       ELSE Nothing]

Abstract == INSTANCE SlotQueue WITH
  Capacity <- max_n_elts, queue <- Queue, holding <- Holding

ImplementsSlotQueue == Abstract!Spec

(* test_smp_per_cpu_main's loop ends: every element is written although    *)
(* the fifo is often full, and every element is read.                      *)
EverythingTransferred ==
  <>[](n_elts = 0 /\ \A w \in Writers : serial[w] = MaxSerial)
============================================================================
