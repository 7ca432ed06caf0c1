------------------------------ MODULE SmpLock ------------------------------
(***************************************************************************)
(* The queueing lock of clib/smp.h and clib/smp.c: a one-word header that  *)
(* is only ever changed by compare-and-swap, and a circular FIFO of wait   *)
(* slots, one per CPU that may have to wait.  The header packs the FIFO's  *)
(* head index and length, the number of readers and the writer bit; the    *)
(* slots are plain shared memory on which a waiter and the CPU that hands  *)
(* it the lock rendezvous.                                                 *)
(*                                                                         *)
(* Every access to shared memory (a read of the header, a compare-and-     *)
(* swap, a read or a write of a wait slot) is an action of its own, so CPUs*)
(* interleave between any two of them.  Computations on a CPU's private    *)
(* copy of the header belong to the access that follows them.              *)
(***************************************************************************)
EXTENDS Integers, FiniteSets

CONSTANTS
  CPUs,        \* the threads started by os_smp_bootstrap
  CPU0,        \* the one whose number is 0
  LockTypes    \* the clib_smp_lock_type_t values the callers use on this lock

(* clib_smp_lock_type_t. *)
READER == "reader"
WRITER == "writer"
SPIN   == "spin"

(* With fewer than two CPUs clib_smp_lock_init makes a null lock, which    *)
(* nothing locks, and CPU numbers must fit the header's quarter words; a   *)
(* lock is used either as a spin lock or as a reader/writer lock.          *)
ASSUME CPUsAssumption ==
  /\ IsFiniteSet(CPUs) /\ CPU0 \in CPUs
  /\ Cardinality(CPUs) >= 2 /\ Cardinality(CPUs) <= 65536
ASSUME LockTypesAssumption == LockTypes = {SPIN} \/ LockTypes \in SUBSET {READER, WRITER}

(* clib_smp_lock_wait_type_t. *)
EMPTY == "empty"
DONE  == "done"
WAIT_READER == "wait_reader"
WAIT_WRITER == "wait_writer"
WaitTypes == {EMPTY, DONE, WAIT_READER, WAIT_WRITER}

(* "Need n_cpus - 1 elts in waiting fifo." *)
n_fifo_elts == Cardinality(CPUs) - 1
Slots == 0 .. n_fifo_elts - 1

(* Ranges of the header's bit fields on a 64-bit build: 16 and 15 bits.  *)
QuarterWord == 65536
ReaderWord  == 32768

NoCPU == "no_cpu"
ASSUME NoCPUAssumption == NoCPU \notin CPUs

VARIABLES
  header,         \* clib_smp_lock_header_t: the word all CPUs compare and swap
  wait_type,      \* waiting_fifo[i].wait_type
  pc,             \* the next shared access of each CPU
  type,           \* lock type of the call each CPU is in
  h0,             \* each CPU's private copy of the header
  my_tail,        \* the FIFO slot each CPU waits in
  head_wait_type, \* what an unlocking CPU read from the head slot
  occupant,       \* history: the CPU that last claimed each slot
  granted         \* history: the CPUs the header accounts for as holders

vars == <<header, wait_type, pc, type, h0, my_tail, head_wait_type,
          occupant, granted>>
private == <<type, my_tail, head_wait_type>>

Headers == [head_index : Slots, n_elts : 0 .. QuarterWord - 1,
            request_cpu : CPUs,
            n_readers_with_lock : 0 .. ReaderWord - 1,
            writer_has_lock : BOOLEAN]

(* The header after memset (l, 0, n_bytes).  A private copy the code no    *)
(* longer reads is reset to it, so that states differ only in live values. *)
ZeroHeader == [head_index |-> 0, n_elts |-> 0, request_cpu |-> CPU0,
               n_readers_with_lock |-> 0, writer_has_lock |-> FALSE]

Locking   == {"lock_inline", "lock_slow", "spin_retry"}
Waiting   == {"await_empty", "enter_slot", "await_done"}
Unlocking == {"unlock_cas", "pop_wait", "pop_cas"}
Waking    == {"wake", "wake_more"}
PCs == {"idle", "clear_slot", "locked", "unlock_inline"}
         \cup Locking \cup Waiting \cup Unlocking \cup Waking

-----------------------------------------------------------------------------
(* clib_smp_lock_init: memset to zero, every slot EMPTY.                   *)
Init ==
  /\ header = ZeroHeader
  /\ wait_type = [s \in Slots |-> EMPTY]
  /\ pc = [c \in CPUs |-> "idle"]
  /\ type \in [CPUs -> LockTypes]
  /\ h0 = [c \in CPUs |-> ZeroHeader]
  /\ my_tail = [c \in CPUs |-> 0]
  /\ head_wait_type = [c \in CPUs |-> EMPTY]
  /\ occupant = [s \in Slots |-> NoCPU]
  /\ granted = {}

Goto(c, label) == pc' = [pc EXCEPT ![c] = label]
Keep(c, h) == h0' = [h0 EXCEPT ![c] = h]
IsReader(c) == type[c] = READER

(* clib_smp_lock_set_header: the compare-and-swap, which succeeds when no  *)
(* CPU changed the header since this one read it.  A CPU that fails goes   *)
(* on, at label, with the header it found.                                 *)
SwapFrom(c, h) == header = h0[c] /\ header' = h
SwapFails(c, label) ==
  /\ header # h0[c]
  /\ Keep(c, header)
  /\ Goto(c, label)
  /\ UNCHANGED <<header, granted, occupant>>

-----------------------------------------------------------------------------
(* The loop condition and the breaks of clib_smp_lock_inline.              *)
MayTake(t, h) ==
  /\ ~h.writer_has_lock
  /\ ~(t = WRITER /\ h.n_readers_with_lock # 0)
  /\ t # SPIN => h.n_elts = 0

LockPath(t, h) == IF MayTake(t, h) THEN "lock_inline" ELSE "lock_slow"

(* clib_smp_lock_inline: a caller reads the header.                        *)
Lock(c) ==
  /\ pc[c] = "idle"
  /\ \E t \in LockTypes :
       /\ type' = [type EXCEPT ![c] = t]
       /\ Goto(c, LockPath(t, header))
  /\ Keep(c, header)
  /\ UNCHANGED <<header, wait_type, my_tail, head_wait_type, occupant, granted>>

(* The header a CPU swaps in to take a lock nobody waits for.              *)
TakenHeader(c, h) ==
  [h EXCEPT !.request_cpu = c,
            !.writer_has_lock = ~IsReader(c),
            !.n_readers_with_lock = IF IsReader(c) THEN (@ + 1) % ReaderWord ELSE @]

(* clib_smp_lock_inline: try to take the lock with one compare-and-swap.   *)
LockInline(c) ==
  /\ pc[c] = "lock_inline"
  /\ \/ /\ SwapFrom(c, TakenHeader(c, h0[c]))
        /\ granted' = granted \cup {c}
        /\ Keep(c, ZeroHeader)
        /\ Goto(c, "locked")
        /\ UNCHANGED occupant
     \/ SwapFails(c, LockPath(type[c], header))
  /\ UNCHANGED <<private, wait_type>>

(* Mutant: the tail is not wrapped at the end of the FIFO.                 *)
TailNotWrapped(h) == h.head_index + h.n_elts

(* Slot behind the last waiter.                                            *)
TailOf(h) ==
  LET tail == h.head_index + h.n_elts
  IN  IF tail >= n_fifo_elts THEN tail - n_fifo_elts ELSE tail

QueuedHeader(c, h) ==
  [h EXCEPT !.n_elts = (@ + 1) % QuarterWord, !.request_cpu = c]

(* Mutant: nobody looks again whether the lock has been released.          *)
NeverRetry(c) == "lock_slow"

(* clib_smp_lock_slow_path: claim the slot at the FIFO's tail.  Only a     *)
(* spin lock looks again whether the lock has been released meanwhile.     *)
SlowPathRetry(c) ==
  IF type[c] = SPIN /\ ~header.writer_has_lock THEN "spin_retry" ELSE "lock_slow"

LockSlow(c) ==
  /\ pc[c] = "lock_slow"
  /\ \/ /\ SwapFrom(c, QueuedHeader(c, h0[c]))
        /\ my_tail' = [my_tail EXCEPT ![c] = TailOf(h0[c])]
        /\ occupant' = [occupant EXCEPT ![TailOf(h0[c])] = c]
        /\ Keep(c, ZeroHeader)
        /\ Goto(c, "await_empty")
        /\ UNCHANGED granted
     \/ /\ SwapFails(c, SlowPathRetry(c))
        /\ UNCHANGED my_tail
  /\ UNCHANGED <<type, head_wait_type, wait_type>>

(* clib_smp_lock_slow_path: the lock turned out to be free.                *)
SpinRetry(c) ==
  /\ pc[c] = "spin_retry"
  /\ \/ /\ SwapFrom(c, [h0[c] EXCEPT !.request_cpu = c, !.writer_has_lock = TRUE])
        /\ granted' = granted \cup {c}
        /\ Keep(c, ZeroHeader)
        /\ Goto(c, "locked")
        /\ UNCHANGED occupant
     \/ SwapFails(c, IF header.writer_has_lock THEN "lock_slow" ELSE "spin_retry")
  /\ UNCHANGED <<private, wait_type>>

-----------------------------------------------------------------------------
(* clib_smp_lock_slow_path: the slot may still be in use by the previous   *)
(* waiter; spin until it is EMPTY.                                         *)
AwaitEmpty(c) ==
  /\ pc[c] = "await_empty"
  /\ wait_type[my_tail[c]] = EMPTY
  /\ Goto(c, "enter_slot")
  /\ UNCHANGED <<header, wait_type, private, h0, occupant, granted>>

EnterSlot(c) ==
  /\ pc[c] = "enter_slot"
  /\ wait_type' = [wait_type EXCEPT ![my_tail[c]] =
                     IF IsReader(c) THEN WAIT_READER ELSE WAIT_WRITER]
  /\ Goto(c, "await_done")
  /\ UNCHANGED <<header, private, h0, occupant, granted>>

(* "Wait until CPU holding the lock grants us the lock."                   *)
AwaitDone(c) ==
  /\ pc[c] = "await_done"
  /\ wait_type[my_tail[c]] = DONE
  /\ Goto(c, "clear_slot")
  /\ UNCHANGED <<header, wait_type, private, h0, occupant, granted>>

(* Mutant: the slot is left DONE.                                          *)
LeaveSlot(c) ==
  /\ pc[c] = "clear_slot"
  /\ my_tail' = [my_tail EXCEPT ![c] = 0]
  /\ Goto(c, "locked")
  /\ UNCHANGED <<header, type, head_wait_type, h0, occupant, granted, wait_type>>

ClearSlot(c) ==
  /\ pc[c] = "clear_slot"
  /\ wait_type' = [wait_type EXCEPT ![my_tail[c]] = EMPTY]
  /\ my_tail' = [my_tail EXCEPT ![c] = 0]
  /\ Goto(c, "locked")
  /\ UNCHANGED <<header, type, head_wait_type, h0, occupant, granted>>

-----------------------------------------------------------------------------
UnlockPath(h) == IF h.n_elts = 0 THEN "unlock_cas" ELSE "pop_wait"

(* clib_smp_unlock_inline: the holder reads the header.                    *)
Unlock(c) ==
  /\ pc[c] \in {"locked", "unlock_inline"}
  /\ Keep(c, header)
  /\ Goto(c, UnlockPath(header))
  /\ UNCHANGED <<header, wait_type, private, occupant, granted>>

OneReaderLess(c, n) == IF IsReader(c) THEN (n - 1) % ReaderWord ELSE n

ReleasedHeader(c, h) ==
  [h EXCEPT !.request_cpu = c,
            !.n_readers_with_lock = OneReaderLess(c, @),
            !.writer_has_lock = IF IsReader(c) THEN @ ELSE FALSE]

(* clib_smp_unlock_inline: nobody waits; mark the lock released.           *)
UnlockSwap(c) ==
  /\ pc[c] = "unlock_cas"
  /\ \/ /\ SwapFrom(c, ReleasedHeader(c, h0[c]))
        /\ granted' = granted \ {c}
        /\ Keep(c, ZeroHeader)
        /\ Goto(c, "idle")
        /\ UNCHANGED occupant
     \/ SwapFails(c, UnlockPath(header))
  /\ UNCHANGED <<private, wait_type>>

(* clib_smp_unlock_slow_path: the head slot has been claimed but perhaps   *)
(* not entered yet; spin until its waiter has said what it waits for.      *)
PopWait(c) ==
  /\ pc[c] = "pop_wait"
  /\ wait_type[h0[c].head_index] # EMPTY
  /\ head_wait_type' = [head_wait_type EXCEPT ![c] = wait_type[h0[c].head_index]]
  /\ Goto(c, "pop_cas")
  /\ UNCHANGED <<header, wait_type, type, my_tail, h0, occupant, granted>>

(* Mutant: a writer is popped while other readers have the lock.           *)
NeverWait(c) == FALSE

(* "Don't advance FIFO to writer unless all readers have unlocked."        *)
MustWaitForReaders(c) ==
  /\ type[c] # SPIN
  /\ head_wait_type[c] = WAIT_WRITER
  /\ OneReaderLess(c, h0[c].n_readers_with_lock) # 0

(* Mutant: the head of the FIFO stays where it is.                         *)
SameSlot(s) == s

NextSlot(s) == IF s + 1 = n_fifo_elts THEN 0 ELSE s + 1

(* Mutant: the lock is marked released although it is passed on.           *)
PoppedAndReleased(c, h) ==
  [h EXCEPT !.head_index = NextSlot(@), !.n_elts = @ - 1, !.request_cpu = c,
            !.writer_has_lock = FALSE]

(* Mutant: the popped waiter is still counted.                             *)
PoppedNotCounted(c, h) ==
  [h EXCEPT !.head_index = NextSlot(@), !.request_cpu = c]

(* The header that passes the lock to the head of the FIFO.                *)
PoppedHeader(c, h) ==
  LET n == OneReaderLess(c, h.n_readers_with_lock)
      to_reader == type[c] # SPIN /\ head_wait_type[c] # WAIT_WRITER
  IN  [head_index |-> NextSlot(h.head_index),
       n_elts |-> (h.n_elts - 1) % QuarterWord,
       request_cpu |-> c,
       n_readers_with_lock |-> IF to_reader THEN (n + 1) % ReaderWord ELSE n,
       writer_has_lock |-> IF type[c] = SPIN THEN h.writer_has_lock ELSE ~to_reader]

(* clib_smp_unlock_slow_path: advance the FIFO, or only leave as one of    *)
(* several readers.  If the header changed and the FIFO is now empty the   *)
(* code starts over with clib_smp_unlock_inline.                           *)
PopSwap(c) ==
  /\ pc[c] = "pop_cas"
  /\ \/ /\ MustWaitForReaders(c)
        /\ SwapFrom(c, [h0[c] EXCEPT !.request_cpu = c,
                                     !.n_readers_with_lock = OneReaderLess(c, @)])
        /\ granted' = granted \ {c}
        /\ Keep(c, ZeroHeader)
        /\ head_wait_type' = [head_wait_type EXCEPT ![c] = EMPTY]
        /\ Goto(c, "idle")
        /\ UNCHANGED occupant
     \/ /\ ~MustWaitForReaders(c)
        /\ SwapFrom(c, PoppedHeader(c, h0[c]))
        /\ granted' = (granted \ {c}) \cup {occupant[h0[c].head_index]}
        /\ Goto(c, "wake")
        /\ UNCHANGED <<h0, head_wait_type, occupant>>
     \/ /\ SwapFails(c, IF header.n_elts = 0 THEN "unlock_inline" ELSE "pop_wait")
        /\ head_wait_type' = [head_wait_type EXCEPT ![c] = EMPTY]
  /\ UNCHANGED <<type, my_tail, wait_type>>

(* The CPU is done with the call.                                          *)
Return(c) ==
  /\ Keep(c, ZeroHeader)
  /\ head_wait_type' = [head_wait_type EXCEPT ![c] = EMPTY]
  /\ Goto(c, "idle")

(* "Shift lock to first thread waiting in fifo."                           *)
Wake(c) ==
  /\ pc[c] = "wake"
  /\ wait_type' = [wait_type EXCEPT ![h0[c].head_index] = DONE]
  /\ IF head_wait_type[c] = WAIT_READER
       THEN Goto(c, "wake_more") /\ UNCHANGED <<h0, head_wait_type>>
       ELSE Return(c)
  /\ UNCHANGED <<header, type, my_tail, occupant, granted>>

(* "For read locks we may be able to wake multiple readers."  The code     *)
(* looks at the head slot of h0, the header before the swap: the slot it   *)
(* has just woken.                                                         *)
WakeMore(c) ==
  /\ pc[c] = "wake_more"
  /\ IF h0[c].n_elts # 0 /\ wait_type[h0[c].head_index] = WAIT_READER
       THEN /\ Goto(c, "pop_wait")
            /\ head_wait_type' = [head_wait_type EXCEPT ![c] = EMPTY]
            /\ UNCHANGED h0
       ELSE Return(c)
  /\ UNCHANGED <<header, wait_type, type, my_tail, occupant, granted>>

-----------------------------------------------------------------------------
LockStep(c) == LockInline(c) \/ LockSlow(c) \/ SpinRetry(c)
WaitStep(c) == AwaitEmpty(c) \/ EnterSlot(c) \/ AwaitDone(c) \/ ClearSlot(c)
UnlockStep(c) == UnlockSwap(c) \/ PopWait(c) \/ PopSwap(c) \/ Wake(c) \/ WakeMore(c)
Step(c) == LockStep(c) \/ WaitStep(c) \/ Unlock(c) \/ UnlockStep(c)

Next == \E c \in CPUs : Lock(c) \/ Step(c)

Spec == Init /\ [][Next]_vars

(* Every CPU keeps executing and every critical section ends; whether a    *)
(* CPU asks for the lock again is up to its program.                       *)
Fairness == \A c \in CPUs : WF_vars(Step(c))
FairSpec == Spec /\ Fairness

-----------------------------------------------------------------------------
(* The header's fields keep their widths and every index of the waiting    *)
(* FIFO names one of its slots.                                            *)
TypeOK ==
  /\ header \in Headers
  /\ wait_type \in [Slots -> WaitTypes]
  /\ pc \in [CPUs -> PCs]
  /\ type \in [CPUs -> LockTypes]
  /\ h0 \in [CPUs -> Headers]
  /\ my_tail \in [CPUs -> Slots]
  /\ head_wait_type \in [CPUs -> WaitTypes]
  /\ occupant \in [Slots -> CPUs \cup {NoCPU}]
  /\ granted \in SUBSET (CPUs \cup {NoCPU})

(* Two CPUs are between clib_smp_lock and clib_smp_unlock at the same time *)
(* only if both took the lock as readers.                                  *)
MutualExclusion ==
  \A c, d \in CPUs :
    c # d /\ pc[c] = "locked" /\ pc[d] = "locked" => IsReader(c) /\ IsReader(d)

(* The ASSERT_AND_PANICs of smp.h and smp.c, each over the header copy the *)
(* code evaluates it on: a spin lock nobody has is a spin lock nobody      *)
(* waits for, the FIFO of n_cpus - 1 slots never overflows however stale   *)
(* the copy is, and who unlocks finds the lock taken the way it took it.   *)
AssertionsHold ==
  \A c \in CPUs :
    /\ pc[c] \in {"lock_inline", "spin_retry"} => h0[c].n_elts = 0
    /\ pc[c] = "lock_slow" => h0[c].n_elts + 1 <= n_fifo_elts
    /\ pc[c] \in Unlocking =>
         IF IsReader(c)
           THEN h0[c].n_readers_with_lock # 0 /\ ~h0[c].writer_has_lock
           ELSE h0[c].n_readers_with_lock = 0 /\ h0[c].writer_has_lock
    /\ pc[c] \in {"pop_wait", "pop_cas"} => h0[c].n_elts # 0

(* The header's reader count and writer bit say exactly which CPUs have    *)
(* the lock or are being handed it, never a writer together with anybody   *)
(* else, and a CPU that is in its critical section or unlocks is one of    *)
(* them: so on the fast paths, when readers and writers queue up, when a   *)
(* reader leaves others behind that a waiting writer has to wait for       *)
(* (smp.c:231), and when the lock is handed over.  Of locks for reading    *)
(* and writing this is what holds as long as a CPU that unlocks finds the  *)
(* waiter at the head of the FIFO in its slot; where it need not, the      *)
(* count goes wrong (smp.c:283 and smp.c:227, see MCSmpLock).              *)
HeaderAccountsForHolders ==
  /\ header.n_readers_with_lock = Cardinality({c \in granted : IsReader(c)})
  /\ Cardinality({c \in granted : ~IsReader(c)}) = IF header.writer_has_lock THEN 1 ELSE 0
  /\ header.writer_has_lock => header.n_readers_with_lock = 0
  /\ \A c \in CPUs : pc[c] \in {"clear_slot", "locked"} \cup Unlocking => c \in granted

(* "Wait until CPU holding the lock grants us the lock" (smp.c): a CPU in  *)
(* the FIFO waits for some CPU that has the lock and will pass it on.      *)
WaiterHasHolder ==
  \A c \in CPUs : pc[c] \in Waiting => granted # {}

(* A CPU that claimed a place in the FIFO gets the lock, whatever the      *)
(* other CPUs do.                                                          *)
WaiterServed ==
  \A c \in CPUs : pc[c] \in Waiting ~> pc[c] = "locked"

(* Used as a spin lock, the lock is a FifoLock: the queue is the part of   *)
(* the FIFO between the head index and the tail.                           *)
SlotAt(i) ==
  LET s == header.head_index + i - 1
  IN  IF s >= n_fifo_elts THEN s - n_fifo_elts ELSE s

WaitQueue == [i \in 1 .. header.n_elts |-> occupant[SlotAt(i)]]

Abstract == INSTANCE FifoLock WITH holders <- granted, queue <- WaitQueue

ImplementsFifoLock == Abstract!Spec
============================================================================
