--------------------------- MODULE SmpLockProofs ---------------------------
(***************************************************************************)
(* A clib_smp_lock_t used as a spin lock is correct for every number of    *)
(* CPUs: SpinInv is an inductive invariant of SmpLock, and mutual          *)
(* exclusion and the code's assertions follow from it.                     *)
(***************************************************************************)
EXTENDS SmpLock, Sequences, FiniteSetTheorems, SequenceTheorems, TLAPS

Holding == {"clear_slot", "locked", "unlock_inline"} \cup Unlocking

(* The CPUs in the FIFO, and the slots it occupies.                        *)
Queue == {c \in CPUs : pc[c] \in Waiting /\ c \notin granted}

Window(s, head, n) ==
  IF head + n <= n_fifo_elts
    THEN head <= s /\ s < head + n
    ELSE head <= s \/ s < head + n - n_fifo_elts

InFifo(s) == Window(s, header.head_index, header.n_elts)

(* TypeOK, less loose: no reader ever counts.                              *)
SpinHeaders == [head_index : Slots, n_elts : 0 .. n_fifo_elts, request_cpu : CPUs,
                n_readers_with_lock : {0}, writer_has_lock : BOOLEAN]
TypeInv ==
  /\ header \in SpinHeaders
  /\ wait_type \in [Slots -> WaitTypes]
  /\ pc \in [CPUs -> PCs \ {"wake_more"}]
  /\ type \in [CPUs -> {SPIN}]
  /\ h0 \in [CPUs -> SpinHeaders]
  /\ my_tail \in [CPUs -> Slots]
  /\ head_wait_type \in [CPUs -> WaitTypes]
  /\ occupant \in [Slots -> CPUs \cup {NoCPU}]
  /\ granted \in SUBSET CPUs

(* The writer bit says whether there is an owner, of which there is at     *)
(* most one; CPUs that act as owner are it.                                *)
OwnerInv ==
  /\ \A c, d \in granted : c = d
  /\ header.writer_has_lock <=> granted # {}
  /\ \A c \in CPUs : pc[c] \in Holding => c \in granted
  /\ \A c \in granted : pc[c] \in Holding \cup {"await_done"}

(* The FIFO holds the waiting CPUs, each once, and only behind an owner.   *)
FifoInv ==
  /\ header.n_elts = Cardinality(Queue)
  /\ granted = {} => Queue = {}
  /\ \A s \in Slots : InFifo(s) => occupant[s] \in Queue /\ my_tail[occupant[s]] = s
  /\ \A c \in Queue : InFifo(my_tail[c]) /\ occupant[my_tail[c]] = c

(* A slot is in use by at most one CPU, and says how far that CPU is.      *)
InSlot == {"enter_slot", "await_done", "clear_slot"}
SlotInv ==
  /\ \A c \in CPUs : pc[c] = "enter_slot" => wait_type[my_tail[c]] = EMPTY
  /\ \A c \in Queue : pc[c] = "await_done" => wait_type[my_tail[c]] = WAIT_WRITER
  /\ \A c \in granted : pc[c] = "await_done" =>
       wait_type[my_tail[c]] \in {WAIT_WRITER, DONE}
  /\ \A c \in CPUs : pc[c] = "clear_slot" => wait_type[my_tail[c]] = DONE
  /\ \A s \in Slots : wait_type[s] # EMPTY =>
       \E c \in CPUs : my_tail[c] = s /\ pc[c] \in {"await_done", "clear_slot"}
  /\ \A c, d \in CPUs : pc[c] \in InSlot /\ pc[d] \in InSlot /\ my_tail[c] = my_tail[d]
       => c = d

(* A CPU that hands the lock over knows the head of the FIFO, and the new  *)
(* owner does not move before it is woken.                                 *)
HandOverInv ==
  /\ \A c \in CPUs : pc[c] \in {"pop_wait", "pop_cas"} =>
       header.n_elts # 0 /\ h0[c].head_index = header.head_index
  /\ \A c \in CPUs : pc[c] = "pop_cas" =>
       pc[occupant[header.head_index]] = "await_done"
  /\ \A c \in CPUs : pc[c] \in {"pop_cas", "wake"} => head_wait_type[c] = WAIT_WRITER
  /\ \A c \in CPUs : pc[c] = "wake" => \E o \in granted :
       /\ pc[o] = "await_done"
       /\ my_tail[o] = h0[c].head_index
       /\ wait_type[my_tail[o]] = WAIT_WRITER
  /\ \A c, d \in CPUs : pc[c] = "wake" /\ pc[d] = "wake" => c = d

(* What the private copies of the header still say.                        *)
CopyInv ==
  \A c \in CPUs :
    /\ pc[c] \in {"lock_inline", "spin_retry"} =>
         ~h0[c].writer_has_lock /\ h0[c].n_elts = 0
    /\ pc[c] = "lock_slow" => h0[c].writer_has_lock /\ h0[c].n_elts + 1 <= n_fifo_elts
    /\ pc[c] \in Unlocking => h0[c].writer_has_lock
    /\ pc[c] = "unlock_cas" => h0[c].n_elts = 0
    /\ pc[c] \in {"pop_wait", "pop_cas"} => h0[c].n_elts # 0

SpinInv == TypeInv /\ OwnerInv /\ FifoInv /\ SlotInv /\ HandOverInv /\ CopyInv

-----------------------------------------------------------------------------
(* The waiting FIFO of clib_smp_lock_init has at least two slots.          *)
LEMMA FifoSize ==
  /\ n_fifo_elts \in Nat /\ n_fifo_elts >= 1
  /\ IsFiniteSet(CPUs)
  /\ Cardinality(CPUs) \in Nat /\ n_fifo_elts = Cardinality(CPUs) - 1
  /\ Slots = 0 .. n_fifo_elts - 1
<1>1. Cardinality(CPUs) \in Nat
  BY CPUsAssumption, FS_CardinalityType
<1> QED BY <1>1, CPUsAssumption DEF n_fifo_elts, Slots

(* The header clib_smp_lock_init writes is one a spin lock can have.       *)
LEMMA ZeroHeaderType == ZeroHeader \in SpinHeaders
BY FifoSize, CPUsAssumption DEF ZeroHeader, SpinHeaders

(* A FIFO index fits in the 16 bits of clib_smp_quarter_word_t.            *)
LEMMA FifoFitsQuarterWord == QuarterWord \in Nat /\ n_fifo_elts < QuarterWord
BY FifoSize, CPUsAssumption DEF QuarterWord

(* Claiming the tail adds one slot to the window.                          *)
LEMMA WindowGrows ==
  ASSUME NEW h \in SpinHeaders, h.n_elts < n_fifo_elts
  PROVE  /\ TailOf(h) \in Slots
         /\ ~Window(TailOf(h), h.head_index, h.n_elts)
         /\ \A s \in Slots :
              Window(s, h.head_index, h.n_elts + 1) <=>
                Window(s, h.head_index, h.n_elts) \/ s = TailOf(h)
<1> DEFINE head == h.head_index  n == h.n_elts
<1>1. head \in Slots /\ n \in Nat /\ n < n_fifo_elts
  BY FifoSize DEF SpinHeaders
<1>2. TailOf(h) = IF head + n >= n_fifo_elts THEN head + n - n_fifo_elts ELSE head + n
  BY <1>1, FifoSize DEF TailOf, SpinHeaders
<1> HIDE DEF head, n
<1>3. /\ TailOf(h) \in Slots
      /\ ~Window(TailOf(h), head, n)
      /\ \A s \in Slots : Window(s, head, n + 1) <=> Window(s, head, n) \/ s = TailOf(h)
  BY <1>1, <1>2, FifoSize DEF Window
<1> QED BY <1>3 DEF head, n

(* Popping the head removes it from the window.                            *)
LEMMA WindowShrinks ==
  ASSUME NEW head \in Slots, NEW n \in 1 .. n_fifo_elts
  PROVE  /\ NextSlot(head) \in Slots
         /\ Window(head, head, n)
         /\ \A s \in Slots :
              Window(s, NextSlot(head), n - 1) <=> Window(s, head, n) /\ s # head
BY FifoSize DEF NextSlot, Window

(* Only finitely many CPUs can be in the waiting FIFO.                     *)
LEMMA QueueFinite == IsFiniteSet(Queue) /\ Cardinality(Queue) \in Nat
BY FifoSize, FS_Subset, FS_CardinalityType DEF Queue

(* A CPU that neither waits nor owns the lock finds room in the FIFO.      *)
LEMMA RoomForOneMore ==
  ASSUME SpinInv, NEW c \in CPUs, c \notin Queue, c \notin granted, granted # {}
  PROVE  header.n_elts + 1 <= n_fifo_elts
<1>1. PICK o \in granted : o \in CPUs /\ o # c /\ o \notin Queue
  BY DEF SpinInv, TypeInv, Queue
<1>2. Queue \subseteq (CPUs \ {c}) \ {o}
  BY <1>1 DEF Queue
<1>3. IsFiniteSet((CPUs \ {c}) \ {o}) /\ Cardinality((CPUs \ {c}) \ {o}) = Cardinality(CPUs) - 2
  <2>1. IsFiniteSet(CPUs \ {c}) /\ Cardinality(CPUs \ {c}) = Cardinality(CPUs) - 1
    BY FS_RemoveElement, FifoSize
  <2>2. IsFiniteSet((CPUs \ {c}) \ {o})
        /\ Cardinality((CPUs \ {c}) \ {o}) = Cardinality(CPUs \ {c}) - 1
    BY <2>1, <1>1, FS_RemoveElement
  <2> QED BY <2>1, <2>2, FifoSize
<1>4. Cardinality(Queue) <= Cardinality(CPUs) - 2
  BY <1>2, <1>3, FS_Subset
<1> QED BY <1>4, FifoSize, QueueFinite DEF SpinInv, FifoInv

-----------------------------------------------------------------------------
(* clib_smp_lock_init establishes the strengthened invariant.              *)
THEOREM InitInv ==
  ASSUME LockTypes = {SPIN}, Init
  PROVE  SpinInv
<1>1. TypeInv
  BY FifoSize, ZeroHeaderType DEF Init, TypeInv, PCs, WaitTypes
<1>2. Queue = {}
  BY DEF Init, Queue, Waiting
<1>3. FifoInv
  BY <1>2, FS_EmptySet, FifoSize DEF Init, FifoInv, InFifo, Window, ZeroHeader
<1>4. OwnerInv /\ SlotInv /\ HandOverInv /\ CopyInv
  BY <1>2 DEF Init, OwnerInv, SlotInv, HandOverInv, CopyInv, Holding, Unlocking, InSlot,
            ZeroHeader
<1> QED BY <1>1, <1>3, <1>4 DEF SpinInv

-----------------------------------------------------------------------------
(* A CPU that wants the lock reads the header (for the first time, or as   *)
(* the outcome of a failed compare-and-swap) and goes on accordingly.      *)
LEMMA ReadToLock ==
  ASSUME SpinInv, NEW c \in CPUs, NEW l \in Locking,
         pc[c] \in {"idle"} \cup Locking,
         l = "lock_slow" <=> header.writer_has_lock,
         pc' = [pc EXCEPT ![c] = l],
         h0' = [h0 EXCEPT ![c] = header],
         UNCHANGED <<header, wait_type, type, my_tail, head_wait_type, occupant, granted>>
  PROVE  SpinInv'
<1> USE DEF SpinInv
<1>1. c \notin granted /\ c \notin Queue
  BY DEF OwnerInv, Queue, Holding, Unlocking, Waiting, Locking
<1>2. TypeInv'
  BY DEF TypeInv, PCs, Locking
<1>3. Queue' = Queue
  BY <1>1 DEF TypeInv, Queue, Waiting, Locking
<1>4. OwnerInv'
  BY <1>1 DEF TypeInv, OwnerInv, Holding, Unlocking, Locking
<1>5. FifoInv'
  BY <1>3 DEF FifoInv, InFifo
<1>6. SlotInv'
  BY <1>3 DEF TypeInv, SlotInv, InSlot, Locking
<1>7. HandOverInv'
  BY DEF TypeInv, HandOverInv, Locking
<1>8. CopyInv'
  BY <1>1, RoomForOneMore, FS_EmptySet
  DEF TypeInv, CopyInv, OwnerInv, FifoInv, Unlocking, Locking
<1> QED BY <1>2, <1>4, <1>5, <1>6, <1>7, <1>8

(* A CPU swaps the writer bit in and owns the lock.                        *)
LEMMA TakeLock ==
  ASSUME SpinInv, NEW c \in CPUs,
         pc[c] \in {"lock_inline", "spin_retry"},
         header = h0[c],
         header' = [header EXCEPT !.request_cpu = c, !.writer_has_lock = TRUE],
         granted' = granted \cup {c},
         pc' = [pc EXCEPT ![c] = "locked"],
         h0' = [h0 EXCEPT ![c] = ZeroHeader],
         UNCHANGED <<wait_type, type, my_tail, head_wait_type, occupant>>
  PROVE  SpinInv'
<1> USE DEF SpinInv
<1>1. ~header.writer_has_lock /\ header.n_elts = 0 /\ granted = {} /\ granted' = {c}
  BY DEF CopyInv, OwnerInv
<1>2. /\ header' \in SpinHeaders
      /\ header'.head_index = header.head_index
      /\ header'.n_elts = header.n_elts
      /\ header'.writer_has_lock
  BY DEF TypeInv, SpinHeaders
<1>3. TypeInv'
  BY <1>2, ZeroHeaderType DEF TypeInv, PCs
<1>4. Queue = {} /\ Queue' = {}
  BY <1>1 DEF FifoInv, TypeInv, Queue, Waiting
<1>5. OwnerInv'
  BY <1>1, <1>2 DEF TypeInv, OwnerInv, Holding, Unlocking
<1>6. FifoInv'
  BY <1>1, <1>2, <1>4 DEF FifoInv, InFifo
<1>7. SlotInv'
  BY <1>1, <1>4 DEF TypeInv, SlotInv, InSlot
<1>8. HandOverInv'
  BY <1>1, <1>2 DEF TypeInv, HandOverInv
<1>9. CopyInv'
  BY DEF TypeInv, CopyInv, Unlocking
<1> QED BY <1>3, <1>5, <1>6, <1>7, <1>8, <1>9

(* clib_smp_lock's first read of the header preserves the invariant.       *)
LEMMA LockInv ==
  ASSUME LockTypes = {SPIN}, SpinInv, NEW c \in CPUs, Lock(c)
  PROVE  SpinInv'
<1>1. \E t \in {SPIN} :
        type' = [type EXCEPT ![c] = t] /\ pc' = [pc EXCEPT ![c] = LockPath(t, header)]
  BY DEF Lock, Goto
<1>2. type' = type
  BY <1>1 DEF SpinInv, TypeInv
<1>3. LockPath(SPIN, header) \in Locking
      /\ (LockPath(SPIN, header) = "lock_slow" <=> header.writer_has_lock)
  BY DEF LockPath, MayTake, SPIN, WRITER, Locking
<1> QED BY <1>1, <1>2, <1>3, ReadToLock DEF Lock, Keep

(* On a spin lock no request is a reader's.                                *)
LEMMA SpinType ==
  ASSUME SpinInv, NEW c \in CPUs
  PROVE  type[c] = SPIN /\ ~IsReader(c)
BY DEF SpinInv, TypeInv, IsReader, SPIN, READER

(* The compare-and-swap of clib_smp_lock_inline preserves the invariant.   *)
LEMMA LockInlineInv ==
  ASSUME SpinInv, NEW c \in CPUs, LockInline(c)
  PROVE  SpinInv'
<1>1. CASE SwapFrom(c, TakenHeader(c, h0[c]))
           /\ granted' = granted \cup {c} /\ Keep(c, ZeroHeader) /\ Goto(c, "locked")
           /\ UNCHANGED occupant
  <2>1. TakenHeader(c, h0[c]) = [h0[c] EXCEPT !.request_cpu = c, !.writer_has_lock = TRUE]
    BY SpinType DEF TakenHeader, SpinInv, TypeInv, SpinHeaders
  <2> QED BY <1>1, <2>1, TakeLock DEF LockInline, SwapFrom, Keep, Goto, private
<1>2. CASE SwapFails(c, LockPath(type[c], header))
  <2>1. LockPath(type[c], header) \in Locking
        /\ (LockPath(type[c], header) = "lock_slow" <=> header.writer_has_lock)
    BY SpinType DEF LockPath, MayTake, SPIN, WRITER, Locking
  <2> QED BY <1>2, <2>1, ReadToLock DEF LockInline, SwapFails, Keep, Goto, private, Locking
<1> QED BY <1>1, <1>2 DEF LockInline

(* The slow path's retry of a released lock preserves the invariant.       *)
LEMMA SpinRetryInv ==
  ASSUME SpinInv, NEW c \in CPUs, SpinRetry(c)
  PROVE  SpinInv'
<1>1. CASE SwapFrom(c, [h0[c] EXCEPT !.request_cpu = c, !.writer_has_lock = TRUE])
           /\ granted' = granted \cup {c} /\ Keep(c, ZeroHeader) /\ Goto(c, "locked")
           /\ UNCHANGED occupant
  BY <1>1, TakeLock DEF SpinRetry, SwapFrom, Keep, Goto, private
<1>2. CASE SwapFails(c, IF header.writer_has_lock THEN "lock_slow" ELSE "spin_retry")
  <2> DEFINE l == IF header.writer_has_lock THEN "lock_slow" ELSE "spin_retry"
  <2>1. l \in Locking /\ (l = "lock_slow" <=> header.writer_has_lock)
    BY DEF Locking
  <2> QED BY <1>2, <2>1, ReadToLock DEF SpinRetry, SwapFails, Keep, Goto, private, Locking
<1> QED BY <1>1, <1>2 DEF SpinRetry

-----------------------------------------------------------------------------
(* The steps of a waiting CPU on its slot leave the FIFO alone.            *)
LEMMA AwaitEmptyInv ==
  ASSUME SpinInv, NEW c \in CPUs, AwaitEmpty(c)
  PROVE  SpinInv'
<1> USE DEF SpinInv, AwaitEmpty, Goto, private
<1>1. c \in Queue
  BY DEF OwnerInv, Queue, Waiting, Holding, Unlocking
<1>2. TypeInv'
  BY DEF TypeInv, PCs, Waiting
<1>3. Queue' = Queue
  BY <1>1 DEF TypeInv, Queue, Waiting
<1>4. OwnerInv'
  BY <1>1 DEF TypeInv, OwnerInv, Holding, Unlocking, Queue
<1>5. FifoInv'
  BY <1>3 DEF FifoInv, InFifo
<1>6. SlotInv'
  <2>1. \A d \in CPUs : pc[d] \in InSlot /\ my_tail[d] = my_tail[c] => d = c
    <3> SUFFICES ASSUME NEW d \in CPUs, pc[d] \in InSlot, my_tail[d] = my_tail[c]
                 PROVE  d = c
      OBVIOUS
    <3>1. CASE pc[d] = "enter_slot"
      <4>1. d \in Queue
        BY <3>1 DEF OwnerInv, Queue, Waiting, Holding, Unlocking
      <4> QED BY <1>1, <4>1 DEF FifoInv
    <3>2. CASE pc[d] \in {"await_done", "clear_slot"}
      BY <3>2 DEF SlotInv, Queue, Waiting, EMPTY, DONE, WAIT_WRITER
    <3> QED BY <3>1, <3>2 DEF InSlot
  <2> QED BY <1>1, <1>3, <2>1 DEF TypeInv, SlotInv, InSlot
<1>7. HandOverInv'
  BY <1>1 DEF TypeInv, HandOverInv, Queue
<1>8. CopyInv'
  BY DEF TypeInv, CopyInv, Unlocking
<1> QED BY <1>2, <1>4, <1>5, <1>6, <1>7, <1>8

(* Entering the request in the claimed slot preserves the invariant.       *)
LEMMA EnterSlotInv ==
  ASSUME SpinInv, NEW c \in CPUs, EnterSlot(c)
  PROVE  SpinInv'
<1> USE DEF SpinInv, EnterSlot, Goto, private
<1>1. c \in Queue
  BY DEF OwnerInv, Queue, Waiting, Holding, Unlocking
<1>2. wait_type' = [wait_type EXCEPT ![my_tail[c]] = WAIT_WRITER]
  BY SpinType
<1>3. TypeInv'
  BY <1>2 DEF TypeInv, PCs, Waiting, WaitTypes
<1>4. Queue' = Queue
  BY <1>1 DEF TypeInv, Queue, Waiting
<1>5. OwnerInv'
  BY <1>1 DEF TypeInv, OwnerInv, Holding, Unlocking, Queue
<1>6. FifoInv'
  BY <1>4 DEF FifoInv, InFifo
<1>7. SlotInv'
  <2>1. \A d \in CPUs : d # c /\ pc[d] \in InSlot => my_tail[d] # my_tail[c]
    BY DEF SlotInv, InSlot
  <2> QED BY <1>1, <1>2, <1>4, <2>1 DEF TypeInv, SlotInv, InSlot, Queue
<1>8. HandOverInv'
  <2>1. \A o \in granted : pc[o] = "await_done" => o # c /\ my_tail[o] # my_tail[c]
    BY <1>1 DEF SlotInv, InSlot, Queue, TypeInv
  <2> QED BY <1>1, <1>2, <2>1 DEF TypeInv, HandOverInv, Queue
<1>9. CopyInv'
  BY DEF TypeInv, CopyInv, Unlocking
<1> QED BY <1>3, <1>5, <1>6, <1>7, <1>8, <1>9

(* Seeing wait_type DONE in the slot preserves the invariant.              *)
LEMMA AwaitDoneInv ==
  ASSUME SpinInv, NEW c \in CPUs, AwaitDone(c)
  PROVE  SpinInv'
<1> USE DEF SpinInv, AwaitDone, Goto, private
<1>1. c \in granted
  BY DEF SlotInv, Queue, Waiting, DONE, WAIT_WRITER
<1>2. TypeInv'
  BY DEF TypeInv, PCs
<1>3. Queue' = Queue
  BY <1>1 DEF TypeInv, Queue, Waiting
<1>4. OwnerInv'
  BY <1>1 DEF TypeInv, OwnerInv, Holding, Unlocking
<1>5. FifoInv'
  BY <1>3 DEF FifoInv, InFifo
<1>6. SlotInv'
  BY <1>1, <1>3 DEF TypeInv, SlotInv, InSlot, Queue
<1>7. HandOverInv'
  <2>1. \A d \in CPUs : pc[d] # "wake"
    BY <1>1 DEF HandOverInv, OwnerInv, DONE, WAIT_WRITER
  <2>2. \A d \in CPUs : pc[d] # "pop_cas"
    BY <1>1 DEF OwnerInv, Holding, Unlocking
  <2> QED BY <2>1, <2>2 DEF TypeInv, HandOverInv
<1>8. CopyInv'
  BY DEF TypeInv, CopyInv, Unlocking
<1> QED BY <1>2, <1>4, <1>5, <1>6, <1>7, <1>8

(* Giving the slot back as EMPTY preserves the invariant.                  *)
LEMMA ClearSlotInv ==
  ASSUME SpinInv, NEW c \in CPUs, ClearSlot(c)
  PROVE  SpinInv'
<1> USE DEF SpinInv, ClearSlot, Goto
<1>1. c \in granted /\ c \notin Queue
  BY DEF OwnerInv, Holding, Queue, Waiting
<1>2. TypeInv'
  BY FifoSize DEF TypeInv, PCs, WaitTypes
<1>3. Queue' = Queue
  BY <1>1 DEF TypeInv, Queue, Waiting
<1>4. OwnerInv'
  BY <1>1 DEF TypeInv, OwnerInv, Holding, Unlocking
<1>5. FifoInv'
  BY <1>1, <1>3 DEF TypeInv, FifoInv, InFifo, Queue
<1>6. SlotInv'
  <2>1. \A d \in CPUs : d # c /\ pc[d] \in InSlot => my_tail[d] # my_tail[c]
    BY DEF SlotInv, InSlot
  <2>2. \A d \in CPUs : d # c => pc'[d] = pc[d] /\ my_tail'[d] = my_tail[d]
    BY DEF TypeInv
  <2>3. pc'[c] = "locked"
    BY DEF TypeInv
  <2> QED BY <1>1, <1>3, <2>1, <2>2, <2>3 DEF TypeInv, SlotInv, InSlot, Queue
<1>7. HandOverInv'
  <2>1. \A d \in CPUs : pc[d] # "wake" /\ pc[d] # "pop_cas" /\ pc[d] # "pop_wait"
    BY <1>1 DEF HandOverInv, OwnerInv, Holding, Unlocking
  <2> QED BY <2>1 DEF TypeInv, HandOverInv
<1>8. CopyInv'
  BY DEF TypeInv, CopyInv, Unlocking
<1> QED BY <1>2, <1>4, <1>5, <1>6, <1>7, <1>8

-----------------------------------------------------------------------------
(* The owner reads the header and tries to release or to hand over.        *)
LEMMA ReadToUnlock ==
  ASSUME SpinInv, NEW c \in CPUs, NEW l \in {"unlock_inline", "unlock_cas", "pop_wait"},
         pc[c] \in {"locked", "unlock_inline", "unlock_cas", "pop_cas"},
         l = "pop_wait" <=> header.n_elts # 0,
         pc' = [pc EXCEPT ![c] = l],
         h0' = [h0 EXCEPT ![c] = header],
         head_wait_type' \in [CPUs -> WaitTypes],
         \A d \in CPUs : d # c => head_wait_type'[d] = head_wait_type[d],
         UNCHANGED <<header, wait_type, type, my_tail, occupant, granted>>
  PROVE  SpinInv'
<1> USE DEF SpinInv
<1>1. c \in granted /\ c \notin Queue
  BY DEF OwnerInv, Holding, Unlocking, Queue, Waiting
<1>2. TypeInv'
  BY DEF TypeInv, PCs, Unlocking
<1>3. Queue' = Queue
  BY <1>1 DEF TypeInv, Queue, Waiting
<1>4. OwnerInv'
  BY <1>1 DEF TypeInv, OwnerInv, Holding, Unlocking
<1>5. FifoInv'
  BY <1>3 DEF FifoInv, InFifo
<1>6. SlotInv'
  BY <1>1, <1>3 DEF TypeInv, SlotInv, InSlot
<1>7. HandOverInv'
  <2>1. \A d \in CPUs : pc[d] # "wake" /\ (d # c => pc[d] \notin {"pop_wait", "pop_cas"})
    BY <1>1 DEF HandOverInv, OwnerInv, Holding, Unlocking
  <2> QED BY <2>1 DEF TypeInv, HandOverInv
<1>8. CopyInv'
  BY <1>1 DEF TypeInv, CopyInv, OwnerInv, Unlocking
<1> QED BY <1>2, <1>4, <1>5, <1>6, <1>7, <1>8

(* clib_smp_unlock's first read of the header preserves the invariant.     *)
LEMMA UnlockInv ==
  ASSUME SpinInv, NEW c \in CPUs, Unlock(c)
  PROVE  SpinInv'
<1>1. /\ UnlockPath(header) \in {"unlock_inline", "unlock_cas", "pop_wait"}
      /\ UnlockPath(header) = "pop_wait" <=> header.n_elts # 0
  BY DEF UnlockPath
<1>2. head_wait_type \in [CPUs -> WaitTypes]
  BY DEF SpinInv, TypeInv
<1> QED BY <1>1, <1>2, ReadToUnlock DEF Unlock, Keep, Goto, private

(* The releasing compare-and-swap preserves the invariant.                 *)
LEMMA UnlockSwapInv ==
  ASSUME SpinInv, NEW c \in CPUs, UnlockSwap(c)
  PROVE  SpinInv'
<1> USE DEF SpinInv
<1>1. CASE SwapFrom(c, ReleasedHeader(c, h0[c])) /\ granted' = granted \ {c}
           /\ Keep(c, ZeroHeader) /\ Goto(c, "idle") /\ UNCHANGED occupant
  <2> USE <1>1 DEF UnlockSwap, SwapFrom, Keep, Goto, private
  <2>1. c \in granted /\ granted' = {}
    BY DEF OwnerInv, Holding, Unlocking
  <2>2. /\ header' \in SpinHeaders
        /\ header'.head_index = header.head_index
        /\ header'.n_elts = header.n_elts
        /\ ~header'.writer_has_lock
    BY SpinType DEF ReleasedHeader, OneReaderLess, TypeInv, SpinHeaders
  <2>3. TypeInv'
    BY <2>1, <2>2, ZeroHeaderType DEF TypeInv, PCs
  <2>4. Queue = {}
    <3>1. Cardinality(Queue) = 0
      BY DEF CopyInv, FifoInv
    <3> QED BY <3>1, QueueFinite, FS_EmptySet
  <2>5. Queue' = {}
    <3>1. \A d \in CPUs : pc[d] \in Waiting => FALSE
      BY <2>1, <2>4 DEF Queue, OwnerInv, Waiting
    <3> QED BY <3>1 DEF TypeInv, Queue, Waiting
  <2>6. OwnerInv'
    BY <2>1, <2>2 DEF TypeInv, OwnerInv, Holding, Unlocking
  <2>7. FifoInv'
    BY <2>2, <2>4, <2>5 DEF FifoInv, InFifo
  <2>8. SlotInv'
    BY <2>1, <2>5 DEF TypeInv, SlotInv, InSlot
  <2>9. HandOverInv'
    <3>1. \A d \in CPUs : pc[d] \notin {"wake", "pop_cas", "pop_wait"}
      BY <2>1 DEF HandOverInv, OwnerInv, Holding, Unlocking
    <3> QED BY <3>1 DEF TypeInv, HandOverInv
  <2>10. CopyInv'
    BY DEF TypeInv, CopyInv, Unlocking
  <2> QED BY <2>3, <2>6, <2>7, <2>8, <2>9, <2>10
<1>2. CASE SwapFails(c, UnlockPath(header))
  <2>1. /\ UnlockPath(header) \in {"unlock_inline", "unlock_cas", "pop_wait"}
        /\ UnlockPath(header) = "pop_wait" <=> header.n_elts # 0
    BY DEF UnlockPath
  <2>2. head_wait_type \in [CPUs -> WaitTypes]
    BY DEF TypeInv
  <2> QED BY <1>2, <2>1, <2>2, ReadToUnlock DEF UnlockSwap, SwapFails, Keep, Goto, private
<1> QED BY <1>1, <1>2 DEF UnlockSwap

(* What the owner finds in the head slot was put there by the head waiter. *)
LEMMA HeadWaits ==
  ASSUME SpinInv, NEW c \in CPUs, pc[c] = "pop_wait",
         wait_type[header.head_index] # EMPTY
  PROVE  /\ occupant[header.head_index] \in Queue
         /\ pc[occupant[header.head_index]] = "await_done"
         /\ wait_type[header.head_index] = WAIT_WRITER
<1> USE DEF SpinInv
<1>1. PICK d \in CPUs : my_tail[d] = header.head_index /\ pc[d] \in {"await_done", "clear_slot"}
  BY DEF SlotInv, TypeInv, SpinHeaders
<1>2. c \in granted /\ d # c
  BY <1>1 DEF OwnerInv, Holding, Unlocking
<1>3. d \notin granted /\ pc[d] = "await_done"
  BY <1>1, <1>2 DEF OwnerInv, Holding
<1>4. d \in Queue
  BY <1>3 DEF Queue, Waiting
<1> QED BY <1>1, <1>3, <1>4 DEF FifoInv, SlotInv

(* Reading the head slot, once it is entered, preserves the invariant.     *)
LEMMA PopWaitInv ==
  ASSUME SpinInv, NEW c \in CPUs, PopWait(c)
  PROVE  SpinInv'
<1> USE DEF SpinInv, PopWait, Goto
<1>1. c \in granted /\ c \notin Queue
  BY DEF OwnerInv, Holding, Unlocking, Queue, Waiting
<1>2. h0[c].head_index = header.head_index
  BY DEF HandOverInv
<1>3. /\ occupant[header.head_index] \in Queue
      /\ pc[occupant[header.head_index]] = "await_done"
      /\ wait_type[header.head_index] = WAIT_WRITER
  BY <1>2, HeadWaits
<1>4. TypeInv'
  BY <1>2, <1>3 DEF TypeInv, PCs, Unlocking, WaitTypes
<1>5. Queue' = Queue
  BY <1>1 DEF TypeInv, Queue, Waiting
<1>6. OwnerInv'
  BY <1>1 DEF TypeInv, OwnerInv, Holding, Unlocking
<1>7. FifoInv'
  BY <1>5 DEF FifoInv, InFifo
<1>8. SlotInv'
  BY <1>1, <1>5 DEF TypeInv, SlotInv, InSlot
<1>9. HandOverInv'
  <2>1. \A d \in CPUs : pc[d] # "wake" /\ (d # c => pc[d] \notin {"pop_wait", "pop_cas"})
    BY <1>1 DEF HandOverInv, OwnerInv, Holding, Unlocking
  <2> QED BY <1>1, <1>2, <1>3, <2>1 DEF TypeInv, HandOverInv
<1>10. CopyInv'
  BY DEF TypeInv, CopyInv, Unlocking
<1> QED BY <1>4, <1>6, <1>7, <1>8, <1>9, <1>10

(* Marking the popped slot DONE preserves the invariant.                   *)
LEMMA WakeInv ==
  ASSUME SpinInv, NEW c \in CPUs, Wake(c)
  PROVE  SpinInv'
<1> USE DEF SpinInv
<1>1. head_wait_type[c] # WAIT_READER
  BY DEF Wake, HandOverInv, WAIT_READER, WAIT_WRITER
<1>2. /\ pc[c] = "wake"
      /\ wait_type' = [wait_type EXCEPT ![h0[c].head_index] = DONE]
      /\ h0' = [h0 EXCEPT ![c] = ZeroHeader]
      /\ head_wait_type' = [head_wait_type EXCEPT ![c] = EMPTY]
      /\ pc' = [pc EXCEPT ![c] = "idle"]
      /\ UNCHANGED <<header, type, my_tail, occupant, granted>>
  BY <1>1 DEF Wake, Return, Keep, Goto
<1>3. PICK o \in granted : pc[o] = "await_done" /\ my_tail[o] = h0[c].head_index
  BY <1>2 DEF HandOverInv
<1>4. o \in CPUs /\ o # c /\ my_tail[o] \in Slots /\ c \notin granted /\ c \notin Queue
  BY <1>2, <1>3 DEF TypeInv, OwnerInv, Holding, Unlocking, Queue, Waiting
<1>5. TypeInv'
  BY <1>2, <1>3, <1>4, ZeroHeaderType DEF TypeInv, PCs, WaitTypes
<1>6. Queue' = Queue
  BY <1>2, <1>4 DEF TypeInv, Queue, Waiting
<1>7. OwnerInv'
  BY <1>2, <1>4 DEF TypeInv, OwnerInv, Holding, Unlocking
<1>8. FifoInv'
  BY <1>2, <1>6 DEF FifoInv, InFifo
<1>9. SlotInv'
  <2>1. \A d \in CPUs : d # o /\ pc[d] \in InSlot => my_tail[d] # my_tail[o]
    BY <1>3, <1>4 DEF SlotInv, InSlot
  <2>2. o \notin Queue
    BY DEF Queue
  <2> QED BY <1>2, <1>3, <1>4, <1>6, <2>1, <2>2 DEF TypeInv, SlotInv, InSlot, Queue
<1>10. HandOverInv'
  <2>1. \A d \in CPUs : pc[d] \notin {"pop_wait", "pop_cas"} /\ (d # c => pc[d] # "wake")
    BY <1>2, <1>3, <1>4 DEF HandOverInv, OwnerInv, Holding, Unlocking
  <2> QED BY <1>2, <2>1 DEF TypeInv, HandOverInv
<1>11. CopyInv'
  BY <1>2 DEF TypeInv, CopyInv, Unlocking
<1> QED BY <1>5, <1>7, <1>8, <1>9, <1>10, <1>11

-----------------------------------------------------------------------------
(* A CPU claims the slot behind the last waiter.                           *)
LEMMA LockSlowInv ==
  ASSUME SpinInv, NEW c \in CPUs, LockSlow(c)
  PROVE  SpinInv'
<1> USE DEF SpinInv
<1> DEFINE tail == TailOf(header)
<1>1. CASE /\ SwapFrom(c, QueuedHeader(c, h0[c]))
           /\ my_tail' = [my_tail EXCEPT ![c] = TailOf(h0[c])]
           /\ occupant' = [occupant EXCEPT ![TailOf(h0[c])] = c]
           /\ Keep(c, ZeroHeader) /\ Goto(c, "await_empty") /\ UNCHANGED granted
  <2>1. /\ header = h0[c] /\ header' = QueuedHeader(c, header) /\ pc[c] = "lock_slow"
        /\ my_tail' = [my_tail EXCEPT ![c] = tail]
        /\ occupant' = [occupant EXCEPT ![tail] = c]
        /\ h0' = [h0 EXCEPT ![c] = ZeroHeader]
        /\ pc' = [pc EXCEPT ![c] = "await_empty"]
        /\ UNCHANGED <<granted, type, head_wait_type, wait_type>>
    BY <1>1 DEF LockSlow, SwapFrom, Keep, Goto
  <2>2. header.writer_has_lock /\ header.n_elts + 1 <= n_fifo_elts /\ granted # {}
    BY <2>1 DEF CopyInv, OwnerInv
  <2>3. c \notin granted /\ c \notin Queue
    BY <2>1 DEF OwnerInv, Holding, Unlocking, Queue, Waiting
  <2>4. header \in SpinHeaders /\ header.n_elts \in Nat /\ header.n_elts < n_fifo_elts
    BY <2>2, FifoSize DEF TypeInv, SpinHeaders
  <2>5. /\ tail \in Slots
        /\ ~InFifo(tail)
        /\ \A s \in Slots : Window(s, header.head_index, header.n_elts + 1) <=>
                              InFifo(s) \/ s = tail
    BY <2>4, WindowGrows DEF InFifo
  <2> HIDE DEF tail
  <2>6. (header.n_elts + 1) % QuarterWord = header.n_elts + 1
    BY <2>4, FifoSize, FifoFitsQuarterWord
  <2>7. /\ header' \in SpinHeaders
        /\ header'.head_index = header.head_index
        /\ header'.n_elts = header.n_elts + 1
        /\ header'.writer_has_lock
    <3>1. header' = [header EXCEPT !.n_elts = header.n_elts + 1, !.request_cpu = c]
      BY <2>1, <2>6 DEF QueuedHeader
    <3>2. header.n_elts + 1 \in 0 .. n_fifo_elts
      BY <2>2, <2>4, FifoSize
    <3> HIDE DEF SpinInv
    <3>3. header \in [head_index : Slots, n_elts : 0 .. n_fifo_elts, request_cpu : CPUs,
                     n_readers_with_lock : {0}, writer_has_lock : BOOLEAN]
      BY <2>4 DEF SpinHeaders
    <3> QED BY <2>2, <3>1, <3>2, <3>3 DEF SpinHeaders
  <2>8. TypeInv'
    BY <2>1, <2>5, <2>7, ZeroHeaderType DEF TypeInv, PCs, Waiting
  <2>9. Queue' = Queue \cup {c}
    BY <2>1, <2>3 DEF TypeInv, Queue, Waiting
  <2>10. OwnerInv'
    BY <2>1, <2>2, <2>3, <2>7 DEF TypeInv, OwnerInv, Holding, Unlocking
  <2>11. FifoInv'
    <3>1. header'.n_elts = Cardinality(Queue')
      <4>1. Cardinality(Queue \cup {c}) = Cardinality(Queue) + 1
        BY <2>3, QueueFinite, FS_AddElement
      <4> QED BY <2>7, <2>9, <4>1 DEF FifoInv
    <3> DEFINE InFifoNext(s) == Window(s, header'.head_index, header'.n_elts)
    <3>2. \A s \in Slots : InFifoNext(s) <=> InFifo(s) \/ s = tail
      BY <2>5, <2>7
    <3>3. \A d \in CPUs : d # c => my_tail'[d] = my_tail[d]
      BY <2>1 DEF TypeInv
    <3>4. my_tail'[c] = tail /\ occupant'[tail] = c
      BY <2>1, <2>5 DEF TypeInv
    <3>5. \A s \in Slots : s # tail => occupant'[s] = occupant[s]
      BY <2>1 DEF TypeInv
    <3> HIDE DEF InFifoNext
    <3>6. \A s \in Slots : InFifoNext(s) =>
            occupant'[s] \in Queue \cup {c} /\ my_tail'[occupant'[s]] = s
      BY <2>3, <3>2, <3>3, <3>4, <3>5 DEF FifoInv, Queue
    <3>7. \A d \in Queue \cup {c} : InFifoNext(my_tail'[d]) /\ occupant'[my_tail'[d]] = d
      <4>1. \A d \in Queue : d \in CPUs /\ d # c /\ my_tail[d] \in Slots /\ InFifo(my_tail[d])
        BY <2>3 DEF FifoInv, Queue, TypeInv
      <4>2. \A d \in Queue : my_tail[d] # tail
        BY <2>5, <4>1
      <4> QED BY <2>5, <3>2, <3>3, <3>4, <3>5, <4>1, <4>2 DEF FifoInv
    <3> QED BY <2>1, <2>2, <2>9, <3>1, <3>6, <3>7 DEF FifoInv, InFifo, InFifoNext
  <2>12. SlotInv'
    <3>1. \A d \in CPUs : d # c => pc'[d] = pc[d] /\ my_tail'[d] = my_tail[d]
      BY <2>1 DEF TypeInv
    <3>2. pc'[c] = "await_empty"
      BY <2>1 DEF TypeInv
    <3> QED BY <2>1, <2>3, <2>9, <3>1, <3>2 DEF SlotInv, InSlot, TypeInv
  <2>13. HandOverInv'
    <3>1. \A d \in CPUs : d # c => pc'[d] = pc[d] /\ my_tail'[d] = my_tail[d] /\ h0'[d] = h0[d]
      BY <2>1 DEF TypeInv
    <3>2. pc'[c] = "await_empty"
      BY <2>1 DEF TypeInv
    <3>0. header.head_index \in Slots /\ (header.n_elts # 0 => InFifo(header.head_index))
      <4>1. header.head_index \in Slots /\ (header.n_elts # 0 => header.n_elts \in 1 .. n_fifo_elts)
        BY <2>4, FifoSize DEF SpinHeaders
      <4> QED BY <4>1, WindowShrinks DEF InFifo
    <3>3. header.n_elts # 0 => tail # header.head_index
      BY <2>5, <3>0
    <3>4. \A d \in CPUs : pc[d] = "pop_cas" =>
            occupant[header.head_index] # c /\ occupant'[header.head_index] = occupant[header.head_index]
      BY <2>1, <2>4, <3>3 DEF HandOverInv, TypeInv, SpinHeaders
    <3>5. \A d \in CPUs : pc[d] = "pop_cas" => occupant[header.head_index] \in CPUs
      BY <3>0 DEF HandOverInv, FifoInv, Queue
    <3>6. \A o \in granted : o \in CPUs /\ o # c
      BY <2>3 DEF TypeInv
    <3>7. header'.head_index = header.head_index /\ header'.n_elts # 0
      BY <2>4, <2>7
    <3> QED BY <2>1, <3>1, <3>2, <3>4, <3>5, <3>6, <3>7 DEF HandOverInv
  <2>14. CopyInv'
    BY <2>1 DEF TypeInv, CopyInv, Unlocking
  <2> QED BY <2>8, <2>10, <2>11, <2>12, <2>13, <2>14
<1>2. CASE SwapFails(c, SlowPathRetry(c)) /\ UNCHANGED my_tail
  <2>1. SlowPathRetry(c) \in Locking
        /\ (SlowPathRetry(c) = "lock_slow" <=> header.writer_has_lock)
    BY SpinType DEF SlowPathRetry, Locking
  <2> QED BY <1>2, <2>1, ReadToLock DEF LockSlow, SwapFails, Keep, Goto, Locking
<1> QED BY <1>1, <1>2 DEF LockSlow

(* The owner makes the head of the FIFO the owner.                         *)
LEMMA PopSwapInv ==
  ASSUME SpinInv, NEW c \in CPUs, PopSwap(c)
  PROVE  SpinInv'
<1> USE DEF SpinInv
<1>1. ~MustWaitForReaders(c) /\ pc[c] = "pop_cas"
  BY SpinType DEF MustWaitForReaders, PopSwap
<1>2. CASE /\ SwapFrom(c, PoppedHeader(c, h0[c]))
           /\ granted' = (granted \ {c}) \cup {occupant[h0[c].head_index]}
           /\ Goto(c, "wake") /\ UNCHANGED <<h0, head_wait_type, occupant>>
  <2> DEFINE head == header.head_index  o == occupant[header.head_index]
  <2>1. /\ header = h0[c] /\ header' = PoppedHeader(c, header)
        /\ granted' = (granted \ {c}) \cup {o}
        /\ pc' = [pc EXCEPT ![c] = "wake"]
        /\ UNCHANGED <<h0, head_wait_type, occupant, type, my_tail, wait_type>>
    BY <1>2 DEF PopSwap, SwapFrom, Goto
  <2>2. header.writer_has_lock /\ header.n_elts # 0 /\ head_wait_type[c] = WAIT_WRITER
    BY <1>1, <2>1 DEF CopyInv, HandOverInv, Unlocking
  <2>3. header \in SpinHeaders /\ head \in Slots /\ header.n_elts \in 1 .. n_fifo_elts
    BY <2>2, FifoSize DEF TypeInv, SpinHeaders
  <2>4. /\ NextSlot(head) \in Slots
        /\ InFifo(head)
        /\ \A s \in Slots : Window(s, NextSlot(head), header.n_elts - 1) <=>
                              InFifo(s) /\ s # head
    BY <2>3, WindowShrinks DEF InFifo
  <2>5. o \in Queue /\ o \in CPUs /\ my_tail[o] = head /\ pc[o] = "await_done"
    BY <1>1, <2>3, <2>4 DEF FifoInv, Queue, HandOverInv
  <2>6. c \in granted /\ c \notin Queue /\ o # c /\ granted' = {o}
    BY <1>1, <2>1, <2>5 DEF OwnerInv, Holding, Unlocking, Queue
  <2>7. (header.n_elts - 1) % QuarterWord = header.n_elts - 1
    BY <2>3, FifoSize, FifoFitsQuarterWord
  <2>8. /\ header' \in SpinHeaders
        /\ header'.head_index = NextSlot(head)
        /\ header'.n_elts = header.n_elts - 1
        /\ header'.writer_has_lock
    <3>1. header' = [head_index |-> NextSlot(head), n_elts |-> header.n_elts - 1,
                     request_cpu |-> c, n_readers_with_lock |-> header.n_readers_with_lock,
                     writer_has_lock |-> header.writer_has_lock]
      BY <2>1, <2>7, SpinType DEF PoppedHeader, OneReaderLess
    <3> QED BY <2>2, <2>3, <2>4, <3>1, FifoSize DEF SpinHeaders
  <2> HIDE DEF head, o
  <2>9. TypeInv'
    BY <2>1, <2>5, <2>6, <2>8 DEF TypeInv, PCs, Waking
  <2>10. Queue' = Queue \ {o}
    BY <1>1, <2>1, <2>6 DEF TypeInv, OwnerInv, Queue, Waiting
  <2>11. OwnerInv'
    BY <1>1, <2>1, <2>5, <2>6, <2>8 DEF TypeInv, OwnerInv, Holding, Unlocking
  <2>12. FifoInv'
    <3>1. header'.n_elts = Cardinality(Queue')
      BY <2>5, <2>8, <2>10, QueueFinite, FS_RemoveElement DEF FifoInv
    <3> DEFINE InFifoNext(s) == Window(s, header'.head_index, header'.n_elts)
    <3>2. \A s \in Slots : InFifoNext(s) <=> InFifo(s) /\ s # head
      BY <2>4, <2>8
    <3> HIDE DEF InFifoNext
    <3>3. \A s \in Slots : InFifoNext(s) =>
            occupant[s] \in Queue \ {o} /\ my_tail[occupant[s]] = s
      BY <2>5, <3>2 DEF FifoInv
    <3>4. \A d \in Queue \ {o} : InFifoNext(my_tail[d]) /\ occupant[my_tail[d]] = d
      <4>1. \A d \in Queue \ {o} : d \in Queue /\ my_tail[d] \in Slots /\ my_tail[d] # head
        BY <2>5 DEF FifoInv, Queue, TypeInv
      <4> QED BY <3>2, <4>1 DEF FifoInv
    <3> QED BY <2>1, <2>6, <2>10, <3>1, <3>3, <3>4 DEF FifoInv, InFifo, InFifoNext
  <2>13. SlotInv'
    BY <1>1, <2>1, <2>5, <2>6, <2>10 DEF SlotInv, InSlot, TypeInv
  <2>14. HandOverInv'
    <3>1. \A d \in CPUs : pc[d] # "wake" /\ (d # c => pc[d] \notin {"pop_wait", "pop_cas"})
      BY <1>1, <2>6 DEF HandOverInv, OwnerInv, Holding, Unlocking
    <3>2. wait_type[my_tail[o]] = WAIT_WRITER
      BY <2>5 DEF SlotInv
    <3>3. h0[c].head_index = head
      BY <2>1 DEF head
    <3> QED BY <1>1, <2>1, <2>2, <2>5, <2>6, <3>1, <3>2, <3>3 DEF HandOverInv, TypeInv
  <2>15. CopyInv'
    BY <2>1 DEF TypeInv, CopyInv, Unlocking
  <2> QED BY <2>9, <2>11, <2>12, <2>13, <2>14, <2>15
<1>3. CASE /\ SwapFails(c, IF header.n_elts = 0 THEN "unlock_inline" ELSE "pop_wait")
           /\ head_wait_type' = [head_wait_type EXCEPT ![c] = EMPTY]
  <2> DEFINE l == IF header.n_elts = 0 THEN "unlock_inline" ELSE "pop_wait"
  <2>1. l \in {"unlock_inline", "unlock_cas", "pop_wait"} /\ (l = "pop_wait" <=> header.n_elts # 0)
    OBVIOUS
  <2>2. /\ head_wait_type' \in [CPUs -> WaitTypes]
        /\ \A d \in CPUs : d # c => head_wait_type'[d] = head_wait_type[d]
    BY <1>3 DEF TypeInv, WaitTypes
  <2>3. /\ pc' = [pc EXCEPT ![c] = l] /\ h0' = [h0 EXCEPT ![c] = header]
        /\ UNCHANGED <<header, wait_type, type, my_tail, occupant, granted>>
    BY <1>3 DEF PopSwap, SwapFails, Keep, Goto
  <2> QED BY <1>1, <2>1, <2>2, <2>3, ReadToUnlock
<1> QED BY <1>1, <1>2, <1>3 DEF PopSwap

-----------------------------------------------------------------------------
(* Every step of the specification preserves the invariant.                *)
THEOREM StepInv ==
  ASSUME LockTypes = {SPIN}, SpinInv, [Next]_vars
  PROVE  SpinInv'
<1>1. CASE UNCHANGED vars
  BY <1>1 DEF vars, SpinInv, TypeInv, OwnerInv, FifoInv, SlotInv, HandOverInv, CopyInv,
            Queue, InFifo
<1>2. CASE Next
  <2>1. PICK c \in CPUs : Lock(c) \/ Step(c)
    BY <1>2 DEF Next
  <2>2. ~WakeMore(c)
    BY DEF WakeMore, SpinInv, TypeInv
  <2> QED
    BY <2>1, <2>2, LockInv, LockInlineInv, LockSlowInv, SpinRetryInv, AwaitEmptyInv,
       EnterSlotInv, AwaitDoneInv, ClearSlotInv, UnlockInv, UnlockSwapInv, PopWaitInv,
       PopSwapInv, WakeInv
    DEF Step, LockStep, WaitStep, UnlockStep
<1> QED BY <1>1, <1>2

(* The strengthened invariant holds in every state of a spin lock.         *)
THEOREM SpinInvariant ==
  ASSUME LockTypes = {SPIN}
  PROVE  Spec => []SpinInv
BY InitInv, StepInv, PTL DEF Spec

(* Every variable of a spin lock stays in its range, the packed header     *)
(* fields of clib_smp_lock_header_t included.                              *)
THEOREM SpinTypeOK ==
  ASSUME LockTypes = {SPIN}
  PROVE  Spec => []TypeOK
<1>1. SpinHeaders \subseteq Headers
  <2>1. 0 .. n_fifo_elts \subseteq 0 .. QuarterWord - 1
    BY FifoSize, FifoFitsQuarterWord
  <2>2. 0 \in 0 .. ReaderWord - 1
    BY DEF ReaderWord
  <2> QED BY <2>1, <2>2 DEF SpinHeaders, Headers
<1>2. SpinInv => TypeOK
  BY <1>1 DEF SpinInv, TypeInv, TypeOK
<1> QED BY <1>2, SpinInvariant, PTL

(* At most one CPU is between clib_smp_lock and clib_smp_unlock.           *)
THEOREM SpinMutualExclusion ==
  ASSUME LockTypes = {SPIN}
  PROVE  Spec => []MutualExclusion
<1>1. SpinInv => MutualExclusion
  BY DEF SpinInv, OwnerInv, MutualExclusion, Holding
<1> QED BY <1>1, SpinInvariant, PTL

(* The ASSERT_AND_PANICs of smp.h and smp.c never fire on a spin lock.     *)
THEOREM SpinAssertionsHold ==
  ASSUME LockTypes = {SPIN}
  PROVE  Spec => []AssertionsHold
<1>1. ASSUME SpinInv, NEW c \in CPUs
      PROVE  /\ ~IsReader(c) /\ h0[c].n_readers_with_lock = 0
             /\ pc[c] = "lock_slow" => h0[c].n_elts + 1 <= n_fifo_elts
  BY <1>1, SpinType DEF SpinInv, TypeInv, SpinHeaders, CopyInv
<1>2. SpinInv => AssertionsHold
  BY <1>1 DEF AssertionsHold, SpinInv, CopyInv, Unlocking
<1> QED BY <1>2, SpinInvariant, PTL

(* A CPU that waits for a spin lock waits for a CPU that has it.           *)
THEOREM SpinWaiterHasHolder ==
  ASSUME LockTypes = {SPIN}
  PROVE  Spec => []WaiterHasHolder
<1>1. SpinInv => WaiterHasHolder
  BY DEF SpinInv, FifoInv, Queue, WaiterHasHolder
<1> QED BY <1>1, SpinInvariant, PTL

(* A spin lock's header counts no reader, and its writer bit says exactly  *)
(* whether a CPU has the lock or is being handed it.                       *)
THEOREM SpinHeaderAccountsForHolders ==
  ASSUME LockTypes = {SPIN}
  PROVE  Spec => []HeaderAccountsForHolders
<1>1. ASSUME SpinInv
      PROVE  HeaderAccountsForHolders
  <2> USE <1>1
  <2>1. granted \subseteq CPUs
    BY DEF SpinInv, TypeInv
  <2>2. {c \in granted : IsReader(c)} = {} /\ {c \in granted : ~IsReader(c)} = granted
    BY <2>1, SpinType
  <2>3. header.n_readers_with_lock = 0 /\ header.writer_has_lock \in BOOLEAN
    BY DEF SpinInv, TypeInv, SpinHeaders
  <2>4. Cardinality(granted) = IF header.writer_has_lock THEN 1 ELSE 0
    <3>1. CASE granted = {}
      BY <3>1, FS_EmptySet DEF SpinInv, OwnerInv
    <3>2. CASE granted # {}
      <4>1. PICK o : granted = {o}
        BY <3>2 DEF SpinInv, OwnerInv
      <4> QED BY <3>2, <4>1, FS_Singleton DEF SpinInv, OwnerInv
    <3> QED BY <3>1, <3>2
  <2>5. \A c \in CPUs : pc[c] \in {"clear_slot", "locked"} \cup Unlocking => c \in granted
    BY DEF SpinInv, OwnerInv, Holding
  <2> QED BY <2>2, <2>3, <2>4, <2>5, FS_EmptySet DEF HeaderAccountsForHolders
<1> QED BY <1>1, SpinInvariant, PTL

-----------------------------------------------------------------------------
(* The slots of the FIFO, from the head on.                                *)
LEMMA FifoSlots ==
  ASSUME SpinInv
  PROVE  /\ \A i \in 1 .. header.n_elts : SlotAt(i) \in Slots /\ InFifo(SlotAt(i))
         /\ header.n_elts < n_fifo_elts => SlotAt(header.n_elts + 1) = TailOf(header)
         /\ SlotAt(1) = header.head_index
<1>1. header.head_index \in Slots /\ header.n_elts \in 0 .. n_fifo_elts
  BY DEF SpinInv, TypeInv, SpinHeaders
<1> QED BY <1>1, FifoSize DEF SlotAt, TailOf, InFifo, Window

(* The abstract queue is a sequence of CPUs, one for each claimed slot.    *)
LEMMA WaitQueueSeq ==
  ASSUME SpinInv
  PROVE  /\ WaitQueue \in Seq(CPUs) /\ Len(WaitQueue) = header.n_elts
         /\ \A i \in 1 .. header.n_elts : WaitQueue[i] = occupant[SlotAt(i)]
         /\ \A i \in 1 .. header.n_elts : WaitQueue[i] \in Queue
<1>1. header.n_elts \in Nat
  BY FifoSize DEF SpinInv, TypeInv, SpinHeaders
<1>2. \A i \in 1 .. header.n_elts : occupant[SlotAt(i)] \in Queue
  BY FifoSlots DEF SpinInv, FifoInv
<1>3. \A i \in 1 .. header.n_elts : occupant[SlotAt(i)] \in CPUs
  BY <1>2 DEF Queue
<1> QED BY <1>1, <1>2, <1>3 DEF WaitQueue

(* Steps that touch neither the FIFO nor the ownership.                    *)
LEMMA QueueStutters ==
  ASSUME UNCHANGED <<header, occupant, granted>>
  PROVE  UNCHANGED Abstract!lockVars
BY DEF Abstract!lockVars, WaitQueue, SlotAt

(* A successful fast-path swap is the abstract lock's Acquire.             *)
LEMMA AcquireStep ==
  ASSUME SpinInv, NEW c \in CPUs, pc[c] \in {"lock_inline", "spin_retry"},
         header = h0[c],
         header' = [header EXCEPT !.request_cpu = c, !.writer_has_lock = TRUE],
         granted' = granted \cup {c}, UNCHANGED occupant
  PROVE  Abstract!Acquire(c)
<1>1. header.n_elts = 0 /\ granted = {}
  BY DEF SpinInv, CopyInv, OwnerInv
<1>2. header'.n_elts = 0
  BY <1>1 DEF SpinInv, TypeInv, SpinHeaders
<1>3. WaitQueue = <<>> /\ WaitQueue' = <<>>
  BY <1>1, <1>2 DEF WaitQueue
<1> QED BY <1>1, <1>3 DEF Abstract!Acquire

(* A successful slow-path swap is the abstract lock's Enqueue.             *)
LEMMA EnqueueStep ==
  ASSUME SpinInv, SpinInv', NEW c \in CPUs, pc[c] = "lock_slow",
         SwapFrom(c, QueuedHeader(c, h0[c])),
         occupant' = [occupant EXCEPT ![TailOf(h0[c])] = c], UNCHANGED granted
  PROVE  Abstract!Enqueue(c)
<1> DEFINE n == header.n_elts  tail == TailOf(header)
<1>1. /\ header = h0[c] /\ header' = QueuedHeader(c, header)
      /\ occupant' = [occupant EXCEPT ![tail] = c]
  BY DEF SwapFrom
<1>2. n \in Nat /\ n < n_fifo_elts /\ header \in SpinHeaders /\ granted # {}
  <2>1. header \in SpinHeaders
    BY DEF SpinInv, TypeInv
  <2>2. n \in Nat
    BY <2>1, FifoSize DEF SpinHeaders
  <2>3. header.writer_has_lock /\ n + 1 <= n_fifo_elts
    BY <1>1 DEF SpinInv, CopyInv
  <2>4. granted # {}
    BY <2>3 DEF SpinInv, OwnerInv
  <2> QED BY <2>1, <2>2, <2>3, <2>4, FifoSize
<1>3. c \notin granted /\ c \notin Queue
  BY DEF SpinInv, OwnerInv, Holding, Unlocking, Queue, Waiting
<1>4. header'.n_elts = n + 1 /\ header'.head_index = header.head_index
  <2>1. (n + 1) % QuarterWord = n + 1
    BY <1>2, FifoSize, FifoFitsQuarterWord
  <2> QED BY <1>1, <1>2, <2>1 DEF QueuedHeader, SpinHeaders
<1>5. tail \in Slots /\ ~InFifo(tail) /\ SlotAt(n + 1) = tail
  BY <1>2, WindowGrows, FifoSlots DEF InFifo
<1>6. \A i \in 1 .. n : SlotAt(i) \in Slots /\ InFifo(SlotAt(i)) /\ SlotAt(i) # tail
  BY <1>5, FifoSlots
<1>7. WaitQueue' = [i \in 1 .. n + 1 |-> occupant'[SlotAt(i)]]
  BY <1>4 DEF WaitQueue, SlotAt
<1> HIDE DEF n, tail
<1>8. occupant'[tail] = c /\ \A s \in Slots : s # tail => occupant'[s] = occupant[s]
  BY <1>1, <1>5 DEF SpinInv, TypeInv
<1>9. WaitQueue' = Append(WaitQueue, c)
  <2>1. WaitQueue \in Seq(CPUs) /\ Len(WaitQueue) = n
        /\ \A i \in 1 .. n : WaitQueue[i] = occupant[SlotAt(i)]
    BY WaitQueueSeq DEF n
  <2>2. \A i \in 1 .. n + 1 : occupant'[SlotAt(i)] = IF i = n + 1 THEN c ELSE WaitQueue[i]
    BY <1>2, <1>5, <1>6, <1>8, <2>1
  <2>3. /\ Append(WaitQueue, c) \in [1 .. n + 1 -> CPUs]
        /\ \A i \in 1 .. n + 1 :
             Append(WaitQueue, c)[i] = IF i = n + 1 THEN c ELSE WaitQueue[i]
    <3> DEFINE a == Append(WaitQueue, c)
    <3>1. /\ a \in Seq(CPUs) /\ Len(a) = n + 1 /\ a[n + 1] = c
          /\ \A i \in 1 .. n : a[i] = WaitQueue[i]
      BY <2>1, AppendProperties
    <3> HIDE DEF a
    <3>2. a \in [1 .. n + 1 -> CPUs]
      BY <3>1, LenProperties
    <3>3. \A i \in 1 .. n + 1 : a[i] = IF i = n + 1 THEN c ELSE WaitQueue[i]
      BY <1>2, <3>1
    <3> QED BY <3>2, <3>3 DEF a
  <2> QED BY <1>7, <2>2, <2>3
<1>10. ~Abstract!InQueue(c)
  BY <1>3, WaitQueueSeq DEF Abstract!InQueue
<1> QED BY <1>2, <1>3, <1>9, <1>10 DEF Abstract!Enqueue

(* A successful pop of the FIFO is the abstract lock's HandOff.            *)
LEMMA HandOffStep ==
  ASSUME SpinInv, NEW c \in CPUs, pc[c] = "pop_cas",
         SwapFrom(c, PoppedHeader(c, h0[c])),
         granted' = (granted \ {c}) \cup {occupant[h0[c].head_index]}, UNCHANGED occupant
  PROVE  Abstract!HandOff(c)
<1> DEFINE n == header.n_elts  head == header.head_index
<1>1. /\ header = h0[c] /\ header' = PoppedHeader(c, header)
      /\ granted' = (granted \ {c}) \cup {occupant[head]}
  BY DEF SwapFrom
<1>2. n \in 1 .. n_fifo_elts /\ head \in Slots /\ granted = {c}
  BY <1>1, FifoSize
  DEF SpinInv, CopyInv, OwnerInv, TypeInv, SpinHeaders, Holding, Unlocking
<1>3. header'.n_elts = n - 1 /\ header'.head_index = NextSlot(head)
  <2>1. (n - 1) % QuarterWord = n - 1
    BY <1>2, FifoSize, FifoFitsQuarterWord
  <2> QED BY <1>1, <2>1 DEF PoppedHeader
<1>4. ASSUME NEW i \in 1 .. n - 1
      PROVE  SlotAt(i)' = SlotAt(i + 1)
  <2>1. head \in 0 .. n_fifo_elts - 1 /\ n_fifo_elts \in Nat
    BY <1>2, FifoSize DEF Slots
  <2>2. CASE head + 1 = n_fifo_elts
    BY <1>2, <1>3, <2>1, <2>2 DEF SlotAt, NextSlot
  <2>3. CASE head + 1 # n_fifo_elts
    BY <1>2, <1>3, <2>1, <2>3 DEF SlotAt, NextSlot
  <2> QED BY <2>2, <2>3
<1>5. WaitQueue' = [i \in 1 .. n - 1 |-> occupant[SlotAt(i + 1)]]
  BY <1>3, <1>4 DEF WaitQueue
<1> HIDE DEF n
<1>6. WaitQueue \in Seq(CPUs) /\ Len(WaitQueue) = n
      /\ \A i \in 1 .. n : WaitQueue[i] = occupant[SlotAt(i)]
  BY WaitQueueSeq DEF n
<1>7. WaitQueue # <<>> /\ Head(WaitQueue) = occupant[head]
  BY <1>2, <1>6, FifoSlots
<1>8. WaitQueue' = Tail(WaitQueue)
  <2>1. /\ Tail(WaitQueue) \in [1 .. n - 1 -> CPUs]
        /\ \A i \in 1 .. n - 1 : Tail(WaitQueue)[i] = WaitQueue[i + 1]
    BY <1>6, <1>7, HeadTailProperties, LenProperties
  <2>2. \A i \in 1 .. n - 1 : WaitQueue[i + 1] = occupant[SlotAt(i + 1)]
    BY <1>2, <1>6
  <2> QED BY <1>5, <2>1, <2>2
<1> QED BY <1>1, <1>2, <1>7, <1>8 DEF Abstract!HandOff

(* A successful swap of the unlock fast path is the abstract Release.      *)
LEMMA ReleaseStep ==
  ASSUME SpinInv, NEW c \in CPUs, pc[c] = "unlock_cas",
         SwapFrom(c, ReleasedHeader(c, h0[c])), granted' = granted \ {c}
  PROVE  Abstract!Release(c)
<1>1. header = h0[c] /\ header' = ReleasedHeader(c, header)
  BY DEF SwapFrom
<1>2. header.n_elts = 0 /\ granted = {c} /\ granted' = {}
  BY <1>1 DEF SpinInv, CopyInv, OwnerInv, Holding, Unlocking
<1>3. header'.n_elts = 0
  BY <1>1, <1>2, SpinType DEF ReleasedHeader, SpinInv, TypeInv, SpinHeaders
<1>4. WaitQueue = <<>> /\ WaitQueue' = <<>>
  BY <1>2, <1>3 DEF WaitQueue
<1> QED BY <1>2, <1>4 DEF Abstract!Release

(* A spin lock is a first-come-first-served lock: a CPU takes it only when *)
(* nobody has it and nobody waits, and hand-over follows the order of the  *)
(* compare-and-swaps that claimed the FIFO's slots.                        *)
THEOREM SpinImplementsFifoLock ==
  ASSUME LockTypes = {SPIN}
  PROVE  Spec => ImplementsFifoLock
<1>1. Init => Abstract!Init
  BY DEF Init, Abstract!Init, WaitQueue, ZeroHeader
<1>2. ASSUME SpinInv, SpinInv', [Next]_vars
      PROVE  [Abstract!Next]_Abstract!lockVars
  <2> USE <1>2
  <2>1. CASE UNCHANGED vars
    BY <2>1, QueueStutters DEF vars
  <2>2. ASSUME NEW c \in CPUs, Lock(c) \/ AwaitEmpty(c) \/ EnterSlot(c) \/ AwaitDone(c)
                 \/ ClearSlot(c) \/ Unlock(c) \/ PopWait(c) \/ Wake(c) \/ WakeMore(c)
        PROVE  UNCHANGED Abstract!lockVars
    <3>1. UNCHANGED <<header, occupant, granted>>
      BY <2>2 DEF Lock, AwaitEmpty, EnterSlot, AwaitDone, ClearSlot, Unlock, PopWait, Wake,
                WakeMore
    <3> QED BY <3>1, QueueStutters
  <2>3. ASSUME NEW c \in CPUs, NEW l, SwapFails(c, l)
        PROVE  UNCHANGED Abstract!lockVars
    BY <2>3, QueueStutters DEF SwapFails
  <2>4. ASSUME NEW c \in CPUs, LockInline(c)
        PROVE  [Abstract!Next]_Abstract!lockVars
    <3>1. TakenHeader(c, h0[c]) = [h0[c] EXCEPT !.request_cpu = c, !.writer_has_lock = TRUE]
      BY SpinType DEF TakenHeader, SpinInv, TypeInv, SpinHeaders
    <3> QED BY <2>3, <2>4, <3>1, AcquireStep DEF LockInline, SwapFrom, Abstract!Next
  <2>5. ASSUME NEW c \in CPUs, SpinRetry(c)
        PROVE  [Abstract!Next]_Abstract!lockVars
    BY <2>3, <2>5, AcquireStep DEF SpinRetry, SwapFrom, Abstract!Next
  <2>6. ASSUME NEW c \in CPUs, LockSlow(c)
        PROVE  [Abstract!Next]_Abstract!lockVars
    BY <2>3, <2>6, EnqueueStep DEF LockSlow, Abstract!Next
  <2>7. ASSUME NEW c \in CPUs, UnlockSwap(c)
        PROVE  [Abstract!Next]_Abstract!lockVars
    BY <2>3, <2>7, ReleaseStep DEF UnlockSwap, Abstract!Next
  <2>8. ASSUME NEW c \in CPUs, PopSwap(c)
        PROVE  [Abstract!Next]_Abstract!lockVars
    <3>1. ~MustWaitForReaders(c)
      BY SpinType DEF MustWaitForReaders
    <3> QED BY <2>3, <2>8, <3>1, HandOffStep DEF PopSwap, Abstract!Next
  <2> QED BY <2>1, <2>2, <2>4, <2>5, <2>6, <2>7, <2>8
          DEF Next, Step, LockStep, WaitStep, UnlockStep
<1> QED BY <1>1, <1>2, SpinInvariant, PTL DEF Spec, ImplementsFifoLock, Abstract!Spec
============================================================================
