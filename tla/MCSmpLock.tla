----------------------------- MODULE MCSmpLock -----------------------------
EXTENDS SmpLock

(* With three CPUs that read and write, a CPU that unlocks can take a slot *)
(* of the waiting FIFO for that of the waiter at its head when it is not:  *)
(* after waking a reader it looks once more at the slot it has popped,     *)
(* where another reader can be by now (smp.c:283, shown by the run         *)
(* smp_lock_rw); and the last occupant of the head slot may not have       *)
(* cleared it, so that a writer behind it is popped as a reader            *)
(* (smp.c:227).  With the action constraint HeadsInPlace neither happens:  *)
(* a reader is delayed until that CPU has looked, and that CPU until the   *)
(* last occupant has cleared the slot.                                     *)
AnotherReaderEnters(c) ==
  pc[c] = "wake_more" /\ wait_type'[h0[c].head_index] = WAIT_READER
FindsLastOccupant(c) == pc[c] = "pop_wait" /\ head_wait_type'[c] = DONE

HeadsInPlace == \A c \in CPUs : ~AnotherReaderEnters(c) /\ ~FindsLastOccupant(c)
============================================================================
