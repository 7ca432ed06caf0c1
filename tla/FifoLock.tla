------------------------------ MODULE FifoLock ------------------------------
(***************************************************************************)
(* What a clib_smp_lock_t used as a spin lock promises: at most one CPU    *)
(* has the lock, CPUs that find it taken queue up, the lock passes to the  *)
(* first of the queue, and no CPU takes it past a CPU that is queued.      *)
(***************************************************************************)
EXTENDS Sequences

CONSTANT CPUs

VARIABLES
  holders,  \* the CPUs that have the lock
  queue     \* the CPUs that wait for it, first come first

lockVars == <<holders, queue>>

InQueue(c) == \E i \in DOMAIN queue : queue[i] = c

Init == holders = {} /\ queue = <<>>

(* A CPU takes a lock nobody has and nobody waits for.                     *)
Acquire(c) ==
  /\ holders = {} /\ queue = <<>>
  /\ holders' = {c}
  /\ UNCHANGED queue

(* A CPU joins the queue of a lock another CPU has.                        *)
Enqueue(c) ==
  /\ holders # {} /\ c \notin holders /\ ~InQueue(c)
  /\ queue' = Append(queue, c)
  /\ UNCHANGED holders

(* The holder gives the lock to the first of the queue.                    *)
HandOff(c) ==
  /\ holders = {c} /\ queue # <<>>
  /\ holders' = {Head(queue)}
  /\ queue' = Tail(queue)

(* The holder releases a lock nobody waits for.                            *)
Release(c) ==
  /\ holders = {c} /\ queue = <<>>
  /\ holders' = {}
  /\ UNCHANGED queue

Next == \E c \in CPUs : Acquire(c) \/ Enqueue(c) \/ HandOff(c) \/ Release(c)

Spec == Init /\ [][Next]_lockVars
=============================================================================
