------------------------------ MODULE Bootstrap ------------------------------
(***************************************************************************)
(* os_smp_bootstrap of linux-smp.c: a thread is cloned for every CPU but   *)
(* the first, all CPUs call a function, and the call returns when they     *)
(* have all counted themselves as exited.  The function here is that of    *)
(* test_smp.c, which meets the other CPUs at barriers.                     *)
(*                                                                         *)
(* Every read and write of shared memory is a step: of the arguments that  *)
(* the threads find on the stack of CPU 0, of n_cpus_exited, and of the    *)
(* two words of the barrier.                                               *)
(***************************************************************************)
EXTENDS Integers, FiniteSets

CONSTANTS
    n_cpus,         \* m->n_cpus
    N_BARRIERS      \* times that the function calls clib_smp_barrier_sync

(* There is at least CPU 0. *)
ASSUME n_cpusAssumption == n_cpus \in Nat \ {0}
ASSUME N_BARRIERSAssumption == N_BARRIERS \in Nat

VARIABLES
    pc,             \* where each CPU is
    next_cpu,       \* the CPU that the loop of os_smp_bootstrap is at
    tid,            \* a.tid on the stack of CPU 0: the thread last cloned
    n_cpus_exited,
    wait_enable, n_slaves_at_barrier,   \* `work' of clib_smp_barrier_sync
    arrived, left   \* history: barriers each CPU has called and returned from

boot_vars == <<pc, next_cpu, tid, n_cpus_exited, wait_enable, n_slaves_at_barrier, arrived, left>>

barrier_vars == <<wait_enable, n_slaves_at_barrier>>
loop_vars == <<next_cpu, tid>>

Cpus == 0..n_cpus - 1
Slaves == 1..n_cpus - 1

BootInit ==
    /\ pc = [c \in Cpus |-> IF c = 0 THEN "clone" ELSE "none"]
    /\ next_cpu = 1 /\ tid = 0 /\ n_cpus_exited = 0
    /\ wait_enable = 0 /\ n_slaves_at_barrier = 0
    /\ arrived = [c \in Cpus |-> 0] /\ left = [c \in Cpus |-> 0]

Goto(c, place) == pc' = [pc EXCEPT ![c] = place]

(* A round of the loop: the new thread runs at once, and the place of its
   thread id is written again by the next round. *)
Clone ==
    /\ pc[0] = "clone" /\ next_cpu < n_cpus
    /\ pc' = [pc EXCEPT ![next_cpu] = "create"]
    /\ tid' = next_cpu
    /\ next_cpu' = next_cpu + 1
    /\ UNCHANGED <<n_cpus_exited, barrier_vars, arrived, left>>

(* CPU 0 goes on to the function on its new stack (clib_calljmp). *)
CallFunction ==
    /\ pc[0] = "clone" /\ next_cpu = n_cpus
    /\ Goto(0, "function")
    /\ UNCHANGED <<loop_vars, n_cpus_exited, barrier_vars, arrived, left>>

(* linux_clone_bootstrap up to the call: the TD_CREATE event has the thread id
   that is in memory now. *)
ThreadCreate(c) ==
    /\ pc[c] = "create"
    /\ Goto(c, "function")
    /\ UNCHANGED <<loop_vars, n_cpus_exited, barrier_vars, arrived, left>>

-----------------------------------------------------------------------------
(* clib_smp_barrier_sync *)

Arrive(c) ==
    /\ pc[c] = "function" /\ arrived[c] < N_BARRIERS
    /\ arrived' = [arrived EXCEPT ![c] = @ + 1]
    /\ Goto(c, IF c = 0 THEN "reset" ELSE "wait_up")
    /\ UNCHANGED <<loop_vars, n_cpus_exited, barrier_vars, left>>

Leave(c) ==
    /\ left' = [left EXCEPT ![c] = @ + 1]
    /\ Goto(c, "function")
    /\ UNCHANGED <<loop_vars, n_cpus_exited, arrived>>

ResetSlaves ==
    /\ pc[0] = "reset"
    /\ n_slaves_at_barrier' = 0
    /\ Goto(0, "raise")
    /\ UNCHANGED <<loop_vars, n_cpus_exited, wait_enable, arrived, left>>

RaiseEnable ==
    /\ pc[0] = "raise"
    /\ wait_enable' = 1
    /\ Goto(0, "wait_slaves")
    /\ UNCHANGED <<loop_vars, n_cpus_exited, n_slaves_at_barrier, arrived, left>>

\* Mutant: CPU 0 does not wait for the last slave.
AllButOneAtBarrier == n_slaves_at_barrier >= n_cpus - 2

AllAtBarrier == n_slaves_at_barrier >= n_cpus - 1

LowerEnable ==
    /\ pc[0] = "wait_slaves" /\ AllAtBarrier
    /\ wait_enable' = 0
    /\ Leave(0)
    /\ UNCHANGED n_slaves_at_barrier

SeesEnable(c) ==
    /\ pc[c] = "wait_up" /\ wait_enable = 1
    /\ Goto(c, "add")
    /\ UNCHANGED <<loop_vars, n_cpus_exited, barrier_vars, arrived, left>>

AddSlave(c) ==
    /\ pc[c] = "add"
    /\ n_slaves_at_barrier' = n_slaves_at_barrier + 1
    /\ Goto(c, "wait_down")
    /\ UNCHANGED <<loop_vars, n_cpus_exited, wait_enable, arrived, left>>

SeesDisable(c) ==
    /\ pc[c] = "wait_down" /\ wait_enable = 0
    /\ Leave(c)
    /\ UNCHANGED barrier_vars

-----------------------------------------------------------------------------
(* The function returns. *)
Return(c) ==
    /\ pc[c] = "function" /\ arrived[c] = N_BARRIERS
    /\ Goto(c, "returned")
    /\ UNCHANGED <<loop_vars, n_cpus_exited, barrier_vars, arrived, left>>

\* Mutant: CPU 0 is not counted.
OnlySlaves(c) == IF c = 0 THEN n_cpus_exited ELSE n_cpus_exited + 1

(* clib_smp_atomic_add (&m->n_cpus_exited, 1), by every CPU. *)
ExitCounted(c) == n_cpus_exited + 1

Exit(c) ==
    /\ pc[c] = "returned"
    /\ n_cpus_exited' = ExitCounted(c)
    /\ Goto(c, IF c = 0 THEN "wait_exits" ELSE "exited")
    /\ UNCHANGED <<loop_vars, barrier_vars, arrived, left>>

(* "Wait for all CPUs to exit."; m->n_cpus and m->n_cpus_exited are reset. *)
AllExited ==
    /\ pc[0] = "wait_exits" /\ n_cpus_exited >= n_cpus
    /\ n_cpus_exited' = 0
    /\ Goto(0, "done")
    /\ UNCHANGED <<loop_vars, barrier_vars, arrived, left>>

Step0 == Clone \/ CallFunction \/ ResetSlaves \/ RaiseEnable \/ LowerEnable \/ AllExited
SlaveStep(c) == ThreadCreate(c) \/ SeesEnable(c) \/ AddSlave(c) \/ SeesDisable(c)
CpuStep(c) == Arrive(c) \/ Return(c) \/ Exit(c)

BootNext == Step0 \/ (\E c \in Slaves : SlaveStep(c)) \/ (\E c \in Cpus : CpuStep(c))

(* Every CPU that can take a step does: each has a thread of its own. *)
BootFairness ==
    /\ WF_boot_vars(Step0 \/ CpuStep(0))
    /\ \A c \in Slaves : WF_boot_vars(SlaveStep(c) \/ CpuStep(c))

BootSpec == BootInit /\ [][BootNext]_boot_vars /\ BootFairness

-----------------------------------------------------------------------------
(* os_smp_bootstrap returns when every CPU's function has, and no CPU is past a
   barrier that another has not reached: clib_smp_barrier_sync keeps the fifos
   that CPU 0 makes away from the others until they are there. *)
BarrierSeparates ==
    /\ \A c, d \in Cpus : left[c] <= arrived[d]
    /\ pc[0] = "done" => \A c \in Slaves : pc[c] = "exited"

(* os_smp_bootstrap returns: all CPUs come out of the barrier and are counted. *)
BootstrapReturns == <>(pc[0] = "done")
=============================================================================
