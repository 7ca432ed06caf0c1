-------------------------- MODULE BootstrapProofs --------------------------
(***************************************************************************)
(* clib_smp_barrier_sync separates what CPUs do before it from what they   *)
(* do after it, and os_smp_bootstrap returns after every CPU's function,   *)
(* for every number of CPUs and of barriers.  That all CPUs come out of a  *)
(* second barrier is not a safety property, and is not true.               *)
(***************************************************************************)
EXTENDS Bootstrap, FiniteSetTheorems, TLAPS

MasterPlaces == {"clone", "function", "reset", "raise", "wait_slaves",
                 "returned", "wait_exits", "done"}
SlavePlaces == {"none", "create", "function", "wait_up", "add", "wait_down",
                "returned", "exited"}
MasterInBarrier == {"reset", "raise", "wait_slaves"}
SlaveInBarrier == {"wait_up", "add", "wait_down"}

TypeInv ==
    /\ pc \in [Cpus -> MasterPlaces \cup SlavePlaces]
    /\ pc[0] \in MasterPlaces
    /\ \A c \in Slaves : pc[c] \in SlavePlaces
    /\ next_cpu \in 1..n_cpus
    /\ tid \in Nat
    /\ n_cpus_exited \in Nat
    /\ wait_enable \in {0, 1}
    /\ n_slaves_at_barrier \in Nat
    /\ arrived \in [Cpus -> Nat]
    /\ left \in [Cpus -> Nat]

(* The loop of clones has not started the threads that are ahead of it. *)
CloneInv ==
    /\ \A c \in Slaves : c >= next_cpu => pc[c] = "none"
    /\ pc[0] = "clone" => left[0] = 0

(* A CPU is inside the barrier that it called last, or in none. *)
ArrivedInv ==
    /\ arrived[0] = IF pc[0] \in MasterInBarrier THEN left[0] + 1 ELSE left[0]
    /\ \A c \in Slaves :
         arrived[c] = IF pc[c] \in SlaveInBarrier THEN left[c] + 1 ELSE left[c]

(* A slave is at the barrier where CPU 0 is, unless it has still to see that the
   one before has ended. *)
Lags(c) == pc[c] = "wait_down" /\ left[c] + 1 = left[0]
Counted == {c \in Slaves : pc[c] = "wait_down" /\ left[c] = left[0]}
RoundInv ==
    /\ wait_enable = 1 <=> pc[0] = "wait_slaves"
    /\ \A c \in Slaves : left[c] = left[0] \/ Lags(c)
    /\ \A c \in Slaves : pc[c] = "add" => pc[0] = "wait_slaves"
    /\ Counted # {} => pc[0] = "wait_slaves"
    /\ pc[0] \in {"raise", "wait_slaves"} => n_slaves_at_barrier = Cardinality(Counted)

(* The CPUs that have counted themselves as exited. *)
Exited == {c \in Cpus : pc[c] \in {"exited", "wait_exits"}}
ExitInv ==
    /\ pc[0] # "done" => n_cpus_exited = Cardinality(Exited)
    /\ pc[0] = "done" => \A c \in Slaves : pc[c] = "exited"

BarrierInv == TypeInv /\ CloneInv /\ ArrivedInv /\ RoundInv /\ ExitInv

-----------------------------------------------------------------------------
(* CPU 0 and the slaves, all of them numbers. *)
LEMMA CpuNumbers ==
    /\ n_cpus \in Nat /\ n_cpus >= 1
    /\ 0 \in Cpus /\ 0 \notin Slaves
    /\ \A c \in Cpus : c = 0 \/ c \in Slaves
    /\ Slaves \subseteq Cpus
    /\ Cpus \subseteq Int
BY n_cpusAssumption DEF Cpus, Slaves

(* There are n_cpus CPUs, of which all but one are slaves. *)
LEMMA CpuSets ==
    /\ IsFiniteSet(Cpus) /\ Cardinality(Cpus) = n_cpus
    /\ IsFiniteSet(Slaves) /\ Cardinality(Slaves) = n_cpus - 1
<1>1. IsFiniteSet(0..n_cpus - 1) /\ IsFiniteSet(1..n_cpus - 1)
  BY n_cpusAssumption, FS_Interval
<1>2. Cardinality(0..n_cpus - 1) = n_cpus /\ Cardinality(1..n_cpus - 1) = n_cpus - 1
  BY n_cpusAssumption, FS_Interval
<1> QED BY <1>1, <1>2 DEF Cpus, Slaves

(* CPUs that have been counted, at the barrier or as exited, are all CPUs that
   count when there are as many. *)
LEMMA AllCounted ==
    ASSUME NEW S, IsFiniteSet(S), NEW T \in SUBSET S, Cardinality(T) >= Cardinality(S)
    PROVE  T = S
BY FS_Subset, FS_CardinalityType

(* The sets of counted CPUs are finite. *)
LEMMA CountedFinite ==
    /\ Counted \subseteq Slaves /\ IsFiniteSet(Counted) /\ Cardinality(Counted) \in Nat
    /\ Exited \subseteq Cpus /\ IsFiniteSet(Exited) /\ Cardinality(Exited) \in Nat
<1>1. Counted \subseteq Slaves /\ Exited \subseteq Cpus
  BY DEF Counted, Exited
<1> QED BY <1>1, CpuSets, FS_Subset, FS_CardinalityType

-----------------------------------------------------------------------------
(* os_smp_bootstrap starts with CPU 0 alone. *)
LEMMA InitInv ==
    ASSUME BootInit
    PROVE  BarrierInv
<1> USE CpuNumbers DEF BootInit
<1>1. TypeInv
  BY DEF TypeInv, MasterPlaces, SlavePlaces
<1>2. Counted = {} /\ Exited = {}
  BY DEF Counted, Exited
<1>3. CloneInv /\ ArrivedInv
  BY DEF CloneInv, ArrivedInv, MasterInBarrier, SlaveInBarrier
<1>4. RoundInv /\ ExitInv
  BY <1>2, FS_EmptySet DEF RoundInv, ExitInv, Lags
<1> QED BY <1>1, <1>3, <1>4 DEF BarrierInv

(* A CPU that takes a step outside the barrier's words and outside the count of
   exits, from and to places that count nowhere. *)
Plain == {"clone", "none", "create", "function", "returned"}

LEMMA PlainStep ==
    ASSUME BarrierInv, NEW c \in Cpus, NEW l,
           pc[c] \in Plain, pc' = [pc EXCEPT ![c] = l],
           c = 0 => l \in {"function", "returned"},
           c # 0 => l \in {"create", "function", "returned"},
           next_cpu' \in next_cpu..n_cpus, tid' \in Nat,
           c # 0 => c < next_cpu',
           UNCHANGED <<n_cpus_exited, wait_enable, n_slaves_at_barrier, arrived, left>>
    PROVE  BarrierInv'
<1> USE CpuNumbers DEF BarrierInv, Plain
<1>1. TypeInv'
  BY DEF TypeInv, MasterPlaces, SlavePlaces
<1>2. CloneInv'
  BY DEF TypeInv, CloneInv
<1>3. ArrivedInv'
  BY DEF TypeInv, ArrivedInv, MasterInBarrier, SlaveInBarrier
<1>4. Counted' = Counted /\ Exited' = Exited
  BY DEF TypeInv, Counted, Exited
<1>5. RoundInv'
  BY <1>4 DEF TypeInv, RoundInv, Lags
<1>6. ExitInv'
  BY <1>4 DEF TypeInv, ExitInv
<1> QED BY <1>1, <1>2, <1>3, <1>5, <1>6

(* Starting the threads and returning from the function preserve the invariant. *)
LEMMA CloneKeeps ==
    ASSUME BarrierInv, Clone
    PROVE  BarrierInv'
<1>1. /\ next_cpu \in Slaves /\ next_cpu \in Cpus /\ next_cpu # 0
      /\ pc[next_cpu] = "none"
      /\ next_cpu' \in next_cpu..n_cpus /\ next_cpu < next_cpu' /\ tid' \in Nat
  BY CpuNumbers DEF BarrierInv, TypeInv, CloneInv, Clone, Slaves
<1> QED BY <1>1, PlainStep DEF Clone, Plain, barrier_vars

(* CPU 0 goes on to the function when every thread has been started. *)
LEMMA CallFunctionKeeps ==
    ASSUME BarrierInv, CallFunction
    PROVE  BarrierInv'
<1>1. next_cpu' \in next_cpu..n_cpus /\ tid' \in Nat
  BY CpuNumbers DEF BarrierInv, TypeInv, CallFunction, loop_vars
<1> QED BY <1>1, CpuNumbers, PlainStep DEF CallFunction, Goto, Plain, barrier_vars, loop_vars

(* A new thread goes on to the function. *)
LEMMA ThreadCreateKeeps ==
    ASSUME BarrierInv, NEW c \in Slaves, ThreadCreate(c)
    PROVE  BarrierInv'
<1>1. next_cpu' \in next_cpu..n_cpus /\ tid' \in Nat /\ c < next_cpu'
  BY CpuNumbers DEF BarrierInv, TypeInv, CloneInv, ThreadCreate, loop_vars
<1> QED BY <1>1, CpuNumbers, PlainStep DEF ThreadCreate, Goto, Plain, barrier_vars, loop_vars

(* A CPU returns from the function outside of any barrier. *)
LEMMA ReturnKeeps ==
    ASSUME BarrierInv, NEW c \in Cpus, Return(c)
    PROVE  BarrierInv'
<1>1. next_cpu' \in next_cpu..n_cpus /\ tid' \in Nat /\ (c # 0 => c < next_cpu')
  BY CpuNumbers DEF BarrierInv, TypeInv, CloneInv, Return, loop_vars
<1> QED BY <1>1, CpuNumbers, PlainStep DEF Return, Goto, Plain, barrier_vars, loop_vars

-----------------------------------------------------------------------------
(* Entering the barrier. *)
LEMMA ArriveKeeps ==
    ASSUME BarrierInv, NEW c \in Cpus, Arrive(c)
    PROVE  BarrierInv'
<1> USE CpuNumbers DEF BarrierInv, Arrive, Goto, barrier_vars, loop_vars
<1>1. TypeInv'
  BY DEF TypeInv, MasterPlaces, SlavePlaces
<1>2. CloneInv'
  BY DEF TypeInv, CloneInv
<1>3. ArrivedInv'
  BY DEF TypeInv, ArrivedInv, MasterInBarrier, SlaveInBarrier
<1>4. Counted' = Counted /\ Exited' = Exited
  BY DEF TypeInv, Counted, Exited
<1>5. RoundInv'
  BY <1>4 DEF TypeInv, RoundInv, Lags
<1>6. ExitInv'
  BY <1>4 DEF TypeInv, ExitInv
<1> QED BY <1>1, <1>2, <1>3, <1>5, <1>6

(* CPU 0 resets the count when no slave has counted itself for this barrier. *)
LEMMA ResetSlavesKeeps ==
    ASSUME BarrierInv, ResetSlaves
    PROVE  BarrierInv'
<1> USE CpuNumbers DEF BarrierInv, ResetSlaves, Goto, loop_vars
<1>1. TypeInv'
  BY DEF TypeInv, MasterPlaces, SlavePlaces
<1>2. CloneInv' /\ ArrivedInv'
  BY DEF TypeInv, CloneInv, ArrivedInv, MasterInBarrier, SlaveInBarrier
<1>3. Counted' = {} /\ Exited' = Exited
  BY DEF TypeInv, Counted, Exited, RoundInv
<1>4. RoundInv'
  BY <1>3, FS_EmptySet DEF TypeInv, RoundInv, Lags
<1>5. ExitInv'
  BY <1>3 DEF TypeInv, ExitInv
<1> QED BY <1>1, <1>2, <1>4, <1>5

(* The barrier begins with nobody counted. *)
LEMMA RaiseEnableKeeps ==
    ASSUME BarrierInv, RaiseEnable
    PROVE  BarrierInv'
<1> USE CpuNumbers DEF BarrierInv, RaiseEnable, Goto, loop_vars
<1>1. TypeInv'
  BY DEF TypeInv, MasterPlaces, SlavePlaces
<1>2. CloneInv' /\ ArrivedInv'
  BY DEF TypeInv, CloneInv, ArrivedInv, MasterInBarrier, SlaveInBarrier
<1>3. Counted' = Counted /\ Exited' = Exited
  BY DEF TypeInv, Counted, Exited
<1>4. RoundInv'
  BY <1>3 DEF TypeInv, RoundInv, Lags
<1>5. ExitInv'
  BY <1>3 DEF TypeInv, ExitInv
<1> QED BY <1>1, <1>2, <1>4, <1>5

(* CPU 0 ends the barrier when every slave is in it: all of them lag behind. *)
LEMMA LowerEnableKeeps ==
    ASSUME BarrierInv, LowerEnable
    PROVE  BarrierInv'
<1> USE CpuNumbers DEF BarrierInv, LowerEnable, Leave, Goto, loop_vars
<1>1. Counted = Slaves
  <2>1. Cardinality(Counted) >= n_cpus - 1
    BY DEF RoundInv, AllAtBarrier
  <2>2. Cardinality(Counted) >= Cardinality(Slaves)
    BY <2>1, CpuSets
  <2> QED BY ONLY <2>2, AllCounted, CountedFinite, CpuSets
<1>2. \A c \in Slaves : pc[c] = "wait_down" /\ left[c] = left[0]
  BY <1>1 DEF Counted
<1>3. TypeInv'
  BY DEF TypeInv, MasterPlaces, SlavePlaces
<1>4. CloneInv' /\ ArrivedInv'
  BY DEF TypeInv, CloneInv, ArrivedInv, MasterInBarrier, SlaveInBarrier
<1>5. Counted' = {} /\ Exited' = Exited
  <2>1. left'[0] = left[0] + 1 /\ left[0] \in Nat
    BY DEF TypeInv
  <2>2. \A c \in Slaves : left'[c] = left[c]
    BY DEF TypeInv
  <2>3. \A c \in Slaves : left'[c] # left'[0]
    BY <1>2, <2>1, <2>2
  <2>4. Counted' = {}
    BY <2>3 DEF Counted
  <2>5. Exited' = Exited
    BY DEF TypeInv, Exited
  <2> QED BY <2>4, <2>5
<1>6. RoundInv'
  BY <1>2, <1>5 DEF TypeInv, RoundInv, Lags
<1>7. ExitInv'
  BY <1>5 DEF TypeInv, ExitInv
<1> QED BY <1>3, <1>4, <1>6, <1>7

-----------------------------------------------------------------------------
(* A slave that sees the barrier begin is at the one where CPU 0 waits. *)
LEMMA SeesEnableKeeps ==
    ASSUME BarrierInv, NEW c \in Slaves, SeesEnable(c)
    PROVE  BarrierInv'
<1> USE CpuNumbers DEF BarrierInv, SeesEnable, Goto, barrier_vars, loop_vars
<1>1. TypeInv'
  BY DEF TypeInv, MasterPlaces, SlavePlaces
<1>2. CloneInv' /\ ArrivedInv'
  BY DEF TypeInv, CloneInv, ArrivedInv, MasterInBarrier, SlaveInBarrier
<1>3. Counted' = Counted /\ Exited' = Exited
  BY DEF TypeInv, Counted, Exited
<1>4. RoundInv'
  BY <1>3 DEF TypeInv, RoundInv, Lags
<1>5. ExitInv'
  BY <1>3 DEF TypeInv, ExitInv
<1> QED BY <1>1, <1>2, <1>4, <1>5

(* clib_smp_atomic_add counts one slave more. *)
LEMMA AddSlaveKeeps ==
    ASSUME BarrierInv, NEW c \in Slaves, AddSlave(c)
    PROVE  BarrierInv'
<1> USE CpuNumbers DEF BarrierInv, AddSlave, Goto, loop_vars
<1>1. TypeInv'
  BY DEF TypeInv, MasterPlaces, SlavePlaces
<1>2. CloneInv' /\ ArrivedInv'
  BY DEF TypeInv, CloneInv, ArrivedInv, MasterInBarrier, SlaveInBarrier
<1>3. c \notin Counted /\ Counted' = Counted \cup {c} /\ Exited' = Exited
  BY DEF TypeInv, Counted, Exited, RoundInv, Lags
<1>4. Cardinality(Counted') = Cardinality(Counted) + 1
  BY <1>3, CountedFinite, FS_AddElement
<1>5. RoundInv'
  BY <1>3, <1>4 DEF TypeInv, RoundInv, Lags
<1>6. ExitInv'
  BY <1>3 DEF TypeInv, ExitInv
<1> QED BY <1>1, <1>2, <1>5, <1>6

(* A slave that sees the barrier end was lagging behind, and catches up. *)
LEMMA SeesDisableKeeps ==
    ASSUME BarrierInv, NEW c \in Slaves, SeesDisable(c)
    PROVE  BarrierInv'
<1> USE CpuNumbers DEF BarrierInv, SeesDisable, Leave, Goto, barrier_vars, loop_vars
<1>1. c \notin Counted /\ Lags(c)
  BY DEF RoundInv, TypeInv, Counted
<1>2. TypeInv'
  BY DEF TypeInv, MasterPlaces, SlavePlaces
<1>3. CloneInv' /\ ArrivedInv'
  BY DEF TypeInv, CloneInv, ArrivedInv, MasterInBarrier, SlaveInBarrier
<1>4. Counted' = Counted /\ Exited' = Exited
  BY <1>1 DEF TypeInv, Counted, Exited, Lags
<1>5. RoundInv'
  BY <1>1, <1>4 DEF TypeInv, RoundInv, Lags
<1>6. ExitInv'
  BY <1>4 DEF TypeInv, ExitInv
<1> QED BY <1>2, <1>3, <1>5, <1>6

-----------------------------------------------------------------------------
(* Every CPU counts itself once. *)
LEMMA ExitKeeps ==
    ASSUME BarrierInv, NEW c \in Cpus, Exit(c)
    PROVE  BarrierInv'
<1> USE CpuNumbers DEF BarrierInv, Exit, ExitCounted, Goto, barrier_vars, loop_vars
<1>1. TypeInv'
  BY DEF TypeInv, MasterPlaces, SlavePlaces
<1>2. CloneInv' /\ ArrivedInv'
  BY DEF TypeInv, CloneInv, ArrivedInv, MasterInBarrier, SlaveInBarrier
<1>3. c \notin Exited /\ Exited' = Exited \cup {c} /\ Counted' = Counted
  BY DEF TypeInv, Counted, Exited
<1>4. Cardinality(Exited') = Cardinality(Exited) + 1
  BY <1>3, CountedFinite, FS_AddElement
<1>5. RoundInv'
  BY <1>3 DEF TypeInv, RoundInv, Lags
<1>6. ExitInv'
  BY <1>3, <1>4 DEF TypeInv, ExitInv
<1> QED BY <1>1, <1>2, <1>5, <1>6

(* CPU 0 goes on when all are counted: then every slave has exited. *)
LEMMA AllExitedKeeps ==
    ASSUME BarrierInv, AllExited
    PROVE  BarrierInv'
<1> USE CpuNumbers DEF BarrierInv, AllExited, Goto, barrier_vars, loop_vars
<1>1. Exited = Cpus
  <2>1. Cardinality(Exited) >= n_cpus
    BY DEF ExitInv
  <2>2. Cardinality(Exited) >= Cardinality(Cpus)
    BY <2>1, CpuSets
  <2> QED BY ONLY <2>2, AllCounted, CountedFinite, CpuSets
<1>2. \A c \in Slaves : pc[c] = "exited"
  BY <1>1 DEF Exited, TypeInv, SlavePlaces
<1>3. TypeInv'
  BY DEF TypeInv, MasterPlaces, SlavePlaces
<1>4. CloneInv' /\ ArrivedInv'
  BY DEF TypeInv, CloneInv, ArrivedInv, MasterInBarrier, SlaveInBarrier
<1>5. Counted' = Counted
  BY DEF TypeInv, Counted
<1>6. RoundInv'
  BY <1>5 DEF TypeInv, RoundInv, Lags
<1>7. ExitInv'
  BY <1>2 DEF TypeInv, ExitInv
<1> QED BY <1>3, <1>4, <1>6, <1>7

-----------------------------------------------------------------------------
(* Every step of every CPU preserves the invariant. *)
LEMMA NextKeeps ==
    ASSUME BarrierInv, [BootNext]_boot_vars
    PROVE  BarrierInv'
<1>1. CASE UNCHANGED boot_vars
  BY <1>1 DEF boot_vars, BarrierInv, TypeInv, CloneInv, ArrivedInv, RoundInv, ExitInv, Lags,
              Counted, Exited
<1>2. CASE Step0
  BY <1>2, CloneKeeps, CallFunctionKeeps, ResetSlavesKeeps, RaiseEnableKeeps,
     LowerEnableKeeps, AllExitedKeeps DEF Step0
<1>3. ASSUME NEW c \in Slaves, SlaveStep(c)
      PROVE  BarrierInv'
  BY <1>3, ThreadCreateKeeps, SeesEnableKeeps, AddSlaveKeeps, SeesDisableKeeps DEF SlaveStep
<1>4. ASSUME NEW c \in Cpus, CpuStep(c)
      PROVE  BarrierInv'
  BY <1>4, ArriveKeeps, ReturnKeeps, ExitKeeps DEF CpuStep
<1> QED BY <1>1, <1>2, <1>3, <1>4 DEF BootNext

(* The strengthened invariant holds in every state of a bootstrap. *)
THEOREM BarrierInvariant == BootSpec => []BarrierInv
BY InitInv, NextKeeps, PTL DEF BootSpec

(* However many CPUs there are and however often they meet, no CPU leaves a
   barrier that another has not reached, and os_smp_bootstrap returns only after
   every other CPU has returned from the function. *)
THEOREM BarrierAlwaysSeparates == BootSpec => []BarrierSeparates
<1>1. ASSUME BarrierInv
      PROVE  BarrierSeparates
  <2> USE <1>1, CpuNumbers DEF BarrierInv
  <2>1. \A c \in Cpus : left[c] <= left[0] /\ left[0] <= arrived[c]
    BY DEF TypeInv, RoundInv, Lags, ArrivedInv, SlaveInBarrier
  <2>2. \A c, d \in Cpus : left[c] <= arrived[d]
    BY <2>1 DEF TypeInv
  <2> QED BY <2>2 DEF BarrierSeparates, ExitInv
<1> QED BY <1>1, BarrierInvariant, PTL
=============================================================================
