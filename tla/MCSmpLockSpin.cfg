\* Three CPUs on one spin lock: two wait slots, so that the FIFO fills and wraps.
CONSTANTS
  CPUs = {c1, c2, c3}
  CPU0 = c1
  LockTypes = {"spin"}
SPECIFICATION FairSpec
INVARIANTS TypeOK MutualExclusion AssertionsHold WaiterHasHolder
PROPERTIES WaiterServed ImplementsFifoLock
