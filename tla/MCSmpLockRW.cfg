\* Three CPUs that lock for reading and for writing: two can end up with the
\* lock although one of them is a writer.
CONSTANTS
  CPUs = {c1, c2, c3}
  CPU0 = c1
  LockTypes = {"reader", "writer"}
SPECIFICATION Spec
INVARIANT MutualExclusion
CHECK_DEADLOCK FALSE
