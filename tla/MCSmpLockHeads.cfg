\* Three CPUs that lock for reading and for writing, as long as the waiters are
\* found in their slots.
CONSTANTS
  CPUs = {c1, c2, c3}
  CPU0 = c1
  LockTypes = {"reader", "writer"}
SPECIFICATION Spec
ACTION_CONSTRAINT HeadsInPlace
INVARIANT HeaderAccountsForHolders
CHECK_DEADLOCK FALSE
