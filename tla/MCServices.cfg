\* The timing wheel: two clocks a bin, two bins a wheel, four bits of relative
\* time.  It starts at a bin boundary and advances by at most one turn (4 clocks)
\* a call; elements up to 20 clocks ahead reach every level and the overflow pool,
\* and 14 clocks rebase the wheel and bring overflow elements back onto it.
\* Four CPUs meet up to three times.  Three timers have delays of nothing, of the
\* resolution and of more.
CONSTANTS
  Users = {u1, u2}
  log2_clocks_per_bin = 1
  log2_bins_per_wheel = 1
  RelativeBits = 4
  n_wheel_elt_time_bits = 3
  StartTime = 2
  MaxTime = 14
  MaxAhead = 20
  MaxAdvance = 4
  AskNext = {FALSE}
  n_cpus = 4
  N_BARRIERS = 3
  Delays = {0, 1, 3}
  time_resolution = 1
  MAX_CALLS = 3
  MAX_CALL_TIME = 3
  MAX_TIME = 7
SPECIFICATION MCSpec
INVARIANTS
  
  BarrierSeparates
  ArmedForEarliest
  SocketDeliversInOrder
  CodecsReadBack
PROPERTIES
  WheelExpiresWhenDue
  EveryTimerIsCalled
  ReturnsFromOneBarrier
CHECK_DEADLOCK FALSE
