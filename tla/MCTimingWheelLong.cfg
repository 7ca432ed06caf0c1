\* Four bins a wheel and advances of up to four turns: a level can go round to
\* the bin where it was.
CONSTANTS
  Users = {u1}
  log2_clocks_per_bin = 0
  log2_bins_per_wheel = 2
  RelativeBits = 5
  n_wheel_elt_time_bits = 4
  StartTime = 1
  MaxTime = 40
  MaxAhead = 36
  MaxAdvance = 16
  AskNext = {FALSE}
SPECIFICATION Spec
PROPERTY
  ExpiresWhenDue
CHECK_DEADLOCK FALSE
