\* Reads of three quarters of a buffer: two of them in a row may need the
\* overflow buffer.
CONSTANTS
  N_BUFFER = 4
  MAX_PUT = 6
  MAX_GET = 3
  MAX_BYTES = 11
  SHORTEST_READ = 4
SPECIFICATION Spec
INVARIANTS StreamKeepsBytes
CHECK_DEADLOCK FALSE
