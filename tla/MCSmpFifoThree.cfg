\* Three writers: one that has claimed an element and not marked it yet can
\* be overtaken by two others.
CONSTANTS
  Writers = {w1, w2, w3}
  Readers = {r1}
  log2_max_n_elts = 1
  IndexBits = 5
  FirstIndices = {0}
  MaxSerial = 1
  Nothing = Nothing
SPECIFICATION Spec
INVARIANTS AssertionsHold
