\* Two writers and two readers on a fifo of two elements; the indices start
\* right before they wrap.
CONSTANTS
  Writers = {w1, w2}
  Readers = {r1, r2}
  log2_max_n_elts = 1
  IndexBits = 5
  FirstIndices = {31}
  MaxSerial = 3
  Nothing = Nothing
SPECIFICATION FairSpec
INVARIANTS AssertionsHold ExclusiveUse
PROPERTIES ImplementsSlotQueue EverythingTransferred
