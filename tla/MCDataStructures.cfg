\* mheap: every size fits in an empty heap; alignment 16 leaves fragments,
\* offset 2 is refused.  heap: three objects in seven elements, with free
\* blocks that are in the bin of a request and too small for it.  hash: tables
\* of 2 to 16 buckets and up to four pairs, so that they grow, shrink and have
\* buckets of no, one, two and three pairs.
CONSTANTS
  max_size = 80
  Sizes = {1, 12, 20}
  Aligns = {0, 16}
  AlignOffsets = {0, 2, 4}
  LOG2_N_SMALL_OBJECT_BINS = 2
  CACHE_BINS = 2
  CACHE_SIZE = 2
  max_len = 7
  MaxObjects = 3
  Requests <- MCRequests
  HEAP_LOG2_SMALL_BINS = 1
  HEAP_N_BINS = 5
  UserPairs <- MCUserPairs
  KeySum <- MCKeySum
  MIN_CAPACITY = 2
  SHRINK_ELTS = 0
  NewSizes = {2, 16}
  UserFlags <- MCUserFlags
SPECIFICATION MCSpec
INVARIANTS
  ValidateHolds
  PutNeverPanics
  ObjectsAsAsked
  RefusedOnlyWhenFull
  HeapValidateHolds
  HeapObjectsAsAllocated
  HashLookupFindsWhatWasSet
  HashFlagsRestored
PROPERTIES
  HashNextReturnsEveryPair
  HeapExtendsOnlyWhenNothingFits
CHECK_DEADLOCK FALSE
