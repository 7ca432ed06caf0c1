\* Three nodes and up to three links, as in the passing run of MCContainers.
CONSTANTS
  N_NODES = 3
  Distances = {1}
  MAX_LINKS = 3
SPECIFICATION Spec
INVARIANTS NodesAreDeleted
CHECK_DEADLOCK FALSE
