\* Two writers of two types, and a ring that they overwrite; handlers that report
\* errors of their own and register handlers.  The other bounds are with the
\* instances in the module.
CONSTANTS
  Writers = {w1, w2}
  Types = {"a", "b"}
  RING_SIZE = 4
  AfterEvents = {0, 1, 3}
  MAX_EVENTS = 5
  MAX_MESSAGES = 3
  MAX_HANDLERS = 2
  MAX_ERRORS = 1
SYMMETRY Symmetry
SPECIFICATION MCSpec
INVARIANTS
  SequencesAreKept
  IndexSetsAgree
  FheapHeapOrdered
  TablesFindWhatWasSet
  AlgorithmsMatchReference
  UnformatPiecesDoNotMatter
  GraphBothHalvesAgree
  EveryHandlerToldOnce
  PeekShowsLastEvents
  TriggerSavesEvent

  
CHECK_DEADLOCK FALSE
