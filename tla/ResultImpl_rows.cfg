SPECIFICATION Spec
CONSTANTS
  Replies <- MCReplies
  Prefetch = 2
INVARIANTS FreeMeansRead ConsumedDeregistered
PROPERTIES Implements StoringEnds
CHECK_DEADLOCK FALSE
