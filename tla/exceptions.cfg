\* Two functions, one below the outlet of the other, and what the second one's
\* outlet reads, with up to two values to read at each.
CONSTANTS
  MaxDepth = 7
  MaxReads = 2
SPECIFICATION Spec
INVARIANTS
  ExceptionsTypeOK
  CutMessagesAreNoticed
PROPERTY EveryMessageEnds
CHECK_DEADLOCK FALSE
