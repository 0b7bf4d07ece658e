CONSTANTS
  Written <- AllWritten

SPECIFICATION Spec
INVARIANTS CyclesAreRefused ChainIsInOrder
CHECK_DEADLOCK FALSE
