\* One client that joins, drives and lets go.
SPECIFICATION Spec
CONSTANTS
  ana = ana
  ben = ben
  Clients <- OneClient
  JoinBytes <- OneSize
  Buffer = 2048
  MaxFrame = 65536
  OutCap = 1
  WayBound = 1
CHECK_DEADLOCK FALSE
INVARIANT InputsAreQueued
