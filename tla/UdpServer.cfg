\* Two clients, one of them with a join that is cut off.
SPECIFICATION FairSpec
CONSTANTS
  ana = ana
  ben = ben
  Clients <- TwoClients
  JoinBytes <- Sizes
  Buffer = 2048
  MaxFrame = 65536
  OutCap = 1
  WayBound = 2
CHECK_DEADLOCK FALSE
INVARIANT TypeOK
INVARIANT JoinedIsSeated
PROPERTY NothingAfterClose
PROPERTY ServerStops
