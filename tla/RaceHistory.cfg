\* Readers while the derby is written: pages of one and two races, the best two laps.
SPECIFICATION SysFairSpec
CONSTANTS
  ana = ana
  ben = ben
  first = first
  derby = derby
  last = last
  oval = oval
  Races <- FourRaces
  Players <- TwoPlayers
  Results <- SomeResults
  FaultBound = 2
  Old <- OldRaces
  FinishedAt <- Times
  BestLap <- SomeLaps
  Reader = ana
  Limits = {1, 3}
  MaxPage = 2
  Asked <- Derby
  OnTrack <- FourRaces
  TopN = 2
CHECK_DEADLOCK FALSE
INVARIANT HistoryTypeOK
INVARIANT AllOrNothing
INVARIANT OneFailureMadeUpFor
INVARIANT PagesPartition
INVARIANT DetailIsWhole
PROPERTY StoredStays
PROPERTY BoardNeverWorse
PROPERTY CallbackReturns
