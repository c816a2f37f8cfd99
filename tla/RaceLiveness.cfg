\* Liveness under fairness.
SPECIFICATION FairSpec
CONSTANTS
  racer = racer
  rival = rival
  guest = guest
  Players <- RacerAndGuest
  MaxPlayers = 2
  MaxLaps = 1
  Waypoints = 1
  Seqs = {1}
  Joiners <- OneGuest
  Leavers <- OneGuest
  JoinCap = 1
  LeaveCap = 1
  InputCap = 1
  SnapshotCap = 1
  LeaveBound = 1
PROPERTY ShutdownCompletes
PROPERTY FinishCompletes
PROPERTY EmptyRaceReaped
