\* Three players for two seats, one of whom comes and goes through the channels.
SPECIFICATION Spec
CONSTANTS
  racer = racer
  rival = rival
  guest = guest
  Players <- Everybody
  MaxPlayers = 2
  MaxLaps = 2
  Waypoints = 3
  Seqs = {1}
  Joiners <- OneGuest
  Leavers <- OneGuest
  JoinCap = 1
  LeaveCap = 1
  InputCap = 1
  SnapshotCap = 1
  LeaveBound = 2
INVARIANT TypeOK
INVARIANT Capacity
INVARIANT Ranking
INVARIANT LapAccounting
INVARIANT EndsForAReason
PROPERTY FrozenRace
PROPERTY ParkedCar
PROPERTY NoJumpStart
PROPERTY ImplementsLifecycle
