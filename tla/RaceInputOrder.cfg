\* The deployed wiring: nobody uses JoinMsg or LeaveMsg.
SPECIFICATION Spec
CONSTANTS
  racer = racer
  rival = rival
  guest = guest
  Players <- RacerAndGuest
  MaxPlayers = 2
  MaxLaps = 1
  Waypoints = 1
  Seqs = {1, 2}
  Joiners = {}
  Leavers = {}
  JoinCap = 1
  LeaveCap = 1
  InputCap = 2
  SnapshotCap = 1
  LeaveBound = 2
PROPERTY InputsInOrder
