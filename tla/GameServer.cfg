\* Two players with four tickets for two matches; ana has two addresses.
SPECIFICATION FairSpec
CONSTANTS
  ana = ana
  ben = ben
  derby = derby
  oval = oval
  home = home
  away = away
  port = port
  Players <- TwoPlayers
  Matches <- TwoMatches
  Addrs <- AllAddrs
  Origin <- OwnAddrs
  Tickets <- FourTickets
  MaxPlayers = 2
CHECK_DEADLOCK FALSE
INVARIANT OneRacePerMatch
INVARIANT SeatedSessions
INVARIANT SnapshotsStayInRace
INVARIANT LiveRacesFound
PROPERTY Subscribed
PROPERTY KeepsContracts
