\* A token that is used after the race of its match was cleaned up.
SPECIFICATION Spec
CONSTANTS
  ana = ana
  ben = ben
  derby = derby
  oval = oval
  home = home
  away = away
  port = port
  Players <- TwoPlayers
  Matches <- TwoMatches
  Addrs <- AllAddrs
  Origin <- OwnAddrs
  Tickets <- FourTickets
  MaxPlayers = 2
CHECK_DEADLOCK FALSE
INVARIANT JoinIsAnswered
