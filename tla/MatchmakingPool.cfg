\* As many handlers as connections.
SPECIFICATION FairSpec
CONSTANTS
  ana = ana
  ben = ben
  cid = cid
  handler = handler
  other = other
  verifier = verifier
  Players <- BothPlayers
  Requests <- TwoHandlers
  Verifiers <- NoVerifier
  MaxPlayersPerMatch = 2
  MaxConns = 2
  TokenTTL = 1
  Horizon = 1
  JoinBound = 3
CHECK_DEADLOCK FALSE
PROPERTY JoinAnswered
