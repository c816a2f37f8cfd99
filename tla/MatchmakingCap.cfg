\* Three players join one after the other a match of two.
SPECIFICATION Spec
CONSTANTS
  ana = ana
  ben = ben
  cid = cid
  handler = handler
  other = other
  verifier = verifier
  Players <- Trio
  Requests <- OneHandler
  Verifiers <- OneVerifier
  MaxPlayersPerMatch = 2
  MaxConns = 2
  TokenTTL = 1
  Horizon = 1
  JoinBound = 3
CHECK_DEADLOCK FALSE
INVARIANT MatchCap
