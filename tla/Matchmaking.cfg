\* Two handlers assign a player to matches again and again while one verifier
\* consumes its tokens.
SPECIFICATION FairSpec
CONSTANTS
  ana = ana
  ben = ben
  cid = cid
  handler = handler
  other = other
  verifier = verifier
  Players <- OnePlayer
  Requests <- TwoHandlers
  Verifiers <- OneVerifier
  MaxPlayersPerMatch = 2
  MaxConns = 3
  TokenTTL = 1
  Horizon = 1
  JoinBound = 4
CHECK_DEADLOCK FALSE
INVARIANT TypeOK
INVARIANT OverbookingBounded
INVARIANT SingleUse
PROPERTY ImplementsTokens
PROPERTY JoinAnswered
