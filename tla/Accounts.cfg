\* Two clients, two requests each, up to two failing statements.
SPECIFICATION FairSpec
CONSTANTS
  ana = ana
  ben = ben
  mail = mail
  MAIL = MAIL
  junk = junk
  good = good
  long = long
  other = other
  Clients <- TwoClients
  Emails <- OneEmail
  Inputs <- Spellings
  Address <- Parsed
  Passwords <- Some
  Length <- Bytes
  Significant <- Prefix
  MaxConns = 2
  AskBound = 2
  FaultBound = 2
CHECK_DEADLOCK FALSE
INVARIANT TypeOK
INVARIANT AccountsWhole
INVARIANT AnsweredOnMerits
PROPERTY ShutdownEnds
PROPERTY ImplementsStore
