SPECIFICATION FairSpec
CONSTANTS
  c1 = c1
  c2 = c2
  c3 = c3
  Conns <- MCConns
INVARIANTS
  TypeOK
  StopFreesPort
  RecordsReachTheLog
PROPERTIES
  IsADaemon
  StopEnds
