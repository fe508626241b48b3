SPECIFICATION FairSpec
CONSTANT
  TicksPerSecond = 4
INVARIANT
  TypeOK
PROPERTIES
  TimerIsNeverRefused
  RestartsAfterFailure
