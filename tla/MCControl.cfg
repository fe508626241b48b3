SPECIFICATION Spec
CONSTANTS
  a = a
  b = b
  u1 = u1
  u2 = u2
  sys = sys
  Clis <- TwoClis
  Actions <- AllActions
  Named <- MCNamed
  BuiltIn = sys
  Flaky = TRUE
  Events <- AllEvents
  MaxCommands = 3
  MaxEvents = 1
INVARIANTS
  TypeOK
  NoStrayGrant
  RemovedMeansStopped
PROPERTY
  RightIsMended
