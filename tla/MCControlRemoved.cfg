SPECIFICATION Spec
CONSTANTS
  a = a
  b = b
  u1 = u1
  u2 = u2
  sys = sys
  Clis <- OneCli
  Actions <- StartAndUninstall
  Named <- OneNamed
  BuiltIn = sys
  Flaky = FALSE
  Events <- Crashes
  MaxCommands = 2
  MaxEvents = 1
INVARIANT
  RemovalStops
