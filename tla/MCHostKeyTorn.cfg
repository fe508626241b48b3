SPECIFICATION FullyFairSpec
CONSTANTS
  i1 = i1
  i2 = i2
  k1 = k1
  k2 = k2
  k3 = k3
  k4 = k4
  k5 = k5
  k6 = k6
  Absent = Absent
  Torn = Torn
  Denied = Denied
  Instances <- OneInstance
  Keys <- FourKeys
  MaxCrashes = 1
  MaxPowerLosses = 0
PROPERTY
  RestartServes
