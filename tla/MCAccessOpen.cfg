SPECIFICATION Spec
CONSTANTS
  u1 = u1
  u2 = u2
  p1 = p1
  p2 = p2
  k1 = k1
  k2 = k2
  Hosts <- MCHosts
  Users <- MCUsers
  Passwords <- MCPasswords
  Keys <- MCKeys
  Empty = Empty
  Broken = Broken
  Absent = Absent
  MaxEdits = 0
INVARIANT
  OpenStaysLocal
