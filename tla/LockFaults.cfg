\* Renewals run late, or throw, and processes die.
SPECIFICATION Spec
CONSTANTS
  p1 = p1
  p2 = p2
  s1 = s1
  s2 = s2
  Procs = {p1, p2}
  Slots = {s1, s2}
  Lease = 4
  Delay = 2
  DbFails = TRUE
  MaxCrashes = 2
PROPERTIES LeaseRespected NeverWedged
