\* Four requests of one key and one of another, time for two windows.
CONSTANTS
  alice = alice  bob = bob
  other = other
  Keys = {alice, bob}
  Requests = {r1, r2, r3, r4, other}
  KeyOf <- MCKeyOf
  i1 = i1
  Instances = {i1}
  Process = i1
  Window = 2
  MaxTime = 4
  MaxCount = 4
  Limits = {1, 2}
SPECIFICATION MapLimiterSpec
PROPERTIES MapKeepsLimiter SweepIsInvisible
SYMMETRY MCSymmetry
CHECK_DEADLOCK FALSE
