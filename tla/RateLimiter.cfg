\* Four requests of one key, two instances whose flags move between 1 and 2.
CONSTANTS
  alice = alice
  Keys = {alice}
  Requests = {r1, r2, r3, r4}
  KeyOf <- MCKeyOf
  Instances = {i1, i2}
  Window = 2
  MaxTime = 3
  Limits = {1, 2}
SPECIFICATION RateSpec
INVARIANTS CountsAreDistinct WindowLimit SlidingLimit RefusalIsJustified
SYMMETRY MCSymmetry
CHECK_DEADLOCK FALSE
