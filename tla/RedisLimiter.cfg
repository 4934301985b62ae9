\* Three requests of one key to two instances, replies up to one tick late.
CONSTANTS
  alice = alice
  Keys = {alice}
  Requests = {r1, r2, r3}
  KeyOf <- MCKeyOf
  Instances = {i1, i2}
  Window = 2
  MaxTime = 4
  MaxDelay = 1
  Limits = {1, 2}
SPECIFICATION RedisLimiterSpec
INVARIANT ResetIsHonoured
PROPERTY RedisKeepsLimiter
SYMMETRY MCSymmetry
CHECK_DEADLOCK FALSE
