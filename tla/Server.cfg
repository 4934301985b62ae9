\* Three requests for a limit of one, so that a limit per counter can be exceeded
\* after a restart too; one may be a second user's.  The process is started twice.
\* No symmetry: the run checks liveness.
CONSTANTS
  u1 = u1  u2 = u2
  r1 = r1  r2 = r2  r3 = r3
  Requests = {r1, r2, r3}
  Users = {u1, u2}
  Kinds <- MCKinds
  Configs <- MCConfigs
  Limit = 1
  MaxStarts = 2
  MaxClosing = 1
SPECIFICATION FairSpec
INVARIANT WindowAcrossRestarts
PROPERTIES RefusedOnlyWhenSpent StatusIsFinal EveryRequestEnds ShutdownEnds
CHECK_DEADLOCK FALSE
