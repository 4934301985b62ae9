\* Five messages on pages of two; inserts take up to one instant.
CONSTANTS
  Messages = {m1, m2, m3, m4, m5}
  HISTORY_PAGE_SIZE = 2
  LimitedCounts = {1, 3}
  MaxTime = 3
  MaxShown = 4
  Lag = 1
SYMMETRY Ids
SPECIFICATION Spec
INVARIANTS MissedOnlyBehind Chronological EndsWithTheLatest
