\* One flag of each type; integers on both sides of every bound.
CONSTANTS
  Switches = {"AI_TOOLS_ENABLED"}
  PageSizes = {"PAGINATION_LIMIT"}
  Counts = {"RATE_LIMIT_PER_MINUTE"}
  Samples = {0, 9, 10, 100, 101}
SPECIFICATION Spec
INVARIANT NeverPoisoned
PROPERTIES AcceptedMeansApplied ChangesAreTold
CHECK_DEADLOCK FALSE
