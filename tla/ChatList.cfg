\* Three chats on pages of one and two; two touches may be under way.
CONSTANTS
  Chats = {1, 2, 3}
  PageSizes = {1, 2}
  Asked = {1, 2}
  MobileCap = 1
  MaxTime = 2
  MaxInFlight = 2
  Lag = 1
SPECIFICATION Spec
INVARIANTS StableUnderInserts QuietAreShown
