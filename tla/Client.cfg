\* Two handlers at once and three gestures after the startup, two chats, one
\* restart, and flags that are set twice more, so that it may follow a PATCH.
CONSTANTS
  Handlers = {h1, h2}
  Chats = {c1, c2}
  NoChat = NoChat
  MaxGestures = 3
  MaxStarts = 2
  MaxVersion = 3
SYMMETRY Alike
SPECIFICATION Spec
INVARIANTS ComposerHasChat ScreenIsActive EffectsOnce FlagsAreLearned
PROPERTY Advances
CHECK_DEADLOCK FALSE
