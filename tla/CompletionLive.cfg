\* Two callers of one chat, its owner asking for the weather and a stranger.
CONSTANTS
  r1 = r1  r2 = r2  r3 = r3
  chat = chat
  alice = alice  mallory = mallory
  Requests = {r1, r3}
  Chats = {chat}
  Users = {alice, mallory}
  Target <- MCTarget
  Caller <- MCCaller
  Owner <- MCOwner
  WeatherPrompts = {r1}
  ContextWindow = 2
  MaxText = 1
  MaxTools = 1
SPECIFICATION FairSpec
INVARIANT Isolation
PROPERTIES EveryRequestEnds SuccessIsStored KeepsContract
