\* Two concurrent prompts of the owner on one chat.
CONSTANTS
  r1 = r1  r2 = r2  r3 = r3
  chat = chat
  alice = alice  mallory = mallory
  Requests = {r1, r2}
  Chats = {chat}
  Users = {alice, mallory}
  Target <- MCTarget
  Caller <- MCCaller
  Owner <- MCOwner
  WeatherPrompts = {}
  ContextWindow = 2
  MaxText = 1
  MaxTools = 1
SPECIFICATION Spec
INVARIANTS
  TypeOK AnswerFollowsPrompt PromptSurvives PromptReachesModel
  WireWellFormed StoredIsSent NoSilentLoss RefusalIsTold
PROPERTY StopsAfterNotice
SYMMETRY MCSymmetry
