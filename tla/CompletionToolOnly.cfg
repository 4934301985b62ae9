\* One prompt.
CONSTANTS
  r1 = r1  r2 = r2  r3 = r3
  chat = chat
  alice = alice  mallory = mallory
  Requests = {r1}
  Chats = {chat}
  Users = {alice, mallory}
  Target <- MCTarget
  Caller <- MCCaller
  Owner <- MCOwner
  WeatherPrompts = {}
  ContextWindow = 2
  MaxText = 1
  MaxTools = 1
SPECIFICATION Spec
INVARIANT WhateverWeHaveIsKept
