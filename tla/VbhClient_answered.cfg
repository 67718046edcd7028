\* Sending may fail; every request is answered.
CONSTANTS
  Handlers = {h1, h2}
  Requests = {r1, r2}
  Contents = {c1}
  Empty = empty
  Unset = unset
  EndorseCount = 1
  SendFails = {h1, h2}
SPECIFICATION LiveSpec
PROPERTY AskedIsAnswered
CHECK_DEADLOCK FALSE
