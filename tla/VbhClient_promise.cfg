\* Sending never fails; what the user sees, with the timers running.
CONSTANTS
  Handlers = {h1, h2}
  Requests = {r1, r2}
  Contents = {c1}
  Empty = empty
  Unset = unset
  EndorseCount = 1
  SendFails = {}
SPECIFICATION LiveSpec
PROPERTY KeepsPromise
CHECK_DEADLOCK FALSE
