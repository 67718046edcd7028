\* Answers to a failed request count for the next one.
CONSTANTS
  Handlers = {h1, h2}
  Requests = {r1, r2}
  Contents = {c1}
  Empty = empty
  Unset = unset
  EndorseCount = 2
  SendFails = {h1, h2}
SYMMETRY Symmetry
SPECIFICATION Spec
INVARIANT CountsOwnEndorsers
CHECK_DEADLOCK FALSE
