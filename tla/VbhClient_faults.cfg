\* Sending may fail on every connection, and a content may be empty.
CONSTANTS
  Handlers = {h1, h2}
  Requests = {r1, r2}
  Contents = {c1, c2, empty}
  Empty = empty
  Unset = unset
  EndorseCount = 2
  SendFails = {h1, h2}
SYMMETRY Symmetry
SPECIFICATION Spec
INVARIANT NoMixedEndorsement
INVARIANT LinksConnected
CHECK_DEADLOCK FALSE
