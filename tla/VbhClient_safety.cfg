\* Three connections, two endorsements each; sending never fails; a chaincode returns content.
CONSTANTS
  Handlers = {h1, h2, h3}
  Requests = {r1, r2}
  Contents = {c1, c2}
  Empty = empty
  Unset = unset
  EndorseCount = 2
  SendFails = {}
SYMMETRY Symmetry
SPECIFICATION Spec
INVARIANT TypeOK
INVARIANT EndorsedSubmit
INVARIANT SubmittedOnce
INVARIANT OwnAnswers
INVARIANT SubmitOrCancel
CHECK_DEADLOCK FALSE
