\* Two peers, two endorsements; sends on one connection and encryption may fail.
CONSTANTS
  h1 = h1
  h2 = h2
  r1 = r1
  r2 = r2
  c1 = c1
  EsCfg <- Cfg
  Requests = {r1, r2}
  Kinds = {"regist", "unregist", "propose", "user", "trans"}
  Contents = {c1, empty}
  Empty = empty
  Unset = unset
  EndorseCount = 2
  SendFails = {h2}
  EncryptFails = TRUE
SYMMETRY Symmetry
SPECIFICATION Spec
INVARIANT SessionsSound
INVARIANT OwnEndorsement
INVARIANT SubmitOrCancel
INVARIANT SaysReady
PROPERTY KeepsPromise
CHECK_DEADLOCK FALSE
