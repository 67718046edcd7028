\* Two requests of an information and a key to create; the service ends on exit.
CONSTANTS
  r1 = r1
  r2 = r2
  n1 = n1
  i1 = i1
  i2 = i2
  u1 = u1
  u2 = u2
  Idle = Idle
  Blank = Blank
  New = New
  Requests = {r1, r2}
  Infos = {i1}
  Users = {}
  News = {n1}
  SysId <- MCSysId
  MaxVersion = 1
  Composes = TRUE
  Orderly = TRUE
SPECIFICATION LiveSpec
INVARIANT TypeOK
PROPERTY KeepsPromise
CHECK_DEADLOCK FALSE
