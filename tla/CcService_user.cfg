\* Two users whose numbers are also versions.
CONSTANTS
  r1 = r1
  i1 = i1
  i2 = i2
  u1 = u1
  u2 = u2
  Idle = Idle
  Blank = Blank
  New = New
  Requests = {r1}
  Infos = {}
  Users = {u1, u2}
  News = {}
  SysId <- MCSysId
  MaxVersion = 2
  Composes = TRUE
  Orderly = TRUE
SPECIFICATION Spec
INVARIANT UserIsItsOwn
CHECK_DEADLOCK FALSE
