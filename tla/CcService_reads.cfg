\* One request that may write two informations and a user; versions wrap
\* after 2.  The service ends on exit.
CONSTANTS
  r1 = r1
  i1 = i1
  i2 = i2
  u1 = u1
  u2 = u2
  Idle = Idle
  Blank = Blank
  New = New
  Requests = {r1}
  Infos = {i1, i2}
  Users = {u1}
  News = {}
  SysId <- MCSysId
  MaxVersion = 2
  Composes = TRUE
  Orderly = TRUE
SPECIFICATION Spec
INVARIANT WritesFollowReads
INVARIANT InfoIsItsOwn
CHECK_DEADLOCK FALSE
