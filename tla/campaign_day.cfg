SPECIFICATION Spec
CONSTANTS
  ana = ana
  leo = leo
  eva = eva
  daily = daily
  hourly = hourly
  r1 = r1
  r2 = r2
  w1 = w1
  w2 = w2
  e1 = e1
  e2 = e2
  None = None
  Cases = {ana, leo, eva}
  Hits <- Returned
  Own = {ana, leo}
  WithChannel = {ana, eva}
  Days = 2
  Crons = {daily, hourly}
  Caps = {0, 1, 2}
  Created <- ActiveOne
  Calls = {r1, r2}
  Workers = {w1, w2}
  Editors = {e1, e2}
  Bounds <- Mixes
SYMMETRY Symmetric
CHECK_DEADLOCK FALSE
INVARIANTS
  TypeOK
  MessagesNeedDispatch
  CapsHold
  OwnTenantOnly
  ChosenIsSent
  EditsAreKept
  
PROPERTIES
  JobsAreNotRenewed
