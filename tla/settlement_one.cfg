SPECIFICATION Spec
CONSTANTS
  p1 = p1
  p2 = p2
  c1 = c1
  h1 = h1
  h2 = h2
  None = None
  NoCase = NoCase
  Payments = {p1}
  Cases = {c1}
  Requests = {h1, h2}
  Amount <- Whole
  CaseOf <- AllOfC1
  Envelopes <- BothControllers
  MpMoves <- Life
  HasToken = TRUE
  HasSecret = TRUE
  Reachable = {c1}
  NewCase = "OPEN"
  InitialDebt <- Owes100
  Imported = {}
  MaxFaults = 1
  MaxEdits = 0
  MaxExpiries = 1
SYMMETRY RequestSymmetry
CHECK_DEADLOCK FALSE
INVARIANTS
  TypeOK
  OneRequestPerKey
  ConfirmedOncePerKey
  ConfirmedWasApproved
