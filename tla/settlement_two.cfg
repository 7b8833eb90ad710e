SPECIFICATION Spec
CONSTANTS
  p1 = p1
  p2 = p2
  c1 = c1
  h1 = h1
  h2 = h2
  None = None
  NoCase = NoCase
  Payments = {p1, p2}
  Cases = {c1}
  Requests = {h1, h2}
  Amount <- TwoHalves
  CaseOf <- AllOfC1
  Envelopes <- Headers
  MpMoves <- Refunds
  HasToken = TRUE
  HasSecret = TRUE
  Reachable = {c1}
  NewCase = "OPEN"
  InitialDebt <- Owes100
  Imported = {}
  MaxFaults = 0
  MaxEdits = 0
  MaxExpiries = 0
CHECK_DEADLOCK FALSE
INVARIANTS
  RecordedWasReported
  QuietIsRecorded
  QuietIsClosed
PROPERTIES
  ImplementsLedger
