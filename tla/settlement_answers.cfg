SPECIFICATION FairSpec
CONSTANTS
  p1 = p1
  p2 = p2
  c1 = c1
  h1 = h1
  h2 = h2
  None = None
  NoCase = NoCase
  Payments = {p1}
  Cases = {c1}
  Requests = {h1, h2}
  Amount <- Half
  CaseOf <- AllOfC1
  Envelopes <- Mixed
  MpMoves <- Approval
  HasToken = TRUE
  HasSecret = FALSE
  Reachable = {c1}
  NewCase = "ABIERTO"
  InitialDebt <- OwesCents
  Imported = {5000}
  MaxFaults = 1
  MaxEdits = 1
  MaxExpiries = 0
CHECK_DEADLOCK FALSE
INVARIANTS
  PaidIsSettled
PROPERTIES
  EveryNoteAnswered
