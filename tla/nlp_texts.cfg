SPECIFICATION Spec
SYMMETRY Slots
CONSTANTS
  ana = ana
  eva = eva
  leo = leo
  promise = promise
  again = again
  stop = stop
  vague = vague
  w1 = w1
  w2 = w2
  None = None
  Contacts = {ana, eva, leo}
  PhoneOf <- OwnPhones
  OpenCases = {ana}
  Numbered = {ana, leo}
  Texts = {promise, again, stop, vague}
  IdOf <- Ids
  FromOf <- Senders
  WordsOf <- Says
  AttemptsOf <- Tries
  Workers = {w1, w2}
  MaxTexts = 2
  MaxFaults = 1
CHECK_DEADLOCK FALSE
INVARIANTS
  TypeOK
  OnceOrForCause
  EffectOrCause
  AnswerNeedsDelay
