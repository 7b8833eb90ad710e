SPECIFICATION Spec
CONSTANTS
  ana = ana
  eva = eva
  leo = leo
  stop = stop
  promise = promise
  vague = vague
  r1 = r1
  r2 = r2
  w1 = w1
  w2 = w2
  None = None
  Contacts = {ana, eva, leo}
  TenantOf <- Tenants
  AddressOf <- Addresses
  Verbatim = {ana, eva}
  Reachable = {ana, eva, leo}
  StatusOf <- Statuses
  Payers = {eva}
  Texts = {promise, vague, stop}
  FromOf <- EvaStops
  WordsOf <- Says
  KindOf <- Kinds
  Payloads <- LeoPromises
  CallTenant <- Tenant1
  CallCase <- NoCase
  Requests = {r1, r2}
  Workers = {w1, w2}
  MaxFaults = 1
SYMMETRY Symmetric
CHECK_DEADLOCK FALSE
INVARIANTS
  TypeOK
  OneJobPerText
  EffectsNeedCause
  PromiseIsRecorded
  SilencedOnRequest
  RestingIsHandled
