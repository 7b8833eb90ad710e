SPECIFICATION Spec
CONSTANTS
  ana = ana
  eva = eva
  leo = leo
  stop = stop
  promise = promise
  vague = vague
  r1 = r1
  r2 = r2
  w1 = w1
  w2 = w2
  None = None
  Contacts = {leo}
  TenantOf <- OneTenant
  AddressOf <- Addresses
  Verbatim = {}
  Reachable = {leo}
  StatusOf <- Statuses
  Payers = {}
  Texts = {stop}
  FromOf <- AllLeo
  WordsOf <- Says
  KindOf <- Kinds
  Payloads = {}
  CallTenant <- Tenant1
  CallCase <- NoCase
  Requests = {r1}
  Workers = {w1}
  MaxFaults = 0
CHECK_DEADLOCK FALSE
INVARIANT ToldIsSilenced
