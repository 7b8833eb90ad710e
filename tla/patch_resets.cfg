SPECIFICATION Spec
CONSTANTS
  reminder = reminder
  promise = promise
  es_AR = es_AR
  es_MX = es_MX
  t1 = t1
  t2 = t2
  r1 = r1
  w1 = w1
  w2 = w2
  None = None
  Slots = {reminder, promise}
  Locales = {es_AR, es_MX}
  Default = es_AR
  Ids = {t1, t2}
  Seeded <- One
  Posts <- SomePosts
  Patches <- SomePatches
  Readers = {r1}
  Writers = {w1, w2}
  MaxEdits = 2
  MaxFaults = 0
CHECK_DEADLOCK FALSE
INVARIANTS
  PatchKeepsTheRest
