SPECIFICATION Spec
CONSTANTS
  Threads = {t1, t2}
  Lookups = {l1, l2}
  Admins = {ada, bob}
  Unset = None
  Ttl = 2
  MaxLlmVersions = 3
  MaxVersions = 3
  MaxTime = 5
SYMMETRY CachesSymmetry
CONSTRAINT OneService
INVARIANTS
  ReloadedSettingsAreUsed
  TaggingSettingsAreRecent
CHECK_DEADLOCK FALSE
