SPECIFICATION Spec
CONSTANTS
  t1 = t1
  t2 = t2
  Threads = {t1, t2}
  Tgid <- OneProcess
  MAX_SLOTS = 2
  MAX_ENTRIES = 1
  MAX_ACTIVE = 1
  NsPerUs = 2
  WORD_BITS = 4
  MaxClock = 4
  MaxCalls = 3
INVARIANT
  NoStaleState
