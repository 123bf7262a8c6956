SPECIFICATION Spec
CONSTANTS
  c1 = c1
  c2 = c2
  t1 = t1
  t2 = t2
  idle = idle
  Cpus = {c1}
  Tasks = {t1, t2}
  Idle = idle
  MAX_SLOTS = 2
  MAX_ENTRIES = 1
  NsPerUs = 2
  TailUs = 2
  WORD_BITS = 4
  Times = {1, 4}
  MaxWakes = 2
SYMMETRY TaskSymmetry
INVARIANTS
  TypeOK
  NoSampleInvented
  NoSampleLost
  StaleStartsAreExplained
PROPERTY
  RecordsFaithfully
