SPECIFICATION Spec
CONSTANTS
  r1 = r1
  r2 = r2
  Requests = {r1, r2}
  MAX_SLOTS = 2
  MAX_ENTRIES = 1
  NsPerUs = 2
  WORD_BITS = 4
  Times = {3, 8}
  MaxIssues = 3
SYMMETRY Symmetry
INVARIANT
  NoStaleRequestState
