SPECIFICATION Spec
CHECK_DEADLOCK FALSE
CONSTANTS
  Spinners = {"spin"}
  Iterations = 2
  MaxRuns = 2
  Durations = {"30s", "1m30s"}
  ProbeTime = 1
INVARIANTS
  TypeOK
  CollectionIsPrefix
  OneWorkload
  SpinnersOutliveOnlyBadSleep
  LoadEndsWithMemlat
PROPERTY
  LoadsEnd
