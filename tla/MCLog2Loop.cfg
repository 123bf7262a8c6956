SPECIFICATION Spec
CONSTANTS
  WORD_BITS = 8
  MEMLAT_SLOTS = 6
  RUNQLAT_SLOTS = 8
  IOLAT_SLOTS = 4
INVARIANTS
  TypeOK
  BucketIsFloorLog2
  LoopsComputeOperators
PROPERTY
  Returns
  LoopsAreBounded
