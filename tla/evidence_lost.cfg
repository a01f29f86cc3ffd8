SPECIFICATION Spec
CONSTANTS
  Count = 3
  MaxParallel = 2
INVARIANT EvidenceIsUsed
CHECK_DEADLOCK FALSE
