SPECIFICATION FairSpec
CONSTANTS
  Count = 4
  MaxParallel = 2
INVARIANTS TypeOK NeverGivesUp UpstreamFirst WithinLimit OnlyFailuresBlock
PROPERTIES TurnAnswered ImplementsOrder
CHECK_DEADLOCK FALSE
