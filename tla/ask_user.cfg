SPECIFICATION LoopSpec
CONSTANTS
  Turn = turn
  Resumes = {r1, r2}
  Asks = {a1, a2}
  Batches <- MCBatches
  Rounds = 1
  Passes = 1
  Nudges = 1
  Crashes = 1
SYMMETRY Symmetry
INVARIANTS LoopTypeOK SuspendedWaits RunsOnlyAccepted AnsweredIsCleared
PROPERTIES RunsAgainOnlyBeside
CHECK_DEADLOCK FALSE
