SPECIFICATION FairSpec
CONSTANTS
  Turn = turn
  Resumes = {r1}
  Asks = {a1}
  Batches <- MCBatches
  Rounds = 2
  Passes = 2
  Nudges = 1
  Crashes = 1
  SupervisorRounds = 2
  SpecialistNudges = 1
INVARIANTS TypeOK OneAnswer
PROPERTIES TurnCloses EveryStreamEnds
CHECK_DEADLOCK FALSE
