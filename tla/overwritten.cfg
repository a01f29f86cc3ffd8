SPECIFICATION Spec
CONSTANTS
  NoOne = NoOne
  Workers = {w1, w2}
  Modes = {"index"}
  Routes = {"celery", "pool"}
  Verdicts = {"done"}
  Events = {}
  MaxQueue = 1
  MaxAsks = 1
  MaxFaults = 0
SYMMETRY Slots
INVARIANTS NeverDoneUnparsed OnePoolRun
CHECK_DEADLOCK FALSE
