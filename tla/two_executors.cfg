SPECIFICATION Spec
CONSTANTS
  NoOne = NoOne
  Workers = {w1, w2}
  Modes = {"index"}
  Routes = {"celery"}
  Verdicts = {"done"}
  Events = {}
  MaxQueue = 2
  MaxAsks = 2
  MaxFaults = 0
INVARIANT AtMostOneExecutor
CHECK_DEADLOCK FALSE
