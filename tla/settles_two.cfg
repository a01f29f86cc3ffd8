SPECIFICATION FairUnbrokenSpec
CONSTANTS
  NoOne = NoOne
  Workers = {w1, w2}
  Modes = {"index"}
  Routes = {"celery"}
  Verdicts = {"done"}
  Events = {"watchdog", "lapse", "lost_worker", "delete", "clear"}
  MaxQueue = 1
  MaxAsks = 1
  MaxFaults = 1
PROPERTIES Settles ImplementsLock
CHECK_DEADLOCK FALSE
