SPECIFICATION FairSpec
CONSTANTS
  NoOne = NoOne
  Workers = {w1}
  Modes = {"index"}
  Routes = {"pool"}
  Verdicts = {"failed_ocr"}
  Events = {"watchdog", "lapse", "restart"}
  MaxQueue = 1
  MaxAsks = 1
  MaxFaults = 1
PROPERTY Settles
CHECK_DEADLOCK FALSE
