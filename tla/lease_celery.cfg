SPECIFICATION Spec
CONSTANTS
  NoOne = NoOne
  Workers = {w1, w2}
  Modes = {"index", "reindex"}
  Routes = {"celery"}
  Verdicts = {"done", "failed_ocr"}
  Events = {"user_cancel", "clear", "redeliver", "lost_worker", "limit", "delete"}
  MaxQueue = 1
  MaxAsks = 1
  MaxFaults = 1
CONSTRAINT Unbroken
SYMMETRY Slots
INVARIANTS TypeOK LeaseInv ExclusiveLease ClaimedOnce MarkMeansParsed
PROPERTY CancelLosesOnlyTo
CHECK_DEADLOCK FALSE
