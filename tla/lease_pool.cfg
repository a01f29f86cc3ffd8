SPECIFICATION Spec
CONSTANTS
  NoOne = NoOne
  Workers = {w1, w2}
  Modes = {"index", "subscription_pipeline", "pageindex"}
  Routes = {"pool"}
  Verdicts = {"done", "failed"}
  Events = {"user_cancel", "watchdog", "restart", "lapse", "delete"}
  MaxQueue = 1
  MaxAsks = 2
  MaxFaults = 1
CONSTRAINT WorthPursuing
SYMMETRY Slots
INVARIANTS ExclusiveLease OneClaimInProcess
PROPERTY CancelLosesOnlyTo
CHECK_DEADLOCK FALSE
