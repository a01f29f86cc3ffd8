SPECIFICATION Spec
CONSTANTS
  Deliverers = {d1, d2}
  MaxCarriers = 2
  MaxFaults = 2
  MaxItems = 1
  MaxInstants = 2
  MaxEdits = 2
INVARIANTS TypeOK Carried SentOnce OncePerInstant
PROPERTIES CancelIsFinal Delivered
CHECK_DEADLOCK FALSE
