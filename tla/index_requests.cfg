SPECIFICATION Spec
CONSTANTS
  Requests = {r1, r2}
  Kinds = {"force", "reuse", "reindex"}
  MaxJobs = 3
  MaxFaults = 1
CONSTRAINT WorthPursuing
SYMMETRY Alike
INVARIANTS TypeOK OneActive NewestStands
PROPERTY GhostOnlyFrom
CHECK_DEADLOCK FALSE
