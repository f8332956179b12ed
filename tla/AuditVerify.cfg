SPECIFICATION Spec
CONSTANTS
  None = None
  Replicas = {r1, r2}
  Capacity = 1
  SegmentLines = 2
  MaxRequests = 6
  MaxFailures = 0
INVARIANTS
  UntamperedVerifies
SYMMETRY Symmetry
CHECK_DEADLOCK FALSE
