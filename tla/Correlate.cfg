SPECIFICATION Spec
CONSTANTS
  TaskCount = 3
  Usages = {u1, u2, u3}
  s1 = s1
  p1 = p1
  Sessions = {s1}
  Projects = {p1}
  None = None
  Slop = 1
  Attributions <- MCAttributions
  UsageRecords <- MCUsageRecords
SYMMETRY Symmetry
INVARIANTS TypeOK ChargedOnce NearestTaskIsCharged NothingIsStranded TotalsAddUp
CHECK_DEADLOCK FALSE
